------------------------------ MODULE ConnPools ------------------------------
(***************************************************************************)
(* The pools of TCP connections that are opened to upstream proxies ahead  *)
(* of the CONNECT that will use them (pools.py, class ConnectionPools):    *)
(*                                                                         *)
(*   P1  _conn_pool    one stack per proxy, kept at conn_pool_refill_target*)
(*                     by one background loop (the Refiller);              *)
(*   P2  _target_pool  one stack per (proxy, target), filled to cap by     *)
(*                     fire-and-forget tasks (the Prewarmers).             *)
(*                                                                         *)
(* Everything runs in one event loop, so a worker is interrupted only at   *)
(* its `await open_resolved(...)`: the code between two awaits is one      *)
(* action here.  A request takes its connection without any await.         *)
(*                                                                         *)
(* A connection is a number and larger means opened later, so the top of a *)
(* stack is the largest number of its bucket.  Time is what a connection   *)
(* has left of the idle timeout that _pool_prune will hold it to.          *)
(***************************************************************************)
EXTENDS Integers, FiniteSets, Sequences

CONSTANTS
    Proxies,                    \* host:port keys of the registered proxies
    ProxyList,                  \* proxy_store.list(), in registration order
    Targets,                    \* CONNECT targets
    NoTarget,                   \* the target of a P1 connection
    Prewarmers,                 \* tasks that _spawn_target_prewarm may create
    Refiller,                   \* the task of _conn_pool_loop
    conn_pool_total,
    conn_pool_per_proxy,
    conn_pool_refill_target,
    cap,                        \* default argument of _target_pool_refill
    conn_pool_idle_timeout,
    cluster_pool_idle_timeout,
    MaxConns                    \* bound: connections upstreams accept in a behaviour

ASSUME NamesAssumption ==
    /\ ProxyList \in Seq(Proxies)
    /\ NoTarget \notin Targets
    /\ Refiller \notin Prewarmers
    /\ IsFiniteSet(Prewarmers)

ASSUME SizesAssumption ==
    /\ MaxConns \in Nat
    /\ conn_pool_total \in Nat \ {0}
    /\ conn_pool_per_proxy \in Nat \ {0}
    /\ conn_pool_refill_target \in 0..conn_pool_per_proxy
    /\ cap \in Nat
    /\ conn_pool_idle_timeout \in Nat \ {0}
    /\ cluster_pool_idle_timeout \in Nat \ {0}

VARIABLES
    pool,             \* connections lying in a stack, and what is known of each
    opened,           \* number of connections opened so far
    worker,           \* worker[w]: where the task w stands
    todo,             \* proxies the refill round has not passed, or gave up on
    pending,          \* _pending_creates, _pending_creates_by_key / _by_bucket
    proxyConnCount,   \* _proxy_conn_count
    targetKeys,       \* _target_keys_by_proxy
    conn_pool_steals,
    paused,           \* what _conn_pool_idle returns
    phase             \* progress of Router.stop

vars == <<pool, opened, worker, todo, pending, proxyConnCount, targetKeys,
          conn_pool_steals, paused, phase>>

-----------------------------------------------------------------------------
Conns == 1..MaxConns
Workers == Prewarmers \cup {Refiller}
Buckets == Proxies \X Targets
Lifetimes == {conn_pool_idle_timeout, cluster_pool_idle_timeout}

\* "eof": the upstream sent FIN and only the reader knows; "closing": the
\* transport itself is going down, which is what is_closing() reports.
ConnRecord == [proxy : Proxies, target : Targets \cup {NoTarget},
               left : Nat, health : {"ok", "eof", "closing"}]
Off == [pc |-> "off"]
Job == {Off} \cup [pc : {"ready", "opening"}, proxy : Proxies,
                   target : Targets \cup {NoTarget}, life : Lifetimes]

\* Q ranges over possible values of pool.
Stack(Q, p, t) == {c \in DOMAIN Q : Q[c].proxy = p /\ Q[c].target = t}
Of(Q, R, p) == {c \in R : Q[c].proxy = p}
Drop(Q, R) == [c \in DOMAIN Q \ R |-> Q[c]]

Opening == {w \in Workers : worker[w].pc = "opening"}
OpeningFor(p) == {w \in Opening : worker[w].proxy = p}
OpeningBucket(p, t) == {w \in OpeningFor(p) : worker[w].target = t}

-----------------------------------------------------------------------------
(* The ledgers of the budget.                                              *)

Less(n, k) == IF n > k THEN n - k ELSE 0     \* the entry is dropped at zero

CountPut(count, p) == [count EXCEPT ![p] = @ + 1]
CountTakeHealthy(count, Q, R) ==             \* mutant: discards are not counted
    [p \in Proxies |->
        Less(count[p], Cardinality({c \in Of(Q, R, p) : Q[c].health = "ok"}))]
CountTake(count, Q, R) ==
    [p \in Proxies |-> Less(count[p], Cardinality(Of(Q, R, p)))]

UnindexNothing(keys, Q, R) == keys           \* mutant: empty stacks stay listed

\* _unindex_target_key for every P2 stack that loses its last connection.
Unindex(keys, Q, R) ==
    [p \in Proxies |->
        keys[p] \ {t \in Targets : Stack(Q, p, t) # {} /\ Stack(Q, p, t) \subseteq R}]
Index(keys, p, t) ==
    IF t = NoTarget THEN keys ELSE [keys EXCEPT ![p] = @ \cup {t}]

BeginCreate(pend, p, t) ==
    [all |-> pend.all + 1,
     key |-> [pend.key EXCEPT ![p] = @ + 1],
     bucket |-> IF t = NoTarget THEN pend.bucket
                ELSE [pend.bucket EXCEPT ![<<p, t>>] = @ + 1]]
EndCreate(pend, p, t) ==
    [all |-> pend.all - 1,
     key |-> [pend.key EXCEPT ![p] = Less(@, 1)],
     bucket |-> IF t = NoTarget THEN pend.bucket
                ELSE [pend.bucket EXCEPT ![<<p, t>>] = Less(@, 1)]]
NothingPending == [all |-> 0, key |-> [p \in Proxies |-> 0],
                   bucket |-> [b \in Buckets |-> 0]]

TotalIdle(Q) == Cardinality(DOMAIN Q)

BudgetLeftIdleOnly(Q, pend, count, p) ==     \* mutant: connections in flight are free
    LET room == conn_pool_total - TotalIdle(Q)
        own  == conn_pool_per_proxy - (count[p] + pend.key[p])
    IN  IF room < own THEN Less(room, 0) ELSE Less(own, 0)
\* Idle connections and connections still being opened both use the budget.
BudgetLeft(Q, pend, count, p) ==
    LET room == conn_pool_total - TotalIdle(Q) - pend.all
        own  == conn_pool_per_proxy - (count[p] + pend.key[p])
    IN  IF room < own THEN Less(room, 0) ELSE Less(own, 0)

-----------------------------------------------------------------------------
Init ==
    /\ pool = <<>>
    /\ opened = 0
    /\ worker = [w \in Workers |-> Off]
    /\ todo = <<>>
    /\ pending = NothingPending
    /\ proxyConnCount = [p \in Proxies |-> 0]
    /\ targetKeys = [p \in Proxies |-> {}]
    /\ conn_pool_steals = 0
    /\ paused = FALSE
    /\ phase = "running"

-----------------------------------------------------------------------------
(* What a worker does when it is not waiting for a connection.  Q, pend,   *)
(* count and keys are the values the awaited connection left behind.       *)

Create(w, p, t, life, pend) ==
    /\ worker' = [worker EXCEPT ![w] = [pc |-> "opening", proxy |-> p,
                                        target |-> t, life |-> life]]
    /\ pending' = BeginCreate(pend, p, t)

Expired(Q) ==
    {c \in DOMAIN Q : Q[c].health = "closing" \/ Q[c].left = 0}

\* The refill round is over: _pool_prune sweeps both pools before the loop
\* sleeps, with no await in between.
EndRound(unserved, Q, pend, count, keys) ==
    /\ pool' = Drop(Q, Expired(Q))
    /\ proxyConnCount' = CountTake(count, Q, Expired(Q))
    /\ targetKeys' = Unindex(keys, Q, Expired(Q))
    /\ pending' = pend
    /\ worker' = [worker EXCEPT ![Refiller] = Off]
    /\ todo' = unserved

Stocked(Q, p) == Cardinality(Stack(Q, p, NoTarget)) >= conn_pool_refill_target

\* The loop of _conn_pool_refill over the proxies of queue, up to its next
\* await.  An exhausted budget ends the round, whichever budget it was.
Refill(queue, Q, pend, count, keys) ==
    \E n \in 0..Len(queue) :
        /\ \A i \in 1..n : Stocked(Q, queue[i])
        /\ \/ /\ n = Len(queue)
              /\ EndRound(<<>>, Q, pend, count, keys)
           \/ /\ n < Len(queue)
              /\ ~Stocked(Q, queue[n + 1])
              /\ IF BudgetLeft(Q, pend, count, queue[n + 1]) = 0
                 THEN EndRound(SubSeq(queue, n + 1, Len(queue)), Q, pend, count, keys)
                 ELSE /\ Create(Refiller, queue[n + 1], NoTarget,
                                conn_pool_idle_timeout, pend)
                      /\ todo' = SubSeq(queue, n + 1, Len(queue))
                      /\ pool' = Q
                      /\ proxyConnCount' = count
                      /\ targetKeys' = keys

BucketShortIdleOnly(Q, pend, p, t) ==        \* mutant: connections in flight are ignored
    Cardinality(Stack(Q, p, t)) < cap
BucketShort(Q, pend, p, t) ==
    Cardinality(Stack(Q, p, t)) + pend.bucket[<<p, t>>] < cap

\* The loop of _target_pool_refill, up to its next await or its end.
FillBucket(w, p, t, life, Q, pend, count, keys) ==
    /\ IF /\ BucketShort(Q, pend, p, t)
          /\ BudgetLeft(Q, pend, count, p) > 0
       THEN Create(w, p, t, life, pend)
       ELSE /\ worker' = [worker EXCEPT ![w] = Off]
            /\ pending' = pend
    /\ pool' = Q
    /\ proxyConnCount' = count
    /\ targetKeys' = keys
    /\ UNCHANGED todo

-----------------------------------------------------------------------------
\* Router.stop cancels the prewarmers first and the refill loop later.
Cancelled(w) == IF w = Refiller THEN phase = "stopping" ELSE phase = "draining"

StartRound ==
    /\ phase \in {"running", "draining", "drained"}
    /\ worker[Refiller] = Off
    /\ IF paused
       THEN EndRound(<<>>, pool, pending, proxyConnCount, targetKeys)
       ELSE Refill(ProxyList, pool, pending, proxyConnCount, targetKeys)
    /\ UNCHANGED <<opened, conn_pool_steals, paused, phase>>

Spawn(w, p, t, life) ==
    /\ phase = "running"
    /\ worker[w] = Off
    /\ worker' = [worker EXCEPT ![w] = [pc |-> "ready", proxy |-> p,
                                        target |-> t, life |-> life]]
    /\ UNCHANGED <<pool, opened, todo, pending, proxyConnCount, targetKeys,
                   conn_pool_steals, paused, phase>>

StartPrewarm(w) ==
    /\ worker[w].pc = "ready"
    /\ ~Cancelled(w)
    /\ IF paused
       THEN /\ worker' = [worker EXCEPT ![w] = Off]
            /\ UNCHANGED <<pool, todo, pending, proxyConnCount, targetKeys>>
       ELSE FillBucket(w, worker[w].proxy, worker[w].target, worker[w].life,
                       pool, pending, proxyConnCount, targetKeys)
    /\ UNCHANGED <<opened, conn_pool_steals, paused, phase>>

\* The connection is there: it is pushed on its stack and the loop goes on.
Land(w) ==
    LET p == worker[w].proxy
        t == worker[w].target
        n == opened + 1
        made == [proxy |-> p, target |-> t, left |-> worker[w].life,
                 health |-> "ok"]
        Q == [c \in DOMAIN pool \cup {n} |-> IF c = n THEN made ELSE pool[c]]
        pend == EndCreate(pending, p, t)
        count == CountPut(proxyConnCount, p)
        keys == Index(targetKeys, p, t)
    IN  /\ w \in Opening
        /\ ~Cancelled(w)
        /\ opened < MaxConns
        /\ opened' = n
        /\ IF w = Refiller
           THEN Refill(todo, Q, pend, count, keys)
           ELSE FillBucket(w, p, t, worker[w].life, Q, pend, count, keys)
        /\ UNCHANGED <<conn_pool_steals, paused, phase>>

\* Timeout or refusal: the refill loop turns to the next proxy, a prewarmer ends.
ConnectFails(w) ==
    LET pend == EndCreate(pending, worker[w].proxy, worker[w].target)
    IN  /\ w \in Opening
        /\ ~Cancelled(w)
        /\ IF w = Refiller
           THEN Refill(Tail(todo), pool, pend, proxyConnCount, targetKeys)
           ELSE /\ worker' = [worker EXCEPT ![w] = Off]
                /\ pending' = pend
                /\ UNCHANGED <<pool, todo, proxyConnCount, targetKeys>>
        /\ UNCHANGED <<opened, conn_pool_steals, paused, phase>>

Released(w) ==
    IF w \in Opening THEN EndCreate(pending, worker[w].proxy, worker[w].target)
    ELSE pending

\* CancelledError is delivered at the await; `finally` pairs _begin_create.
Cancel(w) ==
    /\ Cancelled(w)
    /\ worker[w] # Off
    /\ worker' = [worker EXCEPT ![w] = Off]
    /\ pending' = Released(w)
    /\ todo' = IF w = Refiller THEN <<>> ELSE todo
    /\ UNCHANGED <<pool, opened, proxyConnCount, targetKeys, conn_pool_steals,
                   paused, phase>>

-----------------------------------------------------------------------------
(* A request for target t goes through proxy p (Router._try_tunnel, first  *)
(* attempt): P2 stack, then P1 stack, then another P2 stack of the proxy.  *)

Healthy(S) == {c \in S : pool[c].health = "ok"}
\* What _pool_peek pops: everything down to the first healthy connection.
Popped(S) == {c \in S : \A g \in Healthy(S) : g <= c}

DonorsAny(p) == {d \in targetKeys[p] : Stack(pool, p, d) # {}}   \* mutant: no floor
Donors(p) == {d \in targetKeys[p] : Cardinality(Stack(pool, p, d)) >= 2}
Top(p, d) == CHOOSE c \in Stack(pool, p, d) : \A e \in Stack(pool, p, d) : e <= c
\* Donors are tried from the oldest top on, until one yields a connection.
Tried(p) ==
    {d \in Donors(p) :
        \A e \in Donors(p) : Healthy(Stack(pool, p, e)) # {} => Top(p, d) <= Top(p, e)}

Acquire(p, t) ==
    LET own == Stack(pool, p, t)
        generic == Stack(pool, p, NoTarget)
        others == {d \in Tried(p) : d # t}
        stolen == UNION {Popped(Stack(pool, p, d)) : d \in others}
        steal == Healthy(own) = {} /\ Healthy(generic) = {}
        gone == IF Healthy(own) # {} THEN Popped(own)
                ELSE IF Healthy(generic) # {} THEN own \cup Popped(generic)
                ELSE own \cup generic \cup stolen
    IN  /\ phase = "running"
        /\ gone # {}
        /\ pool' = Drop(pool, gone)
        /\ proxyConnCount' = CountTake(proxyConnCount, pool, gone)
        /\ targetKeys' = Unindex(targetKeys, pool, gone)
        /\ conn_pool_steals' = IF steal /\ Healthy(stolen) # {}
                               THEN conn_pool_steals + 1 ELSE conn_pool_steals
        /\ UNCHANGED <<opened, worker, todo, pending, paused, phase>>

-----------------------------------------------------------------------------
(* The environment: upstreams close idle connections, time passes, clients *)
(* come and go.                                                            *)

PeerCloses(c) ==
    /\ \E h \in {"eof", "closing"} :
        /\ pool[c].health = "ok" \/ (pool[c].health = "eof" /\ h = "closing")
        /\ pool' = [pool EXCEPT ![c].health = h]
    /\ UNCHANGED <<opened, worker, todo, pending, proxyConnCount, targetKeys,
                   conn_pool_steals, paused, phase>>

Tick ==
    /\ pool' = [c \in DOMAIN pool |->
                   [pool[c] EXCEPT !.left = Less(@, 1)]]
    /\ UNCHANGED <<opened, worker, todo, pending, proxyConnCount, targetKeys,
                   conn_pool_steals, paused, phase>>

SetPaused(b) ==
    /\ paused # b
    /\ paused' = b
    /\ UNCHANGED <<pool, opened, worker, todo, pending, proxyConnCount,
                   targetKeys, conn_pool_steals, phase>>

-----------------------------------------------------------------------------
(* Router.stop and the pool's part of it, and a later Router.start.        *)

Advance(from, to) ==
    /\ phase = from
    /\ phase' = to
    /\ UNCHANGED <<opened, worker, conn_pool_steals, paused>>

BeginStop ==
    /\ Advance("running", "draining")
    /\ UNCHANGED <<pool, todo, pending, proxyConnCount, targetKeys>>

DrainedAtOnce ==                             \* mutant: prewarmers are not awaited
    /\ Advance("draining", "drained")
    /\ UNCHANGED <<pool, todo, pending, proxyConnCount, targetKeys>>
DrainedLoopToo ==                            \* mutant: waits for the refill loop as well
    /\ \A w \in Workers : worker[w] = Off
    /\ Advance("draining", "drained")
    /\ UNCHANGED <<pool, todo, pending, proxyConnCount, targetKeys>>
Drained ==
    /\ \A w \in Prewarmers : worker[w] = Off
    /\ Advance("draining", "drained")
    /\ UNCHANGED <<pool, todo, pending, proxyConnCount, targetKeys>>

StopLoop ==
    /\ Advance("drained", "stopping")
    /\ UNCHANGED <<pool, todo, pending, proxyConnCount, targetKeys>>

CloseAll ==
    /\ worker[Refiller] = Off
    /\ Advance("stopping", "stopped")
    /\ pool' = <<>>
    /\ proxyConnCount' = [p \in Proxies |-> 0]
    /\ targetKeys' = [p \in Proxies |-> {}]
    /\ pending' = NothingPending
    /\ UNCHANGED todo

Start ==
    /\ Advance("stopped", "running")
    /\ UNCHANGED <<pool, todo, pending, proxyConnCount, targetKeys>>

-----------------------------------------------------------------------------
WorkerStep(w) == Land(w) \/ ConnectFails(w) \/ Cancel(w)
StopStep == Drained \/ StopLoop \/ CloseAll

Next ==
    \/ StartRound
    \/ \E w \in Prewarmers, p \in Proxies, t \in Targets, life \in Lifetimes :
            Spawn(w, p, t, life)
    \/ \E w \in Prewarmers : StartPrewarm(w)
    \/ \E w \in Workers : WorkerStep(w)
    \/ \E p \in Proxies, t \in Targets : Acquire(p, t)
    \/ \E c \in DOMAIN pool : PeerCloses(c)
    \/ Tick
    \/ \E b \in BOOLEAN : SetPaused(b)
    \/ BeginStop \/ StopStep \/ Start

Spec == Init /\ [][Next]_vars

\* open_resolved has a timeout, a cancelled task is resumed by the loop, and
\* Router.stop is a coroutine of that loop: none of them waits for ever.
Fairness ==
    /\ \A w \in Workers : WF_vars(WorkerStep(w))
    /\ WF_vars(StopStep)
FairSpec == Spec /\ Fairness

-----------------------------------------------------------------------------
(* Properties.                                                             *)

\* Every variable keeps its shape.
TypeOK ==
    /\ opened \in 0..MaxConns
    /\ DOMAIN pool \subseteq 1..opened
    /\ \A c \in DOMAIN pool : pool[c] \in ConnRecord
    /\ worker \in [Workers -> Job]
    /\ todo \in Seq(Proxies)
    /\ pending \in [all : Nat, key : [Proxies -> Nat], bucket : [Buckets -> Nat]]
    /\ proxyConnCount \in [Proxies -> Nat]
    /\ targetKeys \in [Proxies -> SUBSET Targets]
    /\ conn_pool_steals \in Nat
    /\ paused \in BOOLEAN
    /\ phase \in {"running", "draining", "drained", "stopping", "stopped"}

\* However the refill loop and the prewarmers interleave, the connections
\* that lie idle and those being opened never exceed the global budget
\* (_budget_left: the snapshot it replaced let concurrent tasks overshoot).
BudgetRespected == TotalIdle(pool) + Cardinality(Opening) <= conn_pool_total

\* No proxy takes more than its fair share through several P2 stacks.
PerProxyRespected ==
    \A p \in Proxies :
        Cardinality(Of(pool, DOMAIN pool, p)) + Cardinality(OpeningFor(p))
            <= conn_pool_per_proxy

\* Two prewarmers of one (proxy, target) that both saw it empty do not fill
\* it twice.
BucketsCapped ==
    \A p \in Proxies, t \in Targets :
        Cardinality(Stack(pool, p, t)) + Cardinality(OpeningBucket(p, t)) <= cap

\* The counters the budget is computed from agree with what is really idle
\* or being opened: no put, take, prune, failure or cancellation is missed.
LedgersMatch ==
    /\ pending.all = Cardinality(Opening)
    /\ \A p \in Proxies :
        /\ pending.key[p] = Cardinality(OpeningFor(p))
        /\ proxyConnCount[p] = Cardinality(Of(pool, DOMAIN pool, p))
    /\ \A p \in Proxies, t \in Targets :
        pending.bucket[<<p, t>>] = Cardinality(OpeningBucket(p, t))

\* The per-proxy index of P2 stacks lists exactly the stacks that hold a
\* connection, so stealing neither misses a donor nor scans an empty one.
IndexMatches ==
    \A p \in Proxies : targetKeys[p] = {t \in Targets : Stack(pool, p, t) # {}}

\* The stacks of the targets are kept: none outgrows its cap, whatever its
\* prewarmers and the refill loop saw of it before they waited for their
\* connections, and none is forgotten by the index.
StacksKept == BucketsCapped /\ IndexMatches

\* Once Router.stop has closed the pools nothing is left in them and no
\* worker is around that could put a connection there.
StoppedClean ==
    phase = "stopped" => DOMAIN pool = {} /\ \A w \in Workers : worker[w] = Off

\* A connection stolen from the P2 stack of another target leaves that stack
\* at least one connection for its own target (_steal_from_target_pool, floor),
\* unless a connection of the stack has gone stale: the floor counts it.
FreshStealLeavesOne ==
    [][conn_pool_steals' # conn_pool_steals =>
         \A c \in Healthy(DOMAIN pool \ DOMAIN pool') :
             LET donor == Stack(pool, pool[c].proxy, pool[c].target)
             IN  Healthy(donor) = donor
                     => Stack(pool', pool[c].proxy, pool[c].target) # {}]_vars

\* Router.stop gets through: cancelled workers all end and the pools close.
StopCompletes == phase = "draining" ~> phase = "stopped"

=============================================================================
