# A TLA+ verification of auto_squid

auto_squid is an HTTP/HTTPS forward proxy (one Python process, one asyncio event
loop, one worker thread for the database) that sends every request through one
of several upstream proxies. It races candidates, remembers who won, breaks the
circuit of a proxy that fails, keeps connections open ahead of time, caches GET
responses and stores its statistics in SQLite.

This directory models the parts of it where the order of events matters, checks
the models with TLC and proves their main invariants with TLAPS. Source paths
are relative to `src/auto_squid/` unless they say otherwise. `PROJECT.json`
gives for each definition the lines it stands for, for each run its properties,
for each property the mutation of the model that breaks it, and the hazards.

## 1. The system

### How a request runs

    client --> Router._handle_http_request          (one task per connection)
                 |  http_cache: cached? join a request in flight?
                 |  sticky:     a pin for (client, domain)?      single send
                 |  domain cache: a proxy for the domain?        single send
                 |  race:       selector.ordered_for_domain, _race / _race_staggered
                 |  dead target? answer 502 at once
                 v
               upstream proxy  (pools: a connection opened ahead, or net.open_resolved)
                 |
                 v
               selector.record_success / record_failure / record_ttfb
               Router._record_win_meta (domain cache, stickiness, cluster window)

    background: pools refill loop, flush loop (+ worker thread), probe loop,
                tuner loop, prewarm tasks, clean-ups of lost candidates

The event loop interleaves tasks at `await` only. The single exception is the
worker thread of the flush, which runs in parallel with everything else. This
decides the grain of the actions: what lies between two awaits is one action.

### Components

| component | state | operations | correct when |
|---|---|---|---|
| Connection pools (`pools.py`) | stacks P1/P2, in-flight and per-proxy counters, index of P2 keys, idle flag | put, take, steal, refill, prewarm, prune, pause, stop | budgets hold and counters are exact across every await, failure and cancellation; after stop nothing is open |
| Selector: breaker (`selector.py`) | `_circuit`, `_domain_fail`, `_conc`, `_in_flight` | record_failure / record_success / record_ttfb, is_circuit_open, slow start, resets | a proxy in backoff comes back in time; one dead target does not condemn the pool; nobody is shut out by a leaked counter |
| Races (`router.py`) | candidates, `_pending_cleanups` | `_race`, `_race_staggered`, clean-up, stop | one winner, used by its caller only; every other answer is closed; stop waits for all |
| HTTP cache (`http_cache.py`, `router.py`) | LRU table, bytes, host index, futures in flight | get, set, invalidate, join | waiters always get an answer; ledgers exact; no page older than a write except through an overlap |
| Persistence (`router.py`, `selector.py`) | dirty marks, copy, transaction, tables | observe, evict, reset, flush, stop, reload | the database is always one earlier state of all the statistics; nothing is forgotten |
| Dispatch chain (`router.py`) | domain cache, degradations, adaptive TTL | `_dispatch_single`, `_record_win_meta` | one answer whatever fails on the way; nothing left open; no proxy is tried alone twice; a steady winner becomes the cached one |
| Dead targets (`router.py`) | evidence and verdict per domain | `_dead_target_active`, `_note_target_race_failure`, `_clear_dead_target` | a verdict exactly when enough requests have failed in a row |
| Stickiness (`sticky.py`) | ordered table of pins | record, bump, evict, recheck, degrade, prune | within its limit, LRU order, pins are looked at again, a disabled proxy ends without pins |
| Cluster prediction (`cluster.py`) | windows, co-occurrence graph, LRU index | observe, learn, predict, prune | index equals graph; a window is learnt once |
| Auto-tuner (`tuner.py`) | baseline, trial, window of samples | evaluate, override, enable, stop | nothing takes back weights set by hand before they were measured; the loop runs exactly while the switch is on |
| Proxy store, API (`proxy_store.py`, `api.py`) | proxies, file | add, remove, save, load | a start loads what was saved last; a proxy that stays disabled is no longer used |
| Probing (`router.py`) | none of its own | `_probe_loop` | probes never renew a backoff |
| Relay, streams (`router.py`) | sockets | pump, half-close, fall back | nothing is sent twice after a first byte |
| Connecting (`net.py`), configuration, authentication, metrics, t-digest | little or none | | |

### What is hard in it

* **Interleavings at awaits**: refill loop and prewarmers share a budget they
  check before an await and spend after it; a GET joins a future that its owner
  may drop; a race is cancelled while its candidates end.
* **Order of results**: failures of one race arrive late, in any order, mixed
  with successes of the next, with probes and with resets.
* **A second thread**: rows change while a copy of them is written.
* **Failure and restart**: transactions that fail, processes killed between the
  copy and the commit, a stop() that meets a flush half-way.
* **Limits**: budgets, the register of clean-ups, LRU tables, the concurrency
  limit and the in-flight count.
* **Ledgers kept by hand**: every cache and pool has counters or indexes that
  five or six paths must maintain.

`PROJECT.json` lists these one by one under "hazards" with the line and the
properties that cover each. Six of them no property covers: five because the
code allows what they describe (section 3 describes them), one because it is
about steps that are not modelled (the save of the proxy table, section 7).

## 2. Modules

    Checkpoint  <== refined by ==  Flush      one module per component, each with
    ConnPools   Circuit   Race   HttpCache    an instance for TLC (MC...) and its proofs
    Dispatch    Sticky    Cluster  Tuner      (..._proofs; Learning_proofs for the two
                                              that learn, Cluster and Tuner)

The components meet through few calls, and each model states the other side as
a free choice: `Race` lets a candidate end in any way; `Circuit` lets attempts
and probes be reported in any order; `HttpCache` lets a fetch end or fail at any
moment; `Dispatch` sees a race as a set of candidates of which any may win, and
a circuit as a choice at each question; `Sticky` sees the rest of the chain as
the proxies that may win a request. `Dispatch` composes the tables of the chain
(pins, domain cache, marks, damping, verdicts) with the handlers that share
them; `Sticky` and `Tuner` include the endpoints of the API that change their
state. Mutants (definitions that no specification uses, each marked by a
comment) are changed copies of a definition: the property named beside them in
`PROJECT.json` must fail when they take its place.

### ConnPools (`pools.py`)

`pool` maps each idle connection to its proxy, target (`NoTarget` for P1), age
and marks; connections are numbered in the order they were opened, so that the
top of a stack is the largest number of its bucket. `worker`, `todo` are the
program counters of the refill loop and the prewarmers, which stop only at
`await open_resolved`; `pending`, `proxyConnCount`, `targetKeys` are the
counters and the index of the code. `StartRound`, `Spawn` and `StartPrewarm` start a
worker, `Land`, `ConnectFails` and `Cancel` are what follows its await;
`Acquire` is a CONNECT that takes from P2, then from P1, then steals;
`PeerCloses`, `Tick` and `SetPaused` are the world around it; `BeginStop`,
`Drained`, `StopLoop`, `CloseAll` and `Start` are `Router.stop` and a new start.

### Circuit (`selector.py`)

One record per proxy: failures in a row, backoff, time left to `open_until`,
slow-start fields. An attempt is chosen, launched and ended in separate
actions. Instants are kept as time left (0 when past), which makes the state
finite and is all that the code compares. `charged` is a history variable: when
failures on unreached targets were held against a proxy.

### Race (`router.py`: 2480-2700 and `stop`)

A race has candidates (tasks), `Wake` is one return of `asyncio.wait`: it gets
every candidate that has ended, reads them in an arbitrary order and stops at a
winner. `jobs`, `drain`, `draining`, `pending` are the clean-up tasks, those
that wait for others, and the register `_pending_cleanups`. `router` follows
`Router.stop`: cancel the handlers, gather them, gather the clean-ups.

### Dispatch (`router.py`: 1110-2240, 3340-3760, 3900-4780)

`req[r]` is a handler: where it waits, the proxy it tries alone (`single`), the
candidates it races (`race`), the upgrade's list (`ws`, `head`), what it relays
(`stream`, `greet`, `relay`), the status lines written. `tab` holds the tables
that all handlers share, `held` the upstream streams and tunnels that are open.
`Arrive`, `ArriveDirect`, `ArriveWs` and `FastFail` are the head of
`_handle_http_request` and `_handle_connect` up to the first await; `Refuse` is
a request that is answered without being passed on (malformed, unauthorised, too
large), `HangUp` one that is not read whole and whose connection is closed
without a status line; `SingleOk`,
`SingleFails`, `SingleServerError` what follows `_dispatch_single`'s await,
`RaceWon`, `RaceAgain`, `RaceLost` what follows a race's; `GreetOk` and
`GreetFails` the 200 of a CONNECT, `StreamEnds` and `RelayEnds` the end of the
bytes; `WsOpens`, `WsFails`, `WsRefused`, `WsSwitches`, `WsExhausted` one
candidate of an upgrade; `ProbeAnswered` a probe that reaches a target; `Cancel`
is `stop()`. The operators above them
(`Checked`, `Noted`, `Counted`, `RecordedWin`, ...) give the tables as the
method of that purpose leaves them. `seen` is what an observer notes of wins
and failures, to be compared with the tables. The observer keeps its own counts
and ages of failures and its own row of wins. It is not independent of the code
in three respects: it does not note a failure that meets a recent success, by the
selector's age of it (`tab.ok`); a verdict that ends (`tab.dead.left`) ends its
counts; and an upgrade through a proxy is a success only when its win is not held
back by the damping, since its answer is entered under host and port
(`router.py` 3125).

### Sticky (`sticky.py`, `proxy_store.py`, POST /proxies in `api.py`)

`cache` is `_sticky_cache`: `pins`, what each key has, and `before`, the order of
the table as the set of pairs of keys of which the first is nearer the front. The
tables of `HttpCache` and the edge index of `Cluster` have their order in the
same form: moving an entry to the end, taking some out and looking at the first
are set expressions, which the proofs can reason about for tables of any size.
`Ask` is `_get_sticky_proxy` and what
the request does for want of a pin, `SendOk`, `SendFails`, `RaceWon`,
`RaceLost` its end, `ProbeEvicts` and `ProbeEnds` a background probe, `Sweep`
the pruning of the flush loop. `store` is the table of proxies in memory and in
its file; `AddProxy` is a POST with its save, `AddUnsaved` one whose save fails
and whose proxy serves all the same. `named` are the disabled proxies that the
domain cache goes on naming. `Restart` is a stop or a kill at any moment and a new
start: the proxies come from the file, the domain cache from the database, where
it may name proxies that the file disables, and there are no pins.

### Cluster (`cluster.py`)

`window`, `graph`, `lru`, `last` are `_active_windows`, `_cooccur`, `_edge_lru`
and `_last_predict`. A window numbers its targets in the order they were first
seen; `Learnt` moves its pairs to the end of the index in the order of the two
loops (`Sooner`) and then cuts the front off (`Capped`); the sweep closes the
windows one after the other, in any order (`AllLearnt`). `Observe` is `observe` with `maybe_predict`, `Prune` the
sweep, `Reset` what a stop leaves. `sent` is a history variable: when each edge
was last predicted, for comparison with the table that is swept.

### Tuner (`tuner.py`, POST /cost and POST /tuner in `api.py`)

A loop task sleeps, is cancelled, or is done and still referred to; `task` is
`_task`, `calls` the requests that await a loop's end. `TunerInit`, `TunerNext` and
the like have the prefix because `Learning_proofs` extends `Cluster` as well. `Measure`, `Adopt`,
`Reject`, `ExtendOrDiscard` are the four outcomes of a window (`Cycle`);
`Post` is `set_enabled` up to its await, `Resume` what follows it; `Restart` is
a new process. `hand` is a history variable: weights set by hand and not
measured since.

### HttpCache (`http_cache.py`, `router.py`: 3400-3520)

A handler is between requests, waiting for a future, fetching, or forwarding a
write. The content of a page is the number of writes its host had taken when it
answered. `bytes` is the counter of the code; `Bytes`, what the pages in the table
add up to, is the size of a set, one element per byte. `acked` is a history
variable.

### Flush and Checkpoint (`router.py`: 850-1430, `selector.py`)

`Checkpoint` says what a user may expect of the persistence: the statistics
change, now and then the database becomes one of their earlier states, and a
new process starts from it. `Flush` is the code: dirty keys, deleted keys, a
full rewrite after a reset, a copy that the worker writes in one transaction,
the pruning that moves rows from one list to the other, the flush of `stop()`,
a kill at any moment, the reload. `stop()` cancels the handlers before that
flush and the probe task after it, so that rows go on changing until the process
is down; `stopped` is a history variable, the moment of the flush. A transaction
may fail at any time. The
content of a row is the moment of its last change. The refinement takes the
rows and whole tables of `mem` and `db` to memory and disk, until a write is
lost (`lapsed`). The nested counters of a row (errors, http_versions, digests)
are passed to the worker by reference; `MixedRowsListed` says what still holds
of them: a row written with newer ones is written again.

## 3. What the runs show

A component has one run, over all its operations; races have one per kind.
Bounds are those of the .cfg files. They are small on purpose, and each is
large enough for the mutants of the module to be found.

| run | instance | result |
|---|---|---|
| pools_budget | 1 proxy, 2 targets, refill loop and 2 prewarmers, total 3, cap 2, 3 connections over time, fairness | `BudgetRespected`, `LedgersMatch`: three workers compete for the last place, and counters are exact over failures, cancellations, prunes, pauses, stop and restart; `StacksKept`: no stack outgrows its cap or leaves the index; `StoppedClean`; `FreshStealLeavesOne`: a steal from a stack of live connections leaves one; `StopCompletes` |
| circuit_breaker | 2 proxies, 1 target, attribution table of 1, threshold 1, backoff up to 2, limit 1..2, fairness of time | `NeverRenewed`: nothing reported about a proxy in backoff lengthens it or halves its limit again; `FewChargedPerTarget`: within a window an unreached target counts against fewer than DeadProxies proxies; `IdleAdmitted`: no leaked count shuts a proxy out; `ComesBack`: although probes and late attempts go on failing |
| race_all | 3 simultaneous races of 2 tunnels, register of 1 | `NoOrphan`: every tunnel is used or closed; `AllCovered`: clean-ups handed to drains, and drains to drains, stay known to `stop()` |
| race_staggered | 2 staggered races of 2, answers good, bad or failed, fairness | `WinnerUntouched`, `LostMeansTried`; `HangIsCovered`: a candidate that never ends does not keep the next one back; `LosersEnd` |
| dispatch_chain | 3 handlers, 2 proxies and the machine, 1 client, 1 domain; plain request, tunnel and upgrade; three configurations: two batches, one staggered race under a policy that excludes the machine, a direct domain | `AnsweredOnce` (every request that was read), `NoTunnelLeft`, `NoSecondSingle`; `JudgedOnEvidence`, `JudgedAfterFails`: two failures in a row, and no less, are a verdict; `WinsSwitch`: two wins in a row replace the cached proxy |
| sticky_pins | 3 keys, 1 proxy and the machine, table of 2, 2 sends, a probe, any number of edits and restarts, fairness | `TableInOrder`: within the limit, and the first pin is always one used least recently; `LookedAtAgain`; `DisabledFades`: a proxy that is disabled for good ends without pins |
| cluster_graph | 1 client, 3 targets, 3 edges at most | `IndexExact`; `LearntWhole`: no window is dropped unlearnt; `PredictedSparingly` |
| tuner_weights | 3 weights, one of them out of bounds, 2 loops, calls of POST /tuner one at a time | `SwitchedRight`: the loop runs exactly while the switch is on; `WeightsMoved`: nothing takes back weights set by hand before they were measured |
| http_requests | 2 handlers, 2 pages of one host and one of a direct host, 1 write, bodies of 2 in 5 bytes | `WaitersHaveOwner`: nobody waits for a future that no handler will resolve; `StaleOnlyFromOverlap`: an outdated page can only come from a fetch that overlapped the write; `TableExact`: order, bytes and index agree, within both limits |
| flush_checkpoints | 3 rows, a whole table, limit 1, 3 changes, failing writes, kills, fairness | `ListsAgree`: no flush deletes a living row or writes a dead one; until a write is lost, `Accounted`, `StopSaves` (every row as it was at the flush of `stop()`), `Flush` implements `Checkpoint` (`Checkpoints`), `EventuallySaved`; `MixedRowsListed` |

Why these are enough. Each instance is the smallest in which the actors of a
hazard meet: two workers at the last place of a budget and a third that comes
too late; as many proxies as condemn a target; a drain that waits for a drain;
one handler that looks at half-complete evidence while two others fail; a table
one entry too small for its keys, so that insertion, use and eviction come in
every order; an eviction and a reset around one copy. What an instance is too
small for is proved for all constants
(section 5): the budget of one proxy among several (`ProxyBudget`), an
attribution table that overflows (`DeadTargetCharged`), many handlers and
waiters (`NobodyWaitsForNobody`), verdicts on any number of failures in any
windows, also with upgrades that win and are held back by the damping in between
(the run starts with an empty domain cache, so that no win is held back between
two failures), the limit on the number of cached pages (`TableKeepsBooks`; in the run
the limit on bytes is the one reached), and windows of several clients whose
pairs overlap and which one sweep closes (`IndexIsExact`, `WindowsAreLearnt`).

Deadlock is checked except in the pools, the races and the handlers, where the
end of `Router.stop`, or of all requests, really is the end.

### Disagreements with comments, docstrings and documents

Two are kept as runs that must fail; the counterexample is a behaviour of the
code and `PROJECT.json` quotes the statement it refutes.

| run | what happens |
|---|---|
| dispatch_damping | with `switch_damping_min_wins` of 3 or more a blocked win sets the winner's count to 1 whatever it was, so a proxy that wins every race still does not replace the cached one |
| tuner_loops | a POST /tuner that switches on while an earlier one awaits the old loop's end is answered between that end and the earlier call's return, which then forgets the new loop: it can no longer be stopped, and a second one may run beside it |

The models allow the following as well, because the code does; the properties
above are worded so that they do not promise the contrary:

* pools: one proxy at its own share ends the refill round for those after it
  (`pools.py` 514); the floor of a steal counts connections that have gone stale
  (`pools.py` 302), which is why `FreshStealLeavesOne` is about fresh ones.
* breaker: a proxy that fails in its slow start is in backoff and in slow start
  at once (`selector.py` 1438); `_domain_fail` outgrows its capacity while no
  target is failed by enough proxies (1289); the first backoff is twice the base
  (1373); resetting circuits ends slow starts instead of arming them (1250); a
  quality reset leaves the in-flight counter too low (1096); a staggered race
  launches a candidate whose circuit opened after the choice (`router.py` 2660).
* cache: a host is invalidated once, before a write is forwarded, so a GET that
  overlaps the write refills the cache and GETs after the acknowledged write are
  served the old page until it expires (`router.py` 3438, against the comment at
  3431; `http_cache.py` 233); an owner that ends removes the registration of
  another owner (`router.py` 3506); a disabled cache is filled
  (`http_cache.py` 233).
* races: an HTTP 5xx read in an earlier wake-up of `_race` is not among the
  losers, and its pooled connection is not released (`router.py` 2538, against
  the comment at 2525); candidates of a staggered race that end in the winner's
  wake-up and are not read are never closed (2636); so is a tunnel that is ready
  when its handler is cancelled (2576); at its limit `_race` waits for others'
  clean-ups before it returns its winner (2555).
* chain: the damping return comes before `_clear_dead_target`, so a win that is
  held back leaves a verdict standing (`router.py` 1240), and a single send that
  reaches the target never lifts one; counts of damping survive until the next
  blocked win; a race that spans the end of a verdict can renew it after one
  failure (2096). The machine itself is a candidate of an upgrade (3542), and of
  the second batch of a plain request, whatever the policy says. An upgrade's
  upstream stays open when the client has gone before the answer or the handler
  is cancelled, and so does that of a direct CONNECT cancelled at the greeting
  (4653-4667). A client that goes before its greeting counts as a failure of the
  proxy, which is marked, and the chain goes on for nobody. A proxy that was
  removed while the domain cache names it is taken for the machine (3987).
  An upgrade through a proxy that the target refuses, or that wins and is held back
  by the damping, is no evidence that the domain can be reached: its tunnel is
  entered under host and port (3125), so a verdict can be made across it, against
  the docstring at 2151 and the comment at 2117. A request that is not read whole
  (time-outs at 3198, 3205 and 3301, too long a header at 3212, no request line at
  3234) gets no status line although its client may still be there.
* pins: a renewed pin that changes its proxy keeps the reference latency of the
  old one (`sticky.py` 227-229); a probe evicts the key's pin whichever proxy it
  names by then; two hits in one turn of the loop may spawn two probes;
  `_get_fresh_proxy` never asks whether a proxy is enabled, so a disabled one
  serves on through the domain cache, and upgrades renew it: `DisabledFades`
  assumes that the cache forgets it.
* clusters: a proxy that is disabled is predicted all the same, although the
  docstring of `_resolve_top` says otherwise. A round of the flush loop that
  ends with an exception other than `sqlite3.Error` (that one is caught at
  `router.py` 1383) skips the sweeps of pins and clusters (1420-1428).
* tuner: after weights are set by hand the window under way, with samples of the
  old ones in it, is measured as theirs; switching off before that window ends
  goes back to the baseline before them; adopted weights that lie outside the
  bounds, after a manual choice, are not restored by a new process. The window
  that refreshes the baseline has run the trial weights of the window before it,
  which it then takes for the baseline (`tuner.py` 193-203, against the docstring
  at 27-30).
* persistence: a reset whose transaction fails never reaches the database
  (`router.py` 1383); a copy no thread has taken is dropped by `stop()` (4795); a
  row may be written with nested counters newer than itself (`selector.py` 118,
  against the docstring at 114). What probes observe after the flush of `stop()`,
  which cancels them last, is lost (4801).

## 4. Fairness

* `ConnPools!FairSpec`: weak fairness of each worker's step and of stop's. A
  connection attempt has a time-out in `open_resolved`, and the loop runs a
  task that is ready.
* `Circuit!FairSpec`: weak fairness of `Tick`. Time passes; no attempt or probe
  is assumed to end.
* `Race!FairSpec`: weak fairness of `Wake`, `JobEnds`, `RoomMade` and
  `TaskCancelled`: the loop runs timers, ended waits and cancellations. None of
  a candidate's end: an upstream may hang.
* `Flush!FairSpec`: weak fairness of the copy (the timer fires), of the worker
  (the executor's thread runs and ends) and of the loop's resumption.
* `Sticky!FairSpec`: weak fairness of the sweep, which the flush loop makes
  every round, and of the end of each send or race, which have time-outs. None
  of a probe, an expiry in the domain cache or a request's arrival.

## 5. What is proved

All for any values of the constants that satisfy the named assumptions of the
modules. Each safety theorem goes through an inductive invariant, with one step
per action.

**ConnPools_proofs**: `TypeCorrect`, `LedgersExact`, `GlobalBudget`,
`ProxyBudget`, `StacksStayKept`, `StealsLeaveOne`, `StopIsClean`. The budgets are not inductive alone: the code
compares a sum of counters with the limit, so the proof first shows that the
counters equal the cardinalities they stand for (`LedgersMatch`) and that each
worker in an attempt holds one place of its proxy. The stacks are kept because a
prewarmer counts the attempts of its stack before it begins one more, and a
connection that lands takes the place of its attempt; the index is written by
every put, take and prune that empties or opens a stack. A steal pops down to the
first live connection, which is the uppermost where all are alive, and donors hold
two.

**Circuit_proofs**: `TypeCorrect`, `BackoffNeverRenewed`, `DeadTargetCharged`,
`IdleProxyAdmitted`. `BackoffNeverRenewed` is about the time left, the length of
the backoff and the limit that the proxy returns with. `DeadTargetCharged`
strengthens the bound: as long as a
charge is within the window and its target unreached, its proxy is still listed in
`_domain_fail` for it, whatever pruning took place.

**Race_proofs**: `TypeCorrect`, `WinnerNeverClosed`, `GivenUpOnlyIfTried`,
`CleanUpsCovered`, `RegisterBounded`, `NoTunnelLeftOpen`. The invariant says, per race, that while
it races every launched candidate is running or was read and refused, that a
race waiting for room already has its winner, and that a clean-up that runs is
registered or waited for by one that runs. `RegisterBounded` (`PendingBounded`,
which no run checks) holds for staggered races; `_race` registers after an await
and may exceed the limit. `CleanUpsCovered` is proved for both kinds of race,
the run race_all checks it for simultaneous ones. `NoTunnelLeftOpen` is about
those and about candidates without a third end, the assumptions of that run; its
invariant (`AllKept`) says of each tunnel that is open who has it. With staggered
races it is false (section 3).

**Dispatch_proofs**: `OneAnswer`, `NothingLeftOpen`, `VerdictNeedsEvidence`,
`EvidenceGivesVerdict`, `NoProxyTwiceAlone`, `SteadyWinnerIsCached`,
`TypeCorrect`. `OneAnswer` is about requests that were read; one that was not
gets at most a refusal. `VerdictNeedsEvidence` counts the failures since an answer
was last entered under the domain or a win was last let through (section 3). Five
invariants. `AllWell`: a request's answer is out
exactly where its bytes flow or it has ended. `HeldWell`: a stream or tunnel
that is open belongs to a handler that has the `finally` which closes it.
`AllSound`: for each target the entry of the code, the age of the last success
and the observer's notes fit together: the entry knows no more failures than
there were since a success outside its window (`NotTooMuch`) and no fewer than
those in a row (`NotTooLittle`). The two verdict theorems need both halves,
since a verdict that ended takes its evidence with it, and evidence alone
outlives the requests that look at it. They assume that a verdict lasts no
longer than the evidence window (`DeadTtl <= ProveWindow`): 15 s by default
against 60 s in the code. A `dead_target_ttl_sec` above 60, or 0 for no verdicts
at all, is not covered. `Chain` (every request is `Fit`): what a request
names are proxies there are, its list of candidates included, and one that it tries
alone is not among those that failed it alone; it says of the tables that what
they name can be tried, since other handlers write them while this one waits.
`Rows`: who won the last wins of a domain in a row, less than `MinWins`, is the cached
proxy or has its first win counted. `SteadyWinnerIsCached` is about `MinWins <= 2`:
two is the default of the code, and with three or more it is false, as the run
dispatch_damping shows. `TypeCorrect` reads the types of the tables and of the
requests off `Chain`.

**Sticky_proofs**: `TableStaysInOrder`, `PinsLookedAtAgain`, `TypeCorrect`. They
share an invariant (`TableInv`): the
order of the table is a strict total order of its keys along which the ages never
grow, and the hits of a pin together with the requests that are sent through it
stay below the threshold plus the number of requests. A request adds its hit when
it ends, so the bound on the hits alone is not inductive.

**HttpCache_proofs**: `NobodyWaitsForNobody`, `OutdatedOnlyByOverlap`,
`TableKeepsBooks`, `TypeCorrect`. The invariant (`Types`, `Owners`, `Fresh`) follows each registered future to a
handler that is fetching its page, although a waiter that timed out may have
replaced the owner; and it marks every fetch that met a write of its host, from
either side (`Overlap`), so that an answer without an acknowledged write bears
the mark. `TableKeepsBooks`: between two handlers the table is ordered, the
counter of bytes is what its pages add up to, the index has every page under its
host and no other, and both limits hold (`Books`). The eviction loop ends because
the suffixes of the order have a least length that fits. `TypeCorrect` adds that
no answer and no page counts more writes than the bound `MaxWrites` lets a host
take (`Bounded`).

**Learning_proofs**, the tuner: `LoopFollowsSwitch`, `HandNotTakenBack` and
`TunerTypes`, all for calls of POST /tuner one at a time (`OneCall`), without
which the run tuner_loops refutes the first. The invariant (`Owned`) says of every loop how it is known: it is the
sleeping loop of `_task` with the switch on, or the one a call is waiting for.
`HandKept`: weights set by hand are in force, and their measurement ordered,
until it is made.

**Learning_proofs**, the clusters: `IndexIsExact`,
`WindowsAreLearnt`, `PredictionsAreThrottled`, `ClusterTypes`. The invariant says of
every window that its targets are numbered without gaps or repetitions, of
the graph with its index that it is `Stored`: the order is a strict total order of
the edges along which the ages never grow, within the limit; and of every
prediction that may not be repeated yet that `_last_predict` has it with its age
(`ThrottleInv`). `LastOnes` gives what `_enforce_cap` leaves: the edges with fewer
than `MaxEntries` behind them are exactly `MaxEntries`, or all. `Kept`, an edge is new
or the graph is full of new ones, survives every later step of a sweep, which is
why no window that it closes is lost (`AllLearntStored`).

**Flush_proofs**: `TypeCorrect`, `NoContradiction`, `NothingForgotten`,
`StopIsComplete`, `ImplementsCheckpoints`, `MixedRowsStayListed`, with no
assumption beyond those of the module. `StopIsComplete`: once the process is down
the database has every row as it was at the flush of `stop()`, and the whole tables;
what a probe observed later is excepted. `NoContradiction` holds whatever fails. The other four are about
the time until a write is lost, which the history variable `lapsed` marks: a
transaction that was rolled back, or the flush of `stop()` overtaking a worker.
In `Checkpoint` such a loss is a step of its own (`Lapse`) that ends the promise,
and a new process renews it. The key lemma, `CopyCovers`: a copy taken while no
write is under way makes the database equal to memory.

**Model-checked only.** Everything under fairness (`StopCompletes`, `ComesBack`,
`HangIsCovered`, `LosersEnd`, `EventuallySaved`, `DisabledFades`): the prover
has no ENABLED. Every invariant and action property of the runs is proved, two of
them with a hypothesis that the run has as well (`OneCall`; the kind of race in
`NoTunnelLeftOpen`) and one with `MinWins <= 2`.

The library's induction theorems take an operator as a parameter, which the
provers cannot instantiate. Where a proof runs along the places of a list or the
windows of a sweep it takes the least element of the set of places at which the
claim fails (`LeastNat`), and contradicts it.

## 6. Abstractions

* ConnPools: attribution of cluster predictions (`_mark_cluster_ever` and its
  hit and miss counters, which no decision reads) left out. A connection that
  the upstream closed is stale, whatever the reason.
* Circuit: times as time left; ordering of candidates is a free choice.
* Race: the content of an answer is good, bad (HTTP 5xx) or failed.
* Dispatch: latencies (slow, worse than the best, clearly faster), circuits,
  the adaptive TTL of the domain cache and the lists of candidates are free
  choices at each question; the size limits of its tables are left out. Times
  are ages or what is left of a deadline.
* Sticky, HttpCache, Cluster: an ordered table is its entries and the set of
  pairs in order; that a pair is in order says no more than the position in an
  `OrderedDict` does.
* Sticky: latencies, circuits and policies are free choices, as is the table
  that throttles the sweep and the probes; ages stop at the TTL.
* Cluster: hits stop at the support asked for, ages at their limits; which
  proxies an edge remembers is a free choice at each prediction.
* Tuner: scores, noise and the next perturbation are free choices; vectors of
  weights are model values within or outside the bounds.
* HttpCache: freshness headers and Vary decide only whether an answer may be
  kept, a free choice here. The body is its size and version.
* Flush: prune victims are chosen freely, since the order is by the time of the
  last success; the branch of a limit of 0 or less is never used by the router;
  a failed rollback and errors other than `sqlite3.Error` are left out; one row
  is serialised at once.

Bounds of the models, none of which is in the code: `MaxConns` (connections
opened), `MaxAttempts` (attempts of a proxy), `MaxWrites` (writes of a host),
`MaxNow` (changes of memory), `MaxCalls`
(calls of POST /tuner at once); a handler of `Dispatch` serves one request.

## 7. Not modelled, and what could come next

Not modelled: byte pumps, half-close and chunk framing of the relay, t-digest
and the EWMA and cost scores (floating point), name resolution, the read-only
API and the panel, the configuration schema, authentication, benchmarks and
examples: pure I/O, numeric, or without state. `ProxyStore.remove`, which
nothing calls. The steps of `ProxyStore.save`: it runs without an await, and that
its rename is atomic is a promise of the file system.

What could come next, in this order:

1. **Lifecycle**: what each step of `Router.stop` closes while the others still
   run; today each module has its own part of it.
2. **Race with Circuit**: the ends of a race's candidates as the attempts of the
   breaker, for the launch after a circuit opened (`router.py` 2660).
3. The ordering of the selector as pure operators against a reference
   definition.
