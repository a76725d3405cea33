----------------------------- MODULE HttpCache -----------------------------
(***************************************************************************)
(* The GET response cache (http_cache.py) with the requests that use it    *)
(* (Router._handle_http_request and _forward_single, router.py): the LRU   *)
(* table with its byte count and its index by host, the table of requests  *)
(* in flight that later requests for the same URL join, and the            *)
(* invalidation of a host by a write.                                      *)
(*                                                                         *)
(* A handler runs alone from one await to the next, so an action is what   *)
(* it does between two of them.  The content of a page is the number of    *)
(* writes its host had taken when it answered.                             *)
(***************************************************************************)
EXTENDS Integers, FiniteSets, FiniteSetsExt

CONSTANTS
    Reqs,             \* handlers, each serving one request at a time
    Urls,
    Hosts,
    HostOf,           \* domain_key_from_url
    DirectHosts,      \* local_direct_domains: served by this machine, never joined
    NoReq, NoUrl,     \* in place of a handler, of a URL
    Enabled,          \* enable_http_cache
    MaxEntries,       \* _http_cache_max_entries
    MaxBytes,         \* _http_cache_max_bytes
    Sizes,            \* sizes of the bodies that were buffered whole
    MaxWrites         \* bound: writes taken by one host

ASSUME HttpCacheAssumption ==
    /\ IsFiniteSet(Reqs) /\ IsFiniteSet(Urls)
    /\ HostOf \in [Urls -> Hosts] /\ DirectHosts \subseteq Hosts
    /\ NoReq \notin Reqs /\ NoUrl \notin Urls
    /\ Enabled \in BOOLEAN
    /\ MaxEntries \in Nat \ {0} /\ MaxBytes \in Nat \ {0}
    /\ Sizes \subseteq Nat /\ MaxWrites \in Nat

VARIABLES
    cache,        \* entry (_http_cache); before, its order: <<u, v>> when u is nearer
                  \* the front; _http_cache_bytes; _http_cache_domain_index
    inflight,     \* _inflight_futures: the handler that owns the URL's future
    req,          \* what each handler is doing
    origin,       \* writes each host has taken
    acked         \* history: the writes of each host whose answer was passed on

vars == <<cache, inflight, req, origin, acked>>

\* In place of a cached entry.
NoEntry == [size |-> 0]

\* A handler is waiting on "on"'s future, or owns the one it registered
\* (on = itself); "seen" is the content it got, -1 for none.
Idle == [phase |-> "idle", op |-> "GET", url |-> NoUrl,
         private |-> FALSE, on |-> NoReq, seen |-> -1, met |-> FALSE]

Init ==
    /\ cache = [entry |-> [u \in Urls |-> NoEntry], before |-> {}, bytes |-> 0,
                index |-> [h \in Hosts |-> {}]]
    /\ inflight = [u \in Urls |-> NoReq]
    /\ req = [r \in Reqs |-> Idle]
    /\ origin = [h \in Hosts |-> 0]
    /\ acked = [h \in Hosts |-> 0]

-----------------------------------------------------------------------------
(* The table *)

Cached(c) == {u \in Urls : c.entry[u] # NoEntry}
\* The bytes of the bodies of U, each told by its page and its place there.
Bytes(c, U) == Cardinality(UNION {{u} \X (1 .. c.entry[u].size) : u \in U})

\* _http_cache_remove of each URL of U that is in the table.
Removed(c, U) ==
    LET left == Cached(c) \ U
    IN  [entry  |-> [u \in Urls |-> IF u \in U THEN NoEntry ELSE c.entry[u]],
         before |-> c.before \cap (left \X left),
         bytes  |-> c.bytes - Bytes(c, U \cap Cached(c)),
         index  |-> [h \in Hosts |-> c.index[h] \ (U \cap Cached(c))]]

\* move_to_end
Touched(c, u) ==
    LET rest == Cached(c) \ {u}
    IN  [c EXCEPT !.before = (@ \cap (rest \X rest)) \cup (rest \X {u})]

OverwrittenTwice(c, u, e) ==                              \* mutant: old bytes stay counted
    Touched([c EXCEPT !.entry[u] = e, !.bytes = @ + e.size], u)
Overwritten(c, u, e) ==
    Touched([c EXCEPT !.entry[u] = e, !.bytes = @ - c.entry[u].size + e.size], u)

\* Pages are evicted from the head of the order until both limits hold: a page
\* goes when they do not hold without those before it.
Older(c, u) == {v \in Cached(c) : <<v, u>> \in c.before}
Fits(c, U) ==
    /\ Cardinality(Cached(c) \ U) <= MaxEntries
    /\ c.bytes - Bytes(c, U) <= MaxBytes
Evicted(c) == {u \in Cached(c) : ~Fits(c, Older(c, u))}

\* _http_cache_set of a response that may be kept.
Indexed(c, u) == [c EXCEPT !.index[HostOf[u]] = @ \cup {u}]
Stored(c, u, e) ==
    LET full == Overwritten(c, u, e)
    IN  Indexed(Removed(full, Evicted(full)), u)

\* _http_cache_invalidate: the index tells what to drop.
InvalidatedUrl(c, u) == Removed(c, {u})                    \* mutant: by URL, not by host
Invalidated(c, u) ==
    [Removed(c, c.index[HostOf[u]]) EXCEPT !.index[HostOf[u]] = {}]

\* _http_cache_get without its effects: an entry that is there and not expired.
Live(c, u) == Enabled /\ c.entry[u] # NoEntry /\ ~c.entry[u].expired
\* ... and its effects.
Read(c, u) ==
    IF ~Enabled \/ c.entry[u] = NoEntry THEN c
    ELSE IF c.entry[u].expired THEN Removed(c, {u})
    ELSE Touched(c, u)

-----------------------------------------------------------------------------
(* Handlers *)

At(r, phase) == req[r].phase = phase
Writing(h) == \E w \in Reqs : req[w].op = "PUT" /\ req[w].phase \in {"forwarding", "answered"}
                              /\ HostOf[req[w].url] = h

\* A GET that goes to the upstream, with or without a future of its own.
Forwarding(q, owner) ==
    [q EXCEPT !.phase = "forwarding", !.on = owner, !.seen = -1, !.met = Writing(HostOf[q.url])]
Register(r, q) ==
    /\ inflight' = [inflight EXCEPT ![q.url] = r]
    /\ req' = [req EXCEPT ![r] = Forwarding(q, r)]

\* A GET comes in: a hit, a join, or a fetch.
Get(r, u, private) ==
    LET q == [Idle EXCEPT !.url = u, !.private = private]
        hit == ~private /\ Live(cache, u)
    IN  /\ At(r, "idle")
        /\ cache' = IF private THEN cache ELSE Read(cache, u)
        /\ \/ /\ hit
              /\ UNCHANGED <<inflight, req>>
           \/ /\ ~hit /\ HostOf[u] \in DirectHosts
              /\ req' = [req EXCEPT ![r] = Forwarding(q, NoReq)]
              /\ UNCHANGED inflight
           \/ /\ ~hit /\ HostOf[u] \notin DirectHosts /\ inflight[u] # NoReq
              /\ req' = [req EXCEPT ![r] = [q EXCEPT !.phase = "waiting", !.on = inflight[u]]]
              /\ UNCHANGED inflight
           \/ /\ ~hit /\ HostOf[u] \notin DirectHosts /\ inflight[u] = NoReq
              /\ Register(r, q)
        /\ UNCHANGED <<origin, acked>>

\* A write comes in: the host is invalidated before the write is forwarded.
\* Every fetch of the host under way has met it.
Put(r, u) ==
    /\ At(r, "idle")
    /\ cache' = Invalidated(cache, u)
    /\ req' = [q \in Reqs |->
                 IF q = r THEN [Idle EXCEPT !.op = "PUT", !.url = u, !.phase = "forwarding"]
                 ELSE IF req[q].phase \in {"forwarding", "answered"} /\ HostOf[req[q].url] = HostOf[u]
                   THEN [req[q] EXCEPT !.met = TRUE] ELSE req[q]]
    /\ UNCHANGED <<inflight, origin, acked>>

\* The wait for another handler's future ends: in its result, ...
JoinAnswered(r) ==
    /\ At(r, "woken") /\ req[r].seen # -1
    /\ req' = [req EXCEPT ![r] = Idle]
    /\ UNCHANGED <<cache, inflight, origin, acked>>
\* ... in None, ...
JoinFailed(r) ==
    /\ At(r, "woken") /\ req[r].seen = -1
    /\ Register(r, req[r])
    /\ UNCHANGED <<cache, origin, acked>>
\* ... or after _AGG_WAIT_TIMEOUT.
JoinTimesOut(r) ==
    /\ At(r, "waiting") \/ At(r, "woken")
    /\ Register(r, req[r])
    /\ UNCHANGED <<cache, origin, acked>>

\* The origin serves the request.
Served(r) ==
    LET h == HostOf[req[r].url]
        now == origin[h] + (IF req[r].op = "PUT" THEN 1 ELSE 0)
    IN  /\ At(r, "forwarding") /\ now <= MaxWrites
        /\ origin' = [origin EXCEPT ![h] = now]
        /\ req' = [req EXCEPT ![r].phase = "answered", ![r].seen = now]
        /\ UNCHANGED <<cache, inflight, acked>>

\* The body has been passed on: a response that may be shared is kept.
Kept(r, size) ==
    [ver |-> req[r].seen, size |-> size, expired |-> FALSE, met |-> req[r].met]
Keep(r) ==
    /\ At(r, "answered") /\ req[r].op = "GET"
    /\ \/ \E size \in Sizes :
            /\ ~req[r].private /\ size <= MaxBytes \div 2
            /\ cache' = Stored(cache, req[r].url, Kept(r, size))
       \/ cache' = cache      \* status, Cache-Control, Vary, Set-Cookie, too large, cut short
    /\ req' = [req EXCEPT ![r].phase = "kept"]
    /\ UNCHANGED <<inflight, origin, acked>>

\* The finally of _handle_http_request: the owner of a future takes it off the
\* table and gives the waiters what the cache has now.
Resolved(r) ==
    LET u == req[r].url
        result == IF Live(cache, u) THEN cache.entry[u].ver ELSE -1
    IN  [q \in Reqs |->
           IF q = r THEN Idle
           ELSE IF req[q].phase = "waiting" /\ req[q].on = r
             THEN [req[q] EXCEPT !.phase = "woken", !.seen = result, !.on = NoReq] ELSE req[q]]
LeaveUnresolved(r) ==                                   \* mutant: the future is only dropped
    /\ inflight' = [u \in Urls |-> IF inflight[u] = r THEN NoReq ELSE inflight[u]]
    /\ req' = [req EXCEPT ![r] = Idle]
    /\ UNCHANGED cache
Leave(r) ==
    IF req[r].on = r
      THEN /\ inflight' = [inflight EXCEPT ![req[r].url] = NoReq]
           /\ req' = Resolved(r)
           /\ cache' = Read(cache, req[r].url)
      ELSE /\ req' = [req EXCEPT ![r] = Idle]
           /\ UNCHANGED <<cache, inflight>>

FinishGet(r) ==
    /\ At(r, "kept")
    /\ Leave(r)
    /\ UNCHANGED <<origin, acked>>
FinishPut(r) ==
    /\ At(r, "answered") /\ req[r].op = "PUT"
    /\ acked' = [acked EXCEPT ![HostOf[req[r].url]] = Max({@, req[r].seen})]
    /\ Leave(r)
    /\ UNCHANGED origin

\* The upstream fails, the client goes away, or the handler is cancelled.
Fail(r) ==
    /\ req[r].phase \in {"waiting", "forwarding", "answered"}
    /\ Leave(r)
    /\ UNCHANGED <<origin, acked>>

\* _http_cache_ttl passes (in the model two entries may expire in either order).
Expire(u) ==
    /\ Live(cache, u)
    /\ cache' = [cache EXCEPT !.entry[u].expired = TRUE]
    /\ UNCHANGED <<inflight, req, origin, acked>>

Handler(r) ==
    \/ \E u \in Urls : Put(r, u) \/ \E private \in BOOLEAN : Get(r, u, private)
    \/ JoinAnswered(r) \/ JoinFailed(r) \/ JoinTimesOut(r)
    \/ Served(r) \/ Keep(r) \/ FinishGet(r) \/ FinishPut(r) \/ Fail(r)
Next == (\E r \in Reqs : Handler(r)) \/ (\E u \in Urls : Expire(u))
Spec == Init /\ [][Next]_vars

-----------------------------------------------------------------------------
(* Properties *)

Entries == [ver : 0 .. MaxWrites, size : Sizes, expired : BOOLEAN, met : BOOLEAN]
Phases == {"idle", "waiting", "woken", "forwarding", "answered", "kept"}
\* Every variable keeps its shape; any two pages of the table are in an order.
TypeOK ==
    /\ cache.entry \in [Urls -> Entries \cup {NoEntry}]
    /\ cache.before \subseteq Cached(cache) \X Cached(cache)
    /\ \A u, v \in Cached(cache) : u # v => (<<u, v>> \in cache.before <=> <<v, u>> \notin cache.before)
    /\ cache.bytes \in 0 .. MaxBytes
    /\ cache.index \in [Hosts -> SUBSET Urls]
    /\ inflight \in [Urls -> Reqs \cup {NoReq}]
    /\ req \in [Reqs -> [phase : Phases, op : {"GET", "PUT"}, url : Urls \cup {NoUrl},
                         private : BOOLEAN, on : Reqs \cup {NoReq}, seen : -1 .. MaxWrites, met : BOOLEAN]]
    /\ origin \in [Hosts -> 0 .. MaxWrites] /\ acked \in [Hosts -> 0 .. MaxWrites]

\* The byte count and the index by host say what the table holds, whatever mix
\* of overwrites, evictions, expiries and invalidations came before ("so that
\* _http_cache_bytes and the index miss nothing").
LedgersExact ==
    /\ cache.bytes = Bytes(cache, Cached(cache))
    /\ \A h \in Hosts : cache.index[h] = {u \in Cached(cache) : HostOf[u] = h}

\* Between two handlers the table is within both of its limits.
WithinLimits == Cardinality(Cached(cache)) <= MaxEntries /\ cache.bytes <= MaxBytes

\* The table keeps its books exactly and its limits (http_cache_put).
TableExact == LedgersExact /\ WithinLimits

\* A handler that waits for a future waits for one whose owner is still
\* fetching that URL, so somebody will resolve it - also when the owner's
\* place in the table was taken over by a handler that had timed out.
WaitersHaveOwner ==
    \A r \in Reqs : At(r, "waiting") =>
        LET owner == req[r].on
        IN  /\ owner \in Reqs /\ req[owner].on = owner /\ req[owner].url = req[r].url
            /\ req[owner].phase \in {"forwarding", "answered", "kept"}

\* An entry that lacks an acknowledged write was fetched while a write of its
\* host was under way: whatever was cached before the write came is gone.
StaleOnlyFromOverlap ==
    \A u \in Cached(cache) : cache.entry[u].ver < acked[HostOf[u]] => cache.entry[u].met
=============================================================================
