-------------------------- MODULE HttpCache_proofs --------------------------
(***************************************************************************)
(* Proofs about HttpCache for any number of handlers, pages and hosts and  *)
(* for any limits: nobody waits for a future without an owner, what a      *)
(* write has outdated does not stay in the table, and the table's count    *)
(* of bytes and its index by host stay exact.                              *)
(***************************************************************************)
EXTENDS HttpCache, FiniteSetTheorems, WellFoundedInduction, TLAPS

Fields == {"entry", "before", "bytes", "index"}
Bodies == [ver : Nat, size : Nat, expired : BOOLEAN, met : BOOLEAN]

\* The entries of a table and its index by host name the right things.
Shaped(c) ==
    /\ DOMAIN c = Fields
    /\ c.entry \in [Urls -> Bodies \cup {NoEntry}]
    /\ c.index \in [Hosts -> SUBSET Urls]
    /\ \A h \in Hosts : \A u \in c.index[h] : HostOf[u] = h

-----------------------------------------------------------------------------
(* What the operations of the table leave of its entries and of its index.  *)

LEMMA TouchedOK ==
  ASSUME NEW c, NEW u, DOMAIN c = Fields
  PROVE  /\ DOMAIN Touched(c, u) = Fields
         /\ Touched(c, u).entry = c.entry
         /\ Touched(c, u).index = c.index
  BY DEF Touched, Fields

LEMMA RemovedOK ==
  ASSUME NEW c, NEW U
  PROVE  /\ DOMAIN Removed(c, U) = Fields
         /\ Removed(c, U).entry = [u \in Urls |-> IF u \in U THEN NoEntry ELSE c.entry[u]]
         /\ Removed(c, U).index = [h \in Hosts |-> c.index[h] \ (U \cap Cached(c))]
  BY DEF Removed, Fields

LEMMA OverwrittenOK ==
  ASSUME NEW c, NEW u, NEW e, DOMAIN c = Fields
  PROVE  /\ DOMAIN Overwritten(c, u, e) = Fields
         /\ Overwritten(c, u, e).entry = [c.entry EXCEPT ![u] = e]
         /\ Overwritten(c, u, e).index = c.index
<1> DEFINE d == [c EXCEPT !.entry[u] = e, !.bytes = @ - c.entry[u].size + e.size]
<1>1. DOMAIN d = Fields /\ d.entry = [c.entry EXCEPT ![u] = e] /\ d.index = c.index
  BY DEF Fields
<1>2. Overwritten(c, u, e) = Touched(d, u)
  BY DEF Overwritten
<1> HIDE DEF d
<1>. QED  BY <1>1, <1>2, TouchedOK

LEMMA IndexedOK ==
  ASSUME NEW c, NEW u, DOMAIN c = Fields
  PROVE  /\ DOMAIN Indexed(c, u) = Fields
         /\ Indexed(c, u).entry = c.entry
         /\ Indexed(c, u).index = [c.index EXCEPT ![HostOf[u]] = @ \cup {u}]
  BY DEF Indexed, Fields

\* A table of the right shape in which every page is found by its host.
Sound(c) == Shaped(c) /\ \A u \in Cached(c) : u \in c.index[HostOf[u]]

LEMMA RemovedSound ==
  ASSUME NEW c, NEW U, Sound(c)
  PROVE  /\ Sound(Removed(c, U))
         /\ \A u \in Urls : Removed(c, U).entry[u] = IF u \in U THEN NoEntry ELSE c.entry[u]
<1> DEFINE d == Removed(c, U)
<1>1. /\ DOMAIN d = Fields
      /\ d.entry = [u \in Urls |-> IF u \in U THEN NoEntry ELSE c.entry[u]]
      /\ d.index = [h \in Hosts |-> c.index[h] \ (U \cap Cached(c))]
  BY RemovedOK
<1> HIDE DEF d
<1>2. Shaped(d)
  BY <1>1 DEF Sound, Shaped
<1>3. ASSUME NEW u \in Cached(d)  PROVE u \in d.index[HostOf[u]]
  <2>1. u \in Urls /\ u \notin U /\ u \in Cached(c)
    BY <1>1 DEF Cached
  <2>. QED  BY <1>1, <2>1, HttpCacheAssumption DEF Sound, HttpCacheAssumption
<1>. QED  BY <1>1, <1>2, <1>3 DEF Sound, d

LEMMA TouchedSound ==
  ASSUME NEW c, NEW u, Sound(c)
  PROVE  Sound(Touched(c, u)) /\ Touched(c, u).entry = c.entry
<1> DEFINE d == Touched(c, u)
<1>1. DOMAIN d = Fields /\ d.entry = c.entry /\ d.index = c.index
  BY TouchedOK DEF Sound, Shaped
<1> HIDE DEF d
<1>. QED  BY <1>1 DEF Sound, Shaped, Cached, d

\* The pages kept are those there were and the new one, if it was not evicted
\* at once.
LEMMA StoredSound ==
  ASSUME NEW c, NEW u \in Urls, NEW e \in Bodies, Sound(c)
  PROVE  /\ Sound(Stored(c, u, e))
         /\ \A v \in Urls : Stored(c, u, e).entry[v] \in
               {NoEntry, IF v = u THEN e ELSE c.entry[v]}
<1> DEFINE full == Overwritten(c, u, e)
           rest == Removed(full, Evicted(full))
           d == Indexed(rest, u)
<1>1. DOMAIN full = Fields /\ full.entry = [c.entry EXCEPT ![u] = e] /\ full.index = c.index
  BY OverwrittenOK DEF Sound, Shaped
<1>2. /\ DOMAIN rest = Fields
      /\ rest.entry = [v \in Urls |-> IF v \in Evicted(full) THEN NoEntry ELSE full.entry[v]]
      /\ rest.index = [h \in Hosts |-> full.index[h] \ (Evicted(full) \cap Cached(full))]
  BY RemovedOK
<1>3. /\ DOMAIN d = Fields
      /\ d.entry = rest.entry
      /\ d.index = [rest.index EXCEPT ![HostOf[u]] = @ \cup {u}]
  BY <1>2, IndexedOK
<1>4. Stored(c, u, e) = d
  BY DEF Stored
<1>5. HostOf \in [Urls -> Hosts]
  BY HttpCacheAssumption DEF HttpCacheAssumption
<1> HIDE DEF full, rest, d
<1>6. \A v \in Urls : d.entry[v] \in {NoEntry, IF v = u THEN e ELSE c.entry[v]}
  BY <1>1, <1>2, <1>3 DEF Sound, Shaped
<1>7. Shaped(d)
  BY <1>1, <1>2, <1>3, <1>5 DEF Sound, Shaped
<1>8. ASSUME NEW v \in Cached(d)  PROVE v \in d.index[HostOf[v]]
  <2>1. v \in Urls /\ v \notin Evicted(full)
    BY <1>2, <1>3, <1>8 DEF Cached
  <2>2. CASE v = u
    BY <1>1, <1>2, <1>3, <1>5, <2>2 DEF Sound, Shaped
  <2>3. CASE v # u
    <3>1. v \in Cached(c)
      BY <1>1, <1>2, <1>3, <2>1, <2>3 DEF Cached, Sound, Shaped
    <3>2. v \in c.index[HostOf[v]]
      BY <3>1 DEF Sound
    <3>. QED  BY <1>1, <1>2, <1>3, <1>5, <2>1, <3>2 DEF Sound, Shaped
  <2>. QED  BY <2>2, <2>3
<1>. QED  BY <1>4, <1>6, <1>7, <1>8 DEF Sound

\* After an invalidation no page of the host is left.
LEMMA InvalidatedSound ==
  ASSUME NEW c, NEW u \in Urls, Sound(c)
  PROVE  /\ Sound(Invalidated(c, u))
         /\ \A v \in Urls : Invalidated(c, u).entry[v] =
               IF HostOf[v] = HostOf[u] THEN NoEntry ELSE c.entry[v]
<1> DEFINE U == c.index[HostOf[u]]
           rest == Removed(c, U)
           d == [rest EXCEPT !.index[HostOf[u]] = {}]
<1>1. /\ DOMAIN rest = Fields
      /\ rest.entry = [v \in Urls |-> IF v \in U THEN NoEntry ELSE c.entry[v]]
      /\ rest.index = [h \in Hosts |-> c.index[h] \ (U \cap Cached(c))]
  BY RemovedOK
<1>2. DOMAIN d = DOMAIN rest /\ d.entry = rest.entry /\ d.index = [rest.index EXCEPT ![HostOf[u]] = {}]
  <2> HIDE DEF rest
  <2>. QED  BY <1>1 DEF Fields
<1>3. Invalidated(c, u) = d
  BY DEF Invalidated
<1>4. HostOf \in [Urls -> Hosts]
  BY HttpCacheAssumption DEF HttpCacheAssumption
<1> HIDE DEF U, rest, d
<1>5. Sound(rest)
  BY RemovedSound DEF rest
<1>6. Shaped(d)
  BY <1>1, <1>2, <1>4, <1>5 DEF Sound, Shaped
<1>7. ASSUME NEW v \in Urls
      PROVE  d.entry[v] = IF HostOf[v] = HostOf[u] THEN NoEntry ELSE c.entry[v]
  <2>1. CASE v \in U
    <3>1. HostOf[v] = HostOf[u]
      BY <2>1, <1>4 DEF Sound, Shaped, U
    <3>. QED  BY <3>1, <2>1, <1>1, <1>2
  <2>2. CASE v \notin U
    BY <2>2, <1>1, <1>2 DEF Sound, Cached, U
  <2>. QED  BY <2>1, <2>2
<1>. QED  BY <1>3, <1>4, <1>5, <1>6, <1>7, <1>1, <1>2 DEF Sound, Cached

LEMMA ReadSound ==
  ASSUME NEW c, NEW u \in Urls, Sound(c)
  PROVE  /\ Sound(Read(c, u))
         /\ \A v \in Urls : Read(c, u).entry[v] \in {NoEntry, c.entry[v]}
<1>1. CASE Read(c, u) = c
  BY <1>1
<1>2. CASE Read(c, u) = Removed(c, {u})
  BY <1>2, RemovedSound
<1>3. CASE Read(c, u) = Touched(c, u)
  BY <1>3, TouchedSound
<1>. QED  BY <1>1, <1>2, <1>3 DEF Read

\* The larger of two numbers.
LEMMA MaxOfTwo ==
  ASSUME NEW a \in Nat, NEW b \in Nat
  PROVE  Max({a, b}) \in {a, b} /\ Max({a, b}) >= a /\ Max({a, b}) >= b
<1>1. \E x \in {a, b} : \A y \in {a, b} : x >= y
  <2>1. CASE a >= b
    BY <2>1
  <2>2. CASE b >= a
    BY <2>2
  <2>. QED  BY <2>1, <2>2
<1>. QED  BY <1>1 DEF Max

-----------------------------------------------------------------------------
(* The invariant.                                                           *)

Requests == [phase : Phases, op : {"GET", "PUT"}, url : Urls \cup {NoUrl},
             private : BOOLEAN, on : Reqs \cup {NoReq}, seen : Nat \cup {-1}, met : BOOLEAN]
Proper(q) ==
    /\ q \in Requests
    /\ q.phase # "idle" => q.url \in Urls
    /\ q.phase \in {"waiting", "woken", "kept"} => q.op = "GET"
    /\ q.phase = "answered" => q.seen \in Nat

Types ==
    /\ Sound(cache)
    /\ inflight \in [Urls -> Reqs \cup {NoReq}]
    /\ req \in [Reqs -> Requests]
    /\ \A r \in Reqs : Proper(req[r])
    /\ origin \in [Hosts -> Nat] /\ acked \in [Hosts -> Nat]

\* A future belongs to a handler that fetches, and so do those in the table.
Owning(q) == q.op = "GET" /\ q.phase \in {"forwarding", "answered", "kept"}
Owners ==
    /\ \A r \in Reqs : req[r].on = r => Owning(req[r])
    /\ \A u \in Urls : inflight[u] # NoReq =>
           req[inflight[u]].on = inflight[u] /\ req[inflight[u]].url = u
    /\ WaitersHaveOwner

Busy(q) == q.phase \in {"forwarding", "answered"}
HostOfReq(q) == HostOf[q.url]
\* While a write is under way whatever is fetched or kept of its host is
\* marked as having met it.
Overlap ==
    \A w \in Reqs : Busy(req[w]) /\ req[w].op = "PUT" =>
        /\ \A r \in Reqs :
              Busy(req[r]) /\ req[r].op = "GET" /\ HostOfReq(req[r]) = HostOfReq(req[w])
                  => req[r].met
        /\ \A u \in Cached(cache) : HostOf[u] = HostOfReq(req[w]) => cache.entry[u].met
\* What an answered handler brings back is new, or has met a write.
Brought(q, o, a) ==
    q.phase = "answered" =>
        IF q.op = "GET" THEN q.seen < a[HostOfReq(q)] => q.met
        ELSE q.seen <= o[HostOfReq(q)]
Fresh ==
    /\ Overlap
    /\ \A r \in Reqs : Brought(req[r], origin, acked)
    /\ \A h \in Hosts : acked[h] <= origin[h]
    /\ StaleOnlyFromOverlap

IInv == Types /\ Owners /\ Fresh

LEMMA IInvInit == Init => IInv
<1> SUFFICES ASSUME Init  PROVE IInv
  OBVIOUS
<1>1. Proper(Idle) /\ Idle \in Requests /\ Idle.phase = "idle" /\ Idle.on = NoReq
  BY DEF Proper, Idle, Requests, Phases
<1>2. NoReq \notin Reqs
  BY HttpCacheAssumption DEF HttpCacheAssumption
<1>3. Sound(cache) /\ Cached(cache) = {}
  BY DEF Init, Sound, Shaped, Cached, Fields
<1>4. Types
  BY <1>1, <1>3 DEF Init, Types
<1>5. Owners
  BY <1>1, <1>2 DEF Init, Owners, WaitersHaveOwner, At
<1>6. \A r \in Reqs : req[r] = Idle
  BY DEF Init
<1>7. Overlap /\ \A r \in Reqs : Brought(req[r], origin, acked)
  BY <1>1, <1>6 DEF Overlap, Busy, Brought
<1>8. StaleOnlyFromOverlap
  BY <1>3 DEF StaleOnlyFromOverlap
<1>9. \A h \in Hosts : acked[h] <= origin[h]
  BY DEF Init
<1>10. Fresh
  BY <1>7, <1>8, <1>9 DEF Fresh
<1>. QED  BY <1>4, <1>5, <1>10 DEF IInv

-----------------------------------------------------------------------------
(* What several steps have in common.                                       *)

\* Nothing new comes into the table.
Shrinks ==
    \A u \in Cached(cache') :
        /\ u \in Cached(cache)
        /\ cache'.entry[u].ver = cache.entry[u].ver
        /\ cache'.entry[u].met = cache.entry[u].met
\* A handler gives up what it did, or goes to the upstream for a page.
Quiet(q) ==
    \/ ~Busy(req'[q])
    \/ req'[q] = req[q]
    \/ /\ req'[q].op = "GET" /\ req'[q].phase = "forwarding"
       /\ req'[q].met = Writing(HostOfReq(req'[q]))

LEMMA QuietStep ==
  ASSUME IInv, acked' = acked, origin' = origin, Shrinks, \A q \in Reqs : Quiet(q)
  PROVE  Fresh'
<1>1. ASSUME NEW w \in Reqs, Busy(req'[w]), req'[w].op = "PUT"
      PROVE  req'[w] = req[w] /\ Writing(HostOfReq(req[w]))
  <2>1. req'[w] = req[w]
    BY <1>1 DEF Quiet
  <2>. QED  BY <1>1, <2>1 DEF Writing, Busy, HostOfReq
<1>2. Overlap'
  <2>1. SUFFICES ASSUME NEW w \in Reqs, Busy(req'[w]), req'[w].op = "PUT"
        PROVE  /\ \A r \in Reqs :
                    Busy(req'[r]) /\ req'[r].op = "GET" /\ HostOfReq(req'[r]) = HostOfReq(req'[w])
                        => req'[r].met
               /\ \A u \in Cached(cache') :
                    HostOf[u] = HostOfReq(req'[w]) => cache'.entry[u].met
    BY DEF Overlap, Busy, HostOfReq, Cached
  <2>2. req'[w] = req[w] /\ Writing(HostOfReq(req[w]))
    BY <1>1, <2>1
  <2>3. ASSUME NEW r \in Reqs, Busy(req'[r]), req'[r].op = "GET",
               HostOfReq(req'[r]) = HostOfReq(req'[w])
        PROVE  req'[r].met
    <3>1. CASE req'[r] = req[r]
      BY <2>1, <2>2, <2>3, <3>1 DEF IInv, Fresh, Overlap
    <3>2. CASE req'[r].met = Writing(HostOfReq(req'[r]))
      BY <2>2, <2>3, <3>2
    <3>. QED  BY <2>3, <3>1, <3>2 DEF Quiet
  <2>4. ASSUME NEW u \in Cached(cache'), HostOf[u] = HostOfReq(req'[w])
        PROVE  cache'.entry[u].met
    BY <2>1, <2>2, <2>4 DEF IInv, Fresh, Overlap, Shrinks
  <2>. QED  BY <2>3, <2>4
<1>3. \A r \in Reqs : Brought(req'[r], origin', acked')
  BY DEF IInv, Fresh, Brought, Quiet, Busy
<1>4. StaleOnlyFromOverlap'
  <2>1. \A u \in Cached(cache') :
            cache'.entry[u].ver < acked[HostOf[u]] => cache'.entry[u].met
    BY DEF IInv, Fresh, StaleOnlyFromOverlap, Shrinks
  <2>. QED  BY <2>1 DEF StaleOnlyFromOverlap, Cached
<1>5. \A h \in Hosts : acked'[h] <= origin'[h]
  BY DEF IInv, Fresh
<1>. QED  BY <1>2, <1>3, <1>4, <1>5 DEF Fresh

\* The table of a read, or one that is left alone, has nothing new.
LEMMA ReadShrinks ==
  ASSUME IInv, NEW u \in Urls, cache' \in {cache, Read(cache, u)}
  PROVE  Sound(cache') /\ Shrinks
<1>1. Sound(cache)
  BY DEF IInv, Types
<1>2. Sound(cache') /\ \A v \in Urls : cache'.entry[v] \in {NoEntry, cache.entry[v]}
  BY <1>1, ReadSound
<1>. QED  BY <1>2 DEF Shrinks, Cached

\* A handler that fetches for itself and the others takes a place of its own,
\* over the one that is there.
LEMMA RegisterStep ==
  ASSUME IInv, NEW r \in Reqs, NEW q, Proper(q), q.op = "GET", q.url \in Urls,
         req[r].on # r, Register(r, q)
  PROVE  /\ req' \in [Reqs -> Requests] /\ (\A p \in Reqs : Proper(req'[p]))
         /\ inflight' \in [Urls -> Reqs \cup {NoReq}]
         /\ Owners' /\ \A p \in Reqs : Quiet(p)
<1> DEFINE n == Forwarding(q, r)
<1>1. /\ n \in Requests /\ n.phase = "forwarding" /\ n.op = "GET" /\ n.on = r
      /\ n.url = q.url /\ n.met = Writing(HostOf[n.url])
  BY DEF Proper, Forwarding, Requests, Phases, Writing
<1>2. Proper(n)
  BY <1>1 DEF Proper
<1>3. /\ inflight \in [Urls -> Reqs \cup {NoReq}] /\ req \in [Reqs -> Requests]
      /\ (\A p \in Reqs : Proper(req[p])) /\ Owners
  BY DEF IInv, Types
<1>4. /\ inflight' = [inflight EXCEPT ![q.url] = r]
      /\ req' = [req EXCEPT ![r] = n]
  BY DEF Register
<1> HIDE DEF n
<1>5. req' \in [Reqs -> Requests] /\ (\A p \in Reqs : Proper(req'[p]))
  BY <1>1, <1>2, <1>3, <1>4
<1>6. inflight' \in [Urls -> Reqs \cup {NoReq}]
  BY <1>3, <1>4
<1>7. ASSUME NEW p \in Reqs, req'[p].on = p  PROVE Owning(req'[p])
  BY <1>1, <1>3, <1>4, <1>7 DEF Owners, Owning
<1>8. ASSUME NEW u \in Urls, inflight'[u] # NoReq
      PROVE  req'[inflight'[u]].on = inflight'[u] /\ req'[inflight'[u]].url = u
  BY <1>1, <1>3, <1>4, <1>8 DEF Owners
<1>9. ASSUME NEW p \in Reqs, req'[p].phase = "waiting"
      PROVE  LET owner == req'[p].on
             IN  /\ owner \in Reqs /\ req'[owner].on = owner /\ req'[owner].url = req'[p].url
                 /\ req'[owner].phase \in {"forwarding", "answered", "kept"}
  <2>1. p # r
    BY <1>1, <1>3, <1>4, <1>9
  <2>2. req'[p] = req[p] /\ req[p].on # r
    BY <1>3, <1>4, <1>9, <2>1 DEF Owners, WaitersHaveOwner, At
  <2>. QED  BY <1>3, <1>4, <1>9, <2>2 DEF Owners, WaitersHaveOwner, At
<1>10. Owners'
  BY <1>7, <1>8, <1>9 DEF Owners, WaitersHaveOwner, At
<1>11. \A p \in Reqs : Quiet(p)
  BY <1>1, <1>3, <1>4 DEF Quiet, HostOfReq
<1>. QED  BY <1>5, <1>6, <1>10, <1>11

\* A handler that ends takes its future off the table - or that of the one
\* that replaced it, which goes on - and wakes those who wait for it.
LEMMA LeaveStep ==
  ASSUME IInv, NEW r \in Reqs, req[r].phase # "idle", Leave(r)
  PROVE  /\ req' \in [Reqs -> Requests] /\ (\A p \in Reqs : Proper(req'[p]))
         /\ inflight' \in [Urls -> Reqs \cup {NoReq}]
         /\ Owners' /\ Sound(cache') /\ Shrinks
         /\ \A p \in Reqs : ~Busy(req'[p]) \/ req'[p] = req[p]
         /\ ~Busy(req'[r])
<1>1. /\ inflight \in [Urls -> Reqs \cup {NoReq}] /\ req \in [Reqs -> Requests]
      /\ (\A p \in Reqs : Proper(req[p])) /\ Owners /\ Sound(cache)
  BY DEF IInv, Types
<1>2. Proper(Idle) /\ Idle \in Requests /\ Idle.phase = "idle" /\ Idle.on = NoReq
  BY DEF Proper, Idle, Requests, Phases
<1>3. req[r].url \in Urls
  BY <1>1 DEF Proper
<1>4. NoReq \notin Reqs
  BY HttpCacheAssumption DEF HttpCacheAssumption
<1>5. CASE req[r].on = r
  <2> DEFINE u == req[r].url
             result == IF Live(cache, u) THEN cache.entry[u].ver ELSE -1
             woken(p) == [req[p] EXCEPT !.phase = "woken", !.seen = result, !.on = NoReq]
  <2>1. /\ inflight' = [inflight EXCEPT ![u] = NoReq]
        /\ req' = Resolved(r)
        /\ cache' = Read(cache, u)
    BY <1>5 DEF Leave
  <2>2. result \in Nat \cup {-1}
    BY <1>1, <1>3 DEF Live, Sound, Shaped, Bodies
  <2>3. \A p \in Reqs : req'[p] = IF p = r THEN Idle
            ELSE IF req[p].phase = "waiting" /\ req[p].on = r THEN woken(p) ELSE req[p]
    BY <2>1 DEF Resolved
  <2>4. req' = [p \in Reqs |-> req'[p]]
    BY <2>1 DEF Resolved
  <2> HIDE DEF result
  <2>5. \A p \in Reqs : /\ woken(p) \in Requests /\ woken(p).phase = "woken"
                        /\ woken(p).on = NoReq /\ woken(p).op = req[p].op
                        /\ woken(p).url = req[p].url
    BY <1>1, <2>2 DEF Requests, Phases
  <2> HIDE DEF woken
  <2>6. \A p \in Reqs : Proper(req'[p]) /\ req'[p] \in Requests
    BY <1>1, <1>2, <2>3, <2>5 DEF Proper
  <2>7. ASSUME NEW p \in Reqs, req'[p].on = p  PROVE Owning(req'[p])
    BY <1>1, <1>2, <1>4, <2>3, <2>5, <2>7 DEF Owners, Owning
  <2>8. ASSUME NEW v \in Urls, inflight'[v] # NoReq
        PROVE  req'[inflight'[v]].on = inflight'[v] /\ req'[inflight'[v]].url = v
    <3>1. v # u /\ inflight'[v] = inflight[v] /\ inflight[v] \in Reqs
      BY <1>1, <1>3, <2>1, <2>8
    <3>2. inflight[v] # r /\ req[inflight[v]].on # r
      BY <1>1, <3>1, <2>8 DEF Owners
    <3>. QED  BY <1>1, <2>3, <2>8, <3>1, <3>2 DEF Owners
  <2>9. ASSUME NEW p \in Reqs, req'[p].phase = "waiting"
        PROVE  LET owner == req'[p].on
               IN  /\ owner \in Reqs /\ req'[owner].on = owner /\ req'[owner].url = req'[p].url
                   /\ req'[owner].phase \in {"forwarding", "answered", "kept"}
    <3>1. p # r /\ req'[p] = req[p] /\ req[p].on # r
      BY <1>2, <2>3, <2>5, <2>9
    <3>2. req[p].on \in Reqs /\ req[req[p].on].phase # "waiting"
      BY <1>1, <2>9, <3>1 DEF Owners, WaitersHaveOwner, At
    <3>3. req'[req[p].on] = req[req[p].on]
      BY <2>3, <3>1, <3>2
    <3>. QED  BY <1>1, <2>9, <3>1, <3>3 DEF Owners, WaitersHaveOwner, At
  <2>10. Owners'
    BY <2>7, <2>8, <2>9 DEF Owners, WaitersHaveOwner, At
  <2>11. Sound(cache') /\ Shrinks
    BY <1>3, <2>1, ReadShrinks
  <2>12. \A p \in Reqs : ~Busy(req'[p]) \/ req'[p] = req[p]
    BY <1>2, <2>3, <2>5 DEF Busy
  <2>13. ~Busy(req'[r]) /\ inflight' \in [Urls -> Reqs \cup {NoReq}]
    BY <1>1, <1>2, <2>1, <2>3 DEF Busy
  <2>. QED  BY <2>4, <2>6, <2>10, <2>11, <2>12, <2>13
<1>6. CASE req[r].on # r
  <2>1. req' = [req EXCEPT ![r] = Idle] /\ cache' = cache /\ inflight' = inflight
    BY <1>6 DEF Leave
  <2>2. ASSUME NEW p \in Reqs, req'[p].on = p  PROVE Owning(req'[p])
    BY <1>1, <1>2, <1>4, <2>1, <2>2 DEF Owners, Owning
  <2>3. ASSUME NEW v \in Urls, inflight'[v] # NoReq
        PROVE  req'[inflight'[v]].on = inflight'[v] /\ req'[inflight'[v]].url = v
    <3>1. inflight[v] # r
      BY <1>6, <2>1, <2>3, <1>1 DEF Owners
    <3>. QED  BY <1>1, <2>1, <2>3, <3>1 DEF Owners
  <2>4. ASSUME NEW p \in Reqs, req'[p].phase = "waiting"
        PROVE  LET owner == req'[p].on
               IN  /\ owner \in Reqs /\ req'[owner].on = owner /\ req'[owner].url = req'[p].url
                   /\ req'[owner].phase \in {"forwarding", "answered", "kept"}
    <3>1. p # r /\ req'[p] = req[p]
      BY <1>1, <1>2, <2>1, <2>4
    <3>2. req[p].on \in Reqs /\ req[p].on # r
      BY <1>1, <1>6, <2>4, <3>1 DEF Owners, WaitersHaveOwner, At
    <3>. QED  BY <1>1, <2>1, <2>4, <3>1, <3>2 DEF Owners, WaitersHaveOwner, At
  <2>5. Owners'
    BY <2>2, <2>3, <2>4 DEF Owners, WaitersHaveOwner, At
  <2>6. Shrinks /\ Sound(cache')
    BY <1>1, <2>1 DEF Shrinks
  <2>. QED  BY <1>1, <1>2, <2>1, <2>5, <2>6 DEF Busy
<1>. QED  BY <1>5, <1>6

-----------------------------------------------------------------------------
(* The steps.                                                               *)

LEMMA GetStep ==
  ASSUME IInv, NEW r \in Reqs, NEW u \in Urls, NEW private \in BOOLEAN, Get(r, u, private)
  PROVE  IInv'
<1> DEFINE q == [Idle EXCEPT !.url = u, !.private = private]
           hit == ~private /\ Live(cache, u)
           joined == [q EXCEPT !.phase = "waiting", !.on = inflight[u]]
           direct == Forwarding(q, NoReq)
<1>1. /\ inflight \in [Urls -> Reqs \cup {NoReq}] /\ req \in [Reqs -> Requests]
      /\ (\A p \in Reqs : Proper(req[p])) /\ Owners /\ Sound(cache)
      /\ origin \in [Hosts -> Nat] /\ acked \in [Hosts -> Nat]
  BY DEF IInv, Types
<1>2. NoReq \notin Reqs
  BY HttpCacheAssumption DEF HttpCacheAssumption
<1>3. /\ q \in Requests /\ q.op = "GET" /\ q.url = u /\ q.phase = "idle" /\ q.on = NoReq
  BY DEF Idle, Requests, Phases
<1>4. /\ req[r].phase = "idle" /\ origin' = origin /\ acked' = acked
      /\ cache' \in {cache, Read(cache, u)}
      /\ \/ inflight' = inflight /\ req' = req
         \/ inflight' = inflight /\ req' = [req EXCEPT ![r] = direct]
         \/ inflight[u] # NoReq /\ inflight' = inflight /\ req' = [req EXCEPT ![r] = joined]
         \/ Register(r, q)
  BY DEF Get, At
<1>5. Proper(q)
  BY <1>3 DEF Proper
<1>6. /\ direct \in Requests /\ direct.phase = "forwarding" /\ direct.op = "GET"
      /\ direct.on = NoReq /\ direct.url = u /\ direct.met = Writing(HostOf[direct.url])
      /\ Proper(direct)
  BY <1>3 DEF Forwarding, Requests, Phases, Writing, Proper
<1>7. /\ joined \in Requests /\ joined.phase = "waiting" /\ joined.op = "GET"
      /\ joined.on = inflight[u] /\ joined.url = u /\ Proper(joined)
  BY <1>1, <1>3 DEF Requests, Phases, Proper
<1> HIDE DEF q, joined, direct
<1>8. req[r].on # r
  BY <1>1, <1>4 DEF Owners, Owning
<1>9. \A p \in Reqs : req[p].phase = "waiting" => req[p].on # r
  BY <1>1, <1>8 DEF Owners, WaitersHaveOwner, At
<1>10. \A v \in Urls : inflight[v] # r
  BY <1>1, <1>2, <1>8 DEF Owners
<1>11. /\ req' \in [Reqs -> Requests] /\ (\A p \in Reqs : Proper(req'[p]))
       /\ inflight' \in [Urls -> Reqs \cup {NoReq}]
       /\ Owners' /\ \A p \in Reqs : Quiet(p)
  <2>1. CASE inflight' = inflight /\ req' = req
    BY <1>1, <2>1 DEF Owners, WaitersHaveOwner, At, Quiet
  <2>2. ASSUME NEW new, new \in Requests, Proper(new), new.on # r, new.phase # "waiting",
               inflight' = inflight, req' = [req EXCEPT ![r] = new]
        PROVE  Owners'
    <3>1. ASSUME NEW p \in Reqs, req'[p].on = p  PROVE Owning(req'[p])
      BY <1>1, <2>2, <3>1 DEF Owners
    <3>2. ASSUME NEW v \in Urls, inflight'[v] # NoReq
          PROVE  req'[inflight'[v]].on = inflight'[v] /\ req'[inflight'[v]].url = v
      BY <1>1, <1>10, <2>2, <3>2 DEF Owners
    <3>3. ASSUME NEW p \in Reqs, req'[p].phase = "waiting"
          PROVE  LET owner == req'[p].on
                 IN  /\ owner \in Reqs /\ req'[owner].on = owner
                     /\ req'[owner].url = req'[p].url
                     /\ req'[owner].phase \in {"forwarding", "answered", "kept"}
      BY <1>1, <1>9, <2>2, <3>3 DEF Owners, WaitersHaveOwner, At
    <3>. QED  BY <3>1, <3>2, <3>3 DEF Owners, WaitersHaveOwner, At
  <2>3. CASE inflight' = inflight /\ req' = [req EXCEPT ![r] = direct]
    <3>1. Owners'
      BY <1>2, <1>6, <2>2, <2>3
    <3>. QED  BY <1>1, <1>6, <2>3, <3>1 DEF Quiet, HostOfReq
  <2>4. CASE inflight[u] # NoReq /\ inflight' = inflight /\ req' = [req EXCEPT ![r] = joined]
    <3>1. ASSUME NEW p \in Reqs, req'[p].on = p  PROVE Owning(req'[p])
      BY <1>1, <1>7, <1>10, <2>4, <3>1 DEF Owners
    <3>2. ASSUME NEW v \in Urls, inflight'[v] # NoReq
          PROVE  req'[inflight'[v]].on = inflight'[v] /\ req'[inflight'[v]].url = v
      BY <1>1, <1>10, <2>4, <3>2 DEF Owners
    <3>3. inflight[u] \in Reqs /\ Owning(req[inflight[u]])
      BY <1>1, <2>4 DEF Owners
    <3>4. ASSUME NEW p \in Reqs, req'[p].phase = "waiting"
          PROVE  LET owner == req'[p].on
                 IN  /\ owner \in Reqs /\ req'[owner].on = owner
                     /\ req'[owner].url = req'[p].url
                     /\ req'[owner].phase \in {"forwarding", "answered", "kept"}
      <4>1. CASE p = r
        BY <1>1, <1>7, <1>10, <2>4, <3>3, <4>1 DEF Owners, Owning
      <4>2. CASE p # r
        BY <1>1, <1>9, <2>4, <3>4, <4>2 DEF Owners, WaitersHaveOwner, At
      <4>. QED  BY <4>1, <4>2
    <3>5. Owners'
      BY <3>1, <3>2, <3>4 DEF Owners, WaitersHaveOwner, At
    <3>. QED  BY <1>1, <1>7, <2>4, <3>5 DEF Quiet, Busy
  <2>5. CASE Register(r, q)
    BY <1>3, <1>5, <1>8, <2>5, RegisterStep
  <2>. QED  BY <1>4, <2>1, <2>3, <2>4, <2>5
<1>12. Sound(cache') /\ Shrinks
  BY <1>4, ReadShrinks
<1>13. Fresh'
  BY <1>4, <1>11, <1>12, QuietStep
<1>14. Types'
  BY <1>1, <1>4, <1>11, <1>12 DEF Types, Sound, Shaped, Cached, Fields
<1>. QED  BY <1>11, <1>13, <1>14 DEF IInv

\* Steps that register a future or leave, and do nothing else.
LEMMA JoinStep ==
  ASSUME IInv, NEW r \in Reqs, JoinFailed(r) \/ JoinTimesOut(r)
  PROVE  IInv'
<1>1. /\ Register(r, req[r]) /\ cache' = cache /\ origin' = origin /\ acked' = acked
      /\ req[r].phase \in {"waiting", "woken"}
  BY DEF JoinFailed, JoinTimesOut, At
<1>2. Proper(req[r]) /\ Owners /\ Types
  BY DEF IInv, Types
<1>3. req[r].on # r
  BY <1>1, <1>2 DEF Owners, Owning
<1>4. /\ req' \in [Reqs -> Requests] /\ (\A p \in Reqs : Proper(req'[p]))
      /\ inflight' \in [Urls -> Reqs \cup {NoReq}]
      /\ Owners' /\ \A p \in Reqs : Quiet(p)
  <2>1. Proper(req[r]) /\ req[r].op = "GET" /\ req[r].url \in Urls
    BY <1>1, <1>2 DEF Proper
  <2> DEFINE q == req[r]
  <2> HIDE DEF q
  <2>2. Proper(q) /\ q.op = "GET" /\ q.url \in Urls /\ Register(r, q)
    BY <1>1, <2>1 DEF q
  <2>. QED  BY <1>3, <2>2, RegisterStep
<1>5. Shrinks
  BY <1>1 DEF Shrinks
<1>6. Fresh'
  BY <1>1, <1>4, <1>5, QuietStep
<1>7. Types'
  BY <1>1, <1>2, <1>4 DEF Types, Sound, Shaped, Cached, Fields
<1>. QED  BY <1>4, <1>6, <1>7 DEF IInv

LEMMA EndStep ==
  ASSUME IInv, NEW r \in Reqs, FinishGet(r) \/ Fail(r) \/ JoinAnswered(r)
  PROVE  IInv'
<1>1. Leave(r) /\ origin' = origin /\ acked' = acked /\ req[r].phase # "idle"
  <2>1. CASE JoinAnswered(r)
    <3>1. req[r].on # r
      BY <2>1 DEF IInv, Owners, Owning, JoinAnswered, At
    <3>. QED  BY <2>1, <3>1 DEF JoinAnswered, At, Leave
  <2>. QED  BY <2>1 DEF FinishGet, Fail, At
<1>2. /\ req' \in [Reqs -> Requests] /\ (\A p \in Reqs : Proper(req'[p]))
      /\ inflight' \in [Urls -> Reqs \cup {NoReq}]
      /\ Owners' /\ Sound(cache') /\ Shrinks /\ \A p \in Reqs : ~Busy(req'[p]) \/ req'[p] = req[p]
  BY <1>1, LeaveStep
<1>3. Fresh'
  BY <1>1, <1>2, QuietStep DEF Quiet
<1>4. Types'
  BY <1>1, <1>2 DEF IInv, Types, Sound, Shaped, Cached, Fields
<1>. QED  BY <1>2, <1>3, <1>4 DEF IInv

\* What keeps the phases of the owners keeps the futures and their waiters.
LEMMA OwnersStill ==
  ASSUME IInv, inflight' = inflight,
         \A p \in Reqs :
            /\ req'[p].on = req[p].on \/ (req'[p].on = NoReq /\ req[p].on # p)
            /\ req[p].on = p => Owning(req'[p]) /\ req'[p].on = p /\ req'[p].url = req[p].url
            /\ req'[p].phase = "waiting" => req'[p] = req[p]
  PROVE  Owners'
<1>1. Owners /\ inflight \in [Urls -> Reqs \cup {NoReq}] /\ NoReq \notin Reqs
  BY HttpCacheAssumption DEF IInv, Types, HttpCacheAssumption
<1>2. \A p \in Reqs : req'[p].on = p => Owning(req'[p])
  BY <1>1
<1>3. ASSUME NEW v \in Urls, inflight'[v] # NoReq
      PROVE  req'[inflight'[v]].on = inflight'[v] /\ req'[inflight'[v]].url = v
  BY <1>1, <1>3 DEF Owners
<1>4. ASSUME NEW p \in Reqs, req'[p].phase = "waiting"
      PROVE  LET owner == req'[p].on
             IN  /\ owner \in Reqs /\ req'[owner].on = owner /\ req'[owner].url = req'[p].url
                 /\ req'[owner].phase \in {"forwarding", "answered", "kept"}
  BY <1>1, <1>4 DEF Owners, WaitersHaveOwner, At, Owning
<1>. QED  BY <1>2, <1>3, <1>4 DEF Owners, WaitersHaveOwner, At

LEMMA ServedStep ==
  ASSUME IInv, NEW r \in Reqs, Served(r)
  PROVE  IInv'
<1> DEFINE h == HostOf[req[r].url]
           now == origin[h] + (IF req[r].op = "PUT" THEN 1 ELSE 0)
           new == [req[r] EXCEPT !.phase = "answered", !.seen = now]
<1>1. /\ req \in [Reqs -> Requests] /\ (\A p \in Reqs : Proper(req[p]))
      /\ Sound(cache) /\ origin \in [Hosts -> Nat] /\ acked \in [Hosts -> Nat]
      /\ HostOf \in [Urls -> Hosts] /\ inflight \in [Urls -> Reqs \cup {NoReq}]
  BY HttpCacheAssumption DEF IInv, Types, HttpCacheAssumption
<1>2. /\ req[r].phase = "forwarding" /\ origin' = [origin EXCEPT ![h] = now]
      /\ req' = [req EXCEPT ![r].phase = "answered", ![r].seen = now]
      /\ cache' = cache /\ inflight' = inflight /\ acked' = acked
  BY DEF Served, At
<1>3. req[r].url \in Urls /\ h \in Hosts /\ origin[h] \in Nat /\ now \in Nat
  BY <1>1, <1>2 DEF Proper
<1>4. req' = [req EXCEPT ![r] = new]
  BY <1>1, <1>2
<1>5. /\ new \in Requests /\ new.phase = "answered" /\ new.op = req[r].op /\ new.url = req[r].url
      /\ new.on = req[r].on /\ new.met = req[r].met /\ new.seen = now
  BY <1>1, <1>3 DEF Requests, Phases
<1>6. now >= origin[h] /\ (req[r].op = "GET" => now = origin[h])
  BY <1>3
<1> HIDE DEF h, now, new
<1>7. \A p \in Reqs : req'[p] = IF p = r THEN new ELSE req[p]
  BY <1>1, <1>4
<1>8. Types'
  <2>1. \A p \in Reqs : Proper(req'[p]) /\ req'[p] \in Requests
    BY <1>1, <1>3, <1>5, <1>7 DEF Proper
  <2>2. req' \in [Reqs -> Requests]
    BY <1>1, <1>4, <1>5
  <2>3. origin' \in [Hosts -> Nat]
    BY <1>1, <1>2, <1>3
  <2>. QED  BY <1>1, <1>2, <2>1, <2>2, <2>3 DEF Types, Sound, Shaped, Cached, Fields
<1>9. Owners'
  <2>1. req[r].on = r => Owning(new)
    BY <1>5 DEF IInv, Owners, Owning
  <2>2. \A p \in Reqs : req[p].on = p => Owning(req[p])
    BY DEF IInv, Owners
  <2>. QED  BY <1>2, <1>5, <1>7, <2>1, <2>2, OwnersStill
<1>10. \A p \in Reqs : /\ Busy(req'[p]) <=> Busy(req[p])
                       /\ req'[p].op = req[p].op /\ req'[p].met = req[p].met
                       /\ HostOfReq(req'[p]) = HostOfReq(req[p])
  BY <1>2, <1>5, <1>7 DEF Busy, HostOfReq
<1>11. Overlap'
  <2>1. SUFFICES ASSUME NEW w \in Reqs, Busy(req'[w]), req'[w].op = "PUT"
        PROVE  /\ \A p \in Reqs :
                    Busy(req'[p]) /\ req'[p].op = "GET" /\ HostOfReq(req'[p]) = HostOfReq(req'[w])
                        => req'[p].met
               /\ \A u \in Cached(cache) :
                    HostOf[u] = HostOfReq(req'[w]) => cache.entry[u].met
    BY <1>2 DEF Overlap, Busy, HostOfReq, Cached
  <2>. QED  BY <1>10, <2>1 DEF IInv, Fresh, Overlap
<1>12. \A g \in Hosts : acked'[g] <= origin'[g] /\ origin'[g] >= origin[g] /\ origin[g] \in Nat
  BY <1>1, <1>2, <1>3, <1>6 DEF IInv, Fresh
<1>13. ASSUME NEW p \in Reqs  PROVE Brought(req'[p], origin', acked')
  <2>1. CASE p = r
    <3>1. HostOfReq(new) = h /\ new.op \in {"GET", "PUT"} /\ acked[h] <= origin[h] /\ acked[h] \in Nat
      BY <1>1, <1>3, <1>5 DEF HostOfReq, h, IInv, Fresh, Requests
    <3>2. origin'[h] = now
      BY <1>1, <1>2, <1>3
    <3>3. CASE new.op = "GET"
      <4>1. ~(now < acked[h])
        BY <1>3, <1>5, <1>6, <3>1, <3>3
      <4>. QED  BY <1>2, <1>5, <1>7, <2>1, <3>1, <3>3, <4>1 DEF Brought
    <3>4. CASE new.op = "PUT"
      BY <1>3, <1>5, <1>7, <2>1, <3>1, <3>2, <3>4 DEF Brought
    <3>. QED  BY <3>1, <3>3, <3>4
  <2>2. CASE p # r
    <3>1. Brought(req[p], origin, acked) /\ Proper(req[p])
      BY <1>1 DEF IInv, Fresh
    <3>2. req[p].phase = "answered" => HostOfReq(req[p]) \in Hosts /\ req[p].seen \in Nat
      BY <1>1, <3>1 DEF Proper, HostOfReq
    <3>3. CASE req[p].op = "GET"
      BY <1>2, <1>7, <2>2, <3>1, <3>3 DEF Brought
    <3>4. CASE req[p].op # "GET" /\ req[p].phase = "answered"
      <4> DEFINE g == HostOfReq(req[p])
      <4>1. req[p].seen <= origin[g] /\ g \in Hosts /\ req[p].seen \in Nat
        BY <3>1, <3>2, <3>4 DEF Brought
      <4> HIDE DEF g
      <4>2. origin'[g] \in Nat /\ origin'[g] >= origin[g] /\ origin[g] \in Nat
        BY <1>12, <1>8, <4>1 DEF Types
      <4>3. req[p].seen <= origin'[g]
        BY <4>1, <4>2
      <4>. QED  BY <1>7, <2>2, <3>4, <4>3 DEF Brought, g
    <3>. QED  BY <1>7, <2>2, <3>3, <3>4 DEF Brought
  <2>. QED  BY <2>1, <2>2
<1>14. StaleOnlyFromOverlap'
  BY <1>2 DEF IInv, Fresh, StaleOnlyFromOverlap, Cached
<1>15. Fresh'
  BY <1>11, <1>12, <1>13, <1>14 DEF Fresh
<1>. QED  BY <1>8, <1>9, <1>15 DEF IInv

\* What a fetch leaves in the table has met the writes that outdate it.
LEMMA KeepStep ==
  ASSUME IInv, NEW r \in Reqs, Keep(r)
  PROVE  IInv'
<1> DEFINE u == req[r].url
           new == [req[r] EXCEPT !.phase = "kept"]
<1>1. /\ req \in [Reqs -> Requests] /\ (\A p \in Reqs : Proper(req[p]))
      /\ Sound(cache) /\ origin \in [Hosts -> Nat] /\ acked \in [Hosts -> Nat]
      /\ HostOf \in [Urls -> Hosts] /\ inflight \in [Urls -> Reqs \cup {NoReq}]
      /\ Sizes \subseteq Nat
  BY HttpCacheAssumption DEF IInv, Types, HttpCacheAssumption
<1>2. /\ req[r].phase = "answered" /\ req[r].op = "GET" /\ req' = [req EXCEPT ![r] = new]
      /\ inflight' = inflight /\ origin' = origin /\ acked' = acked
      /\ \/ cache' = cache
         \/ \E size \in Sizes : cache' = Stored(cache, u, Kept(r, size))
  BY DEF Keep, At
<1>3. u \in Urls /\ req[r].seen \in Nat /\ req[r].met \in BOOLEAN
  BY <1>1, <1>2 DEF Proper, Requests
<1>4. /\ new \in Requests /\ new.phase = "kept" /\ new.op = "GET" /\ new.url = u
      /\ new.on = req[r].on
  BY <1>1, <1>2 DEF Requests, Phases
<1>5. Proper(new)
  BY <1>3, <1>4 DEF Proper
<1>6. /\ Sound(cache')
      /\ \A v \in Cached(cache') :
            \/ /\ v = u /\ cache'.entry[v].ver = req[r].seen
               /\ cache'.entry[v].met = req[r].met
            \/ v \in Cached(cache) /\ cache'.entry[v] = cache.entry[v]
  <2>1. CASE cache' = cache
    BY <1>1, <2>1
  <2>2. ASSUME NEW size \in Sizes, cache' = Stored(cache, u, Kept(r, size))
        PROVE  /\ Sound(cache')
               /\ \A v \in Cached(cache') :
                     \/ /\ v = u /\ cache'.entry[v].ver = req[r].seen
                        /\ cache'.entry[v].met = req[r].met
                     \/ v \in Cached(cache) /\ cache'.entry[v] = cache.entry[v]
    <3> DEFINE e == Kept(r, size)
    <3>1. e \in Bodies /\ e.ver = req[r].seen /\ e.met = req[r].met
      BY <1>1, <1>3, <2>2 DEF Kept, Bodies
    <3> HIDE DEF e, u
    <3>2. /\ Sound(cache')
          /\ \A v \in Urls : cache'.entry[v] \in {NoEntry, IF v = u THEN e ELSE cache.entry[v]}
      BY <1>1, <1>3, <2>2, <3>1, StoredSound DEF e
    <3>. QED  BY <3>1, <3>2 DEF Cached
  <2>. QED  BY <1>2, <2>1, <2>2
<1> HIDE DEF u, new
<1>7. \A p \in Reqs : req'[p] = IF p = r THEN new ELSE req[p]
  BY <1>1, <1>2
<1>8. Types'
  <2>1. (\A p \in Reqs : Proper(req'[p])) /\ req' \in [Reqs -> Requests]
    BY <1>1, <1>2, <1>4, <1>5, <1>7
  <2>. QED  BY <1>1, <1>2, <1>6, <2>1 DEF Types, Sound, Shaped, Cached, Fields
<1>9. Owners'
  <2>1. req[r].on = r => Owning(new)
    BY <1>4 DEF Owning
  <2>2. \A p \in Reqs : req[p].on = p => Owning(req[p])
    BY DEF IInv, Owners
  <2>. QED  BY <1>2, <1>4, <1>7, <2>1, <2>2, OwnersStill DEF u
<1>10. \A p \in Reqs : Busy(req'[p]) => req'[p] = req[p] /\ p # r
  BY <1>4, <1>7 DEF Busy
<1>11. Busy(req[r]) /\ HostOfReq(req[r]) = HostOf[u] /\ Brought(req[r], origin, acked)
  BY <1>2 DEF Busy, HostOfReq, u, IInv, Fresh
<1>12. Overlap'
  <2>1. SUFFICES ASSUME NEW w \in Reqs, Busy(req'[w]), req'[w].op = "PUT"
        PROVE  /\ \A p \in Reqs :
                    Busy(req'[p]) /\ req'[p].op = "GET" /\ HostOfReq(req'[p]) = HostOfReq(req'[w])
                        => req'[p].met
               /\ \A v \in Cached(cache') :
                    HostOf[v] = HostOfReq(req'[w]) => cache'.entry[v].met
    BY DEF Overlap, Busy, HostOfReq, Cached
  <2>2. /\ Busy(req[w]) /\ req[w].op = "PUT" /\ req'[w] = req[w]
        /\ \A p \in Reqs :
              Busy(req[p]) /\ req[p].op = "GET" /\ HostOfReq(req[p]) = HostOfReq(req[w])
                  => req[p].met
        /\ \A v \in Cached(cache) : HostOf[v] = HostOfReq(req[w]) => cache.entry[v].met
    BY <1>10, <2>1 DEF IInv, Fresh, Overlap
  <2>3. HostOf[u] = HostOfReq(req[w]) => req[r].met
    BY <1>2, <1>11, <2>2
  <2>. QED  BY <1>6, <1>10, <2>2, <2>3
<1>13. \A p \in Reqs : Brought(req'[p], origin', acked')
  <2>1. ASSUME NEW p \in Reqs  PROVE Brought(req'[p], origin', acked')
    <3>1. CASE Busy(req'[p])
      BY <1>2, <1>10, <3>1 DEF IInv, Fresh
    <3>2. CASE ~Busy(req'[p])
      BY <3>2 DEF Busy, Brought
    <3>. QED  BY <3>1, <3>2
  <2>. QED  BY <2>1
<1>14. StaleOnlyFromOverlap'
  <2>1. ASSUME NEW v \in Cached(cache'), cache'.entry[v].ver < acked[HostOf[v]]
        PROVE  cache'.entry[v].met
    <3>1. CASE v = u /\ cache'.entry[v].ver = req[r].seen /\ cache'.entry[v].met = req[r].met
      BY <1>2, <1>11, <2>1, <3>1 DEF Brought
    <3>2. CASE v \in Cached(cache) /\ cache'.entry[v] = cache.entry[v]
      BY <2>1, <3>2 DEF IInv, Fresh, StaleOnlyFromOverlap
    <3>. QED  BY <1>6, <2>1, <3>1, <3>2
  <2>. QED  BY <1>2, <2>1 DEF StaleOnlyFromOverlap, Cached
<1>15. \A h \in Hosts : acked'[h] <= origin'[h]
  BY <1>2 DEF IInv, Fresh
<1>16. Fresh'
  BY <1>12, <1>13, <1>14, <1>15 DEF Fresh
<1>. QED  BY <1>8, <1>9, <1>16 DEF IInv

\* The answer to a write is passed on: what lacks it has met it.
LEMMA FinishPutStep ==
  ASSUME IInv, NEW r \in Reqs, FinishPut(r)
  PROVE  IInv'
<1> DEFINE h == HostOf[req[r].url]
           top == Max({acked[h], req[r].seen})
<1>1. /\ req \in [Reqs -> Requests] /\ (\A p \in Reqs : Proper(req[p]))
      /\ Sound(cache) /\ origin \in [Hosts -> Nat] /\ acked \in [Hosts -> Nat]
      /\ HostOf \in [Urls -> Hosts]
  BY HttpCacheAssumption DEF IInv, Types, HttpCacheAssumption
<1>2. /\ req[r].phase = "answered" /\ req[r].op = "PUT" /\ origin' = origin
      /\ acked' = [acked EXCEPT ![h] = top] /\ Leave(r)
  BY DEF FinishPut, At
<1>3. req[r].url \in Urls /\ h \in Hosts /\ acked[h] \in Nat /\ req[r].seen \in Nat
  BY <1>1, <1>2 DEF Proper
<1>4. top \in {acked[h], req[r].seen} /\ top \in Nat /\ top >= acked[h]
  BY <1>3, MaxOfTwo
<1>5. acked[h] <= origin[h] /\ req[r].seen <= origin[h]
  BY <1>2, <1>3 DEF IInv, Fresh, Brought, HostOfReq
<1> HIDE DEF h, top
<1>6. /\ req' \in [Reqs -> Requests] /\ (\A p \in Reqs : Proper(req'[p]))
      /\ inflight' \in [Urls -> Reqs \cup {NoReq}]
      /\ Owners' /\ Sound(cache') /\ Shrinks
      /\ \A p \in Reqs : ~Busy(req'[p]) \/ req'[p] = req[p]
  BY <1>2, LeaveStep
<1>7. Types'
  <2>1. acked' \in [Hosts -> Nat]
    BY <1>1, <1>2, <1>4
  <2>. QED  BY <1>1, <1>2, <1>6, <2>1 DEF Types, Sound, Shaped, Cached, Fields
<1>8. Busy(req[r]) /\ HostOfReq(req[r]) = h
  BY <1>2 DEF Busy, HostOfReq, h
<1>9. /\ \A p \in Reqs : Busy(req[p]) /\ req[p].op = "GET" /\ HostOfReq(req[p]) = h => req[p].met
      /\ \A u \in Cached(cache) : HostOf[u] = h => cache.entry[u].met
  BY <1>2, <1>8 DEF IInv, Fresh, Overlap
<1>10. Overlap'
  <2>1. SUFFICES ASSUME NEW w \in Reqs, Busy(req'[w]), req'[w].op = "PUT"
        PROVE  /\ \A p \in Reqs :
                    Busy(req'[p]) /\ req'[p].op = "GET" /\ HostOfReq(req'[p]) = HostOfReq(req'[w])
                        => req'[p].met
               /\ \A v \in Cached(cache') :
                    HostOf[v] = HostOfReq(req'[w]) => cache'.entry[v].met
    BY DEF Overlap, Busy, HostOfReq, Cached
  <2>2. req'[w] = req[w] /\ \A p \in Reqs : Busy(req'[p]) => req'[p] = req[p]
    BY <1>6, <2>1
  <2>. QED  BY <2>1, <2>2, <1>6 DEF IInv, Fresh, Overlap, Shrinks
<1>11. ASSUME NEW p \in Reqs  PROVE Brought(req'[p], origin', acked')
  <2>1. CASE ~Busy(req'[p])
    BY <2>1 DEF Busy, Brought
  <2>2. CASE Busy(req'[p])
    <3>1. req'[p] = req[p] /\ Brought(req[p], origin, acked)
      BY <1>6, <2>2 DEF IInv, Fresh
    <3>2. CASE HostOfReq(req[p]) = h /\ req[p].op = "GET"
      BY <1>9, <2>2, <3>1, <3>2 DEF Brought
    <3>3. CASE HostOfReq(req[p]) # h
      <4>1. acked'[HostOfReq(req[p])] = acked[HostOfReq(req[p])]
        <5>1. HostOfReq(req[p]) \in Hosts
          BY <1>1, <2>2, <3>1 DEF Busy, Proper, HostOfReq
        <5>. QED  BY <1>1, <1>2, <3>3, <5>1
      <4>. QED  BY <1>2, <3>1, <4>1 DEF Brought
    <3>4. CASE req[p].op # "GET"
      BY <1>2, <3>1, <3>4 DEF Brought
    <3>. QED  BY <3>2, <3>3, <3>4
  <2>. QED  BY <2>1, <2>2
<1>12. \A g \in Hosts : acked'[g] <= origin'[g]
  <2>1. ASSUME NEW g \in Hosts  PROVE acked'[g] <= origin'[g]
    <3>1. CASE g = h
      BY <1>1, <1>2, <1>3, <1>4, <1>5, <3>1
    <3>2. CASE g # h
      BY <1>1, <1>2, <3>2 DEF IInv, Fresh
    <3>. QED  BY <3>1, <3>2
  <2>. QED  BY <2>1
<1>13. StaleOnlyFromOverlap'
  <2>1. ASSUME NEW v \in Cached(cache'), cache'.entry[v].ver < acked'[HostOf[v]]
        PROVE  cache'.entry[v].met
    <3>1. /\ v \in Cached(cache) /\ v \in Urls
          /\ cache'.entry[v].ver = cache.entry[v].ver /\ cache'.entry[v].met = cache.entry[v].met
      BY <1>6, <2>1 DEF Shrinks, Cached
    <3>2. CASE HostOf[v] = h
      BY <1>9, <3>1, <3>2
    <3>3. CASE HostOf[v] # h
      <4>1. acked'[HostOf[v]] = acked[HostOf[v]]
        BY <1>1, <1>2, <3>1, <3>3
      <4>. QED  BY <2>1, <3>1, <4>1 DEF IInv, Fresh, StaleOnlyFromOverlap
    <3>. QED  BY <3>2, <3>3
  <2>. QED  BY <2>1 DEF StaleOnlyFromOverlap, Cached
<1>14. Fresh'
  BY <1>10, <1>11, <1>12, <1>13 DEF Fresh
<1>. QED  BY <1>6, <1>7, <1>14 DEF IInv

\* A write comes in: what is fetched of its host has met it from now on, and
\* nothing of the host is left in the table.
LEMMA PutStep ==
  ASSUME IInv, NEW r \in Reqs, NEW u \in Urls, Put(r, u)
  PROVE  IInv'
<1> DEFINE new == [Idle EXCEPT !.op = "PUT", !.url = u, !.phase = "forwarding"]
           h == HostOf[u]
           Met(p) == Busy(req[p]) /\ HostOfReq(req[p]) = h
           marked(p) == [req[p] EXCEPT !.met = TRUE]
<1>1. /\ req \in [Reqs -> Requests] /\ (\A p \in Reqs : Proper(req[p]))
      /\ Sound(cache) /\ origin \in [Hosts -> Nat] /\ acked \in [Hosts -> Nat]
      /\ HostOf \in [Urls -> Hosts] /\ inflight \in [Urls -> Reqs \cup {NoReq}]
      /\ NoReq \notin Reqs
  BY HttpCacheAssumption DEF IInv, Types, HttpCacheAssumption
<1>2. /\ req[r].phase = "idle" /\ cache' = Invalidated(cache, u)
      /\ inflight' = inflight /\ origin' = origin /\ acked' = acked
      /\ req' = [p \in Reqs |-> IF p = r THEN new ELSE IF Met(p) THEN marked(p) ELSE req[p]]
  BY DEF Put, At, Busy, HostOfReq
<1>3. /\ new \in Requests /\ new.phase = "forwarding" /\ new.op = "PUT" /\ new.url = u
      /\ new.on = NoReq /\ Proper(new)
  BY DEF Idle, Requests, Phases, Proper
<1>4. \A p \in Reqs :
        /\ marked(p) \in Requests /\ marked(p).met
        /\ marked(p).phase = req[p].phase /\ marked(p).op = req[p].op /\ marked(p).url = req[p].url
        /\ marked(p).on = req[p].on /\ marked(p).seen = req[p].seen
  <2>1. ASSUME NEW q \in Requests
        PROVE  LET m == [q EXCEPT !.met = TRUE]
               IN  /\ m \in Requests /\ m.met
                   /\ m.phase = q.phase /\ m.op = q.op /\ m.url = q.url
                   /\ m.on = q.on /\ m.seen = q.seen
    BY DEF Requests
  <2>. QED  BY <1>1, <2>1
<1>5. /\ Sound(cache')
      /\ \A v \in Urls : cache'.entry[v] = IF HostOf[v] = h THEN NoEntry ELSE cache.entry[v]
  BY <1>1, <1>2, InvalidatedSound
<1> HIDE DEF new, h, marked, Met
<1>6. \A p \in Reqs : req'[p] = IF p = r THEN new ELSE IF Met(p) THEN marked(p) ELSE req[p]
  BY <1>2
<1>7. \A p \in Reqs \ {r} :
        /\ req'[p].phase = req[p].phase /\ req'[p].op = req[p].op /\ req'[p].url = req[p].url
        /\ req'[p].on = req[p].on /\ req'[p].seen = req[p].seen
        /\ req'[p].met = (req[p].met \/ Met(p))
        /\ req'[p] \in Requests
  <2>1. ASSUME NEW p \in Reqs \ {r}
        PROVE  /\ req'[p].phase = req[p].phase /\ req'[p].op = req[p].op
               /\ req'[p].url = req[p].url
               /\ req'[p].on = req[p].on /\ req'[p].seen = req[p].seen
               /\ req'[p].met = (req[p].met \/ Met(p))
               /\ req'[p] \in Requests
    <3>0. req[p] \in Requests /\ req[p].met \in BOOLEAN
      BY <1>1, <2>1 DEF Requests
    <3>1. CASE Met(p)
      <4>1. req'[p] = marked(p)
        BY <1>6, <2>1, <3>1
      <4>. QED  BY <1>4, <2>1, <3>1, <4>1
    <3>2. CASE ~Met(p)
      <4>1. req'[p] = req[p]
        BY <1>6, <2>1, <3>2
      <4>. QED  BY <3>0, <3>2, <4>1
    <3>. QED  BY <3>1, <3>2
  <2>. QED  BY <2>1
<1>8. Types'
  <2>1. \A p \in Reqs : Proper(req'[p]) /\ req'[p] \in Requests
    <3>1. ASSUME NEW p \in Reqs  PROVE Proper(req'[p]) /\ req'[p] \in Requests
      <4>1. CASE p = r
        BY <1>3, <1>6, <4>1
      <4>2. CASE p # r
        BY <1>1, <1>7, <4>2 DEF Proper
      <4>. QED  BY <4>1, <4>2
    <3>. QED  BY <3>1
  <2>2. req' \in [Reqs -> Requests]
    <3>1. req' = [p \in Reqs |-> req'[p]]
      BY <1>2
    <3>. QED  BY <2>1, <3>1
  <2>. QED  BY <1>1, <1>2, <1>5, <2>1, <2>2 DEF Types, Sound, Shaped, Cached, Fields
<1>9. Owners'
  <2>1. req[r].on # r
    BY <1>2 DEF IInv, Owners, Owning
  <2>2. \A p \in Reqs : req[p].on = p => Owning(req[p])
    BY DEF IInv, Owners
  <2>3. ASSUME NEW p \in Reqs
        PROVE  /\ req'[p].on = req[p].on \/ (req'[p].on = NoReq /\ req[p].on # p)
               /\ req[p].on = p => Owning(req'[p]) /\ req'[p].on = p /\ req'[p].url = req[p].url
               /\ req'[p].phase = "waiting" => req'[p] = req[p]
    <3>1. CASE p = r
      BY <1>3, <1>6, <2>1, <3>1
    <3>2. CASE p # r
      <4>1. req'[p].phase = "waiting" => req'[p] = req[p]
        BY <1>6, <1>7, <3>2 DEF Met, Busy
      <4>. QED  BY <1>7, <2>2, <3>2, <4>1 DEF Owning
    <3>. QED  BY <3>1, <3>2
  <2>. QED  BY <1>2, <2>3, OwnersStill
<1>10. /\ HostOfReq(new) = h
       /\ \A p \in Reqs \ {r} :
             /\ Busy(req'[p]) <=> Busy(req[p])
             /\ HostOfReq(req'[p]) = HostOfReq(req[p])
  BY <1>3, <1>7 DEF HostOfReq, Busy, h
<1>11. Overlap'
  <2>1. SUFFICES ASSUME NEW w \in Reqs, Busy(req'[w]), req'[w].op = "PUT"
        PROVE  /\ \A p \in Reqs :
                    Busy(req'[p]) /\ req'[p].op = "GET" /\ HostOfReq(req'[p]) = HostOfReq(req'[w])
                        => req'[p].met
               /\ \A v \in Cached(cache') :
                    HostOf[v] = HostOfReq(req'[w]) => cache'.entry[v].met
    BY DEF Overlap, Busy, HostOfReq, Cached
  <2>2. \A v \in Cached(cache') :
          HostOf[v] # h /\ v \in Cached(cache) /\ cache'.entry[v] = cache.entry[v]
    BY <1>5 DEF Cached
  <2>3. CASE w = r
    <3>1. HostOfReq(req'[w]) = h
      BY <1>6, <1>10, <2>3
    <3>2. ASSUME NEW p \in Reqs, Busy(req'[p]), req'[p].op = "GET", HostOfReq(req'[p]) = h
          PROVE  req'[p].met
      <4>1. p # r
        BY <1>3, <1>6, <3>2
      <4>2. Met(p)
        BY <1>10, <3>2, <4>1 DEF Met
      <4>. QED  BY <1>7, <4>1, <4>2
    <3>. QED  BY <2>2, <3>1, <3>2
  <2>4. CASE w # r
    <3>1. Busy(req[w]) /\ req[w].op = "PUT" /\ HostOfReq(req'[w]) = HostOfReq(req[w])
      BY <1>7, <1>10, <2>1, <2>4
    <3>2. ASSUME NEW p \in Reqs, Busy(req'[p]), req'[p].op = "GET",
                 HostOfReq(req'[p]) = HostOfReq(req'[w])
          PROVE  req'[p].met
      <4>1. p # r
        BY <1>3, <1>6, <3>2
      <4>2. Busy(req[p]) /\ req[p].op = "GET" /\ HostOfReq(req[p]) = HostOfReq(req[w])
        BY <1>7, <1>10, <3>1, <3>2, <4>1
      <4>. QED  BY <1>7, <3>1, <4>1, <4>2 DEF IInv, Fresh, Overlap
    <3>. QED  BY <2>2, <3>1, <3>2 DEF IInv, Fresh, Overlap
  <2>. QED  BY <2>3, <2>4
<1>12. ASSUME NEW p \in Reqs  PROVE Brought(req'[p], origin', acked')
  <2>1. CASE p = r
    BY <1>3, <1>6, <2>1 DEF Brought
  <2>2. CASE p # r
    <3>1. Brought(req[p], origin, acked) /\ HostOfReq(req'[p]) = HostOfReq(req[p])
      BY <1>10, <2>2 DEF IInv, Fresh
    <3>. QED  BY <1>2, <1>7, <2>2, <3>1 DEF Brought
  <2>. QED  BY <2>1, <2>2
<1>13. StaleOnlyFromOverlap'
  <2>1. \A v \in Cached(cache') : v \in Cached(cache) /\ cache'.entry[v] = cache.entry[v]
    BY <1>5 DEF Cached
  <2>. QED  BY <1>2, <2>1 DEF IInv, Fresh, StaleOnlyFromOverlap, Cached
<1>14. \A g \in Hosts : acked'[g] <= origin'[g]
  BY <1>2 DEF IInv, Fresh
<1>15. Fresh'
  BY <1>11, <1>12, <1>13, <1>14 DEF Fresh
<1>. QED  BY <1>8, <1>9, <1>15 DEF IInv

LEMMA ExpireStep ==
  ASSUME IInv, NEW u \in Urls, Expire(u)
  PROVE  IInv'
<1> DEFINE e == [cache.entry[u] EXCEPT !.expired = TRUE]
<1>1. /\ Sound(cache) /\ cache.entry[u] # NoEntry
      /\ cache' = [cache EXCEPT !.entry[u].expired = TRUE]
      /\ inflight' = inflight /\ req' = req /\ origin' = origin /\ acked' = acked
  BY DEF IInv, Types, Expire, Live
<1>2. cache.entry[u] \in Bodies
  BY <1>1 DEF Sound, Shaped
<1>3. e \in Bodies /\ e.ver = cache.entry[u].ver /\ e.met = cache.entry[u].met
  BY <1>2 DEF Bodies
<1>4. DOMAIN cache' = Fields /\ cache'.entry = [cache.entry EXCEPT ![u] = e] /\ cache'.index = cache.index
  <2>1. cache' = [cache EXCEPT !.entry = [cache.entry EXCEPT ![u] = e]]
    BY <1>1
  <2> HIDE DEF e
  <2>. QED  BY <1>1, <2>1 DEF Sound, Shaped, Fields
<1> HIDE DEF e
<1>5. Shaped(cache')
  <2>1. cache.entry \in [Urls -> Bodies \cup {NoEntry}]
    BY <1>1 DEF Sound, Shaped
  <2>2. cache'.entry \in [Urls -> Bodies \cup {NoEntry}]
    BY <1>3, <1>4, <2>1
  <2>. QED  BY <1>1, <1>4, <2>2 DEF Sound, Shaped
<1>6. Shrinks
  BY <1>1, <1>3, <1>4 DEF Shrinks, Cached, Sound, Shaped
<1>7. Sound(cache')
  BY <1>1, <1>4, <1>5, <1>6 DEF Sound, Shrinks
<1>8. Fresh'
  <2>1. \A q \in Reqs : Quiet(q)
    BY <1>1 DEF Quiet
  <2>. QED  BY <1>1, <1>6, <2>1, QuietStep
<1>9. Types' /\ Owners'
  BY <1>1, <1>7 DEF IInv, Types, Owners, WaitersHaveOwner, At, Sound, Shaped, Cached, Fields
<1>. QED  BY <1>8, <1>9 DEF IInv

\* Every step of the handlers and of time keeps the invariant.
LEMMA IInvNext == IInv /\ [Next]_vars => IInv'
<1> SUFFICES ASSUME IInv, [Next]_vars  PROVE IInv'
  OBVIOUS
<1>1. ASSUME NEW r \in Reqs, Handler(r)  PROVE IInv'
  BY <1>1, GetStep, JoinStep, EndStep, ServedStep, KeepStep, FinishPutStep, PutStep DEF Handler
<1>2. ASSUME NEW u \in Urls, Expire(u)  PROVE IInv'
  BY <1>2, ExpireStep
<1>3. CASE UNCHANGED vars
  BY <1>3 DEF vars, IInv, Types, Owners, WaitersHaveOwner, At, Sound, Shaped, Cached, Fields,
       Fresh, Overlap, Busy, HostOfReq, StaleOnlyFromOverlap
<1>. QED  BY <1>1, <1>2, <1>3 DEF Next

-----------------------------------------------------------------------------
(* The books of the table: its order, its byte count, its index.            *)

\* A strict total order of W.
Orders(R, W) ==
    /\ R \subseteq W \X W
    /\ \A u \in W : <<u, u>> \notin R
    /\ \A u, v, w \in W : <<u, v>> \in R /\ <<v, w>> \in R => <<u, w>> \in R
    /\ \A u, v \in W : u # v => <<u, v>> \in R \/ <<v, u>> \in R

\* A table of bodies that may be kept.
Sized(c) ==
    /\ Shaped(c)
    /\ \A u \in Cached(c) : c.entry[u].size <= MaxBytes \div 2

\* The order and the byte count are those of the pages in it ...
Filed(c) ==
    /\ Sized(c)
    /\ Orders(c.before, Cached(c))
    /\ c.bytes = Bytes(c, Cached(c))
\* ... and so is the index.
Listed(c) == \A h \in Hosts : c.index[h] = {u \in Cached(c) : HostOf[u] = h}
Within(c) == Cardinality(Cached(c)) <= MaxEntries /\ c.bytes <= MaxBytes
Books(c) == Filed(c) /\ Listed(c) /\ Within(c)

LEMMA LeastNat ==
  ASSUME NEW T \in SUBSET Nat, T # {}
  PROVE  \E m \in T : \A n \in T : m <= n
<1>1. PICK m \in T : \A n \in T : <<n, m>> \notin OpToRel(<, Nat)
  BY NatLessThanWellFounded, WFMin, Zenon
<1>2. \A n \in T : ~(n < m)
  BY <1>1 DEF OpToRel
<1>. QED  BY <1>2

\* Of finitely many in a strict order, some have none before them: those with
\* the fewest.
LEMMA HasFirst ==
  ASSUME NEW W, IsFiniteSet(W), W # {}, NEW R,
         \A u \in W : <<u, u>> \notin R,
         \A u, v, w \in W : <<u, v>> \in R /\ <<v, w>> \in R => <<u, w>> \in R
  PROVE  \E v \in W : \A u \in W : <<u, v>> \notin R
<1> DEFINE Below(k) == {j \in W : <<j, k>> \in R}
           T == {Cardinality(Below(k)) : k \in W}
<1>1. \A k \in W : IsFiniteSet(Below(k)) /\ Cardinality(Below(k)) \in Nat
  BY FS_Subset, FS_CardinalityType
<1>2. ASSUME NEW j \in W, NEW k \in W, <<j, k>> \in R
      PROVE  Cardinality(Below(j)) < Cardinality(Below(k))
  <2>1. Below(j) \subseteq Below(k) /\ j \in Below(k) /\ j \notin Below(j)
    BY <1>2
  <2>2. Cardinality(Below(j)) <= Cardinality(Below(k))
        /\ Cardinality(Below(j)) # Cardinality(Below(k))
    BY <1>1, <2>1, FS_Subset
  <2> HIDE DEF Below
  <2> QED BY <1>1, <2>2
<1> HIDE DEF Below
<1>3. T \in SUBSET Nat /\ T # {}
  BY <1>1
<1>4. PICK m \in T : \A n \in T : m <= n
  BY <1>3, LeastNat
<1>5. PICK k \in W : m = Cardinality(Below(k))
  BY <1>4
<1>6. \A j \in W : Cardinality(Below(k)) <= Cardinality(Below(j))
  BY <1>4, <1>5
<1>. QED  BY <1>1, <1>2, <1>6

Octets(c, U) == UNION {{u} \X (1 .. c.entry[u].size) : u \in U}

LEMMA OctetsFinite ==
  ASSUME NEW c, Sized(c), NEW U \in SUBSET Urls
  PROVE  IsFiniteSet(Octets(c, U)) /\ Bytes(c, U) = Cardinality(Octets(c, U)) /\ Bytes(c, U) \in Nat
<1>1. MaxBytes \in Nat /\ IsFiniteSet(Urls)
  BY HttpCacheAssumption DEF HttpCacheAssumption
<1>2. \A u \in Urls : c.entry[u].size \in Nat /\ c.entry[u].size <= MaxBytes
  <2> SUFFICES ASSUME NEW u \in Urls
               PROVE  c.entry[u].size \in Nat /\ c.entry[u].size <= MaxBytes
    OBVIOUS
  <2>1. CASE c.entry[u] = NoEntry
    BY <1>1, <2>1 DEF NoEntry
  <2>2. CASE c.entry[u] # NoEntry
    <3>1. c.entry[u].size \in Nat /\ c.entry[u].size <= MaxBytes \div 2
      BY <2>2 DEF Sized, Shaped, Cached, Bodies
    <3>. QED  BY <1>1, <3>1
  <2>. QED  BY <2>1, <2>2
<1>3. Octets(c, U) \subseteq Urls \X (1 .. MaxBytes)
  <2> SUFFICES ASSUME NEW u \in U, NEW i \in 1 .. c.entry[u].size
               PROVE  <<u, i>> \in Urls \X (1 .. MaxBytes)
    BY DEF Octets
  <2>. QED  BY <1>1, <1>2
<1>4. IsFiniteSet(1 .. MaxBytes)
  BY <1>1, FS_Interval
<1>5. IsFiniteSet(Urls \X (1 .. MaxBytes))
  BY <1>1, <1>4, FS_Product
<1>6. IsFiniteSet(Octets(c, U))
  BY <1>3, <1>5, FS_Subset
<1>. QED  BY <1>6, FS_CardinalityType DEF Bytes, Octets

LEMMA BytesMore ==
  ASSUME NEW c, Sized(c), NEW V \in SUBSET Urls, NEW U \in SUBSET V
  PROVE  Bytes(c, U) <= Bytes(c, V)
<1>1. Octets(c, U) \subseteq Octets(c, V)
  BY DEF Octets
<1>. QED  BY <1>1, OctetsFinite, FS_Subset

LEMMA BytesApart ==
  ASSUME NEW c, Sized(c), NEW U \in SUBSET Urls, NEW V \in SUBSET Urls, U \cap V = {}
  PROVE  Bytes(c, U \cup V) = Bytes(c, U) + Bytes(c, V)
<1>1. Octets(c, U \cup V) = Octets(c, U) \cup Octets(c, V)
  BY DEF Octets
<1>2. Octets(c, U) \cap Octets(c, V) = {}
  BY DEF Octets
<1>3. IsFiniteSet(Octets(c, U)) /\ IsFiniteSet(Octets(c, V))
  BY OctetsFinite
<1>4. /\ Cardinality(Octets(c, U) \cup Octets(c, V)) = Bytes(c, U) + Bytes(c, V) - Cardinality({})
      /\ Cardinality({}) = 0
  BY <1>2, <1>3, OctetsFinite, FS_Union, FS_EmptySet
<1>5. U \cup V \in SUBSET Urls
  OBVIOUS
<1>6. Bytes(c, U \cup V) = Cardinality(Octets(c, U \cup V))
  BY <1>5, OctetsFinite
<1>7. Bytes(c, U) \in Nat /\ Bytes(c, V) \in Nat
  BY OctetsFinite
<1>8. Bytes(c, U) + Bytes(c, V) - 0 = Bytes(c, U) + Bytes(c, V)
  BY <1>7
<1>9. Cardinality(Octets(c, U \cup V)) = Bytes(c, U) + Bytes(c, V) - 0
  BY <1>1, <1>4, Zenon
<1>. QED  BY <1>6, <1>8, <1>9, Zenon

LEMMA BytesOfOne ==
  ASSUME NEW c, Sized(c), NEW u \in Urls
  PROVE  Bytes(c, {u}) = c.entry[u].size
<1>1. c.entry[u].size \in Nat
  BY DEF Sized, Shaped, Bodies, NoEntry
<1>2. Octets(c, {u}) = {u} \X (1 .. c.entry[u].size)
  BY DEF Octets
<1> DEFINE n == c.entry[u].size
<1> HIDE DEF n
<1>3. IsFiniteSet(1 .. n) /\ Cardinality(1 .. n) = n
  <2>1. n \in Nat
    BY <1>1 DEF n
  <2>2. IsFiniteSet(1 .. n) /\ Cardinality(1 .. n) = IF 1 > n THEN 0 ELSE n - 1 + 1
    BY <2>1, FS_Interval
  <2>. QED  BY <2>1, <2>2
<1>4. IsFiniteSet({u}) /\ Cardinality({u}) = 1
  BY FS_Singleton
<1>5. Cardinality({u} \X (1 .. n)) = 1 * n
  BY <1>3, <1>4, FS_Product
<1>6. {u} \in SUBSET Urls
  OBVIOUS
<1>7. Bytes(c, {u}) = Cardinality(Octets(c, {u}))
  BY <1>6, OctetsFinite
<1>8. n \in Nat /\ Octets(c, {u}) = {u} \X (1 .. n)
  BY <1>1, <1>2 DEF n
<1>9. 1 * n = n
  BY <1>8
<1>10. Bytes(c, {u}) = n
  BY <1>5, <1>7, <1>8, <1>9, Zenon
<1>. QED  BY <1>10 DEF n

LEMMA BytesSame ==
  ASSUME NEW c, NEW d, NEW U, \A u \in U : c.entry[u] = d.entry[u]
  PROVE  Bytes(c, U) = Bytes(d, U)
<1>1. {{u} \X (1 .. c.entry[u].size) : u \in U} = {{u} \X (1 .. d.entry[u].size) : u \in U}
  OBVIOUS
<1>. QED  BY <1>1 DEF Bytes

LEMMA FewerOrders ==
  ASSUME NEW R, NEW W, Orders(R, W), NEW V \in SUBSET W
  PROVE  Orders(R \cap (V \X V), V)
BY DEF Orders

LEMMA MovedOrders ==
  ASSUME NEW R, NEW W, Orders(R, W), NEW u, NEW rest, rest = W \ {u}
  PROVE  Orders((R \cap (rest \X rest)) \cup (rest \X {u}), rest \cup {u})
<1> DEFINE Q == (R \cap (rest \X rest)) \cup (rest \X {u})
           V == rest \cup {u}
<1>1. u \notin rest /\ rest \subseteq W
  OBVIOUS
<1>2. ASSUME NEW v, NEW w
      PROVE  <<v, w>> \in Q <=> v \in rest /\ (w = u \/ (w \in rest /\ <<v, w>> \in R))
  <2>1. <<v, w>> \in rest \X rest <=> v \in rest /\ w \in rest
    OBVIOUS
  <2>2. <<v, w>> \in rest \X {u} <=> v \in rest /\ w = u
    OBVIOUS
  <2>. QED  BY <2>1, <2>2
<1>3. Q \subseteq V \X V
  OBVIOUS
<1> HIDE DEF Q
<1>4. \A v \in V : <<v, v>> \notin Q
  BY <1>1, <1>2 DEF Orders
<1>5. ASSUME NEW v \in V, NEW w \in V, NEW x \in V, <<v, w>> \in Q, <<w, x>> \in Q
      PROVE  <<v, x>> \in Q
  <2>1. v \in rest /\ w \in rest /\ <<v, w>> \in R
    BY <1>1, <1>2, <1>5
  <2>2. CASE x = u
    BY <1>2, <2>1, <2>2
  <2>3. CASE x \in rest /\ <<w, x>> \in R
    BY <1>1, <1>2, <2>1, <2>3 DEF Orders
  <2>. QED  BY <1>2, <1>5, <2>2, <2>3
<1>6. ASSUME NEW v \in V, NEW w \in V, v # w
      PROVE  <<v, w>> \in Q \/ <<w, v>> \in Q
  BY <1>1, <1>2, <1>6 DEF Orders
<1> HIDE DEF V
<1>7. Orders(Q, V)
  BY <1>3, <1>4, <1>5, <1>6 DEF Orders
<1>. QED  BY <1>7 DEF Q, V

LEMMA RemovedFiled ==
  ASSUME NEW c, NEW U, Filed(c)
  PROVE  /\ Filed(Removed(c, U))
         /\ Cached(Removed(c, U)) = Cached(c) \ U
         /\ Removed(c, U).bytes = c.bytes - Bytes(c, U \cap Cached(c))
         /\ \A h \in Hosts : Removed(c, U).index[h] = c.index[h] \ (U \cap Cached(c))
<1> DEFINE d == Removed(c, U)
           left == Cached(c) \ U
           gone == U \cap Cached(c)
<1>1. /\ DOMAIN d = Fields
      /\ d.entry = [u \in Urls |-> IF u \in U THEN NoEntry ELSE c.entry[u]]
      /\ d.index = [h \in Hosts |-> c.index[h] \ gone]
      /\ d.before = c.before \cap (left \X left)
      /\ d.bytes = c.bytes - Bytes(c, gone)
  BY RemovedOK DEF Removed
<1> HIDE DEF d
<1>2. Cached(d) = left
  BY <1>1 DEF Cached
<1>3. Sized(d)
  BY <1>1, <1>2 DEF Filed, Sized, Shaped, Cached
<1>4. Orders(d.before, left)
  <2>1. left \in SUBSET Cached(c)
    OBVIOUS
  <2> HIDE DEF left
  <2>. QED  BY <1>1, <2>1, FewerOrders DEF Filed
<1>5. d.bytes = Bytes(d, left)
  <2>1. left \in SUBSET Urls /\ gone \in SUBSET Urls /\ left \cap gone = {} /\ left \cup gone = Cached(c)
    BY DEF Cached
  <2>2. \A u \in left : d.entry[u] = c.entry[u]
    BY <1>1, <2>1
  <2> HIDE DEF left, gone
  <2>3. Bytes(c, Cached(c)) = Bytes(c, left) + Bytes(c, gone)
    BY <2>1, BytesApart DEF Filed
  <2>4. Bytes(c, left) \in Nat /\ Bytes(c, gone) \in Nat
    BY <2>1, OctetsFinite DEF Filed
  <2>5. Bytes(d, left) = Bytes(c, left)
    BY <2>2, BytesSame
  <2>6. c.bytes = Bytes(c, left) + Bytes(c, gone)
    BY <2>3 DEF Filed
  <2>7. d.bytes = Bytes(c, left)
    BY <1>1, <2>4, <2>6
  <2>. QED  BY <2>5, <2>7
<1>. QED  BY <1>1, <1>2, <1>3, <1>4, <1>5 DEF Filed, d

LEMMA TouchedFiled ==
  ASSUME NEW c, NEW u \in Cached(c), Filed(c)
  PROVE  /\ Filed(Touched(c, u)) /\ Cached(Touched(c, u)) = Cached(c)
         /\ Touched(c, u).bytes = c.bytes /\ Touched(c, u).index = c.index
<1> DEFINE d == Touched(c, u)
           rest == Cached(c) \ {u}
<1>1. /\ DOMAIN d = Fields /\ d.entry = c.entry /\ d.index = c.index
      /\ d.bytes = c.bytes
      /\ d.before = (c.before \cap (rest \X rest)) \cup (rest \X {u})
  BY TouchedOK DEF Touched, Filed, Sized, Shaped, Fields
<1>2. rest = Cached(c) \ {u} /\ rest \cup {u} = Cached(c)
  OBVIOUS
<1> HIDE DEF d, rest
<1>3. Cached(d) = Cached(c)
  BY <1>1 DEF Cached
<1>4. Sized(d)
  BY <1>1, <1>3 DEF Filed, Sized, Shaped
<1>5. Orders(d.before, Cached(d))
  <2>1. Orders(c.before, Cached(c))
    BY DEF Filed
  <2>2. Orders((c.before \cap (rest \X rest)) \cup (rest \X {u}), rest \cup {u})
    BY <1>2, <2>1, MovedOrders
  <2>. QED  BY <1>1, <1>2, <1>3, <2>2, Zenon
<1>6. Bytes(d, Cached(d)) = Bytes(c, Cached(c))
  BY <1>1, <1>3, BytesSame
<1>. QED  BY <1>1, <1>3, <1>4, <1>5, <1>6 DEF Filed, d

Small(e) == e \in Bodies /\ e.size <= MaxBytes \div 2

LEMMA OverwrittenFiled ==
  ASSUME NEW c, NEW u \in Urls, NEW e, Small(e), Filed(c)
  PROVE  LET full == Overwritten(c, u, e)
         IN  /\ Filed(full) /\ Cached(full) = Cached(c) \cup {u}
             /\ full.index = c.index /\ full.entry[u] = e
             /\ \A v \in Cached(c) \ {u} : <<v, u>> \in full.before
<1> DEFINE full == Overwritten(c, u, e)
           b == [c EXCEPT !.entry[u] = e, !.bytes = @ - c.entry[u].size + e.size]
           rest == Cached(c) \ {u}
<1>1. /\ DOMAIN b = Fields /\ b.entry = [c.entry EXCEPT ![u] = e] /\ b.index = c.index
      /\ b.before = c.before /\ b.bytes = c.bytes - c.entry[u].size + e.size
  BY DEF Filed, Sized, Shaped, Fields
<1>2. full = Touched(b, u)
  BY DEF Overwritten
<1>3. e # NoEntry
  BY DEF Small, Bodies, NoEntry
<1> HIDE DEF b, full
<1>4. Cached(b) = Cached(c) \cup {u} /\ Cached(b) \ {u} = rest /\ rest \cup {u} = Cached(b)
  BY <1>1, <1>3 DEF Cached, Filed, Sized, Shaped
<1>5. /\ DOMAIN full = Fields /\ full.entry = b.entry /\ full.index = c.index
      /\ full.bytes = b.bytes
      /\ full.before = (c.before \cap (rest \X rest)) \cup (rest \X {u})
  BY <1>1, <1>2, <1>4, TouchedOK DEF Touched, Fields
<1>6. Cached(full) = Cached(b)
  BY <1>5 DEF Cached
<1>7. Sized(full)
  BY <1>1, <1>3, <1>4, <1>5, <1>6 DEF Filed, Sized, Shaped, Small, Cached
<1>8. Orders(full.before, Cached(full))
  <2> HIDE DEF rest
  <2>1. rest = Cached(c) \ {u}
    BY DEF rest
  <2>2. Orders(c.before, Cached(c))
    BY DEF Filed
  <2>3. Orders((c.before \cap (rest \X rest)) \cup (rest \X {u}), rest \cup {u})
    BY <2>1, <2>2, MovedOrders
  <2>. QED  BY <1>4, <1>5, <1>6, <2>3, Zenon
<1>9. Bytes(full, Cached(full)) = Bytes(c, rest) + e.size
  <2>1. rest \in SUBSET Urls /\ rest \cap {u} = {} /\ {u} \in SUBSET Urls
    BY DEF Cached
  <2>2. \A v \in rest : full.entry[v] = c.entry[v]
    BY <1>1, <1>5, <2>1 DEF Filed, Sized, Shaped
  <2> HIDE DEF rest
  <2>3. Bytes(full, rest \cup {u}) = Bytes(full, rest) + Bytes(full, {u})
    BY <1>7, <2>1, BytesApart
  <2>4. Bytes(full, {u}) = full.entry[u].size /\ full.entry[u] = e
    <3>1. Bytes(full, {u}) = full.entry[u].size
      BY <1>7, BytesOfOne
    <3>2. full.entry[u] = e
      BY <1>1, <1>5 DEF Filed, Sized, Shaped
    <3>. QED  BY <3>1, <3>2
  <2>5. Bytes(full, rest) = Bytes(c, rest)
    BY <2>2, BytesSame
  <2>. QED  BY <1>4, <1>6, <2>3, <2>4, <2>5
<1>10. c.bytes = Bytes(c, rest) + c.entry[u].size
  <2>1. rest \in SUBSET Urls /\ rest \cap {u} = {} /\ {u} \in SUBSET Urls
    BY DEF Cached
  <2>2. CASE u \in Cached(c)
    <3>1. rest \cup {u} = Cached(c)
      BY <2>2
    <3> HIDE DEF rest
    <3>2. Bytes(c, rest \cup {u}) = Bytes(c, rest) + Bytes(c, {u})
      BY <2>1, BytesApart DEF Filed
    <3>3. Bytes(c, {u}) = c.entry[u].size
      BY BytesOfOne DEF Filed
    <3>. QED  BY <3>1, <3>2, <3>3 DEF Filed
  <2>3. CASE u \notin Cached(c)
    <3>1. rest = Cached(c) /\ c.entry[u].size = 0
      BY <2>3 DEF Cached, NoEntry
    <3> HIDE DEF rest
    <3>2. Bytes(c, rest) \in Nat
      BY <2>1, OctetsFinite DEF Filed
    <3>. QED  BY <3>1, <3>2 DEF Filed
  <2>. QED  BY <2>2, <2>3
<1>11. full.bytes = Bytes(full, Cached(full))
  <2>1. Bytes(c, rest) \in Nat
    BY OctetsFinite DEF Filed, Cached
  <2>2. c.entry[u].size \in Nat /\ e.size \in Nat
    BY DEF Small, Filed, Sized, Shaped, Bodies, NoEntry
  <2> HIDE DEF rest
  <2>3. full.bytes = c.bytes - c.entry[u].size + e.size
    BY <1>1, <1>5
  <2>. QED  BY <1>9, <1>10, <2>1, <2>2, <2>3
<1>12. \A v \in rest : <<v, u>> \in full.before
  BY <1>5
<1>13. full.entry[u] = e
  BY <1>1, <1>5 DEF Filed, Sized, Shaped
<1>. QED  BY <1>4, <1>5, <1>6, <1>7, <1>8, <1>11, <1>12, <1>13 DEF Filed, full

\* The page just written stays: alone it is within both limits.
LEMMA NewestStays ==
  ASSUME NEW c, Filed(c), NEW u \in Cached(c),
         \A v \in Cached(c) \ {u} : <<v, u>> \in c.before
  PROVE  u \notin Evicted(c)
<1> DEFINE rest == Cached(c) \ {u}
<1>1. MaxEntries \in Nat \ {0} /\ MaxBytes \in Nat
  BY HttpCacheAssumption DEF HttpCacheAssumption
<1>2. Older(c, u) = rest
  BY DEF Older, Filed, Orders
<1>3. Cardinality(Cached(c) \ rest) <= MaxEntries
  <2>1. Cached(c) \ rest = {u}
    OBVIOUS
  <2>. QED  BY <1>1, <2>1, FS_Singleton
<1>4. c.bytes - Bytes(c, rest) <= MaxBytes
  <2>1. rest \in SUBSET Urls /\ {u} \in SUBSET Urls /\ u \in Urls /\ rest \cap {u} = {}
        /\ rest \cup {u} = Cached(c)
    BY DEF Cached
  <2>2. Sized(c) /\ c.bytes = Bytes(c, Cached(c))
    BY DEF Filed
  <2> HIDE DEF rest
  <2>3. Bytes(c, Cached(c)) = Bytes(c, rest) + Bytes(c, {u})
    BY <2>1, <2>2, BytesApart
  <2>4. Bytes(c, {u}) = c.entry[u].size
    BY <2>1, <2>2, BytesOfOne
  <2>5. c.entry[u].size \in Nat /\ c.entry[u].size <= MaxBytes \div 2
    BY <2>1, <2>2 DEF Sized, Shaped, Bodies, NoEntry
  <2>6. Bytes(c, rest) \in Nat
    BY <2>1, <2>2, OctetsFinite
  <2>7. c.entry[u].size <= MaxBytes
    BY <1>1, <2>5
  <2>. QED  BY <1>1, <2>2, <2>3, <2>4, <2>5, <2>6, <2>7
<1> HIDE DEF rest
<1>5. Fits(c, Older(c, u))
  BY <1>2, <1>3, <1>4 DEF Fits
<1>. QED  BY <1>5 DEF Evicted

\* If any page stays then those that stay are within both limits: the first of
\* them in the order stays because it and those behind it are.
LEMMA EvictedFits ==
  ASSUME NEW c, Filed(c), NEW u \in Cached(c) \ Evicted(c)
  PROVE  Fits(c, Evicted(c))
<1> DEFINE W == Cached(c)
           K == W \ Evicted(c)
<1>1. Sized(c) /\ Orders(c.before, W) /\ c.bytes = Bytes(c, W)
  BY DEF Filed
<1>2. W \in SUBSET Urls /\ IsFiniteSet(W) /\ Evicted(c) \in SUBSET W /\ K \in SUBSET W
  BY HttpCacheAssumption, FS_Subset DEF HttpCacheAssumption, Cached, Evicted
<1>3. IsFiniteSet(K) /\ K # {}
  BY <1>2, FS_Subset
<1>4. /\ \A v \in K : <<v, v>> \notin c.before
      /\ \A v, w, x \in K : <<v, w>> \in c.before /\ <<w, x>> \in c.before => <<v, x>> \in c.before
  BY <1>1, <1>2 DEF Orders
<1>5. PICK k \in K : \A v \in K : <<v, k>> \notin c.before
  <2> HIDE DEF K
  <2>. QED  BY <1>3, <1>4, HasFirst
<1> DEFINE O == Older(c, k)
<1>6. O \subseteq Evicted(c)
  BY <1>5 DEF Older
<1>7. Cardinality(W \ O) <= MaxEntries /\ c.bytes - Bytes(c, O) <= MaxBytes
  BY <1>5 DEF Evicted, Fits
<1>8. W \ Evicted(c) \subseteq W \ O /\ IsFiniteSet(W \ O) /\ O \in SUBSET Urls
  BY <1>2, <1>6, FS_Subset
<1> HIDE DEF W, K, O
<1>9. /\ Cardinality(W \ Evicted(c)) <= Cardinality(W \ O)
      /\ Cardinality(W \ Evicted(c)) \in Nat /\ Cardinality(W \ O) \in Nat
  BY <1>8, FS_Subset, FS_CardinalityType
<1>10. Bytes(c, O) <= Bytes(c, Evicted(c))
  BY <1>1, <1>2, <1>6, BytesMore
<1>11. Bytes(c, O) \in Nat /\ Bytes(c, Evicted(c)) \in Nat /\ Bytes(c, W) \in Nat
  BY <1>1, <1>2, <1>8, OctetsFinite
<1>12. MaxEntries \in Nat /\ MaxBytes \in Nat
  BY HttpCacheAssumption DEF HttpCacheAssumption
<1>13. Cardinality(W \ Evicted(c)) <= MaxEntries
  BY <1>7, <1>9, <1>12
<1>14. c.bytes - Bytes(c, Evicted(c)) <= MaxBytes
  BY <1>1, <1>7, <1>10, <1>11, <1>12
<1>. QED  BY <1>13, <1>14 DEF Fits, W

LEMMA StoredBooks ==
  ASSUME NEW c, NEW u \in Urls, NEW e, Small(e), Books(c)
  PROVE  Books(Stored(c, u, e))
<1> DEFINE full == Overwritten(c, u, e)
           gone == Evicted(full)
           rest == Removed(full, gone)
           d == Stored(c, u, e)
<1>1. /\ Filed(full) /\ Cached(full) = Cached(c) \cup {u}
      /\ full.index = c.index
      /\ \A v \in Cached(c) \ {u} : <<v, u>> \in full.before
  BY OverwrittenFiled DEF Books
<1>2. /\ d = Indexed(rest, u)
      /\ DOMAIN rest = Fields
  BY RemovedOK DEF Stored
<1> HIDE DEF full
<1>3. u \in Cached(full) \ gone
  <2>1. u \in Cached(full) /\ \A v \in Cached(full) \ {u} : <<v, u>> \in full.before
    BY <1>1
  <2>. QED  BY <1>1, <2>1, NewestStays
<1>4. Fits(full, gone) /\ gone \in SUBSET Cached(full)
  <2>1. gone \in SUBSET Cached(full)
    BY DEF Evicted
  <2>. QED  BY <1>1, <1>3, <2>1, EvictedFits
<1> HIDE DEF gone
<1>5. /\ Filed(rest) /\ Cached(rest) = Cached(full) \ gone
      /\ rest.bytes = full.bytes - Bytes(full, gone \cap Cached(full))
      /\ \A h \in Hosts : rest.index[h] = full.index[h] \ (gone \cap Cached(full))
  BY <1>1, RemovedFiled
<1>6. gone \cap Cached(full) = gone
  BY <1>4
<1> HIDE DEF rest, d
<1>7. /\ DOMAIN d = Fields /\ d.entry = rest.entry /\ d.before = rest.before /\ d.bytes = rest.bytes
      /\ d.index = [rest.index EXCEPT ![HostOf[u]] = @ \cup {u}]
  BY <1>2 DEF Indexed, Fields
<1>8. Cached(d) = Cached(rest) /\ Bytes(d, Cached(d)) = Bytes(rest, Cached(rest))
  <2>1. Cached(d) = Cached(rest)
    BY <1>7 DEF Cached
  <2>. QED  BY <1>7, <2>1, BytesSame
<1>9. Within(d)
  BY <1>4, <1>5, <1>6, <1>7, <1>8 DEF Within, Fits
<1>10. HostOf \in [Urls -> Hosts] /\ Shaped(rest)
  BY <1>5, HttpCacheAssumption DEF HttpCacheAssumption, Filed, Sized
<1>11. Listed(d)
  <2> SUFFICES ASSUME NEW h \in Hosts  PROVE d.index[h] = {v \in Cached(d) : HostOf[v] = h}
    BY DEF Listed
  <2>1. c.index[h] = {v \in Cached(c) : HostOf[v] = h}
    BY DEF Books, Listed
  <2>2. rest.index[h] = c.index[h] \ gone
    BY <1>1, <1>5, <1>6
  <2>3. d.index[h] = IF h = HostOf[u] THEN rest.index[h] \cup {u} ELSE rest.index[h]
    BY <1>7, <1>10 DEF Shaped
  <2>4. Cached(d) = (Cached(c) \cup {u}) \ gone /\ u \notin gone
    BY <1>1, <1>3, <1>5, <1>8
  <2>. QED  BY <2>1, <2>2, <2>3, <2>4
<1>12. Shaped(d)
  BY <1>7, <1>10 DEF Shaped
<1>13. Filed(d)
  BY <1>5, <1>7, <1>8, <1>12 DEF Filed, Sized
<1>. QED  BY <1>9, <1>11, <1>13 DEF Books, d

LEMMA RemovedBooks ==
  ASSUME NEW c, NEW U, Books(c)
  PROVE  Books(Removed(c, U))
<1> DEFINE d == Removed(c, U)
           gone == U \cap Cached(c)
<1>1. /\ Filed(d) /\ Cached(d) = Cached(c) \ U
      /\ d.bytes = c.bytes - Bytes(c, gone)
      /\ \A h \in Hosts : d.index[h] = c.index[h] \ gone
  BY RemovedFiled DEF Books
<1> HIDE DEF d
<1>2. Cached(c) \in SUBSET Urls /\ gone \in SUBSET Urls /\ Sized(c) /\ Filed(c) /\ Within(c)
  BY DEF Books, Filed, Cached
<1>3. Cardinality(Cached(d)) <= MaxEntries
  <2>1. IsFiniteSet(Cached(c))
    BY <1>2, HttpCacheAssumption, FS_Subset DEF HttpCacheAssumption
  <2>2. /\ Cardinality(Cached(d)) <= Cardinality(Cached(c))
        /\ Cardinality(Cached(d)) \in Nat /\ Cardinality(Cached(c)) \in Nat
    BY <1>1, <2>1, FS_Subset, FS_CardinalityType
  <2>. QED  BY <1>2, <2>2, HttpCacheAssumption DEF HttpCacheAssumption, Within
<1>4. d.bytes <= MaxBytes
  <2>1. Bytes(c, gone) \in Nat /\ Bytes(c, Cached(c)) \in Nat /\ c.bytes = Bytes(c, Cached(c))
    BY <1>2, OctetsFinite DEF Filed
  <2>2. c.bytes <= MaxBytes /\ MaxBytes \in Nat
    BY <1>2, HttpCacheAssumption DEF HttpCacheAssumption, Within
  <2> HIDE DEF gone
  <2>. QED  BY <1>1, <2>1, <2>2
<1>5. Listed(d)
  BY <1>1 DEF Books, Listed
<1>. QED  BY <1>1, <1>3, <1>4, <1>5 DEF Books, Within, d

LEMMA ReadBooks ==
  ASSUME NEW c, NEW u \in Urls, Books(c)
  PROVE  Books(Read(c, u))
<1>1. CASE Read(c, u) = c
  BY <1>1
<1>2. CASE Read(c, u) = Removed(c, {u})
  BY <1>2, RemovedBooks
<1>3. CASE c.entry[u] # NoEntry /\ Read(c, u) = Touched(c, u)
  <2> DEFINE d == Touched(c, u)
  <2>1. u \in Cached(c)
    BY <1>3 DEF Cached
  <2>2. Filed(d) /\ Cached(d) = Cached(c) /\ d.bytes = c.bytes /\ d.index = c.index
    BY <2>1, TouchedFiled DEF Books
  <2> HIDE DEF d
  <2>3. Books(d)
    BY <2>2 DEF Books, Listed, Within
  <2>. QED  BY <1>3, <2>3 DEF d
<1>. QED  BY <1>1, <1>2, <1>3 DEF Read

LEMMA InvalidatedBooks ==
  ASSUME NEW c, NEW u \in Urls, Books(c)
  PROVE  Books(Invalidated(c, u))
<1> DEFINE U == c.index[HostOf[u]]
           rest == Removed(c, U)
           d == [rest EXCEPT !.index[HostOf[u]] = {}]
<1>1. HostOf[u] \in Hosts
  BY HttpCacheAssumption DEF HttpCacheAssumption
<1>2. Books(rest) /\ rest.index[HostOf[u]] = U \ (U \cap Cached(c)) /\ DOMAIN rest = Fields
  BY <1>1, RemovedBooks, RemovedFiled, RemovedOK DEF Books
<1>3. U \subseteq Cached(c)
  BY <1>1 DEF Books, Listed
<1>4. rest.index[HostOf[u]] = {}
  BY <1>2, <1>3
<1>5. Invalidated(c, u) = d
  BY DEF Invalidated
<1> HIDE DEF rest, U
<1>6. d.index = rest.index /\ d.entry = rest.entry /\ d.bytes = rest.bytes /\ d.before = rest.before
      /\ DOMAIN d = Fields
  BY <1>1, <1>2, <1>4 DEF Fields, Books, Filed, Sized, Shaped
<1> HIDE DEF d
<1>7. Cached(d) = Cached(rest) /\ Bytes(d, Cached(d)) = Bytes(rest, Cached(rest))
  <2>1. Cached(d) = Cached(rest)
    BY <1>6 DEF Cached
  <2>. QED  BY <1>6, <2>1, BytesSame
<1>8. Books(d)
  BY <1>2, <1>6, <1>7 DEF Books, Filed, Sized, Shaped, Listed, Within
<1>. QED  BY <1>5, <1>8

LEMMA ExpireBooks ==
  ASSUME NEW u \in Urls, Expire(u), Books(cache)
  PROVE  Books(cache')
<1> DEFINE e == [cache.entry[u] EXCEPT !.expired = TRUE]
           d == cache'
<1>1. /\ Shaped(cache) /\ cache.entry[u] # NoEntry
      /\ cache' = [cache EXCEPT !.entry[u].expired = TRUE]
  BY DEF Books, Filed, Sized, Expire, Live
<1>2. cache.entry[u] \in Bodies
  BY <1>1 DEF Shaped
<1>3. e \in Bodies /\ e.size = cache.entry[u].size /\ e # NoEntry
  BY <1>2 DEF Bodies, NoEntry
<1>4. /\ DOMAIN d = Fields /\ d.entry = [cache.entry EXCEPT ![u] = e] /\ d.index = cache.index
      /\ d.before = cache.before /\ d.bytes = cache.bytes
  <2>1. cache' = [cache EXCEPT !.entry = [cache.entry EXCEPT ![u] = e]]
    BY <1>1
  <2> HIDE DEF e
  <2>. QED  BY <1>1, <2>1 DEF Shaped, Fields
<1> HIDE DEF e, d
<1>5. d.entry \in [Urls -> Bodies \cup {NoEntry}] /\ (\A v \in Urls : d.entry[v].size = cache.entry[v].size)
  <2>1. cache.entry \in [Urls -> Bodies \cup {NoEntry}]
    BY <1>1 DEF Shaped
  <2>. QED  BY <1>3, <1>4, <2>1
<1>6. Cached(d) = Cached(cache)
  BY <1>1, <1>3, <1>4 DEF Cached, Shaped
<1>7. Bytes(d, Cached(d)) = Bytes(cache, Cached(cache))
  <2>1. \A v \in Cached(cache) : d.entry[v].size = cache.entry[v].size
    BY <1>5 DEF Cached
  <2>2. {{v} \X (1 .. d.entry[v].size) : v \in Cached(cache)}
        = {{v} \X (1 .. cache.entry[v].size) : v \in Cached(cache)}
    BY <2>1
  <2>. QED  BY <1>6, <2>2 DEF Bytes
<1>8. Sized(d)
  BY <1>1, <1>4, <1>5, <1>6 DEF Books, Filed, Sized, Shaped, Cached
<1>9. Books(d)
  BY <1>4, <1>6, <1>7, <1>8 DEF Books, Filed, Listed, Within
<1>. QED  BY <1>9 DEF d

LEMMA LeaveBooks ==
  ASSUME Types, Books(cache), NEW r \in Reqs, req[r].url \in Urls, Leave(r)
  PROVE  Books(cache')
<1>1. cache' = Read(cache, req[r].url) \/ cache' = cache
  BY DEF Leave
<1>. QED  BY <1>1, ReadBooks

\* What holds of the table between two handlers.
BooksInv == Books(cache)

LEMMA BooksInit == Init => BooksInv
<1> SUFFICES ASSUME Init  PROVE Books(cache)
  BY DEF BooksInv
<1>1. /\ DOMAIN cache = Fields /\ cache.entry = [u \in Urls |-> NoEntry]
      /\ cache.before = {} /\ cache.bytes = 0 /\ cache.index = [h \in Hosts |-> {}]
  BY DEF Init, Fields
<1>2. Cached(cache) = {}
  BY <1>1 DEF Cached
<1>3. Filed(cache)
  <2>1. Sized(cache) /\ Orders(cache.before, {})
    BY <1>1, <1>2 DEF Sized, Shaped, Orders
  <2>2. Octets(cache, {}) = {}
    BY DEF Octets
  <2>3. Bytes(cache, {}) = 0
    BY <2>1, <2>2, OctetsFinite, FS_EmptySet
  <2>. QED  BY <1>1, <1>2, <2>1, <2>3 DEF Filed
<1>4. Listed(cache)
  BY <1>1, <1>2 DEF Listed
<1>5. Within(cache)
  BY <1>1, <1>2, FS_EmptySet, HttpCacheAssumption DEF HttpCacheAssumption, Within
<1>. QED  BY <1>3, <1>4, <1>5 DEF Books

\* One step for each thing a handler does to the table.
LEMMA BooksNext == IInv /\ BooksInv /\ [Next]_vars => BooksInv'
<1> SUFFICES ASSUME IInv, Books(cache), [Next]_vars  PROVE Books(cache')
  BY DEF BooksInv
<1>1. Types /\ req \in [Reqs -> Requests] /\ (\A r \in Reqs : Proper(req[r]))
  BY DEF IInv, Types
<1>2. ASSUME NEW r \in Reqs, NEW u \in Urls, Put(r, u)  PROVE Books(cache')
  BY <1>2, InvalidatedBooks DEF Put
<1>3. ASSUME NEW r \in Reqs, NEW u \in Urls, NEW private \in BOOLEAN, Get(r, u, private)
      PROVE  Books(cache')
  <2>1. cache' = cache \/ cache' = Read(cache, u)
    BY <1>3 DEF Get
  <2>. QED  BY <2>1, ReadBooks
<1>4. ASSUME NEW r \in Reqs, Keep(r)  PROVE Books(cache')
  <2>1. At(r, "answered") /\ req[r].url \in Urls /\ req[r].seen \in Nat /\ req[r].met \in BOOLEAN
    BY <1>1, <1>4 DEF Keep, At, Proper, Requests
  <2>2. CASE cache' = cache
    BY <2>2
  <2>3. ASSUME NEW size \in Sizes, size <= MaxBytes \div 2,
               cache' = Stored(cache, req[r].url, Kept(r, size))
        PROVE  Books(cache')
    <3>1. size \in Nat
      BY HttpCacheAssumption DEF HttpCacheAssumption
    <3>2. Small(Kept(r, size))
      BY <2>1, <2>3, <3>1 DEF Small, Kept, Bodies
    <3>. QED  BY <2>1, <2>3, <3>2, StoredBooks
  <2>. QED  BY <1>4, <2>2, <2>3 DEF Keep
<1>5. ASSUME NEW r \in Reqs, FinishGet(r) \/ FinishPut(r) \/ Fail(r)  PROVE Books(cache')
  <2>1. req[r].url \in Urls /\ Leave(r)
    BY <1>1, <1>5 DEF FinishGet, FinishPut, Fail, At, Proper
  <2>. QED  BY <1>1, <2>1, LeaveBooks
<1>6. ASSUME NEW r \in Reqs, JoinAnswered(r) \/ JoinFailed(r) \/ JoinTimesOut(r) \/ Served(r)
      PROVE  Books(cache')
  BY <1>6 DEF JoinAnswered, JoinFailed, JoinTimesOut, Served
<1>7. CASE UNCHANGED vars
  BY <1>7 DEF vars
<1>. QED  BY <1>2, <1>3, <1>4, <1>5, <1>6, <1>7, ExpireBooks DEF Next, Handler

-----------------------------------------------------------------------------
(* What the shapes of TypeOK need: no answer or page counts more writes     *)
(* than a host takes, and pages are of the sizes that responses have.       *)

Known(c) == \A u \in Cached(c) : c.entry[u].ver <= MaxWrites /\ c.entry[u].size \in Sizes
Bounded ==
    /\ Known(cache)
    /\ \A r \in Reqs : req[r].seen <= MaxWrites
    /\ \A h \in Hosts : origin[h] <= MaxWrites

LEMMA BoundedInit == Init => Bounded
<1> SUFFICES ASSUME Init  PROVE Bounded
  OBVIOUS
<1>1. Cached(cache) = {}
  BY DEF Init, Cached
<1>2. \A r \in Reqs : req[r].seen = -1
  BY DEF Init, Idle
<1>3. MaxWrites \in Nat /\ \A h \in Hosts : origin[h] = 0
  BY HttpCacheAssumption DEF HttpCacheAssumption, Init
<1>4. Known(cache)
  BY <1>1 DEF Known
<1>. QED  BY <1>2, <1>3, <1>4 DEF Bounded

\* A read or an invalidation brings nothing into the table.
LEMMA FewerKnown ==
  ASSUME NEW c, NEW d, Known(c), \A v \in Urls : d.entry[v] \in {NoEntry, c.entry[v]}
  PROVE  Known(d)
  BY DEF Known, Cached

LEMMA LeaveBounded ==
  ASSUME Types, Bounded, NEW r \in Reqs, req[r].url \in Urls, Leave(r)
  PROVE  Known(cache') /\ \A q \in Reqs : req'[q].seen <= MaxWrites
<1>1. /\ Sound(cache) /\ req \in [Reqs -> Requests] /\ Known(cache) /\ MaxWrites \in Nat
      /\ \A q \in Reqs : req[q].seen <= MaxWrites
  BY HttpCacheAssumption DEF Types, Bounded, HttpCacheAssumption
<1>2. Idle.seen = -1
  BY DEF Idle
<1>3. CASE req[r].on = r
  <2> DEFINE u == req[r].url
             result == IF Live(cache, u) THEN cache.entry[u].ver ELSE -1
  <2>1. result <= MaxWrites
    BY <1>1 DEF Live, Known, Cached
  <2>2. cache' = Read(cache, u) /\ req' = Resolved(r)
    BY <1>3 DEF Leave
  <2>3. Known(cache')
    BY <1>1, <2>2, ReadSound, FewerKnown
  <2>4. ASSUME NEW q \in Reqs  PROVE req'[q].seen \in {-1, result, req[q].seen}
    <3>1. req[q] \in Requests
      BY <1>1
    <3>. QED  BY <2>2, <3>1, <1>2 DEF Resolved, Requests
  <2>. QED  BY <1>1, <2>1, <2>3, <2>4
<1>4. CASE req[r].on # r
  BY <1>1, <1>2, <1>4 DEF Leave
<1>. QED  BY <1>3, <1>4

LEMMA BoundedNext == IInv /\ Bounded /\ [Next]_vars => Bounded'
<1> SUFFICES ASSUME IInv, Bounded, [Next]_vars  PROVE Bounded'
  OBVIOUS
<1>1. /\ Types /\ req \in [Reqs -> Requests] /\ (\A r \in Reqs : Proper(req[r]))
      /\ Sound(cache) /\ Known(cache) /\ MaxWrites \in Nat /\ origin \in [Hosts -> Nat]
      /\ HostOf \in [Urls -> Hosts]
      /\ (\A r \in Reqs : req[r].seen <= MaxWrites) /\ (\A h \in Hosts : origin[h] <= MaxWrites)
  BY HttpCacheAssumption DEF IInv, Types, Bounded, HttpCacheAssumption
<1>2. SUFFICES /\ Known(cache')
               /\ \A q \in Reqs : req'[q].seen <= MaxWrites
               /\ \A h \in Hosts : origin'[h] <= MaxWrites
  BY DEF Bounded, Known, Cached
<1> DEFINE Goal == /\ Known(cache')
                   /\ \A q \in Reqs : req'[q].seen <= MaxWrites
                   /\ \A h \in Hosts : origin'[h] <= MaxWrites
<1>3. ASSUME NEW r \in Reqs, NEW u \in Urls, Put(r, u)  PROVE Goal
  <2>1. cache' = Invalidated(cache, u) /\ origin' = origin
    BY <1>3 DEF Put
  <2>2. Known(cache')
    BY <1>1, <2>1, InvalidatedSound, FewerKnown
  <2>3. ASSUME NEW q \in Reqs  PROVE req'[q].seen \in {-1, req[q].seen}
    <3>1. req[q] \in Requests
      BY <1>1
    <3>. QED  BY <1>3, <3>1 DEF Put, Requests, Idle
  <2>. QED  BY <1>1, <2>1, <2>2, <2>3
<1>4. ASSUME NEW r \in Reqs, NEW u \in Urls, NEW private \in BOOLEAN, Get(r, u, private)
      PROVE  Goal
  <2>1. (cache' = cache \/ cache' = Read(cache, u)) /\ origin' = origin
    BY <1>4 DEF Get
  <2>2. Known(cache')
    BY <1>1, <2>1, ReadSound, FewerKnown
  <2>3. ASSUME NEW q \in Reqs  PROVE req'[q].seen \in {-1, req[q].seen}
    <3>1. req[q] \in Requests /\ req[r] \in Requests
      BY <1>1
    <3> DEFINE new == [Idle EXCEPT !.url = u, !.private = private]
    <3>2. /\ Forwarding(new, NoReq).seen = -1 /\ Forwarding(new, r).seen = -1
          /\ [new EXCEPT !.phase = "waiting", !.on = inflight[u]].seen = -1
      BY DEF Forwarding, Idle
    <3> HIDE DEF new
    <3>3. \/ req' = req \/ req' = [req EXCEPT ![r] = Forwarding(new, NoReq)]
          \/ req' = [req EXCEPT ![r] = [new EXCEPT !.phase = "waiting", !.on = inflight[u]]]
          \/ req' = [req EXCEPT ![r] = Forwarding(new, r)]
      BY <1>4 DEF Get, Register, new
    <3>. QED  BY <1>1, <3>2, <3>3
  <2>. QED  BY <1>1, <2>1, <2>2, <2>3
<1>5. ASSUME NEW r \in Reqs, Keep(r)  PROVE Goal
  <2>1. /\ At(r, "answered") /\ req[r].url \in Urls /\ req[r].seen \in Nat
        /\ req[r].met \in BOOLEAN
        /\ origin' = origin /\ req' = [req EXCEPT ![r].phase = "kept"]
    BY <1>1, <1>5 DEF Keep, At, Proper, Requests
  <2>2. \A q \in Reqs : req'[q].seen = req[q].seen
    BY <1>1, <2>1 DEF Requests
  <2>3. ASSUME NEW size \in Sizes, cache' = Stored(cache, req[r].url, Kept(r, size))
        PROVE  Known(cache')
    <3> DEFINE e == Kept(r, size)
    <3>1. e \in Bodies /\ e.ver = req[r].seen /\ e.size = size
      BY <2>1, HttpCacheAssumption DEF HttpCacheAssumption, Kept, Bodies
    <3> HIDE DEF e
    <3>2. \A v \in Urls : cache'.entry[v] \in {NoEntry, e, cache.entry[v]}
      BY <1>1, <2>1, <2>3, <3>1, StoredSound DEF e
    <3>. QED  BY <1>1, <3>1, <3>2 DEF Known, Cached
  <2>4. Known(cache')
    BY <1>1, <1>5, <2>3 DEF Keep
  <2>. QED  BY <1>1, <2>1, <2>2, <2>4
<1>6. ASSUME NEW r \in Reqs, FinishGet(r) \/ FinishPut(r) \/ Fail(r)  PROVE Goal
  <2>1. req[r].url \in Urls /\ Leave(r) /\ origin' = origin
    BY <1>1, <1>6 DEF FinishGet, FinishPut, Fail, At, Proper
  <2>. QED  BY <1>1, <2>1, LeaveBounded
<1>7. ASSUME NEW r \in Reqs, JoinAnswered(r) \/ JoinFailed(r) \/ JoinTimesOut(r)  PROVE Goal
  <2>1. cache' = cache /\ origin' = origin
    BY <1>7 DEF JoinAnswered, JoinFailed, JoinTimesOut
  <2>2. ASSUME NEW q \in Reqs  PROVE req'[q].seen \in {-1, req[q].seen}
    <3>1. req[q] \in Requests /\ req[r] \in Requests
      BY <1>1
    <3>2. Forwarding(req[r], r).seen = -1 /\ Idle.seen = -1
      BY <3>1 DEF Forwarding, Idle, Requests
    <3>3. req' = [req EXCEPT ![r] = Idle] \/ req' = [req EXCEPT ![r] = Forwarding(req[r], r)]
      BY <1>7 DEF JoinAnswered, JoinFailed, JoinTimesOut, Register
    <3>. QED  BY <1>1, <3>2, <3>3
  <2>. QED  BY <1>1, <2>1, <2>2
<1>8. ASSUME NEW r \in Reqs, Served(r)  PROVE Goal
  <2> DEFINE h == HostOf[req[r].url]
             now == origin[h] + (IF req[r].op = "PUT" THEN 1 ELSE 0)
  <2>1. /\ now <= MaxWrites /\ cache' = cache /\ origin' = [origin EXCEPT ![h] = now]
        /\ req' = [req EXCEPT ![r].phase = "answered", ![r].seen = now]
    BY <1>8 DEF Served
  <2> HIDE DEF now
  <2>2. \A q \in Reqs : req'[q].seen \in {now, req[q].seen}
    BY <1>1, <2>1 DEF Requests
  <2>. QED  BY <1>1, <2>1, <2>2
<1>9. ASSUME NEW u \in Urls, Expire(u)  PROVE Goal
  <2>1. /\ cache' = [cache EXCEPT !.entry[u].expired = TRUE] /\ u \in Cached(cache)
        /\ req' = req /\ origin' = origin
    BY <1>9 DEF Expire, Live, Cached
  <2>2. cache.entry[u] \in Bodies /\ DOMAIN cache = Fields
    BY <1>1, <2>1 DEF Sound, Shaped, Cached
  <2>3. cache'.entry = [cache.entry EXCEPT ![u].expired = TRUE]
    BY <2>1, <2>2 DEF Fields
  <2>4. ASSUME NEW v \in Cached(cache')
        PROVE  v \in Cached(cache) /\ cache'.entry[v].ver = cache.entry[v].ver
               /\ cache'.entry[v].size = cache.entry[v].size
    BY <1>1, <2>1, <2>2, <2>3 DEF Cached, Sound, Shaped, Bodies
  <2>. QED  BY <1>1, <2>1, <2>4 DEF Known
<1>10. CASE UNCHANGED vars
  BY <1>1, <1>10 DEF vars
<1>. QED  BY <1>3, <1>4, <1>5, <1>6, <1>7, <1>8, <1>9, <1>10 DEF Next, Handler

LEMMA ShapesKept == IInv /\ BooksInv /\ Bounded => TypeOK
<1> SUFFICES ASSUME IInv, Books(cache), Bounded  PROVE TypeOK
  BY DEF BooksInv
<1>1. /\ Sound(cache) /\ Orders(cache.before, Cached(cache)) /\ Sized(cache)
      /\ cache.bytes = Bytes(cache, Cached(cache)) /\ cache.bytes <= MaxBytes
  BY DEF IInv, Types, Books, Filed, Within
<1>2. ASSUME NEW u \in Urls  PROVE cache.entry[u] \in Entries \cup {NoEntry}
  <2>1. CASE u \in Cached(cache)
    BY <1>1, <2>1, HttpCacheAssumption
    DEF HttpCacheAssumption, Bounded, Known, Sound, Shaped, Cached, Bodies, Entries
  <2>. QED  BY <2>1 DEF Cached
<1>3. cache.bytes \in 0 .. MaxBytes
  <2>1. cache.bytes \in Nat
    <3>1. Cached(cache) \in SUBSET Urls
      BY DEF Cached
    <3>. QED  BY <1>1, <3>1, OctetsFinite
  <2>. QED  BY <1>1, <2>1, HttpCacheAssumption DEF HttpCacheAssumption
<1>4. \A u, v \in Cached(cache) : u # v => (<<u, v>> \in cache.before <=> <<v, u>> \notin cache.before)
  BY <1>1 DEF Orders
<1>5. req \in [Reqs -> [phase : Phases, op : {"GET", "PUT"}, url : Urls \cup {NoUrl},
                        private : BOOLEAN, on : Reqs \cup {NoReq}, seen : -1 .. MaxWrites,
                        met : BOOLEAN]]
  <2>1. \A r \in Reqs : req[r] \in Requests /\ req[r].seen <= MaxWrites
    BY DEF IInv, Types, Bounded
  <2>. QED  BY <2>1, HttpCacheAssumption DEF HttpCacheAssumption, IInv, Types, Requests
<1>6. origin \in [Hosts -> 0 .. MaxWrites] /\ acked \in [Hosts -> 0 .. MaxWrites]
  BY HttpCacheAssumption DEF HttpCacheAssumption, IInv, Types, Fresh, Bounded
<1>7. cache.entry \in [Urls -> Entries \cup {NoEntry}] /\ cache.index \in [Hosts -> SUBSET Urls]
  BY <1>1, <1>2 DEF Sound, Shaped
<1>8. inflight \in [Urls -> Reqs \cup {NoReq}]
  BY DEF IInv, Types
<1>. QED  BY <1>1, <1>3, <1>4, <1>5, <1>6, <1>7, <1>8 DEF TypeOK, Orders

-----------------------------------------------------------------------------
(* The theorems.                                                            *)

LEMMA Invariance == Spec => []IInv
<1>. QED  BY IInvInit, IInvNext, PTL DEF Spec

\* However many handlers join, time out, take over, fail and finish, each one
\* that waits does so for a handler that is fetching the same page and will
\* resolve the future when it ends, well or badly.
THEOREM NobodyWaitsForNobody == Spec => []WaitersHaveOwner
<1>1. IInv => WaitersHaveOwner
  BY DEF IInv, Owners
<1>. QED  BY <1>1, Invariance, PTL

\* For any limits of the table and any number of pages and writes, what lacks
\* an acknowledged write was fetched while a write was under way.
THEOREM OutdatedOnlyByOverlap == Spec => []StaleOnlyFromOverlap
<1>1. IInv => StaleOnlyFromOverlap
  BY DEF IInv, Fresh
<1>. QED  BY <1>1, Invariance, PTL

\* For any limits and any sizes of pages, the table that the handlers fill,
\* overwrite, evict from and invalidate counts exactly the bytes it holds, has
\* every page under its host and no other, and stays within both limits.
THEOREM TableKeepsBooks == Spec => []TableExact
<1>1. BooksInv => TableExact
  BY DEF BooksInv, Books, Filed, Listed, Within, TableExact, LedgersExact, WithinLimits
<1>. QED  BY <1>1, BooksInit, BooksNext, Invariance, PTL DEF Spec

\* Every variable keeps its shape, and the pages of the table, however they
\* were read, overwritten and dropped, are at any time in one order.
THEOREM TypeCorrect == Spec => []TypeOK
<1>. QED  BY ShapesKept, BooksInit, BooksNext, BoundedInit, BoundedNext, Invariance, PTL DEF Spec
=============================================================================
