-------------------------- MODULE ConnPools_proofs --------------------------
(***************************************************************************)
(* Whatever the sizes, the proxies and the number of prewarmers, the pools *)
(* of ConnPools stay inside their budgets.                                 *)
(*                                                                         *)
(* BudgetRespected is not inductive: BudgetLeft computes from the counters *)
(* and not from the pools, so the counters must be exact (LedgersMatch).   *)
(* The steps of a worker put several calls together; each call keeps       *)
(* Consistent, stated of arbitrary values so that calls can be chained.    *)
(***************************************************************************)
EXTENDS ConnPools, FiniteSetTheorems, TLAPS

Busy(wk) == {w \in Workers : wk[w].pc = "opening"}
BusyFor(wk, p) == {w \in Busy(wk) : wk[w].proxy = p}
BusyBucket(wk, p, t) == {w \in BusyFor(wk, p) : wk[w].target = t}
Idle(Q, p) == Of(Q, DOMAIN Q, p)

Typed(Q, pend, count, wk) ==
    /\ IsFiniteSet(DOMAIN Q)
    /\ \A c \in DOMAIN Q : Q[c] \in ConnRecord
    /\ pend \in [all : Nat, key : [Proxies -> Nat], bucket : [Buckets -> Nat]]
    /\ count \in [Proxies -> Nat]
    /\ wk \in [Workers -> Job]

PendingExact(pend, wk) ==
    /\ pend.all = Cardinality(Busy(wk))
    /\ \A p \in Proxies : pend.key[p] = Cardinality(BusyFor(wk, p))
    /\ \A p \in Proxies, t \in Targets :
            pend.bucket[<<p, t>>] = Cardinality(BusyBucket(wk, p, t))

CountExact(Q, count) == \A p \in Proxies : count[p] = Cardinality(Idle(Q, p))

\* Room for `extra` more connections, all of them to proxy q.
Within(Q, wk, q, extra) ==
    /\ TotalIdle(Q) + Cardinality(Busy(wk)) + extra <= conn_pool_total
    /\ \A p \in Proxies :
        Cardinality(Idle(Q, p)) + Cardinality(BusyFor(wk, p))
            + (IF p = q THEN extra ELSE 0) <= conn_pool_per_proxy

Consistent(Q, pend, count, wk) ==
    /\ Typed(Q, pend, count, wk)
    /\ PendingExact(pend, wk)
    /\ CountExact(Q, count)
    /\ \A q : Within(Q, wk, q, 0)

-----------------------------------------------------------------------------
\* There are finitely many workers, so those with a connection in flight can
\* be counted.
LEMMA WorkersFinite == IsFiniteSet(Workers)
  BY NamesAssumption, FS_AddElement DEF Workers

\* What a worker with a connection in flight carries.
LEMMA OpeningJob ==
  ASSUME NEW j \in Job, j.pc = "opening"
  PROVE  /\ j.proxy \in Proxies
         /\ j.target \in Targets \cup {NoTarget}
         /\ j.life \in Lifetimes
  BY DEF Job, Off

\* The sets the ledgers count are finite.
LEMMA BusyFinite ==
  ASSUME NEW wk, NEW p, NEW t
  PROVE  /\ IsFiniteSet(Busy(wk)) /\ Cardinality(Busy(wk)) \in Nat
         /\ IsFiniteSet(BusyFor(wk, p)) /\ Cardinality(BusyFor(wk, p)) \in Nat
         /\ IsFiniteSet(BusyBucket(wk, p, t)) /\ Cardinality(BusyBucket(wk, p, t)) \in Nat
<1>1. /\ Busy(wk) \in SUBSET Workers
      /\ BusyFor(wk, p) \in SUBSET Workers
      /\ BusyBucket(wk, p, t) \in SUBSET Workers
  BY DEF Busy, BusyFor, BusyBucket
<1>2. /\ IsFiniteSet(Busy(wk))
      /\ IsFiniteSet(BusyFor(wk, p))
      /\ IsFiniteSet(BusyBucket(wk, p, t))
  BY <1>1, WorkersFinite, FS_Subset
<1>. QED  BY <1>2, FS_CardinalityType

\* ... and so are the idle connections of a bucket.
LEMMA IdleFinite ==
  ASSUME NEW Q, IsFiniteSet(DOMAIN Q), NEW p
  PROVE  /\ TotalIdle(Q) \in Nat
         /\ IsFiniteSet(Idle(Q, p)) /\ Cardinality(Idle(Q, p)) \in Nat
<1>1. Idle(Q, p) \in SUBSET DOMAIN Q
  BY DEF Idle, Of
<1>2. IsFiniteSet(Idle(Q, p))
  BY <1>1, FS_Subset
<1>. QED  BY <1>2, FS_CardinalityType DEF TotalIdle

\* From wk to wk2 a worker that was not opening starts to.
Begins(wk, wk2, w, p, t) ==
    /\ wk[w].pc # "opening"
    /\ wk2[w].pc = "opening" /\ wk2[w].proxy = p /\ wk2[w].target = t
    /\ \A v \in Workers \ {w} : wk2[v] = wk[v]

\* The three counts it belongs to grow by one and the others stay.
Grows(wk, wk2, p, t) ==
    /\ Cardinality(Busy(wk2)) = Cardinality(Busy(wk)) + 1
    /\ \A q \in Proxies : Cardinality(BusyFor(wk2, q)) =
            IF q = p THEN Cardinality(BusyFor(wk, q)) + 1
            ELSE Cardinality(BusyFor(wk, q))
    /\ \A q \in Proxies, u \in Targets : Cardinality(BusyBucket(wk2, q, u)) =
            IF q = p /\ u = t THEN Cardinality(BusyBucket(wk, q, u)) + 1
            ELSE Cardinality(BusyBucket(wk, q, u))

\* One more worker opening, one more in the set that counts it.
LEMMA BusyBegins ==
  ASSUME NEW wk, NEW wk2, NEW w \in Workers, NEW p, NEW t, Begins(wk, wk2, w, p, t)
  PROVE  Grows(wk, wk2, p, t)
<1>2. /\ wk2[w].pc = "opening" /\ wk2[w].proxy = p /\ wk2[w].target = t
      /\ wk[w].pc # "opening"
      /\ \A v \in Workers \ {w} : wk2[v] = wk[v]
  BY DEF Begins
<1>6. Busy(wk2) = Busy(wk) \cup {w} /\ w \notin Busy(wk)
  BY <1>2 DEF Busy
<1>7. Busy(wk) \subseteq Workers
  BY DEF Busy
<1>3. Cardinality(Busy(wk2)) = Cardinality(Busy(wk)) + 1
  BY <1>6, BusyFinite, FS_AddElement
<1>4. ASSUME NEW q \in Proxies
      PROVE  Cardinality(BusyFor(wk2, q)) =
              IF q = p THEN Cardinality(BusyFor(wk, q)) + 1
              ELSE Cardinality(BusyFor(wk, q))
  <2>1. CASE q = p
    <3>1. BusyFor(wk2, q) = BusyFor(wk, q) \cup {w} /\ w \notin BusyFor(wk, q)
      BY <1>2, <1>6, <1>7, <2>1 DEF BusyFor
    <3>2. IsFiniteSet(BusyFor(wk, q)) /\ Cardinality(BusyFor(wk, q)) \in Nat
      BY BusyFinite
    <3>3. Cardinality(BusyFor(wk2, q)) = Cardinality(BusyFor(wk, q)) + 1
      BY <3>1, <3>2, FS_AddElement
    <3>. QED  BY <2>1, <3>3
  <2>2. CASE q # p
    <3>1. BusyFor(wk2, q) = BusyFor(wk, q)
      BY <1>2, <1>6, <1>7, <2>2 DEF BusyFor
    <3>. QED  BY <2>2, <3>1, BusyFinite
  <2>. QED  BY <2>1, <2>2
<1>5. ASSUME NEW q \in Proxies, NEW u \in Targets
      PROVE  Cardinality(BusyBucket(wk2, q, u)) =
              IF q = p /\ u = t THEN Cardinality(BusyBucket(wk, q, u)) + 1
              ELSE Cardinality(BusyBucket(wk, q, u))
  <2>1. CASE q = p /\ u = t
    <3>1. BusyBucket(wk2, q, u) = BusyBucket(wk, q, u) \cup {w} /\ w \notin BusyBucket(wk, q, u)
      BY <1>2, <1>6, <1>7, <2>1 DEF BusyBucket, BusyFor
    <3>2. IsFiniteSet(BusyBucket(wk, q, u)) /\ Cardinality(BusyBucket(wk, q, u)) \in Nat
      BY BusyFinite
    <3>3. Cardinality(BusyBucket(wk2, q, u)) = Cardinality(BusyBucket(wk, q, u)) + 1
      BY <3>1, <3>2, FS_AddElement
    <3>. QED  BY <2>1, <3>3
  <2>2. CASE ~(q = p /\ u = t)
    <3>1. BusyBucket(wk2, q, u) = BusyBucket(wk, q, u)
      BY <1>2, <1>6, <1>7, <2>2 DEF BusyBucket, BusyFor
    <3>. QED  BY <2>2, <3>1, BusyFinite
  <2>. QED  BY <2>1, <2>2
<1>. QED  BY <1>3, <1>4, <1>5 DEF Grows

-----------------------------------------------------------------------------
\* A worker that is not opening may become any other that is not.
LEMMA IdleWorkerOK ==
  ASSUME NEW Q, NEW pend, NEW count, NEW wk, Consistent(Q, pend, count, wk),
         NEW w \in Workers, wk[w].pc # "opening",
         NEW j \in Job, j.pc # "opening"
  PROVE  Consistent(Q, pend, count, [wk EXCEPT ![w] = j])
<1> DEFINE wk2 == [wk EXCEPT ![w] = j]
<1>1. wk \in [Workers -> Job]
  BY DEF Consistent, Typed
<1>2. wk2 \in [Workers -> Job] /\ wk2[w] = j /\ \A v \in Workers \ {w} : wk2[v] = wk[v]
  BY <1>1
<1>3. Busy(wk2) = Busy(wk) /\ Busy(wk) \subseteq Workers \ {w}
  BY <1>2 DEF Busy
<1>4. /\ \A p : BusyFor(wk2, p) = BusyFor(wk, p)
      /\ \A p, t : BusyBucket(wk2, p, t) = BusyBucket(wk, p, t)
  BY <1>2, <1>3 DEF BusyFor, BusyBucket
<1>. QED  BY <1>2, <1>3, <1>4 DEF Consistent, Typed, PendingExact, Within

\* _begin_create, after the budget was looked at.
LEMMA CreateOK ==
  ASSUME NEW Q, NEW pend, NEW count, NEW wk, Consistent(Q, pend, count, wk),
         NEW w \in Workers, wk[w].pc # "opening",
         NEW p \in Proxies, NEW t \in Targets \cup {NoTarget}, NEW life \in Lifetimes,
         BudgetLeft(Q, pend, count, p) # 0,
         NEW pend2, pend2 = BeginCreate(pend, p, t),
         NEW wk2, wk2 = [wk EXCEPT ![w] = [pc |-> "opening", proxy |-> p,
                                           target |-> t, life |-> life]]
  PROVE  Consistent(Q, pend2, count, wk2)
<1>1. Typed(Q, pend, count, wk) /\ PendingExact(pend, wk) /\ CountExact(Q, count)
  BY DEF Consistent
<1>0. /\ wk \in [Workers -> Job]
      /\ pend.all \in Nat /\ pend.key \in [Proxies -> Nat] /\ pend.bucket \in [Buckets -> Nat]
      /\ conn_pool_total \in Nat /\ conn_pool_per_proxy \in Nat
  BY <1>1, SizesAssumption DEF Typed
<1>a. wk2 \in [Workers -> Job]
  BY <1>0 DEF Job
<1>b. Begins(wk, wk2, w, p, t)
  BY <1>0 DEF Begins
<1>2. Grows(wk, wk2, p, t)
  BY <1>b, BusyBegins
<1>3. /\ pend2 \in [all : Nat, key : [Proxies -> Nat], bucket : [Buckets -> Nat]]
      /\ pend2.all = pend.all + 1
      /\ \A q \in Proxies : pend2.key[q] =
              IF q = p THEN pend.key[q] + 1
              ELSE pend.key[q]
  <2>1. /\ pend2.all = pend.all + 1
        /\ pend2.key = [pend.key EXCEPT ![p] = @ + 1]
        /\ pend2.bucket = IF t = NoTarget THEN pend.bucket
                          ELSE [pend.bucket EXCEPT ![<<p, t>>] = @ + 1]
        /\ pend2 = [all |-> pend2.all, key |-> pend2.key, bucket |-> pend2.bucket]
    BY DEF BeginCreate
  <2>2. pend2.bucket \in [Buckets -> Nat]
    BY <1>0, <2>1 DEF Buckets
  <2>3. pend2.key \in [Proxies -> Nat]
    BY <1>0, <2>1
  <2>. QED  BY <1>0, <2>1, <2>2, <2>3
<1>4. \A q \in Proxies, u \in Targets : pend2.bucket[<<q, u>>] =
              IF q = p /\ u = t THEN pend.bucket[<<q, u>>] + 1
              ELSE pend.bucket[<<q, u>>]
  <2>1. pend2.bucket = IF t = NoTarget THEN pend.bucket
                       ELSE [pend.bucket EXCEPT ![<<p, t>>] = @ + 1]
    BY DEF BeginCreate
  <2>2. \A q \in Proxies, u \in Targets : <<q, u>> \in Buckets /\ u # NoTarget
    BY NamesAssumption DEF Buckets
  <2>. QED  BY <1>0, <2>1, <2>2
<1>5. PendingExact(pend2, wk2)
  <2>1. pend2.all = Cardinality(Busy(wk2))
    BY <1>1, <1>2, <1>3 DEF PendingExact, Grows
  <2>2. \A q \in Proxies : pend2.key[q] = Cardinality(BusyFor(wk2, q))
    BY <1>1, <1>2, <1>3 DEF PendingExact, Grows
  <2>3. ASSUME NEW q \in Proxies, NEW u \in Targets
        PROVE  pend2.bucket[<<q, u>>] = Cardinality(BusyBucket(wk2, q, u))
    <3>1. pend.bucket[<<q, u>>] = Cardinality(BusyBucket(wk, q, u))
      BY <1>1 DEF PendingExact
    <3>2. Cardinality(BusyBucket(wk2, q, u)) =
            IF q = p /\ u = t THEN Cardinality(BusyBucket(wk, q, u)) + 1
            ELSE Cardinality(BusyBucket(wk, q, u))
      BY <1>2 DEF Grows
    <3>. QED  BY <1>4, <3>1, <3>2
  <2>. QED  BY <2>1, <2>2, <2>3 DEF PendingExact
<1>6. /\ TotalIdle(Q) + pend.all + 1 <= conn_pool_total
      /\ count[p] + pend.key[p] + 1 <= conn_pool_per_proxy
  <2>1. TotalIdle(Q) \in Nat
    BY <1>1, IdleFinite DEF Typed
  <2>2. /\ pend.all \in Nat /\ pend.key[p] \in Nat /\ count[p] \in Nat
        /\ conn_pool_total \in Nat /\ conn_pool_per_proxy \in Nat
    BY <1>1, SizesAssumption DEF Typed
  <2>. QED  BY <2>1, <2>2 DEF BudgetLeft, Less
<1>7. ASSUME NEW q \in Proxies
      PROVE  Cardinality(Idle(Q, q)) + Cardinality(BusyFor(wk2, q)) <= conn_pool_per_proxy
  <2>1. Cardinality(Idle(Q, q)) + Cardinality(BusyFor(wk, q)) <= conn_pool_per_proxy
    <3>1. /\ Cardinality(Idle(Q, q)) \in Nat /\ Cardinality(BusyFor(wk, q)) \in Nat
          /\ conn_pool_per_proxy \in Nat
      BY <1>1, IdleFinite, BusyFinite, SizesAssumption DEF Typed
    <3>. QED  BY <3>1 DEF Consistent, Within
  <2>2. Cardinality(Idle(Q, q)) = count[q] /\ Cardinality(BusyFor(wk, q)) = pend.key[q]
    BY <1>1 DEF CountExact, PendingExact
  <2>3. count[q] \in Nat /\ pend.key[q] \in Nat /\ conn_pool_per_proxy \in Nat
    BY <1>1, SizesAssumption DEF Typed
  <2>4. Cardinality(BusyFor(wk2, q)) = IF q = p THEN pend.key[q] + 1 ELSE pend.key[q]
    BY <1>2, <2>2 DEF Grows
  <2>5. CASE q = p
    BY <1>6, <2>2, <2>3, <2>4, <2>5
  <2>6. CASE q # p
    BY <2>1, <2>2, <2>4, <2>6
  <2>. QED  BY <2>5, <2>6
<1>8. TotalIdle(Q) + Cardinality(Busy(wk2)) <= conn_pool_total
  <2>1. TotalIdle(Q) \in Nat /\ pend.all \in Nat /\ Cardinality(Busy(wk)) = pend.all
    BY <1>1, IdleFinite DEF Typed, PendingExact
  <2>. QED  BY <1>2, <1>6, <2>1 DEF Grows
<1>9. \A q : Within(Q, wk2, q, 0)
  <2>1. /\ TotalIdle(Q) \in Nat /\ Cardinality(Busy(wk2)) \in Nat
        /\ \A q \in Proxies : Cardinality(Idle(Q, q)) \in Nat
                              /\ Cardinality(BusyFor(wk2, q)) \in Nat
    BY <1>1, IdleFinite, BusyFinite DEF Typed
  <2>2. TotalIdle(Q) + Cardinality(Busy(wk2)) + 0 <= conn_pool_total
    BY <1>8, <2>1
  <2>3. ASSUME NEW q, NEW r \in Proxies
        PROVE  Cardinality(Idle(Q, r)) + Cardinality(BusyFor(wk2, r))
                    + (IF r = q THEN 0 ELSE 0) <= conn_pool_per_proxy
    <3>1. /\ Cardinality(Idle(Q, r)) + Cardinality(BusyFor(wk2, r)) <= conn_pool_per_proxy
          /\ Cardinality(Idle(Q, r)) \in Nat /\ Cardinality(BusyFor(wk2, r)) \in Nat
      BY <1>7, <2>1
    <3>. QED  BY <3>1
  <2>. QED  BY <2>2, <2>3 DEF Within
<1>. QED  BY <1>1, <1>a, <1>3, <1>5, <1>9 DEF Consistent, Typed

\* _end_create: the ledgers follow, and the budgets have room for the
\* connection if there is one.
LEMMA EndOK ==
  ASSUME NEW Q, NEW pend, NEW count, NEW wk, Consistent(Q, pend, count, wk),
         NEW w \in Workers, NEW p, NEW t,
         NEW wk2 \in [Workers -> Job], Begins(wk2, wk, w, p, t),
         NEW pend2, pend2 = EndCreate(pend, p, t)
  PROVE  /\ Consistent(Q, pend2, count, wk2)
         /\ Within(Q, wk2, p, 1)
<1>1. Typed(Q, pend, count, wk) /\ PendingExact(pend, wk) /\ CountExact(Q, count)
  BY DEF Consistent
<1>0. /\ wk \in [Workers -> Job]
      /\ pend.all \in Nat /\ pend.key \in [Proxies -> Nat] /\ pend.bucket \in [Buckets -> Nat]
      /\ conn_pool_total \in Nat /\ conn_pool_per_proxy \in Nat
  BY <1>1, SizesAssumption DEF Typed
<1>2. Grows(wk2, wk, p, t)
  BY BusyBegins
<1>3. p \in Proxies /\ t \in Targets \cup {NoTarget}
  BY <1>0, OpeningJob DEF Begins
<1>4. /\ \A q \in Proxies : Cardinality(BusyFor(wk2, q)) \in Nat
      /\ \A q \in Proxies, u \in Targets : Cardinality(BusyBucket(wk2, q, u)) \in Nat
      /\ Cardinality(Busy(wk2)) \in Nat
      /\ TotalIdle(Q) \in Nat
      /\ \A q \in Proxies : Cardinality(Idle(Q, q)) \in Nat
  BY <1>1, BusyFinite, IdleFinite DEF Typed
<1>5. /\ pend2.all = pend.all - 1
      /\ pend2.key = [pend.key EXCEPT ![p] = Less(@, 1)]
      /\ pend2.bucket = IF t = NoTarget THEN pend.bucket
                        ELSE [pend.bucket EXCEPT ![<<p, t>>] = Less(@, 1)]
      /\ pend2 = [all |-> pend2.all, key |-> pend2.key, bucket |-> pend2.bucket]
  BY DEF EndCreate
<1>6. /\ pend2.key \in [Proxies -> Nat]
      /\ pend2.bucket \in [Buckets -> Nat]
  BY <1>0, <1>3, <1>5 DEF Less, Buckets
<1>7. PendingExact(pend2, wk2)
  <2>1. pend2.all = Cardinality(Busy(wk2))
    BY <1>1, <1>2, <1>4, <1>5 DEF PendingExact, Grows
  <2>2. ASSUME NEW q \in Proxies
        PROVE  pend2.key[q] = Cardinality(BusyFor(wk2, q))
    <3>1. pend.key[q] = Cardinality(BusyFor(wk, q)) /\ pend.key[q] \in Nat
      BY <1>0, <1>1 DEF PendingExact
    <3>2. pend2.key[q] = IF q = p THEN Less(pend.key[q], 1) ELSE pend.key[q]
      BY <1>0, <1>3, <1>5
    <3>3. Cardinality(BusyFor(wk, q)) =
            IF q = p THEN Cardinality(BusyFor(wk2, q)) + 1 ELSE Cardinality(BusyFor(wk2, q))
      BY <1>2 DEF Grows
    <3>4. Cardinality(BusyFor(wk2, q)) \in Nat
      BY <1>4
    <3>. QED  BY <3>1, <3>2, <3>3, <3>4 DEF Less
  <2>3. ASSUME NEW q \in Proxies, NEW u \in Targets
        PROVE  pend2.bucket[<<q, u>>] = Cardinality(BusyBucket(wk2, q, u))
    <3>1. /\ pend.bucket[<<q, u>>] = Cardinality(BusyBucket(wk, q, u))
          /\ pend.bucket[<<q, u>>] \in Nat
      BY <1>0, <1>1 DEF PendingExact, Buckets
    <3>2. pend2.bucket[<<q, u>>] = IF q = p /\ u = t THEN Less(pend.bucket[<<q, u>>], 1)
                                   ELSE pend.bucket[<<q, u>>]
      <4>1. <<q, u>> \in Buckets /\ u # NoTarget
        BY NamesAssumption DEF Buckets
      <4>. QED  BY <1>0, <1>5, <4>1
    <3>3. Cardinality(BusyBucket(wk, q, u)) =
            IF q = p /\ u = t THEN Cardinality(BusyBucket(wk2, q, u)) + 1
            ELSE Cardinality(BusyBucket(wk2, q, u))
      BY <1>2 DEF Grows
    <3>4. Cardinality(BusyBucket(wk2, q, u)) \in Nat
      BY <1>4
    <3>. QED  BY <3>1, <3>2, <3>3, <3>4 DEF Less
  <2>. QED  BY <2>1, <2>2, <2>3 DEF PendingExact
<1>8. ASSUME NEW q, NEW k \in {0, 1}, q = p \/ k = 0
      PROVE  Within(Q, wk2, q, k)
  <2>1. TotalIdle(Q) + Cardinality(Busy(wk2)) + k <= conn_pool_total
    <3>1. TotalIdle(Q) + Cardinality(Busy(wk)) + 0 <= conn_pool_total
      BY DEF Consistent, Within
    <3>2. Cardinality(Busy(wk)) = Cardinality(Busy(wk2)) + 1
      BY <1>2 DEF Grows
    <3>3. TotalIdle(Q) \in Nat /\ Cardinality(Busy(wk2)) \in Nat
      BY <1>4
    <3>. QED  BY <1>0, <3>1, <3>2, <3>3
  <2>2. ASSUME NEW x \in Proxies
        PROVE  Cardinality(Idle(Q, x)) + Cardinality(BusyFor(wk2, x))
                    + (IF x = q THEN k ELSE 0) <= conn_pool_per_proxy
    <3>1. Cardinality(Idle(Q, x)) + Cardinality(BusyFor(wk, x)) + 0 <= conn_pool_per_proxy
      BY DEF Consistent, Within
    <3>2. Cardinality(Idle(Q, x)) \in Nat /\ Cardinality(BusyFor(wk2, x)) \in Nat
      BY <1>4
    <3>3. CASE x = p
      <4>1. Cardinality(BusyFor(wk, x)) = Cardinality(BusyFor(wk2, x)) + 1
        BY <1>2, <3>3 DEF Grows
      <4>. QED  BY <1>0, <3>1, <3>2, <4>1
    <3>4. CASE x # p
      <4>1. Cardinality(BusyFor(wk, x)) = Cardinality(BusyFor(wk2, x))
        BY <1>2, <3>4 DEF Grows
      <4>. QED  BY <1>0, <1>8, <3>1, <3>2, <3>4, <4>1
    <3>. QED  BY <3>3, <3>4
  <2>. QED  BY <2>1, <2>2 DEF Within
<1>9. pend2 \in [all : Nat, key : [Proxies -> Nat], bucket : [Buckets -> Nat]]
  <2>1. pend2.all \in Nat
    BY <1>4, <1>7 DEF PendingExact
  <2>. QED  BY <1>5, <1>6, <2>1
<1>. QED  BY <1>1, <1>3, <1>7, <1>8, <1>9 DEF Consistent, Typed

-----------------------------------------------------------------------------
\* Connections R leave the pool: taken, discarded or pruned.
LEMMA DropOK ==
  ASSUME NEW Q, NEW pend, NEW count, NEW wk, Consistent(Q, pend, count, wk),
         NEW R \in SUBSET DOMAIN Q
  PROVE  /\ Consistent(Drop(Q, R), pend, CountTake(count, Q, R), wk)
         /\ DOMAIN Drop(Q, R) \subseteq DOMAIN Q
<1>1. Typed(Q, pend, count, wk) /\ PendingExact(pend, wk) /\ CountExact(Q, count)
  BY DEF Consistent
<1>2. PICK Q2 : Q2 = Drop(Q, R)
  OBVIOUS
<1>3. DOMAIN Q2 = DOMAIN Q \ R /\ \A c \in DOMAIN Q2 : Q2[c] = Q[c]
  BY <1>2 DEF Drop
<1>4. IsFiniteSet(DOMAIN Q2) /\ TotalIdle(Q2) <= TotalIdle(Q)
  BY <1>1, <1>3, FS_Subset DEF Typed, TotalIdle
<1>5. ASSUME NEW p \in Proxies
      PROVE  /\ Cardinality(Idle(Q2, p)) = Cardinality(Idle(Q, p)) - Cardinality(Of(Q, R, p))
             /\ Cardinality(Of(Q, R, p)) \in Nat
             /\ Cardinality(Idle(Q2, p)) \in Nat
  <2>1. Idle(Q2, p) = Idle(Q, p) \ Of(Q, R, p)
    BY <1>3 DEF Idle, Of
  <2>2. Of(Q, R, p) = Idle(Q, p) \cap Of(Q, R, p) /\ Of(Q, R, p) \in SUBSET Idle(Q, p)
    BY DEF Idle, Of
  <2>3. IsFiniteSet(Idle(Q, p)) /\ IsFiniteSet(Of(Q, R, p))
    BY <1>1, <2>2, IdleFinite, FS_Subset DEF Typed
  <2>4. Cardinality(Of(Q, R, p)) \in Nat /\ Cardinality(Idle(Q2, p)) \in Nat
    BY <1>4, <2>3, IdleFinite, FS_CardinalityType
  <2>5. Cardinality(Idle(Q, p) \ Of(Q, R, p)) =
            Cardinality(Idle(Q, p)) - Cardinality(Idle(Q, p) \cap Of(Q, R, p))
    BY <2>3, FS_Difference
  <2>. QED  BY <2>1, <2>2, <2>4, <2>5
<1>6. PICK count2 : count2 = CountTake(count, Q, R)
  OBVIOUS
<1>7. CountExact(Q2, count2) /\ count2 \in [Proxies -> Nat]
  <2>1. count2 = [p \in Proxies |-> Less(count[p], Cardinality(Of(Q, R, p)))]
    BY <1>6 DEF CountTake
  <2>2. ASSUME NEW p \in Proxies
        PROVE  Less(count[p], Cardinality(Of(Q, R, p))) = Cardinality(Idle(Q2, p))
    <3>1. count[p] = Cardinality(Idle(Q, p)) /\ count[p] \in Nat
      BY <1>1 DEF CountExact, Typed
    <3>. QED  BY <1>5, <3>1 DEF Less
  <2>. QED  BY <1>5, <2>1, <2>2 DEF CountExact
<1>8. \A q : Within(Q2, wk, q, 0)
  <2>1. TotalIdle(Q2) + Cardinality(Busy(wk)) + 0 <= conn_pool_total
    <3>1. /\ TotalIdle(Q2) \in Nat /\ TotalIdle(Q) \in Nat
          /\ Cardinality(Busy(wk)) \in Nat /\ conn_pool_total \in Nat
      BY <1>1, <1>4, IdleFinite, BusyFinite, SizesAssumption DEF Typed
    <3>2. TotalIdle(Q) + Cardinality(Busy(wk)) + 0 <= conn_pool_total
      BY DEF Consistent, Within
    <3>. QED  BY <1>4, <3>1, <3>2
  <2>2. ASSUME NEW p \in Proxies
        PROVE  Cardinality(Idle(Q2, p)) + Cardinality(BusyFor(wk, p)) + 0 <= conn_pool_per_proxy
    <3>1. Cardinality(Idle(Q, p)) + Cardinality(BusyFor(wk, p)) + 0 <= conn_pool_per_proxy
      BY DEF Consistent, Within
    <3>2. /\ Cardinality(Idle(Q, p)) \in Nat /\ Cardinality(BusyFor(wk, p)) \in Nat
          /\ conn_pool_per_proxy \in Nat
      BY <1>1, IdleFinite, BusyFinite, SizesAssumption DEF Typed
    <3>. QED  BY <1>5, <3>1, <3>2
  <2>. QED  BY <2>1, <2>2 DEF Within
<1>9. Typed(Q2, pend, count2, wk)
  BY <1>1, <1>3, <1>4, <1>7 DEF Typed
<1>. QED  BY <1>1, <1>2, <1>3, <1>6, <1>7, <1>8, <1>9 DEF Consistent

\* A connection lands in the pool, in the room that EndOK has shown.
LEMMA PutOK ==
  ASSUME NEW Q, NEW pend, NEW count, NEW wk, Consistent(Q, pend, count, wk),
         NEW n, n \notin DOMAIN Q,
         NEW made \in ConnRecord, Within(Q, wk, made.proxy, 1),
         NEW Q2, Q2 = [c \in DOMAIN Q \cup {n} |-> IF c = n THEN made ELSE Q[c]]
  PROVE  Consistent(Q2, pend, CountPut(count, made.proxy), wk)
<1>1. Typed(Q, pend, count, wk) /\ PendingExact(pend, wk) /\ CountExact(Q, count)
  BY DEF Consistent
<1>2. PICK q : q = made.proxy
  OBVIOUS
<1>3. q \in Proxies
  BY <1>2 DEF ConnRecord
<1>4. /\ DOMAIN Q2 = DOMAIN Q \cup {n}
      /\ Q2[n] = made
      /\ \A c \in DOMAIN Q : Q2[c] = Q[c]
  OBVIOUS
<1>5. IsFiniteSet(DOMAIN Q2) /\ TotalIdle(Q2) = TotalIdle(Q) + 1
  BY <1>1, <1>4, FS_AddElement DEF Typed, TotalIdle
<1>6. ASSUME NEW p \in Proxies
      PROVE  Cardinality(Idle(Q2, p)) = IF p = q THEN Cardinality(Idle(Q, p)) + 1
                                        ELSE Cardinality(Idle(Q, p))
  <2>1. CASE p = q
    <3>1. Idle(Q2, p) = Idle(Q, p) \cup {n} /\ n \notin Idle(Q, p)
      BY <1>2, <1>4, <2>1 DEF Idle, Of
    <3>2. IsFiniteSet(Idle(Q, p))
      BY <1>1, IdleFinite DEF Typed
    <3>3. Cardinality(Idle(Q2, p)) = Cardinality(Idle(Q, p)) + 1
      BY <3>1, <3>2, FS_AddElement
    <3>. QED  BY <2>1, <3>3
  <2>2. CASE p # q
    <3>1. Idle(Q2, p) = Idle(Q, p)
      BY <1>2, <1>4, <2>2 DEF Idle, Of
    <3>. QED  BY <2>2, <3>1
  <2>. QED  BY <2>1, <2>2
<1>7. PICK count2 : count2 = CountPut(count, q)
  OBVIOUS
<1>8. count2 \in [Proxies -> Nat] /\ CountExact(Q2, count2)
  <2>1. count \in [Proxies -> Nat] /\ \A p \in Proxies : count[p] = Cardinality(Idle(Q, p))
    BY <1>1 DEF Typed, CountExact
  <2>2. count2 = [count EXCEPT ![q] = @ + 1]
    BY <1>7 DEF CountPut
  <2>3. ASSUME NEW p \in Proxies
        PROVE  count2[p] = Cardinality(Idle(Q2, p))
    BY <1>3, <1>6, <2>1, <2>2
  <2>4. count2 \in [Proxies -> Nat]
    BY <1>3, <2>1, <2>2
  <2>. QED  BY <2>3, <2>4 DEF CountExact
<1>9. \A x : Within(Q2, wk, x, 0)
  <2>1. /\ TotalIdle(Q) \in Nat /\ Cardinality(Busy(wk)) \in Nat
        /\ conn_pool_total \in Nat /\ conn_pool_per_proxy \in Nat
    BY <1>1, IdleFinite, BusyFinite, SizesAssumption DEF Typed
  <2>2. TotalIdle(Q) + Cardinality(Busy(wk)) + 1 <= conn_pool_total
    BY DEF Within
  <2>3. TotalIdle(Q2) + Cardinality(Busy(wk)) + 0 <= conn_pool_total
    BY <1>5, <2>1, <2>2
  <2>4. ASSUME NEW p \in Proxies
        PROVE  Cardinality(Idle(Q2, p)) + Cardinality(BusyFor(wk, p)) + 0 <= conn_pool_per_proxy
    <3>1. Cardinality(Idle(Q, p)) + Cardinality(BusyFor(wk, p))
                + (IF p = q THEN 1 ELSE 0) <= conn_pool_per_proxy
      BY <1>2 DEF Within
    <3>2. Cardinality(Idle(Q, p)) \in Nat /\ Cardinality(BusyFor(wk, p)) \in Nat
      BY <1>1, IdleFinite, BusyFinite DEF Typed
    <3>. QED  BY <1>6, <2>1, <3>1, <3>2
  <2>. QED  BY <2>3, <2>4 DEF Within
<1>10. Typed(Q2, pend, count2, wk)
  BY <1>1, <1>4, <1>5, <1>8 DEF Typed
<1>. QED  BY <1>1, <1>2, <1>7, <1>8, <1>9, <1>10 DEF Consistent

\* Connections age and break where they lie.
LEMMA SamePlacesOK ==
  ASSUME NEW Q, NEW pend, NEW count, NEW wk, Consistent(Q, pend, count, wk),
         NEW Q2, DOMAIN Q2 = DOMAIN Q,
         \A c \in DOMAIN Q : Q2[c] \in ConnRecord /\ Q2[c].proxy = Q[c].proxy
  PROVE  Consistent(Q2, pend, count, wk)
<1>1. \A p : Idle(Q2, p) = Idle(Q, p)
  BY DEF Idle, Of
<1>2. TotalIdle(Q2) = TotalIdle(Q)
  BY DEF TotalIdle
<1>. QED  BY <1>1, <1>2 DEF Consistent, Typed, CountExact, Within

-----------------------------------------------------------------------------
Basic ==
    /\ opened \in 0..MaxConns
    /\ DOMAIN pool \subseteq 1..opened
    /\ todo \in Seq(Proxies)
    /\ worker[Refiller].pc = "opening" => todo # <<>>
    /\ targetKeys \in [Proxies -> SUBSET Targets]
    /\ conn_pool_steals \in Nat
    /\ paused \in BOOLEAN
    /\ phase \in {"running", "draining", "drained", "stopping", "stopped"}

IInv == Basic /\ Consistent(pool, pending, proxyConnCount, worker)

KeysType(keys) == keys \in [Proxies -> SUBSET Targets]

\* What a step of a worker leaves behind, Q being the pool it works on.
After(Q) ==
    /\ Consistent(pool', pending', proxyConnCount', worker')
    /\ DOMAIN pool' \subseteq DOMAIN Q
    /\ todo' \in Seq(Proxies)
    /\ worker'[Refiller].pc = "opening" => todo' # <<>>
    /\ KeysType(targetKeys')

\* From wk, in which w waits for nothing, the code of w goes on.
Resumes(w, wk) ==
    /\ w \in Workers
    /\ wk[w].pc # "opening"
    /\ worker \in [Workers -> Job]
    /\ wk \in [Workers -> Job]
    /\ \A v \in Workers \ {w} : wk[v] = worker[v]

\* Dropping an emptied bucket from the index keeps the index's shape.
LEMMA UnindexType ==
  ASSUME NEW Q, NEW keys, KeysType(keys), NEW R
  PROVE  KeysType(Unindex(keys, Q, R))
  BY DEF KeysType, Unindex

\* The end of a refill round leaves the worker and the round well formed.
LEMMA EndRoundOK ==
  ASSUME NEW unserved \in Seq(Proxies), NEW Q, NEW pend, NEW count, NEW keys, NEW wk,
         Consistent(Q, pend, count, wk), KeysType(keys), Resumes(Refiller, wk),
         EndRound(unserved, Q, pend, count, keys)
  PROVE  After(Q)
<1>1. Expired(Q) \in SUBSET DOMAIN Q
  BY DEF Expired
<1>2. /\ Consistent(pool', pend, proxyConnCount', wk)
      /\ DOMAIN pool' \subseteq DOMAIN Q
  BY <1>1, DropOK DEF EndRound
<1>3. worker' = [wk EXCEPT ![Refiller] = Off] /\ Off.pc = "off" /\ Off \in Job
  BY DEF EndRound, Resumes, Off, Job
<1>4. worker'[Refiller].pc # "opening"
  BY <1>3 DEF Resumes
<1>5. Consistent(pool', pend, proxyConnCount', worker')
  BY <1>2, <1>3, IdleWorkerOK DEF Resumes
<1>6. KeysType(targetKeys')
  BY UnindexType DEF EndRound
<1>. QED  BY <1>2, <1>4, <1>5, <1>6 DEF After, EndRound

\* Beginning a connection keeps the ledgers, from the invariant.
LEMMA CreateStep ==
  ASSUME NEW w, NEW p \in Proxies, NEW t \in Targets \cup {NoTarget}, NEW life \in Lifetimes,
         NEW Q, NEW pend, NEW count, NEW wk, Consistent(Q, pend, count, wk),
         Resumes(w, wk), BudgetLeft(Q, pend, count, p) # 0,
         Create(w, p, t, life, pend)
  PROVE  /\ Consistent(Q, pending', count, worker')
         /\ w # Refiller => worker'[Refiller] = worker[Refiller]
<1>1. worker' = [wk EXCEPT ![w] = [pc |-> "opening", proxy |-> p,
                                   target |-> t, life |-> life]]
  BY DEF Create, Resumes
<1>2. pending' = BeginCreate(pend, p, t)
  BY DEF Create
<1>3. w \in Workers /\ wk[w].pc # "opening"
  BY DEF Resumes
<1>4. w # Refiller => worker'[Refiller] = worker[Refiller]
  BY <1>1 DEF Resumes, Workers
<1>. QED  BY <1>1, <1>2, <1>3, <1>4, CreateOK

\* A refill step keeps the ledgers, the budgets and the worker's shape.
LEMMA RefillOK ==
  ASSUME NEW queue \in Seq(Proxies), NEW Q, NEW pend, NEW count, NEW keys, NEW wk,
         Consistent(Q, pend, count, wk), KeysType(keys), Resumes(Refiller, wk),
         Refill(queue, Q, pend, count, keys)
  PROVE  After(Q)
<1>1. PICK n \in 0..Len(queue) :
        \/ EndRound(<<>>, Q, pend, count, keys)
        \/ /\ n < Len(queue)
           /\ \/ EndRound(SubSeq(queue, n + 1, Len(queue)), Q, pend, count, keys)
              \/ /\ BudgetLeft(Q, pend, count, queue[n + 1]) # 0
                 /\ Create(Refiller, queue[n + 1], NoTarget,
                           conn_pool_idle_timeout, pend)
                 /\ todo' = SubSeq(queue, n + 1, Len(queue))
                 /\ pool' = Q
                 /\ proxyConnCount' = count
                 /\ targetKeys' = keys
  BY DEF Refill
<1>2. CASE EndRound(<<>>, Q, pend, count, keys)
  <2>1. <<>> \in Seq(Proxies)
    OBVIOUS
  <2>. QED  BY <1>2, <2>1, EndRoundOK
<1>3. CASE /\ n < Len(queue)
           /\ EndRound(SubSeq(queue, n + 1, Len(queue)), Q, pend, count, keys)
  <2>1. SubSeq(queue, n + 1, Len(queue)) \in Seq(Proxies)
    BY <1>3
  <2>. QED  BY <1>3, <2>1, EndRoundOK
<1>4. CASE /\ n < Len(queue)
           /\ BudgetLeft(Q, pend, count, queue[n + 1]) # 0
           /\ Create(Refiller, queue[n + 1], NoTarget, conn_pool_idle_timeout, pend)
           /\ todo' = SubSeq(queue, n + 1, Len(queue))
           /\ pool' = Q
           /\ proxyConnCount' = count
           /\ targetKeys' = keys
  <2>1. PICK p \in Proxies : p = queue[n + 1]
    BY <1>4
  <2>2. todo' \in Seq(Proxies) /\ todo' # <<>>
    BY <1>4
  <2>3. conn_pool_idle_timeout \in Lifetimes
    BY DEF Lifetimes
  <2>4. Consistent(Q, pending', count, worker')
    BY <1>4, <2>1, <2>3, CreateStep
  <2>. QED  BY <1>4, <2>2, <2>4 DEF After
<1>. QED  BY <1>1, <1>2, <1>3, <1>4

\* A fill of one bucket by a prewarmer does too.
LEMMA FillBucketOK ==
  ASSUME NEW w \in Prewarmers, NEW p \in Proxies, NEW t \in Targets \cup {NoTarget},
         NEW life \in Lifetimes,
         NEW Q, NEW pend, NEW count, NEW keys, NEW wk,
         Consistent(Q, pend, count, wk), KeysType(keys), Resumes(w, wk), Basic,
         FillBucket(w, p, t, life, Q, pend, count, keys)
  PROVE  After(Q)
<1>1. /\ pool' = Q /\ proxyConnCount' = count /\ targetKeys' = keys /\ todo' = todo
      /\ \/ BudgetLeft(Q, pend, count, p) # 0 /\ Create(w, p, t, life, pend)
         \/ worker' = [worker EXCEPT ![w] = Off] /\ pending' = pend
  <2>1. BudgetLeft(Q, pend, count, p) > 0 => BudgetLeft(Q, pend, count, p) # 0
    OBVIOUS
  <2>. QED  BY <2>1 DEF FillBucket
<1>2. w # Refiller
  BY NamesAssumption
<1>3. CASE BudgetLeft(Q, pend, count, p) # 0 /\ Create(w, p, t, life, pend)
  BY <1>1, <1>2, <1>3, CreateStep DEF After, Basic
<1>4. CASE worker' = [worker EXCEPT ![w] = Off] /\ pending' = pend
  <2>1. worker' = [wk EXCEPT ![w] = Off] /\ Off.pc = "off" /\ Off \in Job
    BY <1>4 DEF Resumes, Off, Job
  <2>2. Consistent(Q, pend, count, worker')
    BY <2>1, IdleWorkerOK DEF Resumes
  <2>3. worker'[Refiller] = worker[Refiller]
    BY <1>2, <1>4 DEF Resumes, Workers
  <2>. QED  BY <1>1, <1>4, <2>2, <2>3 DEF After, Basic
<1>. QED  BY <1>1, <1>3, <1>4

-----------------------------------------------------------------------------
\* The pools start empty, with every ledger at zero.
LEMMA IInvInit == Init => IInv
<1> SUFFICES ASSUME Init  PROVE IInv
  OBVIOUS
<1>1. DOMAIN pool = {} /\ IsFiniteSet(DOMAIN pool) /\ TotalIdle(pool) = 0
  BY FS_EmptySet DEF Init, TotalIdle
<1>2. \A w \in Workers : worker[w] = Off /\ Off.pc # "opening"
  BY DEF Init, Off
<1>3. /\ Busy(worker) = {}
      /\ \A p : BusyFor(worker, p) = {} /\ Idle(pool, p) = {}
      /\ \A p, t : BusyBucket(worker, p, t) = {}
  BY <1>1, <1>2 DEF Busy, BusyFor, BusyBucket, Idle, Of
<1>4. Typed(pool, pending, proxyConnCount, worker)
  BY <1>1 DEF Init, Typed, NothingPending, Job
<1>5. PendingExact(pending, worker) /\ CountExact(pool, proxyConnCount)
  <2>1. Cardinality({}) = 0
    BY FS_EmptySet
  <2>2. /\ pending.all = 0 /\ \A p \in Proxies : pending.key[p] = 0 /\ proxyConnCount[p] = 0
        /\ \A p \in Proxies, t \in Targets : pending.bucket[<<p, t>>] = 0
    BY DEF Init, NothingPending, Buckets
  <2>3. PendingExact(pending, worker)
    BY <1>3, <2>1, <2>2 DEF PendingExact
  <2>4. CountExact(pool, proxyConnCount)
    BY <1>3, <2>1, <2>2 DEF CountExact
  <2>. QED  BY <2>3, <2>4
<1>6. ASSUME NEW q  PROVE Within(pool, worker, q, 0)
  <2>1. Cardinality({}) = 0
    BY FS_EmptySet
  <2>2. Cardinality(Busy(worker)) = 0
        /\ \A p \in Proxies : Cardinality(Idle(pool, p)) = 0 /\ Cardinality(BusyFor(worker, p)) = 0
    BY <1>3, <2>1
  <2>. QED  BY <1>1, <2>2, SizesAssumption DEF Within
<1>7. Basic
  <2>1. Refiller \in Workers
    BY DEF Workers
  <2>2. worker[Refiller].pc # "opening"
    BY <1>2, <2>1
  <2>3. opened \in 0..MaxConns /\ todo \in Seq(Proxies) /\ DOMAIN pool \subseteq 1..opened
    BY <1>1, SizesAssumption DEF Init
  <2>. QED  BY <2>2, <2>3 DEF Init, Basic
<1>. QED  BY <1>4, <1>5, <1>6, <1>7 DEF IInv, Consistent

\* A worker's step keeps the invariant when the connections it works on are
\* those already opened and it changes nothing else.
LEMMA WorkerKeeps ==
  ASSUME IInv, NEW Q, After(Q), opened' \in 0..MaxConns, DOMAIN Q \subseteq 1..opened',
         UNCHANGED <<conn_pool_steals, paused, phase>>
  PROVE  IInv'
  BY DEF IInv, Basic, After, KeysType

\* The start of a round of _refill_loop.
LEMMA StartRoundKeeps == ASSUME IInv, StartRound  PROVE IInv'
<1>1. Refiller \in Workers /\ Off.pc # "opening" /\ worker \in [Workers -> Job]
  BY DEF Workers, Off, IInv, Consistent, Typed
<1>2. Resumes(Refiller, worker)
  BY <1>1 DEF StartRound, Resumes
<1>3. KeysType(targetKeys) /\ Consistent(pool, pending, proxyConnCount, worker)
  BY DEF IInv, Basic, KeysType
<1>4. After(pool)
  <2>1. <<>> \in Seq(Proxies) /\ ProxyList \in Seq(Proxies)
    BY NamesAssumption
  <2>2. CASE EndRound(<<>>, pool, pending, proxyConnCount, targetKeys)
    BY <1>2, <1>3, <2>1, <2>2, EndRoundOK
  <2>3. CASE Refill(ProxyList, pool, pending, proxyConnCount, targetKeys)
    BY <1>2, <1>3, <2>1, <2>3, RefillOK
  <2>. QED  BY <2>2, <2>3 DEF StartRound
<1>. QED  BY <1>4, WorkerKeeps DEF StartRound, IInv, Basic

\* A prewarm is spawned; nothing is opened yet.
LEMMA SpawnKeeps ==
  ASSUME IInv, NEW w \in Prewarmers, NEW p \in Proxies, NEW t \in Targets,
         NEW life \in Lifetimes, Spawn(w, p, t, life)
  PROVE  IInv'
<1> DEFINE j == [pc |-> "ready", proxy |-> p, target |-> t, life |-> life]
<1>1. /\ j \in Job /\ j.pc # "opening" /\ w \in Workers /\ w # Refiller
      /\ Off.pc # "opening" /\ worker \in [Workers -> Job]
  BY NamesAssumption DEF Job, Workers, Off, IInv, Consistent, Typed
<1>2. worker' = [worker EXCEPT ![w] = j] /\ worker[w].pc # "opening"
  BY <1>1 DEF Spawn
<1>3. Consistent(pool, pending, proxyConnCount, worker')
  BY <1>1, <1>2, IdleWorkerOK DEF IInv
<1>4. worker'[Refiller] = worker[Refiller]
  BY <1>1, <1>2 DEF Workers
<1>. QED  BY <1>3, <1>4 DEF Spawn, IInv, Basic

\* The prewarm looks at the budget and begins, or gives up.
LEMMA StartPrewarmKeeps ==
  ASSUME IInv, NEW w \in Prewarmers, StartPrewarm(w)
  PROVE  IInv'
<1>1. /\ w \in Workers /\ w # Refiller /\ worker \in [Workers -> Job]
      /\ worker[w].pc = "ready" /\ Basic
      /\ Consistent(pool, pending, proxyConnCount, worker) /\ KeysType(targetKeys)
  BY NamesAssumption DEF Workers, IInv, Basic, KeysType, Consistent, Typed, StartPrewarm
<1>2. Resumes(w, worker)
  BY <1>1 DEF Resumes
<1>3. After(pool)
  <2>1. CASE paused
    <3>1. worker' = [worker EXCEPT ![w] = Off] /\ Off \in Job /\ Off.pc # "opening"
      BY <2>1 DEF StartPrewarm, Off, Job
    <3>2. Consistent(pool, pending, proxyConnCount, worker')
      BY <1>1, <3>1, IdleWorkerOK
    <3>3. worker'[Refiller] = worker[Refiller]
      BY <1>1, <3>1 DEF Workers
    <3>. QED  BY <1>1, <2>1, <3>2, <3>3 DEF StartPrewarm, After, Basic, KeysType
  <2>2. CASE ~paused
    <3>1. worker[w].proxy \in Proxies /\ worker[w].target \in Targets \cup {NoTarget}
          /\ worker[w].life \in Lifetimes
      BY <1>1 DEF Job, Off
    <3>2. FillBucket(w, worker[w].proxy, worker[w].target, worker[w].life,
                     pool, pending, proxyConnCount, targetKeys)
      BY <2>2 DEF StartPrewarm
    <3>. QED  BY <1>1, <1>2, <3>1, <3>2, FillBucketOK
  <2>. QED  BY <2>1, <2>2
<1>. QED  BY <1>3, WorkerKeeps DEF StartPrewarm, IInv, Basic

\* A connection that was being opened arrives and is put in the pool or closed.
LEMMA LandKeeps ==
  ASSUME IInv, NEW w \in Workers, Land(w)
  PROVE  IInv'
<1>1. /\ worker \in [Workers -> Job] /\ worker[w].pc = "opening" /\ Basic
      /\ Consistent(pool, pending, proxyConnCount, worker) /\ KeysType(targetKeys)
      /\ opened \in Nat /\ opened < MaxConns
  BY SizesAssumption DEF IInv, Basic, KeysType, Consistent, Typed, Land, Opening
<1>2. PICK p, t, life : p = worker[w].proxy /\ t = worker[w].target /\ life = worker[w].life
  OBVIOUS
<1>3. p \in Proxies /\ t \in Targets \cup {NoTarget} /\ life \in Lifetimes
  BY <1>1, <1>2, OpeningJob
<1>4. PICK wk : wk = [worker EXCEPT ![w] = Off]
  OBVIOUS
<1>5. PICK pend : pend = EndCreate(pending, p, t)
  OBVIOUS
<1>6. Consistent(pool, pend, proxyConnCount, wk) /\ Within(pool, wk, p, 1)
  <2>1. Consistent(pool, pending, proxyConnCount, worker) /\ worker[w].pc = "opening"
    BY <1>1
  <2>2. Begins(wk, worker, w, p, t) /\ wk \in [Workers -> Job]
    BY <1>1, <1>2, <1>4 DEF Begins, Off, Job
  <2>. QED  BY <1>5, <2>1, <2>2, EndOK
<1>7. PICK made : made = [proxy |-> p, target |-> t, left |-> life, health |-> "ok"]
  OBVIOUS
<1>8. made \in ConnRecord /\ made.proxy = p
  BY <1>3, <1>7, SizesAssumption DEF ConnRecord, Lifetimes
<1>9. PICK Q : Q = [c \in DOMAIN pool \cup {opened + 1} |->
                        IF c = opened + 1 THEN made ELSE pool[c]]
  OBVIOUS
<1>10. opened + 1 \notin DOMAIN pool /\ DOMAIN Q \subseteq 1..(opened + 1)
  BY <1>1, <1>9 DEF Basic
<1>11. PICK count : count = CountPut(proxyConnCount, p)
  OBVIOUS
<1>12. Consistent(Q, pend, count, wk)
  BY <1>6, <1>8, <1>9, <1>10, <1>11, PutOK
<1>13. PICK keys : keys = Index(targetKeys, p, t)
  OBVIOUS
<1>14. KeysType(keys)
  BY <1>1, <1>3, <1>13 DEF KeysType, Index
<1>15. Resumes(w, wk)
  BY <1>1, <1>4 DEF Resumes, Off, Job
<1>16. opened' = opened + 1
  BY DEF Land
<1>17. IF w = Refiller THEN Refill(todo, Q, pend, count, keys)
       ELSE FillBucket(w, p, t, life, Q, pend, count, keys)
  BY <1>2, <1>5, <1>7, <1>9, <1>11, <1>13 DEF Land
<1>18. After(Q)
  <2>1. CASE w = Refiller
    BY <1>1, <1>12, <1>14, <1>15, <1>17, <2>1, RefillOK DEF Basic
  <2>2. CASE w # Refiller
    BY <1>1, <1>3, <1>12, <1>14, <1>15, <1>17, <2>2, FillBucketOK DEF Workers
  <2>. QED  BY <2>1, <2>2
<1>19. opened' \in 0..MaxConns /\ DOMAIN Q \subseteq 1..opened'
  BY <1>1, <1>10, <1>16, SizesAssumption
<1>. QED  BY <1>18, <1>19, WorkerKeeps DEF Land

\* A connection that was being opened fails, and its place is given back.
LEMMA ConnectFailsKeeps ==
  ASSUME IInv, NEW w \in Workers, ConnectFails(w)
  PROVE  IInv'
<1>1. /\ worker \in [Workers -> Job] /\ worker[w].pc = "opening" /\ Basic
      /\ Consistent(pool, pending, proxyConnCount, worker) /\ KeysType(targetKeys)
  BY DEF IInv, Basic, KeysType, Consistent, Typed, ConnectFails, Opening
<1>2. PICK p, t : p = worker[w].proxy /\ t = worker[w].target
  OBVIOUS
<1>3. PICK wk : wk = [worker EXCEPT ![w] = Off]
  OBVIOUS
<1>4. PICK pend : pend = EndCreate(pending, p, t)
  OBVIOUS
<1>5. Begins(wk, worker, w, p, t) /\ wk \in [Workers -> Job]
  BY <1>1, <1>2, <1>3 DEF Begins, Off, Job
<1>6. Consistent(pool, pend, proxyConnCount, wk)
  BY <1>1, <1>4, <1>5, EndOK
<1>7. After(pool)
  <2>1. CASE w = Refiller
    <3>1. Tail(todo) \in Seq(Proxies)
      BY <1>1, <2>1 DEF Basic
    <3>2. Resumes(Refiller, wk)
      BY <1>1, <1>3, <1>5, <2>1 DEF Resumes, Off
    <3>3. Refill(Tail(todo), pool, pend, proxyConnCount, targetKeys)
      BY <1>2, <1>4, <2>1 DEF ConnectFails
    <3>. QED  BY <1>1, <1>6, <3>1, <3>2, <3>3, RefillOK
  <2>2. CASE w # Refiller
    <3>1. /\ worker' = wk /\ pending' = pend
          /\ UNCHANGED <<pool, todo, proxyConnCount, targetKeys>>
      BY <1>2, <1>3, <1>4, <2>2 DEF ConnectFails
    <3>2. wk[Refiller] = worker[Refiller]
      BY <1>3, <1>1, <2>2 DEF Workers
    <3>. QED  BY <1>1, <1>6, <3>1, <3>2 DEF After, Basic, KeysType
  <2>. QED  BY <2>1, <2>2
<1>. QED  BY <1>7, WorkerKeeps DEF ConnectFails, IInv, Basic

\* A worker is cancelled in its connect, and its place is given back.
LEMMA CancelKeeps ==
  ASSUME IInv, NEW w \in Workers, Cancel(w)
  PROVE  IInv'
<1>1. /\ worker \in [Workers -> Job] /\ Basic
      /\ Consistent(pool, pending, proxyConnCount, worker) /\ KeysType(targetKeys)
  BY DEF IInv, Basic, KeysType, Consistent, Typed
<1>2. worker' = [worker EXCEPT ![w] = Off] /\ Off.pc # "opening" /\ Off \in Job
  BY DEF Cancel, Off, Job
<1>3. Consistent(pool, pending', proxyConnCount, worker')
  <2>1. CASE worker[w].pc = "opening"
    <3>1. PICK p, t : p = worker[w].proxy /\ t = worker[w].target
      OBVIOUS
    <3>2. pending' = EndCreate(pending, p, t)
      BY <2>1, <3>1 DEF Cancel, Released, Opening
    <3>3. Begins(worker', worker, w, p, t) /\ worker' \in [Workers -> Job]
      BY <1>1, <1>2, <2>1, <3>1 DEF Begins
    <3>. QED  BY <1>1, <3>2, <3>3, EndOK
  <2>2. CASE worker[w].pc # "opening"
    <3>1. pending' = pending
      BY <2>2 DEF Cancel, Released, Opening
    <3>. QED  BY <1>1, <1>2, <2>2, <3>1, IdleWorkerOK
  <2>. QED  BY <2>1, <2>2
<1>4. todo' \in Seq(Proxies) /\ (worker'[Refiller].pc = "opening" => todo' # <<>>)
  <2>1. CASE w = Refiller
    BY <1>1, <1>2, <2>1 DEF Cancel
  <2>2. CASE w # Refiller
    <3>1. worker'[Refiller] = worker[Refiller]
      BY <1>1, <1>2, <2>2 DEF Workers
    <3>. QED  BY <1>1, <2>2, <3>1 DEF Cancel, Basic
  <2>. QED  BY <2>1, <2>2
<1>5. After(pool)
  BY <1>1, <1>3, <1>4 DEF After, Cancel, KeysType
<1>. QED  BY <1>5, WorkerKeeps DEF Cancel, IInv, Basic

\* A request takes an idle connection.
LEMMA AcquireKeeps ==
  ASSUME IInv, NEW p \in Proxies, NEW t \in Targets, Acquire(p, t)
  PROVE  IInv'
<1>1. PICK gone \in SUBSET DOMAIN pool :
        /\ pool' = Drop(pool, gone)
        /\ proxyConnCount' = CountTake(proxyConnCount, pool, gone)
        /\ targetKeys' = Unindex(targetKeys, pool, gone)
  BY DEF Acquire, Popped, Stack
<1>2. Consistent(pool', pending, proxyConnCount', worker) /\ DOMAIN pool' \subseteq DOMAIN pool
  BY <1>1, DropOK DEF IInv
<1>3. KeysType(targetKeys')
  BY <1>1, UnindexType DEF IInv, Basic, KeysType
<1>4. conn_pool_steals' \in Nat
  BY DEF Acquire, IInv, Basic
<1>. QED  BY <1>2, <1>3, <1>4 DEF Acquire, IInv, Basic, KeysType

\* The steps of the environment, which neither add nor remove connections.
LEMMA EnvironmentKeeps ==
  ASSUME IInv, \/ \E c \in DOMAIN pool : PeerCloses(c)
               \/ Tick
               \/ \E b \in BOOLEAN : SetPaused(b)
  PROVE  IInv'
<1>1. Basic /\ Consistent(pool, pending, proxyConnCount, worker)
      /\ \A c \in DOMAIN pool : pool[c] \in ConnRecord
  BY DEF IInv, Consistent, Typed
<1>2. CASE \E c \in DOMAIN pool : PeerCloses(c)
  <2>1. PICK c \in DOMAIN pool, h \in {"eof", "closing"} :
            pool' = [pool EXCEPT ![c].health = h]
    BY <1>2 DEF PeerCloses
  <2>2. DOMAIN pool' = DOMAIN pool
    BY <2>1
  <2>3. ASSUME NEW d \in DOMAIN pool
        PROVE  pool'[d] \in ConnRecord /\ pool'[d].proxy = pool[d].proxy
    BY <1>1, <2>1 DEF ConnRecord
  <2>4. Consistent(pool', pending, proxyConnCount, worker)
    BY <1>1, <2>2, <2>3, SamePlacesOK
  <2>. QED  BY <1>1, <1>2, <2>2, <2>4 DEF PeerCloses, IInv, Basic
<1>3. CASE Tick
  <2>1. DOMAIN pool' = DOMAIN pool
        /\ \A c \in DOMAIN pool : pool'[c] = [pool[c] EXCEPT !.left = Less(@, 1)]
    BY <1>3 DEF Tick
  <2>2. ASSUME NEW d \in DOMAIN pool
        PROVE  pool'[d] \in ConnRecord /\ pool'[d].proxy = pool[d].proxy
    BY <1>1, <2>1 DEF ConnRecord, Less
  <2>3. Consistent(pool', pending, proxyConnCount, worker)
    BY <1>1, <2>1, <2>2, SamePlacesOK
  <2>. QED  BY <1>1, <1>3, <2>1, <2>3 DEF Tick, IInv, Basic
<1>4. CASE \E b \in BOOLEAN : SetPaused(b)
  BY <1>1, <1>4 DEF SetPaused, IInv, Basic
<1>. QED  BY <1>2, <1>3, <1>4

-----------------------------------------------------------------------------
(* _conn_pool_close_all resets the ledgers, which is right only because    *)
(* Router.stop has drained the prewarmers and awaited the refill loop.     *)

Quiet ==
    /\ phase \in {"drained", "stopping", "stopped"} =>
            \A w \in Prewarmers : worker[w] = Off
    /\ phase = "stopped" => worker[Refiller] = Off /\ DOMAIN pool = {}

OnlyMoves(w) == \A v \in Workers \ {w} : worker'[v] = worker[v]

\* A refill step moves no worker but the refiller.
LEMMA RefillMoves ==
  ASSUME worker \in [Workers -> Job], NEW queue, NEW Q, NEW pend, NEW count, NEW keys,
         \/ Refill(queue, Q, pend, count, keys)
         \/ EndRound(queue, Q, pend, count, keys)
  PROVE  OnlyMoves(Refiller)
  BY DEF Refill, EndRound, Create, OnlyMoves

\* A fill moves no worker but the one that fills.
LEMMA FillBucketMoves ==
  ASSUME worker \in [Workers -> Job], NEW w, NEW p, NEW t, NEW life,
         NEW Q, NEW pend, NEW count, NEW keys,
         FillBucket(w, p, t, life, Q, pend, count, keys)
  PROVE  OnlyMoves(w)
  BY DEF FillBucket, Create, OnlyMoves

\* A worker that is not Off is none of those Quiet speaks of.
LEMMA MoveKeepsQuiet ==
  ASSUME Quiet, NEW w \in Workers, phase' = phase, OnlyMoves(w),
         w \in Prewarmers => phase \notin {"drained", "stopping", "stopped"},
         phase # "stopped"
  PROVE  Quiet'
  BY NamesAssumption DEF Quiet, OnlyMoves, Workers

\* After stop() the workers' steps leave what is off, off.
LEMMA WorkersKeepQuiet ==
  ASSUME IInv, Quiet,
         \/ StartRound
         \/ \E w \in Prewarmers, p \in Proxies, t \in Targets, life \in Lifetimes :
                Spawn(w, p, t, life)
         \/ \E w \in Prewarmers : StartPrewarm(w)
         \/ \E w \in Workers : Land(w) \/ ConnectFails(w)
  PROVE  Quiet'
<1>1. worker \in [Workers -> Job]
  BY DEF IInv, Consistent, Typed
<1>2. CASE StartRound
  <2>1. OnlyMoves(Refiller)
    BY <1>1, <1>2, RefillMoves DEF StartRound
  <2>. QED  BY <1>2, <2>1, MoveKeepsQuiet, NamesAssumption DEF StartRound, Workers
<1>3. CASE \E w \in Prewarmers, p \in Proxies, t \in Targets, life \in Lifetimes :
                Spawn(w, p, t, life)
  <2>1. PICK w \in Prewarmers, p \in Proxies, t \in Targets, life \in Lifetimes : Spawn(w, p, t, life)
    BY <1>3
  <2>2. OnlyMoves(w) /\ phase = "running" /\ phase' = phase
    BY <1>1, <2>1 DEF Spawn, OnlyMoves
  <2>. QED  BY <2>2, MoveKeepsQuiet DEF Workers
<1>4. CASE \E w \in Prewarmers : StartPrewarm(w)
  <2>1. PICK w \in Prewarmers : StartPrewarm(w)
    BY <1>4
  <2>2. OnlyMoves(w)
    <3>1. CASE paused
      BY <1>1, <2>1, <3>1 DEF StartPrewarm, OnlyMoves
    <3>2. CASE ~paused
      BY <1>1, <2>1, <3>2, FillBucketMoves DEF StartPrewarm
    <3>. QED  BY <3>1, <3>2
  <2>3. worker[w] # Off
    BY <2>1 DEF StartPrewarm, Off
  <2>. QED  BY <2>1, <2>2, <2>3, MoveKeepsQuiet DEF StartPrewarm, Workers, Quiet
<1>5. CASE \E w \in Workers : Land(w) \/ ConnectFails(w)
  <2>1. PICK w \in Workers : Land(w) \/ ConnectFails(w)
    BY <1>5
  <2>2. worker[w] # Off /\ phase' = phase
    BY <2>1 DEF Land, ConnectFails, Opening, Off
  <2>3. OnlyMoves(w)
    <3>1. CASE Land(w)
      BY <1>1, <3>1, RefillMoves, FillBucketMoves DEF Land
    <3>2. CASE ConnectFails(w) /\ w = Refiller
      BY <1>1, <3>2, RefillMoves DEF ConnectFails
    <3>3. CASE ConnectFails(w) /\ w # Refiller
      BY <1>1, <3>3 DEF ConnectFails, OnlyMoves
    <3>. QED  BY <2>1, <3>1, <3>2, <3>3
  <2>4. phase # "stopped"
    BY <2>2 DEF Quiet, Workers
  <2>5. w \in Prewarmers => phase \notin {"drained", "stopping", "stopped"}
    BY <2>2 DEF Quiet
  <2>. QED  BY <2>2, <2>3, <2>4, <2>5, MoveKeepsQuiet
<1>. QED  BY <1>2, <1>3, <1>4, <1>5

\* So do the steps of requests, of time and of the network.
LEMMA OthersKeepQuiet ==
  ASSUME IInv, Quiet,
         \/ \E w \in Workers : Cancel(w)
         \/ \E p \in Proxies, t \in Targets : Acquire(p, t)
         \/ \E c \in DOMAIN pool : PeerCloses(c)
         \/ Tick
         \/ \E b \in BOOLEAN : SetPaused(b)
         \/ BeginStop \/ StopStep \/ Start
  PROVE  Quiet'
<1>1. worker \in [Workers -> Job] /\ Refiller \in Workers /\ Prewarmers \subseteq Workers
  BY DEF IInv, Consistent, Typed, Workers
<1>2. CASE \E w \in Workers : Cancel(w)
  <2>1. PICK w \in Workers : Cancel(w)
    BY <1>2
  <2>2. \A v \in Workers : worker'[v] = IF v = w THEN Off ELSE worker[v]
    BY <1>1, <2>1 DEF Cancel
  <2>. QED  BY <1>1, <2>1, <2>2 DEF Cancel, Quiet
<1>3. CASE \E p \in Proxies, t \in Targets : Acquire(p, t)
  BY <1>3 DEF Acquire, Quiet
<1>4. CASE \E c \in DOMAIN pool : PeerCloses(c)
  BY <1>4 DEF PeerCloses, Quiet
<1>5. CASE Tick
  BY <1>5 DEF Tick, Quiet
<1>6. CASE \E b \in BOOLEAN : SetPaused(b)
  BY <1>6 DEF SetPaused, Quiet
<1>7. CASE BeginStop \/ StopStep \/ Start
  BY <1>1, <1>7 DEF BeginStop, StopStep, Drained, StopLoop, CloseAll, Start, Advance, Quiet
<1>. QED  BY <1>2, <1>3, <1>4, <1>5, <1>6, <1>7

\* stop() itself keeps both.
LEMMA StopKeeps ==
  ASSUME IInv, Quiet, BeginStop \/ StopStep \/ Start
  PROVE  IInv'
<1>1. CASE CloseAll
  <2>1. \A w \in Workers : worker[w] = Off /\ Off.pc # "opening"
    BY <1>1 DEF CloseAll, Advance, Quiet, Workers, Off
  <2>2. DOMAIN pool' = {} /\ IsFiniteSet(DOMAIN pool') /\ TotalIdle(pool') = 0
    BY <1>1, FS_EmptySet DEF CloseAll, TotalIdle
  <2>3. /\ Busy(worker) = {}
        /\ \A p : BusyFor(worker, p) = {} /\ Idle(pool', p) = {}
        /\ \A p, t : BusyBucket(worker, p, t) = {}
    BY <2>1, <2>2 DEF Busy, BusyFor, BusyBucket, Idle, Of
  <2>4. Cardinality({}) = 0
    BY FS_EmptySet
  <2>5. /\ pending'.all = 0
        /\ \A p \in Proxies : pending'.key[p] = 0 /\ proxyConnCount'[p] = 0
        /\ \A p \in Proxies, t \in Targets : pending'.bucket[<<p, t>>] = 0
    BY <1>1 DEF CloseAll, NothingPending, Buckets
  <2>6. Typed(pool', pending', proxyConnCount', worker)
    BY <1>1, <2>2 DEF CloseAll, Typed, NothingPending, IInv, Consistent
  <2>7. PendingExact(pending', worker)
    BY <2>3, <2>4, <2>5 DEF PendingExact
  <2>8. CountExact(pool', proxyConnCount')
    BY <2>3, <2>4, <2>5 DEF CountExact
  <2>9. ASSUME NEW q  PROVE Within(pool', worker, q, 0)
    <3>1. /\ Cardinality(Busy(worker)) = 0
          /\ \A p \in Proxies :
                Cardinality(Idle(pool', p)) = 0 /\ Cardinality(BusyFor(worker, p)) = 0
      BY <2>3, <2>4
    <3>. QED  BY <2>2, <3>1, SizesAssumption DEF Within
  <2>10. Basic'
    BY <1>1, <2>2 DEF CloseAll, Advance, IInv, Basic
  <2>11. worker' = worker
    BY <1>1 DEF CloseAll, Advance
  <2>. QED  BY <2>6, <2>7, <2>8, <2>9, <2>10, <2>11 DEF IInv, Consistent
<1>2. CASE BeginStop \/ Drained \/ StopLoop \/ Start
  BY <1>2 DEF BeginStop, Drained, StopLoop, Start, Advance, IInv, Basic
<1>. QED  BY <1>1, <1>2 DEF StopStep

-----------------------------------------------------------------------------
\* Every step keeps the invariant: one case per action.
LEMMA InvariantStep == IInv /\ Quiet /\ [Next]_vars => IInv' /\ Quiet'
<1> SUFFICES ASSUME IInv, Quiet, [Next]_vars  PROVE IInv' /\ Quiet'
  OBVIOUS
<1>1. CASE UNCHANGED vars
  BY <1>1 DEF vars, IInv, Basic, Quiet
<1>2. CASE Next
  <2>1. CASE \/ StartRound
             \/ \E w \in Prewarmers, p \in Proxies, t \in Targets, life \in Lifetimes :
                    Spawn(w, p, t, life)
             \/ \E w \in Prewarmers : StartPrewarm(w)
             \/ \E w \in Workers : Land(w) \/ ConnectFails(w)
    BY <2>1, StartRoundKeeps, SpawnKeeps, StartPrewarmKeeps, LandKeeps,
       ConnectFailsKeeps, WorkersKeepQuiet
  <2>2. CASE \/ \E w \in Workers : Cancel(w)
             \/ \E p \in Proxies, t \in Targets : Acquire(p, t)
             \/ \E c \in DOMAIN pool : PeerCloses(c)
             \/ Tick
             \/ \E b \in BOOLEAN : SetPaused(b)
             \/ BeginStop \/ StopStep \/ Start
    <3>1. Quiet'
      BY <2>2, OthersKeepQuiet
    <3>2. IInv'
      BY <2>2, CancelKeeps, AcquireKeeps, EnvironmentKeeps, StopKeeps
    <3>. QED  BY <3>1, <3>2
  <2>. QED  BY <1>2, <2>1, <2>2 DEF Next, WorkerStep
<1>. QED  BY <1>1, <1>2

\* The invariant holds throughout.
THEOREM Invariant == Spec => [](IInv /\ Quiet)
<1>1. Init => IInv /\ Quiet
  BY IInvInit DEF Init, Quiet
<1>. QED  BY <1>1, InvariantStep, PTL DEF Spec

\* Every variable of the pools keeps its shape.
THEOREM TypeCorrect == Spec => []TypeOK
<1>1. IInv => TypeOK
  BY DEF IInv, Basic, Consistent, Typed, TypeOK
<1>. QED  BY <1>1, Invariant, PTL

\* The counters of _begin_create, _end_create, _count_put and _count_take
\* agree at all times with what is idle and what is being opened.
THEOREM LedgersExact == Spec => []LedgersMatch
<1>1. IInv => LedgersMatch
  BY DEF IInv, Consistent, PendingExact, CountExact, LedgersMatch, Busy, BusyFor,
         BusyBucket, Idle, Opening, OpeningFor, OpeningBucket
<1>. QED  BY <1>1, Invariant, PTL

\* Idle connections and connections being opened stay within
\* conn_pool_total, for any number of concurrent prewarmers.
THEOREM GlobalBudget == Spec => []BudgetRespected
<1>1. IInv => BudgetRespected
  <2> SUFFICES ASSUME IInv  PROVE BudgetRespected
    OBVIOUS
  <2>1. TotalIdle(pool) + Cardinality(Busy(worker)) + 0 <= conn_pool_total
    BY DEF IInv, Consistent, Within
  <2>2. TotalIdle(pool) \in Nat /\ Cardinality(Busy(worker)) \in Nat
    BY IdleFinite, BusyFinite DEF IInv, Consistent, Typed
  <2>. QED  BY <2>1, <2>2 DEF BudgetRespected, Busy, Opening
<1>. QED  BY <1>1, Invariant, PTL

\* No proxy holds more than conn_pool_per_proxy of them.
THEOREM ProxyBudget == Spec => []PerProxyRespected
<1>1. IInv => PerProxyRespected
  <2> SUFFICES ASSUME IInv, NEW p \in Proxies
               PROVE  Cardinality(Idle(pool, p)) + Cardinality(BusyFor(worker, p))
                        <= conn_pool_per_proxy
    BY DEF PerProxyRespected, Idle, BusyFor, OpeningFor, Busy, Opening
  <2>1. Cardinality(Idle(pool, p)) + Cardinality(BusyFor(worker, p)) + 0 <= conn_pool_per_proxy
    BY DEF IInv, Consistent, Within
  <2>2. Cardinality(Idle(pool, p)) \in Nat /\ Cardinality(BusyFor(worker, p)) \in Nat
    BY IdleFinite, BusyFinite DEF IInv, Consistent, Typed
  <2>. QED  BY <2>1, <2>2
<1>. QED  BY <1>1, Invariant, PTL

\* After Router.stop nothing is left in the pools and nobody can add to them.
THEOREM StopIsClean == Spec => []StoppedClean
<1>1. Quiet => StoppedClean
  BY DEF Quiet, StoppedClean, Workers
<1>. QED  BY <1>1, Invariant, PTL

-----------------------------------------------------------------------------
(* The stacks of the targets.                                               *)

Indexed(Q, keys) ==
    /\ KeysType(keys)
    /\ \A p \in Proxies : keys[p] = {t \in Targets : Stack(Q, p, t) # {}}
Capped(Q, wk) ==
    \A p \in Proxies, t \in Targets :
        Cardinality(Stack(Q, p, t)) + Cardinality(BusyBucket(wk, p, t)) <= cap
Kept(Q, keys, wk) == Indexed(Q, keys) /\ Capped(Q, wk)

\* A stack is finite, since the pool is.
LEMMA StackFinite ==
  ASSUME NEW Q, IsFiniteSet(DOMAIN Q), NEW p, NEW t
  PROVE  IsFiniteSet(Stack(Q, p, t)) /\ Cardinality(Stack(Q, p, t)) \in Nat
<1>1. Stack(Q, p, t) \in SUBSET DOMAIN Q
  BY DEF Stack
<1> QED BY <1>1, FS_Subset, FS_CardinalityType

\* Smaller stacks and fewer attempts keep the cap.
LEMMA FewerCapped ==
  ASSUME NEW Q, NEW wk, IsFiniteSet(DOMAIN Q), Capped(Q, wk), NEW Q2, NEW wk2,
         \A p \in Proxies, t \in Targets :
            /\ Stack(Q2, p, t) \subseteq Stack(Q, p, t)
            /\ BusyBucket(wk2, p, t) \subseteq BusyBucket(wk, p, t)
  PROVE  Capped(Q2, wk2)
<1> SUFFICES ASSUME NEW p \in Proxies, NEW t \in Targets
             PROVE  Cardinality(Stack(Q2, p, t)) + Cardinality(BusyBucket(wk2, p, t)) <= cap
  BY DEF Capped
<1> DEFINE S == Stack(Q, p, t)
           S2 == Stack(Q2, p, t)
           B == BusyBucket(wk, p, t)
           B2 == BusyBucket(wk2, p, t)
<1>1. IsFiniteSet(S) /\ IsFiniteSet(B) /\ S2 \in SUBSET S /\ B2 \in SUBSET B
  BY StackFinite, BusyFinite
<1>2. Cardinality(S) + Cardinality(B) <= cap
  BY DEF Capped
<1> HIDE DEF S, S2, B, B2
<1>3. /\ Cardinality(S2) <= Cardinality(S) /\ Cardinality(B2) <= Cardinality(B)
      /\ IsFiniteSet(S2) /\ IsFiniteSet(B2)
  BY <1>1, FS_Subset
<1>4. {Cardinality(S), Cardinality(S2), Cardinality(B), Cardinality(B2)} \subseteq Nat
  BY <1>1, <1>3, FS_CardinalityType
<1>5. Cardinality(S2) + Cardinality(B2) <= cap
  BY <1>2, <1>3, <1>4, SizesAssumption
<1> QED BY <1>5 DEF S2, B2

\* Whatever connections leave, the index follows.
LEMMA DropKept ==
  ASSUME NEW Q, NEW keys, NEW wk, IsFiniteSet(DOMAIN Q), Kept(Q, keys, wk), NEW R, NEW wk2,
         \A p \in Proxies, t \in Targets : BusyBucket(wk2, p, t) \subseteq BusyBucket(wk, p, t)
  PROVE  Kept(Drop(Q, R), Unindex(keys, Q, R), wk2)
<1>1. \A p, t : Stack(Drop(Q, R), p, t) = Stack(Q, p, t) \ R
  BY DEF Stack, Drop
<1>2. Capped(Drop(Q, R), wk2)
  BY <1>1, FewerCapped DEF Kept
<1>3. KeysType(Unindex(keys, Q, R))
  BY UnindexType DEF Kept, Indexed
<1>4. ASSUME NEW p \in Proxies
      PROVE  Unindex(keys, Q, R)[p] = {t \in Targets : Stack(Drop(Q, R), p, t) # {}}
  <2>1. keys[p] = {t \in Targets : Stack(Q, p, t) # {}}
    BY DEF Kept, Indexed
  <2>2. Unindex(keys, Q, R)[p] =
          keys[p] \ {t \in Targets : Stack(Q, p, t) # {} /\ Stack(Q, p, t) \subseteq R}
    BY DEF Unindex
  <2> QED BY <1>1, <2>1, <2>2
<1> QED BY <1>2, <1>3, <1>4 DEF Kept, Indexed

\* Worker w goes on, and not to open a connection for a target.
LEMMA BusyFewer ==
  ASSUME NEW w, NEW wk, Resumes(w, wk), NEW j, worker' = [worker EXCEPT ![w] = j],
         j.pc = "opening" => j.target \notin Targets,
         NEW p \in Proxies, NEW t \in Targets
  PROVE  BusyBucket(worker', p, t) \subseteq BusyBucket(wk, p, t)
<1>1. worker'[w] = j /\ \A v \in Workers \ {w} : worker'[v] = wk[v]
  BY DEF Resumes
<1> QED BY <1>1 DEF BusyBucket, BusyFor, Busy

LEMMA EndRoundKept ==
  ASSUME NEW unserved, NEW Q, NEW pend, NEW count, NEW keys, NEW wk,
         IsFiniteSet(DOMAIN Q), Kept(Q, keys, wk), Resumes(Refiller, wk),
         EndRound(unserved, Q, pend, count, keys)
  PROVE  Kept(pool', targetKeys', worker')
<1>1. Off.pc # "opening"
  BY DEF Off
<1>2. \A p \in Proxies, t \in Targets : BusyBucket(worker', p, t) \subseteq BusyBucket(wk, p, t)
  BY <1>1, BusyFewer DEF EndRound
<1> QED BY <1>2, DropKept DEF EndRound

\* The refill loop opens connections for no target.
LEMMA RefillKept ==
  ASSUME NEW queue, NEW Q, NEW pend, NEW count, NEW keys, NEW wk,
         IsFiniteSet(DOMAIN Q), Kept(Q, keys, wk), Resumes(Refiller, wk),
         Refill(queue, Q, pend, count, keys)
  PROVE  Kept(pool', targetKeys', worker')
<1>1. \/ \E unserved : EndRound(unserved, Q, pend, count, keys)
      \/ \E p : /\ Create(Refiller, p, NoTarget, conn_pool_idle_timeout, pend)
                /\ pool' = Q /\ targetKeys' = keys
  BY DEF Refill
<1>2. CASE \E unserved : EndRound(unserved, Q, pend, count, keys)
  BY <1>2, EndRoundKept
<1>3. ASSUME NEW p, Create(Refiller, p, NoTarget, conn_pool_idle_timeout, pend),
             pool' = Q, targetKeys' = keys
      PROVE  Kept(pool', targetKeys', worker')
  <2> DEFINE j == [pc |-> "opening", proxy |-> p, target |-> NoTarget,
                   life |-> conn_pool_idle_timeout]
  <2>1. worker' = [worker EXCEPT ![Refiller] = j] /\ j.target \notin Targets
    BY <1>3, NamesAssumption DEF Create
  <2> HIDE DEF j
  <2>2. \A q \in Proxies, t \in Targets : BusyBucket(worker', q, t) \subseteq BusyBucket(wk, q, t)
    BY <2>1, BusyFewer
  <2>3. Capped(Q, worker')
    BY <2>2, FewerCapped DEF Kept
  <2> QED BY <1>3, <2>3 DEF Kept
<1> QED BY <1>1, <1>2, <1>3

\* A prewarmer counts what is under way before it opens one more.
LEMMA FillBucketKept ==
  ASSUME NEW w \in Prewarmers, NEW p \in Proxies, NEW t, NEW life,
         NEW Q, NEW pend, NEW count, NEW keys, NEW wk,
         Consistent(Q, pend, count, wk), Kept(Q, keys, wk), Resumes(w, wk),
         FillBucket(w, p, t, life, Q, pend, count, keys)
  PROVE  Kept(pool', targetKeys', worker')
<1>1. /\ pool' = Q /\ targetKeys' = keys /\ IsFiniteSet(DOMAIN Q) /\ PendingExact(pend, wk)
      /\ w \in Workers
  BY DEF FillBucket, Consistent, Typed, Workers
<1>2. CASE BucketShort(Q, pend, p, t) /\ Create(w, p, t, life, pend)
  <2>1. Begins(wk, worker', w, p, t)
    <3>1. worker' = [worker EXCEPT ![w] = [pc |-> "opening", proxy |-> p, target |-> t, life |-> life]]
      BY <1>2 DEF Create
    <3> QED BY <3>1 DEF Begins, Resumes
  <2>2. Grows(wk, worker', p, t)
    BY <1>1, <2>1, BusyBegins
  <2>3. ASSUME NEW q \in Proxies, NEW u \in Targets
        PROVE  Cardinality(Stack(Q, q, u)) + Cardinality(BusyBucket(worker', q, u)) <= cap
    <3>1. Cardinality(Stack(Q, q, u)) \in Nat /\ Cardinality(BusyBucket(wk, q, u)) \in Nat
      BY <1>1, StackFinite, BusyFinite
    <3>2. CASE q = p /\ u = t
      <4>1. Cardinality(BusyBucket(worker', q, u)) = Cardinality(BusyBucket(wk, q, u)) + 1
        BY <2>2, <3>2 DEF Grows
      <4>2. Cardinality(Stack(Q, q, u)) + Cardinality(BusyBucket(wk, q, u)) < cap
        BY <1>1, <1>2, <3>2 DEF BucketShort, PendingExact
      <4> QED BY <3>1, <4>1, <4>2, SizesAssumption
    <3>3. CASE ~(q = p /\ u = t)
      <4>1. Cardinality(BusyBucket(worker', q, u)) = Cardinality(BusyBucket(wk, q, u))
        BY <2>2, <3>3 DEF Grows
      <4> QED BY <4>1 DEF Kept, Capped
    <3> QED BY <3>2, <3>3
  <2> QED BY <1>1, <2>3 DEF Kept, Capped
<1>3. CASE worker' = [worker EXCEPT ![w] = Off]
  <2>1. Off.pc # "opening"
    BY DEF Off
  <2>2. \A q \in Proxies, u \in Targets : BusyBucket(worker', q, u) \subseteq BusyBucket(wk, q, u)
    BY <1>3, <2>1, BusyFewer
  <2> QED BY <1>1, <2>2, FewerCapped DEF Kept
<1> QED BY <1>2, <1>3 DEF FillBucket

\* A connection that lands takes the place its attempt had in the stack.
LEMMA LandedKept ==
  ASSUME NEW Q, NEW keys, NEW wk, IsFiniteSet(DOMAIN Q), Kept(Q, keys, wk),
         NEW w \in Workers, NEW p \in Proxies, NEW t \in Targets \cup {NoTarget},
         NEW wk2, Begins(wk2, wk, w, p, t),
         NEW n, n \notin DOMAIN Q, NEW made, made.proxy = p, made.target = t,
         NEW Q2, Q2 = [c \in DOMAIN Q \cup {n} |-> IF c = n THEN made ELSE Q[c]]
  PROVE  Kept(Q2, Index(keys, p, t), wk2)
<1>1. \A q, u : Stack(Q2, q, u) = IF q = p /\ u = t THEN Stack(Q, q, u) \cup {n}
                                  ELSE Stack(Q, q, u)
  BY DEF Stack
<1>2. Grows(wk2, wk, p, t)
  BY BusyBegins
<1>3. ASSUME NEW q \in Proxies, NEW u \in Targets
      PROVE  Cardinality(Stack(Q2, q, u)) + Cardinality(BusyBucket(wk2, q, u)) <= cap
  <2>1. /\ Cardinality(Stack(Q, q, u)) \in Nat /\ Cardinality(BusyBucket(wk2, q, u)) \in Nat
        /\ IsFiniteSet(Stack(Q, q, u)) /\ n \notin Stack(Q, q, u)
    BY StackFinite, BusyFinite DEF Stack
  <2>2. Cardinality(Stack(Q, q, u)) + Cardinality(BusyBucket(wk, q, u)) <= cap
    BY DEF Kept, Capped
  <2>3. CASE q = p /\ u = t
    <3>1. Cardinality(BusyBucket(wk, q, u)) = Cardinality(BusyBucket(wk2, q, u)) + 1
      BY <1>2, <2>3 DEF Grows
    <3>2. Cardinality(Stack(Q, q, u) \cup {n}) = Cardinality(Stack(Q, q, u)) + 1
      BY <2>1, FS_AddElement
    <3>3. Stack(Q2, q, u) = Stack(Q, q, u) \cup {n}
      BY <1>1, <2>3
    <3> QED BY <2>1, <2>2, <3>1, <3>2, <3>3, SizesAssumption
  <2>4. CASE ~(q = p /\ u = t)
    <3>1. Cardinality(BusyBucket(wk, q, u)) = Cardinality(BusyBucket(wk2, q, u))
      BY <1>2, <2>4 DEF Grows
    <3>2. Stack(Q2, q, u) = Stack(Q, q, u)
      BY <1>1, <2>4
    <3> QED BY <2>2, <3>1, <3>2
  <2> QED BY <2>3, <2>4
<1>4. KeysType(Index(keys, p, t))
  BY DEF Kept, Indexed, KeysType, Index
<1>5. ASSUME NEW q \in Proxies
      PROVE  Index(keys, p, t)[q] = {u \in Targets : Stack(Q2, q, u) # {}}
  <2>1. keys \in [Proxies -> SUBSET Targets] /\ keys[q] = {u \in Targets : Stack(Q, q, u) # {}}
    BY DEF Kept, Indexed, KeysType
  <2>2. CASE t = NoTarget
    <3>1. \A u \in Targets : Stack(Q2, q, u) = Stack(Q, q, u)
      BY <1>1, <2>2, NamesAssumption
    <3>2. Index(keys, p, t) = keys
      BY <2>2 DEF Index
    <3> QED BY <2>1, <3>1, <3>2
  <2>3. CASE t # NoTarget
    <3>1. Index(keys, p, t)[q] = IF q = p THEN keys[q] \cup {t} ELSE keys[q]
      BY <2>1, <2>3 DEF Index
    <3>2. \A u \in Targets : Stack(Q2, q, u) # {} <=> Stack(Q, q, u) # {} \/ (q = p /\ u = t)
      BY <1>1
    <3>3. t \in Targets
      BY <2>3
    <3> QED BY <2>1, <3>1, <3>2, <3>3
  <2> QED BY <2>2, <2>3
<1> QED BY <1>3, <1>4, <1>5 DEF Kept, Indexed, Capped

Stacked == Kept(pool, targetKeys, worker)

\* Connections come, and workers begin or go on.
LEMMA WorkersKeepStacks ==
  ASSUME IInv, Stacked,
         \/ StartRound
         \/ \E w \in Prewarmers : StartPrewarm(w)
         \/ \E w \in Workers : Land(w) \/ ConnectFails(w)
  PROVE  Stacked'
<1>1. /\ Consistent(pool, pending, proxyConnCount, worker) /\ IsFiniteSet(DOMAIN pool)
      /\ worker \in [Workers -> Job] /\ Off \in Job /\ Off.pc # "opening"
      /\ Kept(pool, targetKeys, worker) /\ Basic /\ Refiller \in Workers
  BY DEF IInv, Consistent, Typed, Off, Job, Stacked, Workers
<1>2. CASE StartRound
  <2>1. Resumes(Refiller, worker)
    BY <1>1, <1>2 DEF StartRound, Resumes
  <2> QED BY <1>1, <1>2, <2>1, EndRoundKept, RefillKept DEF StartRound, Stacked
<1>3. ASSUME NEW w \in Prewarmers, StartPrewarm(w)  PROVE Stacked'
  <2>1. Resumes(w, worker) /\ worker[w].proxy \in Proxies
    BY <1>1, <1>3 DEF StartPrewarm, Resumes, Workers, Job, Off
  <2>2. CASE paused
    <3>1. worker' = [worker EXCEPT ![w] = Off] /\ UNCHANGED <<pool, targetKeys>>
      BY <1>3, <2>2 DEF StartPrewarm
    <3>2. \A p \in Proxies, t \in Targets : BusyBucket(worker', p, t) \subseteq BusyBucket(worker, p, t)
      BY <1>1, <2>1, <3>1, BusyFewer
    <3> QED BY <1>1, <3>1, <3>2, FewerCapped DEF Kept, Stacked
  <2>3. CASE ~paused
    BY <1>1, <1>3, <2>1, <2>3, FillBucketKept DEF StartPrewarm, Stacked
  <2> QED BY <2>2, <2>3
<1>4. ASSUME NEW w \in Workers, Land(w) \/ ConnectFails(w)  PROVE Stacked'
  <2>1. worker[w].pc = "opening"
    BY <1>4 DEF Land, ConnectFails, Opening
  <2>2. PICK p \in Proxies, t \in Targets \cup {NoTarget}, life \in Lifetimes :
           p = worker[w].proxy /\ t = worker[w].target /\ life = worker[w].life
    BY <1>1, <2>1, OpeningJob
  <2>3. PICK wk, pend : wk = [worker EXCEPT ![w] = Off] /\ pend = EndCreate(pending, p, t)
    OBVIOUS
  <2>4. Begins(wk, worker, w, p, t) /\ wk \in [Workers -> Job] /\ Resumes(w, wk)
    BY <1>1, <2>1, <2>2, <2>3 DEF Begins, Resumes
  <2>5. Consistent(pool, pend, proxyConnCount, wk) /\ Within(pool, wk, p, 1)
    BY <1>1, <2>3, <2>4, EndOK
  <2>6. CASE Land(w)
    <3>1. PICK made, count, keys :
             /\ made = [proxy |-> p, target |-> t, left |-> life, health |-> "ok"]
             /\ count = CountPut(proxyConnCount, p)
             /\ keys = Index(targetKeys, p, t)
      OBVIOUS
    <3>2. PICK Q : Q = [c \in DOMAIN pool \cup {opened + 1} |->
                            IF c = opened + 1 THEN made ELSE pool[c]]
      OBVIOUS
    <3>3. opened + 1 \notin DOMAIN pool
      BY <1>1, SizesAssumption DEF Basic
    <3>4. made \in ConnRecord /\ made.proxy = p /\ made.target = t
      BY <2>2, <3>1, SizesAssumption DEF ConnRecord, Lifetimes
    <3>5. Consistent(Q, pend, count, wk) /\ IsFiniteSet(DOMAIN Q)
      <4>1. Consistent(Q, pend, count, wk)
        BY <2>5, <3>1, <3>2, <3>3, <3>4, PutOK
      <4> QED BY <4>1 DEF Consistent, Typed
    <3>6. Kept(Q, keys, wk)
      <4>1. PICK n : n = opened + 1
        OBVIOUS
      <4>2. n \notin DOMAIN pool /\ Q = [c \in DOMAIN pool \cup {n} |-> IF c = n THEN made ELSE pool[c]]
        BY <3>2, <3>3, <4>1
      <4>3. Kept(pool, targetKeys, worker) /\ IsFiniteSet(DOMAIN pool) /\ Begins(wk, worker, w, p, t)
        BY <1>1, <2>4
      <4>4. Kept(Q, Index(targetKeys, p, t), wk)
        BY <3>4, <4>2, <4>3, LandedKept
      <4> QED BY <3>1, <4>4
    <3>7. IF w = Refiller THEN Refill(todo, Q, pend, count, keys)
          ELSE FillBucket(w, p, t, life, Q, pend, count, keys)
      BY <2>2, <2>3, <2>6, <3>1, <3>2 DEF Land
    <3>8. CASE w = Refiller
      BY <2>4, <3>5, <3>6, <3>7, <3>8, RefillKept DEF Stacked
    <3>9. CASE w # Refiller
      BY <2>4, <3>5, <3>6, <3>7, <3>9, FillBucketKept DEF Workers, Stacked
    <3> QED BY <3>8, <3>9
  <2>7. CASE ConnectFails(w)
    <3>1. \A q \in Proxies, u \in Targets : BusyBucket(wk, q, u) \subseteq BusyBucket(worker, q, u)
      BY <2>4 DEF Begins, BusyBucket, BusyFor, Busy
    <3>2. Kept(pool, targetKeys, wk)
      BY <1>1, <3>1, FewerCapped DEF Kept
    <3>3. CASE w = Refiller
      <4>1. Refill(Tail(todo), pool, pend, proxyConnCount, targetKeys)
        BY <2>2, <2>3, <2>7, <3>3 DEF ConnectFails
      <4> QED BY <1>1, <2>4, <3>2, <3>3, <4>1, RefillKept DEF Stacked
    <3>4. CASE w # Refiller
      BY <2>3, <2>7, <3>2, <3>4 DEF ConnectFails, Stacked
    <3> QED BY <3>3, <3>4
  <2> QED BY <1>4, <2>6, <2>7
<1> QED BY <1>2, <1>3, <1>4

\* Nothing comes.
LEMMA OthersKeepStacks ==
  ASSUME IInv, Stacked,
         \/ UNCHANGED vars
         \/ \E w \in Prewarmers, p \in Proxies, t \in Targets, life \in Lifetimes :
                Spawn(w, p, t, life)
         \/ \E w \in Workers : Cancel(w)
         \/ \E p \in Proxies, t \in Targets : Acquire(p, t)
         \/ \E c \in DOMAIN pool : PeerCloses(c)
         \/ Tick
         \/ \E b \in BOOLEAN : SetPaused(b)
         \/ BeginStop \/ StopStep \/ Start
  PROVE  Stacked'
<1>1. /\ IsFiniteSet(DOMAIN pool) /\ worker \in [Workers -> Job]
      /\ \A c \in DOMAIN pool : pool[c] \in ConnRecord
      /\ Kept(pool, targetKeys, worker)
  BY DEF IInv, Consistent, Typed, Stacked
<1>2. CASE UNCHANGED <<pool, targetKeys, worker>>
  BY <1>1, <1>2 DEF Stacked
<1>3. ASSUME UNCHANGED <<pool, targetKeys>>, NEW w \in Workers, NEW j, j.pc # "opening",
             worker' = [worker EXCEPT ![w] = j]
      PROVE  Stacked'
  <2>1. \A p \in Proxies, t \in Targets : BusyBucket(worker', p, t) \subseteq BusyBucket(worker, p, t)
    BY <1>1, <1>3 DEF BusyBucket, BusyFor, Busy
  <2> QED BY <1>1, <1>3, <2>1, FewerCapped DEF Kept, Stacked
<1>4. CASE \E w \in Prewarmers, p \in Proxies, t \in Targets, life \in Lifetimes :
             Spawn(w, p, t, life)
  <2>1. PICK w \in Workers : \E j : /\ worker' = [worker EXCEPT ![w] = j] /\ j.pc = "ready"
                                    /\ UNCHANGED <<pool, targetKeys>>
    BY <1>4 DEF Spawn, Workers
  <2> QED BY <1>3, <2>1
<1>5. CASE \E w \in Workers : Cancel(w)
  <2>1. Off.pc # "opening"
    BY DEF Off
  <2> QED BY <1>3, <1>5, <2>1 DEF Cancel
<1>6. CASE \E p \in Proxies, t \in Targets : Acquire(p, t)
  <2>1. PICK gone : /\ pool' = Drop(pool, gone) /\ worker' = worker
                    /\ targetKeys' = Unindex(targetKeys, pool, gone)
    BY <1>6 DEF Acquire
  <2> QED BY <1>1, <2>1, DropKept DEF Stacked
<1>7. CASE (\E c \in DOMAIN pool : PeerCloses(c)) \/ Tick
  <2>1. /\ DOMAIN pool' = DOMAIN pool /\ UNCHANGED <<targetKeys, worker>>
        /\ \A c \in DOMAIN pool : pool'[c].proxy = pool[c].proxy /\ pool'[c].target = pool[c].target
    BY <1>1, <1>7 DEF PeerCloses, Tick, ConnRecord
  <2>2. \A p, t : Stack(pool', p, t) = Stack(pool, p, t)
    BY <2>1 DEF Stack
  <2> QED BY <1>1, <2>1, <2>2 DEF Stacked, Kept, Indexed, Capped
<1>8. CASE CloseAll
  <2>1. /\ DOMAIN pool' = {} /\ worker' = worker
        /\ targetKeys' = [p \in Proxies |-> {}]
    BY <1>8 DEF CloseAll, Advance
  <2>2. \A p, t : Stack(pool', p, t) = {}
    BY <2>1 DEF Stack
  <2>3. Capped(pool', worker')
    BY <1>1, <2>1, <2>2, FewerCapped DEF Kept
  <2> QED BY <2>1, <2>2, <2>3 DEF Stacked, Kept, Indexed, KeysType
<1>9. CASE (\E b \in BOOLEAN : SetPaused(b)) \/ UNCHANGED vars \/ BeginStop \/ Drained
           \/ StopLoop \/ Start
  BY <1>2, <1>9 DEF SetPaused, vars, BeginStop, Drained, StopLoop, Start, Advance
<1> QED BY <1>4, <1>5, <1>6, <1>7, <1>8, <1>9 DEF StopStep

\* No stack of a target outgrows its cap or leaves the index.
THEOREM StacksStayKept == Spec => []StacksKept
<1>1. Init => Stacked
  <2> SUFFICES ASSUME Init PROVE Stacked
    OBVIOUS
  <2>1. \A p, t : Stack(pool, p, t) = {} /\ BusyBucket(worker, p, t) = {}
    BY DEF Init, Stack, BusyBucket, BusyFor, Busy, Off
  <2>2. Cardinality({}) = 0
    BY FS_EmptySet
  <2>3. Capped(pool, worker)
    BY <2>1, <2>2, SizesAssumption DEF Capped
  <2> QED BY <2>1, <2>3 DEF Init, Stacked, Kept, Indexed, KeysType
<1>2. IInv /\ Stacked /\ [Next]_vars => Stacked'
  BY WorkersKeepStacks, OthersKeepStacks DEF Next, WorkerStep
<1>3. Stacked => StacksKept
  BY DEF Stacked, Kept, Indexed, Capped, StacksKept, BucketsCapped, IndexMatches,
         BusyBucket, BusyFor, Busy, OpeningBucket, OpeningFor, Opening
<1> QED BY <1>1, <1>2, <1>3, Invariant, PTL DEF Spec

-----------------------------------------------------------------------------
(* The floor of a donor                                                    *)

\* Only an acquisition counts a steal.
LEMMA StealsAreAcquired ==
  ASSUME [Next]_vars, conn_pool_steals' # conn_pool_steals
  PROVE  \E p \in Proxies, t \in Targets : Acquire(p, t)
  BY DEF Next, vars, StartRound, Spawn, StartPrewarm, WorkerStep, Land, ConnectFails, Cancel,
         PeerCloses, Tick, SetPaused, BeginStop, StopStep, Drained, StopLoop, CloseAll, Start,
         Advance

\* A donor whose connections are all alive gives the uppermost of two or more.
LEMMA DonorKeepsOne ==
  ASSUME IInv, NEW p \in Proxies, NEW t \in Targets, Acquire(p, t),
         conn_pool_steals' # conn_pool_steals,
         NEW c \in Healthy(DOMAIN pool \ DOMAIN pool'),
         Healthy(Stack(pool, pool[c].proxy, pool[c].target)) = Stack(pool, pool[c].proxy, pool[c].target)
  PROVE  Stack(pool', pool[c].proxy, pool[c].target) # {}
<1> DEFINE own == Stack(pool, p, t)
           generic == Stack(pool, p, NoTarget)
           others == {d \in Tried(p) : d # t}
           stolen == UNION {Popped(Stack(pool, p, d)) : d \in others}
           gone == own \cup generic \cup stolen
<1>1. /\ DOMAIN pool \subseteq Nat /\ IsFiniteSet(DOMAIN pool)
      /\ targetKeys[p] \subseteq Targets /\ NoTarget \notin Targets
  BY NamesAssumption DEF IInv, Basic, Consistent, Typed
<1>2. Healthy(own) = {} /\ Healthy(generic) = {} /\ pool' = Drop(pool, gone)
  BY DEF Acquire
<1>3. DOMAIN pool' = DOMAIN pool \ gone /\ \A e \in DOMAIN pool' : pool'[e] = pool[e]
  BY <1>2 DEF Drop
<1>4. PICK d \in others : c \in Popped(Stack(pool, p, d))
  BY <1>2, <1>3 DEF Healthy
<1> DEFINE donor == Stack(pool, p, d)
<1>5. /\ d \in Targets /\ d # t /\ d # NoTarget /\ Cardinality(donor) >= 2
      /\ c \in donor /\ pool[c].proxy = p /\ pool[c].target = d
  BY <1>1, <1>4 DEF Tried, Donors, Popped, Stack
<1>6. Healthy(donor) = donor
  BY <1>5
<1>7. PICK e \in donor : e # c
  <2> SUFFICES ASSUME donor \subseteq {c}  PROVE FALSE
    OBVIOUS
  <2>1. IsFiniteSet({c}) /\ Cardinality({c}) = 1
    BY FS_Singleton
  <2>2. Cardinality(donor) <= 1 /\ Cardinality(donor) \in Nat
    BY <2>1, FS_Subset, FS_CardinalityType
  <2> QED BY <1>5, <2>2
<1>8. e \notin Popped(donor)
  <2>1. c \in Nat /\ e \in Nat
    BY <1>1, <1>5 DEF Stack
  <2>2. e <= c
    BY <1>4, <1>6 DEF Popped
  <2> QED BY <1>5, <1>6, <1>7, <2>1, <2>2 DEF Popped
<1>9. \A f \in Tried(p) : f # d => e \notin Popped(Stack(pool, p, f))
  BY <1>7 DEF Popped, Stack
<1>10. e \notin gone
  <2>1. e \notin own /\ e \notin generic
    BY <1>5, <1>7 DEF Stack
  <2>2. e \notin stolen
    BY <1>8, <1>9
  <2> QED BY <2>1, <2>2
<1>11. e \in Stack(pool', p, d)
  BY <1>3, <1>7, <1>10 DEF Stack
<1> QED BY <1>5, <1>11

\* A steal from a stack of live connections leaves its target at least one,
\* whatever the pools hold.
THEOREM StealsLeaveOne == Spec => FreshStealLeavesOne
<1>1. IInv /\ [Next]_vars =>
        [conn_pool_steals' # conn_pool_steals =>
         \A c \in Healthy(DOMAIN pool \ DOMAIN pool') :
             LET donor == Stack(pool, pool[c].proxy, pool[c].target)
             IN  Healthy(donor) = donor
                     => Stack(pool', pool[c].proxy, pool[c].target) # {}]_vars
  BY StealsAreAcquired, DonorKeepsOne
<1> QED BY <1>1, Invariant, PTL DEF Spec, FreshStealLeavesOne
=============================================================================
