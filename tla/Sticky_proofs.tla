---------------------------- MODULE Sticky_proofs ----------------------------
(***************************************************************************)
(* Proofs about Sticky, for any clients, domains, proxies and limits and   *)
(* any number of requests and probes under way: what a strict total order  *)
(* on the keys of the table of pins keeps while pins are put, dropped and  *)
(* swept; that its first is an oldest, so that pushing it out makes room;  *)
(* and how many hits a pin can collect before it is looked at again.       *)
(***************************************************************************)
EXTENDS Sticky, FiniteSetTheorems, WellFoundedInduction, TLAPS

-----------------------------------------------------------------------------
(* The table of pins.                                                       *)

\* A strict total order of W.
Orders(R, W) ==
    /\ R \subseteq W \X W
    /\ \A k \in W : <<k, k>> \notin R
    /\ \A i, j, k \in W : <<i, j>> \in R /\ <<j, k>> \in R => <<i, k>> \in R
    /\ \A j, k \in W : j # k => <<j, k>> \in R \/ <<k, j>> \in R

AgesFall(c) ==
    \A j, k \in Pinned(c) : <<j, k>> \in c.before => c.pins[j].age >= c.pins[k].age

\* What each method of the table keeps.
Table(c) ==
    /\ c = [pins |-> c.pins, before |-> c.before]
    /\ c.pins \in [Pinned(c) -> Pins]
    /\ Pinned(c) \subseteq Keys /\ IsFiniteSet(Pinned(c))
    /\ Orders(c.before, Pinned(c))
    /\ AgesFall(c)

Senders(k) == {s \in Sends : req[s].pc = "pinned" /\ req[s].key = k}

\* A send was let through below the threshold, and adds one hit at most.
HitsBounded ==
    \A k \in Pinned(cache) :
       cache.pins[k].hits + Cardinality(Senders(k)) < RecheckHits + Cardinality(Sends)

SendsKnown == \A s \in Sends : req[s].pc # "free" => req[s].key \in Keys /\ req[s].pid \in Pids

TableInv ==
    /\ SessionsOK /\ SendsKnown
    /\ Table(cache)
    /\ Cardinality(Pinned(cache)) <= MaxEntries
    /\ HitsBounded
-----------------------------------------------------------------------------
LEMMA LeastNat ==
  ASSUME NEW T \in SUBSET Nat, T # {}
  PROVE  \E m \in T : \A n \in T : m <= n
<1>1. PICK m \in T : \A n \in T : <<n, m>> \notin OpToRel(<, Nat)
  BY NatLessThanWellFounded, WFMin, Zenon
<1>2. \A n \in T : ~(n < m)
  BY <1>1 DEF OpToRel
<1> QED BY <1>2

\* Of finitely many in a strict order, some have none before them: those with
\* the fewest.
LEMMA HasFirst ==
  ASSUME NEW W, IsFiniteSet(W), W # {}, NEW R,
         \A j \in W : <<j, j>> \notin R,
         \A i, j, k \in W : <<i, j>> \in R /\ <<j, k>> \in R => <<i, k>> \in R
  PROVE  \E k \in W : \A j \in W : <<j, k>> \notin R
<1> DEFINE Below(k) == {j \in W : <<j, k>> \in R}
           T == {Cardinality(Below(k)) : k \in W}
<1>1. \A k \in W : IsFiniteSet(Below(k)) /\ Cardinality(Below(k)) \in Nat
  BY FS_Subset, FS_CardinalityType
<1>2. ASSUME NEW j \in W, NEW k \in W, <<j, k>> \in R
      PROVE  Cardinality(Below(j)) < Cardinality(Below(k))
  <2>1. Below(j) \subseteq Below(k) /\ j \in Below(k) /\ j \notin Below(j)
    BY <1>2
  <2>2. Cardinality(Below(j)) <= Cardinality(Below(k))
        /\ Cardinality(Below(j)) # Cardinality(Below(k))
    BY <1>1, <2>1, FS_Subset
  <2> HIDE DEF Below
  <2> QED BY <1>1, <2>2
<1> HIDE DEF Below
<1>3. T \in SUBSET Nat /\ T # {}
  BY <1>1
<1>4. PICK m \in T : \A n \in T : m <= n
  BY <1>3, LeastNat
<1>5. PICK k \in W : m = Cardinality(Below(k))
  BY <1>4
<1>6. \A j \in W : Cardinality(Below(k)) <= Cardinality(Below(j))
  BY <1>4, <1>5
<1> QED BY <1>1, <1>2, <1>6

\* Fewer pins in the same order.
LEMMA OnlyTable ==
  ASSUME NEW c, Table(c), NEW W, W \subseteq Pinned(c)
  PROVE  /\ Table(Only(c, W)) /\ Pinned(Only(c, W)) = W
         /\ \A k \in W : Only(c, W).pins[k] = c.pins[k]
<1> DEFINE d == Only(c, W)
<1>1. /\ d = [pins |-> d.pins, before |-> d.before]
      /\ d.pins = [k \in W |-> c.pins[k]] /\ d.before = c.before \cap (W \X W)
  BY DEF Only
<1>2. Pinned(d) = W
  BY <1>1 DEF Pinned
<1>3. d.pins \in [W -> Pins] /\ \A k \in W : d.pins[k] = c.pins[k]
  BY <1>1 DEF Table
<1>4. IsFiniteSet(W) /\ W \subseteq Keys
  BY FS_Subset DEF Table
<1>5. Orders(d.before, W)
  BY <1>1 DEF Table, Orders
<1>6. \A j, k \in W : <<j, k>> \in d.before => d.pins[j].age >= d.pins[k].age
  BY <1>1, <1>3 DEF Table, AgesFall
<1> HIDE DEF d
<1> QED BY <1>1, <1>2, <1>3, <1>4, <1>5, <1>6 DEF Table, AgesFall, d

\* A renewed pin is as young as any, and comes last.
LEMMA PutTable ==
  ASSUME NEW c, Table(c), NEW k \in Keys, NEW e \in Pins, e.age = 0
  PROVE  /\ Table(Put(c, k, e)) /\ Pinned(Put(c, k, e)) = Pinned(c) \cup {k}
         /\ Put(c, k, e).pins[k] = e
         /\ \A j \in Pinned(c) \ {k} : Put(c, k, e).pins[j] = c.pins[j]
<1> DEFINE d == Put(c, k, e)
           rest == Pinned(c) \ {k}
           W == rest \cup {k}
<1>1. /\ d = [pins |-> d.pins, before |-> d.before]
      /\ d.pins = [j \in W |-> IF j = k THEN e ELSE c.pins[j]]
      /\ d.before = (c.before \cap (rest \X rest)) \cup (rest \X {k})
  BY DEF Put
<1>2. Pinned(d) = W /\ W = Pinned(c) \cup {k}
  BY <1>1 DEF Pinned
<1>3. /\ d.pins \in [W -> Pins] /\ d.pins[k] = e
      /\ \A j \in rest : d.pins[j] = c.pins[j]
  BY <1>1 DEF Table
<1>4. IsFiniteSet(W) /\ W \subseteq Keys
  BY <1>2, FS_AddElement DEF Table
<1>5. rest \subseteq Pinned(c) /\ k \notin rest
  OBVIOUS
<1> HIDE DEF d, rest
<1>6. ASSUME NEW i, NEW j
      PROVE  <<i, j>> \in d.before <=>
                i \in rest /\ (j = k \/ (j \in rest /\ <<i, j>> \in c.before))
  <2>1. <<i, j>> \in rest \X rest <=> i \in rest /\ j \in rest
    OBVIOUS
  <2>2. <<i, j>> \in rest \X {k} <=> i \in rest /\ j = k
    OBVIOUS
  <2>3. <<i, j>> \in d.before <=>
           \/ <<i, j>> \in c.before /\ <<i, j>> \in rest \X rest
           \/ <<i, j>> \in rest \X {k}
    BY <1>1
  <2> QED BY <2>1, <2>2, <2>3
<1>7. Orders(d.before, W)
  <2>1. d.before \subseteq W \X W
    BY <1>1
  <2>2. \A j \in W : <<j, j>> \notin d.before
    BY <1>5, <1>6 DEF Table, Orders
  <2>3. ASSUME NEW i \in W, NEW j \in W, NEW l \in W,
               <<i, j>> \in d.before, <<j, l>> \in d.before
        PROVE  <<i, l>> \in d.before
    <3>1. i \in rest /\ j \in rest /\ <<i, j>> \in c.before
      BY <1>5, <1>6, <2>3
    <3>2. CASE l = k
      <4>1. <<i, k>> \in d.before
        BY <1>6, <3>1
      <4> QED BY <3>2, <4>1
    <3>3. CASE l \in rest /\ <<j, l>> \in c.before
      BY <1>5, <1>6, <3>1, <3>3 DEF Table, Orders
    <3> QED BY <1>6, <2>3, <3>2, <3>3
  <2>4. ASSUME NEW i \in W, NEW j \in W, i # j
        PROVE  <<i, j>> \in d.before \/ <<j, i>> \in d.before
    BY <1>5, <1>6, <2>4 DEF Table, Orders
  <2> HIDE DEF W
  <2> QED BY <2>1, <2>2, <2>3, <2>4 DEF Orders
<1>8. ASSUME NEW i \in W, NEW j \in W, <<i, j>> \in d.before
      PROVE  d.pins[i].age >= d.pins[j].age
  <2>1. i \in rest /\ (j = k \/ (j \in rest /\ <<i, j>> \in c.before))
    BY <1>6, <1>8
  <2>2. CASE j = k
    <3>1. d.pins[i] \in Pins /\ d.pins[j].age = 0
      BY <1>3, <2>2
    <3> QED BY <3>1 DEF Pins
  <2>3. CASE j \in rest /\ <<i, j>> \in c.before
    BY <1>3, <1>5, <2>1, <2>3 DEF Table, AgesFall
  <2> QED BY <2>1, <2>2, <2>3
<1> HIDE DEF W
<1>9. Table(d)
  BY <1>1, <1>2, <1>3, <1>4, <1>7, <1>8 DEF Table, AgesFall
<1> QED BY <1>2, <1>3, <1>9 DEF d, W, rest

\* Pushing the first out makes room.
LEMMA EvictOldestTable ==
  ASSUME NEW c, Table(c), Pinned(c) # {}
  PROVE  /\ Table(EvictOldest(c)) /\ Pinned(EvictOldest(c)) \subseteq Pinned(c)
         /\ \A k \in Pinned(EvictOldest(c)) : EvictOldest(c).pins[k] = c.pins[k]
         /\ Cardinality(Pinned(EvictOldest(c))) < Cardinality(Pinned(c))
<1> DEFINE W == {k \in Pinned(c) : \E j \in Pinned(c) : <<j, k>> \in c.before}
<1>1. PICK k \in Pinned(c) : \A j \in Pinned(c) : <<j, k>> \notin c.before
  <2>1. /\ IsFiniteSet(Pinned(c)) /\ \A j \in Pinned(c) : <<j, j>> \notin c.before
        /\ \A i, j, l \in Pinned(c) :
              <<i, j>> \in c.before /\ <<j, l>> \in c.before => <<i, l>> \in c.before
    BY DEF Table, Orders
  <2> QED BY <2>1, HasFirst
<1>2. W \subseteq Pinned(c) /\ W # Pinned(c)
  <2>1. k \notin W
    BY <1>1
  <2> QED BY <2>1
<1>3. /\ Cardinality(W) <= Cardinality(Pinned(c)) /\ Cardinality(W) # Cardinality(Pinned(c))
      /\ Cardinality(W) \in Nat /\ Cardinality(Pinned(c)) \in Nat
  BY <1>2, FS_Subset, FS_CardinalityType DEF Table
<1>4. EvictOldest(c) = Only(c, W)
  BY DEF EvictOldest
<1> HIDE DEF W
<1> QED BY <1>2, <1>3, <1>4, OnlyTable

\* The table as _record_sticky makes room for k in it.
LEMMA RoomyTable ==
  ASSUME NEW c, Table(c), Cardinality(Pinned(c)) <= MaxEntries,
         NEW k \in Keys, NEW d \in Roomy(c, k)
  PROVE  /\ Table(d) /\ Pinned(d) \subseteq Pinned(c)
         /\ \A j \in Pinned(d) : d.pins[j] = c.pins[j]
         /\ Cardinality(Pinned(d) \cup {k}) <= MaxEntries
<1>1. MaxEntries \in Nat /\ MaxEntries > 0
  BY StickyAssumption
<1>0. ASSUME NEW b, Table(b)
      PROVE  /\ IsFiniteSet(Pinned(b)) /\ Cardinality(Pinned(b)) \in Nat
             /\ \/ Cardinality(Pinned(b) \cup {k}) = Cardinality(Pinned(b))
                \/ Cardinality(Pinned(b) \cup {k}) = Cardinality(Pinned(b)) + 1
  <2>1. IsFiniteSet(Pinned(b))
    BY <1>0 DEF Table
  <2> HIDE DEF Pinned
  <2> QED BY <2>1, FS_CardinalityType, FS_AddElement
<1>2. CASE Has(c, k) /\ d = c
  <2>1. Pinned(d) \cup {k} = Pinned(d)
    BY <1>2 DEF Has
  <2> QED BY <1>2, <2>1
<1>3. CASE ~Full(c) /\ d = c
  BY <1>0, <1>1, <1>3 DEF Full
<1>4. ASSUME NEW b \in {c, Swept(c)}, d = IF Full(b) THEN EvictOldest(b) ELSE b
      PROVE  /\ Table(d) /\ Pinned(d) \subseteq Pinned(c)
             /\ \A j \in Pinned(d) : d.pins[j] = c.pins[j]
             /\ Cardinality(Pinned(d) \cup {k}) <= MaxEntries
  <2>1. /\ Table(b) /\ Pinned(b) \subseteq Pinned(c)
        /\ \A j \in Pinned(b) : b.pins[j] = c.pins[j]
    BY OnlyTable DEF Swept
  <2>2. Cardinality(Pinned(b)) <= Cardinality(Pinned(c))
    BY <1>0, <2>1, FS_Subset
  <2>3. CASE ~Full(b)
    BY <1>0, <1>1, <1>4, <2>1, <2>3 DEF Full
  <2>4. CASE Full(b)
    <3>1. Cardinality(Pinned(b)) # 0
      BY <1>0, <1>1, <2>1, <2>4 DEF Full
    <3>2. Pinned(b) # {}
      BY <3>1, FS_EmptySet
    <3>3. /\ Table(d) /\ Pinned(d) \subseteq Pinned(b)
          /\ \A j \in Pinned(d) : d.pins[j] = b.pins[j]
          /\ Cardinality(Pinned(d)) < Cardinality(Pinned(b))
      BY <1>4, <2>1, <2>4, <3>2, EvictOldestTable
    <3>4. Cardinality(Pinned(d)) < MaxEntries
      <4>1. /\ Cardinality(Pinned(d)) \in Nat /\ Cardinality(Pinned(b)) \in Nat
            /\ Cardinality(Pinned(c)) \in Nat
        BY <1>0, <2>1, <3>3
      <4> QED BY <1>1, <2>2, <3>3, <4>1
    <3>5. Cardinality(Pinned(d) \cup {k}) <= MaxEntries
      BY <1>0, <1>1, <3>3, <3>4
    <3> QED BY <2>1, <3>3, <3>5
  <2> QED BY <2>3, <2>4
<1> QED BY <1>2, <1>3, <1>4 DEF Roomy

LEMMA RecordTable ==
  ASSUME NEW c, Table(c), Cardinality(Pinned(c)) <= MaxEntries,
         NEW k \in Keys, NEW p \in Pids, NEW d \in Record(c, k, p)
  PROVE  /\ Table(d) /\ Cardinality(Pinned(d)) <= MaxEntries
         /\ k \in Pinned(d) /\ d.pins[k].hits = 0
         /\ \A j \in Pinned(d) \ {k} : j \in Pinned(c) /\ d.pins[j] = c.pins[j]
<1> DEFINE e == [pid |-> p, age |-> 0, hits |-> 0]
<1>1. e \in Pins /\ e.age = 0 /\ e.hits = 0
  <2>1. 0 \in 0 .. Ttl /\ 0 \in 0 .. RecheckHits + Cardinality(Sends)
    BY StickyAssumption, FS_CardinalityType
  <2> QED BY <2>1 DEF Pins
<1>2. PICK b \in Roomy(c, k) : d = Put(b, k, e)
  BY DEF Record
<1> HIDE DEF e
<1>3. /\ Table(b) /\ Pinned(b) \subseteq Pinned(c)
      /\ \A j \in Pinned(b) : b.pins[j] = c.pins[j]
      /\ Cardinality(Pinned(b) \cup {k}) <= MaxEntries
  BY RoomyTable
<1>4. /\ Table(d) /\ Pinned(d) = Pinned(b) \cup {k} /\ d.pins[k] = e
      /\ \A j \in Pinned(b) \ {k} : d.pins[j] = b.pins[j]
  BY <1>1, <1>2, <1>3, PutTable
<1> QED BY <1>1, <1>3, <1>4

\* A pin that is still there gains a hit; one that is not is recorded anew.
LEMMA BumpTable ==
  ASSUME NEW c, Table(c), Cardinality(Pinned(c)) <= MaxEntries,
         NEW k \in Keys, NEW p \in Pids, NEW d \in Bump(c, k, p)
  PROVE  /\ Table(d) /\ Cardinality(Pinned(d)) <= MaxEntries
         /\ d.pins[k].hits = 0 \/ (k \in Pinned(c) /\ d.pins[k].hits <= c.pins[k].hits + 1)
         /\ \A j \in Pinned(d) \ {k} : j \in Pinned(c) /\ d.pins[j] = c.pins[j]
<1>1. CASE ~Has(c, k)
  BY <1>1, RecordTable DEF Bump
<1>2. CASE Has(c, k)
  <2> DEFINE e == Renewed(c.pins[k], p)
  <2>1. k \in Pinned(c) /\ c.pins[k] \in Pins
    BY <1>2 DEF Has, Table
  <2>2. RecheckHits + Cardinality(Sends) \in Nat /\ Ttl \in Nat
    BY StickyAssumption, FS_CardinalityType
  <2>3. e = [pid |-> p, age |-> 0,
             hits |-> Least(c.pins[k].hits + 1, RecheckHits + Cardinality(Sends))]
    <3> DEFINE x == c.pins[k]
    <3>1. x = [pid |-> x.pid, age |-> x.age, hits |-> x.hits]
      BY <2>1 DEF Pins
    <3> HIDE DEF x
    <3> DEFINE n == Least(x.hits + 1, RecheckHits + Cardinality(Sends))
    <3>2. Renewed(x, p) = [[[x EXCEPT !.pid = p] EXCEPT !.age = 0] EXCEPT !.hits = n]
      BY <3>1 DEF Renewed
    <3> HIDE DEF n
    <3>3. Renewed(x, p) = [pid |-> p, age |-> 0, hits |-> n]
      BY <3>1, <3>2
    <3> QED BY <3>3 DEF x, n
  <2>4. /\ Least(c.pins[k].hits + 1, RecheckHits + Cardinality(Sends))
             \in 0 .. RecheckHits + Cardinality(Sends)
        /\ Least(c.pins[k].hits + 1, RecheckHits + Cardinality(Sends)) <= c.pins[k].hits + 1
    BY <2>1, <2>2 DEF Pins, Least
  <2> HIDE DEF e
  <2>5. e \in Pins /\ e.age = 0 /\ e.hits <= c.pins[k].hits + 1
    BY <2>2, <2>3, <2>4 DEF Pins
  <2>6. d = Put(c, k, e)
    BY <1>2 DEF Bump, e
  <2>7. /\ Table(d) /\ Pinned(d) = Pinned(c) \cup {k} /\ d.pins[k] = e
        /\ \A j \in Pinned(c) \ {k} : d.pins[j] = c.pins[j]
    BY <2>5, <2>6, PutTable
  <2>8. Pinned(d) = Pinned(c)
    BY <2>1, <2>7
  <2> QED BY <2>1, <2>5, <2>7, <2>8
<1> QED BY <1>1, <1>2
-----------------------------------------------------------------------------
(* What the steps do to the table.                                          *)

LEMMA Counts ==
  /\ RecheckHits \in Nat \ {0} /\ Cardinality(Sends) \in Nat
  /\ \A S \in SUBSET Sends :
        /\ Cardinality(S) \in Nat /\ Cardinality(S) <= Cardinality(Sends)
        /\ \A T \in SUBSET S : Cardinality(T) <= Cardinality(S)
        /\ \A s \in S : Cardinality(S \ {s}) = Cardinality(S) - 1
<1>1. RecheckHits \in Nat \ {0} /\ IsFiniteSet(Sends)
  BY StickyAssumption
<1>2. ASSUME NEW S \in SUBSET Sends
      PROVE  IsFiniteSet(S) /\ Cardinality(S) <= Cardinality(Sends)
  BY <1>1, FS_Subset
<1>3. ASSUME NEW S \in SUBSET Sends, NEW T \in SUBSET S
      PROVE  Cardinality(T) <= Cardinality(S)
  BY <1>2, FS_Subset
<1>4. ASSUME NEW S \in SUBSET Sends, NEW s \in S
      PROVE  Cardinality(S \ {s}) = Cardinality(S) - 1
  BY <1>2, FS_RemoveElement
<1> QED BY <1>1, <1>2, <1>3, <1>4, FS_CardinalityType

\* How the hits of k may change in a step.
HitsStep(k) ==
    \/ cache'.pins[k].hits < RecheckHits
    \/ /\ k \in Pinned(cache) /\ cache'.pins[k].hits <= cache.pins[k].hits
       /\ Senders(k)' \subseteq Senders(k)
    \/ /\ k \in Pinned(cache) /\ cache'.pins[k].hits <= cache.pins[k].hits + 1
       /\ \E s \in Senders(k) : Senders(k)' \subseteq Senders(k) \ {s}

LEMMA HitsStayBounded ==
  ASSUME TableInv, Table(cache'), \A k \in Pinned(cache') : HitsStep(k)
  PROVE  HitsBounded'
<1> SUFFICES ASSUME NEW k \in Pinned(cache')
             PROVE  cache'.pins[k].hits + Cardinality(Senders(k)') < RecheckHits + Cardinality(Sends)
  BY DEF HitsBounded
<1> DEFINE h == cache.pins[k].hits
           g == cache'.pins[k].hits
           S == Senders(k)
           T == Senders(k)'
<1>1. S \in SUBSET Sends /\ T \in SUBSET Sends
  BY DEF Senders
<1>2. g \in Nat /\ (k \in Pinned(cache) => h \in Nat /\ h + Cardinality(S) < RecheckHits + Cardinality(Sends))
  BY DEF TableInv, Table, Pins, HitsBounded
<1>3. HitsStep(k)
  OBVIOUS
<1>4. /\ Cardinality(S) \in Nat /\ Cardinality(T) \in Nat
      /\ Cardinality(T) <= Cardinality(Sends)
  BY <1>1, Counts
<1>5. CASE g < RecheckHits
  BY <1>2, <1>4, <1>5, Counts
<1>6. CASE k \in Pinned(cache) /\ g <= h /\ T \subseteq S
  <2>1. Cardinality(T) <= Cardinality(S)
    BY <1>1, <1>6, Counts
  <2> QED BY <1>2, <1>4, <1>6, <2>1, Counts
<1>7. ASSUME k \in Pinned(cache), g <= h + 1, NEW s \in S, T \subseteq S \ {s}
      PROVE  g + Cardinality(T) < RecheckHits + Cardinality(Sends)
  <2>1. Cardinality(T) <= Cardinality(S) - 1
    <3>1. S \ {s} \in SUBSET Sends /\ T \in SUBSET (S \ {s})
      BY <1>1, <1>7
    <3> QED BY <1>1, <3>1, Counts
  <2> QED BY <1>2, <1>4, <1>7, <2>1, Counts
<1> QED BY <1>3, <1>5, <1>6, <1>7 DEF HitsStep

\* What is left to show of a step when the table is still one.
LEMMA TableKept ==
  ASSUME TableInv, Table(cache'), Cardinality(Pinned(cache')) <= MaxEntries,
         \A k \in Pinned(cache') : HitsStep(k),
         req' \in [Sends -> [pc : {"free", "pinned", "race"}, key : Maybe(Keys),
                             pid : Maybe(Pids)]],
         SendsKnown', probe' \in [Probes -> Maybe(Keys)], named' \subseteq Proxies
  PROVE  TableInv'
<1>1. HitsBounded'
  BY HitsStayBounded
<1>2. cache' \in Tables(Pinned(cache'))
  BY DEF Table, Tables, Orders
<1>3. Pinned(cache)' = Pinned(cache')
  BY DEF Pinned
<1> QED BY <1>1, <1>2, <1>3 DEF TableInv, SessionsOK, Table, AgesFall

\* Pins that stay as they are, or go.
LEMMA FewerHits ==
  ASSUME TableInv, NEW k \in Pinned(cache), cache'.pins[k] = cache.pins[k],
         \/ Senders(k)' \subseteq Senders(k)
         \/ cache.pins[k].hits < RecheckHits
  PROVE  HitsStep(k)
BY DEF HitsStep, TableInv, Table, Pins

LEMMA BusyKnown ==
  ASSUME TableInv, NEW s \in Sends, req[s].pc # "free"
  PROVE  req[s].key \in Keys /\ req[s].pid \in Pids
BY DEF TableInv, SendsKnown

\* A request that sends, ends or starts: what is known of the requests, and
\* whose senders can have become more.
LEMMA Turns ==
  ASSUME TableInv, NEW s \in Sends, NEW t, req' = [req EXCEPT ![s] = t],
         t = NoSend \/ \E k \in Keys, p \in Pids, pc \in {"race", "pinned"} :
                          t = [pc |-> pc, key |-> k, pid |-> p]
  PROVE  /\ req' \in [Sends -> [pc : {"free", "pinned", "race"}, key : Maybe(Keys),
                                pid : Maybe(Pids)]]
         /\ SendsKnown'
         /\ \A k : t.pc # "pinned" \/ t.key # k => Senders(k)' \subseteq Senders(k) \ {s}
<1> DEFINE R == [pc : {"free", "pinned", "race"}, key : Maybe(Keys), pid : Maybe(Pids)]
<1>1. req \in [Sends -> R]
  BY DEF TableInv, SessionsOK
<1>2. t \in R /\ (t.pc # "free" => t.key \in Keys /\ t.pid \in Pids)
  BY DEF NoSend, Maybe
<1> HIDE DEF R
<1>3. req' \in [Sends -> R] /\ \A u \in Sends : req'[u] = IF u = s THEN t ELSE req[u]
  BY <1>1, <1>2
<1>4. SendsKnown'
  BY <1>2, <1>3 DEF TableInv, SendsKnown
<1>5. \A k : t.pc # "pinned" \/ t.key # k => Senders(k)' \subseteq Senders(k) \ {s}
  BY <1>3 DEF Senders
<1> QED BY <1>3, <1>4, <1>5 DEF R

LEMMA OthersPids == Others \subseteq Pids
BY DEF Others, Pids

\* Dropping one pin.
LEMMA EvictTable ==
  ASSUME TableInv, NEW k
  PROVE  /\ Table(Evict(cache, k)) /\ Cardinality(Pinned(Evict(cache, k))) <= MaxEntries
         /\ Pinned(Evict(cache, k)) = Pinned(cache) \ {k}
         /\ \A j \in Pinned(cache) \ {k} : Evict(cache, k).pins[j] = cache.pins[j]
<1>1. Table(cache) /\ IsFiniteSet(Pinned(cache)) /\ Cardinality(Pinned(cache)) <= MaxEntries
  BY DEF TableInv, Table
<1>2. /\ Table(Evict(cache, k)) /\ Pinned(Evict(cache, k)) = Pinned(cache) \ {k}
      /\ \A j \in Pinned(cache) \ {k} : Evict(cache, k).pins[j] = cache.pins[j]
  BY <1>1, OnlyTable DEF Evict
<1>3. Cardinality(Pinned(cache) \ {k}) \in Nat /\ Cardinality(Pinned(cache)) \in Nat
      /\ Cardinality(Pinned(cache) \ {k}) <= Cardinality(Pinned(cache))
  BY <1>1, FS_Subset, FS_CardinalityType
<1> QED BY <1>1, <1>2, <1>3, StickyAssumption

LEMMA SweptTable ==
  ASSUME TableInv
  PROVE  /\ Table(Swept(cache)) /\ Cardinality(Pinned(Swept(cache))) <= MaxEntries
         /\ Pinned(Swept(cache)) \subseteq Pinned(cache)
         /\ \A j \in Pinned(Swept(cache)) : Swept(cache).pins[j] = cache.pins[j]
<1> DEFINE W == {k \in Pinned(cache) : Stays(cache.pins[k])}
<1>1. Table(cache) /\ IsFiniteSet(Pinned(cache)) /\ Cardinality(Pinned(cache)) <= MaxEntries
  BY DEF TableInv, Table
<1>2. Swept(cache) = Only(cache, W) /\ W \subseteq Pinned(cache)
  BY DEF Swept
<1> HIDE DEF W
<1>3. /\ Table(Only(cache, W)) /\ Pinned(Only(cache, W)) = W
      /\ \A j \in W : Only(cache, W).pins[j] = cache.pins[j]
  BY <1>1, <1>2, OnlyTable
<1>4. Cardinality(W) \in Nat /\ Cardinality(Pinned(cache)) \in Nat
      /\ Cardinality(W) <= Cardinality(Pinned(cache))
  BY <1>1, <1>2, FS_Subset, FS_CardinalityType
<1> QED BY <1>1, <1>2, <1>3, <1>4, StickyAssumption

LEMMA NoPinsTable == Table(NoPins) /\ Pinned(NoPins) = {} /\ Cardinality(Pinned(NoPins)) <= MaxEntries
<1>1. Pinned(NoPins) = {}
  BY DEF NoPins, Pinned
<1>2. NoPins = [pins |-> NoPins.pins, before |-> NoPins.before] /\ NoPins.before = {}
  BY DEF NoPins
<1>3. NoPins.pins \in [{} -> Pins]
  BY DEF NoPins
<1>4. IsFiniteSet({}) /\ Cardinality({}) = 0
  BY FS_EmptySet
<1> QED BY <1>1, <1>2, <1>3, <1>4, StickyAssumption DEF Table, Orders, AgesFall

Blank ==
    /\ req \in [Sends -> {NoSend}] /\ probe \in [Probes -> {None}]
    /\ named \subseteq Proxies /\ cache = NoPins

LEMMA BlankTable == Blank => TableInv
<1> SUFFICES ASSUME Blank PROVE TableInv
  OBVIOUS
<1>1. SessionsOK
  BY NoPinsTable DEF Blank, SessionsOK, Tables, Table, NoSend, Maybe, Orders
<1>2. SendsKnown /\ HitsBounded
  BY NoPinsTable DEF Blank, SendsKnown, HitsBounded, NoSend
<1> QED BY <1>1, <1>2, NoPinsTable DEF Blank, TableInv

LEMMA InitTable == Init => TableInv
BY BlankTable DEF Init, Blank

LEMMA AskTable ==
  ASSUME TableInv, NEW s \in Sends, Ask(s)
  PROVE  TableInv'
<1> PICK k \in Keys :
      \/ /\ Has(cache, k) /\ MayUse(cache.pins[k])
         /\ req' = [req EXCEPT ![s] = [pc |-> "pinned", key |-> k, pid |-> cache.pins[k].pid]]
         /\ UNCHANGED cache
      \/ /\ \E p \in Others : req' = [req EXCEPT ![s] = Racing(k, p)]
         /\ cache' = Evict(cache, k)
      \/ /\ Has(cache, k) /\ MayBeSlow(cache.pins[k])
         /\ \E p \in Others : req' = [req EXCEPT ![s] = Racing(k, p)]
         /\ UNCHANGED cache
  BY DEF Ask
<1>1. UNCHANGED <<probe, named>> /\ Table(cache) /\ Cardinality(Pinned(cache)) <= MaxEntries
  BY DEF Ask, TableInv
<1>2. CASE /\ Has(cache, k) /\ MayUse(cache.pins[k])
           /\ req' = [req EXCEPT ![s] = [pc |-> "pinned", key |-> k, pid |-> cache.pins[k].pid]]
           /\ UNCHANGED cache
  <2> DEFINE t == [pc |-> "pinned", key |-> k, pid |-> cache.pins[k].pid]
  <2>1. cache.pins[k].pid \in Pids /\ k \in Pinned(cache) /\ cache.pins[k].hits < RecheckHits
    BY <1>1, <1>2 DEF Has, MayUse, Table, Pins
  <2>2. t.key = k /\ \E j \in Keys, p \in Pids, pc \in {"race", "pinned"} :
                         t = [pc |-> pc, key |-> j, pid |-> p]
    BY <2>1
  <2>3. \A j : t.key # j => Senders(j)' \subseteq Senders(j) \ {s}
    BY <1>2, <2>2, Turns
  <2>4. \A j \in Pinned(cache) : HitsStep(j)
    BY <1>2, <2>1, <2>3, FewerHits
  <2> QED BY <1>1, <1>2, <2>2, <2>4, Turns, TableKept DEF TableInv, SessionsOK
<1>3. ASSUME NEW p \in Others, req' = [req EXCEPT ![s] = Racing(k, p)],
             cache' = Evict(cache, k) \/ UNCHANGED cache
      PROVE  TableInv'
  <2>1. /\ req' \in [Sends -> [pc : {"free", "pinned", "race"}, key : Maybe(Keys),
                                pid : Maybe(Pids)]]
        /\ SendsKnown'
        /\ \A j : Senders(j)' \subseteq Senders(j) \ {s}
    BY <1>3, Turns, OthersPids DEF Racing
  <2>2. /\ Table(cache') /\ Cardinality(Pinned(cache')) <= MaxEntries
        /\ \A j \in Pinned(cache') : j \in Pinned(cache) /\ cache'.pins[j] = cache.pins[j]
    BY <1>1, <1>3, EvictTable
  <2>3. \A j \in Pinned(cache') : HitsStep(j)
    BY <2>1, <2>2, FewerHits
  <2> QED BY <1>1, <2>1, <2>2, <2>3, TableKept DEF TableInv, SessionsOK
<1> QED BY <1>2, <1>3

LEMMA SendOkTable ==
  ASSUME TableInv, NEW s \in Sends, SendOk(s)
  PROVE  TableInv'
<1>1. req[s].key \in Keys /\ req[s].pid \in Pids
  BY BusyKnown DEF SendOk
<1>2. PICK k \in Keys : k = req[s].key
  BY <1>1
<1>3. PICK p \in Pids : p = req[s].pid
  BY <1>1
<1>4. s \in Senders(k)
  BY <1>2 DEF SendOk, Senders
<1>5. /\ named' \subseteq Proxies /\ probe' \in [Probes -> Maybe(Keys)]
      /\ Table(cache) /\ Cardinality(Pinned(cache)) <= MaxEntries
  BY <1>1 DEF SendOk, Spawn, TableInv, SessionsOK, Maybe
<1>6. /\ req' \in [Sends -> [pc : {"free", "pinned", "race"}, key : Maybe(Keys),
                              pid : Maybe(Pids)]]
      /\ SendsKnown'
      /\ \A j : Senders(j)' \subseteq Senders(j) \ {s}
  BY Turns DEF SendOk, NoSend
<1>7. CASE cache' \in Bump(cache, k, p)
  <2>1. /\ Table(cache') /\ Cardinality(Pinned(cache')) <= MaxEntries
        /\ cache'.pins[k].hits = 0
           \/ (k \in Pinned(cache) /\ cache'.pins[k].hits <= cache.pins[k].hits + 1)
        /\ \A j \in Pinned(cache') \ {k} : j \in Pinned(cache) /\ cache'.pins[j] = cache.pins[j]
    BY <1>5, <1>7, BumpTable
  <2>2. HitsStep(k)
    <3>1. CASE cache'.pins[k].hits = 0
      BY <3>1, Counts DEF HitsStep
    <3>2. CASE k \in Pinned(cache) /\ cache'.pins[k].hits <= cache.pins[k].hits + 1
      <4>1. \E u \in Senders(k) : Senders(k)' \subseteq Senders(k) \ {u}
        BY <1>4, <1>6
      <4> QED BY <3>2, <4>1 DEF HitsStep
    <3> QED BY <2>1, <3>1, <3>2
  <2>3. \A j \in Pinned(cache') \ {k} : HitsStep(j)
    BY <1>6, <2>1, FewerHits
  <2> QED BY <1>5, <1>6, <2>1, <2>2, <2>3, TableKept
<1>8. CASE UNCHANGED cache
  <2>1. \A j \in Pinned(cache) : HitsStep(j)
    BY <1>6, <1>8, FewerHits
  <2> QED BY <1>5, <1>6, <1>8, <2>1, TableKept
<1> QED BY <1>2, <1>3, <1>7, <1>8 DEF SendOk

LEMMA SendFailsTable ==
  ASSUME TableInv, NEW s \in Sends, SendFails(s)
  PROVE  TableInv'
<1> DEFINE k == req[s].key
<1>1. PICK p \in Others : req' = [req EXCEPT ![s] = Racing(k, p)]
  BY DEF SendFails
<1>2. k \in Keys /\ cache' = Evict(cache, k) /\ UNCHANGED <<probe, named>>
  BY BusyKnown DEF SendFails
<1>3. /\ req' \in [Sends -> [pc : {"free", "pinned", "race"}, key : Maybe(Keys),
                              pid : Maybe(Pids)]]
      /\ SendsKnown'
      /\ \A j : Senders(j)' \subseteq Senders(j) \ {s}
  BY <1>1, <1>2, Turns, OthersPids DEF Racing
<1>4. /\ Table(cache') /\ Cardinality(Pinned(cache')) <= MaxEntries
      /\ \A j \in Pinned(cache') : j \in Pinned(cache) /\ cache'.pins[j] = cache.pins[j]
  BY <1>2, EvictTable
<1>5. \A j \in Pinned(cache') : HitsStep(j)
  BY <1>3, <1>4, FewerHits
<1> QED BY <1>2, <1>3, <1>4, <1>5, TableKept DEF TableInv, SessionsOK

LEMMA RaceWonTable ==
  ASSUME TableInv, NEW s \in Sends, RaceWon(s)
  PROVE  TableInv'
<1>1. req[s].key \in Keys /\ req[s].pid \in Pids
  BY BusyKnown DEF RaceWon
<1>2. PICK k \in Keys : k = req[s].key
  BY <1>1
<1>3. PICK p \in Pids : p = req[s].pid
  BY <1>1
<1>4. /\ named' \subseteq Proxies /\ UNCHANGED probe
      /\ Table(cache) /\ Cardinality(Pinned(cache)) <= MaxEntries
  BY DEF RaceWon, TableInv, SessionsOK
<1>5. /\ req' \in [Sends -> [pc : {"free", "pinned", "race"}, key : Maybe(Keys),
                              pid : Maybe(Pids)]]
      /\ SendsKnown'
      /\ \A j : Senders(j)' \subseteq Senders(j) \ {s}
  BY Turns DEF RaceWon, NoSend
<1>6. CASE cache' \in Record(cache, k, p)
  <2>1. /\ Table(cache') /\ Cardinality(Pinned(cache')) <= MaxEntries
        /\ cache'.pins[k].hits = 0
        /\ \A j \in Pinned(cache') \ {k} : j \in Pinned(cache) /\ cache'.pins[j] = cache.pins[j]
    BY <1>4, <1>6, RecordTable
  <2>2. HitsStep(k)
    BY <2>1, Counts DEF HitsStep
  <2>3. \A j \in Pinned(cache') \ {k} : HitsStep(j)
    BY <1>5, <2>1, FewerHits
  <2> QED BY <1>4, <1>5, <2>1, <2>2, <2>3, TableKept DEF TableInv, SessionsOK
<1>7. CASE UNCHANGED cache
  <2>1. \A j \in Pinned(cache) : HitsStep(j)
    BY <1>5, <1>7, FewerHits
  <2> QED BY <1>4, <1>5, <1>7, <2>1, TableKept DEF TableInv, SessionsOK
<1> QED BY <1>2, <1>3, <1>6, <1>7 DEF RaceWon

LEMMA RaceLostTable ==
  ASSUME TableInv, NEW s \in Sends, RaceLost(s)
  PROVE  TableInv'
<1>1. /\ req[s].key \in Keys /\ req[s].pc = "race"
      /\ UNCHANGED <<cache, probe, named>>
      /\ Table(cache) /\ Cardinality(Pinned(cache)) <= MaxEntries
  BY BusyKnown DEF RaceLost, TableInv
<1>2. PICK t : /\ req' = [req EXCEPT ![s] = t]
               /\ t = NoSend \/ \E p \in Others : t = [pc |-> "race", key |-> req[s].key, pid |-> p]
  <2>1. CASE req' = [req EXCEPT ![s] = NoSend]
    BY <2>1
  <2>2. ASSUME NEW p \in Others, req' = [req EXCEPT ![s].pid = p]
        PROVE  req' = [req EXCEPT ![s] = [pc |-> "race", key |-> req[s].key, pid |-> p]]
    <3> DEFINE x == req[s]
    <3>1. x = [pc |-> x.pc, key |-> x.key, pid |-> x.pid]
      BY DEF TableInv, SessionsOK
    <3>2. req' = [req EXCEPT ![s] = [x EXCEPT !.pid = p]]
      BY <2>2
    <3> HIDE DEF x
    <3>3. [x EXCEPT !.pid = p] = [pc |-> x.pc, key |-> x.key, pid |-> p]
      BY <3>1
    <3> QED BY <1>1, <3>2, <3>3 DEF x
  <2> QED BY <2>1, <2>2 DEF RaceLost
<1>3. /\ req' \in [Sends -> [pc : {"free", "pinned", "race"}, key : Maybe(Keys),
                              pid : Maybe(Pids)]]
      /\ SendsKnown'
      /\ \A j : Senders(j)' \subseteq Senders(j) \ {s}
  <2>1. t.pc # "pinned"
    BY <1>2 DEF NoSend
  <2>2. t = NoSend \/ \E k \in Keys, p \in Pids, pc \in {"race", "pinned"} :
                         t = [pc |-> pc, key |-> k, pid |-> p]
    BY <1>1, <1>2, OthersPids
  <2> HIDE DEF NoSend
  <2> QED BY <1>2, <2>1, <2>2, Turns
<1>4. \A j \in Pinned(cache) : HitsStep(j)
  BY <1>1, <1>3, FewerHits
<1> QED BY <1>1, <1>3, <1>4, TableKept DEF TableInv, SessionsOK

\* Probes, the sweep, the clock and the operator leave the requests alone.
LEMMA TickTable ==
  ASSUME TableInv, Tick
  PROVE  TableInv'
<1> DEFINE W == Pinned(cache)
           Older(e) == [e EXCEPT !.age = Least(@ + 1, Ttl)]
<1>1. UNCHANGED <<req, probe, named>> /\ Table(cache) /\ Cardinality(W) <= MaxEntries
  BY DEF Tick, TableInv
<1>2. cache' = [pins |-> [k \in W |-> Older(cache.pins[k])], before |-> cache.before]
  BY DEF Tick, Aged
<1>3. ASSUME NEW e \in Pins
      PROVE  /\ Older(e) \in Pins /\ Older(e).hits = e.hits
             /\ Older(e).age = Least(e.age + 1, Ttl)
  <2>1. Least(e.age + 1, Ttl) \in 0 .. Ttl
    BY StickyAssumption DEF Pins, Least
  <2> QED BY <2>1 DEF Pins
<1> HIDE DEF Older
<1>4. /\ cache' = [pins |-> cache'.pins, before |-> cache'.before]
      /\ cache'.before = cache.before /\ cache'.pins = [k \in W |-> Older(cache.pins[k])]
  BY <1>2
<1>5. Pinned(cache') = W
  BY <1>4 DEF Pinned
<1>6. \A k \in W : /\ cache.pins[k] \in Pins /\ cache'.pins[k] \in Pins
                   /\ cache'.pins[k].hits = cache.pins[k].hits
                   /\ cache'.pins[k].age = Least(cache.pins[k].age + 1, Ttl)
  BY <1>1, <1>3, <1>4 DEF Table
<1>7. ASSUME NEW j \in W, NEW k \in W, <<j, k>> \in cache'.before
      PROVE  cache'.pins[j].age >= cache'.pins[k].age
  <2>1. cache.pins[j].age >= cache.pins[k].age
    BY <1>1, <1>4, <1>7 DEF Table, AgesFall
  <2> QED BY <1>6, <2>1, StickyAssumption DEF Pins, Least
<1>8. Table(cache')
  <2>1. cache'.pins \in [W -> Pins]
    BY <1>4, <1>6
  <2> QED BY <1>1, <1>4, <1>5, <1>7, <2>1 DEF Table, AgesFall
<1>9. \A k \in Pinned(cache') : HitsStep(k)
  BY <1>1, <1>5, <1>6 DEF HitsStep, Senders, Pins
<1> QED BY <1>1, <1>5, <1>8, <1>9, TableKept DEF TableInv, SessionsOK, SendsKnown

LEMMA DropTable ==
  ASSUME TableInv, UNCHANGED req, named' \subseteq Proxies, probe' \in [Probes -> Maybe(Keys)],
         \/ UNCHANGED cache
         \/ cache' = Swept(cache)
         \/ \E k : cache' = Evict(cache, k)
  PROVE  TableInv'
<1>1. /\ Table(cache') /\ Cardinality(Pinned(cache')) <= MaxEntries
      /\ \A j \in Pinned(cache') : j \in Pinned(cache) /\ cache'.pins[j] = cache.pins[j]
  BY EvictTable, SweptTable DEF TableInv
<1>2. \A j : Senders(j)' = Senders(j)
  BY DEF Senders
<1>3. \A j \in Pinned(cache') : HitsStep(j)
  BY <1>1, <1>2, FewerHits
<1> QED BY <1>1, <1>3, TableKept DEF TableInv, SessionsOK, SendsKnown

LEMMA NextTable == TableInv /\ [Next]_vars => TableInv'
<1> SUFFICES ASSUME TableInv, [Next]_vars PROVE TableInv'
  OBVIOUS
<1>0. named \subseteq Proxies /\ probe \in [Probes -> Maybe(Keys)]
  BY DEF TableInv, SessionsOK
<1>1. CASE Tick
  BY <1>1, TickTable
<1>2. CASE Sweep
  BY <1>0, <1>2, DropTable DEF Sweep
<1>3. ASSUME NEW s \in Sends,
             Ask(s) \/ SendOk(s) \/ SendFails(s) \/ RaceWon(s) \/ RaceLost(s)
      PROVE  TableInv'
  BY <1>3, AskTable, SendOkTable, SendFailsTable, RaceWonTable, RaceLostTable
<1>4. ASSUME NEW b \in Probes, ProbeEvicts(b) \/ ProbeEnds(b)
      PROVE  TableInv'
  <2>1. probe' \in [Probes -> Maybe(Keys)] /\ UNCHANGED <<req, named>>
    BY <1>0, <1>4 DEF ProbeEvicts, ProbeEnds, Maybe
  <2> QED BY <1>0, <1>4, <2>1, DropTable DEF ProbeEvicts, ProbeEnds
<1>5. ASSUME NEW p \in Proxies, Unnamed(p)
      PROVE  TableInv'
  <2>1. named' \subseteq Proxies /\ UNCHANGED <<cache, req, probe>>
    BY <1>0, <1>5 DEF Unnamed
  <2> QED BY <1>0, <2>1, DropTable
<1>6. ASSUME NEW p \in Proxies, NEW on \in BOOLEAN, AddProxy(p, on) \/ AddUnsaved(p, on)
      PROVE  TableInv'
  <2>1. named' \subseteq Proxies /\ UNCHANGED <<cache, req, probe>>
    BY <1>0, <1>6 DEF AddProxy, AddUnsaved, Posted
  <2> QED BY <1>0, <2>1, DropTable
<1>7. CASE Restart
  <2>1. Blank'
    BY <1>7 DEF Restart, Loaded, Blank
  <2> QED BY <2>1, BlankTable, PTL
<1>8. CASE UNCHANGED vars
  BY <1>0, <1>8, DropTable DEF vars
<1> QED BY <1>1, <1>2, <1>3, <1>4, <1>5, <1>6, <1>7, <1>8 DEF Next

LEMMA SpecTable == Spec => []TableInv
BY InitTable, NextTable, PTL DEF Spec

LEMMA NextStore == StoreOK /\ [Next]_vars => StoreOK'
<1> SUFFICES ASSUME StoreOK, [Next]_vars PROVE StoreOK'
  OBVIOUS
<1>1. CASE UNCHANGED store
  BY <1>1 DEF StoreOK
<1>2. ASSUME NEW p \in Proxies, NEW on \in BOOLEAN, AddProxy(p, on) \/ AddUnsaved(p, on)
      PROVE  StoreOK'
  <2>1. Edited(p, on) \in [node : [Proxies -> BOOLEAN], file : [Proxies -> BOOLEAN]]
    <3> DEFINE table == [store.node EXCEPT ![p] = on]
    <3>1. table \in [Proxies -> BOOLEAN]
      BY DEF StoreOK
    <3>2. Edited(p, on) = [store EXCEPT !.node = table]
      BY DEF Edited
    <3> HIDE DEF table
    <3> QED BY <3>1, <3>2 DEF StoreOK
  <2>2. store' = Edited(p, on) \/ store' = Saved(Edited(p, on))
    BY <1>2 DEF AddProxy, AddUnsaved, Posted
  <2> HIDE DEF Edited
  <2> QED BY <2>1, <2>2 DEF Saved, StoreOK
<1>3. CASE Restart
  BY <1>3 DEF Restart, StoreOK
<1>4. ASSUME NEW s \in Sends,
             Ask(s) \/ SendOk(s) \/ SendFails(s) \/ RaceWon(s) \/ RaceLost(s)
      PROVE  UNCHANGED store
  BY <1>4 DEF Ask, SendOk, SendFails, RaceWon, RaceLost
<1>5. ASSUME NEW b \in Probes, ProbeEvicts(b) \/ ProbeEnds(b)
      PROVE  UNCHANGED store
  BY <1>5 DEF ProbeEvicts, ProbeEnds
<1>6. Tick \/ Sweep \/ UNCHANGED vars \/ (\E p \in Proxies : Unnamed(p)) => UNCHANGED store
  BY DEF Tick, Sweep, Unnamed, vars
<1> QED BY <1>1, <1>2, <1>3, <1>4, <1>5, <1>6 DEF Next

LEMMA SpecStore == Spec => []StoreOK
<1>1. Init => StoreOK
  BY DEF Init, StoreOK
<1> QED BY <1>1, NextStore, PTL DEF Spec

\* Pins, sends and probes name keys and proxies there are, whoever evicts or
\* renews a pin between two steps of a send.
THEOREM TypeCorrect == Spec => []TypeOK
<1>1. TableInv => SessionsOK
  BY DEF TableInv
<1>2. SessionsOK /\ StoreOK => TypeOK
  BY DEF TypeOK
<1> QED BY <1>1, <1>2, SpecTable, SpecStore, PTL

\* The table of pins never outgrows its limit, and its first pin is one used
\* least recently.
THEOREM TableStaysInOrder == Spec => []TableInOrder
<1>1. ASSUME TableInv
      PROVE  TableInOrder
  <2>1. WithinLimit
    BY <1>1 DEF TableInv, WithinLimit
  <2>2. OldestFirst
    BY <1>1 DEF TableInv, Table, Orders, AgesFall, OldestFirst
  <2> QED BY <2>1, <2>2 DEF TableInOrder
<1> QED BY <1>1, SpecTable, PTL

\* A pin that keeps being hit is looked at again.
THEOREM PinsLookedAtAgain == Spec => []LookedAtAgain
<1>1. ASSUME TableInv
      PROVE  LookedAtAgain
  <2> SUFFICES ASSUME NEW k \in Pinned(cache)
               PROVE  cache.pins[k].hits < RecheckHits + Cardinality(Sends)
    BY DEF LookedAtAgain
  <2>1. /\ cache.pins[k].hits \in Nat
        /\ cache.pins[k].hits + Cardinality(Senders(k)) < RecheckHits + Cardinality(Sends)
    BY <1>1 DEF TableInv, Table, Pins, HitsBounded
  <2>2. Cardinality(Senders(k)) \in Nat
    BY Counts DEF Senders
  <2> QED BY <2>1, <2>2, Counts
<1> QED BY <1>1, SpecTable, PTL
=============================================================================
