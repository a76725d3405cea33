-------------------------- MODULE Dispatch_proofs --------------------------
(***************************************************************************)
(* Proofs about Dispatch, for any proxies, domains, clients, handlers and  *)
(* configurations: a request that was read is answered once, one over HTTP *)
(* or a proxied CONNECT leaves no stream open behind it, a target is       *)
(* pronounced unreachable when, and only when, the evidence is complete,   *)
(* no request tries alone a proxy that failed it alone before, and wins in *)
(* a row replace the cached proxy.                                         *)
(***************************************************************************)
EXTENDS Dispatch, SequenceTheorems, FiniteSetTheorems, TLAPS

Pcs == {"idle", "unheard", "done", "single", "stream", "greet", "relay", "race", "ws", "head"}

\* A request between two actions: its answer is out where bytes flow, and not
\* before.
Well(q) ==
    /\ DOMAIN q = DOMAIN Idle /\ q.gone \in BOOLEAN /\ q.pc \in Pcs
    /\ q.pc \notin {"idle", "unheard", "done"} => q.domain \in Domains
    /\ q.pc \in {"stream", "relay"} => q.answers = 1
    /\ q.pc \notin {"stream", "relay", "done"} => q.answers = 0
    /\ q.pc = "done" => q.answers \in {0, 1} /\ (q.answers = 1 \/ q.gone)

AllWell == DOMAIN req = Requests /\ \A r \in Requests : Well(req[r])

\* Streams and tunnels are those of handlers that hold them, and a direct
\* tunnel is none of them before it relays.
Holds(q) ==
    \/ q.pc \in {"stream", "relay"}
    \/ q.pc = "greet" /\ q.via # "direct"
HeldWell ==
    \A h \in held : /\ h[1] \in Requests
                    /\ h[2] \in {"http", "tunnel"} => Holds(req[h[1]])

\* The evidence e about a target, the age o of the last success and what the
\* observer noted, s: the entry does not know more failures than there were,
\* nor fewer than those in a row.
Entries == [fails : 0 .. MinFails, prove : 0 .. ProveWindow + 1,
            judged : BOOLEAN, left : 0 .. DeadTtl]
SeenTyped(s) ==
    /\ DOMAIN s = DOMAIN NothingSeen
    /\ s.fails \in 0 .. MinFails /\ s.run \in 0 .. MinFails
    /\ s.gap \in 0 .. ProveWindow + 1 /\ s.due \in 0 .. DeadTtl
NotTooMuch(e, o, s) ==
    /\ e.prove > ProveWindow => s.gap = 0
    /\ e.fails <= s.fails \/ e.prove + o <= ProveWindow
NotTooLittle(e, s) ==
    /\ s.run > 0 /\ s.gap <= ProveWindow =>
          e.prove + s.gap >= ProveWindow + 1 /\ s.run <= e.fails
    /\ e.judged => e.fails = MinFails
    /\ e.left > 0 => e.judged /\ e.left < e.prove
    /\ e.judged /\ e.left = 0 /\ s.gap <= ProveWindow => s.run = 0
    /\ s.due > 0 => e.left >= s.due
Sound(e, o, s) ==
    /\ e \in Entries /\ o \in 0 .. ProveWindow /\ SeenTyped(s)
    /\ NotTooMuch(e, o, s) /\ NotTooLittle(e, s)

Tabs(t) ==
    /\ DOMAIN t = {"pin", "meta", "mark", "wins", "dead", "ok"}
    /\ DOMAIN t.dead = Domains /\ DOMAIN t.ok = Domains
AllSound ==
    /\ Tabs(tab) /\ DOMAIN seen = Domains
    /\ \A d \in Domains : Sound(tab.dead[d], tab.ok[d], seen[d])

\* The inductive invariant.
IInv == AllWell /\ HeldWell /\ AllSound
-----------------------------------------------------------------------------
(* What the events of one target do to its evidence.                        *)

LEMMA Numbers ==
  /\ MinFails \in Nat /\ MinFails >= 1
  /\ ProveWindow \in Nat /\ ProveWindow >= 1
  /\ DeadTtl \in Nat /\ DeadTtl >= 1 /\ DeadTtl <= ProveWindow
BY DispatchAssumption DEF DispatchAssumption

LEMMA NoEntryType == NoEntry \in Entries
BY Numbers DEF NoEntry, Entries

\* _dead_target_active of an entry that is no verdict.
CheckedEntry(e) ==
    IF e.prove = 0 THEN NoEntry
    ELSE IF e.judged THEN [e EXCEPT !.judged = FALSE, !.fails = 0] ELSE e
EvidenceOf(e) ==
    LET old == IF e.prove = 0 THEN NoEntry ELSE e
        n == Least(old.fails + 1, MinFails)
    IN  [fails |-> n, prove |-> ProveWindow + 1,
         judged |-> old.judged \/ n = MinFails,
         left |-> IF n = MinFails THEN DeadTtl ELSE old.left]

LEMMA SeenOkTyped ==
  ASSUME NEW s, SeenTyped(s)
  PROVE  /\ SeenTyped(SeenOk(s))
         /\ SeenOk(s).run = 0 /\ SeenOk(s).gap = s.gap /\ SeenOk(s).due = s.due
         /\ SeenOk(s).fails = IF s.gap = 0 THEN s.fails ELSE 0
BY Numbers DEF SeenTyped, SeenOk, NothingSeen

LEMMA SeenWinTyped ==
  ASSUME NEW s, SeenTyped(s), NEW p, NEW worse, NEW cleared
  PROVE  LET w == SeenWin(s, p, worse, cleared)
         IN  /\ SeenTyped(w)
             /\ w.run = 0 /\ w.gap = s.gap
             /\ w.fails = IF cleared THEN 0 ELSE s.fails
             /\ w.due = IF cleared THEN 0 ELSE s.due
BY Numbers DEF SeenTyped, SeenWin, NothingSeen

LEMMA SoundChecked ==
  ASSUME NEW e, NEW o, NEW s, Sound(e, o, s), e.left = 0
  PROVE  Sound(CheckedEntry(e), o, s) /\ CheckedEntry(e).left = 0
<1>1. CASE e.prove = 0
  BY <1>1, Numbers, NoEntryType
  DEF Sound, CheckedEntry, NoEntry, Entries, SeenTyped, NotTooMuch, NotTooLittle
<1>2. CASE e.prove # 0 /\ e.judged
  <2> DEFINE f == CheckedEntry(e)
  <2>1. f = [e EXCEPT !.judged = FALSE, !.fails = 0]
    BY <1>2 DEF CheckedEntry
  <2>2. f \in Entries /\ f.fails = 0 /\ f.prove = e.prove /\ ~f.judged /\ f.left = e.left
    <3>1. e \in Entries
      BY DEF Sound
    <3> DEFINE g == [e EXCEPT !.judged = FALSE]
    <3>2. g \in Entries
      BY <3>1, Zenon DEF Entries
    <3>3. f \in Entries
      <4>1. f = [g EXCEPT !.fails = 0]
        BY <2>1
      <4>2. 0 \in 0 .. MinFails
        BY Numbers
      <4> HIDE DEF f, g
      <4>3. [g EXCEPT !.fails = 0] \in Entries
        BY <3>2, <4>2, Zenon DEF Entries
      <4> QED BY <4>1, <4>3
    <3>4. f.fails = 0 /\ f.prove = e.prove /\ f.left = e.left
      BY <2>1, <3>1 DEF Entries
    <3>5. f.judged = FALSE
      BY <2>1, <3>1, Zenon DEF Entries
    <3> QED BY <3>3, <3>4, <3>5
  <2> HIDE DEF f
  <2>3. Sound(f, o, s)
    BY <1>2, <2>2, Numbers DEF Sound, Entries, SeenTyped, NotTooMuch, NotTooLittle
  <2> QED BY <2>2, <2>3 DEF f
<1>3. CASE e.prove # 0 /\ ~e.judged
  BY <1>3 DEF CheckedEntry
<1> QED BY <1>1, <1>2, <1>3

LEMMA SoundOk ==
  ASSUME NEW e, NEW o, NEW s, Sound(e, o, s)
  PROVE  Sound(e, 0, SeenOk(s))
<1> DEFINE u == SeenOk(s)
<1>1. /\ SeenTyped(u)
      /\ u.run = 0 /\ u.gap = s.gap /\ u.due = s.due
      /\ u.fails = IF s.gap = 0 THEN s.fails ELSE 0
  BY SeenOkTyped DEF Sound
<1> HIDE DEF u
<1>2. Sound(e, 0, u)
  BY <1>1, Numbers DEF Sound, SeenTyped, Entries, NotTooMuch, NotTooLittle
<1> QED BY <1>2 DEF u

LEMMA SoundWin ==
  ASSUME NEW e, NEW o, NEW s, Sound(e, o, s), NEW p, NEW worse, NEW cleared \in BOOLEAN
  PROVE  Sound(IF cleared THEN NoEntry ELSE e, o, SeenWin(s, p, worse, cleared))
<1> DEFINE u == SeenWin(s, p, worse, cleared)
<1>1. /\ SeenTyped(u)
      /\ u.run = 0 /\ u.gap = s.gap
      /\ u.fails = IF cleared THEN 0 ELSE s.fails
      /\ u.due = IF cleared THEN 0 ELSE s.due
  BY SeenWinTyped DEF Sound
<1> HIDE DEF u
<1>2. CASE cleared
  <2>1. Sound(NoEntry, o, u)
    BY <1>1, <1>2, Numbers, NoEntryType
    DEF Sound, SeenTyped, NoEntry, NotTooMuch, NotTooLittle
  <2> QED BY <1>2, <2>1 DEF u
<1>3. CASE ~cleared
  <2>1. Sound(e, o, u)
    BY <1>1, <1>3, Numbers DEF Sound, SeenTyped, Entries, NotTooMuch, NotTooLittle
  <2> QED BY <1>3, <2>1 DEF u
<1> QED BY <1>2, <1>3

\* A race that failed: the verdict is pronounced on complete evidence only.
LEMMA SoundFailure ==
  ASSUME NEW e, NEW o, NEW s, Sound(e, o, s)
  PROVE  LET f == IF o < ProveWindow THEN NoEntry ELSE EvidenceOf(e)
             u == SeenFailure(s, o < ProveWindow)
         IN  Sound(f, o, u) /\ (e.left = 0 /\ f.left > 0 => u.fails = MinFails)
<1> DEFINE f == IF o < ProveWindow THEN NoEntry ELSE EvidenceOf(e)
           u == SeenFailure(s, o < ProveWindow)
<1>1. CASE o < ProveWindow
  <2>1. SeenTyped(u) /\ u.run = 0 /\ u.due = 0 /\ u.fails = s.fails /\ u.gap = s.gap
    BY <1>1, Numbers DEF SeenFailure, Sound, SeenTyped, NothingSeen
  <2>2. f = NoEntry
    BY <1>1
  <2> HIDE DEF u, f
  <2>3. Sound(NoEntry, o, u) /\ ~(NoEntry.left > 0)
    BY <2>1, Numbers, NoEntryType DEF Sound, SeenTyped, NoEntry, NotTooMuch, NotTooLittle
  <2>4. Sound(f, o, u) /\ (e.left = 0 /\ f.left > 0 => u.fails = MinFails)
    BY <2>2, <2>3
  <2> QED BY <2>4 DEF u, f
<1>2. CASE ~(o < ProveWindow)
  <2> DEFINE old == IF e.prove = 0 THEN NoEntry ELSE e
             n == Least(old.fails + 1, MinFails)
             m == IF s.gap <= ProveWindow THEN Least(s.run + 1, MinFails) ELSE 1
  <2>1. old \in Entries /\ n \in 1 .. MinFails /\ m \in 1 .. MinFails
    BY Numbers, NoEntryType DEF Sound, Entries, Least, SeenTyped
  <2>2. /\ f.fails = n /\ f.prove = ProveWindow + 1
        /\ f.judged <=> (old.judged \/ n = MinFails)
        /\ f.left = IF n = MinFails THEN DeadTtl ELSE old.left
    BY <1>2 DEF EvidenceOf
  <2>3. f \in Entries
    <3>1. (old.judged \/ n = MinFails) \in BOOLEAN
      BY <2>1 DEF Entries
    <3>2. (IF n = MinFails THEN DeadTtl ELSE old.left) \in 0 .. DeadTtl
      BY <2>1, Numbers DEF Entries
    <3> QED BY <1>2, <2>1, <3>1, <3>2, Numbers DEF EvidenceOf, Entries
  <2>4. /\ DOMAIN u = DOMAIN NothingSeen
        /\ u.fails = Least(s.fails + 1, MinFails) /\ u.run = m /\ u.gap = 0
        /\ u.due = IF m = MinFails THEN DeadTtl ELSE s.due
    BY <1>2, Numbers DEF SeenFailure, Sound, SeenTyped, NothingSeen
  <2>5. SeenTyped(u)
    BY <2>1, <2>4, Numbers DEF SeenTyped, Sound, Least
  <2>6. o = ProveWindow
    BY <1>2, Numbers DEF Sound
  <2>7. m <= n
    <3>1. CASE s.gap <= ProveWindow /\ s.run > 0
      <4>1. e.prove > 0 /\ s.run <= e.fails
        BY <3>1, Numbers DEF Sound, NotTooLittle, SeenTyped, Entries
      <4> QED BY <3>1, <4>1, Numbers DEF Sound, Least, SeenTyped, Entries
    <3>2. CASE ~(s.gap <= ProveWindow /\ s.run > 0)
      <4>1. m = 1
        BY <3>2, Numbers DEF Sound, SeenTyped, Least
      <4> QED BY <2>1, <4>1
    <3> QED BY <3>1, <3>2
  <2>8. n <= u.fails
    <3>1. CASE e.prove = 0
      <4>1. n = 1
        BY <3>1, Numbers DEF NoEntry, Least
      <4> QED BY <2>4, <4>1, Numbers DEF Sound, SeenTyped, Least
    <3>2. CASE e.prove # 0
      <4>1. e.fails <= s.fails
        BY <2>6, <3>2, Numbers DEF Sound, NotTooMuch, Entries
      <4> QED BY <2>4, <3>2, <4>1, Numbers DEF Sound, SeenTyped, Entries, Least
    <3> QED BY <3>1, <3>2
  <2>9. old.judged => old.fails = MinFails
    BY DEF Sound, NotTooLittle, NoEntry
  <2>10. old.judged => n = MinFails
    BY <2>1, <2>9, Numbers DEF Least, Entries
  <2>11. old.left > 0 => old.judged
    BY Numbers DEF Sound, NotTooLittle, NoEntry
  <2>12. s.due > 0 => old.left >= s.due
    <3>1. CASE e.prove = 0
      BY <3>1, Numbers DEF Sound, NotTooLittle, Entries, SeenTyped
    <3>2. CASE e.prove # 0
      BY <3>2 DEF Sound, NotTooLittle
    <3> QED BY <3>1, <3>2
  <2> HIDE DEF n, m, old, f, u
  <2>13. NotTooMuch(f, o, u)
    BY <2>2, <2>4, <2>8, Numbers DEF NotTooMuch
  <2>14. NotTooLittle(f, u)
    <3>1. u.run > 0 /\ u.gap <= ProveWindow =>
            f.prove + u.gap >= ProveWindow + 1 /\ u.run <= f.fails
      BY <2>2, <2>4, <2>7, Numbers
    <3>2. f.judged => f.fails = MinFails
      BY <2>2, <2>10
    <3>3. f.left > 0 => f.judged /\ f.left < f.prove
      BY <2>1, <2>2, <2>10, <2>11, Numbers DEF Entries
    <3>4. f.judged => f.left > 0
      BY <2>2, <2>10, Numbers
    <3>5. u.due > 0 => f.left >= u.due
      BY <2>1, <2>2, <2>4, <2>7, <2>12, Numbers DEF Sound, SeenTyped, Entries
    <3> QED BY <3>1, <3>2, <3>3, <3>4, <3>5 DEF NotTooLittle
  <2>15. Sound(f, o, u)
    BY <2>3, <2>5, <2>13, <2>14 DEF Sound
  <2>16. e.left = 0 /\ f.left > 0 => u.fails = MinFails
    <3>1. e.left = 0 => old.left = 0
      BY DEF old, NoEntry
    <3>2. n = MinFails => u.fails = MinFails
      BY <2>5, <2>8, Numbers DEF SeenTyped
    <3> QED BY <2>2, <3>1, <3>2
  <2> QED BY <2>15, <2>16 DEF f, u
<1> QED BY <1>1, <1>2

LEMMA SoundTick ==
  ASSUME NEW e, NEW o, NEW s, Sound(e, o, s)
  PROVE  Sound([e EXCEPT !.prove = Less(@), !.left = Less(@)],
               Least(o + 1, ProveWindow),
               [s EXCEPT !.gap = Least(@ + 1, ProveWindow + 1), !.due = Less(@),
                         !.run = IF e.left = 1 THEN 0 ELSE @])
<1> DEFINE f == [e EXCEPT !.prove = Less(@), !.left = Less(@)]
           n == Least(o + 1, ProveWindow)
           u == [s EXCEPT !.gap = Least(@ + 1, ProveWindow + 1), !.due = Less(@),
                          !.run = IF e.left = 1 THEN 0 ELSE @]
<1>1. e \in Entries
  BY DEF Sound
<1>2. f \in Entries /\ f.fails = e.fails /\ f.prove = Less(e.prove) /\ f.left = Less(e.left)
  <2> DEFINE x == Less(e.prove)
             y == Less(e.left)
  <2>1. x \in 0 .. ProveWindow + 1 /\ y \in 0 .. DeadTtl
    BY <1>1, Numbers DEF Entries, Less
  <2>2. f = [[e EXCEPT !.prove = x] EXCEPT !.left = y]
    BY <1>1 DEF Entries
  <2> HIDE DEF x, y, f
  <2>3. [e EXCEPT !.prove = x] \in Entries
    BY <1>1, <2>1 DEF Entries
  <2>4. f \in Entries
    BY <2>1, <2>2, <2>3 DEF Entries
  <2>5. f.fails = e.fails /\ f.prove = x /\ f.left = y
    BY <1>1, <2>2 DEF Entries
  <2> QED BY <2>4, <2>5 DEF x, y
<1>3. f.judged <=> e.judged
  BY <1>1 DEF Entries
<1>4. /\ DOMAIN u = DOMAIN NothingSeen /\ u.fails = s.fails
      /\ u.gap = Least(s.gap + 1, ProveWindow + 1) /\ u.due = Less(s.due)
      /\ u.run = IF e.left = 1 THEN 0 ELSE s.run
  BY DEF Sound, SeenTyped, NothingSeen
<1>5. n \in 0 .. ProveWindow /\ n <= o + 1
  BY Numbers DEF Sound, Least
<1> HIDE DEF f, n, u
<1>6. SeenTyped(u)
  BY <1>4, Numbers DEF Sound, SeenTyped, Least, Less
<1>7. NotTooMuch(f, n, u)
  BY <1>1, <1>2, <1>4, <1>5, Numbers DEF Sound, SeenTyped, NotTooMuch, Entries, Less, Least
<1>8. NotTooLittle(f, u)
  BY <1>1, <1>2, <1>3, <1>4, Numbers DEF Sound, SeenTyped, NotTooLittle, Entries, Less, Least
<1>9. Sound(f, n, u)
  BY <1>2, <1>5, <1>6, <1>7, <1>8 DEF Sound
<1> QED BY <1>9 DEF f, n, u

-----------------------------------------------------------------------------
(* The tables: most of them have no part in a verdict.                      *)

\* u differs from t in other tables only.
SameEvidence(t, u) == DOMAIN u = DOMAIN t /\ u.dead = t.dead /\ u.ok = t.ok

LEMMA OtherTables ==
  ASSUME NEW t, Tabs(t), NEW c, NEW d, NEW p, NEW x, NEW b
  PROVE  /\ SameEvidence(t, Pinned(t, c, d, p, b))
         /\ SameEvidence(t, Evicted(t, c, d))
         /\ SameEvidence(t, Degraded(t, d, p))
         /\ SameEvidence(t, Unmarked(t, d, p))
         /\ SameEvidence(t, Counted(t, d, p, b))
<1>1. ASSUME NEW m PROVE SameEvidence(t, [t EXCEPT !.pin = m])
  BY DEF SameEvidence, Tabs
<1>2. ASSUME NEW m PROVE SameEvidence(t, [t EXCEPT !.mark = m])
  BY DEF SameEvidence, Tabs
<1>3. ASSUME NEW m PROVE SameEvidence(t, [t EXCEPT !.wins = m])
  BY DEF SameEvidence, Tabs
<1>4. SameEvidence(t, t)
  BY DEF SameEvidence
<1>5. SameEvidence(t, Pinned(t, c, d, p, b))
  BY <1>1, <1>4 DEF Pinned
<1>6. SameEvidence(t, Evicted(t, c, d))
  BY <1>1 DEF Evicted
<1>7. SameEvidence(t, Degraded(t, d, p))
  BY <1>2 DEF Degraded
<1>8. SameEvidence(t, Unmarked(t, d, p))
  BY <1>2 DEF Unmarked
<1>9. SameEvidence(t, Counted(t, d, p, b))
  BY <1>3, <1>4 DEF Counted
<1> QED BY <1>5, <1>6, <1>7, <1>8, <1>9

LEMMA SameTabs ==
  ASSUME NEW t, Tabs(t), NEW u, SameEvidence(t, u)
  PROVE  Tabs(u)
BY DEF Tabs, SameEvidence

LEMMA KeptSame ==
  ASSUME NEW t, Tabs(t), NEW q, NEW b
  PROVE  SameEvidence(t, Kept(q, t, b))
<1>1. \A c, d, p, x : SameEvidence(t, Pinned(t, c, d, p, x))
  BY OtherTables
<1>2. SameEvidence(t, t)
  BY DEF SameEvidence
<1> QED BY <1>1, <1>2 DEF Kept

LEMMA ReachedEvidence ==
  ASSUME NEW t, Tabs(t), NEW d \in Domains
  PROVE  LET u == Reached(t, d)
         IN  Tabs(u) /\ u.dead = t.dead /\ u.ok = [t.ok EXCEPT ![d] = 0]
BY DEF Tabs, Reached

LEMMA ClearedEvidence ==
  ASSUME NEW t, Tabs(t), NEW d \in Domains
  PROVE  LET u == Cleared(t, d)
         IN  Tabs(u) /\ u.dead = [t.dead EXCEPT ![d] = NoEntry] /\ u.ok = t.ok
BY DEF Tabs, Cleared

LEMMA CheckedEvidence ==
  ASSUME NEW t, Tabs(t), NEW d \in Domains
  PROVE  LET u == Checked(t, d)
         IN  /\ Tabs(u) /\ u.ok = t.ok
             /\ u.dead = [t.dead EXCEPT ![d] = CheckedEntry(t.dead[d])]
<1>1. Checked(t, d) = [t EXCEPT !.dead = [t.dead EXCEPT ![d] = CheckedEntry(t.dead[d])]]
  BY DEF Checked, CheckedEntry
<1> QED BY <1>1 DEF Tabs

LEMMA NotedEvidence ==
  ASSUME NEW t, Tabs(t), NEW d \in Domains
  PROVE  LET u == Noted(t, d)
         IN  /\ Tabs(u) /\ u.ok = t.ok
             /\ u.dead = [t.dead EXCEPT ![d] = IF t.ok[d] < ProveWindow THEN NoEntry
                                               ELSE EvidenceOf(t.dead[d])]
<1>1. Evidence(t, d) = EvidenceOf(t.dead[d])
  BY DEF Evidence, EvidenceOf
<1>2. Noted(t, d) = [t EXCEPT !.dead = [t.dead EXCEPT ![d] =
                        IF t.ok[d] < ProveWindow THEN NoEntry ELSE EvidenceOf(t.dead[d])]]
  BY <1>1 DEF Noted
<1> QED BY <1>2 DEF Tabs

LEMMA WinEvidence ==
  ASSUME NEW t, Tabs(t), NEW d \in Domains, NEW p, NEW worse, NEW sure
  PROVE  LET u == RecordedWin(t, d, p, worse, sure)
         IN  /\ Tabs(u) /\ u.ok = t.ok
             /\ u.dead = IF MaySwitch(t, d, p, sure) THEN [t.dead EXCEPT ![d] = NoEntry]
                         ELSE t.dead
<1> DEFINE w == Counted(Unmarked(t, d, p), d, p, sure)
           v == Cleared(w, d)
<1>1. SameEvidence(t, Unmarked(t, d, p)) /\ Tabs(Unmarked(t, d, p))
  BY OtherTables, SameTabs
<1>2. SameEvidence(Unmarked(t, d, p), w)
  BY <1>1, OtherTables
<1>3. Tabs(w) /\ w.dead = t.dead /\ w.ok = t.ok
  BY <1>1, <1>2, SameTabs DEF SameEvidence
<1>4. Tabs(v) /\ v.dead = [t.dead EXCEPT ![d] = NoEntry] /\ v.ok = t.ok
  BY <1>3, ClearedEvidence
<1>5. ASSUME NEW m
      PROVE  LET z == [v EXCEPT !.meta = m] IN Tabs(z) /\ z.dead = v.dead /\ z.ok = v.ok
  BY <1>4 DEF Tabs
<1>6. RecordedWin(t, d, p, worse, sure) \in
        {IF ~MaySwitch(t, d, p, sure) THEN w
         ELSE IF worse THEN v ELSE [v EXCEPT !.meta = [v.meta EXCEPT ![d] = p]]}
  BY DEF RecordedWin
<1> HIDE DEF w, v
<1> QED BY <1>3, <1>4, <1>5, <1>6

-----------------------------------------------------------------------------
(* A step of handler r.                                                     *)

\* r is in one of pcs, and nothing happened to the others.
Moved(r, pcs) ==
    /\ DOMAIN req' = Requests
    /\ Well(req[r])' /\ req[r].pc' \in pcs
    /\ \A x \in Requests \ {r} : req'[x] = req[x]

\* Its answer is not out yet.
Open(q) ==
    /\ DOMAIN q = DOMAIN Idle /\ q.gone \in BOOLEAN
    /\ q.answers = 0 /\ q.domain \in Domains

LEMMA GoMoves ==
  ASSUME AllWell, NEW r \in Requests, NEW q, NEW t, Go(r, q, t), Well(q)
  PROVE  Moved(r, {q.pc}) /\ tab' = t /\ req'[r] = q
<1>1. req' = [req EXCEPT ![r] = q] /\ tab' = t /\ DOMAIN req = Requests
  BY DEF Go, AllWell
<1>2. req'[r] = q
  BY <1>1
<1> QED BY <1>1, <1>2 DEF Moved, Well

LEMMA EndedWell ==
  ASSUME NEW q, q.gone \in BOOLEAN, NEW n \in {0, 1}, q.answers \in {0, 1},
         q.answers + n <= 1, q.answers = 1 \/ n = 1 \/ q.gone
  PROVE  Well(Ended(q, n)) /\ Ended(q, n).pc = "done"
BY DEF Well, Ended, Idle, Pcs

LEMMA GoneWell ==
  ASSUME NEW q, q.gone = TRUE, q.answers = 0
  PROVE  Well(Ended(q, 0)) /\ Ended(q, 0).pc = "done"
<1> DEFINE e == Ended(q, 0)
<1>0. q.answers + (IF q.gone THEN 0 ELSE 0) = 0
  OBVIOUS
<1>1. e = [Idle EXCEPT !.pc = "done", !.gone = TRUE, !.answers = 0]
  BY <1>0, Zenon DEF Ended
<1>2. DOMAIN e = DOMAIN Idle /\ e.pc = "done" /\ e.gone = TRUE /\ e.answers = 0
  BY <1>1 DEF Idle
<1> HIDE DEF e
<1>3. e.gone \in BOOLEAN
  BY <1>2
<1>4. Well(e)
  BY <1>2, <1>3 DEF Well, Pcs
<1> QED BY <1>2, <1>4 DEF e

LEMMA SingleWell ==
  ASSUME NEW q, Open(q), NEW via, NEW p
  PROVE  Well(Single(q, via, p)) /\ Single(q, via, p).pc = "single"
BY DEF Open, Well, Single, Idle, Pcs

LEMMA RacingWell ==
  ASSUME NEW q, Open(q), NEW batch, NEW left
  PROVE  Well(Racing(q, batch, left)) /\ Racing(q, batch, left).pc = "race"
BY DEF Open, Well, Racing, Idle, Pcs

LEMMA RaceStartMoves ==
  ASSUME AllWell, NEW r \in Requests, NEW q, Open(q), NEW t, RaceStart(r, q, t)
  PROVE  Moved(r, {"race", "done"}) /\ tab' = t
<1>1. Well(Ended(q, 1)) /\ Ended(q, 1).pc = "done"
  BY EndedWell DEF Open
<1>2. \A batch, left : Well(Racing(q, batch, left)) /\ Racing(q, batch, left).pc = "race"
  BY RacingWell
<1>3. PICK list \in Orders(q.domain) :
        \/ Go(r, Racing(q, {Local}, <<>>), t)
        \/ Go(r, Ended(q, 1), t)
        \/ \E l \in LocalToo(q.domain) : Go(r, Racing(q, Range(Batch(list)) \cup l, Left(list)), t)
  BY DEF RaceStart
<1>4. CASE Go(r, Racing(q, {Local}, <<>>), t)
  <2>1. Moved(r, {"race"}) /\ tab' = t
    BY <1>2, <1>4, GoMoves
  <2> QED BY <2>1 DEF Moved
<1>5. CASE Go(r, Ended(q, 1), t)
  <2>1. Moved(r, {"done"}) /\ tab' = t
    BY <1>1, <1>5, GoMoves
  <2> QED BY <2>1 DEF Moved
<1>6. ASSUME NEW l \in LocalToo(q.domain), Go(r, Racing(q, Range(Batch(list)) \cup l, Left(list)), t)
      PROVE  Moved(r, {"race"}) /\ tab' = t
  BY <1>2, <1>6, GoMoves
<1> QED BY <1>3, <1>4, <1>5, <1>6 DEF Moved

LEMMA CacheMoves ==
  ASSUME AllWell, NEW r \in Requests, NEW q, Open(q), NEW t, CacheOrRace(r, q, t)
  PROVE  Moved(r, {"single", "race", "done"}) /\ tab' = t
<1>1. ASSUME NEW p \in Fresh(t, q.domain), Go(r, Single(q, "cache", p), t)
      PROVE  Moved(r, {"single"}) /\ tab' = t
  BY <1>1, SingleWell, GoMoves
<1>2. CASE RaceStart(r, q, t)
  BY <1>2, RaceStartMoves DEF Moved
<1> QED BY <1>1, <1>2 DEF CacheOrRace, Moved

LEMMA StickyMoves ==
  ASSUME AllWell, NEW r \in Requests, NEW q, Open(q), NEW t, Tabs(t), StickyCacheOrRace(r, q, t)
  PROVE  Moved(r, {"single", "race", "done"}) /\ SameEvidence(t, tab')
<1> DEFINE u == Evicted(t, q.client, q.domain)
<1>1. SameEvidence(t, u) /\ SameEvidence(t, t)
  BY OtherTables DEF SameEvidence
<1>2. ASSUME NEW p, Go(r, Single(q, "sticky", p), t)
      PROVE  Moved(r, {"single"}) /\ tab' = t
  BY <1>2, SingleWell, GoMoves
<1>3. CASE CacheOrRace(r, q, u)
  BY <1>1, <1>3, CacheMoves
<1>4. CASE CacheOrRace(r, q, t)
  BY <1>1, <1>4, CacheMoves
<1>5. CASE RaceStart(r, q, u)
  BY <1>1, <1>5, RaceStartMoves DEF Moved
<1>6. \/ \E p \in Pinnable(t, q.client, q.domain) : Go(r, Single(q, "sticky", p), t)
      \/ CacheOrRace(r, q, u) \/ CacheOrRace(r, q, t) \/ RaceStart(r, q, u)
  BY DEF StickyCacheOrRace
<1>7. CASE \E p \in Pinnable(t, q.client, q.domain) : Go(r, Single(q, "sticky", p), t)
  BY <1>1, <1>2, <1>7 DEF Moved
<1> QED BY <1>3, <1>4, <1>5, <1>6, <1>7

LEMMA DirectlyMoves ==
  ASSUME AllWell, NEW r \in Requests, NEW q, Open(q), NEW t, ServedDirectly(r, q, t)
  PROVE  Moved(r, {"single", "done"}) /\ tab' = t
<1>1. CASE Go(r, Single(q, "direct", Local), t)
  BY <1>1, SingleWell, GoMoves DEF Moved
<1>2. CASE Go(r, Ended(q, 1), t)
  BY <1>2, EndedWell, GoMoves DEF Moved, Open
<1> QED BY <1>1, <1>2 DEF ServedDirectly

LEMMA FallBackMoves ==
  ASSUME AllWell, NEW r \in Requests, NEW q, Open(q), NEW t, Tabs(t), FallBack(r, q, t)
  PROVE  Moved(r, {"single", "race", "done"}) /\ SameEvidence(t, tab')
<1> DEFINE u == Degraded(t, q.domain, q.pid)
           v == Evicted(u, q.client, q.domain)
           s == [q EXCEPT !.pid = None, !.via = None, !.failed = @ \cup {q.pid}]
<1>1. Open(s)
  BY DEF Open, Idle
<1>2. SameEvidence(t, u) /\ Tabs(u)
  BY OtherTables, SameTabs
<1>3. SameEvidence(u, v)
  BY <1>2, OtherTables
<1>4. SameEvidence(t, v) /\ SameEvidence(t, t)
  BY <1>2, <1>3 DEF SameEvidence
<1>5. CacheOrRace(r, s, v) \/ RaceStart(r, s, u) \/ Go(r, Ended(q, 1), t)
  BY DEF FallBack, DirectFails
<1> HIDE DEF s, u, v
<1>6. CASE CacheOrRace(r, s, v)
  BY <1>1, <1>4, <1>6, CacheMoves
<1>7. CASE RaceStart(r, s, u)
  BY <1>1, <1>2, <1>7, RaceStartMoves DEF Moved
<1>8. CASE Go(r, Ended(q, 1), t)
  BY <1>4, <1>8, EndedWell, GoMoves DEF Moved, Open
<1> QED BY <1>5, <1>6, <1>7, <1>8

-----------------------------------------------------------------------------
(* What a step of r must keep.                                              *)

Judgement ==
    \A d \in Domains : ~Active(tab, d) /\ Active(tab, d)' => seen'[d].fails = MinFails

LEMMA WellStep ==
  ASSUME AllWell, NEW r \in Requests, NEW pcs, Moved(r, pcs)
  PROVE  AllWell'
BY DEF AllWell, Moved

LEMMA HeldStep ==
  ASSUME HeldWell, NEW r \in Requests, NEW pcs, Moved(r, pcs),
         \A h \in held' :
            \/ h \in held /\ h[1] # r
            \/ h \in held /\ ~Holds(req[r])
            \/ h[1] = r /\ (h[2] \in {"http", "tunnel"} => Holds(req[r])')
  PROVE  HeldWell'
BY DEF HeldWell, Moved, Holds

LEMMA EvidenceStep ==
  ASSUME AllSound, NEW d \in Domains, NEW e, NEW o, NEW s, Sound(e, o, s),
         Tabs(tab)', DOMAIN seen' = Domains,
         tab.dead[d]' = e, tab.ok[d]' = o, seen[d]' = s,
         \A x \in Domains \ {d} :
            tab.dead[x]' = tab.dead[x] /\ tab.ok[x]' = tab.ok[x] /\ seen[x]' = seen[x],
         tab.dead[d].left = 0 /\ e.left > 0 => s.fails = MinFails
  PROVE  AllSound' /\ Judgement
<1>1. AllSound'
  BY DEF AllSound
<1>2. tab.dead[d].left \in Nat
  BY Numbers DEF AllSound, Sound, Entries
<1> QED BY <1>1, <1>2 DEF Judgement, Active

LEMMA NoEvidence ==
  ASSUME AllSound, SameEvidence(tab, tab'), UNCHANGED seen
  PROVE  AllSound' /\ Judgement
BY DEF AllSound, SameEvidence, Tabs, Judgement, Active

-----------------------------------------------------------------------------
(* The actions of handler r.                                                *)

Stepped == AllWell' /\ HeldWell' /\ AllSound' /\ Judgement

\* Handler r had nothing open, nothing was opened, and no table of evidence
\* has changed.
LEMMA PlainStep ==
  ASSUME IInv, NEW r \in Requests, ~Holds(req[r]), NEW pcs, Moved(r, pcs),
         SameEvidence(tab, tab'), UNCHANGED <<held, seen>>
  PROVE  Stepped
<1>1. AllSound' /\ Judgement
  BY NoEvidence DEF IInv
<1>2. HeldWell'
  BY HeldStep DEF IInv
<1> QED BY <1>1, <1>2, WellStep DEF IInv, Stepped

LEMMA ClosedStep ==
  ASSUME IInv, NEW r \in Requests, NEW pcs, Moved(r, pcs), held' = Closed(r)
  PROVE  AllWell' /\ HeldWell'
<1>1. HeldWell'
  BY HeldStep DEF IInv, Closed
<1> QED BY <1>1, WellStep DEF IInv

LEMMA AskedOpen ==
  ASSUME NEW r, NEW proto, NEW c, NEW d \in Domains
  PROVE  Open(Asked(r, proto, c, d)) /\ Asked(r, proto, c, d).domain = d
BY DEF Open, Asked, Idle

LEMMA SameSelf == ASSUME NEW t PROVE SameEvidence(t, t)
BY DEF SameEvidence

LEMMA ArrivesStep ==
  ASSUME IInv, NEW r \in Requests,
         Refuse(r) \/ HangUp(r) \/ ArriveDirect(r) \/ FastFail(r)
  PROVE  Stepped
<1>1. ~Holds(req[r]) /\ UNCHANGED <<held, seen>> /\ AllWell
  BY DEF Refuse, HangUp, ArriveDirect, FastFail, Free, Holds, IInv
<1>2. CASE Refuse(r)
  <2>1. Well(Ended(Idle, 1))
    <3>1. Idle.gone \in BOOLEAN /\ Idle.answers = 0
      BY DEF Idle
    <3> QED BY <3>1, EndedWell
  <2>2. Moved(r, {Ended(Idle, 1).pc}) /\ tab' = tab
    BY <1>1, <1>2, <2>1, GoMoves DEF Refuse
  <2> QED BY <1>1, <2>2, PlainStep, SameSelf
<1>3. CASE ArriveDirect(r)
  <2>1. PICK proto \in Protos, c \in Clients, d \in DirectDomains : ServedDirectly(r, Asked(r, proto, c, d), tab)
    BY <1>3 DEF ArriveDirect
  <2>2. Open(Asked(r, proto, c, d))
    BY AskedOpen DEF DirectDomains
  <2>3. Moved(r, {"single", "done"}) /\ tab' = tab
    BY <1>1, <2>1, <2>2, DirectlyMoves
  <2> QED BY <1>1, <2>3, PlainStep, SameSelf
<1>4. CASE FastFail(r)
  <2>1. PICK proto \in Protos, c \in Clients, d \in Domains : Go(r, Ended(Asked(r, proto, c, d), 1), tab)
    BY <1>4 DEF FastFail
  <2> DEFINE q == Asked(r, proto, c, d)
  <2>2. Well(Ended(q, 1))
    BY AskedOpen, EndedWell DEF Open
  <2>3. Moved(r, {Ended(q, 1).pc}) /\ tab' = tab
    BY <1>1, <2>1, <2>2, GoMoves
  <2> QED BY <1>1, <2>3, PlainStep, SameSelf
<1>5. CASE HangUp(r)
  <2> DEFINE q == [Idle EXCEPT !.pc = "unheard"]
  <2>1. Well(q)
    BY DEF Well, Idle, Pcs
  <2>2. Moved(r, {q.pc}) /\ tab' = tab
    BY <1>1, <1>5, <2>1, GoMoves DEF HangUp
  <2> QED BY <1>1, <2>2, PlainStep, SameSelf
<1> QED BY <1>2, <1>3, <1>4, <1>5

\* The verdict that is asked about first may lose its evidence.
LEMMA CheckedSound ==
  ASSUME AllSound, NEW d \in Domains, ~Active(tab, d), SameEvidence(Checked(tab, d), tab'),
         UNCHANGED seen
  PROVE  AllSound' /\ Judgement
<1> DEFINE e == CheckedEntry(tab.dead[d])
           u == Checked(tab, d)
<1>1. Tabs(tab) /\ Sound(tab.dead[d], tab.ok[d], seen[d])
  BY DEF AllSound
<1>2. tab.dead[d].left = 0
  BY <1>1, Numbers DEF Sound, Entries, Active
<1>3. Sound(e, tab.ok[d], seen[d]) /\ e.left = 0
  BY <1>1, <1>2, SoundChecked
<1>4. Tabs(u) /\ u.ok = tab.ok /\ u.dead = [tab.dead EXCEPT ![d] = e]
  BY <1>1, CheckedEvidence
<1> HIDE DEF e, u
<1>5. Tabs(tab)' /\ tab.dead' = [tab.dead EXCEPT ![d] = e] /\ tab.ok' = tab.ok
  <2>1. SameEvidence(u, tab')
    BY DEF u
  <2> QED BY <1>4, <2>1 DEF SameEvidence, Tabs
<1>6. tab.dead[d]' = e /\ \A x \in Domains \ {d} : tab.dead[x]' = tab.dead[x]
  BY <1>1, <1>5 DEF Tabs
<1> QED BY <1>2, <1>3, <1>5, <1>6, EvidenceStep DEF AllSound

LEMMA ArriveStep ==
  ASSUME IInv, NEW r \in Requests, Arrive(r)
  PROVE  Stepped
<1>1. PICK proto \in Protos, c \in Clients, d \in Domains :
        ~Active(tab, d) /\ StickyCacheOrRace(r, Asked(r, proto, c, d), Checked(tab, d))
  BY DEF Arrive
<1>2. AllWell /\ AllSound /\ Tabs(tab) /\ ~Holds(req[r]) /\ UNCHANGED <<held, seen>>
  BY DEF IInv, AllSound, Arrive, Free, Holds
<1>3. Open(Asked(r, proto, c, d)) /\ Tabs(Checked(tab, d))
  BY <1>2, AskedOpen, CheckedEvidence
<1>4. Moved(r, {"single", "race", "done"}) /\ SameEvidence(Checked(tab, d), tab')
  BY <1>1, <1>2, <1>3, StickyMoves
<1>5. AllSound' /\ Judgement
  BY <1>1, <1>2, <1>4, CheckedSound
<1>6. HeldWell'
  BY <1>2, <1>4, HeldStep DEF IInv
<1> QED BY <1>2, <1>4, <1>5, <1>6, WellStep DEF Stepped

LEMMA ArriveWsStep ==
  ASSUME IInv, NEW r \in Requests, ArriveWs(r)
  PROVE  Stepped
<1>1. AllWell /\ AllSound /\ Tabs(tab) /\ ~Holds(req[r]) /\ UNCHANGED <<held, seen>>
  BY DEF IInv, AllSound, ArriveWs, Free, Holds
<1>2. PICK c \in Clients, d \in Domains :
        /\ ~Active(tab, d)
        /\ \E queue, t :
              /\ t = Checked(tab, d) \/ t = Evicted(Checked(tab, d), c, d)
              /\ Go(r, [[Asked(r, "ws", c, d) EXCEPT !.pc = "ws"] EXCEPT !.queue = queue], t)
  <2>1. PICK c \in Clients, d \in Domains :
          LET t == Checked(tab, d)
              q == [Asked(r, "ws", c, d) EXCEPT !.pc = "ws"]
          IN  /\ ~Active(tab, d)
              /\ \/ Go(r, [q EXCEPT !.queue = <<Local>>], t)
                 \/ \E use \in OneOf(Pinnable(t, c, d)), hit \in OneOf(Fresh(t, d)),
                       drop \in BOOLEAN, others \in Orders(d) :
                      LET first == IF hit = use THEN use ELSE use \o hit
                      IN  /\ Range(first) \cap Range(others) = {}
                          /\ Go(r, [q EXCEPT !.queue = WsQueue(first, others)],
                                IF use = <<>> /\ drop THEN Evicted(t, c, d) ELSE t)
    BY Zenon DEF ArriveWs
  <2> QED BY <2>1
<1>20. PICK queue, t :
              /\ t = Checked(tab, d) \/ t = Evicted(Checked(tab, d), c, d)
              /\ Go(r, [[Asked(r, "ws", c, d) EXCEPT !.pc = "ws"] EXCEPT !.queue = queue], t)
  BY <1>2
<1> DEFINE q == [[Asked(r, "ws", c, d) EXCEPT !.pc = "ws"] EXCEPT !.queue = queue]
<1>3. Well(q)
  BY DEF Well, Asked, Idle, Pcs
<1>4. Tabs(Checked(tab, d))
  BY <1>1, CheckedEvidence
<1>5. SameEvidence(Checked(tab, d), t)
  BY <1>20, <1>4, OtherTables, SameSelf
<1>6. Moved(r, {q.pc}) /\ tab' = t
  BY <1>1, <1>20, <1>3, GoMoves
<1>7. AllSound' /\ Judgement
  BY <1>1, <1>2, <1>5, <1>6, CheckedSound
<1>8. HeldWell'
  BY <1>1, <1>6, HeldStep DEF IInv
<1> QED BY <1>1, <1>6, <1>7, <1>8, WellStep DEF Stepped

\* Somebody reached the target.
LEMMA OkSound ==
  ASSUME AllSound, NEW d \in Domains, SameEvidence(Reached(tab, d), tab'),
         seen' = [seen EXCEPT ![d] = SeenOk(@)]
  PROVE  AllSound' /\ Judgement
<1>1. Tabs(tab) /\ Sound(tab.dead[d], tab.ok[d], seen[d]) /\ DOMAIN seen = Domains
  BY DEF AllSound
<1>2. Sound(tab.dead[d], 0, SeenOk(seen[d]))
  BY <1>1, SoundOk
<1>3. LET u == Reached(tab, d)
      IN  Tabs(u) /\ u.dead = tab.dead /\ u.ok = [tab.ok EXCEPT ![d] = 0]
  BY <1>1, ReachedEvidence
<1>4. Tabs(tab)' /\ tab.dead' = tab.dead /\ tab.ok' = [tab.ok EXCEPT ![d] = 0]
  BY <1>3 DEF SameEvidence, Tabs
<1>5. /\ tab.ok[d]' = 0 /\ seen[d]' = SeenOk(seen[d]) /\ DOMAIN seen' = Domains
      /\ \A x \in Domains \ {d} : tab.ok[x]' = tab.ok[x] /\ seen[x]' = seen[x]
  BY <1>1, <1>4 DEF Tabs
<1>6. ~(tab.dead[d].left = 0 /\ tab.dead[d].left > 0)
  OBVIOUS
<1> QED BY <1>2, <1>4, <1>5, <1>6, EvidenceStep

LEMMA WellOpen ==
  ASSUME AllWell, NEW r \in Requests, req[r].pc \in {"single", "greet", "race", "ws", "head"}
  PROVE  Open(req[r]) /\ req[r].domain \in Domains
BY DEF AllWell, Well, Open

\* Only a direct tunnel is greeted without being one that must be closed.
LEMMA OpenedHolds ==
  ASSUME NEW q, Open(q)
  PROVE  Well(Opened(q)) /\ (Kind(q) \in {"http", "tunnel"} => Holds(Opened(q)))
<1>1. CASE q.proto = "http"
  <2>1. Opened(q) = [[q EXCEPT !.pc = "stream"] EXCEPT !.answers = q.answers + 1]
    BY <1>1 DEF Opened, Open, Idle
  <2>2. /\ DOMAIN Opened(q) = DOMAIN Idle /\ Opened(q).pc = "stream" /\ Opened(q).answers = 1
        /\ Opened(q).domain = q.domain /\ Opened(q).gone = q.gone
    BY <2>1 DEF Open, Idle
  <2>3. Holds(Opened(q))
    BY <2>2 DEF Holds
  <2>4. Opened(q).gone \in BOOLEAN /\ Opened(q).domain \in Domains
    BY <2>2 DEF Open
  <2>5. Well(Opened(q))
    BY <2>2, <2>4 DEF Well, Pcs
  <2> QED BY <2>3, <2>5
<1>2. CASE q.proto # "http"
  <2>1. Opened(q) = [q EXCEPT !.pc = "greet"]
    BY <1>2 DEF Opened
  <2>2. /\ DOMAIN Opened(q) = DOMAIN Idle /\ Opened(q).pc = "greet" /\ Opened(q).answers = 0
        /\ Opened(q).domain = q.domain /\ Opened(q).gone = q.gone /\ Opened(q).via = q.via
    BY <2>1 DEF Open, Idle
  <2> QED BY <1>2, <2>2 DEF Open, Well, Pcs, Holds, Kind
<1> QED BY <1>1, <1>2

LEMMA SingleOkStep ==
  ASSUME IInv, NEW r \in Requests, SingleOk(r)
  PROVE  Stepped
<1> DEFINE q == req[r]
           d == q.domain
           t == Reached(tab, d)
<1>1. AllWell /\ AllSound /\ Tabs(tab) /\ q.pc = "single" /\ Open(q) /\ d \in Domains
  BY WellOpen DEF IInv, AllSound, SingleOk, Alone
<1>2. PICK u : Go(r, Opened(q), u) /\ (u = t \/ \E worse \in BOOLEAN : u = Kept(q, t, worse))
  BY DEF SingleOk
<1>3. held' = held \cup {<<r, Kind(q)>>} /\ seen' = [seen EXCEPT ![d] = SeenOk(@)]
  BY DEF SingleOk
<1>4. Tabs(t)
  BY <1>1, ReachedEvidence
<1>5. SameEvidence(t, u)
  BY <1>2, <1>4, KeptSame, SameSelf
<1>6. Well(Opened(q)) /\ (Kind(q) \in {"http", "tunnel"} => Holds(Opened(q)))
  BY <1>1, OpenedHolds
<1>7. Moved(r, {Opened(q).pc}) /\ tab' = u /\ req'[r] = Opened(q)
  BY <1>1, <1>2, <1>6, GoMoves
<1>8. AllSound' /\ Judgement
  BY <1>1, <1>3, <1>5, <1>7, OkSound
<1>9. HeldWell'
  <2>1. ~Holds(req[r]) /\ (Kind(q) \in {"http", "tunnel"} => Holds(req[r])')
    <3>1. ~Holds(req[r])
      BY <1>1 DEF Holds
    <3>2. (Holds(req[r]))' <=> Holds(Opened(q))
      BY <1>7 DEF Holds
    <3> QED BY <1>6, <3>1, <3>2
  <2>2. \A h \in held' : h \in held \/ (h[1] = r /\ h[2] = Kind(q))
    <3>1. <<r, Kind(q)>>[1] = r /\ <<r, Kind(q)>>[2] = Kind(q)
      OBVIOUS
    <3>2. held' = held \cup {<<r, Kind(q)>>}
      BY <1>3
    <3> QED BY <3>1, <3>2, Zenon
  <2> HIDE DEF q
  <2> QED BY <1>7, <2>1, <2>2, HeldStep DEF IInv
<1> QED BY <1>1, <1>7, <1>8, <1>9, WellStep DEF Stepped

LEMMA SingleFailsStep ==
  ASSUME IInv, NEW r \in Requests, SingleFails(r)
  PROVE  Stepped
<1>1. AllWell /\ Tabs(tab) /\ req[r].pc = "single" /\ Open(req[r]) /\ ~Holds(req[r])
  BY WellOpen DEF IInv, AllSound, SingleFails, Alone, Holds
<1>2. Moved(r, {"single", "race", "done"}) /\ SameEvidence(tab, tab')
  BY <1>1, FallBackMoves DEF SingleFails
<1> QED BY <1>1, <1>2, PlainStep DEF SingleFails

LEMMA ServerErrorStep ==
  ASSUME IInv, NEW r \in Requests, SingleServerError(r)
  PROVE  Stepped
<1> DEFINE d == req[r].domain
<1>1. /\ AllWell /\ AllSound /\ Tabs(tab) /\ req[r].pc = "single" /\ Open(req[r])
      /\ ~Holds(req[r]) /\ d \in Domains
  BY WellOpen DEF IInv, AllSound, SingleServerError, Alone, Holds
<1>2. Tabs(Reached(tab, d)) /\ FallBack(r, req[r], Reached(tab, d))
  BY <1>1, ReachedEvidence DEF SingleServerError
<1>3. Moved(r, {"single", "race", "done"}) /\ SameEvidence(Reached(tab, d), tab')
  BY <1>1, <1>2, FallBackMoves
<1>4. UNCHANGED held /\ seen' = [seen EXCEPT ![d] = SeenOk(@)]
  BY DEF SingleServerError
<1>5. AllSound' /\ Judgement
  BY <1>1, <1>3, <1>4, OkSound
<1>6. HeldWell'
  BY <1>1, <1>3, <1>4, HeldStep DEF IInv
<1> QED BY <1>1, <1>3, <1>5, <1>6, WellStep DEF Stepped

\* Handlers that only close what they held.
LEMMA EndsStep ==
  ASSUME IInv, NEW r \in Requests, StreamEnds(r) \/ RelayEnds(r)
  PROVE  Stepped
<1>1. AllWell /\ AllSound /\ Tabs(tab) /\ req[r].pc \in {"stream", "relay"} /\ Well(req[r])
  BY DEF IInv, AllSound, AllWell, StreamEnds, RelayEnds
<1>2. held' = Closed(r) /\ UNCHANGED seen
  BY DEF StreamEnds, RelayEnds
<1>3. PICK t : Go(r, Ended(req[r], 0), t) /\ SameEvidence(tab, t)
  BY <1>1, KeptSame, SameSelf DEF StreamEnds, RelayEnds
<1>4. Well(Ended(req[r], 0))
  BY <1>1, EndedWell DEF Well
<1>5. Moved(r, {Ended(req[r], 0).pc}) /\ tab' = t
  BY <1>1, <1>3, <1>4, GoMoves
<1>6. AllSound' /\ Judgement
  BY <1>1, <1>2, <1>3, <1>5, NoEvidence
<1> QED BY <1>2, <1>5, <1>6, ClosedStep DEF Stepped

LEMMA GreetOkStep ==
  ASSUME IInv, NEW r \in Requests, GreetOk(r)
  PROVE  Stepped
<1> DEFINE q == [req[r] EXCEPT !.pc = "relay", !.via = None, !.pid = None,
                               !.failed = {}, !.answers = @ + 1]
<1>1. AllWell /\ AllSound /\ Open(req[r]) /\ UNCHANGED <<held, seen>> /\ Go(r, q, tab)
  BY WellOpen DEF IInv, GreetOk
<1>2. /\ DOMAIN q = DOMAIN Idle /\ q.pc = "relay" /\ q.answers = 1
      /\ q.domain = req[r].domain /\ q.gone = req[r].gone
  BY <1>1 DEF Open, Idle
<1> HIDE DEF q
<1>3. Well(q) /\ Holds(q)
  BY <1>1, <1>2 DEF Open, Well, Pcs, Holds
<1>4. Moved(r, {q.pc}) /\ tab' = tab /\ req'[r] = q
  BY <1>1, <1>3, GoMoves
<1>5. HeldWell'
  <2>1. (Holds(req[r]))'
    BY <1>3, <1>4 DEF Holds
  <2> QED BY <1>1, <1>4, <2>1, HeldStep DEF IInv
<1>6. AllSound' /\ Judgement
  BY <1>1, <1>4, NoEvidence, SameSelf
<1> QED BY <1>1, <1>4, <1>5, <1>6, WellStep DEF Stepped

LEMMA GreetFailsStep ==
  ASSUME IInv, NEW r \in Requests, GreetFails(r)
  PROVE  Stepped
<1> DEFINE q == [req[r] EXCEPT !.gone = TRUE]
<1>1. AllWell /\ AllSound /\ Tabs(tab) /\ Open(req[r]) /\ held' = Closed(r) /\ UNCHANGED seen
  BY WellOpen DEF IInv, AllSound, GreetFails
<1>2. Go(r, Ended(q, 0), tab) \/ FallBack(r, q, tab)
  BY DEF GreetFails
<1>3. Open(q) /\ q.gone = TRUE
  BY <1>1 DEF Open, Idle
<1> HIDE DEF q
<1>4. CASE Go(r, Ended(q, 0), tab)
  <2>1. Well(Ended(q, 0))
    BY <1>3, GoneWell DEF Open
  <2>2. Moved(r, {Ended(q, 0).pc}) /\ tab' = tab
    BY <1>1, <1>4, <2>1, GoMoves
  <2> QED BY <1>1, <2>2, ClosedStep, NoEvidence, SameSelf DEF Stepped
<1>5. CASE FallBack(r, q, tab)
  <2>1. Moved(r, {"single", "race", "done"}) /\ SameEvidence(tab, tab')
    BY <1>1, <1>3, <1>5, FallBackMoves
  <2> QED BY <1>1, <2>1, ClosedStep, NoEvidence DEF Stepped
<1> QED BY <1>2, <1>4, <1>5

LEMMA ProbeAnsweredStep ==
  ASSUME IInv, NEW d \in Domains, ProbeAnswered(d)
  PROVE  Stepped
<1>1. AllSound' /\ Judgement
  BY OkSound, SameSelf DEF IInv, ProbeAnswered
<1>2. AllWell' /\ HeldWell'
  BY DEF IInv, AllWell, HeldWell, ProbeAnswered
<1> QED BY <1>1, <1>2 DEF Stepped

\* For the tables a server error in a race is such an answer.
LEMMA RaceServerErrorIsAnswer ==
  ASSUME AllWell, NEW r \in Requests, RaceServerError(r)
  PROVE  req[r].domain \in Domains /\ ProbeAnswered(req[r].domain)
BY WellOpen DEF RaceServerError, ProbeAnswered, InRace

\* A win: the target was reached, unless only its proxy was, and the verdict
\* is lifted unless the switch is damped.
LEMMA WinSound ==
  ASSUME AllSound, NEW d \in Domains, NEW t, NEW s,
         \/ t = Reached(tab, d) /\ s = SeenOk(seen[d])
         \/ t = tab /\ s = seen[d],
         NEW p, NEW worse, NEW sure,
         SameEvidence(RecordedWin(t, d, p, worse, sure), tab'),
         seen' = [seen EXCEPT ![d] = SeenWin(s, p, worse, MaySwitch(t, d, p, sure))]
  PROVE  AllSound' /\ Judgement
<1> DEFINE cleared == MaySwitch(t, d, p, sure)
           w == SeenWin(s, p, worse, cleared)
           u == RecordedWin(t, d, p, worse, sure)
<1>1. Tabs(tab) /\ Sound(tab.dead[d], tab.ok[d], seen[d]) /\ DOMAIN seen = Domains
  BY DEF AllSound
<1>2. /\ Tabs(t) /\ t.dead = tab.dead /\ Sound(tab.dead[d], t.ok[d], s)
      /\ \A x \in Domains \ {d} : t.ok[x] = tab.ok[x]
  <2>1. CASE t = Reached(tab, d) /\ s = SeenOk(seen[d])
    <3>1. Tabs(t) /\ t.dead = tab.dead /\ t.ok = [tab.ok EXCEPT ![d] = 0]
      BY <1>1, <2>1, ReachedEvidence
    <3>2. t.ok[d] = 0 /\ \A x \in Domains \ {d} : t.ok[x] = tab.ok[x]
      BY <1>1, <3>1 DEF Tabs
    <3> QED BY <1>1, <2>1, <3>1, <3>2, SoundOk
  <2>2. CASE t = tab /\ s = seen[d]
    BY <1>1, <2>2
  <2> QED BY <2>1, <2>2
<1>3. cleared \in BOOLEAN
  BY DEF MaySwitch, Unopposed, Enough
<1>4. Sound(IF cleared THEN NoEntry ELSE tab.dead[d], t.ok[d], w)
  BY <1>2, <1>3, SoundWin
<1>5. /\ Tabs(u) /\ u.ok = t.ok
      /\ u.dead = IF cleared THEN [t.dead EXCEPT ![d] = NoEntry] ELSE t.dead
  BY <1>2, WinEvidence
<1>6. SameEvidence(u, tab') /\ seen' = [seen EXCEPT ![d] = w]
  OBVIOUS
<1>7. NoEntry.left = 0
  BY DEF NoEntry
<1> HIDE DEF u, w, cleared
<1>8. Tabs(tab)' /\ tab.ok' = t.ok /\ tab.dead' = u.dead
  BY <1>5, <1>6 DEF SameEvidence, Tabs
<1>9. seen[d]' = w /\ DOMAIN seen' = Domains /\ \A x \in Domains \ {d} : seen[x]' = seen[x]
  BY <1>1, <1>6
<1>10. /\ tab.dead[d]' = IF cleared THEN NoEntry ELSE tab.dead[d]
       /\ \A x \in Domains \ {d} : tab.dead[x]' = tab.dead[x]
  BY <1>1, <1>2, <1>5, <1>8 DEF Tabs
<1>11. ~(tab.dead[d].left = 0 /\ (IF cleared THEN NoEntry ELSE tab.dead[d]).left > 0)
  BY <1>7
<1> QED BY <1>2, <1>4, <1>8, <1>9, <1>10, <1>11, EvidenceStep

LEMMA RaceWonStep ==
  ASSUME IInv, NEW r \in Requests, RaceWon(r)
  PROVE  Stepped
<1> DEFINE q == req[r]
           d == q.domain
           t == Reached(tab, d)
<1>1. AllWell /\ AllSound /\ Tabs(tab) /\ Open(q) /\ q.pc = "race" /\ d \in Domains /\ Tabs(t)
  BY WellOpen, ReachedEvidence DEF IInv, AllSound, RaceWon, InRace
<1>2. PICK p \in q.cands, worse \in BOOLEAN, sure \in BOOLEAN :
        /\ Go(r, Opened([q EXCEPT !.pid = p, !.cands = {}, !.queue = <<>>]),
              Pinned(RecordedWin(t, d, p, worse, sure), q.client, d, p, worse))
        /\ seen' = [seen EXCEPT ![d] = SeenWin(SeenOk(@), p, worse, MaySwitch(t, d, p, sure))]
  BY DEF RaceWon
<1> DEFINE s == [q EXCEPT !.pid = p, !.cands = {}, !.queue = <<>>]
           u == RecordedWin(t, d, p, worse, sure)
           v == Pinned(u, q.client, d, p, worse)
<1>3. Open(s) /\ Kind(s) = Kind(q)
  BY <1>1 DEF Open, Idle, Kind
<1>4. SameEvidence(u, v)
  BY <1>1, WinEvidence, OtherTables
<1>5. Well(Opened(s)) /\ (Kind(q) \in {"http", "tunnel"} => Holds(Opened(s)))
  BY <1>3, OpenedHolds
<1>6. held' = held \cup {<<r, Kind(q)>>}
  BY DEF RaceWon
<1>7. seen' = [seen EXCEPT ![d] = SeenWin(SeenOk(seen[d]), p, worse, MaySwitch(t, d, p, sure))]
  BY <1>2
<1> HIDE DEF s, v
<1>8. Moved(r, {Opened(s).pc}) /\ tab' = v /\ req'[r] = Opened(s)
  <2>1. Go(r, Opened(s), v)
    BY <1>2 DEF s, v
  <2> QED BY <1>1, <1>5, <2>1, GoMoves
<1>9. AllSound' /\ Judgement
  <2>1. SameEvidence(RecordedWin(t, d, p, worse, sure), tab')
    BY <1>4, <1>8
  <2> QED BY <1>1, <1>7, <2>1, WinSound
<1>10. HeldWell'
  <2>1. ~Holds(req[r])
    BY <1>1 DEF Holds
  <2>2. (Holds(req[r]))' <=> Holds(Opened(s))
    BY <1>8 DEF Holds
  <2>3. <<r, Kind(q)>>[1] = r /\ <<r, Kind(q)>>[2] = Kind(q)
    OBVIOUS
  <2>4. \A h \in held' : h \in held \/ (h[1] = r /\ h[2] = Kind(q))
    BY <1>6, <2>3, Zenon
  <2> HIDE DEF q
  <2> QED BY <1>5, <1>8, <2>1, <2>2, <2>4, HeldStep DEF IInv
<1> QED BY <1>1, <1>8, <1>9, <1>10, WellStep DEF Stepped

LEMMA RaceAgainStep ==
  ASSUME IInv, NEW r \in Requests, RaceAgain(r)
  PROVE  Stepped
<1>1. AllWell /\ Open(req[r]) /\ ~Holds(req[r]) /\ UNCHANGED <<held, seen>>
  BY WellOpen DEF IInv, RaceAgain, InRace, Holds
<1>2. PICK batch : Go(r, Racing(req[r], batch, <<>>), tab)
  BY DEF RaceAgain
<1> DEFINE q == Racing(req[r], batch, <<>>)
<1>3. Well(q)
  BY <1>1, RacingWell
<1>4. Moved(r, {q.pc}) /\ tab' = tab
  BY <1>1, <1>2, <1>3, GoMoves
<1> QED BY <1>1, <1>4, PlainStep, SameSelf

\* A race that is lost: one more piece of evidence.
LEMMA FailureSound ==
  ASSUME AllSound, NEW d \in Domains, tab' = Noted(tab, d),
         seen' = [seen EXCEPT ![d] = SeenFailure(@, tab.ok[d] < ProveWindow)]
  PROVE  AllSound' /\ Judgement
<1> DEFINE f == IF tab.ok[d] < ProveWindow THEN NoEntry ELSE EvidenceOf(tab.dead[d])
           u == SeenFailure(seen[d], tab.ok[d] < ProveWindow)
<1>1. Tabs(tab) /\ Sound(tab.dead[d], tab.ok[d], seen[d]) /\ DOMAIN seen = Domains
  BY DEF AllSound
<1>2. Sound(f, tab.ok[d], u) /\ (tab.dead[d].left = 0 /\ f.left > 0 => u.fails = MinFails)
  BY <1>1, SoundFailure
<1>3. Tabs(Noted(tab, d)) /\ Noted(tab, d).ok = tab.ok
      /\ Noted(tab, d).dead = [tab.dead EXCEPT ![d] = f]
  BY <1>1, NotedEvidence
<1>4. seen' = [seen EXCEPT ![d] = u]
  OBVIOUS
<1> HIDE DEF f, u
<1>5. Tabs(tab)' /\ tab.ok' = tab.ok /\ tab.dead' = [tab.dead EXCEPT ![d] = f]
  BY <1>3 DEF Tabs
<1>6. tab.dead[d]' = f /\ \A x \in Domains \ {d} : tab.dead[x]' = tab.dead[x]
  BY <1>1, <1>5 DEF Tabs
<1>7. seen[d]' = u /\ DOMAIN seen' = Domains /\ \A x \in Domains \ {d} : seen[x]' = seen[x]
  BY <1>1, <1>4
<1> QED BY <1>2, <1>5, <1>6, <1>7, EvidenceStep

LEMMA ExhaustedStep ==
  ASSUME IInv, NEW r \in Requests, req[r].pc \in {"race", "ws"}, Exhausted(r, req[r])
  PROVE  Stepped
<1> DEFINE q == req[r]
           d == q.domain
<1>1. AllWell /\ AllSound /\ Open(q) /\ d \in Domains /\ ~Holds(q)
  BY WellOpen DEF IInv, Holds
<1>2. /\ Go(r, Ended(q, 1), Noted(tab, d)) /\ UNCHANGED held
      /\ seen' = [seen EXCEPT ![d] = SeenFailure(@, tab.ok[d] < ProveWindow)]
  BY DEF Exhausted
<1>3. Well(Ended(q, 1))
  BY <1>1, EndedWell DEF Open
<1>4. Moved(r, {Ended(q, 1).pc}) /\ tab' = Noted(tab, d)
  BY <1>1, <1>2, <1>3, GoMoves
<1>5. AllSound' /\ Judgement
  BY <1>1, <1>2, <1>4, FailureSound
<1>6. HeldWell'
  BY <1>1, <1>2, <1>4, HeldStep DEF IInv
<1> QED BY <1>1, <1>4, <1>5, <1>6, WellStep DEF Stepped

LEMMA WsOpensStep ==
  ASSUME IInv, NEW r \in Requests, WsOpens(r)
  PROVE  Stepped
<1> DEFINE q == [req[r] EXCEPT !.pc = "head", !.pid = Head(req[r].queue), !.queue = Tail(@),
                               !.failed = @ \cup {Head(req[r].queue)}]
<1>1. AllWell /\ AllSound /\ Open(req[r]) /\ ~Holds(req[r])
  BY WellOpen DEF IInv, WsOpens, Holds
<1>2. Go(r, q, tab) /\ held' = held \cup {<<r, "ws">>} /\ UNCHANGED seen
  BY DEF WsOpens
<1>3. /\ DOMAIN q = DOMAIN Idle /\ q.pc = "head" /\ q.answers = 0
      /\ q.domain = req[r].domain /\ q.gone = req[r].gone
  BY <1>1 DEF Open, Idle
<1> HIDE DEF q
<1>4. Well(q)
  BY <1>1, <1>3 DEF Open, Well, Pcs
<1>5. Moved(r, {q.pc}) /\ tab' = tab
  BY <1>1, <1>2, <1>4, GoMoves
<1>6. HeldWell'
  <2>1. <<r, "ws">>[1] = r /\ <<r, "ws">>[2] = "ws"
    OBVIOUS
  <2>2. \A h \in held' : h \in held \/ (h[1] = r /\ h[2] = "ws")
    BY <1>2, <2>1, Zenon
  <2> QED BY <1>1, <1>5, <2>2, HeldStep DEF IInv
<1>7. AllSound' /\ Judgement
  BY <1>1, <1>2, <1>5, NoEvidence, SameSelf
<1> QED BY <1>1, <1>5, <1>6, <1>7, WellStep DEF Stepped

LEMMA WsFailsStep ==
  ASSUME IInv, NEW r \in Requests, WsFails(r)
  PROVE  Stepped
<1> DEFINE q == [req[r] EXCEPT !.pc = "ws", !.pid = None]
<1>1. AllWell /\ AllSound /\ Open(req[r])
  BY WellOpen DEF IInv, WsFails
<1>2. Go(r, q, tab) /\ held' = Closed(r) /\ UNCHANGED seen
  BY DEF WsFails
<1>3. Well(q)
  BY <1>1 DEF Open, Idle, Well, Pcs
<1>4. Moved(r, {q.pc}) /\ tab' = tab
  BY <1>1, <1>2, <1>3, GoMoves
<1> QED BY <1>1, <1>2, <1>4, ClosedStep, NoEvidence, SameSelf DEF Stepped

LEMMA WsExhaustedStep ==
  ASSUME IInv, NEW r \in Requests, WsExhausted(r)
  PROVE  Stepped
<1>1. AllWell /\ Open(req[r]) /\ ~Holds(req[r]) /\ req[r].pc = "ws"
  BY WellOpen DEF IInv, WsExhausted, Holds
<1>2. CASE Exhausted(r, req[r])
  BY <1>1, <1>2, ExhaustedStep
<1>3. CASE Go(r, Ended(req[r], 1), tab) /\ UNCHANGED <<held, seen>>
  <2>1. Well(Ended(req[r], 1))
    BY <1>1, EndedWell DEF Open
  <2>2. Moved(r, {Ended(req[r], 1).pc}) /\ tab' = tab
    BY <1>1, <1>3, <2>1, GoMoves
  <2> QED BY <1>1, <1>3, <2>2, PlainStep, SameSelf
<1> QED BY <1>2, <1>3 DEF WsExhausted

LEMMA WsRefusedStep ==
  ASSUME IInv, NEW r \in Requests, WsRefused(r)
  PROVE  Stepped
<1> DEFINE q == req[r]
           d == q.domain
           g == [q EXCEPT !.gone = TRUE]
<1>1. AllWell /\ AllSound /\ Open(q) /\ d \in Domains /\ ~Holds(q)
  BY WellOpen DEF IInv, WsRefused, Holds
<1>2. /\ \/ Go(r, Ended(q, 1), Answered(q, tab)) /\ held' = Closed(r)
         \/ Go(r, Ended(g, 0), Answered(q, tab)) /\ UNCHANGED held
      /\ seen' = [seen EXCEPT ![d] = SeenAnswer(q, seen[d])]
  BY DEF WsRefused
<1>3. Well(Ended(q, 1))
  BY <1>1, EndedWell DEF Open
<1>4. Well(Ended(g, 0))
  <2>1. g.gone = TRUE /\ g.answers = 0
    BY <1>1 DEF Open, Idle
  <2> QED BY <2>1, GoneWell
<1> HIDE DEF g
<1>5. PICK e \in {Ended(q, 1), Ended(g, 0)} : Go(r, e, Answered(q, tab)) /\ Well(e)
  BY <1>2, <1>3, <1>4
<1>6. Moved(r, {e.pc}) /\ tab' = Answered(q, tab)
  BY <1>1, <1>5, GoMoves
<1>7. HeldWell'
  BY <1>1, <1>2, <1>6, HeldStep DEF IInv, Closed
<1>8. AllSound' /\ Judgement
  <2>1. CASE q.pid = Local
    BY <1>1, <1>2, <1>6, <2>1, OkSound, SameSelf DEF Answered, SeenAnswer
  <2>2. CASE q.pid # Local
    <3>1. tab' = tab /\ seen' = [seen EXCEPT ![d] = seen[d]]
      BY <1>2, <1>6, <2>2 DEF Answered, SeenAnswer
    <3>2. DOMAIN seen' = Domains /\ \A x \in Domains : seen[x]' = seen[x]
      BY <1>1, <3>1 DEF AllSound
    <3> QED BY <1>1, <3>1, <3>2 DEF AllSound, Judgement, Active
  <2> QED BY <2>1, <2>2
<1> QED BY <1>1, <1>6, <1>7, <1>8, WellStep DEF Stepped

LEMMA WsSwitchesStep ==
  ASSUME IInv, NEW r \in Requests, WsSwitches(r)
  PROVE  Stepped
<1> DEFINE q == req[r]
           d == q.domain
           t == Answered(q, tab)
           g == [q EXCEPT !.gone = TRUE]
           s == [q EXCEPT !.pc = "relay", !.pid = None, !.queue = <<>>,
                          !.failed = {}, !.answers = @ + 1]
<1>1. AllWell /\ AllSound /\ Open(q) /\ d \in Domains /\ ~Holds(q) /\ UNCHANGED held
  BY WellOpen DEF IInv, WsSwitches, Holds
<1>2. PICK worse \in BOOLEAN, sure \in BOOLEAN :
        /\ \/ Go(r, s, RecordedWin(t, d, q.pid, worse, sure))
           \/ Go(r, Ended(g, 0), RecordedWin(t, d, q.pid, worse, sure))
        /\ seen' = [seen EXCEPT ![d] = SeenWin(SeenAnswer(q, @), q.pid, worse,
                                               MaySwitch(t, d, q.pid, sure))]
  BY DEF WsSwitches
<1>3. Well(s)
  <2>1. /\ DOMAIN s = DOMAIN Idle /\ s.pc = "relay" /\ s.answers = 1
        /\ s.domain = q.domain /\ s.gone = q.gone
    BY <1>1 DEF Open, Idle
  <2> HIDE DEF s
  <2> QED BY <1>1, <2>1 DEF Open, Well, Pcs
<1>4. Well(Ended(g, 0))
  <2>1. g.gone = TRUE /\ g.answers = 0
    BY <1>1 DEF Open, Idle
  <2> QED BY <2>1, GoneWell
<1> HIDE DEF g, s
<1>5. PICK e \in {s, Ended(g, 0)} : Go(r, e, RecordedWin(t, d, q.pid, worse, sure)) /\ Well(e)
  BY <1>2, <1>3, <1>4
<1>6. Moved(r, {e.pc}) /\ tab' = RecordedWin(t, d, q.pid, worse, sure)
  BY <1>1, <1>5, GoMoves
<1>7. HeldWell'
  BY <1>1, <1>6, HeldStep DEF IInv
<1>8. AllSound' /\ Judgement
  <2> DEFINE o == SeenAnswer(q, seen[d])
  <2>1. \/ t = Reached(tab, d) /\ o = SeenOk(seen[d])
        \/ t = tab /\ o = seen[d]
    BY DEF Answered, SeenAnswer
  <2>2. seen' = [seen EXCEPT ![d] = SeenWin(o, q.pid, worse, MaySwitch(t, d, q.pid, sure))]
    BY <1>2
  <2>3. SameEvidence(RecordedWin(t, d, q.pid, worse, sure), tab')
    BY <1>6, SameSelf
  <2> HIDE DEF o, t
  <2> QED BY <1>1, <2>1, <2>2, <2>3, WinSound
<1> QED BY <1>1, <1>6, <1>7, <1>8, WellStep DEF Stepped

LEMMA CancelStep ==
  ASSUME IInv, NEW r \in Requests, Cancel(r)
  PROVE  Stepped
<1> DEFINE q == req[r]
           g == [q EXCEPT !.gone = @ \/ q.answers = 0]
<1>1. AllWell /\ AllSound /\ Well(q) /\ q.pc \notin {"idle", "unheard", "done"}
  BY DEF IInv, AllWell, Cancel
<1>2. Go(r, Ended(g, 0), tab) /\ UNCHANGED seen
  BY DEF Cancel
<1>3. Well(Ended(g, 0))
  <2>1. q.answers \in {0, 1} /\ q.gone \in BOOLEAN /\ DOMAIN q = DOMAIN Idle
    BY <1>1 DEF Well, Pcs
  <2>2. g.answers = q.answers /\ g.gone = (q.gone \/ q.answers = 0)
    BY <2>1 DEF Idle
  <2> HIDE DEF g
  <2>3. CASE q.answers = 0
    BY <2>2, <2>3, GoneWell
  <2>4. CASE q.answers = 1
    <3>1. g.gone \in BOOLEAN /\ g.answers = 1
      BY <2>1, <2>2, <2>4
    <3> QED BY <3>1, EndedWell
  <2> QED BY <2>1, <2>3, <2>4
<1> HIDE DEF g
<1>4. Moved(r, {Ended(g, 0).pc}) /\ tab' = tab
  BY <1>1, <1>2, <1>3, GoMoves
<1>5. AllSound' /\ Judgement
  BY <1>1, <1>2, <1>4, NoEvidence, SameSelf
<1>6. HeldWell'
  <2>1. held' = Closed(r) \/ (UNCHANGED held /\ ~Holds(q))
    BY DEF Cancel, Holds
  <2> QED BY <1>4, <2>1, HeldStep DEF IInv, Closed
<1> QED BY <1>1, <1>4, <1>5, <1>6, WellStep DEF Stepped

-----------------------------------------------------------------------------
LEMMA TickStep ==
  ASSUME IInv, Tick
  PROVE  Stepped
<1>1. AllSound /\ Tabs(tab) /\ DOMAIN seen = Domains /\ UNCHANGED <<req, held>>
  BY DEF IInv, AllSound, Tick
<1>2. /\ DOMAIN tab' = DOMAIN tab
      /\ tab.dead' = [d \in Domains |-> [tab.dead[d] EXCEPT !.prove = Less(@), !.left = Less(@)]]
      /\ tab.ok' = [d \in Domains |-> Least(tab.ok[d] + 1, ProveWindow)]
  <2> DEFINE m == [p \in Pids |-> [d \in Domains |-> Less(tab.mark[p][d])]]
             x == [d \in Domains |-> [tab.dead[d] EXCEPT !.prove = Less(@), !.left = Less(@)]]
             y == [d \in Domains |-> Least(tab.ok[d] + 1, ProveWindow)]
  <2>1. tab' = [tab EXCEPT !.mark = m, !.dead = x, !.ok = y]
    BY Zenon DEF Tick
  <2> HIDE DEF m, x, y
  <2>2. DOMAIN tab' = DOMAIN tab /\ tab.dead' = x /\ tab.ok' = y
    BY <1>1, <2>1 DEF Tabs
  <2> QED BY <2>2 DEF x, y
<1>3. seen' = [d \in Domains |->
          [seen[d] EXCEPT !.gap = Least(@ + 1, ProveWindow + 1), !.due = Less(@),
                          !.run = IF tab.dead[d].left = 1 THEN 0 ELSE @]]
  BY DEF Tick
<1>4. ASSUME NEW d \in Domains PROVE Sound(tab.dead[d], tab.ok[d], seen[d])'
  <2>1. Sound(tab.dead[d], tab.ok[d], seen[d])
    BY <1>1 DEF AllSound
  <2>2. /\ tab.dead[d]' = [tab.dead[d] EXCEPT !.prove = Less(@), !.left = Less(@)]
        /\ tab.ok[d]' = Least(tab.ok[d] + 1, ProveWindow)
        /\ seen[d]' = [seen[d] EXCEPT !.gap = Least(@ + 1, ProveWindow + 1), !.due = Less(@),
                                      !.run = IF tab.dead[d].left = 1 THEN 0 ELSE @]
    BY <1>2, <1>3
  <2>3. Sound([tab.dead[d] EXCEPT !.prove = Less(@), !.left = Less(@)],
              Least(tab.ok[d] + 1, ProveWindow),
              [seen[d] EXCEPT !.gap = Least(@ + 1, ProveWindow + 1), !.due = Less(@),
                              !.run = IF tab.dead[d].left = 1 THEN 0 ELSE @])
    BY <2>1, SoundTick
  <2> QED BY <2>2, <2>3
<1>5. Tabs(tab)' /\ DOMAIN seen' = Domains
  BY <1>1, <1>2, <1>3 DEF Tabs
<1>6. Judgement
  <2> SUFFICES ASSUME NEW d \in Domains, ~Active(tab, d) PROVE ~Active(tab, d)'
    BY DEF Judgement
  <2>1. tab.dead[d] \in Entries /\ tab.dead[d].left = 0
    BY <1>1, Numbers DEF AllSound, Sound, Entries, Active
  <2>2. tab.dead[d].left' = 0
    BY <1>2, <2>1 DEF Entries, Less
  <2> QED BY <2>2 DEF Active
<1>7. AllWell' /\ HeldWell'
  BY <1>1 DEF IInv, AllWell, HeldWell
<1> QED BY <1>4, <1>5, <1>6, <1>7 DEF AllSound, Stepped

LEMMA InitIInv == Init => IInv
<1> SUFFICES ASSUME Init PROVE IInv
  OBVIOUS
<1>1. AllWell
  BY DEF Init, AllWell, Well, Idle, Pcs
<1>2. HeldWell
  BY DEF Init, HeldWell
<1>3. PICK loaded \in [Domains -> Loaded \cup {None}] :
       tab = [pin  |-> [c \in Clients |-> [d \in Domains |-> None]],
              meta |-> loaded,
              mark |-> [p \in Pids |-> [d \in Domains |-> 0]],
              wins |-> [d \in Domains |-> NoWins],
              dead |-> [d \in Domains |-> NoEntry],
              ok   |-> [d \in Domains |-> ProveWindow]]
  BY DEF Init
<1>4. Sound(NoEntry, ProveWindow, NothingSeen)
  BY Numbers, NoEntryType
  DEF Sound, NoEntry, NothingSeen, SeenTyped, NotTooMuch, NotTooLittle
<1>5. AllSound
  BY <1>3, <1>4 DEF Init, AllSound, Tabs
<1> QED BY <1>1, <1>2, <1>5 DEF IInv

LEMMA NextStep == IInv /\ [Next]_vars => IInv' /\ Judgement
<1> SUFFICES ASSUME IInv, [Next]_vars PROVE IInv' /\ Judgement
  OBVIOUS
<1>1. Stepped => IInv' /\ Judgement
  BY DEF Stepped, IInv
<1>2. CASE UNCHANGED vars
  <2>1. Judgement
    BY <1>2 DEF vars, Judgement, Active
  <2> QED BY <1>2, <2>1 DEF vars, IInv, AllWell, HeldWell, AllSound
<1>3. CASE Tick \/ \E d \in Domains : ProbeAnswered(d)
  BY <1>1, <1>3, TickStep, ProbeAnsweredStep
<1>4. ASSUME NEW r \in Requests,
             \/ Refuse(r) \/ HangUp(r) \/ ArriveDirect(r) \/ FastFail(r) \/ Arrive(r)
             \/ ArriveWs(r)
             \/ SingleOk(r) \/ SingleFails(r) \/ SingleServerError(r) \/ StreamEnds(r)
             \/ GreetOk(r) \/ GreetFails(r) \/ RelayEnds(r)
      PROVE  Stepped
  BY <1>4, ArrivesStep, ArriveStep, ArriveWsStep, SingleOkStep, SingleFailsStep,
     ServerErrorStep, EndsStep, GreetOkStep, GreetFailsStep
<1>5. ASSUME NEW r \in Requests,
             \/ RaceServerError(r) \/ RaceWon(r) \/ RaceAgain(r) \/ RaceLost(r)
             \/ WsOpens(r) \/ WsFails(r) \/ WsExhausted(r) \/ WsRefused(r) \/ WsSwitches(r)
             \/ Cancel(r)
      PROVE  Stepped
  <2>1. RaceLost(r) => Stepped
    BY ExhaustedStep DEF RaceLost, InRace
  <2>2. RaceServerError(r) => Stepped
    BY RaceServerErrorIsAnswer, ProbeAnsweredStep DEF IInv
  <2> QED BY <1>5, <2>1, <2>2, RaceWonStep, RaceAgainStep, WsOpensStep,
             WsFailsStep, WsExhaustedStep, WsRefusedStep, WsSwitchesStep, CancelStep
<1> QED BY <1>1, <1>2, <1>3, <1>4, <1>5 DEF Next

-----------------------------------------------------------------------------
(* The chain: which proxies the tables and the requests name.               *)

Pins == [Clients -> [Domains -> Maybe(Pids)]]
Metas == [Domains -> Maybe(Pids)]
Marks == [Pids -> [Domains -> 0 .. MarkTtl]]
Counts == [Domains -> [pid : Maybe(Pids), n : 0 .. 1]]
Tables == [pin : Pins, meta : Metas, mark : Marks, wins : Counts,
           dead : [Domains -> Entries], ok : [Domains -> 0 .. ProveWindow]]

\* t became u without a win.
NoWin(t, u) == u \in Tables /\ u.meta = t.meta /\ u.wins = t.wins

LEMMA Bounds == MarkTtl \in Nat /\ MarkTtl >= 1 /\ MinWins \in Nat /\ MinWins >= 1
BY DispatchAssumption DEF DispatchAssumption

LEMMA Changed ==
  ASSUME NEW t \in Tables
  PROVE  /\ \A x \in Pins : NoWin(t, [t EXCEPT !.pin = x])
         /\ \A x \in Marks : NoWin(t, [t EXCEPT !.mark = x]) /\ [t EXCEPT !.mark = x].mark = x
         /\ \A x \in [Domains -> Entries] : NoWin(t, [t EXCEPT !.dead = x])
         /\ \A x \in [Domains -> 0 .. ProveWindow] : NoWin(t, [t EXCEPT !.ok = x])
         /\ \A x \in Metas : /\ [t EXCEPT !.meta = x] \in Tables
                             /\ [t EXCEPT !.meta = x].meta = x
                             /\ [t EXCEPT !.meta = x].wins = t.wins
         /\ \A x \in Counts : /\ [t EXCEPT !.wins = x] \in Tables
                              /\ [t EXCEPT !.wins = x].wins = x
                              /\ [t EXCEPT !.wins = x].meta = t.meta
BY DEF Tables, NoWin

LEMMA NoWinSelf == ASSUME NEW t \in Tables PROVE NoWin(t, t)
BY DEF NoWin

LEMMA NoWinThen ==
  ASSUME NEW t, NEW u, NEW v, NoWin(t, u), NoWin(u, v)
  PROVE  NoWin(t, v)
BY DEF NoWin

LEMMA PinsOK ==
  ASSUME NEW t \in Tables, NEW c \in Clients, NEW d \in Domains, NEW p \in Pids, NEW b
  PROVE  NoWin(t, Pinned(t, c, d, p, b)) /\ NoWin(t, Evicted(t, c, d))
<1>1. t.pin \in Pins
  BY DEF Tables
<1>2. ASSUME NEW x \in Maybe(Pids)
      PROVE  NoWin(t, [t EXCEPT !.pin[c][d] = x])
  <2> DEFINE y == [t.pin EXCEPT ![c][d] = x]
  <2>1. y \in Pins
    BY <1>1 DEF Pins
  <2>2. [t EXCEPT !.pin[c][d] = x] = [t EXCEPT !.pin = y]
    OBVIOUS
  <2> HIDE DEF y
  <2> QED BY <2>1, <2>2, Changed
<1>3. p \in Maybe(Pids) /\ None \in Maybe(Pids)
  BY DEF Maybe
<1> QED BY <1>2, <1>3, NoWinSelf DEF Pinned, Evicted

LEMMA MarksOK ==
  ASSUME NEW t \in Tables, NEW d \in Domains, NEW p \in Pids
  PROVE  /\ NoWin(t, Degraded(t, d, p)) /\ NoWin(t, Unmarked(t, d, p))
         /\ Degraded(t, d, p).mark[p][d] # 0
         /\ Degraded(t, d, p).pin = t.pin
<1>1. t.mark \in Marks
  BY DEF Tables
<1>2. ASSUME NEW x \in 0 .. MarkTtl
      PROVE  /\ NoWin(t, [t EXCEPT !.mark[p][d] = x])
             /\ [t EXCEPT !.mark[p][d] = x].mark[p][d] = x
             /\ [t EXCEPT !.mark[p][d] = x].pin = t.pin
  <2> DEFINE y == [t.mark EXCEPT ![p][d] = x]
  <2>1. y \in Marks /\ y[p][d] = x
    BY <1>1 DEF Marks
  <2>2. [t EXCEPT !.mark[p][d] = x] = [t EXCEPT !.mark = y]
    OBVIOUS
  <2> HIDE DEF y
  <2>3. [t EXCEPT !.mark = y].pin = t.pin
    BY DEF Tables
  <2>4. NoWin(t, [t EXCEPT !.mark = y]) /\ [t EXCEPT !.mark = y].mark = y
    BY <2>1, Changed
  <2> QED BY <2>1, <2>2, <2>3, <2>4, Zenon
<1>3. t.mark[p][d] \in 0 .. MarkTtl
  BY <1>1 DEF Marks
<1> DEFINE m == IF t.mark[p][d] > 0 THEN t.mark[p][d] ELSE MarkTtl
<1>4. m \in 0 .. MarkTtl /\ m # 0 /\ 0 \in 0 .. MarkTtl
  BY <1>3, Bounds
<1>5. Degraded(t, d, p) = [t EXCEPT !.mark[p][d] = m] /\ Unmarked(t, d, p) = [t EXCEPT !.mark[p][d] = 0]
  BY DEF Degraded, Unmarked
<1> HIDE DEF m
<1> QED BY <1>2, <1>4, <1>5

LEMMA EvidenceTyped ==
  ASSUME NEW e \in Entries
  PROVE  CheckedEntry(e) \in Entries /\ EvidenceOf(e) \in Entries
<1>1. CheckedEntry(e) \in Entries
  <2>1. [e EXCEPT !.judged = FALSE, !.fails = 0] \in Entries
    <3>1. 0 \in 0 .. MinFails
      BY Numbers
    <3>2. [e EXCEPT !.fails = 0] \in Entries
      BY <3>1, Zenon DEF Entries
    <3> QED BY <3>2, Zenon DEF Entries
  <2> QED BY <2>1, NoEntryType DEF CheckedEntry
<1>2. EvidenceOf(e) \in Entries
  BY Numbers DEF EvidenceOf, Entries, NoEntry, Least
<1> QED BY <1>1, <1>2

LEMMA VerdictsOK ==
  ASSUME NEW t \in Tables, NEW d \in Domains
  PROVE  /\ NoWin(t, Reached(t, d)) /\ NoWin(t, Cleared(t, d))
         /\ NoWin(t, Checked(t, d)) /\ NoWin(t, Noted(t, d))
<1>1. t.dead \in [Domains -> Entries] /\ t.ok \in [Domains -> 0 .. ProveWindow]
  BY DEF Tables
<1>2. ASSUME NEW e \in Entries PROVE NoWin(t, [t EXCEPT !.dead = [t.dead EXCEPT ![d] = e]])
  BY <1>1, Changed
<1>3. t.dead[d] \in Entries /\ NoEntry \in Entries
  BY <1>1, NoEntryType
<1>4. Cleared(t, d) = [t EXCEPT !.dead = [t.dead EXCEPT ![d] = NoEntry]]
  BY DEF Cleared
<1>5. Checked(t, d) = [t EXCEPT !.dead = [t.dead EXCEPT ![d] = CheckedEntry(t.dead[d])]]
  BY DEF Checked, CheckedEntry
<1>6. Evidence(t, d) = EvidenceOf(t.dead[d])
  BY DEF Evidence, EvidenceOf
<1> DEFINE e == IF t.ok[d] < ProveWindow THEN NoEntry ELSE EvidenceOf(t.dead[d])
<1>7. Noted(t, d) = [t EXCEPT !.dead = [t.dead EXCEPT ![d] = e]] /\ e \in Entries
  BY <1>3, <1>6, EvidenceTyped DEF Noted
<1>8. NoWin(t, Reached(t, d))
  <2> DEFINE y == [t.ok EXCEPT ![d] = 0]
  <2>1. y \in [Domains -> 0 .. ProveWindow]
    BY <1>1, Numbers
  <2>2. Reached(t, d) = [t EXCEPT !.ok = y]
    BY DEF Reached
  <2> HIDE DEF y
  <2>3. NoWin(t, [t EXCEPT !.ok = y])
    BY <2>1, Changed
  <2> QED BY <2>2, <2>3
<1> QED BY <1>2, <1>3, <1>4, <1>5, <1>7, <1>8, EvidenceTyped

\* What a win of p does to the domain cache and to the count of p's wins.
LEMMA WinOK ==
  ASSUME NEW t \in Tables, NEW d \in Domains, NEW p \in Pids,
         NEW worse \in BOOLEAN, NEW sure \in BOOLEAN
  PROVE  LET u == RecordedWin(t, d, p, worse, sure)
         IN  /\ u \in Tables
             /\ \A x \in Domains \ {d} : u.meta[x] = t.meta[x] /\ u.wins[x] = t.wins[x]
             /\ u.meta[d] = IF MaySwitch(t, d, p, sure) /\ ~worse THEN p ELSE t.meta[d]
             /\ ~MaySwitch(t, d, p, sure) => u.wins[d] = [pid |-> p, n |-> 1]
<1> DEFINE s == Unmarked(t, d, p)
           w == Counted(s, d, p, sure)
           v == Cleared(w, d)
           u == RecordedWin(t, d, p, worse, sure)
           may == MaySwitch(t, d, p, sure)
           n == [pid |-> p, n |-> IF Enough(t, d, p) THEN 0 ELSE 1]
<1>1. s \in Tables /\ s.meta = t.meta /\ s.wins = t.wins
  BY MarksOK DEF NoWin
<1>2. (Unopposed(s, d, p, sure) <=> Unopposed(t, d, p, sure)) /\ (Enough(s, d, p) <=> Enough(t, d, p))
  BY <1>1 DEF Unopposed, Enough
<1>3. n \in [pid : Maybe(Pids), n : 0 .. 1]
  BY DEF Maybe
<1>4. w = IF Unopposed(t, d, p, sure) THEN s ELSE [s EXCEPT !.wins = [s.wins EXCEPT ![d] = n]]
  BY <1>2 DEF Counted
<1> HIDE DEF s, n
<1>5. /\ w \in Tables /\ w.meta = t.meta
      /\ w.wins = IF Unopposed(t, d, p, sure) THEN t.wins ELSE [t.wins EXCEPT ![d] = n]
  <2>1. CASE Unopposed(t, d, p, sure)
    BY <1>1, <1>4, <2>1
  <2>2. CASE ~Unopposed(t, d, p, sure)
    <3>1. [s.wins EXCEPT ![d] = n] \in Counts
      BY <1>1, <1>3 DEF Counts, Tables
    <3> QED BY <1>1, <1>4, <2>2, <3>1, Changed
  <2> QED BY <2>1, <2>2
<1> HIDE DEF w
<1>6. v \in Tables /\ v.meta = w.meta /\ v.wins = w.wins
  BY <1>5, VerdictsOK DEF NoWin
<1>7. u = IF ~may THEN w ELSE IF worse THEN v ELSE [v EXCEPT !.meta = [v.meta EXCEPT ![d] = p]]
  BY DEF RecordedWin, w, s
<1> HIDE DEF v, u
<1>8. /\ u \in Tables /\ u.wins = w.wins
      /\ u.meta = IF may /\ ~worse THEN [t.meta EXCEPT ![d] = p] ELSE t.meta
  <2>1. CASE ~may \/ worse
    BY <1>5, <1>6, <1>7, <2>1
  <2>2. CASE may /\ ~worse
    <3>1. [v.meta EXCEPT ![d] = p] \in Metas
      BY <1>6 DEF Tables, Metas, Maybe
    <3> QED BY <1>5, <1>6, <1>7, <2>2, <3>1, Changed
  <2> QED BY <2>1, <2>2
<1>9. t.meta \in Metas /\ t.wins \in Counts
  BY DEF Tables
<1>10. ~may => u.wins[d] = [pid |-> p, n |-> 1]
  <2> SUFFICES ASSUME ~may PROVE u.wins[d] = [pid |-> p, n |-> 1]
    OBVIOUS
  <2>1. ~Unopposed(t, d, p, sure) /\ ~Enough(t, d, p)
    BY DEF MaySwitch
  <2>2. n = [pid |-> p, n |-> 1]
    BY <2>1 DEF n
  <2> QED BY <1>5, <1>8, <1>9, <2>1, <2>2 DEF Counts
<1> HIDE DEF may
<1>11. \A x \in Domains \ {d} : u.meta[x] = t.meta[x] /\ u.wins[x] = t.wins[x]
  BY <1>5, <1>8, <1>9 DEF Metas, Counts
<1>12. u.meta[d] = IF may /\ ~worse THEN p ELSE t.meta[d]
  BY <1>8, <1>9 DEF Metas
<1> QED BY <1>8, <1>10, <1>11, <1>12 DEF u, may

\* What a request names: proxies there are, and, while one is tried alone, not
\* one that has failed alone.
Fit(q) ==
    /\ DOMAIN q = DOMAIN Idle /\ q.pc \in Pcs
    /\ q.pc \notin {"idle", "unheard", "done"} => q.client \in Clients /\ q.domain \in Domains /\ q.proto \in Protos
    /\ q.pc \in {"ws", "head"} => q.proto = "ws"
    /\ q.cands \subseteq Pids /\ q.failed \subseteq Pids /\ q.pid \in Maybe(Pids)
    /\ q.queue \in Seq(Pids)
    /\ q.pc \in {"single", "stream", "greet", "head"} => q.pid \in Pids
    /\ q.pc = "race" \/ (q.pc \in {"single", "greet"} /\ q.via = "sticky") => q.failed = {}
    /\ q.pc = "single" => q.pid \notin q.failed

Chain ==
    /\ tab \in Tables
    /\ DOMAIN req = Requests /\ \A r \in Requests : Fit(req[r])

\* A request on its way, whatever it does next.
Posed(q) ==
    /\ DOMAIN q = DOMAIN Idle
    /\ q.client \in Clients /\ q.domain \in Domains /\ q.proto \in Protos
    /\ q.cands \subseteq Pids /\ q.failed \subseteq Pids /\ q.pid \in Maybe(Pids)
    /\ q.queue \in Seq(Pids)

\* r goes on, from tables t and without a win.
Fits(r, t) == \E q, u : Go(r, q, u) /\ Fit(q) /\ NoWin(t, u)

LEMMA FitPosed ==
  ASSUME NEW q, Fit(q), q.pc \notin {"idle", "unheard", "done"}
  PROVE  Posed(q)
BY DEF Fit, Posed

LEMMA GoFits ==
  ASSUME NEW r, NEW t, NEW q, NEW u, Go(r, q, u), Fit(q), NoWin(t, u)
  PROVE  Fits(r, t)
BY DEF Fits

LEMMA FitsThen ==
  ASSUME NEW r, NEW t, NEW u, NoWin(t, u), Fits(r, u)
  PROVE  Fits(r, t)
BY NoWinThen DEF Fits

LEMMA FitGoes ==
  ASSUME Chain, NEW r \in Requests, NEW q, NEW u, Go(r, q, u), Fit(q), u \in Tables
  PROVE  Chain'
<1>1. req' = [req EXCEPT ![r] = q] /\ tab' = u
  BY DEF Go
<1>2. DOMAIN req' = Requests
  BY <1>1 DEF Chain
<1>3. ASSUME NEW x \in Requests PROVE Fit(req'[x])
  BY <1>1 DEF Chain
<1> QED BY <1>1, <1>2, <1>3 DEF Chain, Fit, Pcs, Maybe, Pids

LEMMA EndedFit == ASSUME NEW q, NEW n PROVE Fit(Ended(q, n))
<1> DEFINE e == Ended(q, n)
<1>1. /\ DOMAIN e = DOMAIN Idle /\ e.pc = "done" /\ e.cands = {} /\ e.failed = {}
      /\ e.pid = None /\ e.queue = <<>>
  BY DEF Ended, Idle
<1> HIDE DEF e
<1>2. e.queue \in Seq(Pids)
  BY <1>1
<1>3. Fit(e)
  BY <1>1, <1>2 DEF Fit, Pcs, Maybe
<1> QED BY <1>3 DEF e

LEMMA SingleFit ==
  ASSUME NEW q, Posed(q), NEW via, NEW p \in Pids, p \notin q.failed,
         via = "sticky" => q.failed = {}
  PROVE  Fit(Single(q, via, p))
<1> DEFINE e == Single(q, via, p)
<1>1. /\ DOMAIN e = DOMAIN Idle /\ e.pc = "single" /\ e.via = via /\ e.pid = p
      /\ e.client = q.client /\ e.domain = q.domain /\ e.proto = q.proto
      /\ e.cands = q.cands /\ e.failed = q.failed /\ e.queue = q.queue
  BY DEF Single, Posed, Idle
<1> HIDE DEF e
<1>2. Fit(e)
  BY <1>1 DEF Fit, Posed, Pcs, Maybe
<1> QED BY <1>2 DEF e

LEMMA RacingFit ==
  ASSUME NEW q, Posed(q), NEW batch \in SUBSET Pids, NEW left \in Seq(Pids)
  PROVE  Fit(Racing(q, batch, left))
<1> DEFINE e == Racing(q, batch, left)
<1>1. /\ DOMAIN e = DOMAIN Idle /\ e.pc = "race" /\ e.pid = None
      /\ e.client = q.client /\ e.domain = q.domain /\ e.proto = q.proto
      /\ e.cands = batch /\ e.failed = {} /\ e.queue = left
  BY DEF Racing, Posed, Idle
<1> HIDE DEF e
<1>2. Fit(e)
  BY <1>1 DEF Fit, Posed, Pcs, Maybe
<1> QED BY <1>2 DEF e

LEMMA OrdersName ==
  ASSUME NEW d, NEW list \in Orders(d)
  PROVE  list \in Seq(Proxies) /\ list \in Seq(Pids)
<1>1. PICK S \in SUBSET Permitted(d) : list \in SetToSeqs(S)
  BY DEF Orders
<1>2. S \subseteq Proxies /\ IsFiniteSet(S)
  BY FS_Subset, DispatchAssumption DEF DispatchAssumption, Permitted
<1>3. Cardinality(S) \in Nat /\ list \in [1 .. Cardinality(S) -> S]
  BY <1>1, <1>2, FS_CardinalityType DEF SetToSeqs
<1>4. list \in Seq(S)
  BY <1>3
<1>5. list \in Seq(Proxies)
  BY <1>2, <1>4, SeqMonotonic
<1>6. Proxies \subseteq Pids
  BY DEF Pids
<1> QED BY <1>5, <1>6, SeqMonotonic

LEMMA BatchNames ==
  ASSUME NEW list \in Seq(Pids)
  PROVE  Range(Batch(list)) \subseteq Pids /\ Left(list) \in Seq(Pids)
<1> DEFINE n == Least(MaxRetries, Len(list))
<1>1. n \in Int /\ n <= Len(list)
  BY DispatchAssumption DEF DispatchAssumption, Least
<1> HIDE DEF n
<1>2. ASSUME NEW a \in Int, a >= 1, NEW b \in Int, b <= Len(list)
      PROVE  SubSeq(list, a, b) \in Seq(Pids)
  <2>1. \A i \in a .. b : list[i] \in Pids
    BY <1>2
  <2> QED BY <2>1, SubSeqProperties
<1>3. Batch(list) \in Seq(Pids)
  BY <1>1, <1>2 DEF Batch, n
<1>4. Len(Batch(list)) + 1 \in Int /\ Len(Batch(list)) + 1 >= 1 /\ Len(list) \in Int
  BY <1>3
<1>5. Left(list) \in Seq(Pids)
  BY <1>2, <1>4 DEF Left
<1> QED BY <1>3, <1>5, RangeOfSeq

LEMMA MachineToo ==
  ASSUME NEW d, NEW l, l \in LocalToo(d) \/ l \in {{}, {Local}}
  PROVE  l \subseteq Pids
BY DEF LocalToo, Pids

LEMMA RaceStartFits ==
  ASSUME NEW r \in Requests, NEW q, Posed(q), NEW t \in Tables, RaceStart(r, q, t)
  PROVE  Fits(r, t)
<1>1. PICK list \in Orders(q.domain) :
        \/ Go(r, Racing(q, {Local}, <<>>), t)
        \/ Go(r, Ended(q, 1), t)
        \/ \E l \in LocalToo(q.domain) : Go(r, Racing(q, Range(Batch(list)) \cup l, Left(list)), t)
  BY DEF RaceStart
<1>2. NoWin(t, t)
  BY NoWinSelf
<1>3. CASE Go(r, Racing(q, {Local}, <<>>), t)
  <2>1. {Local} \in SUBSET Pids /\ <<>> \in Seq(Pids)
    BY DEF Pids
  <2>2. Fit(Racing(q, {Local}, <<>>))
    BY <2>1, RacingFit
  <2> QED BY <1>2, <1>3, <2>2, GoFits
<1>4. CASE Go(r, Ended(q, 1), t)
  BY <1>2, <1>4, EndedFit, GoFits
<1>5. ASSUME NEW l \in LocalToo(q.domain), Go(r, Racing(q, Range(Batch(list)) \cup l, Left(list)), t)
      PROVE  Fits(r, t)
  <2>1. Range(Batch(list)) \cup l \in SUBSET Pids /\ Left(list) \in Seq(Pids)
    BY OrdersName, BatchNames, MachineToo
  <2>2. Fit(Racing(q, Range(Batch(list)) \cup l, Left(list)))
    BY <2>1, RacingFit
  <2> QED BY <1>2, <1>5, <2>2, GoFits
<1> QED BY <1>1, <1>3, <1>4, <1>5

\* The cached proxy is tried alone unless it has just failed alone.
LEMMA CacheFits ==
  ASSUME NEW r \in Requests, NEW q, Posed(q), NEW t \in Tables,
         \A p \in q.failed : t.mark[p][q.domain] # 0,
         CacheOrRace(r, q, t)
  PROVE  Fits(r, t)
<1>1. CASE RaceStart(r, q, t)
  BY <1>1, RaceStartFits
<1>2. ASSUME NEW p \in Fresh(t, q.domain), Go(r, Single(q, "cache", p), t)
      PROVE  Fits(r, t)
  <2>1. p \in Pids /\ t.mark[p][q.domain] = 0
    BY DEF Fresh, Tables, Metas, Maybe, Posed
  <2>2. Fit(Single(q, "cache", p))
    BY <2>1, SingleFit
  <2> QED BY <1>2, <2>2, NoWinSelf, GoFits
<1> QED BY <1>1, <1>2 DEF CacheOrRace

LEMMA StickyFits ==
  ASSUME NEW r \in Requests, NEW q, Posed(q), q.failed = {}, NEW t \in Tables,
         StickyCacheOrRace(r, q, t)
  PROVE  Fits(r, t)
<1> DEFINE c == q.client
           d == q.domain
           u == Evicted(t, c, d)
<1>1. c \in Clients /\ d \in Domains
  BY DEF Posed
<1>2. NoWin(t, t) /\ NoWin(t, u) /\ u \in Tables
  <2>1. PICK p \in Pids : TRUE
    BY DEF Pids
  <2> QED BY <1>1, <2>1, PinsOK, NoWinSelf DEF NoWin
<1>3. \/ \E p \in Pinnable(t, c, d) : Go(r, Single(q, "sticky", p), t)
      \/ CacheOrRace(r, q, u) \/ CacheOrRace(r, q, t) \/ RaceStart(r, q, u)
  BY DEF StickyCacheOrRace
<1> HIDE DEF u
<1>4. ASSUME NEW p \in Pinnable(t, c, d), Go(r, Single(q, "sticky", p), t)
      PROVE  Fits(r, t)
  <2>1. p \in Pids
    BY <1>1 DEF Pinnable, Tables, Pins, Maybe
  <2>2. Fit(Single(q, "sticky", p))
    BY <2>1, SingleFit
  <2> QED BY <1>2, <1>4, <2>2, GoFits
<1>5. CASE CacheOrRace(r, q, u)
  BY <1>2, <1>5, CacheFits, FitsThen
<1>6. CASE CacheOrRace(r, q, t)
  BY <1>6, CacheFits
<1>7. CASE RaceStart(r, q, u)
  BY <1>2, <1>7, RaceStartFits, FitsThen
<1> QED BY <1>3, <1>4, <1>5, <1>6, <1>7

\* The mark of the pair and the eviction of the pin belong together.
LEMMA FallBackFits ==
  ASSUME NEW r \in Requests, NEW q, Posed(q), q.pid \in Pids,
         q.via = "sticky" => q.failed = {}, NEW t \in Tables, FallBack(r, q, t)
  PROVE  Fits(r, t)
<1> DEFINE u == Degraded(t, q.domain, q.pid)
           v == Evicted(u, q.client, q.domain)
           s == [q EXCEPT !.pid = None, !.via = None, !.failed = @ \cup {q.pid}]
<1>1. Posed(s) /\ s.failed = q.failed \cup {q.pid} /\ s.domain = q.domain
  <2>1. /\ DOMAIN s = DOMAIN Idle /\ s.failed = q.failed \cup {q.pid} /\ s.pid = None
        /\ s.client = q.client /\ s.domain = q.domain /\ s.proto = q.proto
        /\ s.cands = q.cands /\ s.queue = q.queue
    BY DEF Posed, Idle
  <2> HIDE DEF s
  <2> QED BY <2>1 DEF Posed, Maybe
<1>2. q.client \in Clients /\ q.domain \in Domains
  BY DEF Posed
<1>3. NoWin(t, u) /\ u \in Tables /\ u.mark[q.pid][q.domain] # 0
  BY <1>2, MarksOK DEF NoWin
<1>4. NoWin(u, v) /\ v \in Tables /\ v.mark = u.mark
  <2>1. NoWin(u, v)
    BY <1>2, <1>3, PinsOK
  <2>2. v.mark = u.mark
    <3> HIDE DEF u
    <3> QED BY <1>3 DEF Evicted, Tables
  <2> QED BY <2>1, <2>2 DEF NoWin
<1>5. \/ q.via = "sticky" /\ CacheOrRace(r, s, v)
      \/ RaceStart(r, s, u)
      \/ Go(r, Ended(q, 1), t)
  BY DEF FallBack, DirectFails
<1> HIDE DEF s, u, v
<1>6. CASE q.via = "sticky" /\ CacheOrRace(r, s, v)
  <2>1. \A p \in s.failed : v.mark[p][s.domain] # 0
    BY <1>1, <1>3, <1>4, <1>6
  <2>2. Fits(r, v)
    BY <1>1, <1>4, <1>6, <2>1, CacheFits
  <2> QED BY <1>3, <1>4, <2>2, FitsThen
<1>7. CASE RaceStart(r, s, u)
  BY <1>1, <1>3, <1>7, RaceStartFits, FitsThen
<1>8. CASE Go(r, Ended(q, 1), t)
  BY <1>8, EndedFit, NoWinSelf, GoFits
<1> QED BY <1>5, <1>6, <1>7, <1>8

LEMMA AskedPosed ==
  ASSUME NEW r, NEW proto \in Protos, NEW c \in Clients, NEW d \in Domains
  PROVE  LET q == Asked(r, proto, c, d)
         IN  Posed(q) /\ q.failed = {} /\ q.domain = d /\ q.client = c
<1> DEFINE q == Asked(r, proto, c, d)
<1>1. /\ DOMAIN q = DOMAIN Idle /\ q.client = c /\ q.domain = d /\ q.proto = proto
      /\ q.cands = {} /\ q.failed = {} /\ q.pid = None /\ q.queue = <<>>
  BY DEF Asked, Idle
<1> HIDE DEF q
<1>2. q.queue \in Seq(Pids)
  BY <1>1
<1>3. Posed(q) /\ q.failed = {} /\ q.domain = d /\ q.client = c
  BY <1>1, <1>2 DEF Posed, Maybe
<1> QED BY <1>3 DEF q

LEMMA OpenedFit ==
  ASSUME NEW q, Posed(q), q.pid \in Pids, q.via = "sticky" => q.failed = {}
  PROVE  Fit(Opened(q))
<1> DEFINE e == Opened(q)
<1>1. /\ DOMAIN e = DOMAIN Idle /\ e.pc \in {"stream", "greet"} /\ e.via = q.via /\ e.pid = q.pid
      /\ e.client = q.client /\ e.domain = q.domain /\ e.proto = q.proto
      /\ e.cands = q.cands /\ e.failed = q.failed /\ e.queue = q.queue
  <2>1. CASE q.proto = "http"
    <3>1. e = [[q EXCEPT !.pc = "stream"] EXCEPT !.answers = q.answers + 1]
      BY <2>1 DEF Opened, Posed, Idle
    <3> HIDE DEF e
    <3> QED BY <3>1 DEF Posed, Idle
  <2>2. CASE q.proto # "http"
    BY <2>2 DEF Opened, Posed, Idle
  <2> QED BY <2>1, <2>2
<1> HIDE DEF e
<1>2. Fit(e)
  BY <1>1 DEF Fit, Posed, Pcs
<1> QED BY <1>2 DEF e

LEMMA KeptOK ==
  ASSUME NEW t \in Tables, NEW q, Posed(q), q.pid \in Pids, NEW b
  PROVE  NoWin(t, Kept(q, t, b))
<1>1. \A x : NoWin(t, Pinned(t, q.client, q.domain, q.pid, x))
  BY PinsOK DEF Posed
<1> QED BY <1>1, NoWinSelf DEF Kept

LEMMA FitsStep ==
  ASSUME Chain, NEW r \in Requests, Fits(r, tab)
  PROVE  Chain' /\ NoWin(tab, tab')
<1>1. PICK q, u : Go(r, q, u) /\ Fit(q) /\ NoWin(tab, u)
  BY DEF Fits
<1>2. tab' = u /\ u \in Tables
  BY <1>1 DEF Go, NoWin
<1> QED BY <1>1, <1>2, FitGoes

LEMMA ArrivalsFit ==
  ASSUME Chain, NEW r \in Requests,
         Refuse(r) \/ HangUp(r) \/ ArriveDirect(r) \/ FastFail(r) \/ Arrive(r)
  PROVE  Fits(r, tab)
<1>1. tab \in Tables /\ NoWin(tab, tab)
  BY NoWinSelf DEF Chain
<1>2. CASE Refuse(r) \/ HangUp(r)
  <2>1. Fit([Idle EXCEPT !.pc = "unheard"])
    <3>1. Idle.queue \in Seq(Pids)
      BY DEF Idle
    <3> QED BY <3>1 DEF Fit, Idle, Pcs, Maybe
  <2> QED BY <1>1, <1>2, <2>1, EndedFit, GoFits DEF Refuse, HangUp
<1>3. CASE ArriveDirect(r)
  <2>1. PICK proto \in Protos, c \in Clients, d \in DirectDomains :
          ServedDirectly(r, Asked(r, proto, c, d), tab)
    BY <1>3 DEF ArriveDirect
  <2> DEFINE q == Asked(r, proto, c, d)
  <2>2. Posed(q) /\ q.failed = {}
    BY <2>1, AskedPosed DEF DirectDomains
  <2>3. Go(r, Single(q, "direct", Local), tab) \/ Go(r, Ended(q, 1), tab)
    BY <2>1 DEF ServedDirectly
  <2> HIDE DEF q
  <2>4. Fit(Single(q, "direct", Local)) /\ Fit(Ended(q, 1))
    BY <2>2, SingleFit, EndedFit DEF Pids
  <2> QED BY <1>1, <2>3, <2>4, GoFits
<1>4. CASE FastFail(r)
  <2>1. PICK q : Go(r, Ended(q, 1), tab)
    BY <1>4 DEF FastFail
  <2> QED BY <1>1, <2>1, EndedFit, GoFits
<1>5. CASE Arrive(r)
  <2>1. PICK proto \in Protos, c \in Clients, d \in Domains :
          StickyCacheOrRace(r, Asked(r, proto, c, d), Checked(tab, d))
    BY <1>5 DEF Arrive
  <2> DEFINE q == Asked(r, proto, c, d)
  <2>2. Posed(q) /\ q.failed = {}
    BY <2>1, AskedPosed
  <2> HIDE DEF q
  <2>3. NoWin(tab, Checked(tab, d)) /\ Checked(tab, d) \in Tables
    BY <1>1, VerdictsOK DEF NoWin
  <2>4. StickyCacheOrRace(r, q, Checked(tab, d))
    BY <2>1 DEF q
  <2> QED BY <2>2, <2>3, <2>4, StickyFits, FitsThen
<1> QED BY <1>2, <1>3, <1>4, <1>5

LEMMA WsQueueNames ==
  ASSUME NEW t \in Tables, NEW c \in Clients, NEW d \in Domains,
         NEW use \in OneOf(Pinnable(t, c, d)), NEW hit \in OneOf(Fresh(t, d)),
         NEW others \in Orders(d)
  PROVE  WsQueue(IF hit = use THEN use ELSE use \o hit, others) \in Seq(Pids)
<1>1. Pinnable(t, c, d) \subseteq Pids /\ Fresh(t, d) \subseteq Pids
  BY DEF Pinnable, Fresh, Tables, Pins, Metas, Maybe
<1>2. ASSUME NEW S \in SUBSET Pids, NEW s \in OneOf(S) PROVE s \in Seq(Pids)
  <2>1. <<>> \in Seq(Pids) /\ \A p \in Pids : <<p>> \in Seq(Pids)
    OBVIOUS
  <2>2. s = <<>> \/ \E p \in S : s = <<p>>
    BY DEF OneOf
  <2> QED BY <2>1, <2>2
<1>3. use \in Seq(Pids) /\ hit \in Seq(Pids)
  BY <1>1, <1>2
<1> DEFINE first == IF hit = use THEN use ELSE use \o hit
           last == IF conf.local /\ Local \notin Range(first) THEN <<Local>> ELSE <<>>
<1>4. first \in Seq(Pids)
  BY <1>3
<1>5. last \in Seq(Pids)
  <2>1. <<>> \in Seq(Pids) /\ <<Local>> \in Seq(Pids)
    BY DEF Pids
  <2> QED BY <2>1
<1>6. others \in Seq(Pids)
  BY OrdersName
<1>7. WsQueue(first, others) = first \o others \o last
  BY DEF WsQueue
<1> HIDE DEF first, last
<1>8. first \o others \o last \in Seq(Pids)
  BY <1>4, <1>5, <1>6
<1> QED BY <1>7, <1>8 DEF first

LEMMA ArriveWsFits ==
  ASSUME Chain, NEW r \in Requests, ArriveWs(r)
  PROVE  Fits(r, tab)
<1>1. PICK c \in Clients, d \in Domains :
        LET t == Checked(tab, d)
            q == [Asked(r, "ws", c, d) EXCEPT !.pc = "ws"]
        IN  \/ Go(r, [q EXCEPT !.queue = <<Local>>], t)
            \/ \E use \in OneOf(Pinnable(t, c, d)), hit \in OneOf(Fresh(t, d)),
                  drop \in BOOLEAN, others \in Orders(d) :
               LET first == IF hit = use THEN use ELSE use \o hit
               IN  /\ Range(first) \cap Range(others) = {}
                   /\ Go(r, [q EXCEPT !.queue = WsQueue(first, others)],
                         IF use = <<>> /\ drop THEN Evicted(t, c, d) ELSE t)
  BY Zenon DEF ArriveWs
<1> DEFINE t == Checked(tab, d)
           a == Asked(r, "ws", c, d)
           q == [a EXCEPT !.pc = "ws"]
<1>2. tab \in Tables /\ "ws" \in Protos
  BY DEF Chain, ArriveWs
<1>3. t \in Tables /\ NoWin(tab, t) /\ NoWin(tab, Evicted(t, c, d))
  <2>1. NoWin(tab, t) /\ t \in Tables
    BY <1>2, VerdictsOK DEF NoWin
  <2> HIDE DEF t
  <2>2. PICK p \in Pids : TRUE
    BY DEF Pids
  <2> QED BY <2>1, <2>2, PinsOK, NoWinThen
<1>4. ASSUME NEW list \in Seq(Pids) PROVE Fit([q EXCEPT !.queue = list])
  <2> DEFINE e == [q EXCEPT !.queue = list]
  <2>1. Posed(a) /\ a.failed = {} /\ a.proto = "ws"
    BY <1>2, AskedPosed DEF Asked, Idle
  <2> HIDE DEF a
  <2>2. /\ DOMAIN e = DOMAIN Idle /\ e.pc = "ws" /\ e.queue = list
        /\ e.client = a.client /\ e.domain = a.domain /\ e.proto = a.proto
        /\ e.cands = a.cands /\ e.failed = a.failed /\ e.pid = a.pid
    BY <2>1 DEF Posed, Idle
  <2> HIDE DEF e
  <2>3. Fit(e)
    BY <2>1, <2>2 DEF Fit, Posed, Pcs
  <2> QED BY <2>3 DEF e
<1>5. CASE Go(r, [q EXCEPT !.queue = <<Local>>], t)
  <2>1. <<Local>> \in Seq(Pids)
    BY DEF Pids
  <2> QED BY <1>3, <1>4, <1>5, <2>1, GoFits
<1>6. ASSUME NEW use \in OneOf(Pinnable(t, c, d)), NEW hit \in OneOf(Fresh(t, d)),
             NEW drop \in BOOLEAN, NEW others \in Orders(d),
             Go(r, [q EXCEPT !.queue = WsQueue(IF hit = use THEN use ELSE use \o hit, others)],
                IF use = <<>> /\ drop THEN Evicted(t, c, d) ELSE t)
      PROVE  Fits(r, tab)
  <2> DEFINE list == WsQueue(IF hit = use THEN use ELSE use \o hit, others)
             u == IF use = <<>> /\ drop THEN Evicted(t, c, d) ELSE t
  <2>1. list \in Seq(Pids)
    BY <1>3, WsQueueNames
  <2>2. NoWin(tab, u)
    BY <1>3
  <2>3. Go(r, [q EXCEPT !.queue = list], u)
    BY <1>6
  <2> HIDE DEF list, u, q
  <2>4. Fit([q EXCEPT !.queue = list])
    BY <1>4, <2>1
  <2> QED BY <2>2, <2>3, <2>4, GoFits
<1> QED BY <1>1, <1>5, <1>6

LEMMA SingleActionsFit ==
  ASSUME Chain, NEW r \in Requests, SingleOk(r) \/ SingleFails(r) \/ SingleServerError(r)
  PROVE  Fits(r, tab)
<1> DEFINE q == req[r]
           t == Reached(tab, q.domain)
<1>1. tab \in Tables /\ Fit(q) /\ q.pc = "single"
  BY DEF Chain, SingleOk, SingleFails, SingleServerError, Alone
<1>2. Posed(q) /\ q.pid \in Pids /\ (q.via = "sticky" => q.failed = {}) /\ q.domain \in Domains
  BY <1>1, FitPosed DEF Fit
<1>3. NoWin(tab, t) /\ t \in Tables
  BY <1>1, <1>2, VerdictsOK DEF NoWin
<1>4. CASE SingleOk(r)
  <2>1. PICK u : Go(r, Opened(q), u) /\ (u = t \/ \E worse \in BOOLEAN : u = Kept(q, t, worse))
    BY <1>4 DEF SingleOk
  <2> HIDE DEF q, t
  <2>2. NoWin(tab, u)
    BY <1>2, <1>3, <2>1, KeptOK, NoWinThen
  <2> QED BY <1>2, <2>1, <2>2, OpenedFit, GoFits
<1>5. CASE SingleFails(r)
  BY <1>1, <1>2, <1>5, FallBackFits DEF SingleFails
<1>6. CASE SingleServerError(r)
  <2>1. FallBack(r, q, t)
    BY <1>6 DEF SingleServerError
  <2> HIDE DEF q, t
  <2> QED BY <1>2, <1>3, <2>1, FallBackFits, FitsThen
<1> QED BY <1>4, <1>5, <1>6

LEMMA TunnelActionsFit ==
  ASSUME Chain, NEW r \in Requests, StreamEnds(r) \/ GreetOk(r) \/ GreetFails(r) \/ RelayEnds(r)
  PROVE  Fits(r, tab)
<1> DEFINE q == req[r]
<1>1. tab \in Tables /\ NoWin(tab, tab) /\ Fit(q) /\ q.pc \in {"stream", "greet", "relay"}
  BY NoWinSelf DEF Chain, StreamEnds, GreetOk, GreetFails, RelayEnds
<1>2. Posed(q)
  BY <1>1, FitPosed
<1>3. CASE StreamEnds(r)
  <2>1. PICK worse \in BOOLEAN : Go(r, Ended(q, 0), Kept(q, tab, worse)) /\ q.pc = "stream"
    BY <1>3 DEF StreamEnds
  <2>2. NoWin(tab, Kept(q, tab, worse))
    BY <1>1, <1>2, <2>1, KeptOK DEF Fit
  <2> QED BY <2>1, <2>2, EndedFit, GoFits
<1>4. CASE RelayEnds(r)
  BY <1>1, <1>4, EndedFit, GoFits DEF RelayEnds
<1>5. CASE GreetOk(r)
  <2> DEFINE e == [q EXCEPT !.pc = "relay", !.via = None, !.pid = None,
                            !.failed = {}, !.answers = @ + 1]
  <2>1. Go(r, e, tab)
    BY <1>5 DEF GreetOk
  <2>2. /\ DOMAIN e = DOMAIN Idle /\ e.pc = "relay" /\ e.pid = None /\ e.failed = {}
        /\ e.client = q.client /\ e.domain = q.domain /\ e.proto = q.proto
        /\ e.cands = q.cands /\ e.queue = q.queue
    BY <1>2 DEF Posed, Idle
  <2> HIDE DEF e, q
  <2>3. Fit(e)
    BY <1>2, <2>2 DEF Fit, Posed, Pcs, Maybe
  <2> QED BY <1>1, <2>1, <2>3, GoFits
<1>6. CASE GreetFails(r)
  <2> DEFINE g == [q EXCEPT !.gone = TRUE]
  <2>1. (Go(r, Ended(g, 0), tab) \/ FallBack(r, g, tab)) /\ q.pc = "greet"
    BY <1>6 DEF GreetFails
  <2>2. /\ DOMAIN g = DOMAIN Idle /\ g.pid = q.pid /\ g.failed = q.failed /\ g.via = q.via
        /\ g.client = q.client /\ g.domain = q.domain /\ g.proto = q.proto
        /\ g.cands = q.cands /\ g.queue = q.queue
    BY <1>2 DEF Posed, Idle
  <2>3. q.pid \in Pids /\ (q.via = "sticky" => q.failed = {})
    BY <1>1, <2>1 DEF Fit
  <2> HIDE DEF g, q
  <2>4. Posed(g) /\ g.pid \in Pids /\ (g.via = "sticky" => g.failed = {})
    BY <1>2, <2>2, <2>3 DEF Posed
  <2> QED BY <1>1, <2>1, <2>4, EndedFit, FallBackFits, GoFits
<1> QED BY <1>3, <1>4, <1>5, <1>6

LEMMA RaceActionsFit ==
  ASSUME Chain, NEW r \in Requests, RaceAgain(r) \/ RaceLost(r)
  PROVE  Fits(r, tab)
<1> DEFINE q == req[r]
<1>1. tab \in Tables /\ NoWin(tab, tab) /\ Fit(q) /\ q.pc = "race"
  BY NoWinSelf DEF Chain, RaceAgain, RaceLost, InRace
<1>2. Posed(q) /\ q.domain \in Domains
  BY <1>1, FitPosed DEF Posed
<1>3. CASE RaceAgain(r)
  <2>1. PICK l \in Again(q) : Go(r, Racing(q, Range(Batch(q.queue)) \cup l, <<>>), tab)
    BY <1>3 DEF RaceAgain
  <2>2. l \subseteq Pids
    BY MachineToo DEF Again
  <2>3. Range(Batch(q.queue)) \cup l \in SUBSET Pids /\ <<>> \in Seq(Pids)
    BY <1>2, <2>2, BatchNames DEF Posed
  <2> QED BY <1>1, <1>2, <2>1, <2>3, RacingFit, GoFits
<1>4. CASE RaceLost(r)
  <2>1. Go(r, Ended(q, 1), Noted(tab, q.domain))
    BY <1>4 DEF RaceLost, Exhausted
  <2> QED BY <1>1, <1>2, <2>1, VerdictsOK, EndedFit, GoFits
<1> QED BY <1>3, <1>4

LEMMA AnsweredOK ==
  ASSUME NEW t \in Tables, NEW q, Posed(q)
  PROVE  NoWin(t, Answered(q, t))
BY VerdictsOK, NoWinSelf DEF Answered, Posed

LEMMA WsActionsFit ==
  ASSUME Chain, NEW r \in Requests,
         WsOpens(r) \/ WsFails(r) \/ WsExhausted(r) \/ WsRefused(r) \/ Cancel(r)
  PROVE  Fits(r, tab)
<1> DEFINE q == req[r]
<1>1. /\ tab \in Tables /\ NoWin(tab, tab) /\ Fit(q)
      /\ q.pc \notin {"idle", "unheard", "done"}
  BY NoWinSelf DEF Chain, WsOpens, WsFails, WsExhausted, WsRefused, Cancel
<1>2. Posed(q) /\ q.domain \in Domains
  BY <1>1, FitPosed DEF Posed
<1>3. CASE WsOpens(r)
  <2> DEFINE h == Head(q.queue)
             e == [q EXCEPT !.pc = "head", !.pid = h, !.queue = Tail(@), !.failed = @ \cup {h}]
  <2>1. Go(r, e, tab) /\ q.pc = "ws" /\ q.queue # <<>>
    BY <1>3 DEF WsOpens
  <2>2. h \in Pids /\ Tail(q.queue) \in Seq(Pids)
    BY <1>2, <2>1, HeadTailProperties DEF Posed
  <2>3. /\ DOMAIN e = DOMAIN Idle /\ e.pc = "head" /\ e.pid = h /\ e.failed = q.failed \cup {h}
        /\ e.client = q.client /\ e.domain = q.domain /\ e.proto = q.proto
        /\ e.cands = q.cands /\ e.queue = Tail(q.queue)
    BY <1>2 DEF Posed, Idle
  <2>4. q.proto = "ws"
    BY <1>1, <2>1 DEF Fit
  <2> HIDE DEF h, e, q
  <2>5. Fit(e)
    BY <1>2, <2>2, <2>3, <2>4 DEF Fit, Posed, Pcs, Maybe
  <2> QED BY <1>1, <2>1, <2>5, GoFits
<1>4. CASE WsFails(r)
  <2> DEFINE e == [q EXCEPT !.pc = "ws", !.pid = None]
  <2>1. Go(r, e, tab) /\ q.pc = "head"
    BY <1>4 DEF WsFails
  <2>2. /\ DOMAIN e = DOMAIN Idle /\ e.pc = "ws" /\ e.pid = None /\ e.failed = q.failed
        /\ e.client = q.client /\ e.domain = q.domain /\ e.proto = q.proto
        /\ e.cands = q.cands /\ e.queue = q.queue
    BY <1>2 DEF Posed, Idle
  <2>3. q.proto = "ws"
    BY <1>1, <2>1 DEF Fit
  <2> HIDE DEF e, q
  <2>4. Fit(e)
    BY <1>2, <2>2, <2>3 DEF Fit, Posed, Pcs, Maybe
  <2> QED BY <1>1, <2>1, <2>4, GoFits
<1>5. CASE WsExhausted(r)
  <2>1. Go(r, Ended(q, 1), Noted(tab, q.domain)) \/ Go(r, Ended(q, 1), tab)
    BY <1>5 DEF WsExhausted, Exhausted
  <2> QED BY <1>1, <1>2, <2>1, VerdictsOK, EndedFit, GoFits
<1>6. CASE WsRefused(r)
  <2>1. PICK g, n : Go(r, Ended(g, n), Answered(q, tab))
    BY <1>6 DEF WsRefused
  <2> QED BY <1>1, <1>2, <2>1, AnsweredOK, EndedFit, GoFits
<1>7. CASE Cancel(r)
  <2>1. PICK g : Go(r, Ended(g, 0), tab)
    BY <1>7 DEF Cancel
  <2> QED BY <1>1, <2>1, EndedFit, GoFits
<1> QED BY <1>3, <1>4, <1>5, <1>6, <1>7

\* A win: of whom, and from which tables.
Wins(r, p, worse, sure) ==
    LET q == req[r]
        d == q.domain
    IN  \E t : /\ NoWin(tab, t)
               /\ tab'.meta = RecordedWin(t, d, p, worse, sure).meta
               /\ tab'.wins = RecordedWin(t, d, p, worse, sure).wins
               /\ \E s : /\ s \in {seen[d], SeenOk(seen[d])}
                         /\ seen' = [seen EXCEPT ![d] =
                                        SeenWin(s, p, worse, MaySwitch(t, d, p, sure))]

LEMMA RaceWonFits ==
  ASSUME Chain, NEW r \in Requests, RaceWon(r)
  PROVE  /\ Chain' /\ req[r].domain \in Domains
         /\ \E p \in Pids, worse, sure \in BOOLEAN : Wins(r, p, worse, sure)
<1> DEFINE q == req[r]
           d == q.domain
           t == Reached(tab, d)
<1>1. tab \in Tables /\ Fit(q) /\ q.pc = "race"
  BY DEF Chain, RaceWon, InRace
<1>2. Posed(q) /\ q.domain \in Domains /\ q.client \in Clients /\ q.failed = {}
  BY <1>1, FitPosed DEF Posed, Fit
<1>3. NoWin(tab, t) /\ t \in Tables
  BY <1>1, <1>2, VerdictsOK DEF NoWin
<1>4. PICK p \in q.cands, worse \in BOOLEAN, sure \in BOOLEAN :
        /\ Go(r, Opened([q EXCEPT !.pid = p, !.cands = {}, !.queue = <<>>]),
              Pinned(RecordedWin(t, d, p, worse, sure), q.client, d, p, worse))
        /\ seen' = [seen EXCEPT ![d] = SeenWin(SeenOk(@), p, worse, MaySwitch(t, d, p, sure))]
  BY DEF RaceWon
<1>5. p \in Pids
  BY <1>1 DEF Fit
<1> DEFINE s == [q EXCEPT !.pid = p, !.cands = {}, !.queue = <<>>]
           u == RecordedWin(t, d, p, worse, sure)
           v == Pinned(u, q.client, d, p, worse)
<1>6. Posed(s) /\ s.pid = p /\ s.failed = {}
  <2>1. /\ DOMAIN s = DOMAIN Idle /\ s.pid = p /\ s.failed = q.failed
        /\ s.client = q.client /\ s.domain = q.domain /\ s.proto = q.proto
        /\ s.cands = {} /\ s.queue = <<>>
    BY <1>2 DEF Posed, Idle
  <2>2. s.queue \in Seq(Pids)
    BY <2>1
  <2> HIDE DEF s, q
  <2> QED BY <1>2, <1>5, <2>1, <2>2 DEF Posed, Maybe
<1>7. Fit(Opened(s))
  <2> HIDE DEF s
  <2> QED BY <1>5, <1>6, OpenedFit
<1>8. u \in Tables
  <2> HIDE DEF q, t
  <2> QED BY <1>2, <1>3, <1>5, WinOK
<1>9. NoWin(u, v) /\ v \in Tables
  <2> HIDE DEF q, u
  <2>1. NoWin(u, v)
    BY <1>2, <1>5, <1>8, PinsOK
  <2> QED BY <2>1 DEF NoWin
<1>10. Go(r, Opened(s), v)
  BY <1>4
<1> HIDE DEF v, s
<1>11. Chain' /\ tab' = v
  BY <1>7, <1>9, <1>10, FitGoes DEF Go
<1>12. tab'.meta = u.meta /\ tab'.wins = u.wins
  BY <1>9, <1>11 DEF NoWin
<1>13. seen' = [seen EXCEPT ![d] = SeenWin(SeenOk(seen[d]), p, worse, MaySwitch(t, d, p, sure))]
  BY <1>4
<1> HIDE DEF t
<1>14. Wins(r, p, worse, sure)
  BY <1>3, <1>12, <1>13 DEF Wins
<1> QED BY <1>2, <1>5, <1>11, <1>14

LEMMA WsSwitchesFits ==
  ASSUME Chain, NEW r \in Requests, WsSwitches(r)
  PROVE  /\ Chain' /\ req[r].domain \in Domains
         /\ \E p \in Pids, worse, sure \in BOOLEAN : Wins(r, p, worse, sure)
<1> DEFINE q == req[r]
           d == q.domain
           t == Answered(q, tab)
           g == [q EXCEPT !.gone = TRUE]
           s == [q EXCEPT !.pc = "relay", !.pid = None, !.queue = <<>>,
                          !.failed = {}, !.answers = @ + 1]
           p == q.pid
<1>1. tab \in Tables /\ Fit(q) /\ q.pc = "head"
  BY DEF Chain, WsSwitches
<1>2. Posed(q) /\ d \in Domains /\ p \in Pids
  BY <1>1, FitPosed DEF Posed, Fit
<1>3. NoWin(tab, t) /\ t \in Tables
  BY <1>1, <1>2, AnsweredOK DEF NoWin
<1>4. PICK worse \in BOOLEAN, sure \in BOOLEAN :
        /\ \/ Go(r, s, RecordedWin(t, d, p, worse, sure))
           \/ Go(r, Ended(g, 0), RecordedWin(t, d, p, worse, sure))
        /\ seen' = [seen EXCEPT ![d] = SeenWin(SeenAnswer(q, @), p, worse,
                                               MaySwitch(t, d, p, sure))]
  BY DEF WsSwitches
<1> DEFINE u == RecordedWin(t, d, p, worse, sure)
<1>5. Fit(s)
  <2>1. /\ DOMAIN s = DOMAIN Idle /\ s.pc = "relay" /\ s.pid = None /\ s.failed = {}
        /\ s.client = q.client /\ s.domain = q.domain /\ s.proto = q.proto
        /\ s.cands = q.cands /\ s.queue = <<>>
    BY <1>2 DEF Posed, Idle
  <2>2. s.queue \in Seq(Pids)
    BY <2>1
  <2> HIDE DEF s, q
  <2> QED BY <1>2, <2>1, <2>2 DEF Fit, Posed, Pcs, Maybe
<1>6. PICK e : Fit(e) /\ Go(r, e, u)
  BY <1>4, <1>5, EndedFit
<1>7. u \in Tables
  <2> HIDE DEF t, q, d, p
  <2> QED BY <1>2, <1>3, WinOK
<1> HIDE DEF u
<1>8. Chain' /\ tab' = u
  BY <1>6, <1>7, FitGoes DEF Go
<1>9. seen' = [seen EXCEPT ![d] = SeenWin(SeenAnswer(q, seen[d]), p, worse, MaySwitch(t, d, p, sure))]
      /\ SeenAnswer(q, seen[d]) \in {seen[d], SeenOk(seen[d])}
  BY <1>4 DEF SeenAnswer
<1>10. Wins(r, p, worse, sure)
  <2>1. tab'.meta = RecordedWin(t, d, p, worse, sure).meta
        /\ tab'.wins = RecordedWin(t, d, p, worse, sure).wins
    BY <1>8 DEF u
  <2> HIDE DEF t
  <2> QED BY <1>3, <1>9, <2>1 DEF Wins
<1> QED BY <1>2, <1>8, <1>10

-----------------------------------------------------------------------------
(* Wins in a row: who has won the last wins of a domain is the cached proxy *)
(* or has its first win counted.  With more than two wins asked for that is *)
(* not so: the count of a candidate never gets past one.                    *)

InRow(m, w, s) ==
    /\ s.row \in 0 .. MinWins
    /\ s.row > 0 /\ m # s.by => s.row < MinWins /\ w = [pid |-> s.by, n |-> 1]
Rows == MinWins <= 2 => \A d \in Domains : InRow(tab.meta[d], tab.wins[d], seen[d])

\* No win was seen.
SameRow ==
    \A d \in Domains : seen'[d].by = seen[d].by /\ seen'[d].row = seen[d].row

LEMMA CalmStep ==
  ASSUME Rows, NoWin(tab, tab'), SameRow
  PROVE  Rows'
BY DEF Rows, NoWin, SameRow, InRow

LEMMA SameRowOfOne ==
  ASSUME AllSound, NEW d \in Domains, NEW s, seen' = [seen EXCEPT ![d] = s],
         s.by = seen[d].by, s.row = seen[d].row
  PROVE  SameRow
BY DEF AllSound, SameRow

LEMMA SeenSame ==
  ASSUME NEW s, SeenTyped(s), NEW b
  PROVE  /\ SeenOk(s).by = s.by /\ SeenOk(s).row = s.row
         /\ SeenFailure(s, b).by = s.by /\ SeenFailure(s, b).row = s.row
<1>1. SeenOk(s).by = s.by /\ SeenOk(s).row = s.row
  BY DEF SeenTyped, SeenOk, NothingSeen
<1>2. SeenFailure(s, b).by = s.by /\ SeenFailure(s, b).row = s.row
  <2> DEFINE n == IF s.gap <= ProveWindow THEN Least(s.run + 1, MinFails) ELSE 1
             f == Least(s.fails + 1, MinFails)
             l == IF n = MinFails THEN DeadTtl ELSE s.due
  <2>1. SeenFailure(s, b) = IF b THEN [s EXCEPT !.run = 0, !.due = 0]
                            ELSE [s EXCEPT !.fails = f, !.run = n, !.gap = 0, !.due = l]
    BY DEF SeenFailure
  <2> HIDE DEF n, f, l
  <2> QED BY <2>1 DEF SeenTyped, NothingSeen
<1> QED BY <1>1, <1>2

LEMMA FailureSame ==
  ASSUME AllSound, NEW r \in Requests, NEW q, q.domain \in Domains, Exhausted(r, q)
  PROVE  SameRow
<1> DEFINE d == q.domain
           s == SeenFailure(seen[d], tab.ok[d] < ProveWindow)
<1>1. SeenTyped(seen[d])
  BY DEF AllSound, Sound
<1>2. s.by = seen[d].by /\ s.row = seen[d].row
  BY <1>1, SeenSame
<1>3. seen' = [seen EXCEPT ![d] = s]
  BY DEF Exhausted
<1> HIDE DEF s
<1> QED BY <1>2, <1>3, SameRowOfOne

LEMMA OkSame ==
  ASSUME AllSound, NEW d \in Domains, seen' = [seen EXCEPT ![d] = SeenOk(@)]
  PROVE  SameRow
<1>1. SeenTyped(seen[d])
  BY DEF AllSound, Sound
<1>2. seen' = [seen EXCEPT ![d] = SeenOk(seen[d])]
  OBVIOUS
<1> QED BY <1>1, <1>2, SeenSame, SameRowOfOne

\* What handler r does when nobody wins.
LEMMA HandlerCalm ==
  ASSUME IInv, Chain, NEW r \in Requests,
         \/ Refuse(r) \/ HangUp(r) \/ ArriveDirect(r) \/ FastFail(r) \/ Arrive(r)
             \/ ArriveWs(r)
         \/ SingleOk(r) \/ SingleFails(r) \/ SingleServerError(r) \/ StreamEnds(r)
         \/ GreetOk(r) \/ GreetFails(r) \/ RelayEnds(r)
         \/ RaceAgain(r) \/ RaceLost(r)
         \/ WsOpens(r) \/ WsFails(r) \/ WsExhausted(r) \/ WsRefused(r) \/ Cancel(r)
  PROVE  Chain' /\ NoWin(tab, tab') /\ SameRow
<1>1. Fits(r, tab)
  BY ArrivalsFit, ArriveWsFits, SingleActionsFit, TunnelActionsFit, RaceActionsFit, WsActionsFit
<1>2. Chain' /\ NoWin(tab, tab')
  BY <1>1, FitsStep
<1> SUFFICES SameRow
  BY <1>2
<1>3. AllSound
  BY DEF IInv
<1>4. req[r].pc \notin {"idle", "unheard", "done"} => req[r].domain \in Domains
  <2>1. Fit(req[r])
    BY DEF Chain
  <2> QED BY <2>1 DEF Fit
<1> DEFINE d == req[r].domain
<1>5. CASE UNCHANGED seen
  BY <1>5 DEF SameRow
<1>6. CASE SingleOk(r) \/ SingleServerError(r)
  <2>1. /\ req[r].pc = "single"
        /\ seen' = [seen EXCEPT ![d] = SeenOk(@)]
    BY <1>6 DEF SingleOk, SingleServerError, Alone
  <2>2. d \in Domains
    BY <1>4, <2>1
  <2> HIDE DEF d
  <2> QED BY <1>3, <2>1, <2>2, OkSame
<1>7. CASE RaceLost(r) \/ WsExhausted(r)
  <2>1. req[r].pc \in {"race", "ws"}
    BY <1>7 DEF RaceLost, WsExhausted, InRace
  <2>2. req[r].domain \in Domains
    BY <1>4, <2>1
  <2>3. Exhausted(r, req[r]) \/ UNCHANGED seen
    BY <1>7 DEF RaceLost, WsExhausted
  <2> QED BY <1>3, <1>5, <2>2, <2>3, FailureSame
<1>8. CASE WsRefused(r)
  <2>1. /\ req[r].pc = "head"
        /\ seen' = [seen EXCEPT ![d] = SeenAnswer(req[r], @)]
    BY <1>8 DEF WsRefused
  <2>2. d \in Domains
    BY <1>4, <2>1
  <2>3. \/ seen' = [seen EXCEPT ![d] = SeenOk(@)]
        \/ seen' = [seen EXCEPT ![d] = seen[d]]
    BY <2>1 DEF SeenAnswer
  <2> HIDE DEF d
  <2>4. CASE seen' = [seen EXCEPT ![d] = SeenOk(@)]
    BY <1>3, <2>2, <2>4, OkSame
  <2>5. CASE seen' = [seen EXCEPT ![d] = seen[d]]
    BY <1>3, <2>2, <2>5, SameRowOfOne
  <2> QED BY <2>3, <2>4, <2>5
<1> QED BY <1>5, <1>6, <1>7, <1>8
     DEF Refuse, HangUp, ArriveDirect, FastFail, Arrive, ArriveWs, SingleFails,
     StreamEnds, GreetOk, GreetFails, RelayEnds, RaceAgain, WsOpens, WsFails, Cancel

LEMMA ProbeAnsweredCalm ==
  ASSUME IInv, Chain, NEW d \in Domains, ProbeAnswered(d)
  PROVE  Chain' /\ NoWin(tab, tab') /\ SameRow
<1>1. /\ tab' = Reached(tab, d) /\ UNCHANGED req
      /\ seen' = [seen EXCEPT ![d] = SeenOk(@)]
  BY DEF ProbeAnswered
<1>2. NoWin(tab, tab')
  BY <1>1, VerdictsOK DEF Chain
<1>3. SameRow
  BY <1>1, OkSame DEF IInv
<1>4. Chain'
  BY <1>1, <1>2 DEF Chain, NoWin, Fit, Maybe, Pids
<1> QED BY <1>2, <1>3, <1>4

LEMMA TickCalm ==
  ASSUME IInv, Chain, Tick
  PROVE  Chain' /\ NoWin(tab, tab') /\ SameRow
<1> DEFINE m == [p \in Pids |-> [d \in Domains |-> Less(tab.mark[p][d])]]
           x == [d \in Domains |-> [tab.dead[d] EXCEPT !.prove = Less(@), !.left = Less(@)]]
           y == [d \in Domains |-> Least(tab.ok[d] + 1, ProveWindow)]
<1>1. tab \in Tables /\ UNCHANGED req
  BY DEF Chain, Tick
<1>2. tab.mark \in Marks /\ tab.dead \in [Domains -> Entries] /\ tab.ok \in [Domains -> 0 .. ProveWindow]
  BY <1>1 DEF Tables
<1>3. tab' = [tab EXCEPT !.mark = m, !.dead = x, !.ok = y]
  BY Zenon DEF Tick
<1>4. m \in Marks
  BY <1>2, Bounds DEF Marks, Less
<1>5. x \in [Domains -> Entries]
  <2> SUFFICES ASSUME NEW e \in Entries
               PROVE  [e EXCEPT !.prove = Less(@), !.left = Less(@)] \in Entries
    BY <1>2
  <2>1. Less(e.prove) \in 0 .. ProveWindow + 1 /\ Less(e.left) \in 0 .. DeadTtl
    BY Numbers DEF Entries, Less
  <2> QED BY <2>1 DEF Entries
<1>6. y \in [Domains -> 0 .. ProveWindow]
  BY <1>2, Numbers DEF Least
<1> HIDE DEF m, x, y
<1>7. NoWin(tab, tab')
  BY <1>1, <1>3, <1>4, <1>5, <1>6 DEF NoWin, Tables
<1>8. Chain'
  BY <1>1, <1>7 DEF Chain, NoWin, Fit, Maybe, Pids
<1>9. SameRow
  <2> SUFFICES ASSUME NEW d \in Domains
               PROVE  seen'[d].by = seen[d].by /\ seen'[d].row = seen[d].row
    BY DEF SameRow
  <2>1. SeenTyped(seen[d])
    BY DEF IInv, AllSound, Sound
  <2> DEFINE s == seen[d]
             a == Least(s.gap + 1, ProveWindow + 1)
             b == Less(s.due)
             c == IF tab.dead[d].left = 1 THEN 0 ELSE s.run
  <2>2. seen'[d] = [s EXCEPT !.gap = a, !.due = b, !.run = c]
    BY DEF Tick
  <2> HIDE DEF a, b, c
  <2> QED BY <2>1, <2>2 DEF SeenTyped, NothingSeen
<1> QED BY <1>7, <1>8, <1>9

\* The arithmetic of a win.
LEMMA RowWon ==
  ASSUME MinWins <= 2, NEW m, NEW w \in [pid : Maybe(Pids), n : 0 .. 1], NEW s, SeenTyped(s),
         InRow(m, w, s), NEW p \in Pids, NEW worse \in BOOLEAN, NEW may \in BOOLEAN,
         MinWins = 1 \/ m = p => may,
         (IF w.pid = p THEN w.n ELSE 0) + 1 >= MinWins => may,
         NEW u, ~may => u = [pid |-> p, n |-> 1], NEW cleared
  PROVE  InRow(IF may /\ ~worse THEN p ELSE m, u, SeenWin(s, p, worse, cleared))
<1> DEFINE v == SeenWin(s, p, worse, cleared)
           n == IF worse THEN 0 ELSE IF s.by = p THEN Least(s.row + 1, MinWins) ELSE 1
<1>1. v.by = (IF worse THEN None ELSE p) /\ v.row = n
  <2> DEFINE b == IF worse THEN None ELSE p
             l == IF cleared THEN 0 ELSE s.due
             f == IF cleared THEN 0 ELSE s.fails
  <2>1. v = [s EXCEPT !.by = b, !.row = n, !.run = 0, !.due = l, !.fails = f]
    BY DEF SeenWin
  <2> HIDE DEF v, b, n, l, f
  <2>2. v.by = b /\ v.row = n
    BY <2>1 DEF SeenTyped, NothingSeen
  <2> QED BY <2>2 DEF b
<1>2. MinWins \in {1, 2}
  BY Bounds
<1>3. s.row \in 0 .. MinWins
  BY DEF InRow
<1>4. n \in 0 .. MinWins
  BY <1>2, <1>3 DEF Least
<1>5. ASSUME ~may, ~worse PROVE n < MinWins
  <2>1. MinWins = 2 /\ m # p
    BY <1>2, <1>5
  <2>2. CASE s.by # p
    BY <1>5, <2>1, <2>2
  <2>3. CASE s.by = p
    <3>1. s.row = 0
      <4> SUFFICES ASSUME s.row > 0 PROVE FALSE
        BY <1>3, Bounds
      <4>1. w = [pid |-> p, n |-> 1]
        BY <2>1, <2>3 DEF InRow
      <4> QED BY <1>5, <2>1, <4>1
    <3> QED BY <1>5, <2>1, <2>3, <3>1 DEF Least
  <2> QED BY <2>2, <2>3
<1> HIDE DEF v
<1>6. InRow(IF may /\ ~worse THEN p ELSE m, u, v)
  BY <1>1, <1>4, <1>5 DEF InRow
<1> QED BY <1>6 DEF v

LEMMA WinStep ==
  ASSUME IInv, Chain, Rows, NEW r \in Requests, req[r].domain \in Domains,
         NEW p \in Pids, NEW worse \in BOOLEAN, NEW sure \in BOOLEAN, Wins(r, p, worse, sure)
  PROVE  Rows'
<1> SUFFICES ASSUME MinWins <= 2, NEW x \in Domains
             PROVE  InRow(tab'.meta[x], tab'.wins[x], seen'[x])
  BY DEF Rows, InRow
<1> DEFINE d == req[r].domain
<1>1. PICK t, s : /\ NoWin(tab, t)
                  /\ tab'.meta = RecordedWin(t, d, p, worse, sure).meta
                  /\ tab'.wins = RecordedWin(t, d, p, worse, sure).wins
                  /\ s \in {seen[d], SeenOk(seen[d])}
                  /\ seen' = [seen EXCEPT ![d] = SeenWin(s, p, worse, MaySwitch(t, d, p, sure))]
  BY DEF Wins
<1> DEFINE u == RecordedWin(t, d, p, worse, sure)
           may == MaySwitch(t, d, p, sure)
<1>2. t \in Tables /\ t.meta = tab.meta /\ t.wins = tab.wins /\ DOMAIN seen = Domains
  BY <1>1 DEF NoWin, IInv, AllSound
<1>3. /\ \A y \in Domains \ {d} : u.meta[y] = t.meta[y] /\ u.wins[y] = t.wins[y]
      /\ u.meta[d] = IF may /\ ~worse THEN p ELSE t.meta[d]
      /\ ~may => u.wins[d] = [pid |-> p, n |-> 1]
  <2>1. t \in Tables /\ d \in Domains
    BY <1>2
  <2> HIDE DEF d
  <2> QED BY <2>1, WinOK
<1>4. InRow(tab.meta[x], tab.wins[x], seen[x]) /\ InRow(tab.meta[d], tab.wins[d], seen[d])
  BY DEF Rows
<1>5. CASE x # d
  BY <1>1, <1>2, <1>3, <1>4, <1>5
<1>6. CASE x = d
  <2>1. SeenTyped(seen[d])
    BY DEF IInv, AllSound, Sound
  <2>2. SeenTyped(s) /\ s.by = seen[d].by /\ s.row = seen[d].row
    BY <1>1, <2>1, SeenSame, SeenOkTyped
  <2>3. InRow(t.meta[d], t.wins[d], s)
    BY <1>2, <1>4, <2>2 DEF InRow
  <2>4. t.wins[d] \in [pid : Maybe(Pids), n : 0 .. 1]
    BY <1>2 DEF Tables, Counts
  <2>5. /\ may \in BOOLEAN
        /\ MinWins = 1 \/ t.meta[d] = p => may
        /\ (IF t.wins[d].pid = p THEN t.wins[d].n ELSE 0) + 1 >= MinWins => may
    BY DEF MaySwitch, Unopposed, Enough
  <2>6. seen'[d] = SeenWin(s, p, worse, may)
    BY <1>1, <1>2
  <2> HIDE DEF d, u, may
  <2>7. InRow(u.meta[d], u.wins[d], SeenWin(s, p, worse, may))
    <3> DEFINE m == t.meta[d]
               c == u.wins[d]
    <3>1. ~may => c = [pid |-> p, n |-> 1]
      BY <1>3
    <3> HIDE DEF m, c
    <3>2. InRow(IF may /\ ~worse THEN p ELSE m, c, SeenWin(s, p, worse, may))
      BY <2>2, <2>3, <2>4, <2>5, <3>1, RowWon DEF m
    <3> QED BY <1>3, <3>2 DEF m, c
  <2> QED BY <1>1, <1>6, <2>6, <2>7 DEF u
<1> QED BY <1>5, <1>6

LEMMA InitChain == Init => Chain /\ Rows
<1> SUFFICES ASSUME Init PROVE Chain /\ Rows
  OBVIOUS
<1>1. PICK loaded \in [Domains -> Loaded \cup {None}] :
       tab = [pin  |-> [c \in Clients |-> [d \in Domains |-> None]],
              meta |-> loaded,
              mark |-> [p \in Pids |-> [d \in Domains |-> 0]],
              wins |-> [d \in Domains |-> NoWins],
              dead |-> [d \in Domains |-> NoEntry],
              ok   |-> [d \in Domains |-> ProveWindow]]
  BY DEF Init
<1>2. tab.pin \in Pins /\ tab.meta \in Metas /\ tab.mark \in Marks /\ tab.wins \in Counts
  <2>1. Loaded \subseteq Pids
    BY DispatchAssumption DEF DispatchAssumption, Pids
  <2> QED BY <1>1, <2>1, Bounds DEF Pins, Metas, Marks, Counts, Maybe, NoWins
<1>3. tab.dead \in [Domains -> Entries] /\ tab.ok \in [Domains -> 0 .. ProveWindow]
  BY <1>1, NoEntryType, Numbers
<1>4. tab \in Tables
  BY <1>1, <1>2, <1>3 DEF Tables
<1>5. Fit(Idle)
  <2>1. Idle.queue \in Seq(Pids)
    BY DEF Idle
  <2> QED BY <2>1 DEF Fit, Idle, Pcs, Maybe
<1>6. Chain
  BY <1>4, <1>5 DEF Init, Chain
<1>7. Rows
  BY Bounds DEF Init, Rows, InRow, NothingSeen
<1> QED BY <1>6, <1>7

LEMMA ChainNext == IInv /\ Chain /\ Rows /\ [Next]_vars => Chain' /\ Rows'
<1> SUFFICES ASSUME IInv, Chain, Rows, [Next]_vars PROVE Chain' /\ Rows'
  OBVIOUS
<1>1. CASE UNCHANGED vars
  BY <1>1 DEF vars, Chain, Rows, InRow, Fit, Maybe, Pids
<1>2. CASE Tick \/ \E d \in Domains : ProbeAnswered(d)
  BY <1>2, TickCalm, ProbeAnsweredCalm, CalmStep
<1>3. ASSUME NEW r \in Requests, RaceWon(r) \/ WsSwitches(r)
      PROVE  Chain' /\ Rows'
  BY <1>3, RaceWonFits, WsSwitchesFits, WinStep
<1>4. ASSUME NEW r \in Requests, RaceServerError(r)
      PROVE  Chain' /\ Rows'
  BY <1>4, RaceServerErrorIsAnswer, ProbeAnsweredCalm, CalmStep DEF IInv
<1>5. ASSUME NEW r \in Requests,
             \/ Refuse(r) \/ HangUp(r) \/ ArriveDirect(r) \/ FastFail(r) \/ Arrive(r)
             \/ ArriveWs(r)
             \/ SingleOk(r) \/ SingleFails(r) \/ SingleServerError(r) \/ StreamEnds(r)
             \/ GreetOk(r) \/ GreetFails(r) \/ RelayEnds(r)
             \/ RaceAgain(r) \/ RaceLost(r)
             \/ WsOpens(r) \/ WsFails(r) \/ WsExhausted(r) \/ WsRefused(r) \/ Cancel(r)
      PROVE  Chain' /\ Rows'
  BY <1>5, HandlerCalm, CalmStep
<1> QED BY <1>1, <1>2, <1>3, <1>4, <1>5 DEF Next

-----------------------------------------------------------------------------
(* The kinds of the open streams.                                           *)

Streams == conf \in Configs /\ held \subseteq Requests \X (Protos \cup {"direct"})

LEMMA StreamsNext == Chain /\ Streams /\ [Next]_vars => Streams'
<1> SUFFICES ASSUME Chain, Streams, [Next]_vars PROVE Streams'
  OBVIOUS
<1>1. CASE UNCHANGED vars
  BY <1>1 DEF vars, Streams
<1>2. CASE Next
  <2>1. conf' \in Configs
    BY <1>2 DEF Next, Streams
  <2>2. CASE UNCHANGED held
    BY <2>1, <2>2 DEF Streams
  <2>3. ASSUME NEW r \in Requests, held' \subseteq held PROVE Streams'
    BY <2>1, <2>3 DEF Streams
  <2>4. ASSUME NEW r \in Requests, SingleOk(r) \/ RaceWon(r) PROVE Streams'
    <3>1. req[r].proto \in Protos
      BY <2>4 DEF SingleOk, RaceWon, Alone, InRace, Chain, Fit
    <3>2. held' = held \cup {<<r, Kind(req[r])>>}
      BY <2>4 DEF SingleOk, RaceWon
    <3> QED BY <2>1, <3>1, <3>2 DEF Streams, Kind
  <2>5. ASSUME NEW r \in Requests, WsOpens(r) PROVE Streams'
    <3>1. "ws" \in Protos
      BY <2>5 DEF WsOpens, Chain, Fit
    <3> QED BY <2>1, <2>5, <3>1 DEF Streams, WsOpens
  <2>6. ASSUME NEW r \in Requests,
               \/ Refuse(r) \/ HangUp(r) \/ ArriveDirect(r) \/ FastFail(r) \/ Arrive(r)
             \/ ArriveWs(r)
               \/ SingleFails(r) \/ SingleServerError(r) \/ StreamEnds(r)
               \/ GreetOk(r) \/ GreetFails(r) \/ RelayEnds(r)
               \/ RaceServerError(r) \/ RaceAgain(r) \/ RaceLost(r)
        PROVE  held' \subseteq held
    BY <2>6 DEF Refuse, HangUp, ArriveDirect, FastFail, Arrive, ArriveWs, SingleFails, SingleServerError,
                StreamEnds, GreetOk, GreetFails, RelayEnds, RaceServerError, RaceAgain, RaceLost,
                Exhausted, Closed
  <2>7. ASSUME NEW r \in Requests,
               WsFails(r) \/ WsExhausted(r) \/ WsRefused(r) \/ WsSwitches(r) \/ Cancel(r)
        PROVE  held' \subseteq held
    BY <2>7 DEF WsFails, WsExhausted, WsRefused, WsSwitches, Cancel, Exhausted, Closed
  <2>8. Tick \/ (\E d \in Domains : ProbeAnswered(d)) => UNCHANGED held
    BY DEF Tick, ProbeAnswered
  <2> QED BY <1>2, <2>2, <2>3, <2>4, <2>5, <2>6, <2>7, <2>8 DEF Next
<1> QED BY <1>1, <1>2

LEMMA ShapesKept == Chain /\ Streams => TypeOK
<1> SUFFICES ASSUME Chain, Streams PROVE TypeOK
  OBVIOUS
<1>1. ASSUME NEW r \in Requests
      PROVE  /\ req[r].pc \in Pcs
             /\ req[r].cands \cup Range(req[r].queue) \cup req[r].failed \subseteq Pids
             /\ req[r].pid \in Maybe(Pids)
  <2>1. Range(req[r].queue) \subseteq Pids
    BY DEF Chain, Fit, Range
  <2> QED BY <2>1 DEF Chain, Fit
<1>2. tab \in Tables
  BY DEF Chain
<1> QED BY <1>1, <1>2 DEF TypeOK, Streams, Tables, Pins, Metas, Marks, Counts, Entries, Pcs

-----------------------------------------------------------------------------
(* The theorems.                                                            *)

LEMMA Invariant == Spec => []IInv
<1>1. Init => IInv
  BY InitIInv
<1>2. IInv /\ [Next]_vars => IInv'
  BY NextStep
<1> QED BY <1>1, <1>2, PTL DEF Spec

\* Whatever fails, in whatever order, a client gets one status line.
THEOREM OneAnswer == Spec => []AnsweredOnce
<1>1. IInv => AnsweredOnce
  BY DEF IInv, AllWell, Well, Pcs, AnsweredOnce
<1> QED BY <1>1, Invariant, PTL

\* No way out of a request over HTTP or of a proxied CONNECT leaves its
\* upstream open, stop() included.
THEOREM NothingLeftOpen == Spec => []NoTunnelLeft
<1>1. IInv => NoTunnelLeft
  BY DEF IInv, HeldWell, Holds, NoTunnelLeft
<1> QED BY <1>1, Invariant, PTL

\* A target is pronounced unreachable on complete evidence only.
THEOREM VerdictNeedsEvidence == Spec => JudgedOnEvidence
<1> DEFINE Judged ==
      \A d \in Domains :
          ~Active(tab, d) /\ Active(tab', d) => seen'[d].fails = MinFails
<1>1. IInv /\ [Next]_vars => [Judged]_vars
  BY NextStep DEF Judgement, Active
<1> QED BY <1>1, Invariant, PTL DEF Spec, JudgedOnEvidence

\* Complete evidence is a verdict, for its full time.
THEOREM EvidenceGivesVerdict == Spec => []JudgedAfterFails
<1>1. IInv => JudgedAfterFails
  BY DEF IInv, AllSound, Sound, NotTooLittle, JudgedAfterFails
<1> QED BY <1>1, Invariant, PTL

\* A pinned proxy that has failed alone is not tried alone again by the same
\* request as the cached one, whatever the other handlers write into the tables
\* meanwhile.
THEOREM NoProxyTwiceAlone == Spec => []NoSecondSingle
<1>1. Chain => NoSecondSingle
  BY DEF Chain, Fit, NoSecondSingle
<1> QED BY <1>1, InitIInv, NextStep, InitChain, ChainNext, PTL DEF Spec

\* With one or two wins asked for (two is the default), who wins that often in
\* a row is the cached proxy; with more it need not be, as a run shows.
THEOREM SteadyWinnerIsCached == Spec => [](MinWins <= 2 => WinsSwitch)
<1>1. Rows => (MinWins <= 2 => WinsSwitch)
  <2> SUFFICES ASSUME Rows, MinWins <= 2, NEW d \in Domains, seen[d].row >= MinWins
               PROVE  tab.meta[d] = seen[d].by
    BY DEF WinsSwitch
  <2>1. InRow(tab.meta[d], tab.wins[d], seen[d])
    BY DEF Rows
  <2> QED BY <2>1, Bounds DEF InRow
<1> QED BY <1>1, InitIInv, NextStep, InitChain, ChainNext, PTL DEF Spec

\* The shared tables and the handlers name upstreams there are, whoever wrote
\* what in between, and a table that counts stays within its limit.
THEOREM TypeCorrect == Spec => []TypeOK
<1>1. Init => Streams
  BY DEF Init, Streams
<1> QED BY <1>1, ShapesKept, StreamsNext, InitIInv, NextStep, InitChain, ChainNext, PTL DEF Spec
=============================================================================
