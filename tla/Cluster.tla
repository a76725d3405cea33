------------------------------- MODULE Cluster -------------------------------
(***************************************************************************)
(* The prediction of request clusters (auto_squid/cluster.py): targets     *)
(* that one client asks for within a window are learnt as pairs of a       *)
(* graph, and the first winner of a later window prewarms connections for  *)
(* the targets that used to come with it.                                  *)
(*                                                                         *)
(* Every method runs in the event loop without an await, so an operation   *)
(* is one action.  Times are ages in ticks, which stop growing where       *)
(* nothing tells them apart any more; hits stop at the support asked for,  *)
(* and the order of edges that have both stopped is open.  Which proxies   *)
(* an edge remembers, and whether one of them can be used now, is a free   *)
(* choice at each prediction.                                              *)
(***************************************************************************)
EXTENDS Naturals, FiniteSets, Functions

CONSTANTS
    Clients,
    Targets,
    MaxEntries,     \* cluster_graph_max_entries
    TopK,           \* cluster_predict_topk
    MinSupport,     \* cluster_min_support
    Window,         \* window_sec
    Throttle,       \* cluster_predict_throttle_sec
    Ttl             \* cluster_graph_ttl_sec

ASSUME ClusterAssumption ==
    /\ {MaxEntries, MinSupport, Window, Throttle, Ttl} \subseteq Nat \ {0}
    /\ TopK \in Nat

Edges == {e \in Targets \X Targets : e[1] # e[2]}

VARIABLES
    window,  \* _active_windows: per client that has one its age, whether it
             \* has predicted, and its targets, numbered as they were first seen
    graph,   \* _cooccur: the hits and the age of every edge learnt
    lru,     \* _edge_lru: its edges, and before, its order: <<d, e>> when
             \* d is nearer the front than e
    last,    \* _last_predict: ages of the predictions of an edge
    sent     \* not in the code: ages of the last prediction, never swept

vars == <<window, graph, lru, last, sent>>

NoEdges == [edges |-> {}, before |-> {}]

Init ==
    /\ window = <<>>
    /\ graph = <<>>
    /\ lru = NoEdges
    /\ last = <<>>
    /\ sent = [e \in Edges |-> Throttle]

-----------------------------------------------------------------------------
(* Learning.  A memory is a graph with its index.                           *)

Least(m, n) == IF m <= n THEN m ELSE n

\* The pairs of a window, each in both directions.
Pairs(seen) == {e \in (DOMAIN seen) \X (DOMAIN seen) : e[1] # e[2]}

\* One after another: the first target with each later one, there and back.
Sooner(seen, d, e) ==
    LET first(p) == Least(seen[p[1]], seen[p[2]])
        sum(p) == seen[p[1]] + seen[p[2]]
    IN  \/ first(d) < first(e)
        \/ first(d) = first(e) /\ sum(d) < sum(e)
        \/ first(d) = first(e) /\ sum(d) = sum(e) /\ seen[d[1]] < seen[e[1]]

Hit(g, edges) ==
    [e \in DOMAIN g \cup edges |->
        IF e \notin edges THEN g[e]
        ELSE [hits |-> IF e \in DOMAIN g THEN Least(g[e].hits + 1, MinSupport) ELSE 1,
              age |-> 0]]

AtEnd(index, edges, seen) ==
    [edges |-> index.edges \cup edges,
     before |-> {p \in index.before : p[1] \notin edges /\ p[2] \notin edges}
                \cup {<<d, e>> : d \in index.edges \ edges, e \in edges}
                \cup {<<p[1], p[2]>> : p \in {q \in edges \X edges : Sooner(seen, q[1], q[2])}}]

BumpedInPlace(m, edges, seen) ==                        \* mutant: only new ones go to the end
    [graph |-> Hit(m.graph, edges), lru |-> AtEnd(m.lru, edges \ m.lru.edges, seen)]
\* _bump_edge for some pairs of a window: each is counted and becomes the last.
Bumped(m, edges, seen) ==
    [graph |-> Hit(m.graph, edges), lru |-> AtEnd(m.lru, edges, seen)]

Without(m, gone) ==
    [graph |-> Restrict(m.graph, {e \in DOMAIN m.graph : e \notin gone}),
     lru |-> [edges |-> {e \in m.lru.edges : e \notin gone},
              before |-> {p \in m.lru.before : p[1] \notin gone /\ p[2] \notin gone}]]

\* _enforce_cap: the first of the index goes until the limit is kept.
After(index, e) == {d \in index.edges : <<e, d>> \in index.before}
Surplus(index) ==
    {p[1] : p \in {q \in index.before : Cardinality(After(index, q[1])) >= MaxEntries}}
Capped(m) == {Without(m, gone) : gone \in {Surplus(m.lru)}}

LearntForward(m, w) ==                                  \* mutant: in one direction only
    LET forward == {e \in Pairs(w.seen) : w.seen[e[1]] < w.seen[e[2]]}
    IN  UNION {Capped(n) : n \in {Bumped(m, forward, w.seen)}}
\* _close_and_learn, a set of one (TLC evaluates a member of a set once).
Learnt(m, w) == UNION {Capped(n) : n \in {Bumped(m, Pairs(w.seen), w.seen)}}

-----------------------------------------------------------------------------
(* Prediction.                                                              *)

\* As far as the model tells hits and ages apart.
Outranks(g, d, e) ==
    \/ g[d].hits > g[e].hits
    \/ g[d].hits = g[e].hits /\ g[d].hits < MinSupport /\ g[d].age < g[e].age

\* The first TopK of the edges from t: any sets that the order allows.
Tops(g, t) ==
    LET out == {e \in DOMAIN g : e[1] = t}
    IN  {top \in SUBSET out :
            /\ Cardinality(top) = Least(TopK, Cardinality(out))
            /\ \A e \in top, d \in out \ top : ~Outranks(g, d, e)}

Throttled(e) == e \in DOMAIN last /\ last[e] < Throttle

\* maybe_predict: the sets of edges that may be predicted when t is the
\* target of window w; those without a proxy to use are left out.
Predictions(w, g, t) ==
    UNION {SUBSET {e \in top : /\ e[2] \notin DOMAIN w.seen
                               /\ g[e].hits >= MinSupport
                               /\ ~Throttled(e)} : top \in Tops(g, t)}

Fresh == [age |-> 0, predicted |-> FALSE, seen |-> <<>>]
Memory == [graph |-> graph, lru |-> lru]
Opened == DOMAIN window
Old(c) == c \in Opened /\ window[c].age > Window

Seen(w, t) ==
    IF t \in DOMAIN w.seen THEN w
    ELSE [w EXCEPT !.seen = [u \in DOMAIN @ \cup {t} |->
                                IF u = t THEN Cardinality(DOMAIN @) + 1 ELSE @[u]]]

\* observe: a request of c for t was given a winner, or none.
Observe(c, t, won) ==
    \E learnt \in IF Old(c) THEN Learnt(Memory, window[c]) ELSE {Memory} :
    LET w == Seen(IF c \in Opened /\ ~Old(c) THEN window[c] ELSE Fresh, t)
        predicts == won /\ ~w.predicted /\ \E e \in DOMAIN learnt.graph : e[1] = t
    IN  /\ graph' = learnt.graph /\ lru' = learnt.lru
        /\ window' = [d \in Opened \cup {c} |->
                        IF d = c THEN [w EXCEPT !.predicted = @ \/ predicts] ELSE window[d]]
        /\ \E fired \in IF predicts THEN Predictions(w, learnt.graph, t) ELSE {{}} :
              /\ last' = [e \in DOMAIN last \cup fired |-> IF e \in fired THEN 0 ELSE last[e]]
              /\ sent' = [e \in Edges |-> IF e \in fired THEN 0 ELSE sent[e]]

-----------------------------------------------------------------------------
(* The sweep of the flush loop, and stop().                                 *)

Settled == {c \in Opened : Old(c)}

ThrottlingShort == {e \in DOMAIN last : last[e] + 1 < Throttle} \* mutant: one tick too early
Throttling == {e \in DOMAIN last : last[e] < Throttle}

\* Windows are closed in the order they were opened, one of any here.
AllLearnt(order) ==
    LET after[i \in 0 .. Cardinality(Settled)] ==
            IF i = 0 THEN {Memory}
            ELSE UNION {Learnt(m, window[order[i]]) : m \in after[i - 1]}
    IN  after[Cardinality(Settled)]

Stale(g) == {e \in DOMAIN g : g[e].age > Ttl}

Prune ==
    /\ \E order \in Surjection(1 .. Cardinality(Settled), Settled) :
       \E learnt \in AllLearnt(order) :
       \E live \in {Without(learnt, Stale(learnt.graph))} :
       \E swept \in Capped(live) : graph' = swept.graph /\ lru' = swept.lru
    /\ window' = Restrict(window, Opened \ Settled)
    /\ last' = Restrict(last, Throttling)
    /\ UNCHANGED sent

\* Requests under way may still observe afterwards.
Reset ==
    /\ window' = <<>>
    /\ graph' = <<>> /\ lru' = NoEdges /\ last' = <<>>
    /\ sent' = [e \in Edges |-> Throttle]

Tick ==
    /\ window' = [c \in Opened |-> [window[c] EXCEPT !.age = Least(@ + 1, Window + 1)]]
    /\ graph' = [e \in DOMAIN graph |-> [graph[e] EXCEPT !.age = Least(@ + 1, Ttl + 1)]]
    /\ last' = [e \in DOMAIN last |-> Least(last[e] + 1, Throttle)]
    /\ sent' = [e \in Edges |-> Least(sent[e] + 1, Throttle)]
    /\ UNCHANGED lru

Next ==
    \/ \E c \in Clients, t \in Targets, won \in BOOLEAN : Observe(c, t, won)
    \/ Prune
    \/ Reset
    \/ Tick

Spec == Init /\ [][Next]_vars

-----------------------------------------------------------------------------
(* What must hold.                                                          *)

Windows(S) == [age : 0 .. Window + 1, predicted : BOOLEAN, seen : [S -> Nat]]
TypeOK ==
    /\ window \in [Opened -> Range(window)] /\ Opened \subseteq Clients
    /\ \A c \in Opened : /\ DOMAIN window[c].seen \subseteq Targets
                         /\ window[c] \in Windows(DOMAIN window[c].seen)
    /\ graph \in [DOMAIN graph -> [hits : 1 .. MinSupport, age : 0 .. Ttl + 1]]
    /\ DOMAIN graph \subseteq Edges
    /\ lru \in [edges : SUBSET Edges, before : SUBSET (Edges \X Edges)]
    /\ last \in [DOMAIN last -> 0 .. Throttle] /\ DOMAIN last \subseteq Edges
    /\ sent \in [Edges -> 0 .. Throttle]

\* The index that is kept beside the graph by hand has exactly its edges, each
\* once, oldest first, and no more than the limit: the edge pushed out at the
\* limit is the one not seen for longest, and is found in the graph
\* (_bump_edge, prune, _evict_oldest_edge).
IndexExact ==
    /\ lru.edges = DOMAIN graph
    /\ \A d, e \in lru.edges :
          d # e => \/ <<d, e>> \in lru.before /\ graph[d].age >= graph[e].age
                   \/ <<e, d>> \in lru.before /\ graph[e].age >= graph[d].age
    /\ Cardinality(lru.edges) <= MaxEntries

Closes(c) == c \in Opened /\ (c \in Opened' => window'[c].age < window[c].age)

\* A window that is closed, by the next request of its client or by the sweep,
\* has all its pairs in the graph from then on, both ways, unless the graph is
\* full of pairs as new: no cluster is dropped unlearnt (_close_and_learn).
LearntWhole ==
    [][~Reset => \A c \in Clients : Closes(c) =>
          \A e \in Pairs(window[c].seen) :
              \/ e \in lru'.edges /\ graph'[e].age = 0
              \/ Cardinality(lru'.edges) = MaxEntries /\ \A d \in lru'.edges : graph'[d].age = 0
      ]_vars

\* A pair is not predicted again before the throttle time has passed, although
\* the table that remembers it is swept meanwhile (maybe_predict, prune).
PredictedSparingly ==
    [][\A e \in Edges : sent'[e] = 0 => sent[e] \in {0, Throttle}]_vars
=============================================================================
