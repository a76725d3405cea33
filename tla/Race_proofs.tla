---------------------------- MODULE Race_proofs ----------------------------
(***************************************************************************)
(* Proofs about Race for any number of races, candidates and registered    *)
(* clean-ups.  The inductive invariant says for each race where its        *)
(* candidates are: while it races each launched one is in running or has   *)
(* been read and refused; afterwards none is running.                      *)
(***************************************************************************)
EXTENDS Race, FiniteSetTheorems, TLAPS

\* s: a race's locals, t: its tasks, j: the losers its clean-up closes,
\* d: whether its drain runs.
Racing(s, t, j, d) == s.phase = "racing" =>
    /\ s.running \cup s.completed = 1 .. s.next - 1
    /\ s.next <= s.places + 1
    /\ \A c \in s.running : t[c] \in {"running", "good", "bad", "failed"}
    /\ \A c \in s.completed : t[c] \in {"bad", "failed"}
    /\ \A c \in Cands : t[c] = "running" => c \in s.running
    /\ j = {} /\ ~d /\ s.losers = {}
NoneRunning(s, t) == s.phase # "racing" => \A c \in Cands : t[c] # "running"
Tried(s, t) == s.phase = "lost" => \A c \in 1 .. s.places : t[c] \in {"bad", "failed", "closed"}
WinnerSafe(s, t, j) == s.phase \in {"won", "room"} =>
    s.winner \in Cands /\ t[s.winner] = "good" /\ s.winner \notin j \cup s.losers
Waiting(s, j, d) ==
    /\ s.phase \in {"room", "aborting"} => j = {} /\ ~d
    /\ s.room # {} => s.phase \in {"room", "aborting"}
    /\ Staggered => s.phase # "room"

OneOK(s, t, j, d) ==
    Racing(s, t, j, d) /\ NoneRunning(s, t) /\ Tried(s, t) /\ WinnerSafe(s, t, j) /\ Waiting(s, j, d)
AllOK == \A r \in Races : OneOK(race[r], task[r], jobs[r], draining[r])
Bounded == Staggered => PendingBounded

IInv == TypeOK /\ AllOK /\ AllCovered /\ Bounded

\* A step of r leaves the other races alone.
Others(r) == \A q \in Races \ {r} :
    race'[q] = race[q] /\ task'[q] = task[q] /\ jobs'[q] = jobs[q] /\ draining'[q] = draining[q]

-----------------------------------------------------------------------------
\* The register is a finite set.
LEMMA CleanUpsFinite == ASSUME NEW S \in SUBSET CleanUps  PROVE IsFiniteSet(S) /\ Cardinality(S) \in Nat
<1>1. IsFiniteSet({"job", "drain"})
  <2>1. IsFiniteSet({"job"})
    BY FS_Singleton
  <2>2. {"job", "drain"} = {"job"} \cup {"drain"}
    OBVIOUS
  <2>. QED  BY <2>1, <2>2, FS_AddElement
<1>2. IsFiniteSet(CleanUps)
  BY <1>1, FS_Product, RaceAssumption DEF CleanUps, RaceAssumption
<1>. QED  BY <1>2, FS_Subset, FS_CardinalityType

\* The races start idle, with nothing to clean up.
LEMMA IInvInit == Init => IInv
<1> SUFFICES ASSUME Init  PROVE IInv
  OBVIOUS
<1>1. NoRace \in Locals /\ NoRace.phase = "idle" /\ NoRace.room = {}
  BY RaceAssumption DEF NoRace, Locals, Phases, RaceAssumption, Cands
<1>2. TypeOK
  BY <1>1 DEF Init, TypeOK, TaskStates
<1>3. AllOK
  BY <1>1 DEF Init, AllOK, OneOK, Racing, NoneRunning, Tried, WinnerSafe, Waiting
<1>4. AllCovered
  BY DEF Init, AllCovered, Live, CleanUps
<1>5. Bounded
  BY FS_EmptySet, RaceAssumption DEF Init, Bounded, PendingBounded, RaceAssumption
<1>. QED  BY <1>2, <1>3, <1>4, <1>5 DEF IInv

\* Of a race whose own state stays sound the others' does too.
LEMMA OnlyOne ==
  ASSUME IInv, NEW r \in Races, Others(r),
         OneOK(race'[r], task'[r], jobs'[r], draining'[r])
  PROVE  AllOK'
  BY DEF IInv, AllOK, Others

\* What covers a clean-up is there after a step that keeps the register, the
\* drains and the rooms.
LEMMA CoveredStill ==
  ASSUME IInv, UNCHANGED <<pending, drain, draining, jobs>>,
         \A q \in Races : race[q].room \subseteq race'[q].room
  PROVE  AllCovered' /\ Bounded'
<1>1. AllCovered /\ Bounded
  BY DEF IInv
<1>2. \A h : Live(h)' = Live(h)
  BY DEF Live
<1>3. AllCovered'
  BY <1>1, <1>2 DEF AllCovered, CleanUps
<1>. QED  BY <1>1, <1>3 DEF Bounded, PendingBounded

\* _spawn_cleanup keeps every clean-up covered and the register within its limit.
LEMMA SpawnOK ==
  ASSUME IInv, NEW r \in Races, NEW losers \in SUBSET Cands,
         jobs[r] = {}, ~draining[r], SpawnCleanup(r, losers),
         \A q \in Races : race[q].room \subseteq race'[q].room
  PROVE  /\ AllCovered' /\ Bounded'
         /\ jobs' \in [Races -> SUBSET Cands] /\ drain' \in [Races -> SUBSET CleanUps]
         /\ draining' \in [Races -> BOOLEAN] /\ pending' \subseteq CleanUps
         /\ jobs'[r] = losers
         /\ \A q \in Races \ {r} : jobs'[q] = jobs[q] /\ draining'[q] = draining[q]
<1>1. /\ jobs \in [Races -> SUBSET Cands] /\ drain \in [Races -> SUBSET CleanUps]
      /\ draining \in [Races -> BOOLEAN] /\ pending \subseteq CleanUps
      /\ AllCovered /\ Bounded
  BY DEF IInv, TypeOK
<1>2. Job(r) \in CleanUps /\ Drain(r) \in CleanUps
  BY DEF Job, Drain, CleanUps
<1>3. jobs' = [jobs EXCEPT ![r] = losers]
  BY DEF SpawnCleanup
<1>4. CASE losers # {} /\ Cardinality(pending) >= MaxPending
  <2>1. /\ drain' = [drain EXCEPT ![r] = pending]
        /\ draining' = [draining EXCEPT ![r] = TRUE]
        /\ pending' = {Drain(r), Job(r)}
    BY <1>4 DEF SpawnCleanup
  <2>2. drain'[r] = pending /\ draining'[r]
    BY <1>1, <2>1
  <2>3. \A q \in Races \ {r} : drain'[q] = drain[q] /\ draining'[q] = draining[q] /\ jobs'[q] = jobs[q]
    BY <1>1, <1>3, <2>1
  <2>4. AllCovered'
    <3> SUFFICES ASSUME NEW h \in CleanUps, Live(h)'
                 PROVE  \/ h \in pending'
                        \/ \E q \in Races : (draining'[q] /\ h \in drain'[q]) \/ h \in race'[q].room
      BY DEF AllCovered
    <3>1. PICK kind \in {"job", "drain"}, p \in Races : h = <<kind, p>>
      BY DEF CleanUps
    <3>2. CASE p = r
      BY <2>1, <3>1, <3>2 DEF Job, Drain
    <3>3. CASE p # r
      <4>1. Live(h)
        BY <2>3, <3>1, <3>3 DEF Live
      <4>2. \/ h \in pending
            \/ \E q \in Races : (draining[q] /\ h \in drain[q]) \/ h \in race[q].room
        BY <1>1, <4>1 DEF AllCovered
      <4>. QED  BY <2>2, <2>3, <4>2
    <3>. QED  BY <3>2, <3>3
  <2>5. Bounded'
    <3>1. Cardinality({Drain(r), Job(r)}) \in 0 .. 2
      <4>1. {Drain(r), Job(r)} = {Drain(r)} \cup {Job(r)}
        OBVIOUS
      <4>2. IsFiniteSet({Drain(r)}) /\ Cardinality({Drain(r)}) = 1
        BY FS_Singleton
      <4>3. Cardinality({Drain(r)} \cup {Job(r)}) \in {1, 2}
        BY <4>2, FS_AddElement
      <4>. QED  BY <4>1, <4>3
    <3>. QED  BY <2>1, <3>1, RaceAssumption DEF Bounded, PendingBounded, RaceAssumption
  <2>. QED  BY <1>1, <1>2, <1>3, <2>1, <2>3, <2>4, <2>5
<1>5. CASE ~(losers # {} /\ Cardinality(pending) >= MaxPending)
  <2>1. /\ drain' = drain /\ draining' = draining
        /\ pending' = IF losers = {} THEN pending ELSE pending \cup {Job(r)}
    BY <1>5 DEF SpawnCleanup
  <2>2. \A q \in Races \ {r} : jobs'[q] = jobs[q]
    BY <1>1, <1>3
  <2>3. jobs'[r] = losers
    BY <1>1, <1>3
  <2>4. AllCovered'
    <3> SUFFICES ASSUME NEW h \in CleanUps, Live(h)'
                 PROVE  \/ h \in pending'
                        \/ \E q \in Races : (draining'[q] /\ h \in drain'[q]) \/ h \in race'[q].room
      BY DEF AllCovered
    <3>1. CASE h = Job(r)
      <4>1. losers # {}
        BY <2>3, <3>1 DEF Live, Job
      <4>. QED  BY <2>1, <3>1, <4>1
    <3>2. CASE h # Job(r)
      <4>1. PICK kind \in {"job", "drain"}, p \in Races : h = <<kind, p>>
        BY DEF CleanUps
      <4>2. Live(h)
        BY <2>1, <2>2, <3>2, <4>1 DEF Live, Job
      <4>3. \/ h \in pending
            \/ \E q \in Races : (draining[q] /\ h \in drain[q]) \/ h \in race[q].room
        BY <1>1, <4>2 DEF AllCovered
      <4>. QED  BY <2>1, <4>3
    <3>. QED  BY <3>1, <3>2
  <2>5. Bounded'
    <3>1. Cardinality(pending) \in Nat /\ IsFiniteSet(pending)
      BY <1>1, CleanUpsFinite
    <3>2. CASE losers = {}
      BY <1>1, <2>1, <3>2 DEF Bounded, PendingBounded
    <3>3. CASE losers # {}
      <4>1. Cardinality(pending) < MaxPending
        BY <1>5, <3>1, <3>3, RaceAssumption DEF RaceAssumption
      <4>2. Cardinality(pending \cup {Job(r)}) \in {Cardinality(pending), Cardinality(pending) + 1}
        <5>1. CASE Job(r) \in pending
          <6>1. pending \cup {Job(r)} = pending
            BY <5>1
          <6>. QED  BY <6>1
        <5>2. CASE Job(r) \notin pending
          <6>1. Cardinality(pending \cup {Job(r)}) = Cardinality(pending) + 1
            BY <3>1, <5>2, FS_AddElement
          <6>. QED  BY <6>1
        <5>. QED  BY <5>1, <5>2
      <4>3. Cardinality(pending \cup {Job(r)}) \in Nat
        BY <3>1, <4>2
      <4>4. pending' = pending \cup {Job(r)}
        BY <2>1, <3>3
      <4>5. Cardinality(pending') <= MaxPending
        BY <3>1, <4>1, <4>2, <4>3, <4>4, RaceAssumption DEF RaceAssumption
      <4>6. Cardinality(pending') \in Nat
        BY <4>3, <4>4
      <4>. QED  BY <4>5, <4>6, RaceAssumption DEF Bounded, PendingBounded, RaceAssumption
    <3>. QED  BY <3>2, <3>3
  <2>. QED  BY <1>1, <1>2, <1>3, <2>1, <2>2, <2>3, <2>4, <2>5
<1>. QED  BY <1>4, <1>5

-----------------------------------------------------------------------------
(* Candidates *)

\* A new race has launched its first candidates.
LEMMA StartKeeps == ASSUME IInv, NEW r \in Races, NEW n \in Cands, Start(r, n)  PROVE IInv'
<1>1. PICK count \in 1 .. n :
        /\ race' = [race EXCEPT ![r] = [NoRace EXCEPT !.phase = "racing", !.places = n,
                                         !.next = count + 1, !.running = 1 .. count]]
        /\ task' = [task EXCEPT ![r] = [c \in Cands |-> IF c \in 1 .. count THEN "running" ELSE "none"]]
  <2>1. Smaller(Initial, n) \in 1 .. n /\ n \in 1 .. n
    BY RaceAssumption DEF Smaller, RaceAssumption, Cands
  <2>. QED  BY <2>1 DEF Start
<1>2. /\ UNCHANGED <<jobs, drain, draining, pending, cancelled, router>>
      /\ jobs[r] = {} /\ ~draining[r] /\ race[r].phase \in {"idle", "over", "lost"}
  BY DEF Start, Free, Live, Job, Drain
<1>3. /\ TypeOK /\ OneOK(race[r], task[r], jobs[r], draining[r]) /\ race[r].room = {}
  BY <1>2 DEF IInv, AllOK, OneOK, Waiting
<1>4. /\ race'[r].phase = "racing" /\ race'[r].places = n /\ race'[r].next = count + 1
      /\ race'[r].running = 1 .. count /\ race'[r].completed = {} /\ race'[r].room = {}
      /\ race'[r].losers = {}
      /\ race'[r] \in Locals
  <2>1. race'[r] = [NoRace EXCEPT !.phase = "racing", !.places = n,
                                  !.next = count + 1, !.running = 1 .. count]
    BY <1>1, <1>3 DEF TypeOK
  <2>2. n \in 0 .. Places /\ count + 1 \in 1 .. Places + 1 /\ 1 .. count \in SUBSET Cands
    BY <1>1, RaceAssumption DEF Cands, RaceAssumption
  <2>. QED  BY <2>1, <2>2 DEF NoRace, Locals, Phases
<1>5. /\ task'[r] = [c \in Cands |-> IF c \in 1 .. count THEN "running" ELSE "none"]
      /\ 1 .. count \subseteq Cands
  BY <1>1, <1>3, RaceAssumption DEF TypeOK, Cands, RaceAssumption
<1>6. Others(r)
  BY <1>1, <1>2, <1>3 DEF Others, TypeOK
<1>7. OneOK(race'[r], task'[r], jobs'[r], draining'[r])
  <2>1. 1 .. count \cup {} = 1 .. (count + 1) - 1 /\ count + 1 <= n + 1
    BY <1>1 DEF Cands
  <2>. QED  BY <1>2, <1>4, <1>5, <2>1 DEF OneOK, Racing, NoneRunning, Tried, WinnerSafe, Waiting
<1>8. TypeOK'
  <2>1. race' \in [Races -> Locals]
    BY <1>1, <1>3, <1>4 DEF TypeOK
  <2>2. task' \in [Races -> [Cands -> TaskStates]]
    BY <1>1, <1>3 DEF TypeOK, TaskStates
  <2>. QED  BY <1>2, <1>3, <2>1, <2>2 DEF TypeOK
<1>9. AllCovered' /\ Bounded'
  <2>1. \A q \in Races : race[q].room \subseteq race'[q].room
    BY <1>3, <1>6 DEF Others
  <2>. QED  BY <1>2, <2>1, CoveredStill
<1>. QED  BY <1>6, <1>7, <1>8, <1>9, OnlyOne DEF IInv

\* Only candidates of a race under way end.
LEMMA TaskEndsKeeps ==
  ASSUME IInv, NEW r \in Races, NEW c \in Cands, NEW outcome \in Outcomes, TaskEnds(r, c, outcome)
  PROVE  IInv'
<1>1. /\ TypeOK /\ OneOK(race[r], task[r], jobs[r], draining[r])
      /\ task[r][c] = "running" /\ outcome \in {"good", "bad", "failed"}
  BY RaceAssumption DEF IInv, AllOK, TaskEnds, RaceAssumption
<1>2. /\ task' = [task EXCEPT ![r][c] = outcome]
      /\ UNCHANGED <<race, jobs, drain, draining, pending, cancelled, router>>
  BY DEF TaskEnds
<1>3. /\ task'[r][c] = outcome
      /\ \A e \in Cands \ {c} : task'[r][e] = task[r][e]
      /\ task' \in [Races -> [Cands -> TaskStates]]
  BY <1>1, <1>2 DEF TypeOK, TaskStates
<1>4. Others(r)
  BY <1>1, <1>2 DEF Others, TypeOK
<1>5. race[r].phase = "racing" /\ c \in race[r].running
  BY <1>1 DEF OneOK, NoneRunning, Racing
<1>6. race[r].running \subseteq Cands /\ race[r].completed \subseteq Cands
  BY <1>1 DEF TypeOK, Locals
<1>7. OneOK(race'[r], task'[r], jobs'[r], draining'[r])
  <2>1. Racing(race[r], task[r], jobs[r], draining[r]) /\ Waiting(race[r], jobs[r], draining[r])
    BY <1>1 DEF OneOK
  <2>2. c \notin race[r].completed
    BY <1>1, <1>5, <2>1 DEF Racing
  <2>3. Racing(race[r], task'[r], jobs[r], draining[r])
    BY <1>1, <1>3, <1>5, <1>6, <2>1, <2>2 DEF Racing
  <2>. QED  BY <1>2, <1>5, <2>1, <2>3 DEF OneOK, NoneRunning, Tried, WinnerSafe
<1>8. TypeOK'
  BY <1>1, <1>2, <1>3 DEF TypeOK
<1>9. AllCovered' /\ Bounded'
  BY <1>2, CoveredStill
<1>. QED  BY <1>4, <1>7, <1>8, <1>9, OnlyOne DEF IInv

\* A candidate that is cancelled is none of a race under way.
LEMMA TaskCancelledKeeps ==
  ASSUME IInv, NEW r \in Races, NEW c \in Cands, TaskCancelled(r, c)
  PROVE  IInv'
<1>1. /\ TypeOK /\ OneOK(race[r], task[r], jobs[r], draining[r])
      /\ task[r][c] = "cancelling"
  BY DEF IInv, AllOK, TaskCancelled
<1>2. /\ task' = [task EXCEPT ![r][c] = "cancelled"]
      /\ UNCHANGED <<race, jobs, drain, draining, pending, cancelled, router>>
  BY DEF TaskCancelled
<1>3. /\ task'[r][c] = "cancelled"
      /\ \A e \in Cands \ {c} : task'[r][e] = task[r][e]
      /\ task' \in [Races -> [Cands -> TaskStates]]
  BY <1>1, <1>2 DEF TypeOK, TaskStates
<1>4. Others(r)
  BY <1>1, <1>2 DEF Others, TypeOK
<1>5. /\ race[r].running \subseteq Cands /\ race[r].completed \subseteq Cands
      /\ race[r].places \in 0 .. Places
  BY <1>1 DEF TypeOK, Locals
<1>6. OneOK(race'[r], task'[r], jobs'[r], draining'[r])
  <2>1. Racing(race[r], task'[r], jobs[r], draining[r])
    BY <1>1, <1>3, <1>5 DEF OneOK, Racing
  <2>2. NoneRunning(race[r], task'[r])
    BY <1>1, <1>3 DEF OneOK, NoneRunning
  <2>3. Tried(race[r], task'[r])
    <3>1. 1 .. race[r].places \subseteq Cands
      BY <1>5, RaceAssumption DEF Cands, RaceAssumption
    <3>. QED  BY <1>1, <1>3, <3>1 DEF OneOK, Tried
  <2>4. WinnerSafe(race[r], task'[r], jobs[r])
    BY <1>1, <1>3 DEF OneOK, WinnerSafe
  <2>. QED  BY <1>1, <1>2, <2>1, <2>2, <2>3, <2>4 DEF OneOK
<1>7. TypeOK'
  BY <1>1, <1>2, <1>3 DEF TypeOK
<1>8. AllCovered' /\ Bounded'
  BY <1>2, CoveredStill
<1>. QED  BY <1>4, <1>6, <1>7, <1>8, OnlyOne DEF IInv

-----------------------------------------------------------------------------
(* The race *)

\* A wake-up finds the candidates that have ended.
LEMMA WakeFacts ==
  ASSUME IInv, NEW r \in Races, At(r, "racing")
  PROVE  /\ race[r] \in Locals /\ task[r] \in [Cands -> TaskStates]
         /\ Racing(race[r], task[r], jobs[r], draining[r])
         /\ race[r].room = {} /\ jobs[r] = {} /\ ~draining[r]
         /\ Done(r) \subseteq race[r].running /\ Rest(r) = race[r].running \ Done(r)
         /\ \A c \in Rest(r) : task[r][c] = "running"
         /\ \A c \in Done(r) : task[r][c] \in {"good", "bad", "failed"}
  BY DEF IInv, TypeOK, AllOK, OneOK, Racing, Waiting, At, Done, Rest, Ended

\* The winner is acceptable and is not among the losers.
LEMMA WinKeeps ==
  ASSUME IInv, NEW r \in Races, At(r, "racing"), NEW w \in Done(r), NEW before \in SUBSET Done(r),
         Acceptable(r, w), \A c \in before : ~Acceptable(r, c), Win(r, w, before),
         UNCHANGED <<cancelled, router>>
  PROVE  IInv'
<1> DEFINE losers == Losers(r, w, before)
           t == Halted(r)
<1>1. TypeOK
  BY DEF IInv
<1>0. /\ race[r] \in Locals /\ task[r] \in [Cands -> TaskStates]
      /\ Racing(race[r], task[r], jobs[r], draining[r]) /\ race[r].phase = "racing"
      /\ race[r].room = {} /\ jobs[r] = {} /\ ~draining[r] /\ race[r].losers = {}
      /\ Done(r) \subseteq race[r].running /\ Rest(r) = race[r].running \ Done(r)
      /\ race[r].running \subseteq Cands /\ race[r].completed \subseteq Cands
  <2>1. race[r].phase = "racing"
    BY DEF At
  <2>. QED  BY <2>1, WakeFacts DEF Locals, Racing
<1>2. /\ w \in Cands /\ task[r][w] = "good" /\ losers \in SUBSET Cands /\ w \notin losers
      /\ Rest(r) \in SUBSET Cands
  <2>1. w \in Cands /\ task[r][w] = "good" /\ Rest(r) \in SUBSET Cands /\ Done(r) \in SUBSET Cands
    BY <1>0 DEF Acceptable
  <2>2. w \notin Rest(r) /\ w \notin race[r].completed /\ w \notin before
    BY <1>0, <2>1 DEF Racing, Acceptable
  <2>. QED  BY <1>0, <2>1, <2>2 DEF Losers
<1>3. /\ t \in [Cands -> TaskStates] /\ t[w] = "good"
      /\ \A c \in Cands : t[c] # "running"
  <2>1. \A c \in Rest(r) : task[r][c] = "running"
    BY WakeFacts
  <2>2. \A c \in Cands : task[r][c] = "running" => c \in Rest(r)
    BY <1>0 DEF Racing, Rest, Done, Ended
  <2>. QED  BY <1>0, <1>2, <2>2 DEF Halted, Cancel, TaskStates
<1>4. task' = [task EXCEPT ![r] = t] /\ task'[r] = t /\ task' \in [Races -> [Cands -> TaskStates]]
  BY <1>1, <1>3 DEF Win, TypeOK
<1> DEFINE won == [race[r] EXCEPT !.phase = "won", !.winner = w, !.running = Rest(r)]
<1>5. /\ won \in Locals /\ won.phase = "won" /\ won.winner = w /\ won.room = race[r].room
      /\ won.losers = race[r].losers
  BY <1>0, <1>2 DEF Locals, Phases
<1>6. CASE /\ race' = [race EXCEPT ![r] = [won EXCEPT !.phase = "room", !.losers = losers,
                                                   !.room = pending]]
           /\ ~Staggered /\ pending' = {} /\ UNCHANGED <<jobs, drain, draining>>
  <2>1. race'[r] = [won EXCEPT !.phase = "room", !.losers = losers, !.room = pending]
    BY <1>1, <1>6 DEF TypeOK
  <2>2. /\ race'[r] \in Locals /\ race'[r].phase = "room" /\ race'[r].winner = w
        /\ race'[r].losers = losers /\ race'[r].room = pending
    BY <1>1, <1>2, <1>5, <2>1 DEF Locals, Phases, TypeOK
  <2>3. Others(r)
    BY <1>1, <1>4, <1>6 DEF Others, TypeOK
  <2>4. OneOK(race'[r], task'[r], jobs'[r], draining'[r])
    BY <1>0, <1>2, <1>3, <1>4, <1>6, <2>2
       DEF OneOK, Racing, NoneRunning, Tried, WinnerSafe, Waiting
  <2>5. TypeOK'
    <3>1. race' \in [Races -> Locals]
      BY <1>1, <1>6, <2>2 DEF TypeOK
    <3>. QED  BY <1>1, <1>4, <1>6, <3>1 DEF TypeOK
  <2>6. AllCovered'
    <3> SUFFICES ASSUME NEW h \in CleanUps, Live(h)'
                 PROVE  \E q \in Races : (draining'[q] /\ h \in drain'[q]) \/ h \in race'[q].room
      BY DEF AllCovered
    <3>1. Live(h)
      BY <1>6 DEF Live
    <3>2. \/ h \in pending
          \/ \E q \in Races : (draining[q] /\ h \in drain[q]) \/ h \in race[q].room
      BY <3>1 DEF IInv, AllCovered
    <3>3. \A q \in Races : race[q].room \subseteq race'[q].room
      BY <1>0, <2>2, <2>3 DEF Others
    <3>. QED  BY <1>6, <2>2, <3>2, <3>3
  <2>. QED  BY <1>6, <2>3, <2>4, <2>5, <2>6, OnlyOne DEF IInv, Bounded
<1>7. CASE race' = [race EXCEPT ![r] = won] /\ SpawnCleanup(r, losers)
  <2>1. race'[r] = won
    BY <1>1, <1>7 DEF TypeOK
  <2>2. \A q \in Races : race[q].room \subseteq race'[q].room
    BY <1>0, <1>1, <1>5, <1>7, <2>1 DEF TypeOK
  <2>3. /\ AllCovered' /\ Bounded'
        /\ jobs' \in [Races -> SUBSET Cands] /\ drain' \in [Races -> SUBSET CleanUps]
        /\ draining' \in [Races -> BOOLEAN] /\ pending' \subseteq CleanUps
        /\ jobs'[r] = losers
        /\ \A q \in Races \ {r} : jobs'[q] = jobs[q] /\ draining'[q] = draining[q]
    BY <1>0, <1>2, <1>7, <2>2, SpawnOK
  <2>4. Others(r)
    BY <1>1, <1>4, <1>7, <2>3 DEF Others, TypeOK
  <2>6. OneOK(race'[r], task'[r], jobs'[r], draining'[r])
    BY <1>0, <1>2, <1>3, <1>4, <1>5, <2>1, <2>3
       DEF OneOK, Racing, NoneRunning, Tried, WinnerSafe, Waiting
  <2>7. TypeOK'
    <3>1. race' \in [Races -> Locals]
      BY <1>1, <1>5, <1>7 DEF TypeOK
    <3>. QED  BY <1>1, <1>4, <2>3, <3>1 DEF TypeOK
  <2>. QED  BY <2>3, <2>4, <2>6, <2>7, OnlyOne DEF IInv
<1>. QED  BY <1>6, <1>7 DEF Win

\* Without a winner the next place is launched, or the race is lost after all
\* its places were refused.
LEMMA NoWinnerKeeps ==
  ASSUME IInv, NEW r \in Races, At(r, "racing"),
         \A c \in Done(r) : ~Acceptable(r, c), NoWinner(r), UNCHANGED <<cancelled, router>>
  PROVE  IInv'
<1> DEFINE completed == race[r].completed \cup Done(r)
           running == Rest(r) \cup Refill(r)
           on == [race[r] EXCEPT !.running = running, !.completed = completed,
                                 !.next = @ + Cardinality(Refill(r))]
           t == [c \in Cands |-> IF c \in Refill(r) THEN "running" ELSE task[r][c]]
<1>1. TypeOK
  BY DEF IInv
<1>2. /\ race[r] \in Locals /\ task[r] \in [Cands -> TaskStates]
      /\ Racing(race[r], task[r], jobs[r], draining[r]) /\ race[r].phase = "racing"
      /\ race[r].room = {} /\ jobs[r] = {} /\ ~draining[r] /\ race[r].losers = {}
      /\ Done(r) \subseteq race[r].running /\ Rest(r) = race[r].running \ Done(r)
      /\ race[r].running \subseteq Cands /\ race[r].completed \subseteq Cands
      /\ race[r].places \in 0 .. Places /\ race[r].next \in 1 .. Places + 1
  <2>1. race[r].phase = "racing"
    BY DEF At
  <2>. QED  BY <2>1, WakeFacts DEF Locals, Racing
<1>3. \A c \in Done(r) : task[r][c] \in {"bad", "failed"}
  BY WakeFacts DEF Acceptable
<1>4. PICK m \in race[r].next .. race[r].next + 1 :
        /\ Refill(r) \in SUBSET Cands /\ Cardinality(Refill(r)) = m - race[r].next
        /\ 1 .. m - 1 = (1 .. race[r].next - 1) \cup Refill(r)
        /\ m <= race[r].places + 1 /\ m \in 1 .. Places + 1
        /\ Refill(r) \cap (1 .. race[r].next - 1) = {}
        /\ Refill(r) = {} => m = race[r].places + 1
  <2>1. CASE race[r].next <= race[r].places
    <3>1. Refill(r) = {race[r].next} /\ Cardinality(Refill(r)) = 1
      BY <2>1, FS_Singleton DEF Refill
    <3> DEFINE n == race[r].next
    <3>2. n \in Nat /\ n >= 1 /\ n <= Places /\ race[r].places \in Nat /\ Places \in Nat
          /\ race[r].places <= Places
      BY <1>2, <2>1, RaceAssumption DEF RaceAssumption
    <3>3. /\ {n} \in SUBSET Cands /\ 1 = (n + 1) - n /\ n + 1 \in n .. n + 1
          /\ n + 1 <= race[r].places + 1 /\ n + 1 \in 1 .. Places + 1
          /\ {n} \cap (1 .. n - 1) = {} /\ {n} # {}
      BY <2>1, <3>2 DEF Cands
    <3>4. 1 .. (n + 1) - 1 = (1 .. n - 1) \cup {n}
      BY <3>2
    <3>. QED  BY <3>1, <3>3, <3>4
  <2>2. CASE ~(race[r].next <= race[r].places)
    <3>1. Refill(r) = {} /\ Cardinality(Refill(r)) = 0
      BY <2>2, FS_EmptySet DEF Refill
    <3>. QED  BY <1>2, <2>2, <3>1, RaceAssumption DEF Racing, RaceAssumption
  <2>. QED  BY <2>1, <2>2
<1>5. /\ on.phase = "racing" /\ on.places = race[r].places /\ on.next = m
      /\ on.running = running /\ on.completed = completed /\ on.room = {} /\ on.losers = {}
      /\ on \in Locals /\ running \in SUBSET Cands /\ completed \in SUBSET Cands
  <2>1. race[r].next + Cardinality(Refill(r)) = m
    BY <1>2, <1>4
  <2>. QED  BY <1>2, <1>4, <2>1 DEF Locals
<1>6. /\ running \cup completed = 1 .. m - 1
      /\ \A c \in completed : c \notin Refill(r) /\ task[r][c] \in {"bad", "failed"}
      /\ \A c \in Rest(r) : task[r][c] \in {"running", "good", "bad", "failed"}
  <2>1. race[r].running \cup race[r].completed = 1 .. race[r].next - 1
    BY <1>2 DEF Racing
  <2>2. race[r].running = Rest(r) \cup Done(r)
    BY <1>2
  <2>. QED  BY <1>2, <1>3, <1>4, <2>1, <2>2 DEF Racing
<1>7. task' = [task EXCEPT ![r] = t] /\ task'[r] = t /\ t \in [Cands -> TaskStates]
      /\ task' \in [Races -> [Cands -> TaskStates]]
  <2>1. task' = [task EXCEPT ![r] = t]
    BY DEF NoWinner
  <2>2. t \in [Cands -> TaskStates]
    BY <1>2 DEF TaskStates
  <2>. QED  BY <1>1, <2>1, <2>2 DEF TypeOK
<1>8. \A c \in Cands : t[c] = "running" => c \in running
  <2>1. \A c \in Cands : task[r][c] = "running" => c \in Rest(r)
    BY <1>2 DEF Racing, Rest, Done, Ended
  <2>. QED  BY <2>1
<1>9. CASE running = {}
  <2> DEFINE lost == [on EXCEPT !.phase = "lost"]
  <2>1. race' = [race EXCEPT ![r] = lost] /\ SpawnCleanup(r, completed)
    BY <1>9 DEF NoWinner
  <2>2. race'[r] = lost
    BY <1>1, <2>1 DEF TypeOK
  <2>3. lost \in Locals /\ lost.phase = "lost" /\ lost.places = race[r].places /\ lost.room = {}
    BY <1>5 DEF Locals, Phases
  <2>4. \A q \in Races : race[q].room \subseteq race'[q].room
    BY <1>1, <1>2, <2>1, <2>2, <2>3 DEF TypeOK
  <2>5. /\ AllCovered' /\ Bounded'
        /\ jobs' \in [Races -> SUBSET Cands] /\ drain' \in [Races -> SUBSET CleanUps]
        /\ draining' \in [Races -> BOOLEAN] /\ pending' \subseteq CleanUps
        /\ jobs'[r] = completed
        /\ \A q \in Races \ {r} : jobs'[q] = jobs[q] /\ draining'[q] = draining[q]
    BY <1>2, <1>5, <2>1, <2>4, SpawnOK
  <2>6. Others(r)
    BY <1>1, <1>7, <2>1, <2>5 DEF Others, TypeOK
  <2>7. completed = 1 .. race[r].places /\ Refill(r) = {}
    <3>1. Refill(r) = {} /\ m - 1 = race[r].places
      BY <1>2, <1>4, <1>9
    <3>. QED  BY <1>6, <1>9, <3>1
  <2>8. OneOK(race'[r], task'[r], jobs'[r], draining'[r])
    <3>1. \A c \in 1 .. race[r].places : t[c] \in {"bad", "failed"}
      BY <1>5, <1>6, <2>7
    <3>. QED  BY <1>7, <1>8, <1>9, <2>2, <2>3, <3>1
         DEF OneOK, Racing, NoneRunning, Tried, WinnerSafe, Waiting
  <2>9. TypeOK'
    <3>1. race' \in [Races -> Locals]
      BY <1>1, <2>1, <2>3 DEF TypeOK
    <3>. QED  BY <1>1, <1>7, <2>5, <3>1 DEF TypeOK
  <2>. QED  BY <2>5, <2>6, <2>8, <2>9, OnlyOne DEF IInv
<1>10. CASE running # {}
  <2>1. race' = [race EXCEPT ![r] = on] /\ UNCHANGED <<jobs, drain, draining, pending>>
    BY <1>10 DEF NoWinner
  <2>2. race'[r] = on /\ race' \in [Races -> Locals]
    BY <1>1, <1>5, <2>1 DEF TypeOK
  <2>3. Others(r)
    BY <1>1, <1>7, <2>1 DEF Others, TypeOK
  <2>4. \A q \in Races : race[q].room \subseteq race'[q].room
    BY <1>2, <1>5, <2>2, <2>3 DEF Others
  <2>5. /\ \A c \in running : t[c] \in {"running", "good", "bad", "failed"}
        /\ \A c \in completed : t[c] \in {"bad", "failed"}
    BY <1>5, <1>6
  <2>6. OneOK(race'[r], task'[r], jobs'[r], draining'[r])
    BY <1>2, <1>4, <1>5, <1>6, <1>7, <1>8, <2>1, <2>2, <2>5
       DEF OneOK, Racing, NoneRunning, Tried, WinnerSafe, Waiting
  <2>7. TypeOK'
    BY <1>1, <1>7, <2>1, <2>2 DEF TypeOK
  <2>8. AllCovered' /\ Bounded'
    BY <2>1, <2>4, CoveredStill
  <2>. QED  BY <2>3, <2>6, <2>7, <2>8, OnlyOne DEF IInv
<1>. QED  BY <1>9, <1>10

\* A wake-up decides the race or carries it on.
LEMMA WakeKeeps == ASSUME IInv, NEW r \in Races, Wake(r)  PROVE IInv'
<1>1. At(r, "racing") /\ UNCHANGED <<cancelled, router>>
  BY DEF Wake
<1>2. CASE \E w \in Done(r), before \in SUBSET Done(r) :
             /\ Acceptable(r, w) /\ \A c \in before : ~Acceptable(r, c)
             /\ Win(r, w, before)
  BY <1>1, <1>2, WinKeeps
<1>3. CASE (\A c \in Done(r) : ~Acceptable(r, c)) /\ NoWinner(r)
  BY <1>1, <1>3, NoWinnerKeeps
<1>. QED  BY <1>2, <1>3 DEF Wake

\* With room made, _race registers its own clean-up and returns its winner.
LEMMA RoomMadeKeeps == ASSUME IInv, NEW r \in Races, RoomMade(r)  PROVE IInv'
<1>1. /\ TypeOK /\ OneOK(race[r], task[r], jobs[r], draining[r])
      /\ race[r] \in Locals /\ race[r].phase = "room" /\ race[r].room = {}
      /\ UNCHANGED <<task, drain, draining, cancelled, router>>
  BY DEF IInv, AllOK, TypeOK, RoomMade, At
<1>2. /\ ~Staggered /\ jobs[r] = {} /\ ~draining[r]
      /\ race[r].winner \in Cands /\ task[r][race[r].winner] = "good"
      /\ race[r].winner \notin race[r].losers
      /\ \A c \in Cands : task[r][c] # "running"
  BY <1>1 DEF OneOK, Waiting, WinnerSafe, NoneRunning
<1> DEFINE on == [race[r] EXCEPT !.phase = "won", !.losers = {}]
<1>3. race' = [race EXCEPT ![r] = on] /\ race'[r] = on
  BY <1>1 DEF RoomMade, TypeOK
<1>4. on \in Locals /\ on.phase = "won" /\ on.winner = race[r].winner /\ on.losers = {} /\ on.room = {}
  BY <1>1 DEF Locals, Phases
<1>5. /\ jobs' = [jobs EXCEPT ![r] = race[r].losers] /\ jobs'[r] = race[r].losers
      /\ race[r].losers \in SUBSET Cands
      /\ pending' = pending \cup {Job(r)}
  BY <1>1 DEF RoomMade, TypeOK, Locals
<1>6. Others(r)
  BY <1>1, <1>3, <1>5 DEF Others, TypeOK
<1>7. OneOK(race'[r], task'[r], jobs'[r], draining'[r])
  BY <1>1, <1>2, <1>3, <1>4, <1>5 DEF OneOK, Racing, NoneRunning, Tried, WinnerSafe, Waiting
<1>8. TypeOK'
  <2>1. Job(r) \in CleanUps
    BY DEF Job, CleanUps
  <2>2. race' \in [Races -> Locals]
    BY <1>1, <1>3, <1>4 DEF TypeOK
  <2>. QED  BY <1>1, <1>5, <2>1, <2>2 DEF TypeOK
<1>9. AllCovered'
  <2> SUFFICES ASSUME NEW h \in CleanUps, Live(h)', h # Job(r)
               PROVE  \/ h \in pending'
                      \/ \E q \in Races : (draining'[q] /\ h \in drain'[q]) \/ h \in race'[q].room
    BY <1>5 DEF AllCovered
  <2>1. PICK kind \in {"job", "drain"}, p \in Races : h = <<kind, p>>
    BY DEF CleanUps
  <2>2. Live(h)
    BY <1>1, <1>6, <2>1 DEF Live, Others, Job
  <2>3. \/ h \in pending
        \/ \E q \in Races : (draining[q] /\ h \in drain[q]) \/ h \in race[q].room
    BY <2>2 DEF IInv, AllCovered
  <2>4. \A q \in Races : race[q].room \subseteq race'[q].room
    BY <1>1, <1>3, <1>4, <1>6 DEF Others
  <2>. QED  BY <1>1, <1>5, <2>3, <2>4
<1>. QED  BY <1>2, <1>6, <1>7, <1>8, <1>9, OnlyOne DEF IInv, Bounded

\* The caller closes the winner when it is done with it.
LEMMA ReleaseKeeps == ASSUME IInv, NEW r \in Races, Release(r)  PROVE IInv'
<1>1. /\ TypeOK /\ OneOK(race[r], task[r], jobs[r], draining[r])
      /\ race[r] \in Locals /\ task[r] \in [Cands -> TaskStates] /\ race[r].phase = "won"
      /\ UNCHANGED <<jobs, drain, draining, pending, cancelled, router>>
  BY DEF IInv, AllOK, TypeOK, Release, At
<1>2. /\ race[r].winner \in Cands /\ race[r].room = {}
      /\ \A c \in Cands : task[r][c] # "running"
  BY <1>1 DEF OneOK, WinnerSafe, NoneRunning, Waiting
<1> DEFINE on == [race[r] EXCEPT !.phase = "over"]
<1>3. race' = [race EXCEPT ![r] = on] /\ race'[r] = on
  BY <1>1 DEF Release, TypeOK
<1>4. on \in Locals /\ on.phase = "over" /\ on.room = {}
  BY <1>1, <1>2 DEF Locals, Phases
<1>5. /\ task' = [task EXCEPT ![r][race[r].winner] = "closed"]
      /\ task' \in [Races -> [Cands -> TaskStates]]
      /\ \A c \in Cands : task'[r][c] # "running"
  <2>1. task' = [task EXCEPT ![r][race[r].winner] = "closed"]
    BY DEF Release
  <2>. QED  BY <1>1, <1>2, <2>1 DEF TypeOK, TaskStates
<1>6. Others(r)
  BY <1>1, <1>3, <1>5 DEF Others, TypeOK
<1>7. OneOK(race'[r], task'[r], jobs'[r], draining'[r])
  BY <1>3, <1>4, <1>5 DEF OneOK, Racing, NoneRunning, Tried, WinnerSafe, Waiting
<1>8. TypeOK'
  <2>1. race' \in [Races -> Locals]
    BY <1>1, <1>3, <1>4 DEF TypeOK
  <2>. QED  BY <1>1, <1>5, <2>1 DEF TypeOK
<1>9. AllCovered' /\ Bounded'
  <2>1. \A q \in Races : race[q].room \subseteq race'[q].room
    BY <1>2, <1>6 DEF Others
  <2>. QED  BY <1>1, <2>1, CoveredStill
<1>. QED  BY <1>6, <1>7, <1>8, <1>9, OnlyOne DEF IInv

-----------------------------------------------------------------------------
(* Clean-ups *)

\* A clean-up that has ended leaves the register, the drains and the rooms; the
\* others stay covered.
LEMMA GoneKeeps ==
  ASSUME IInv, NEW h \in CleanUps, Gone(h),
         jobs' \in [Races -> SUBSET Cands], draining' \in [Races -> BOOLEAN],
         drain' = [q \in Races |-> drain[q] \ {h}],
         ~Live(h)', \A k \in CleanUps \ {h} : Live(k)' => Live(k),
         \A q \in Races : draining[q] /\ ~draining'[q] => drain[q] = {}
  PROVE  /\ AllCovered' /\ Bounded'
         /\ race' \in [Races -> Locals] /\ drain' \in [Races -> SUBSET CleanUps]
         /\ pending' \subseteq CleanUps /\ cancelled' \subseteq CleanUps
         /\ \A q \in Races :
              \A t, j, d : OneOK(race[q], t, j, d) => OneOK(race'[q], t, j, d)
<1>1. TypeOK /\ AllCovered /\ Bounded
  BY DEF IInv
<1>2. /\ pending' = pending \ {h} /\ cancelled' = cancelled \ {h}
      /\ race' = [q \in Races |-> [race[q] EXCEPT !.room = @ \ {h}]]
  BY DEF Gone
<1>3. ASSUME NEW q \in Races
      PROVE  /\ race'[q] \in Locals /\ race'[q].room = race[q].room \ {h}
             /\ \A t, j, d : OneOK(race[q], t, j, d) => OneOK(race'[q], t, j, d)
  <2>1. race[q] \in Locals /\ race'[q] = [race[q] EXCEPT !.room = @ \ {h}]
    BY <1>1, <1>2 DEF TypeOK
  <2>2. /\ race'[q] \in Locals /\ race'[q].room = race[q].room \ {h}
        /\ race'[q].phase = race[q].phase /\ race'[q].places = race[q].places
        /\ race'[q].next = race[q].next /\ race'[q].running = race[q].running
        /\ race'[q].completed = race[q].completed /\ race'[q].winner = race[q].winner
        /\ race'[q].losers = race[q].losers
    BY <2>1 DEF Locals
  <2>3. \A t, j, d : OneOK(race[q], t, j, d) => OneOK(race'[q], t, j, d)
    BY <2>2 DEF OneOK, Racing, NoneRunning, Tried, WinnerSafe, Waiting
  <2>. QED  BY <2>2, <2>3
<1>4. AllCovered'
  <2> SUFFICES ASSUME NEW k \in CleanUps, Live(k)', k # h
               PROVE  \/ k \in pending'
                      \/ \E q \in Races : (draining'[q] /\ k \in drain'[q]) \/ k \in race'[q].room
    BY DEF AllCovered
  <2>1. \/ k \in pending
        \/ \E q \in Races : (draining[q] /\ k \in drain[q]) \/ k \in race[q].room
    BY <1>1 DEF AllCovered
  <2>. QED  BY <1>2, <1>3, <2>1
<1>5. Bounded'
  <2>1. pending' \subseteq pending /\ pending \in SUBSET CleanUps /\ pending' \in SUBSET CleanUps
    BY <1>1, <1>2 DEF TypeOK
  <2>2. /\ Cardinality(pending') <= Cardinality(pending)
        /\ Cardinality(pending') \in Nat /\ Cardinality(pending) \in Nat
    BY <2>1, CleanUpsFinite, FS_Subset
  <2>. QED  BY <1>1, <2>2, RaceAssumption DEF Bounded, PendingBounded, RaceAssumption
<1>. QED  BY <1>1, <1>2, <1>3, <1>4, <1>5 DEF TypeOK

\* The losers that have settled are closed; the winner is none of them.
LEMMA JobEndsKeeps == ASSUME IInv, NEW r \in Races, JobEnds(r)  PROVE IInv'
<1> DEFINE t == [c \in Cands |->
                 IF Job(r) \notin cancelled /\ c \in jobs[r] /\ task[r][c] \in {"good", "bad"}
                   THEN "closed" ELSE task[r][c]]
<1>1. /\ TypeOK /\ AllOK /\ OneOK(race[r], task[r], jobs[r], draining[r])
      /\ task[r] \in [Cands -> TaskStates] /\ race[r] \in Locals
  BY DEF IInv, AllOK, TypeOK
<1>2. /\ jobs[r] # {} /\ jobs' = [jobs EXCEPT ![r] = {}] /\ task' = [task EXCEPT ![r] = t]
      /\ Gone(Job(r)) /\ drain' = [q \in Races |-> drain[q] \ {Job(r)}]
      /\ UNCHANGED <<draining, router>>
  BY DEF JobEnds, Live, Job
<1>3. /\ t \in [Cands -> TaskStates] /\ task'[r] = t /\ jobs'[r] = {}
      /\ \A q \in Races \ {r} : task'[q] = task[q] /\ jobs'[q] = jobs[q]
      /\ task' \in [Races -> [Cands -> TaskStates]] /\ jobs' \in [Races -> SUBSET Cands]
  BY <1>1, <1>2 DEF TypeOK, TaskStates
<1>4. Job(r) \in CleanUps /\ ~Live(Job(r))'
  BY <1>3 DEF Job, CleanUps, Live
<1>5. \A k \in CleanUps \ {Job(r)} : Live(k)' => Live(k)
  <2> SUFFICES ASSUME NEW k \in CleanUps, k # Job(r), Live(k)'  PROVE Live(k)
    OBVIOUS
  <2>1. PICK kind \in {"job", "drain"}, p \in Races : k = <<kind, p>>
    BY DEF CleanUps
  <2>. QED  BY <1>2, <1>3, <2>1 DEF Live, Job
<1>6. /\ AllCovered' /\ Bounded'
      /\ race' \in [Races -> Locals] /\ drain' \in [Races -> SUBSET CleanUps]
      /\ pending' \subseteq CleanUps /\ cancelled' \subseteq CleanUps
      /\ \A q \in Races :
           \A u, j, d : OneOK(race[q], u, j, d) => OneOK(race'[q], u, j, d)
  <2>1. draining' \in [Races -> BOOLEAN] /\ \A q \in Races : draining[q] /\ ~draining'[q] => drain[q] = {}
    BY <1>1, <1>2 DEF TypeOK
  <2>. QED  BY <1>2, <1>3, <1>4, <1>5, <2>1, GoneKeeps
<1>7. OneOK(race[r], t, {}, draining[r])
  <2>1. race[r].phase \notin {"racing", "room", "aborting"}
    BY <1>1, <1>2 DEF OneOK, Racing, Waiting
  <2>2. NoneRunning(race[r], t)
    BY <1>1 DEF OneOK, NoneRunning
  <2>3. Tried(race[r], t)
    <3>1. 1 .. race[r].places \subseteq Cands
      BY <1>1, RaceAssumption DEF Locals, Cands, RaceAssumption
    <3>. QED  BY <1>1, <3>1 DEF OneOK, Tried
  <2>4. WinnerSafe(race[r], t, {})
    BY <1>1 DEF OneOK, WinnerSafe
  <2>. QED  BY <1>1, <2>1, <2>2, <2>3, <2>4 DEF OneOK, Racing, Waiting
<1>8. AllOK'
  <2> SUFFICES ASSUME NEW q \in Races
               PROVE  OneOK(race'[q], task'[q], jobs'[q], draining'[q])
    BY DEF AllOK
  <2>1. OneOK(race[q], task'[q], jobs'[q], draining'[q])
    BY <1>1, <1>2, <1>3, <1>7 DEF AllOK
  <2>. QED  BY <1>6, <2>1
<1>. QED  BY <1>1, <1>2, <1>3, <1>6, <1>8 DEF IInv, TypeOK

\* A drain ends when nothing is left of what it waits for.
LEMMA DrainEndsKeeps == ASSUME IInv, NEW r \in Races, DrainEnds(r)  PROVE IInv'
<1>1. TypeOK /\ AllOK
  BY DEF IInv
<1>2. /\ draining[r] /\ drain[r] = {} /\ draining' = [draining EXCEPT ![r] = FALSE]
      /\ Gone(Drain(r)) /\ drain' = [q \in Races |-> drain[q] \ {Drain(r)}]
      /\ UNCHANGED <<task, jobs, router>>
  BY DEF DrainEnds, Live, Drain
<1>3. /\ ~draining'[r] /\ draining' \in [Races -> BOOLEAN]
      /\ \A q \in Races \ {r} : draining'[q] = draining[q]
  BY <1>1, <1>2 DEF TypeOK
<1>4. Drain(r) \in CleanUps /\ ~Live(Drain(r))'
  BY <1>3 DEF Drain, CleanUps, Live
<1>5. \A k \in CleanUps \ {Drain(r)} : Live(k)' => Live(k)
  <2> SUFFICES ASSUME NEW k \in CleanUps, k # Drain(r), Live(k)'  PROVE Live(k)
    OBVIOUS
  <2>1. PICK kind \in {"job", "drain"}, p \in Races : k = <<kind, p>>
    BY DEF CleanUps
  <2>. QED  BY <1>2, <1>3, <2>1 DEF Live, Drain
<1>6. /\ AllCovered' /\ Bounded'
      /\ race' \in [Races -> Locals] /\ drain' \in [Races -> SUBSET CleanUps]
      /\ pending' \subseteq CleanUps /\ cancelled' \subseteq CleanUps
      /\ \A q \in Races :
           \A u, j, d : OneOK(race[q], u, j, d) => OneOK(race'[q], u, j, d)
  <2>1. /\ jobs' \in [Races -> SUBSET Cands]
        /\ \A q \in Races : draining[q] /\ ~draining'[q] => drain[q] = {}
    BY <1>1, <1>2, <1>3 DEF TypeOK
  <2>. QED  BY <1>2, <1>3, <1>4, <1>5, <2>1, GoneKeeps
<1>7. AllOK'
  <2> SUFFICES ASSUME NEW q \in Races
               PROVE  OneOK(race'[q], task'[q], jobs'[q], draining'[q])
    BY DEF AllOK
  <2>1. OneOK(race[q], task[q], jobs[q], draining[q]) /\ (draining'[q] => draining[q])
    BY <1>1, <1>2, <1>3 DEF AllOK
  <2>2. OneOK(race[q], task[q], jobs[q], draining'[q])
    BY <2>1 DEF OneOK, Racing, Waiting
  <2>. QED  BY <1>2, <1>6, <2>2
<1>. QED  BY <1>1, <1>2, <1>3, <1>6, <1>7 DEF IInv, TypeOK

-----------------------------------------------------------------------------
(* Router.stop *)

\* A cancelled handler leaves its race.
LEMMA AbortKeeps == ASSUME IInv, NEW r \in Races, Abort(r)  PROVE IInv'
<1>1. /\ TypeOK /\ OneOK(race[r], task[r], jobs[r], draining[r])
      /\ race[r] \in Locals /\ task[r] \in [Cands -> TaskStates]
      /\ race[r].phase \in {"racing", "room"}
      /\ UNCHANGED <<jobs, drain, draining, pending, router>>
  BY DEF IInv, AllOK, TypeOK, Abort
<1> DEFINE on == [race[r] EXCEPT !.phase = "aborting"]
           t == Cancel(r, race[r].running)
<1>2. race' = [race EXCEPT ![r] = on] /\ race'[r] = on
  BY <1>1 DEF Abort, TypeOK
<1>3. on \in Locals /\ on.phase = "aborting" /\ on.room = race[r].room
  BY <1>1 DEF Locals, Phases
<1>4. jobs[r] = {} /\ ~draining[r] /\ \A c \in Cands : task[r][c] = "running" => c \in race[r].running
  BY <1>1 DEF OneOK, Racing, Waiting, NoneRunning
<1>5. /\ task' = [task EXCEPT ![r] = t] /\ t \in [Cands -> TaskStates] /\ task'[r] = t
      /\ task' \in [Races -> [Cands -> TaskStates]]
      /\ \A c \in Cands : t[c] # "running"
  <2>1. t \in [Cands -> TaskStates] /\ \A c \in Cands : t[c] # "running"
    BY <1>1, <1>4 DEF Cancel, TaskStates
  <2>. QED  BY <1>1, <2>1 DEF Abort, TypeOK
<1>6. Others(r)
  BY <1>1, <1>2, <1>5 DEF Others, TypeOK
<1>7. OneOK(race'[r], task'[r], jobs'[r], draining'[r])
  BY <1>1, <1>2, <1>3, <1>4, <1>5 DEF OneOK, Racing, NoneRunning, Tried, WinnerSafe, Waiting
<1>8. TypeOK'
  <2>1. race' \in [Races -> Locals]
    BY <1>1, <1>2, <1>3 DEF TypeOK
  <2>2. cancelled' \subseteq CleanUps
    BY <1>1 DEF Abort, TypeOK, Locals
  <2>. QED  BY <1>1, <1>5, <2>1, <2>2 DEF TypeOK
<1>9. AllCovered' /\ Bounded'
  <2>1. \A q \in Races : race[q].room \subseteq race'[q].room
    BY <1>2, <1>3, <1>6 DEF Others
  <2>. QED  BY <1>1, <2>1, CoveredStill
<1>. QED  BY <1>6, <1>7, <1>8, <1>9, OnlyOne DEF IInv

\* ... when what it awaited has ended.
LEMMA AbortedKeeps == ASSUME IInv, NEW r \in Races, Aborted(r)  PROVE IInv'
<1>1. /\ TypeOK /\ OneOK(race[r], task[r], jobs[r], draining[r])
      /\ race[r] \in Locals /\ race[r].phase = "aborting" /\ race[r].room = {}
      /\ UNCHANGED <<task, jobs, drain, draining, pending, cancelled, router>>
  BY DEF IInv, AllOK, TypeOK, Aborted, At
<1> DEFINE on == [race[r] EXCEPT !.phase = "over"]
<1>2. race' = [race EXCEPT ![r] = on] /\ race'[r] = on
  BY <1>1 DEF Aborted, TypeOK
<1>3. on \in Locals /\ on.phase = "over" /\ on.room = {}
  BY <1>1 DEF Locals, Phases
<1>4. Others(r)
  BY <1>1, <1>2 DEF Others, TypeOK
<1>5. OneOK(race'[r], task'[r], jobs'[r], draining'[r])
  BY <1>1, <1>2, <1>3 DEF OneOK, Racing, NoneRunning, Tried, WinnerSafe, Waiting
<1>6. TypeOK'
  <2>1. race' \in [Races -> Locals]
    BY <1>1, <1>2, <1>3 DEF TypeOK
  <2>. QED  BY <1>1, <2>1 DEF TypeOK
<1>7. AllCovered' /\ Bounded'
  <2>1. \A q \in Races : race[q].room \subseteq race'[q].room
    BY <1>1, <1>4 DEF Others
  <2>. QED  BY <1>1, <2>1, CoveredStill
<1>. QED  BY <1>4, <1>5, <1>6, <1>7, OnlyOne DEF IInv

\* The steps that touch neither the races nor the clean-ups.
LEMMA QuietKeeps ==
  ASSUME IInv, UNCHANGED <<race, task, jobs, drain, draining, pending>>,
         cancelled' \subseteq CleanUps, router' \in {"up", "stopping", "gathering", "down"}
  PROVE  IInv'
<1>1. AllCovered' /\ Bounded'
  BY CoveredStill
<1>. QED  BY <1>1 DEF IInv, TypeOK, AllOK

-----------------------------------------------------------------------------
\* Every step keeps the inductive invariant.
LEMMA InvariantStep == IInv /\ [Next]_vars => IInv'
<1> SUFFICES ASSUME IInv, [Next]_vars  PROVE IInv'
  OBVIOUS
<1>1. TypeOK
  BY DEF IInv
<1>2. ASSUME NEW r \in Races, NEW n \in Cands, Start(r, n)  PROVE IInv'
  BY <1>2, StartKeeps
<1>3. ASSUME NEW r \in Races, NEW c \in Cands, TaskCancelled(r, c)  PROVE IInv'
  BY <1>3, TaskCancelledKeeps
<1>4. ASSUME NEW r \in Races, NEW c \in Cands, NEW outcome \in Outcomes, TaskEnds(r, c, outcome)
      PROVE  IInv'
  BY <1>4, TaskEndsKeeps
<1>5. ASSUME NEW r \in Races, Wake(r)  PROVE IInv'
  BY <1>5, WakeKeeps
<1>6. ASSUME NEW r \in Races, RoomMade(r)  PROVE IInv'
  BY <1>6, RoomMadeKeeps
<1>7. ASSUME NEW r \in Races, Release(r)  PROVE IInv'
  BY <1>7, ReleaseKeeps
<1>8. ASSUME NEW r \in Races, JobEnds(r)  PROVE IInv'
  BY <1>8, JobEndsKeeps
<1>9. ASSUME NEW r \in Races, DrainEnds(r)  PROVE IInv'
  BY <1>9, DrainEndsKeeps
<1>10. ASSUME NEW r \in Races, CancelSpreads(r)  PROVE IInv'
  <2>1. UNCHANGED <<race, task, jobs, drain, draining, pending, router>> /\ cancelled' = cancelled \cup drain[r]
    BY <1>10 DEF CancelSpreads
  <2>. QED  BY <1>1, <2>1, QuietKeeps DEF TypeOK
<1>11. ASSUME NEW r \in Races, Abort(r)  PROVE IInv'
  BY <1>11, AbortKeeps
<1>12. ASSUME NEW r \in Races, Aborted(r)  PROVE IInv'
  BY <1>12, AbortedKeeps
<1>13. CASE Stop \/ Gather \/ StopDone
  BY <1>1, <1>13, QuietKeeps DEF Stop, Gather, StopDone, TypeOK
<1>14. CASE UNCHANGED vars
  BY <1>1, <1>14, QuietKeeps DEF vars, TypeOK
<1>. QED  BY <1>2, <1>3, <1>4, <1>5, <1>6, <1>7, <1>8, <1>9, <1>10, <1>11, <1>12, <1>13, <1>14 DEF Next

\* Every reachable state satisfies the inductive invariant.
THEOREM Invariant == Spec => []IInv
<1>. QED  BY IInvInit, InvariantStep, PTL DEF Spec

\* The variables keep their shapes and no place past the race's is launched.
THEOREM TypeCorrect == Spec => []TypeOK
<1>1. IInv => TypeOK
  BY DEF IInv
<1>. QED  BY <1>1, Invariant, PTL

\* The winner is not closed while the caller uses it.
THEOREM WinnerNeverClosed == Spec => []WinnerUntouched
<1>1. IInv => WinnerUntouched
  BY DEF IInv, AllOK, OneOK, WinnerSafe, WinnerUntouched
<1>. QED  BY <1>1, Invariant, PTL

\* A race that is given up has tried every place.
THEOREM GivenUpOnlyIfTried == Spec => []LostMeansTried
<1>1. IInv => LostMeansTried
  BY DEF IInv, AllOK, OneOK, Tried, LostMeansTried, At
<1>. QED  BY <1>1, Invariant, PTL

\* No clean-up under way is unknown to stop().
THEOREM CleanUpsCovered == Spec => []AllCovered
<1>1. IInv => AllCovered
  BY DEF IInv
<1>. QED  BY <1>1, Invariant, PTL

\* Staggered races keep the register of clean-ups within its limit.
THEOREM RegisterBounded == Staggered => (Spec => []PendingBounded)
<1> SUFFICES ASSUME Staggered  PROVE Spec => []PendingBounded
  OBVIOUS
<1>1. IInv => PendingBounded
  BY DEF IInv, Bounded
<1>. QED  BY <1>1, Invariant, PTL

-----------------------------------------------------------------------------
(* Nothing left open                                                       *)

\* An answer of a candidate is with the race under way, the winner in use, or
\* with the losers, handed over or about to be.
Kept(s, t, j) ==
    /\ s.phase # "aborting"
    /\ \A c \in Cands : t[c] # "bad"
    /\ \A c \in Cands : t[c] = "good" =>
          \/ s.phase = "racing" /\ c \in s.running
          \/ s.phase \in {"won", "room"} /\ c = s.winner
          \/ c \in j
          \/ s.phase = "room" /\ c \in s.losers
AllKept == router = "up" => cancelled = {} /\ \A r \in Races : Kept(race[r], task[r], jobs[r])

\* A step that is about r alone.
LEMMA KeptByOne ==
  ASSUME AllKept, router' = router, cancelled' = cancelled, NEW r \in Races, Others(r),
         router = "up" => Kept(race'[r], task'[r], jobs'[r])
  PROVE  AllKept'
  BY DEF AllKept, Others

\* While the router is up a wake-up of a tunnel's race leaves no answer behind.
LEMMA WakeLeavesNone ==
  ASSUME IInv, AllKept, ~Staggered, router = "up", NEW r \in Races, Wake(r)
  PROVE  Kept(race'[r], task'[r], jobs'[r]) /\ Others(r)
<1>1. /\ TypeOK /\ At(r, "racing") /\ race[r].phase = "racing" /\ UNCHANGED <<cancelled, router>>
      /\ Kept(race[r], task[r], jobs[r])
      /\ race[r] \in Locals /\ task[r] \in [Cands -> TaskStates]
  BY DEF IInv, TypeOK, Wake, At, AllKept
<1>2. /\ race[r].room = {} /\ jobs[r] = {}
      /\ Done(r) \subseteq race[r].running /\ Rest(r) = race[r].running \ Done(r)
      /\ race[r].running \subseteq Cands
      /\ \A c \in Rest(r) : task[r][c] = "running"
  BY <1>1, WakeFacts DEF Locals
<1>3. \A c \in Cands : task[r][c] = "good" => c \in Done(r)
  BY <1>1, <1>2 DEF Kept
<1>4. ASSUME NEW w \in Done(r), NEW before \in SUBSET Done(r), Win(r, w, before)
      PROVE  Kept(race'[r], task'[r], jobs'[r]) /\ Others(r)
  <2> DEFINE losers == Losers(r, w, before)
             won == [race[r] EXCEPT !.phase = "won", !.winner = w, !.running = Rest(r)]
  <2>1. losers = Rest(r) \cup (Done(r) \ {w}) /\ losers \in SUBSET Cands /\ w \in Cands
    BY <1>2 DEF Losers
  <2>2. task' = [task EXCEPT ![r] = Halted(r)] /\ task'[r] = Halted(r)
    BY <1>1, <1>4 DEF Win, TypeOK
  <2>3. \A c \in Cands : task'[r][c] = task[r][c] \/ task'[r][c] = "cancelling"
    BY <2>2 DEF Halted, Cancel
  <2>4. /\ \A c \in Cands : task'[r][c] # "bad"
        /\ \A c \in Cands : task'[r][c] = "good" => c = w \/ c \in losers
    BY <1>1, <1>3, <2>1, <2>3 DEF Kept
  <2>5. /\ won \in Locals /\ won.phase = "won" /\ won.winner = w
    BY <1>1, <1>2, <2>1 DEF Locals, Phases
  <2> HIDE DEF losers, won
  <2>6. CASE /\ race' = [race EXCEPT ![r] = [won EXCEPT !.phase = "room", !.losers = losers,
                                                       !.room = pending]]
             /\ UNCHANGED <<jobs, drain, draining>>
    <3>1. race'[r] = [won EXCEPT !.phase = "room", !.losers = losers, !.room = pending]
      BY <1>1, <2>6 DEF TypeOK
    <3>2. race'[r].phase = "room" /\ race'[r].winner = w /\ race'[r].losers = losers
      BY <2>5, <3>1 DEF Locals
    <3> QED BY <1>1, <2>2, <2>4, <2>6, <3>2 DEF Kept, Others, TypeOK
  <2>7. CASE race' = [race EXCEPT ![r] = won] /\ SpawnCleanup(r, losers)
    <3>1. race'[r] = won /\ jobs'[r] = losers
      BY <1>1, <2>7 DEF SpawnCleanup, TypeOK
    <3>2. \A q \in Races \ {r} : jobs'[q] = jobs[q] /\ draining'[q] = draining[q]
      BY <1>1, <2>7 DEF SpawnCleanup, TypeOK
    <3> QED BY <1>1, <2>2, <2>4, <2>5, <2>7, <3>1, <3>2 DEF Kept, Others, TypeOK
  <2> QED BY <1>4, <2>6, <2>7 DEF Win, losers, won
<1>5. ASSUME \A c \in Done(r) : ~Acceptable(r, c), NoWinner(r)
      PROVE  Kept(race'[r], task'[r], jobs'[r]) /\ Others(r)
  <2> DEFINE t == [c \in Cands |-> IF c \in Refill(r) THEN "running" ELSE task[r][c]]
             on == [race[r] EXCEPT !.running = Rest(r) \cup Refill(r),
                                   !.completed = race[r].completed \cup Done(r),
                                   !.next = @ + Cardinality(Refill(r))]
  <2>1. \A c \in Cands : task[r][c] # "good"
    BY <1>3, <1>5 DEF Acceptable
  <2>2. task' = [task EXCEPT ![r] = t] /\ task'[r] = t
    BY <1>1, <1>5 DEF NoWinner, TypeOK
  <2>3. \A c \in Cands : task'[r][c] \notin {"good", "bad"}
    BY <1>1, <2>1, <2>2 DEF Kept
  <2>4. on.phase = "racing"
    BY <1>1 DEF Locals
  <2> HIDE DEF on
  <2>5. CASE race' = [race EXCEPT ![r] = [on EXCEPT !.phase = "lost"]]
             /\ SpawnCleanup(r, race[r].completed \cup Done(r))
    <3>1. race'[r].phase = "lost"
      BY <1>1, <2>5 DEF TypeOK, on, Locals
    <3>2. \A q \in Races \ {r} : jobs'[q] = jobs[q] /\ draining'[q] = draining[q]
      BY <1>1, <2>5 DEF SpawnCleanup, TypeOK
    <3> QED BY <1>1, <2>2, <2>3, <2>5, <3>1, <3>2 DEF Kept, Others, TypeOK
  <2>6. CASE race' = [race EXCEPT ![r] = on] /\ UNCHANGED <<jobs, drain, draining, pending>>
    <3>1. race'[r] = on
      BY <1>1, <2>6 DEF TypeOK
    <3> QED BY <1>1, <2>2, <2>3, <2>4, <2>6, <3>1 DEF Kept, Others, TypeOK
  <2> QED BY <1>5, <2>5, <2>6 DEF NoWinner, on
<1> QED BY <1>4, <1>5 DEF Wake

\* Every other step keeps the answers with somebody.
LEMMA KeptStep ==
  ASSUME IInv, AllKept, ~Staggered, "bad" \notin Outcomes, [Next]_vars  PROVE AllKept'
<1>1. TypeOK /\ AllOK
  BY DEF IInv
<1> SUFFICES ASSUME router' = "up"  PROVE AllKept'
  BY DEF AllKept
<1>2. router = "up" /\ cancelled = {} /\ \A r \in Races : Kept(race[r], task[r], jobs[r])
  <2>1. router = "up"
    BY DEF Next, vars, Start, TaskEnds, TaskCancelled, Wake, RoomMade, Release, JobEnds, DrainEnds,
           CancelSpreads, Abort, Aborted, Stop, Gather, StopDone
  <2> QED BY <2>1 DEF AllKept
<1>3. ASSUME NEW r \in Races, NEW n \in Cands, Start(r, n)  PROVE AllKept'
  <2>1. /\ UNCHANGED <<jobs, drain, draining, cancelled, router>>
        /\ race'[r].phase = "racing"
        /\ \A c \in Cands : task'[r][c] \notin {"good", "bad"}
        /\ \A q \in Races \ {r} : race'[q] = race[q] /\ task'[q] = task[q]
    BY <1>1, <1>3 DEF Start, TypeOK, NoRace
  <2> QED BY <1>2, <2>1, KeptByOne DEF Kept, Others
<1>4. ASSUME NEW r \in Races, NEW c \in Cands, TaskCancelled(r, c)  PROVE AllKept'
  <2>1. /\ UNCHANGED <<race, jobs, drain, draining, cancelled, router>>
        /\ \A d \in Cands : task'[r][d] = IF d = c THEN "cancelled" ELSE task[r][d]
        /\ \A q \in Races \ {r} : task'[q] = task[q]
    BY <1>1, <1>4 DEF TaskCancelled, TypeOK
  <2> QED BY <1>2, <2>1, KeptByOne DEF Kept, Others
<1>5. ASSUME NEW r \in Races, NEW c \in Cands, NEW outcome \in Outcomes, TaskEnds(r, c, outcome)
      PROVE  AllKept'
  <2>1. /\ UNCHANGED <<race, jobs, drain, draining, cancelled, router>>
        /\ task[r][c] = "running"
        /\ \A d \in Cands : task'[r][d] = IF d = c THEN outcome ELSE task[r][d]
        /\ \A q \in Races \ {r} : task'[q] = task[q]
    BY <1>1, <1>5 DEF TaskEnds, TypeOK
  <2>2. race[r].phase = "racing" /\ c \in race[r].running /\ outcome # "bad"
    BY <1>1, <2>1 DEF AllOK, OneOK, NoneRunning, Racing
  <2>3. Kept(race'[r], task'[r], jobs'[r])
    BY <1>2, <2>1, <2>2 DEF Kept
  <2> QED BY <2>1, <2>3, KeptByOne DEF Others
<1>6. ASSUME NEW r \in Races, Wake(r)  PROVE AllKept'
  BY <1>2, <1>6, WakeLeavesNone, KeptByOne DEF Wake
<1>7. ASSUME NEW r \in Races, RoomMade(r)  PROVE AllKept'
  <2>1. /\ UNCHANGED <<task, drain, draining, cancelled, router>> /\ race[r].phase = "room"
        /\ race'[r] = [race[r] EXCEPT !.phase = "won", !.losers = {}]
        /\ jobs[r] = {} /\ jobs'[r] = race[r].losers
        /\ \A q \in Races \ {r} : race'[q] = race[q] /\ jobs'[q] = jobs[q]
    BY <1>1, <1>7 DEF RoomMade, TypeOK, At, AllOK, OneOK, Waiting
  <2>2. race'[r].phase = "won" /\ race'[r].winner = race[r].winner
    BY <1>1, <2>1 DEF TypeOK, Locals
  <2>3. Kept(race'[r], task'[r], jobs'[r])
    BY <1>2, <2>1, <2>2 DEF Kept
  <2> QED BY <2>1, <2>3, KeptByOne DEF Others
<1>8. ASSUME NEW r \in Races, Release(r)  PROVE AllKept'
  <2>1. /\ UNCHANGED <<jobs, drain, draining, cancelled, router>> /\ race[r].phase = "won"
        /\ race'[r].phase = "over"
        /\ \A c \in Cands : task'[r][c] = IF c = race[r].winner THEN "closed" ELSE task[r][c]
        /\ \A q \in Races \ {r} : race'[q] = race[q] /\ task'[q] = task[q]
    <3>1. race[r] \in Locals /\ task[r] \in [Cands -> TaskStates]
      BY <1>1 DEF TypeOK
    <3> QED BY <1>1, <1>8, <3>1 DEF Release, TypeOK, At, Locals
  <2>2. Kept(race'[r], task'[r], jobs'[r])
    BY <1>2, <2>1 DEF Kept
  <2> QED BY <2>1, <2>2, KeptByOne DEF Others
<1>9. ASSUME NEW h, Gone(h)
      PROVE  \A q \in Races : \A t, j : Kept(race[q], t, j) => Kept(race'[q], t, j)
  <2> SUFFICES ASSUME NEW q \in Races
               PROVE  \A t, j : Kept(race[q], t, j) => Kept(race'[q], t, j)
    OBVIOUS
  <2>1. race[q] \in Locals /\ race'[q] = [race[q] EXCEPT !.room = @ \ {h}]
    BY <1>1, <1>9 DEF Gone, TypeOK
  <2>2. /\ race'[q].phase = race[q].phase /\ race'[q].winner = race[q].winner
        /\ race'[q].running = race[q].running /\ race'[q].losers = race[q].losers
    BY <2>1 DEF Locals
  <2> QED BY <2>2 DEF Kept
<1>10. ASSUME NEW r \in Races, JobEnds(r)  PROVE AllKept'
  <2>1. /\ Gone(Job(r)) /\ router' = router /\ cancelled' = {}
        /\ jobs'[r] = {} /\ \A q \in Races \ {r} : jobs'[q] = jobs[q] /\ task'[q] = task[q]
        /\ \A c \in Cands : task'[r][c] = IF c \in jobs[r] /\ task[r][c] \in {"good", "bad"}
                                           THEN "closed" ELSE task[r][c]
    BY <1>1, <1>2, <1>10 DEF JobEnds, Gone, TypeOK
  <2>2. Kept(race[r], task'[r], {})
    BY <1>2, <2>1 DEF Kept
  <2>3. \A q \in Races : Kept(race[q], task'[q], jobs'[q])
    BY <1>2, <2>1, <2>2
  <2> QED BY <1>9, <2>1, <2>3 DEF AllKept
<1>11. ASSUME NEW r \in Races, DrainEnds(r)  PROVE AllKept'
  <2>1. Gone(Drain(r)) /\ router' = router /\ cancelled' = {} /\ task' = task /\ jobs' = jobs
    BY <1>2, <1>11 DEF DrainEnds, Gone
  <2> QED BY <1>2, <1>9, <2>1 DEF AllKept
<1>12. ASSUME NEW r \in Races, CancelSpreads(r) \/ Abort(r) \/ Aborted(r)  PROVE AllKept'
  BY <1>2, <1>12 DEF CancelSpreads, Abort, Aborted, At, Kept
<1>13. CASE Stop \/ Gather \/ StopDone \/ UNCHANGED vars
  BY <1>2, <1>13 DEF Stop, Gather, StopDone, vars, AllKept
<1> QED BY <1>3, <1>4, <1>5, <1>6, <1>7, <1>8, <1>10, <1>11, <1>12, <1>13 DEF Next

\* While the router is up, the races of tunnels leave no tunnel open that
\* nobody closes, however many race and however the clean-ups fill up.
THEOREM NoTunnelLeftOpen == ~Staggered /\ "bad" \notin Outcomes => (Spec => []NoOrphan)
<1> SUFFICES ASSUME ~Staggered, "bad" \notin Outcomes  PROVE Spec => []NoOrphan
  OBVIOUS
<1>1. Init => AllKept
  BY DEF Init, AllKept, Kept, NoRace
<1>2. IInv /\ AllKept /\ [Next]_vars => AllKept'
  BY KeptStep
<1>3. AllKept => NoOrphan
  BY DEF AllKept, Kept, NoOrphan, Orphans, At
<1>. QED  BY <1>1, <1>2, <1>3, Invariant, PTL DEF Spec
=============================================================================
