------------------------------- MODULE Race -------------------------------
(***************************************************************************)
(* The races between upstream candidates (router.py: _race,                *)
(* _race_staggered) and the clean-up of the candidates that lose           *)
(* (_spawn_cleanup, _drain_losers, _drain_cleanup_tasks), up to Router.stop.*)
(*                                                                         *)
(* A race runs in the handler of a request.  Its candidates are tasks of   *)
(* their own; one that ends with an answer holds an upstream resource (a   *)
(* streaming response, a tunnel) that somebody must close.  Everything     *)
(* interleaves at the awaits; asyncio.wait returns every candidate that    *)
(* has ended by then, as a set that the race reads in no given order.      *)
(***************************************************************************)
EXTENDS Integers, FiniteSets

CONSTANTS
    Races,            \* handlers that race
    Places,           \* most candidates of a race; place 1 is the best
    Staggered,        \* stagger_start: _race_staggered, otherwise _race
    Initial,          \* stagger_initial
    Outcomes,         \* how a candidate ends: a tunnel has no "bad" (HTTP 5xx)
    MaxPending,       \* _MAX_PENDING_CLEANUPS
    None              \* no winner

ASSUME RaceAssumption ==
    /\ IsFiniteSet(Races)
    /\ Places \in Nat \ {0} /\ Initial \in Nat \ {0} /\ MaxPending \in Nat \ {0}
    /\ Staggered \in BOOLEAN
    /\ Outcomes \subseteq {"good", "bad", "failed"}
    /\ None \notin 1 .. Places

VARIABLES
    race,         \* locals of each race
    task,         \* each candidate's task
    jobs,         \* losers that the race's _drain_losers is to close, {} when it is not running
    drain,        \* the clean-ups its _drain_cleanup_tasks waits for
    draining,     \* whether that task is running
    pending,      \* _pending_cleanups
    cancelled,    \* clean-ups that were cancelled
    router        \* Router.stop: up, stopping (handlers), gathering (clean-ups), down

vars == <<race, task, jobs, drain, draining, pending, cancelled, router>>

Cands == 1 .. Places
Job(r) == <<"job", r>>
Drain(r) == <<"drain", r>>
CleanUps == {"job", "drain"} \X Races

\* "next" is the first place not launched; "room" is what the race waits for
\* before it may add its clean-up.
NoRace == [phase |-> "idle", places |-> 0, next |-> 1, running |-> {}, completed |-> {},
           winner |-> None, losers |-> {}, room |-> {}]

Init ==
    /\ race = [r \in Races |-> NoRace]
    /\ task = [r \in Races |-> [c \in Cands |-> "none"]]
    /\ jobs = [r \in Races |-> {}]
    /\ drain = [r \in Races |-> {}]
    /\ draining = [r \in Races |-> FALSE]
    /\ pending = {} /\ cancelled = {}
    /\ router = "up"

-----------------------------------------------------------------------------
At(r, phase) == race[r].phase = phase
Ended(r, c) == task[r][c] \in {"good", "bad", "failed"}
Settled(r, c) == task[r][c] \notin {"running", "cancelling"}
Live(h) == IF h[1] = "job" THEN jobs[h[2]] # {} ELSE draining[h[2]]
Free(r) == race[r].phase \in {"idle", "over", "lost"} /\ ~Live(Job(r)) /\ ~Live(Drain(r))

Acceptable(r, c) == task[r][c] = "good"

Smaller(a, b) == IF a < b THEN a ELSE b
Cancel(r, set) == [c \in Cands |-> IF c \in set /\ task[r][c] = "running" THEN "cancelling" ELSE task[r][c]]

-----------------------------------------------------------------------------
(* Clean-ups *)

\* _spawn_cleanup: at the limit the clean-ups under way are handed to one task
\* that waits for them.
DrainForgotten(r, losers) ==                              \* mutant: the drain is not registered
    /\ jobs' = [jobs EXCEPT ![r] = losers]
    /\ IF losers # {} /\ Cardinality(pending) >= MaxPending
         THEN /\ drain' = [drain EXCEPT ![r] = pending]
              /\ draining' = [draining EXCEPT ![r] = TRUE]
              /\ pending' = {Job(r)}
         ELSE /\ pending' = IF losers = {} THEN pending ELSE pending \cup {Job(r)}
              /\ UNCHANGED <<drain, draining>>
SpawnCleanup(r, losers) ==
    /\ jobs' = [jobs EXCEPT ![r] = losers]
    /\ IF losers # {} /\ Cardinality(pending) >= MaxPending
         THEN /\ drain' = [drain EXCEPT ![r] = pending]
              /\ draining' = [draining EXCEPT ![r] = TRUE]
              /\ pending' = {Drain(r), Job(r)}
         ELSE /\ pending' = IF losers = {} THEN pending ELSE pending \cup {Job(r)}
              /\ UNCHANGED <<drain, draining>>

\* A clean-up has ended: it leaves every set that holds it.
Gone(h) ==
    /\ pending' = pending \ {h}
    /\ cancelled' = cancelled \ {h}
    /\ race' = [q \in Races |-> [race[q] EXCEPT !.room = @ \ {h}]]

\* _drain_losers: when the losers have settled, those with a result are closed.
\* Cancelled, it closes nothing.
JobEnds(r) ==
    /\ Live(Job(r)) /\ \A c \in jobs[r] : Settled(r, c)
    /\ jobs' = [jobs EXCEPT ![r] = {}]
    /\ task' = [task EXCEPT ![r] = [c \in Cands |->
                 IF Job(r) \notin cancelled /\ c \in jobs[r] /\ @[c] \in {"good", "bad"}
                   THEN "closed" ELSE @[c]]]
    /\ Gone(Job(r))
    /\ drain' = [q \in Races |-> drain[q] \ {Job(r)}]
    /\ UNCHANGED <<draining, router>>

\* _drain_cleanup_tasks.
DrainEnds(r) ==
    /\ Live(Drain(r)) /\ drain[r] = {}
    /\ draining' = [draining EXCEPT ![r] = FALSE]
    /\ Gone(Drain(r))
    /\ drain' = [q \in Races |-> drain[q] \ {Drain(r)}]
    /\ UNCHANGED <<task, jobs, router>>

\* Cancelling a drain cancels what it gathers.
CancelSpreads(r) ==
    /\ Live(Drain(r)) /\ Drain(r) \in cancelled /\ ~ drain[r] \subseteq cancelled
    /\ cancelled' = cancelled \cup drain[r]
    /\ UNCHANGED <<race, task, jobs, drain, draining, pending, router>>

-----------------------------------------------------------------------------
(* Races *)

Start(r, n) ==
    LET count == IF Staggered THEN Smaller(Initial, n) ELSE n
        first == 1 .. count
    IN  /\ router = "up" /\ Free(r)
        /\ race' = [race EXCEPT ![r] = [NoRace EXCEPT !.phase = "racing", !.places = n,
                                         !.next = count + 1, !.running = first]]
        /\ task' = [task EXCEPT ![r] = [c \in Cands |-> IF c \in first THEN "running" ELSE "none"]]
        /\ UNCHANGED <<jobs, drain, draining, pending, cancelled, router>>

TaskEnds(r, c, outcome) ==
    /\ task[r][c] = "running"
    /\ task' = [task EXCEPT ![r][c] = outcome]
    /\ UNCHANGED <<race, jobs, drain, draining, pending, cancelled, router>>
\* Cancelled, a candidate closes what it holds itself.
TaskCancelled(r, c) ==
    /\ task[r][c] = "cancelling"
    /\ task' = [task EXCEPT ![r][c] = "cancelled"]
    /\ UNCHANGED <<race, jobs, drain, draining, pending, cancelled, router>>

Done(r) == {c \in race[r].running : Ended(r, c)}
Rest(r) == race[r].running \ Done(r)

\* What is cleaned up when w wins: _race takes what asyncio.wait returned,
\* _race_staggered what it has read, now (before w) and earlier.
UnfinishedOnly(r, w, before) == Rest(r)                    \* mutant: those of the tick forgotten
WinnerToo(r, w, before) ==                                \* mutant: the winner with them
    Rest(r) \cup IF Staggered THEN race[r].completed \cup before \cup {w} ELSE Done(r)
Losers(r, w, before) ==
    Rest(r) \cup IF Staggered THEN race[r].completed \cup before ELSE Done(r) \ {w}

RunOn(r) == task[r]                                        \* mutant: nobody is cancelled
Halted(r) == Cancel(r, Rest(r))
Win(r, w, before) ==
    LET losers == Losers(r, w, before)
        won == [race[r] EXCEPT !.phase = "won", !.winner = w, !.running = Rest(r)]
        full == ~Staggered /\ losers # {} /\ Cardinality(pending) >= MaxPending
    IN  /\ task' = [task EXCEPT ![r] = Halted(r)]
        /\ IF full
             THEN /\ race' = [race EXCEPT ![r] = [won EXCEPT !.phase = "room", !.losers = losers,
                                                              !.room = pending]]
                  /\ pending' = {}
                  /\ UNCHANGED <<jobs, drain, draining>>
             ELSE /\ race' = [race EXCEPT ![r] = won]
                  /\ SpawnCleanup(r, losers)

\* The next place is launched when a candidate failed or the interval ended.
LastSkipped(r) == IF race[r].next < race[r].places THEN {race[r].next} ELSE {}   \* mutant: off by one
OnFailureOnly(r) ==                                        \* mutant: no timer
    IF race[r].next <= race[r].places /\ Done(r) # {} THEN {race[r].next} ELSE {}
Refill(r) == IF race[r].next <= race[r].places THEN {race[r].next} ELSE {}

NoWinner(r) ==
    LET completed == race[r].completed \cup Done(r)
        running == Rest(r) \cup Refill(r)
        on == [race[r] EXCEPT !.running = running, !.completed = completed,
                              !.next = @ + Cardinality(Refill(r))]
    IN  /\ task' = [task EXCEPT ![r] = [c \in Cands |-> IF c \in Refill(r) THEN "running" ELSE @[c]]]
        /\ IF running = {}
             THEN /\ race' = [race EXCEPT ![r] = [on EXCEPT !.phase = "lost"]]
                  /\ SpawnCleanup(r, completed)
             ELSE /\ race' = [race EXCEPT ![r] = on]
                  /\ UNCHANGED <<jobs, drain, draining, pending>>

\* asyncio.wait returns: a candidate has ended, or (staggered) the interval has.
Wake(r) ==
    /\ At(r, "racing")
    /\ Done(r) # {} \/ (Staggered /\ race[r].next <= race[r].places)
    /\ \/ \E w \in Done(r), before \in SUBSET Done(r) :
            /\ Acceptable(r, w) /\ \A c \in before : ~Acceptable(r, c)
            /\ Win(r, w, before)
       \/ (\A c \in Done(r) : ~Acceptable(r, c)) /\ NoWinner(r)
    /\ UNCHANGED <<cancelled, router>>

\* _race has waited for the clean-ups that were in its way.
RoomMade(r) ==
    /\ At(r, "room") /\ race[r].room = {}
    /\ race' = [race EXCEPT ![r].phase = "won", ![r].losers = {}]
    /\ jobs' = [jobs EXCEPT ![r] = race[r].losers]
    /\ pending' = pending \cup {Job(r)}
    /\ UNCHANGED <<task, drain, draining, cancelled, router>>

\* The caller has forwarded the winner's answer (or was cancelled) and closes it.
Release(r) ==
    /\ At(r, "won")
    /\ race' = [race EXCEPT ![r].phase = "over"]
    /\ task' = [task EXCEPT ![r][race[r].winner] = "closed"]
    /\ UNCHANGED <<jobs, drain, draining, pending, cancelled, router>>

-----------------------------------------------------------------------------
(* Router.stop *)

Stop ==
    /\ router = "up" /\ router' = "stopping"
    /\ UNCHANGED <<race, task, jobs, drain, draining, pending, cancelled>>

\* The handler is cancelled at an await of the race, which cancels what it
\* awaits: its candidates, or the clean-ups that were in its way.
Abort(r) ==
    /\ router = "stopping" /\ race[r].phase \in {"racing", "room"}
    /\ race' = [race EXCEPT ![r].phase = "aborting"]
    /\ task' = [task EXCEPT ![r] = Cancel(r, race[r].running)]
    /\ cancelled' = cancelled \cup race[r].room
    /\ UNCHANGED <<jobs, drain, draining, pending, router>>
Aborted(r) ==
    /\ At(r, "aborting") /\ race[r].room = {}
    /\ \A c \in race[r].running : Settled(r, c)
    /\ race' = [race EXCEPT ![r].phase = "over"]
    /\ UNCHANGED <<task, jobs, drain, draining, pending, cancelled, router>>

HandlersGone == \A r \in Races : race[r].phase \in {"idle", "over", "lost"}
Gather ==
    /\ router = "stopping" /\ HandlersGone
    /\ router' = "gathering"
    /\ UNCHANGED <<race, task, jobs, drain, draining, pending, cancelled>>
StopDone ==
    /\ router = "gathering" /\ \A h \in pending : ~Live(h)
    /\ router' = "down"
    /\ UNCHANGED <<race, task, jobs, drain, draining, pending, cancelled>>

Next ==
    \/ \E r \in Races :
         \/ \E n \in Cands : Start(r, n)
         \/ \E c \in Cands : TaskCancelled(r, c) \/ \E outcome \in Outcomes : TaskEnds(r, c, outcome)
         \/ Wake(r) \/ RoomMade(r) \/ Release(r)
         \/ JobEnds(r) \/ DrainEnds(r) \/ CancelSpreads(r)
         \/ Abort(r) \/ Aborted(r)
    \/ Stop \/ Gather \/ StopDone
Spec == Init /\ [][Next]_vars

\* The event loop runs what is ready and its timers.  No candidate has to end:
\* an upstream may be half open.
Fairness ==
    \A r \in Races :
        /\ WF_vars(Wake(r)) /\ WF_vars(JobEnds(r)) /\ WF_vars(RoomMade(r))
        /\ \A c \in Cands : WF_vars(TaskCancelled(r, c))
FairSpec == Spec /\ Fairness

-----------------------------------------------------------------------------
(* Properties *)

Phases == {"idle", "racing", "room", "won", "lost", "aborting", "over"}
Locals == [phase : Phases, places : 0 .. Places, next : 1 .. Places + 1,
           running : SUBSET Cands, completed : SUBSET Cands,
           winner : Cands \cup {None}, losers : SUBSET Cands, room : SUBSET CleanUps]
TaskStates == {"none", "running", "cancelling", "cancelled", "closed", "good", "bad", "failed"}
\* Every variable keeps its shape, and only places of the race are launched.
TypeOK ==
    /\ race \in [Races -> Locals]
    /\ task \in [Races -> [Cands -> TaskStates]]
    /\ jobs \in [Races -> SUBSET Cands]
    /\ drain \in [Races -> SUBSET CleanUps]
    /\ draining \in [Races -> BOOLEAN]
    /\ pending \subseteq CleanUps /\ cancelled \subseteq CleanUps
    /\ router \in {"up", "stopping", "gathering", "down"}

\* While the caller uses the winner, no clean-up closes it (router.py:2562:
\* "would clean the winner's tunnel a second time").
WinnerUntouched ==
    \A r \in Races : race[r].phase \in {"won", "room"} => task[r][race[r].winner] = "good"

\* A race is given up only when every place was launched and none of them had
\* an acceptable answer (router.py:2611: "it does not mean it stops early").
LostMeansTried ==
    \A r \in Races : At(r, "lost") =>
        \A c \in 1 .. race[r].places : task[r][c] \in {"bad", "failed", "closed"}

\* Every clean-up under way is known to stop(): it is registered, or a
\* clean-up or a race that is itself known waits for it.
AllCovered ==
    \A h \in CleanUps : Live(h) =>
        \/ h \in pending
        \/ \E q \in Races : (draining[q] /\ h \in drain[q]) \/ h \in race[q].room

\* The register of a router that races with _race_staggered keeps to its limit
\* (which two entries exceed when it is one).
PendingBounded ==
    Cardinality(pending) <= IF MaxPending = 1 THEN 2 ELSE MaxPending

\* The candidates that hold a resource nobody will close.
Orphans(r) ==
    {c \in Cands :
        /\ task[r][c] \in {"good", "bad"}
        /\ race[r].phase \in {"won", "lost", "over"}
        /\ ~ (At(r, "won") /\ c = race[r].winner)
        /\ c \notin jobs[r]}
\* A candidate that holds a resource belongs to a race under way, is the winner
\* in use, or is about to be cleaned up (router.py:2525: "still a loser, collected
\* by losers below, its resp released by cleanup").
NoOrphan == router = "up" => \A r \in Races : Orphans(r) = {}

\* A candidate that hangs does not keep the next one from being launched
\* (router.py:2598: "the refill does not wait for the one before to fail").
HangIsCovered ==
    \A r \in Races : [](At(r, "racing") /\ race[r].next <= race[r].places
                         => <>(~At(r, "racing") \/ race[r].next > race[r].places))

\* The losers' clean-up ends although the upstreams never answer.
LosersEnd == \A r \in Races : [](jobs[r] # {} => <>(jobs[r] = {}))
=============================================================================
