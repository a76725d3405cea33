------------------------------- MODULE Flush --------------------------------
(***************************************************************************)
(* The persistence of the statistics: what the event loop remembers to     *)
(* write (selector.py _metrics_for, prune_domain_metrics, reset_quality),  *)
(* the copy a flush takes of it, the worker thread that writes the copy    *)
(* (router.py _snapshot_flush_state, _persist_flush_state, _flush_loop),   *)
(* the flush of stop() and the reload of a new process.                    *)
(*                                                                         *)
(* The content of a row is the moment of its last change, 0 for no row.  A *)
(* metric row has counters of its own, which a flush copies, and nested    *)
(* ones (errors, http_versions, digests), which it passes by reference.    *)
(***************************************************************************)
EXTENDS Naturals, FiniteSets

CONSTANTS
    GlobalRows,     \* rows of proxy_metrics: the keys (None, pid)
    DomainRows,     \* rows of domain_metrics: the keys (domain, pid)
    Wholes,         \* tables written as a whole: domain_stats, domain_meta
    MaxDomainRows,  \* limit of prune_domain_metrics (10,000)
    MaxNow          \* bound of the run: changes of memory

ASSUME FlushAssumption ==
    /\ GlobalRows \cap DomainRows = {}
    /\ IsFiniteSet(DomainRows)
    /\ MaxDomainRows \in Nat
    /\ MaxNow \in Nat

VARIABLES
    now,      \* the last moment at which memory changed
    mem,      \* _proxy_metrics, _domain_metrics, _stats_cache, _meta_cache
    todo,     \* what the next flush has to write
    loop,     \* the flush task: asleep, waiting for the worker, or cancelled
    job,      \* the write handed to _flush_executor
    db,       \* the committed tables
    phase,    \* serving, flushed (stop() has done its flush) or down
    lapsed,   \* history: whether this process has lost or reordered a write
    stopped   \* history: the moment of the flush of stop(), 0 before it

vars == <<now, mem, todo, loop, job, db, phase, lapsed, stopped>>

Keys == GlobalRows \cup DomainRows
Moments == 0..MaxNow

Tables == [rows : [Keys -> Moments], nested : [Keys -> Moments],
           whole : [Wholes -> Moments]]

\* _dirty_metric_keys, _metric_delete_keys, _metrics_full_rewrite and the flags
\* _stats_dirty and _meta_dirty.
Todo == [dirty : SUBSET Keys, deleted : SUBSET Keys, full : BOOLEAN,
         whole : SUBSET Wholes]

\* The payload of _snapshot_flush_state.  The nested counters of the rows in
\* `shared` are still those of the rows in memory.
Payload == [rows : [Keys -> Moments], nested : [Keys -> Moments],
            whole : [Wholes -> Moments], deletes : SUBSET Keys, full : BOOLEAN,
            shared : SUBSET Keys]

NoRows == [k \in Keys |-> 0]
NoTables == [rows |-> NoRows, nested |-> NoRows, whole |-> [w \in Wholes |-> 0]]
NothingToDo == [dirty |-> {}, deleted |-> {}, full |-> FALSE, whole |-> {}]
NoPayload == [rows |-> NoRows, nested |-> NoRows, whole |-> [w \in Wholes |-> 0],
              deletes |-> {}, full |-> FALSE, shared |-> {}]
NoJob == [st |-> "none", load |-> NoPayload]

TypeOK ==
    /\ now \in Moments
    /\ mem \in Tables
    /\ todo \in Todo
    /\ loop \in {"asleep", "waiting", "cancelled"}
    /\ job \in [st : {"none", "queued", "running", "done"}, load : Payload]
    /\ db \in Tables
    /\ phase \in {"serving", "flushed", "down"}
    /\ lapsed \in BOOLEAN
    /\ stopped \in Moments

Init ==
    /\ now = 0 /\ mem = NoTables /\ todo = NothingToDo /\ loop = "asleep"
    /\ job = NoJob /\ db = NoTables /\ phase = "serving"
    /\ lapsed = FALSE /\ stopped = 0

Pending == job.st \in {"queued", "running"}
-----------------------------------------------------------------------------
(* Memory, in the event loop.                                              *)

\* Mutant of Observe: the deletion registered by an eviction stays.
ObserveEvicted(k) ==
    /\ phase # "down"
    /\ now < MaxNow
    /\ now' = now + 1
    /\ mem' = [mem EXCEPT !.rows[k] = now + 1, !.nested[k] = now + 1]
    /\ todo' = [todo EXCEPT !.dirty = @ \cup {k}]
    /\ job' = IF k \in job.load.shared
              THEN [job EXCEPT !.load.nested[k] = now + 1] ELSE job
    /\ UNCHANGED <<loop, db, phase, lapsed, stopped>>

\* _metrics_for: an observation of a row, which is then to be written, and no
\* longer to be deleted.  Its nested counters change in place, in a payload
\* that has not been written yet as well.  stop() cancels the handlers before
\* its flush and the probe task after it: a probe observes the row of its proxy
\* and, with probe_with_get, that of the domain it asks for (_probe_get).
Observe(k) ==
    /\ phase # "down"
    /\ now < MaxNow
    /\ now' = now + 1
    /\ mem' = [mem EXCEPT !.rows[k] = now + 1, !.nested[k] = now + 1]
    /\ todo' = [todo EXCEPT !.dirty = @ \cup {k}, !.deleted = @ \ {k}]
    /\ job' = IF k \in job.load.shared
              THEN [job EXCEPT !.load.nested[k] = now + 1] ELSE job
    /\ UNCHANGED <<loop, db, phase, lapsed, stopped>>

\* Mutant of Record: stop() flushes before it cancels the handlers.
RecordAfterFlush(w) ==
    /\ phase \in {"serving", "flushed"}
    /\ now < MaxNow
    /\ now' = now + 1
    /\ mem' = [mem EXCEPT !.whole[w] = now + 1]
    /\ todo' = [todo EXCEPT !.whole = @ \cup {w}]
    /\ UNCHANGED <<loop, job, db, phase, lapsed, stopped>>

\* _record_attempt, _record_win_meta: an entry of a whole table changes.
Record(w) ==
    /\ phase = "serving"
    /\ now < MaxNow
    /\ now' = now + 1
    /\ mem' = [mem EXCEPT !.whole[w] = now + 1]
    /\ todo' = [todo EXCEPT !.whole = @ \cup {w}]
    /\ UNCHANGED <<loop, job, db, phase, lapsed, stopped>>

\* reset_quality: all the metric rows go, and the tables with the next flush.
Reset ==
    /\ phase = "serving"
    /\ mem' = [mem EXCEPT !.rows = NoRows, !.nested = NoRows]
    /\ todo' = [todo EXCEPT !.dirty = {}, !.deleted = {}, !.full = TRUE]
    /\ job' = [job EXCEPT !.load.shared = {}]
    /\ UNCHANGED <<now, loop, db, phase, lapsed, stopped>>

Excess == LET held == {k \in DomainRows : mem.rows[k] # 0}
          IN IF Cardinality(held) > MaxDomainRows
             THEN {v \in SUBSET held : Cardinality(v) = Cardinality(held) - MaxDomainRows}
             ELSE {{}}

\* Mutant of Evict: no targeted deletion is registered.
EvictSilently(victims) ==
    /\ mem' = [mem EXCEPT !.rows = [k \in Keys |-> IF k \in victims THEN 0 ELSE @[k]],
                          !.nested = [k \in Keys |-> IF k \in victims THEN 0 ELSE @[k]]]
    /\ todo' = [todo EXCEPT !.dirty = @ \ victims]

\* prune_domain_metrics, for the victims it chose: the rows seen least lately.
Evict(victims) ==
    /\ mem' = [mem EXCEPT !.rows = [k \in Keys |-> IF k \in victims THEN 0 ELSE @[k]],
                          !.nested = [k \in Keys |-> IF k \in victims THEN 0 ELSE @[k]]]
    /\ todo' = [todo EXCEPT !.deleted = @ \cup victims, !.dirty = @ \ victims]
-----------------------------------------------------------------------------
(* The flush.                                                              *)

\* _snapshot_flush_state, with consume_dirty_metric_keys,
\* consume_metric_delete_keys and collect_metric_payloads.
Load ==
    LET picked == IF todo.full THEN Keys ELSE todo.dirty
    IN [rows    |-> [k \in Keys |-> IF k \in picked THEN mem.rows[k] ELSE 0],
        nested  |-> [k \in Keys |-> IF k \in picked THEN mem.nested[k] ELSE 0],
        whole   |-> [w \in Wholes |-> IF w \in todo.whole THEN mem.whole[w] ELSE 0],
        deletes |-> IF todo.full THEN {} ELSE todo.deleted,
        full    |-> todo.full,
        shared  |-> {k \in picked : mem.rows[k] # 0}]

\* The tables after _persist_flush_state: deletions, then upserts.
Written(p) ==
    LET Merge(new, old) ==
            [k \in Keys |-> IF p.rows[k] # 0 THEN new[k]
                            ELSE IF p.full \/ k \in p.deletes THEN 0 ELSE old[k]]
    IN [rows   |-> Merge(p.rows, db.rows),
        nested |-> Merge(p.nested, db.nested),
        whole  |-> [w \in Wholes |-> IF p.whole[w] # 0 THEN p.whole[w] ELSE db.whole[w]]]

\* _flush_loop, every FLUSH_INTERVAL: the copy is taken and handed over.
Snapshot ==
    /\ loop = "asleep"
    /\ job' = [st |-> "queued", load |-> Load]
    /\ todo' = NothingToDo
    /\ loop' = "waiting"
    /\ UNCHANGED <<now, mem, db, phase, lapsed, stopped>>

\* The worker thread takes the job; from here on it cannot be cancelled.
WorkerStarts ==
    /\ job.st = "queued"
    /\ job' = [job EXCEPT !.st = "running"]
    /\ UNCHANGED <<now, mem, todo, loop, db, phase, lapsed, stopped>>

\* Mutant of WorkerEnds: the rows and the whole tables are committed apart.
TwoTransactions ==
    /\ job.st = "running"
    /\ \/ /\ db' = [Written(job.load) EXCEPT !.whole = db.whole]
          /\ UNCHANGED job
       \/ /\ db' = Written(job.load)
          /\ job' = [NoJob EXCEPT !.st = "done"]
    /\ UNCHANGED <<now, mem, todo, loop, phase, lapsed, stopped>>

\* One transaction under _db_lock: committed, or rolled back and logged.
WorkerEnds ==
    /\ job.st = "running"
    /\ \/ db' = Written(job.load) /\ lapsed' = lapsed
       \/ db' = db /\ lapsed' = TRUE
    /\ job' = [NoJob EXCEPT !.st = "done"]
    /\ UNCHANGED <<now, mem, todo, loop, phase, stopped>>

\* Mutant of FlushLoopResumes: the marks are cleared when the write is done.
MarksClearedLate ==
    /\ loop = "waiting" /\ job.st = "done"
    /\ todo' = NothingToDo
    /\ job' = NoJob
    /\ loop' = "asleep"
    /\ UNCHANGED <<now, mem, db, phase, lapsed, stopped>>

\* Mutant of FlushLoopResumes: an exception ends the task.
FlushLoopEnds ==
    /\ loop = "waiting" /\ job.st = "done"
    /\ loop' = "ended"
    /\ UNCHANGED <<now, mem, todo, job, db, phase, lapsed, stopped>>

\* _flush_loop resumes, prunes and sleeps again.
FlushLoopResumes ==
    /\ loop = "waiting" /\ job.st = "done"
    /\ \E victims \in Excess : Evict(victims)
    /\ job' = NoJob
    /\ loop' = "asleep"
    /\ UNCHANGED <<now, db, phase, lapsed, stopped>>
-----------------------------------------------------------------------------
(* The end of the process, and the next one.                               *)

\* stop(): a synchronous flush, after which the flush task is cancelled.  It
\* overtakes a worker that has not taken _db_lock yet.
FinalFlush ==
    /\ phase = "serving"
    /\ \/ db' = Written(Load) /\ lapsed' = (lapsed \/ Pending)
       \/ db' = db /\ lapsed' = TRUE
    /\ todo' = NothingToDo
    /\ loop' = "cancelled"
    /\ phase' = "flushed"
    /\ stopped' = now
    /\ UNCHANGED <<now, mem, job>>

\* The cancelled wait cancels the future of a job no thread has taken yet.
JobDropped ==
    /\ loop = "cancelled" /\ job.st = "queued"
    /\ job' = NoJob
    /\ UNCHANGED <<now, mem, todo, loop, db, phase, lapsed, stopped>>

\* _flush_executor.shutdown(wait=True), then the database is closed.
Down ==
    /\ phase = "flushed" /\ ~Pending
    /\ phase' = "down"
    /\ UNCHANGED <<now, mem, todo, loop, job, db, lapsed, stopped>>

\* The process ends, killed at any moment or after stop(), and a new one loads
\* the database (_load_caches_from_db).
Restart ==
    /\ mem' = db
    /\ todo' = NothingToDo
    /\ loop' = "asleep"
    /\ job' = NoJob
    /\ phase' = "serving"
    /\ lapsed' = FALSE
    /\ stopped' = 0
    /\ UNCHANGED <<now, db>>

Flushing == Snapshot \/ WorkerStarts \/ WorkerEnds \/ FlushLoopResumes

Next ==
    \/ \E k \in Keys : Observe(k)
    \/ \E w \in Wholes : Record(w)
    \/ Reset
    \/ Flushing
    \/ FinalFlush \/ JobDropped \/ Down
    \/ Restart

Spec == Init /\ [][Next]_vars

\* The timer of the flush task fires, the worker thread is scheduled and the
\* event loop resumes the tasks that are ready.
FairSpec == Spec /\ WF_vars(Snapshot) /\ WF_vars(WorkerStarts)
                 /\ WF_vars(WorkerEnds) /\ WF_vars(FlushLoopResumes)
-----------------------------------------------------------------------------
(* Properties.                                                             *)

\* The tables once the write in flight has landed.
Outcome == IF Pending THEN Written(job.load) ELSE db

\* A row that changed is dirty, a row that was evicted is to be deleted, or
\* everything is rewritten.
Listed ==
    /\ \A k \in Keys :
          Outcome.rows[k] # mem.rows[k] =>
             \/ todo.full
             \/ mem.rows[k] # 0 /\ k \in todo.dirty
             \/ mem.rows[k] = 0 /\ k \in todo.deleted
    /\ \A w \in Wholes :
          Outcome.whole[w] # mem.whole[w] => mem.whole[w] # 0 /\ w \in todo.whole

(* As long as no write was lost, every difference between memory and what  *)
(* the database is about to hold is on the list of the next flush.  This   *)
(* is the invariant the comment of _dirty_metric_keys (selector.py 244)    *)
(* states, and what makes differential writes safe.                        *)
Accounted == ~lapsed => Listed

(* A flush never deletes a row that is alive, nor writes one that is gone: *)
(* the rows to delete are absent from memory and the dirty ones present,   *)
(* however evictions, resets and new observations of the same row follow   *)
(* one another.  It holds when writes fail as well.                        *)
ListsAgree ==
    /\ \A k \in todo.deleted : mem.rows[k] = 0
    /\ \A k \in todo.dirty : mem.rows[k] # 0

(* The differential flush implements whole checkpoints: at every moment    *)
(* the database is one earlier state of all the statistics, never a mix of *)
(* two, and a process killed at any moment comes back to that state.  A    *)
(* lost write ends the promise, a new process renews it.                   *)
View(t) == [rows |-> t.rows, whole |-> t.whole]
C == INSTANCE Checkpoint WITH Empty <- View(NoTables), memory <- View(mem),
                              taken <- View(Outcome), disk <- View(db)
Checkpoints == C!Spec

(* Every row as it was when stop() made its flush is in the database once   *)
(* the process is down, and so are the whole tables (router.py 4756: what  *)
(* is left is written in one go), unless a transaction failed or the flush *)
(* overtook a worker's.  The probes go on after that moment: what they     *)
(* observe then is not written, but it must not cost what was there.       *)
StopSaves ==
    phase = "down" /\ ~lapsed =>
        /\ \A k \in Keys : mem.rows[k] <= stopped => db.rows[k] = mem.rows[k]
        /\ db.whole = mem.whole

(* What happens to a row is written: it does not keep a content that the  *)
(* database lacks while the process serves and loses no write.  Evicted    *)
(* rows (0) leave the database as well, and do not come back with the next *)
(* process (prune_domain_metrics registers a deletion).                    *)
EventuallySaved ==
    \A k \in Keys : \A t \in 0..MaxNow :
        mem.rows[k] = t ~> (db.rows[k] = t \/ mem.rows[k] # t \/ phase # "serving" \/ lapsed)

(* The worker thread writes nested counters that are newer than the row    *)
(* they belong to, when the row was observed after its copy was taken      *)
(* (flush_metric_copy copies them by reference).  Such a row never stays   *)
(* behind: unless a write is lost it is on the list of the next flush.     *)
MixedRowsListed ==
    ~lapsed => \A k \in Keys :
        Outcome.nested[k] # mem.nested[k] =>
            todo.full \/ k \in todo.dirty \/ k \in todo.deleted
=============================================================================
