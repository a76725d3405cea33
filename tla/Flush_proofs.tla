---------------------------- MODULE Flush_proofs ----------------------------
(***************************************************************************)
(* Proofs about Flush, for any sets of rows and any limit: the lists of    *)
(* the next flush never contradict memory, whatever fails, and the         *)
(* differential flush implements checkpoints of everything for as long as  *)
(* no write is lost.                                                       *)
(***************************************************************************)
EXTENDS Flush, TLAPS

\* Only a flush task that waits has a write under way.
OneWriter == loop # "waiting" => ~Pending

\* StopSaves from the flush of stop() on.
Saved ==
    phase # "serving" =>
        /\ loop = "cancelled"
        /\ stopped <= now
        /\ \A k \in Keys : mem.rows[k] <= stopped => db.rows[k] = mem.rows[k]
        /\ db.whole = mem.whole

\* The inductive invariant.
IInv ==
    /\ TypeOK
    /\ ListsAgree
    /\ ~lapsed => Listed /\ OneWriter /\ Saved
-----------------------------------------------------------------------------
(* The copy and what becomes of it.                                        *)

LEMMA LoadType == ASSUME TypeOK PROVE Load \in Payload
<1> DEFINE picked == IF todo.full THEN Keys ELSE todo.dirty
<1>1. mem \in Tables /\ todo \in Todo
  BY DEF TypeOK
<1>2. picked \in SUBSET Keys
  BY <1>1 DEF Todo
<1>3. 0 \in Moments
  BY FlushAssumption DEF Moments, FlushAssumption
<1>4. [k \in Keys |-> IF k \in picked THEN mem.rows[k] ELSE 0] \in [Keys -> Moments]
  BY <1>1, <1>3 DEF Tables
<1>5. [k \in Keys |-> IF k \in picked THEN mem.nested[k] ELSE 0] \in [Keys -> Moments]
  BY <1>1, <1>3 DEF Tables
<1>6. [w \in Wholes |-> IF w \in todo.whole THEN mem.whole[w] ELSE 0] \in [Wholes -> Moments]
  BY <1>1, <1>3 DEF Tables
<1>7. (IF todo.full THEN {} ELSE todo.deleted) \in SUBSET Keys /\ todo.full \in BOOLEAN
  BY <1>1 DEF Todo
<1>8. {k \in picked : mem.rows[k] # 0} \in SUBSET Keys
  BY <1>2
<1> HIDE DEF picked
<1>9. Load = [rows    |-> [k \in Keys |-> IF k \in picked THEN mem.rows[k] ELSE 0],
              nested  |-> [k \in Keys |-> IF k \in picked THEN mem.nested[k] ELSE 0],
              whole   |-> [w \in Wholes |-> IF w \in todo.whole THEN mem.whole[w] ELSE 0],
              deletes |-> IF todo.full THEN {} ELSE todo.deleted,
              full    |-> todo.full,
              shared  |-> {k \in picked : mem.rows[k] # 0}]
  BY DEF Load, picked
<1> QED BY <1>4, <1>5, <1>6, <1>7, <1>8, <1>9 DEF Payload

LEMMA WrittenType ==
    ASSUME TypeOK, NEW p \in Payload PROVE Written(p) \in Tables
  BY DEF TypeOK, Payload, Tables, Written

\* A copy taken while no write is under way makes the database equal to memory.
LEMMA CopyCovers ==
    ASSUME TypeOK, ListsAgree, Listed, ~Pending
    PROVE  /\ Written(Load).rows = mem.rows
           /\ Written(Load).whole = mem.whole
<1>1. mem \in Tables /\ db \in Tables /\ todo \in Todo
  BY DEF TypeOK
<1>2. Outcome = db
  BY DEF Outcome
<1>3. ASSUME NEW k \in Keys PROVE Written(Load).rows[k] = mem.rows[k]
  <2>1. CASE todo.full
    BY <1>1, <2>1 DEF Written, Load, Tables, Todo
  <2>2. CASE ~todo.full /\ k \in todo.dirty
    <3>1. mem.rows[k] # 0
      BY <2>2 DEF ListsAgree
    <3> QED BY <1>1, <2>2, <3>1 DEF Written, Load, Tables, Todo
  <2>3. CASE ~todo.full /\ k \notin todo.dirty /\ k \in todo.deleted
    <3>1. mem.rows[k] = 0
      BY <2>3 DEF ListsAgree
    <3> QED BY <1>1, <2>3, <3>1 DEF Written, Load, Tables, Todo
  <2>4. CASE ~todo.full /\ k \notin todo.dirty /\ k \notin todo.deleted
    <3>1. db.rows[k] = mem.rows[k]
      BY <1>2, <2>4 DEF Listed
    <3> QED BY <1>1, <2>4, <3>1 DEF Written, Load, Tables, Todo
  <2> QED BY <1>1, <2>1, <2>2, <2>3, <2>4 DEF Todo
<1>4. ASSUME NEW w \in Wholes PROVE Written(Load).whole[w] = mem.whole[w]
  BY <1>1, <1>2 DEF Listed, Written, Load, Tables, Todo
<1>5. Written(Load).rows = mem.rows
  <2>1. Written(Load).rows = [k \in Keys |-> Written(Load).rows[k]]
    BY DEF Written
  <2>2. mem.rows = [k \in Keys |-> mem.rows[k]]
    BY <1>1 DEF Tables
  <2> QED BY <1>3, <2>1, <2>2
<1>6. Written(Load).whole = mem.whole
  <2>1. Written(Load).whole = [w \in Wholes |-> Written(Load).whole[w]]
    BY DEF Written
  <2>2. mem.whole = [w \in Wholes |-> mem.whole[w]]
    BY <1>1 DEF Tables
  <2> QED BY <1>4, <2>1, <2>2
<1> QED BY <1>5, <1>6

\* What a write leaves depends on the rows and lists of its copy alone.
LEMMA SameOutcome ==
    ASSUME db' = db, Pending' = Pending,
           job'.load.rows = job.load.rows, job'.load.whole = job.load.whole,
           job'.load.deletes = job.load.deletes, job'.load.full = job.load.full
    PROVE  Outcome'.rows = Outcome.rows /\ Outcome'.whole = Outcome.whole
<1>1. Written(job.load)'.rows = Written(job.load).rows
  BY DEF Written
<1>2. Written(job.load)'.whole = Written(job.load).whole
  BY DEF Written
<1> QED BY <1>1, <1>2 DEF Outcome
-----------------------------------------------------------------------------
(* Types.                                                                  *)

LEMMA Constants ==
    /\ 0 \in Moments
    /\ NoRows \in [Keys -> Moments]
    /\ NoTables \in Tables
    /\ NothingToDo \in Todo
    /\ NoPayload \in Payload
    /\ NoJob \in [st : {"none", "queued", "running", "done"}, load : Payload]
<1>1. 0 \in Moments
  BY FlushAssumption DEF Moments, FlushAssumption
<1>2. NoRows \in [Keys -> Moments]
  BY <1>1 DEF NoRows
<1>3. [w \in Wholes |-> 0] \in [Wholes -> Moments]
  BY <1>1
<1>4. NoTables \in Tables
  BY <1>2, <1>3 DEF NoTables, Tables
<1>5. NothingToDo \in Todo
  BY DEF NothingToDo, Todo
<1>6. NoPayload \in Payload
  BY <1>2, <1>3 DEF NoPayload, Payload
<1>7. NoJob \in [st : {"none", "queued", "running", "done"}, load : Payload]
  BY <1>6 DEF NoJob
<1> QED BY <1>1, <1>2, <1>4, <1>5, <1>6, <1>7

LEMMA NextMoment ==
    ASSUME TypeOK, now < MaxNow
    PROVE  now + 1 \in Moments /\ now + 1 # 0
  BY FlushAssumption DEF TypeOK, Moments, FlushAssumption

LEMMA TypeStep == ASSUME TypeOK, [Next]_vars PROVE TypeOK'
<1> USE DEF TypeOK
<1>1. ASSUME NEW k \in Keys, Observe(k) PROVE TypeOK'
  <2>1. now + 1 \in Moments
    BY <1>1, NextMoment DEF Observe
  <2>2. mem' \in Tables
    BY <1>1, <2>1 DEF Observe, Tables
  <2>3. todo' \in Todo
    BY <1>1 DEF Observe, Todo
  <2>4. job' \in [st : {"none", "queued", "running", "done"}, load : Payload]
    <3>1. CASE k \in job.load.shared
      BY <1>1, <2>1, <3>1 DEF Observe, Payload
    <3>2. CASE k \notin job.load.shared
      BY <1>1, <3>2 DEF Observe
    <3> QED BY <3>1, <3>2
  <2> QED BY <1>1, <2>1, <2>2, <2>3, <2>4 DEF Observe
<1>2. ASSUME NEW w \in Wholes, Record(w) PROVE TypeOK'
  <2>1. now + 1 \in Moments
    BY <1>2, NextMoment DEF Record
  <2>2. mem' \in Tables
    BY <1>2, <2>1 DEF Record, Tables
  <2>3. todo' \in Todo
    BY <1>2 DEF Record, Todo
  <2> QED BY <1>2, <2>1, <2>2, <2>3 DEF Record
<1>3. CASE Reset
  <2>1. mem' \in Tables
    BY <1>3, Constants DEF Reset, Tables
  <2>2. todo' \in Todo
    BY <1>3 DEF Reset, Todo
  <2>3. job' \in [st : {"none", "queued", "running", "done"}, load : Payload]
    BY <1>3 DEF Reset, Payload
  <2> QED BY <1>3, <2>1, <2>2, <2>3 DEF Reset
<1>4. CASE Snapshot
  BY <1>4, LoadType, Constants DEF Snapshot
<1>5. CASE WorkerStarts
  BY <1>5 DEF WorkerStarts
<1>6. CASE WorkerEnds
  <2>1. db' \in Tables
    BY <1>6, WrittenType DEF WorkerEnds
  <2>2. job' \in [st : {"none", "queued", "running", "done"}, load : Payload]
    BY <1>6, Constants DEF WorkerEnds
  <2> QED BY <1>6, <2>1, <2>2 DEF WorkerEnds
<1>7. CASE FlushLoopResumes
  <2>1. PICK victims \in Excess : Evict(victims)
    BY <1>7 DEF FlushLoopResumes
  <2>2. victims \in SUBSET Keys
    BY <2>1 DEF Excess, Keys
  <2>3. mem' \in Tables
    BY <2>1, Constants DEF Evict, Tables
  <2>4. todo' \in Todo
    BY <2>1, <2>2 DEF Evict, Todo
  <2> QED BY <1>7, <2>3, <2>4, Constants DEF FlushLoopResumes
<1>8. CASE FinalFlush
  <2>1. db' \in Tables
    BY <1>8, LoadType, WrittenType DEF FinalFlush
  <2> QED BY <1>8, <2>1, Constants DEF FinalFlush
<1>9. CASE JobDropped
  BY <1>9, Constants DEF JobDropped
<1>10. CASE Down
  BY <1>10 DEF Down
<1>11. CASE Restart
  BY <1>11, Constants DEF Restart
<1>12. CASE UNCHANGED vars
  BY <1>12 DEF vars
<1> QED BY <1>1, <1>2, <1>3, <1>4, <1>5, <1>6, <1>7, <1>8, <1>9, <1>10, <1>11, <1>12
        DEF Next, Flushing
-----------------------------------------------------------------------------
(* Memory against the lists.                                               *)

\* What an eviction does to one row.
LEMMA Evicted ==
    ASSUME TypeOK, NEW victims \in Excess, Evict(victims)
    PROVE  /\ victims \in SUBSET DomainRows
           /\ \A k \in Keys : mem'.rows[k] = IF k \in victims THEN 0 ELSE mem.rows[k]
           /\ mem'.whole = mem.whole
           /\ todo'.deleted = todo.deleted \cup victims
           /\ todo'.dirty = todo.dirty \ victims
           /\ todo'.full = todo.full
           /\ todo'.whole = todo.whole
<1>1. victims \in SUBSET DomainRows
  BY DEF Excess
<1>2. mem \in Tables /\ todo \in Todo
  BY DEF TypeOK
<1> QED BY <1>1, <1>2 DEF Evict, Tables, Todo

\* What an observation does to one row.
LEMMA Observed ==
    ASSUME TypeOK, NEW k \in Keys, Observe(k)
    PROVE  /\ \A j \in Keys : mem'.rows[j] = IF j = k THEN now + 1 ELSE mem.rows[j]
           /\ mem'.whole = mem.whole
           /\ now + 1 # 0
           /\ todo'.deleted = todo.deleted \ {k}
           /\ todo'.dirty = todo.dirty \cup {k}
           /\ todo'.full = todo.full
           /\ todo'.whole = todo.whole
           /\ job'.st = job.st
           /\ job'.load.rows = job.load.rows
           /\ job'.load.whole = job.load.whole
           /\ job'.load.deletes = job.load.deletes
           /\ job'.load.full = job.load.full
<1>1. mem \in Tables /\ todo \in Todo /\ job \in [st : {"none", "queued", "running", "done"}, load : Payload]
  BY DEF TypeOK
<1>2. now + 1 # 0
  BY NextMoment DEF Observe
<1>3. CASE k \in job.load.shared
  BY <1>1, <1>2, <1>3 DEF Observe, Tables, Todo, Payload
<1>4. CASE k \notin job.load.shared
  BY <1>1, <1>2, <1>4 DEF Observe, Tables, Todo
<1> QED BY <1>3, <1>4

LEMMA ListsStep == ASSUME TypeOK, ListsAgree, [Next]_vars PROVE ListsAgree'
<1>0. mem \in Tables /\ todo \in Todo
  BY DEF TypeOK
<1>1. ASSUME NEW k \in Keys, Observe(k) PROVE ListsAgree'
  <2>1. \A j \in todo.deleted \cup todo.dirty : j \in Keys
    BY <1>0 DEF Todo
  <2> QED BY <1>1, <2>1, Observed DEF ListsAgree
<1>2. ASSUME NEW w \in Wholes, Record(w) PROVE ListsAgree'
  BY <1>0, <1>2 DEF Record, ListsAgree, Tables, Todo
<1>3. CASE Reset
  BY <1>0, <1>3 DEF Reset, ListsAgree, Todo
<1>4. CASE FlushLoopResumes
  <2>1. PICK victims \in Excess : Evict(victims)
    BY <1>4 DEF FlushLoopResumes
  <2>2. \A j \in todo.deleted \cup todo.dirty \cup victims : j \in Keys
    BY <1>0, <2>1, Evicted DEF Todo, Keys
  <2> QED BY <2>1, <2>2, Evicted DEF ListsAgree
<1>5. CASE Snapshot \/ FinalFlush \/ Restart
  <2>1. todo' = NothingToDo
    BY <1>5 DEF Snapshot, FinalFlush, Restart
  <2> QED BY <2>1 DEF NothingToDo, ListsAgree
<1>6. CASE WorkerStarts \/ WorkerEnds \/ JobDropped \/ Down \/ UNCHANGED vars
  <2>1. todo' = todo /\ mem' = mem
    BY <1>6 DEF WorkerStarts, WorkerEnds, JobDropped, Down, vars
  <2> QED BY <2>1 DEF ListsAgree
<1> QED BY <1>1, <1>2, <1>3, <1>4, <1>5, <1>6 DEF Next, Flushing
-----------------------------------------------------------------------------
(* Memory against the database.                                            *)

\* A process begins with the database in its memory, whatever came before.
LEMMA RestartStep ==
    ASSUME Restart PROVE (Listed /\ OneWriter /\ Saved)'
<1>1. ~Pending' /\ mem' = db' /\ phase' = "serving"
  BY DEF Restart, Pending, NoJob
<1> QED BY <1>1 DEF Listed, Outcome, OneWriter, Saved

\* What was lost stays lost until the next process.
LEMMA LapsedUntilRestart ==
    ASSUME [Next]_vars, lapsed, ~lapsed' PROVE Restart
  BY DEF Next, vars, Observe, Record, Reset, Flushing, Snapshot, WorkerStarts, WorkerEnds,
         FlushLoopResumes, FinalFlush, JobDropped, Down
LEMMA FaithfulStep ==
    ASSUME TypeOK, ListsAgree, Listed, OneWriter, Saved, [Next]_vars, ~lapsed'
    PROVE  (Listed /\ OneWriter /\ Saved)'
<1>0. mem \in Tables /\ todo \in Todo /\ job \in [st : {"none", "queued", "running", "done"}, load : Payload]
  BY DEF TypeOK
<1>1. ASSUME NEW k \in Keys, Observe(k) PROVE (Listed /\ OneWriter /\ Saved)'
  <2>1. Outcome'.rows = Outcome.rows /\ Outcome'.whole = Outcome.whole
    BY <1>1, Observed, SameOutcome DEF Observe, Pending
  <2>2. Listed'
    BY <1>1, <2>1, Observed DEF Listed
  <2>3. OneWriter'
    BY <1>1, Observed DEF OneWriter, Observe, Pending
  <2>4. ASSUME phase' # "serving"
        PROVE  loop' = "cancelled" /\ stopped' <= now /\ now' = now + 1 /\ db'.whole = mem'.whole
    BY <1>1, <2>4, Observed DEF Saved, Observe
  <2>5. ASSUME phase' # "serving", NEW j \in Keys, mem'.rows[j] <= stopped'
        PROVE  db'.rows[j] = mem'.rows[j]
    <3>1. phase # "serving" /\ db' = db /\ stopped' = stopped
      BY <1>1, <2>5 DEF Observe
    <3>2. mem'.rows[j] = (IF j = k THEN now + 1 ELSE mem.rows[j])
      BY <1>1, Observed
    <3>3. now \in Nat /\ stopped \in Nat
      BY FlushAssumption DEF TypeOK, Moments, FlushAssumption
    <3>4. CASE j = k
      BY <2>4, <2>5, <3>1, <3>2, <3>3, <3>4
    <3>5. CASE j # k
      BY <2>5, <3>1, <3>2, <3>5 DEF Saved
    <3> QED BY <3>4, <3>5
  <2>6. ASSUME phase' # "serving" PROVE stopped' <= now'
    <3>1. now \in Nat /\ stopped' \in Nat
      BY <1>1, FlushAssumption DEF TypeOK, Moments, FlushAssumption, Observe
    <3> QED BY <2>4, <2>6, <3>1
  <2>7. Saved'
    BY <2>4, <2>5, <2>6 DEF Saved
  <2> QED BY <2>2, <2>3, <2>7
<1>2. ASSUME NEW w \in Wholes, Record(w) PROVE (Listed /\ OneWriter /\ Saved)'
  <2>1. Outcome' = Outcome
    BY <1>2 DEF Record, Outcome, Pending, Written
  <2>2. /\ mem'.rows = mem.rows
        /\ \A v \in Wholes : mem'.whole[v] = IF v = w THEN now + 1 ELSE mem.whole[v]
        /\ todo'.dirty = todo.dirty /\ todo'.deleted = todo.deleted /\ todo'.full = todo.full
        /\ todo'.whole = todo.whole \cup {w}
    BY <1>0, <1>2 DEF Record, Tables, Todo
  <2>3. now + 1 # 0
    BY <1>2, NextMoment DEF Record
  <2>4. Listed'
    BY <2>1, <2>2, <2>3 DEF Listed
  <2>5. OneWriter'
    BY <1>2 DEF OneWriter, Record, Pending
  <2>6. Saved'
    BY <1>2 DEF Saved, Record
  <2> QED BY <2>4, <2>5, <2>6
<1>3. CASE Reset
  <2>1. /\ job'.st = job.st
        /\ job'.load.rows = job.load.rows /\ job'.load.whole = job.load.whole
        /\ job'.load.deletes = job.load.deletes /\ job'.load.full = job.load.full
    BY <1>0, <1>3 DEF Reset, Payload
  <2>2. Outcome'.rows = Outcome.rows /\ Outcome'.whole = Outcome.whole
    BY <1>3, <2>1, SameOutcome DEF Reset, Pending
  <2>3. mem'.whole = mem.whole /\ todo'.full /\ todo'.whole = todo.whole
    BY <1>0, <1>3 DEF Reset, Tables, Todo
  <2>4. Listed'
    BY <2>2, <2>3 DEF Listed
  <2>5. OneWriter' /\ Saved'
    BY <1>3, <2>1 DEF OneWriter, Saved, Reset, Pending
  <2> QED BY <2>4, <2>5
<1>4. CASE Snapshot
  <2>1. ~Pending
    BY <1>4 DEF Snapshot, OneWriter
  <2>2. Outcome' = Written(Load)
    BY <1>4 DEF Snapshot, Outcome, Pending, Written
  <2>3. Outcome'.rows = mem'.rows /\ Outcome'.whole = mem'.whole
    BY <1>4, <2>1, <2>2, CopyCovers DEF Snapshot
  <2>4. Listed'
    BY <2>3 DEF Listed
  <2>5. OneWriter' /\ Saved'
    BY <1>4 DEF OneWriter, Saved, Snapshot
  <2> QED BY <2>4, <2>5
<1>5. CASE WorkerStarts
  <2>1. job'.st = "running" /\ job'.load = job.load /\ Pending /\ Pending'
    BY <1>0, <1>5 DEF WorkerStarts, Pending
  <2>2. Outcome' = Outcome
    BY <1>5, <2>1 DEF WorkerStarts, Outcome, Written
  <2>3. Listed'
    BY <1>5, <2>2 DEF Listed, WorkerStarts
  <2>4. OneWriter' /\ Saved'
    BY <1>5, <2>1 DEF OneWriter, Saved, WorkerStarts
  <2> QED BY <2>3, <2>4
<1>6. CASE WorkerEnds
  <2>1. db' = Written(job.load) /\ job' = [NoJob EXCEPT !.st = "done"] /\ Pending
    BY <1>6 DEF WorkerEnds, Pending
  <2>2. ~Pending'
    BY <2>1 DEF Pending, NoJob
  <2>3. Outcome' = Outcome
    BY <2>1, <2>2 DEF Outcome
  <2>4. Listed'
    BY <1>6, <2>3 DEF Listed, WorkerEnds
  <2>5. OneWriter'
    BY <2>2 DEF OneWriter
  <2>6. Saved'
    BY <1>6, <2>1 DEF OneWriter, Saved, WorkerEnds
  <2> QED BY <2>4, <2>5, <2>6
<1>7. CASE FlushLoopResumes
  <2>1. PICK victims \in Excess : Evict(victims)
    BY <1>7 DEF FlushLoopResumes
  <2>2. ~Pending /\ ~Pending'
    BY <1>7 DEF FlushLoopResumes, Pending, NoJob
  <2>3. Outcome' = Outcome
    BY <1>7, <2>2 DEF FlushLoopResumes, Outcome
  <2>4. Listed'
    BY <2>1, <2>3, Evicted DEF Listed
  <2>5. OneWriter'
    BY <2>2 DEF OneWriter
  <2>6. Saved'
    BY <1>7 DEF Saved, FlushLoopResumes
  <2> QED BY <2>4, <2>5, <2>6
<1>8. CASE FinalFlush
  <2>1. ~Pending /\ db' = Written(Load) /\ mem' = mem /\ job' = job /\ loop' = "cancelled"
    BY <1>8 DEF FinalFlush
  <2>2. stopped' <= now'
    <3>1. stopped' = now /\ now' = now /\ now \in Nat
      BY <1>8, FlushAssumption DEF FinalFlush, TypeOK, Moments, FlushAssumption
    <3> QED BY <3>1
  <2>3. db'.rows = mem'.rows /\ db'.whole = mem'.whole
    BY <2>1, CopyCovers
  <2>4. Outcome' = db'
    BY <2>1 DEF Outcome, Pending
  <2>5. Listed' /\ OneWriter' /\ Saved'
    BY <2>1, <2>3, <2>4, <2>2 DEF Listed, OneWriter, Saved, Pending
  <2> QED BY <2>5
<1>9. CASE JobDropped
  BY <1>9 DEF JobDropped, OneWriter, Pending
<1>10. CASE Down
  <2>1. Outcome' = Outcome
    BY <1>10 DEF Down, Outcome, Pending, Written
  <2>2. Listed'
    BY <1>10, <2>1 DEF Down, Listed
  <2>3. OneWriter' /\ Saved'
    BY <1>10 DEF Down, OneWriter, Saved, Pending
  <2> QED BY <2>2, <2>3
<1>11. CASE Restart
  BY <1>11, RestartStep
<1>12. CASE UNCHANGED vars
  <2>1. Outcome' = Outcome
    BY <1>12 DEF vars, Outcome, Pending, Written
  <2> QED BY <1>12, <2>1 DEF vars, Listed, OneWriter, Saved, Pending
<1> QED BY <1>1, <1>2, <1>3, <1>4, <1>5, <1>6, <1>7, <1>8, <1>9, <1>10, <1>11, <1>12
        DEF Next, Flushing

-----------------------------------------------------------------------------
(* The theorems.                                                           *)

LEMMA IInvInit == Init => IInv
<1> SUFFICES ASSUME Init PROVE IInv
  OBVIOUS
<1>1. TypeOK
  BY Constants DEF Init, TypeOK
<1>2. ListsAgree
  BY DEF Init, ListsAgree, NothingToDo
<1>3. ~Pending
  BY DEF Init, Pending, NoJob
<1>4. Listed /\ OneWriter /\ Saved
  BY <1>3 DEF Init, Listed, Outcome, OneWriter, Saved
<1> QED BY <1>1, <1>2, <1>4 DEF IInv

LEMMA IInvStep == IInv /\ [Next]_vars => IInv'
<1> SUFFICES ASSUME IInv, [Next]_vars PROVE IInv'
  OBVIOUS
<1>1. TypeOK' /\ ListsAgree'
  BY TypeStep, ListsStep DEF IInv
<1>2. ASSUME ~lapsed' PROVE (Listed /\ OneWriter /\ Saved)'
  <2>1. CASE lapsed
    BY <1>2, <2>1, LapsedUntilRestart, RestartStep
  <2>2. CASE ~lapsed
    BY <1>2, <2>2, FaithfulStep DEF IInv
  <2> QED BY <2>1, <2>2
<1> QED BY <1>1, <1>2 DEF IInv

(* The inductive invariant holds in every behaviour.                       *)
THEOREM Invariant == Spec => []IInv
  BY IInvInit, IInvStep, PTL DEF Spec

(* Every variable of the persistence keeps its type.                       *)
THEOREM TypeCorrect == Spec => []TypeOK
<1>1. IInv => TypeOK
  BY DEF IInv
<1> QED BY <1>1, Invariant, PTL

(* No flush deletes a living row or writes a dead one, whether or not      *)
(* transactions fail and however stop() and the worker meet.               *)
THEOREM NoContradiction == Spec => []ListsAgree
<1>1. IInv => ListsAgree
  BY DEF IInv
<1> QED BY <1>1, Invariant, PTL

(* As long as no write is lost, nothing in which memory and database      *)
(* differ is forgotten.                                                    *)
THEOREM NothingForgotten == Spec => []Accounted
<1>1. IInv => Accounted
  BY DEF IInv, Accounted
<1> QED BY <1>1, Invariant, PTL

(* After a stop that lost no write the database has every row as it was at *)
(* the flush of stop(): what changed later, by a probe, is newer than it.  *)
THEOREM StopIsComplete == Spec => []StopSaves
<1>1. IInv => StopSaves
  BY DEF IInv, Saved, StopSaves
<1> QED BY <1>1, Invariant, PTL

\* Two equal outcomes are the same copy.
LEMMA SameView ==
    ASSUME NEW s, NEW t, s.rows = t.rows, s.whole = t.whole
    PROVE  View(s) = View(t)
  BY DEF View

\* A new process is a restart of the checkpoints.
LEMMA RestartIsRestart == ASSUME Restart PROVE C!Restart
<1>1. ~Pending' /\ mem' = db /\ db' = db
  BY DEF Restart, Pending, NoJob
<1>2. Outcome' = db
  BY <1>1 DEF Outcome
<1> QED BY <1>1, <1>2 DEF Restart, C!Restart, View

\* Every step that loses nothing is a step of the checkpoints, or none.
LEMMA FaithfulCheckpoint ==
    ASSUME IInv, [Next]_vars, ~lapsed, ~lapsed'
    PROVE  [C!Next]_(C!vars)
<1>0. TypeOK /\ ListsAgree /\ Listed /\ OneWriter
  BY DEF IInv
<1>01. mem \in Tables /\ todo \in Todo /\ job \in [st : {"none", "queued", "running", "done"}, load : Payload]
  BY <1>0 DEF TypeOK
<1>02. lapsed' = lapsed
  BY <1>0, TypeStep DEF TypeOK
<1>1. CASE View(Outcome)' = View(Outcome) /\ View(db)' = View(db)
  BY <1>02, <1>1 DEF C!Next, C!Change
<1>2. ASSUME NEW k \in Keys, Observe(k) PROVE View(Outcome)' = View(Outcome) /\ View(db)' = View(db)
  <2>1. Outcome'.rows = Outcome.rows /\ Outcome'.whole = Outcome.whole
    BY <1>0, <1>2, Observed, SameOutcome DEF Observe, Pending
  <2> QED BY <1>2, <2>1, SameView DEF Observe, View
<1>3. ASSUME NEW w \in Wholes, Record(w) PROVE View(Outcome)' = View(Outcome) /\ View(db)' = View(db)
  BY <1>3 DEF Record, Outcome, Pending, Written, View
<1>4. ASSUME Reset PROVE View(Outcome)' = View(Outcome) /\ View(db)' = View(db)
  <2>1. /\ job'.st = job.st
        /\ job'.load.rows = job.load.rows /\ job'.load.whole = job.load.whole
        /\ job'.load.deletes = job.load.deletes /\ job'.load.full = job.load.full
    BY <1>01, <1>4 DEF Reset, Payload
  <2>2. Outcome'.rows = Outcome.rows /\ Outcome'.whole = Outcome.whole
    BY <1>4, <2>1, SameOutcome DEF Reset, Pending
  <2> QED BY <1>4, <2>2, SameView DEF Reset, View
<1>5. ASSUME Snapshot PROVE C!Take
  <2>1. ~Pending
    BY <1>0, <1>5 DEF Snapshot, OneWriter
  <2>2. Outcome' = Written(Load)
    BY <1>5 DEF Snapshot, Outcome, Pending, Written
  <2>3. Written(Load).rows = mem.rows /\ Written(Load).whole = mem.whole
    BY <1>0, <2>1, CopyCovers
  <2>4. View(Outcome)' = View(mem)
    BY <2>2, <2>3 DEF View
  <2>5. View(mem)' = View(mem) /\ View(db)' = View(db)
    BY <1>5 DEF Snapshot, View
  <2> QED BY <1>02, <2>4, <2>5 DEF C!Take
<1>6. ASSUME WorkerStarts PROVE View(Outcome)' = View(Outcome) /\ View(db)' = View(db)
  <2>1. job'.load = job.load /\ Pending /\ Pending'
    BY <1>01, <1>6 DEF WorkerStarts, Pending
  <2> QED BY <1>6, <2>1 DEF WorkerStarts, Outcome, Written, View
<1>7. ASSUME WorkerEnds PROVE C!Land
  <2>1. db' = Written(job.load) /\ job' = [NoJob EXCEPT !.st = "done"] /\ Pending /\ mem' = mem
    BY <1>7 DEF WorkerEnds, Pending
  <2>2. ~Pending'
    BY <2>1 DEF Pending, NoJob
  <2>3. Outcome' = Outcome /\ db' = Outcome
    BY <2>1, <2>2 DEF Outcome
  <2> QED BY <1>02, <2>1, <2>3 DEF C!Land, View
<1>8. ASSUME FlushLoopResumes PROVE View(Outcome)' = View(Outcome) /\ View(db)' = View(db)
  <2>1. ~Pending /\ ~Pending'
    BY <1>8 DEF FlushLoopResumes, Pending, NoJob
  <2> QED BY <1>8, <2>1 DEF FlushLoopResumes, Outcome, View
<1>9. ASSUME FinalFlush PROVE C!SaveNow
  <2>1. ~Pending /\ db' = Written(Load) /\ mem' = mem /\ job' = job
    BY <1>9 DEF FinalFlush
  <2>2. db'.rows = mem.rows /\ db'.whole = mem.whole
    BY <1>0, <2>1, CopyCovers
  <2>3. Outcome' = db'
    BY <2>1 DEF Outcome, Pending
  <2> QED BY <1>02, <2>1, <2>2, <2>3 DEF C!SaveNow, View
<1>10. ASSUME JobDropped PROVE FALSE
  BY <1>0, <1>10 DEF JobDropped, OneWriter, Pending
<1>11. ASSUME Down \/ UNCHANGED vars PROVE View(Outcome)' = View(Outcome) /\ View(db)' = View(db)
  BY <1>11 DEF Down, vars, Outcome, Pending, Written, View
<1>12. ASSUME Restart PROVE C!Restart
  BY <1>12, RestartIsRestart
<1> QED BY <1>1, <1>2, <1>3, <1>4, <1>5, <1>6, <1>7, <1>8, <1>9, <1>10, <1>11, <1>12
        DEF Next, Flushing, C!Next

\* Every step of the flush is a step of the checkpoints, or none.
LEMMA CheckpointStep ==
    ASSUME IInv, IInv', [Next]_vars
    PROVE  [C!Next]_(C!vars)
<1>1. CASE lapsed'
  <2>1. lapsed' = TRUE
    BY <1>1 DEF IInv, TypeOK
  <2> QED BY <2>1 DEF C!Next, C!Lapse
<1>2. CASE lapsed /\ ~lapsed'
  <2>1. Restart
    BY <1>2, LapsedUntilRestart
  <2> QED BY <2>1, RestartIsRestart DEF C!Next
<1>3. CASE ~lapsed /\ ~lapsed'
  BY <1>3, FaithfulCheckpoint
<1> QED BY <1>1, <1>2, <1>3

(* The differential flush implements whole checkpoints: as long as no      *)
(* write is lost, every state of the database is one earlier state of all  *)
(* the statistics, and what a new process starts from.                     *)
THEOREM ImplementsCheckpoints == Spec => Checkpoints
<1>1. Init => C!Init
  BY DEF Init, C!Init, Outcome, Pending, NoJob
<1>2. IInv /\ IInv' /\ [Next]_vars => [C!Next]_(C!vars)
  BY CheckpointStep
<1> QED BY <1>1, <1>2, Invariant, PTL DEF Spec, Checkpoints, C!Spec
-----------------------------------------------------------------------------
(* Nested counters.                                                        *)

\* A row that is gone has no nested counters.
Tidy(t) == \A k \in Keys : t.rows[k] = 0 => t.nested[k] = 0
NestedListed ==
    \A k \in Keys :
        Outcome.nested[k] # mem.nested[k] => todo.full \/ k \in todo.dirty \/ k \in todo.deleted

\* The rows an upsert writes are present, the others it deletes or leaves.
LEMMA WrittenTidy == ASSUME Tidy(db), NEW p PROVE Tidy(Written(p))
  BY DEF Tidy, Written

\* What a write leaves of the nested counters, when its copy stays as it is.
LEMMA SameNested ==
    ASSUME db' = db, Pending' = Pending,
           job'.load.rows = job.load.rows, job'.load.nested = job.load.nested,
           job'.load.deletes = job.load.deletes, job'.load.full = job.load.full
    PROVE  Outcome'.nested = Outcome.nested
<1>1. Written(job.load)'.nested = Written(job.load).nested
  BY DEF Written
<1> QED BY <1>1 DEF Outcome

\* A copy taken while no write is under way brings the nested counters along.
LEMMA CopyCoversNested ==
    ASSUME TypeOK, ListsAgree, Listed, NestedListed, Tidy(mem), ~Pending, NEW k \in Keys
    PROVE  Written(Load).nested[k] = mem.nested[k]
<1>1. mem \in Tables /\ db \in Tables /\ todo \in Todo
  BY DEF TypeOK
<1>2. Outcome = db
  BY DEF Outcome
<1>3. Written(Load).nested[k] = IF Load.rows[k] # 0 THEN Load.nested[k]
                                ELSE IF Load.full \/ k \in Load.deletes THEN 0 ELSE db.nested[k]
  BY DEF Written
<1>4. CASE todo.full
  BY <1>1, <1>3, <1>4 DEF Load, Todo, Tidy
<1>5. CASE ~todo.full /\ k \in todo.dirty
  <2>1. mem.rows[k] # 0
    BY <1>5 DEF ListsAgree
  <2> QED BY <1>1, <1>3, <1>5, <2>1 DEF Load
<1>6. CASE ~todo.full /\ k \notin todo.dirty /\ k \in todo.deleted
  <2>1. mem.nested[k] = 0
    BY <1>6 DEF ListsAgree, Tidy
  <2> QED BY <1>1, <1>3, <1>6, <2>1 DEF Load
<1>7. CASE ~todo.full /\ k \notin todo.dirty /\ k \notin todo.deleted
  <2>1. db.nested[k] = mem.nested[k]
    BY <1>2, <1>7 DEF NestedListed
  <2> QED BY <1>1, <1>3, <1>7, <2>1 DEF Load
<1> QED BY <1>4, <1>5, <1>6, <1>7

\* An observation changes the nested counters of its own row only, in memory
\* and in a copy that shares them.
LEMMA ObservedNested ==
    ASSUME TypeOK, NEW k \in Keys, Observe(k), NEW j \in Keys, j # k
    PROVE  mem'.nested[j] = mem.nested[j] /\ Outcome'.nested[j] = Outcome.nested[j]
<1>1. mem \in Tables /\ job \in [st : {"none", "queued", "running", "done"}, load : Payload]
  BY DEF TypeOK
<1>2. mem'.nested[j] = mem.nested[j]
  BY <1>1 DEF Observe, Tables
<1>3. db' = db /\ Pending' = Pending
  BY Observed DEF Observe, Pending
<1>4. /\ job'.load.rows = job.load.rows /\ job'.load.deletes = job.load.deletes
      /\ job'.load.full = job.load.full
  BY Observed
<1>5. job'.load.nested[j] = job.load.nested[j]
  <2>1. CASE k \in job.load.shared
    <3>1. job'.load.nested = [job.load.nested EXCEPT ![k] = now + 1]
      BY <1>1, <2>1 DEF Observe, Payload
    <3>2. job.load.nested \in [Keys -> Moments]
      BY <1>1 DEF Payload
    <3> QED BY <3>1, <3>2
  <2>2. CASE k \notin job.load.shared
    BY <2>2 DEF Observe
  <2> QED BY <2>1, <2>2
<1>6. Written(job.load)'.nested[j] = Written(job.load).nested[j]
  BY <1>3, <1>4, <1>5 DEF Written
<1> QED BY <1>2, <1>3, <1>6 DEF Outcome

\* Rows that go take their nested counters along.
LEMMA TidyStep == ASSUME TypeOK, Tidy(mem), Tidy(db), [Next]_vars PROVE (Tidy(mem) /\ Tidy(db))'
<1>0. mem \in Tables
  BY DEF TypeOK
<1>1. ASSUME NEW k \in Keys, Observe(k) PROVE (Tidy(mem) /\ Tidy(db))'
  <2>1. now + 1 # 0
    BY <1>1, NextMoment DEF Observe
  <2> QED BY <1>0, <1>1, <2>1 DEF Observe, Tidy, Tables
<1>2. ASSUME NEW w \in Wholes, Record(w) PROVE (Tidy(mem) /\ Tidy(db))'
  BY <1>0, <1>2 DEF Record, Tidy, Tables
<1>3. CASE Reset
  BY <1>0, <1>3 DEF Reset, Tidy, Tables, NoRows
<1>4. CASE FlushLoopResumes
  <2>1. PICK victims \in Excess : Evict(victims)
    BY <1>4 DEF FlushLoopResumes
  <2> QED BY <1>0, <1>4, <2>1 DEF FlushLoopResumes, Evict, Tidy, Tables
<1>5. CASE WorkerEnds \/ FinalFlush
  <2>1. mem' = mem
    BY <1>5 DEF WorkerEnds, FinalFlush
  <2>2. db' = db \/ db' = Written(job.load) \/ db' = Written(Load)
    BY <1>5 DEF WorkerEnds, FinalFlush
  <2>3. Tidy(Written(job.load)) /\ Tidy(Written(Load))
    BY WrittenTidy
  <2> QED BY <2>1, <2>2, <2>3 DEF Tidy
<1>6. CASE Restart
  BY <1>6 DEF Restart, Tidy
<1>7. CASE Snapshot \/ WorkerStarts \/ JobDropped \/ Down \/ UNCHANGED vars
  BY <1>7 DEF Snapshot, WorkerStarts, JobDropped, Down, vars, Tidy
<1> QED BY <1>1, <1>2, <1>3, <1>4, <1>5, <1>6, <1>7 DEF Next, Flushing

\* A difference between nested counters is on a list after each step.
LEMMA NestedStep ==
    ASSUME TypeOK, ListsAgree, Listed, OneWriter, NestedListed, Tidy(mem), [Next]_vars, ~lapsed'
    PROVE  NestedListed'
<1>0. mem \in Tables /\ todo \in Todo /\ job \in [st : {"none", "queued", "running", "done"}, load : Payload]
  BY DEF TypeOK
<1>1. ASSUME NEW k \in Keys, Observe(k) PROVE NestedListed'
  BY <1>1, Observed, ObservedNested DEF NestedListed
<1>2. ASSUME NEW w \in Wholes, Record(w) PROVE NestedListed'
  <2>1. Outcome' = Outcome
    BY <1>2 DEF Record, Outcome, Pending, Written
  <2>2. /\ mem'.nested = mem.nested
        /\ todo'.dirty = todo.dirty /\ todo'.deleted = todo.deleted /\ todo'.full = todo.full
    BY <1>0, <1>2 DEF Record, Tables, Todo
  <2> QED BY <2>1, <2>2 DEF NestedListed
<1>3. CASE Reset
  <2>1. todo'.full
    BY <1>0, <1>3 DEF Reset, Todo
  <2> QED BY <2>1 DEF NestedListed
<1>4. CASE Snapshot
  <2>1. ~Pending
    BY <1>4 DEF Snapshot, OneWriter
  <2>2. Outcome' = Written(Load) /\ mem' = mem
    BY <1>4 DEF Snapshot, Outcome, Pending, Written
  <2> QED BY <2>1, <2>2, CopyCoversNested DEF NestedListed
<1>5. CASE FlushLoopResumes
  <2>1. PICK victims \in Excess : Evict(victims)
    BY <1>5 DEF FlushLoopResumes
  <2>2. Outcome' = Outcome
    BY <1>5 DEF FlushLoopResumes, Outcome, Pending, NoJob
  <2>3. \A k \in Keys \ victims : mem'.nested[k] = mem.nested[k]
    BY <1>0, <2>1 DEF Evict, Tables
  <2> QED BY <2>1, <2>2, <2>3, Evicted DEF NestedListed
<1>6. CASE FinalFlush
  <2>1. ~Pending /\ db' = Written(Load) /\ mem' = mem /\ job' = job
    BY <1>6 DEF FinalFlush
  <2>2. Outcome' = db'
    BY <2>1 DEF Outcome, Pending
  <2> QED BY <2>1, <2>2, CopyCoversNested DEF NestedListed
<1>7. CASE WorkerEnds
  <2>1. db' = Written(job.load) /\ Pending /\ ~Pending'
    BY <1>7 DEF WorkerEnds, Pending, NoJob
  <2>2. Outcome' = Outcome
    BY <2>1 DEF Outcome
  <2> QED BY <1>7, <2>2 DEF WorkerEnds, NestedListed
<1>8. CASE WorkerStarts \/ Down \/ UNCHANGED vars
  <2>1. db' = db /\ Pending' = Pending /\ job'.load = job.load /\ mem' = mem /\ todo' = todo
    BY <1>0, <1>8 DEF WorkerStarts, Down, vars, Pending
  <2> QED BY <2>1, SameNested DEF NestedListed
<1>9. CASE JobDropped
  BY <1>9 DEF JobDropped, OneWriter, Pending
<1>10. CASE Restart
  BY <1>10 DEF Restart, Outcome, Pending, NoJob, NestedListed
<1> QED BY <1>1, <1>2, <1>3, <1>4, <1>5, <1>6, <1>7, <1>8, <1>9, <1>10 DEF Next, Flushing

(* A row whose nested counters the worker wrote ahead of the row itself is *)
(* on the list of the next flush, as long as no write is lost.             *)
THEOREM MixedRowsStayListed == Spec => []MixedRowsListed
<1> DEFINE Nested == Tidy(mem) /\ Tidy(db) /\ (~lapsed => NestedListed)
<1>1. Init => Nested
  BY DEF Init, Tidy, NestedListed, Outcome, Pending, NoJob, NoTables, NoRows
<1>2. IInv /\ Nested /\ [Next]_vars => Nested'
  <2> SUFFICES ASSUME IInv, Nested, [Next]_vars PROVE Nested'
    OBVIOUS
  <2>1. (Tidy(mem) /\ Tidy(db))'
    BY TidyStep DEF IInv
  <2>2. ASSUME ~lapsed' PROVE NestedListed'
    <3>1. CASE lapsed
      <4>1. Restart
        BY <2>2, <3>1, LapsedUntilRestart
      <4> QED BY <4>1 DEF Restart, Outcome, Pending, NoJob, NestedListed
    <3>2. CASE ~lapsed
      BY <2>2, <3>2, NestedStep DEF IInv
    <3> QED BY <3>1, <3>2
  <2> QED BY <2>1, <2>2
<1>3. Nested => MixedRowsListed
  BY DEF MixedRowsListed, NestedListed
<1> HIDE DEF Nested
<1> QED BY <1>1, <1>2, <1>3, Invariant, PTL DEF Spec
=============================================================================
