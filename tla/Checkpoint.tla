----------------------------- MODULE Checkpoint -----------------------------
(***************************************************************************)
(* What the periodic flush promises: whole-table checkpoints.  A flush     *)
(* takes a copy of all the statistics in memory and that copy, as a whole, *)
(* is what the database holds next; between two flushes the database does  *)
(* not move, and a restarted process sees exactly what the database holds. *)
(* Flush keeps that promise although it writes only the rows that changed. *)
(* A process that lost a write (a transaction failed, stop() overtook the  *)
(* worker) promises nothing any more; the next one does.                   *)
(***************************************************************************)
CONSTANT Empty     \* the statistics of a process that has seen nothing

VARIABLES
    memory,    \* the statistics in memory
    taken,     \* the copy that was taken last
    disk,      \* what the database holds
    lapsed     \* whether this process has lost a write

vars == <<memory, taken, disk, lapsed>>

Init == memory = Empty /\ taken = Empty /\ disk = Empty /\ lapsed = FALSE

\* Traffic, probes, a reset or an eviction change memory and nothing else.
Change == UNCHANGED <<taken, disk, lapsed>>

\* A flush copies memory, the worker thread writes that copy.
Take == taken' = memory /\ UNCHANGED <<memory, disk, lapsed>>
Land == disk' = taken /\ UNCHANGED <<memory, taken, lapsed>>

\* The flush of stop(), copied and written at once.
SaveNow == taken' = memory /\ disk' = memory /\ UNCHANGED <<memory, lapsed>>

\* The process ends, for whatever reason, and another one loads the database.
Restart == memory' = disk /\ taken' = disk /\ lapsed' = FALSE /\ UNCHANGED disk

\* A write is lost, and nothing is promised until the next process.
Lapse == lapsed' = TRUE

Next == Change \/ Take \/ Land \/ SaveNow \/ Restart \/ Lapse

Spec == Init /\ [][Next]_vars
=============================================================================
