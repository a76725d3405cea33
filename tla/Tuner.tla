-------------------------------- MODULE Tuner --------------------------------
(***************************************************************************)
(* The automatic tuner of the cost weights (auto_squid/tuner.py) and the   *)
(* two endpoints that reach it, POST /cost and POST /tuner                 *)
(* (auto_squid/api.py).                                                    *)
(*                                                                         *)
(* A loop task judges, once per window, the weights on trial against the   *)
(* baseline, and goes on to the next trial.  The operator switches it off  *)
(* and on, which cancels the loop and awaits its end, and sets weights by  *)
(* hand.  Means, success rates and which perturbation comes next are free  *)
(* choices; vectors of weights are model values.                           *)
(***************************************************************************)
EXTENDS Naturals, Sequences, FiniteSets, SequencesExt

CONSTANTS
    Weights,        \* vectors of weights
    Bounded,        \* those within _WEIGHT_BOUNDS
    Config,         \* the weights of the configuration
    Loops,          \* identities of loop tasks, one used again when it is gone
    None,
    MinSamples,     \* min_samples
    MaxExtensions,  \* _MAX_EXTENSIONS
    Remeasure,      \* _BASELINE_REMEASURE_EVERY
    MaxCalls        \* bound: calls of POST /tuner under way together

ASSUME TunerAssumption ==
    /\ Bounded \subseteq Weights /\ Config \in Bounded
    /\ None \notin Weights \cup Loops
    /\ {MinSamples, Remeasure} \subseteq Nat \ {0}
    /\ {MaxExtensions, MaxCalls} \subseteq Nat

VARIABLES
    enabled,   \* the switch
    weights,   \* those that the selector sorts by
    baseline,  \* baseline: its weights, or None
    pending,   \* pending_baseline
    counts,    \* samples, extensions and the trials since the last measurement
    loop,      \* loop[l]: "none", "sleeping", "cancelled" or "done"
    task,      \* _task: a loop or None
    calls,     \* POST /tuner that await the end of a loop, in that order
    saved,     \* the row of tuner_state: weights or None
    hand       \* not in the code: weights set by hand and not measured since

tunerVars == <<enabled, weights, baseline, pending, counts, loop, task, calls, saved, hand>>
choices == <<enabled, weights, baseline, pending, counts, saved, hand>>
tasks == <<loop, task, calls>>

Empty == [n |-> 0, extensions |-> 0, since |-> 0]

\* A row of tuner_state is restored unless it lies outside the bounds.
Restored(row) == IF row \in Bounded THEN row ELSE None
Starting(row) == IF row \in Bounded THEN row ELSE Config
Running(l) == [k \in Loops |-> IF k = l THEN "sleeping" ELSE "none"]

TunerInit ==
    /\ enabled = TRUE
    /\ baseline = None /\ weights = Config
    /\ pending = FALSE /\ counts = Empty /\ hand = None
    /\ saved = None
    /\ task \in Loops /\ loop = Running(task) /\ calls = <<>>

-----------------------------------------------------------------------------
(* Samples and the judgement at the end of a window.                        *)

Sample ==
    /\ enabled
    /\ counts.n < MinSamples
    /\ counts' = [counts EXCEPT !.n = @ + 1]
    /\ UNCHANGED <<enabled, weights, baseline, pending, saved, hand, tasks>>

\* _next_trial moves one weight within its bounds, or stays.
Trials(base) == {w \in Weights : base \in Bounded => w \in Bounded}

ExtendOrDiscard ==
    /\ counts.n < MinSamples
    /\ counts' = IF counts.extensions < MaxExtensions
                 THEN [counts EXCEPT !.extensions = @ + 1]
                 ELSE [Empty EXCEPT !.since = counts.since]
    /\ UNCHANGED <<enabled, weights, baseline, pending, saved, hand>>

Measures == pending \/ baseline = None \/ counts.since >= Remeasure

Measure ==
    /\ counts.n >= MinSamples
    /\ Measures
    /\ baseline' = weights
    /\ pending' = FALSE
    /\ counts' = Empty
    /\ weights' \in Trials(weights)
    /\ hand' = None
    /\ UNCHANGED <<enabled, saved>>

\* Adopted: the trial is the baseline from now on, and saved; that the row
\* cannot be written is logged only.
Adopt ==
    /\ counts.n >= MinSamples
    /\ ~Measures
    /\ baseline' = weights
    /\ saved' \in {saved, weights}
    /\ weights' \in Trials(weights)
    /\ counts' = [Empty EXCEPT !.since = counts.since + 1]
    /\ UNCHANGED <<enabled, pending, hand>>

\* Worse, or within the noise: the next trial starts from the baseline.
Reject ==
    /\ counts.n >= MinSamples
    /\ ~Measures
    /\ weights' \in Trials(baseline)
    /\ counts' = [Empty EXCEPT !.since = counts.since + 1]
    /\ UNCHANGED <<enabled, baseline, pending, saved, hand>>

\* A loop that was cancelled ends instead.
Cycle(l) ==
    /\ loop[l] = "sleeping"
    /\ ExtendOrDiscard \/ Measure \/ Adopt \/ Reject
    /\ UNCHANGED tasks

-----------------------------------------------------------------------------
(* The operator.                                                            *)

PostCostUnseen(w) ==                                    \* mutant: the tuner is not told
    /\ weights' = w
    /\ hand' = IF enabled THEN w ELSE None
    /\ UNCHANGED <<enabled, baseline, pending, counts, saved, tasks>>
PostCost(w) ==
    /\ weights' = w
    /\ pending' = (pending \/ enabled)
    /\ hand' = IF enabled THEN w ELSE None
    /\ UNCHANGED <<enabled, baseline, counts, saved, tasks>>

\* start() by the caller of stop(), which left no task: a new loop.
Start(left) ==
    \E l \in Loops :
        /\ left[l] = "none"
        /\ task' = l
        /\ loop' = [left EXCEPT ![l] = "sleeping"]

Switched(on) ==
    /\ enabled' = on
    /\ IF on
       THEN /\ baseline' = None /\ pending' = FALSE /\ counts' = Empty
            /\ UNCHANGED weights
       ELSE /\ weights' = IF baseline = None THEN weights ELSE baseline
            /\ UNCHANGED <<baseline, pending, counts>>
    /\ hand' = None
    /\ UNCHANGED saved

\* A loop that is done and not referred to any more is gone.
Gone(loops, t, queue) ==
    [l \in Loops |-> IF /\ loops[l] = "done" /\ l # t
                        /\ \A i \in DOMAIN queue : queue[i].of # l
                     THEN "none" ELSE loops[l]]

PostLeaving(on) ==                                      \* mutant: off leaves the loop alone
    /\ on # enabled
    /\ Len(calls) < MaxCalls
    /\ Switched(on)
    /\ IF on /\ task = None THEN Start(loop) ELSE UNCHANGED <<loop, task>>
    /\ UNCHANGED calls
\* set_enabled up to its await: the loop of _task, if it runs, is cancelled
\* and its end awaited; otherwise the call goes through.
Post(on) ==
    /\ on # enabled
    /\ Len(calls) < MaxCalls
    /\ Switched(on)
    /\ IF task \in {l \in Loops : loop[l] # "done"}
       THEN /\ loop' = [loop EXCEPT ![task] = "cancelled"]
            /\ calls' = Append(calls, [on |-> on, of |-> task])
            /\ UNCHANGED task
       ELSE /\ IF on THEN Start(Gone(loop, None, calls))
               ELSE task' = None /\ loop' = Gone(loop, None, calls)
            /\ UNCHANGED calls

LoopEnds(l) ==
    /\ loop[l] = "cancelled"
    /\ loop' = [loop EXCEPT ![l] = "done"]
    /\ UNCHANGED <<choices, task, calls>>

\* After the await: _task is emptied, whatever it names by now, and a call
\* that switched on starts a loop if the switch is still on.
Resume(i) ==
    LET queue == RemoveAt(calls, i)
    IN  /\ loop[calls[i].of] = "done"
        /\ \A j \in 1 .. i - 1 : calls[j].of # calls[i].of
        /\ calls' = queue
        /\ IF calls[i].on /\ enabled
           THEN Start(Gone(loop, None, queue))
           ELSE task' = None /\ loop' = Gone(loop, None, queue)
        /\ UNCHANGED choices

\* Killed, or stopped, and started again.
Restart ==
    /\ enabled' = TRUE
    /\ baseline' = Restored(saved) /\ weights' = Starting(saved)
    /\ pending' = FALSE /\ counts' = Empty /\ hand' = None
    /\ UNCHANGED saved
    /\ task' \in Loops /\ loop' = Running(task') /\ calls' = <<>>

TunerNext ==
    \/ Sample
    \/ \E l \in Loops : Cycle(l) \/ LoopEnds(l)
    \/ \E w \in Weights : PostCost(w)
    \/ \E on \in BOOLEAN : Post(on)
    \/ \E i \in DOMAIN calls : Resume(i)
    \/ Restart

TunerSpec == TunerInit /\ [][TunerNext]_tunerVars

-----------------------------------------------------------------------------
(* What must hold.                                                          *)

TunerTypeOK ==
    /\ enabled \in BOOLEAN /\ pending \in BOOLEAN
    /\ weights \in Weights
    /\ {baseline, saved, hand} \subseteq Weights \cup {None}
    /\ counts \in [n : 0 .. MinSamples, extensions : 0 .. MaxExtensions, since : 0 .. Remeasure]
    /\ loop \in [Loops -> {"none", "sleeping", "cancelled", "done"}]
    /\ task \in Loops \cup {None}
    /\ calls \in Seq([on : BOOLEAN, of : Loops])

\* With no call under way the loop of _task runs, and no other, if the switch
\* is on, and none if it is off: switching off and at once on again neither
\* leaves the tuner without a loop nor with one that nobody can stop
\* (set_enabled, stop, start).
SwitchedRight ==
    calls = <<>> =>
        {l \in Loops : loop[l] \in {"sleeping", "cancelled"}} = IF enabled THEN {task} ELSE {}

\* The weights are moved by the operator, by switching and by a restart, and
\* otherwise only by a tuner that is on and, when they were set by hand,
\* has just made those the baseline: a trial or a revert to the baseline of
\* before does not take back what the operator decided (manual_override,
\* _cycle), and a tuner that is off touches nothing.
WeightsMoved ==
    [][weights' # weights =>
          \/ Restart \/ enabled' # enabled \/ \E w \in Weights : PostCost(w)
          \/ enabled /\ (hand # None => baseline' = hand)
      ]_tunerVars
=============================================================================
