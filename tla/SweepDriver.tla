----------------------------- MODULE SweepDriver -----------------------------
(***************************************************************************)
(* The benchmark drivers: dist_matrix_driver.py in its three modes and     *)
(* performance_harness/matrix_driver.py.  A driver runs one cell at a      *)
(* time: tear the old stack down, bring a new one up, wait until it is     *)
(* ready, sample it, tear it down, record the result, decide what is next. *)
(*                                                                         *)
(* Docker is external: a command may fail, at once or after doing part of  *)
(* its work.  A driver may be killed and started again.                    *)
(***************************************************************************)
EXTENDS Naturals, Sequences

CONSTANTS
    Modes,        \* of {"matrix", "cells", "brokers", "sweep"}
    Cells,        \* number of cells of a run in the first three modes
    Wall,         \* the host cannot bring a cell beyond this number up
    MaxDeliv,     \* deliveries per second are 0..MaxDeliv
    FailureLimit, \* bound: docker commands that fail, kills, missed samples
    None          \* no stack, no result, nothing reported

ASSUME CellsAssumption == Modes \subseteq {"matrix", "cells", "brokers", "sweep"}
                          /\ Cells \in Nat /\ Wall \in Nat
ASSUME SweepBoundsAssumption == MaxDeliv \in Nat /\ FailureLimit \in Nat
ASSUME NoneAssumption == None \notin Nat /\ None \notin {"keepalive", "fairness", "throughput"}

VARIABLES
    mode,         \* which loop runs the cells
    pc,           \* where the driver is
    cell,         \* number of the cell it is at, counting from 1
    res,          \* what run_cell measured, None if it failed
    results,      \* the results kept in memory
    file,         \* the results in the results file
    peak,         \* highest delivery rate so far
    lows,         \* low_streak
    ceiling,      \* the ceiling a sweep reports
    stack,        \* cell whose containers exist
    volumes,      \* cells whose data is in the volumes
    failedDown,   \* history: the last down failed
    failures      \* bounded disturbances so far

loopVars == <<mode, cell, results, file, peak, lows, ceiling>>
dockerVars == <<stack, volumes, failedDown>>
sweepVars == <<loopVars, pc, res, dockerVars, failures>>

SweepInit ==
    /\ mode \in Modes
    /\ pc = "build"
    /\ cell = 1
    /\ res = None
    /\ results = <<>>
    /\ file = <<>>
    /\ peak = 0
    /\ lows = 0
    /\ ceiling = None
    /\ stack = None
    /\ volumes = {}
    /\ failedDown = FALSE
    /\ failures = 0

Fail ==
    /\ failures < FailureLimit
    /\ failures' = failures + 1

-----------------------------------------------------------------------------
(* docker compose *)

\* down -v removes containers and volumes; it may fail, having removed the
\* containers or not.  Its exit code is ignored everywhere.
ComposeDown ==
    \/ /\ stack' = None
       /\ volumes' = {}
       /\ failedDown' = FALSE
       /\ UNCHANGED failures
    \/ /\ Fail
       /\ stack # None \/ volumes # {}
       /\ stack' \in {stack, None}
       /\ failedDown' = TRUE
       /\ UNCHANGED volumes

\* The first command; if it fails the driver dies.
Build ==
    /\ pc = "build"
    /\ \/ pc' = "next" /\ UNCHANGED failures
       \/ pc' = "dead" /\ Fail
    /\ UNCHANGED <<loopVars, res, dockerVars>>

-----------------------------------------------------------------------------
(* run_cell *)

\* The next cell of the mode, until a list of cells is exhausted.
NextCell ==
    /\ pc = "next"
    /\ mode = "sweep" \/ cell <= Cells
    /\ pc' = "teardown"
    /\ res' = None
    /\ UNCHANGED <<loopVars, dockerVars, failures>>

\* Mutant: the containers go, the volumes stay.
TearDownKeepsVolumes ==
    /\ pc = "teardown"
    /\ stack' = None
    /\ failedDown' = FALSE
    /\ pc' = "up"
    /\ UNCHANGED <<loopVars, res, volumes, failures>>

\* teardown: down, then wait, a bounded time, for the containers to go.
TearDown ==
    /\ pc = "teardown"
    /\ ComposeDown
    /\ pc' = "up"
    /\ UNCHANGED <<loopVars, res>>

\* What is still there is scaled to the new cell and keeps its volumes.  A
\* failure of up kills the driver and leaves what was started.
Up ==
    /\ pc = "up"
    /\ stack' = cell
    /\ volumes' = volumes \cup {cell}
    /\ \/ pc' = "wait" /\ UNCHANGED failures
       \/ pc' = "dead" /\ Fail
    /\ UNCHANGED <<loopVars, res, failedDown>>

\* wait_ready and wait_metrics.
WaitReady ==
    /\ pc = "wait"
    /\ \/ cell <= Wall /\ pc' = "sample" /\ UNCHANGED failures
       \/ cell <= Wall /\ pc' = "down" /\ Fail
       \/ cell > Wall /\ pc' = "down" /\ UNCHANGED failures
    /\ UNCHANGED <<loopVars, res, dockerVars>>

\* Two scrapes; if either gives nothing there is no result.  The ack ratio is
\* below 0.85, or not, or unknown since nothing was delivered.
Sample ==
    /\ pc = "sample"
    /\ \/ \E ack \in {"ok", "low", "none"}, deliv \in 0..MaxDeliv :
            /\ ack = "none" <=> deliv = 0
            /\ res' = [cell |-> cell, ack |-> ack, deliv |-> deliv]
            /\ UNCHANGED failures
       \/ Fail /\ UNCHANGED res
    /\ pc' = "down"
    /\ UNCHANGED <<loopVars, dockerVars>>

\* Every return of run_cell tears the stack down first.
CellDown ==
    /\ pc = "down"
    /\ ComposeDown
    /\ pc' = "record"
    /\ UNCHANGED <<loopVars, res>>

-----------------------------------------------------------------------------
(* The loops around it *)

\* A result is kept and the whole file written anew.
RecordResult ==
    /\ pc = "record"
    /\ res # None
    /\ results' = Append(results, res)
    /\ file' = results'
    /\ pc' = "decide"
    /\ UNCHANGED <<mode, cell, peak, lows, ceiling, res, dockerVars, failures>>

\* Mutant: a sweep tries a failed cell again.
NoResultRetries ==
    /\ pc = "record"
    /\ res = None
    /\ cell' = IF mode = "sweep" THEN cell ELSE cell + 1
    /\ pc' = "next"
    /\ UNCHANGED <<mode, results, file, peak, lows, ceiling, res, dockerVars, failures>>

\* A cell without result is skipped; a sweep ends there, and says so.
NoResult ==
    /\ pc = "record"
    /\ res = None
    /\ IF mode = "sweep"
          THEN /\ ceiling' = "keepalive"
               /\ pc' = "done"
               /\ UNCHANGED cell
          ELSE /\ cell' = cell + 1
               /\ pc' = "next"
               /\ UNCHANGED ceiling
    /\ UNCHANGED <<mode, results, file, peak, lows, res, dockerVars, failures>>

DecideList ==
    /\ pc = "decide"
    /\ mode # "sweep"
    /\ cell' = cell + 1
    /\ pc' = "next"
    /\ UNCHANGED <<mode, results, file, peak, lows, ceiling, res, dockerVars, failures>>

\* Mutant: the streak of low cells is not reset by a good one.
DecideSweepNoReset ==
    /\ pc = "decide"
    /\ mode = "sweep"
    /\ peak' = IF res.deliv > peak THEN res.deliv ELSE peak
    /\ lows' = IF res.ack # "low" /\ 10 * res.deliv < 6 * peak' THEN lows + 1 ELSE lows
    /\ \/ res.ack = "low" /\ ceiling' = "fairness"
       \/ res.ack # "low" /\ lows' >= 2
            /\ ceiling' = "throughput"
       \/ res.ack # "low" /\ lows' < 2 /\ UNCHANGED ceiling
    /\ IF ceiling' = ceiling THEN pc' = "next" /\ cell' = cell + 1
                           ELSE pc' = "done" /\ UNCHANGED cell
    /\ UNCHANGED <<mode, results, file, res, dockerVars, failures>>

\* The stop rules of sweep_88: a low ack ratio, or two cells in a row that
\* deliver less than 60% of the peak.
DecideSweep ==
    /\ pc = "decide"
    /\ mode = "sweep"
    /\ peak' = IF res.deliv > peak THEN res.deliv ELSE peak
    /\ lows' = IF res.ack = "low" THEN lows
               ELSE IF 10 * res.deliv < 6 * peak' THEN lows + 1 ELSE 0
    /\ \/ res.ack = "low" /\ ceiling' = "fairness"
       \/ res.ack # "low" /\ lows' >= 2
            /\ ceiling' = "throughput"
       \/ res.ack # "low" /\ lows' < 2 /\ UNCHANGED ceiling
    /\ IF ceiling' = ceiling THEN pc' = "next" /\ cell' = cell + 1
                           ELSE pc' = "done" /\ UNCHANGED cell
    /\ UNCHANGED <<mode, results, file, res, dockerVars, failures>>

\* A list of cells is exhausted.
Exhausted ==
    /\ pc = "next"
    /\ mode # "sweep" /\ cell > Cells
    /\ IF mode = "brokers" THEN UNCHANGED <<dockerVars, failures>> ELSE ComposeDown
    /\ pc' = "done"
    /\ UNCHANGED <<loopVars, res>>

\* The driver is interrupted, wherever it is; containers go on.
Kill ==
    /\ pc \notin {"done", "dead"}
    /\ Fail
    /\ pc' = "dead"
    /\ UNCHANGED <<loopVars, res, dockerVars>>

\* It is started again, in the same mode: same files, empty memory.
Rerun ==
    /\ pc \in {"done", "dead"}
    /\ Fail
    /\ pc' = "build"
    /\ cell' = 1
    /\ res' = None
    /\ results' = <<>>
    /\ peak' = 0
    /\ lows' = 0
    /\ ceiling' = None
    /\ UNCHANGED <<mode, file, dockerVars>>

-----------------------------------------------------------------------------

Driver ==
    \/ Build \/ NextCell \/ TearDown \/ Up \/ WaitReady \/ Sample \/ CellDown
    \/ RecordResult \/ NoResult \/ DecideList \/ DecideSweep \/ Exhausted

SweepNext == Driver \/ Kill \/ Rerun

SweepSpec == SweepInit /\ [][SweepNext]_sweepVars

\* The driver is a sequential program whose waits all have a limit.
FairSweepSpec == SweepSpec /\ WF_sweepVars(Driver)

-----------------------------------------------------------------------------
(* Properties *)

\* Between cells and at the end of a run no stack and no data are left, by
\* whichever return run_cell was left, unless docker itself failed to remove
\* them.  (A driver that dies leaves its stack: pc is "dead" then.)
CleanBetweenCells ==
    pc \in {"record", "decide", "done"} =>
        failedDown \/ (stack = None /\ volumes = {})

\* "Cells run one at a time (fresh stack, down -v between)": what is sampled
\* holds no data of another cell, also after a run that died, unless docker
\* failed to remove it; and nothing is left of a cell when it is over.
SeparateCells ==
    /\ pc = "sample" => stack = cell /\ (failedDown \/ volumes = {cell})
    /\ CleanBetweenCells

\* The ceilings as sweep_88's docstring defines them, of the first n results: a
\* cell delivers less than 60% of the peak if of some cell up to it.
Collapsed(rs, n) == \E i \in 1..n : 10 * rs[n].deliv < 6 * rs[i].deliv
AtCeiling(rs, n) ==
    \/ n >= 1 /\ rs[n].ack = "low"
    \/ n >= 2 /\ Collapsed(rs, n) /\ Collapsed(rs, n - 1)

\* A sweep stops at the first ceiling it hits, and at nothing else.
StopsAtFirstCeiling ==
    mode = "sweep" =>
        /\ \A n \in 1..(Len(results) - 1) : ~AtCeiling(results, n)
        /\ pc = "next" => ~AtCeiling(results, Len(results))
        /\ pc = "done" => ceiling = "keepalive" \/ AtCeiling(results, Len(results))

\* Each run ends, a sweep without a cap on the cells too: the host has a wall.
RunEnds == <>[](pc \in {"done", "dead"})

=============================================================================
