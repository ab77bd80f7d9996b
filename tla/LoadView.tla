------------------------------ MODULE LoadView ------------------------------
(***************************************************************************)
(* A producer process and the panel that shows it: the paced workers       *)
(* (Pacing) and the heartbeat (FleetView) are tasks of one gather(), on    *)
(* one clock, and live and die together.                                   *)
(***************************************************************************)
EXTENDS FleetView, Pacing

loadVars == <<vars, paceVars>>

LoadInit == Init /\ PaceInit

\* Time passes for all.
LoadTick ==
    /\ Tick
    /\ IF Alive THEN PaceTick ELSE UNCHANGED paceVars

\* A worker of a process that is up.
Work(w) ==
    /\ Alive
    /\ PaceStep(w)
    /\ UNCHANGED vars

LoadRestart == Restart /\ PaceRestart

LoadNext ==
    \/ LoadTick
    \/ \E w \in Workers : Work(w)
    \/ (Instance \/ Crash \/ Observer) /\ UNCHANGED paceVars
    \/ LoadRestart

LoadSpec == LoadInit /\ [][LoadNext]_loadVars

\* The timers of the heartbeat go off as before; the event loop runs the
\* workers, so that nothing holds up the time.
LoadFairness ==
    /\ WF_loadVars(LoadTick)
    /\ \A w \in Workers : WF_loadVars(Work(w))
    /\ WF_vars(Wake \/ Timeout)
    /\ WF_vars(RecordInstance)
    /\ WF_vars(Snapshot)

LoadFairSpec == LoadSpec /\ LoadFairness

=============================================================================
