------------------------------ MODULE MCStatistics ------------------------------
(* Bounded instances of Statistics for TLC. *)
EXTENDS Statistics, TLC

Events(changes, falls, uses, snapshots, windows, faults, switches, commands) ==
  [changes |-> changes, falls |-> falls, uses |-> uses, snapshots |-> snapshots,
   windows |-> windows, faults |-> faults, switches |-> switches, commands |-> commands]

\* Estimates beside /auth and resets, windows that end, and loops that are started and
\* stopped: each is a tuple of what may happen in one behaviour.
EstimateBounds == {Events(0, 0, 1, 1, 0, 0, 0, 1), Events(1, 0, 1, 0, 0, 0, 0, 1),
                   Events(0, 1, 1, 1, 0, 0, 0, 0), Events(0, 0, 1, 1, 1, 0, 0, 0)}
TimeBounds == {Events(0, 0, 0, 1, 1, 1, 0, 0)}
LoopBounds == {Events(0, 0, 0, 0, 0, 0, 3, 0), Events(0, 0, 0, 0, 0, 1, 1, 0)}
StatisticsBounds == EstimateBounds \cup TimeBounds \cup LoopBounds
=============================================================================
