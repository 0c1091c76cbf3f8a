---------------------------- MODULE MCServiceControl ----------------------------
(* Bounded instances of ServiceControl for TLC. *)
EXTENDS ServiceControl, TLC

Events(changes, rounds, faults, logins, commands) ==
  [changes |-> changes, rounds |-> rounds, faults |-> faults, logins |-> logins,
   commands |-> commands]

ControlBounds == {Events(1, 1, 1, 1, 1), Events(2, 0, 0, 0, 1), Events(1, 0, 0, 0, 2)}
=============================================================================
