----------------------------- MODULE MCUsageLedger -----------------------------
(* The symmetry and the bounds of UsageLedger, for model checking. *)
EXTENDS UsageLedger, TLC

Symmetry == Permutations(Users) \cup Permutations(Devices) \cup Permutations(Runners)
\* How many faults and sampling callbacks a behaviour may have.
Undisturbed == {[faults |-> 0, callbacks |-> 0]}
OneFault == {[faults |-> 1, callbacks |-> 0]}
FaultOrCallbacks == OneFault \cup {[faults |-> 0, callbacks |-> 2]}
=============================================================================
