-------------------------- MODULE MCDeviceLifecycle --------------------------
(* Small instances of DeviceLifecycle for TLC. *)
EXTENDS DeviceLifecycle, TLC

Symmetry == Permutations(Users) \cup Permutations(Devices) \cup Permutations(Links)
              \cup Permutations(Requests)
=============================================================================
