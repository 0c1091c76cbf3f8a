--------------------------- MODULE MCQuotaEnforcement ---------------------------
(* The symmetry and the bounds of QuotaEnforcement, for model checking. *)
EXTENDS QuotaEnforcement, TLC

Symmetry == Permutations(Users) \cup Permutations(Keys)

Bound(halves, auths, changed, failed, entries) ==
  [clock |-> halves, auths |-> auths, changes |-> changed, faults |-> failed, entries |-> entries]

\* One user: two changes and a fault in a round, a change across two rounds, or a
\* second authorization and an adjustment in a round.
OneUser == {Bound(2, 1, 2, 1, 0), Bound(3, 1, 1, 0, 0), Bound(2, 2, 0, 0, 1)}
\* Two users: a round and a half, a fault in a round, a transfer or an adjustment
\* beside a device in use, two of them around a stop or a new limit, or one around the
\* limit of a new round.
TwoUsers ==
  {Bound(3, 1, 0, 0, 0), Bound(2, 1, 0, 1, 0), Bound(1, 1, 0, 0, 1), Bound(1, 0, 1, 0, 2),
   Bound(3, 0, 1, 0, 1)}
=============================================================================
