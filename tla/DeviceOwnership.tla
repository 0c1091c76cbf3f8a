--------------------------- MODULE DeviceOwnership ---------------------------
(***************************************************************************)
(* What the association table promises, without links, POSTs or retries:   *)
(* every user has one slot.  A slot waits for a device, holds it, or lets  *)
(* it go; a device sits in at most one slot, and leaves it only through    *)
(* a release.                                                              *)
(***************************************************************************)
CONSTANTS Users, Devices, None

VARIABLE slot

Phases == {"free", "pending", "held", "releasing"}
Free == [phase |-> "free", device |-> None]

Untaken(d) == \A u \in Users : slot[u].device # d
Turn(u, from, to) ==
  slot[u].phase = from /\ slot' = [slot EXCEPT ![u].phase = to]

Init == slot = [u \in Users |-> Free]

Claim(u) == Turn(u, "free", "pending")
Drop(u) == Turn(u, "pending", "free")

\* A pending slot gets its device, or a free one adopts a device.
Take(u, d) ==
  /\ slot[u].phase \in {"free", "pending"}
  /\ Untaken(d)
  /\ slot' = [slot EXCEPT ![u] = [phase |-> "held", device |-> d]]

StartRelease(u) == Turn(u, "held", "releasing")
Keep(u) == Turn(u, "releasing", "held")
Release(u) == slot[u].phase = "releasing" /\ slot' = [slot EXCEPT ![u] = Free]

Next ==
  \E u \in Users :
    /\ slot'[u] # slot[u]
    /\ \/ Claim(u) \/ Drop(u) \/ StartRelease(u) \/ Keep(u) \/ Release(u)
       \/ \E d \in Devices : Take(u, d)

Spec == Init /\ [][Next]_slot
=============================================================================
