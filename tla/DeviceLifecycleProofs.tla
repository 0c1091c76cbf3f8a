----------------------- MODULE DeviceLifecycleProofs -----------------------
(***************************************************************************)
(* Type correctness and safety of DeviceLifecycle for any number of users, *)
(* devices, links, commands and background loops, and any bounds.          *)
(***************************************************************************)
EXTENDS DeviceLifecycle, TLAPS

AuthPlaces == {"describe", "abort", "approve", "approving", "authFailed"}
RevokePlaces == {"armRevoke", "revoke", "revoking", "list", "confirmed", "markUnknown"}
AdminPlaces == {"adminList", "adminCommit"}

\* A call at a step of a saga names rows that exist.
CallNamesRows(p) ==
  /\ call[p].step \in AuthPlaces =>
       call[p].link \in Links /\ authAction[call[p].link] \in AuthRow
  /\ call[p].step \in RevokePlaces =>
       /\ call[p].revoke \in RevokeIds /\ revokeAction[call[p].revoke] \in RevokeRow
       /\ call[p].reason \in RevokeReasons
  /\ call[p].step \in AdminPlaces => call[p].user \in Users /\ call[p].device \in Devices

\* Only an association with a device can be revoked or be active.
HeldHasDevice ==
  \A a \in AssociationIds :
    association[a].state \in {"ACTIVE", "PENDING_REVOKE"} => association[a].device \in Devices

GrantNamesDevice == \A l \in Links : approval[l] = "granted" => granted[l] \in Devices

TypeInv ==
  /\ TypeOK
  /\ \A p \in Processes : CallNamesRows(p)
  /\ HeldHasDevice
  /\ GrantNamesDevice

LEMMA InitType == Init => TypeInv
BY BoundAssumption, NoneAssumption
DEF Init, TypeInv, TypeOK, CallNamesRows, HeldHasDevice, GrantNamesDevice, AssociationRow,
    NoAssociation, Call, Idle, NoAuth, NoRevoke, AuthPlaces, RevokePlaces, AdminPlaces, States,
    Steps, PostStates



-----------------------------------------------------------------------------
(* Steps of the type invariant. *)

\* Rows are written, never removed.
RowsPersist ==
  /\ \A l \in Links : authAction[l] \in AuthRow => authAction'[l] \in AuthRow
  /\ \A r \in RevokeIds : revokeAction[r] \in RevokeRow => revokeAction'[r] \in RevokeRow

\* A step of one process leaves the other calls where they are.
LEMMA OthersKeepTheirRows ==
  ASSUME NEW p \in Processes, TypeInv, RowsPersist, CallNamesRows(p)',
         \A q \in Processes \ {p} : call'[q] = call[q]
  PROVE  \A q \in Processes : CallNamesRows(q)'
BY DEF TypeInv, CallNamesRows, RowsPersist

\* What the steps write into a row leaves it a row.
LEMMA AssociationEdit ==
  ASSUME NEW a \in AssociationIds, NEW state \in States, NEW reason \in Reasons \cup {None}, TypeOK
  PROVE  /\ [association EXCEPT ![a].state = state] \in [AssociationIds -> AssociationRow]
         /\ [association EXCEPT ![a].state = state, ![a].reason = reason]
              \in [AssociationIds -> AssociationRow]
<1>1. association \in [AssociationIds -> AssociationRow]
  BY DEF TypeOK
<1> QED BY <1>1 DEF AssociationRow

LEMMA AssociationTakesDevice ==
  ASSUME NEW a \in AssociationIds, NEW d \in Devices, TypeOK
  PROVE  [association EXCEPT ![a].state = "ACTIVE", ![a].device = d]
           \in [AssociationIds -> AssociationRow]
<1>1. association \in [AssociationIds -> AssociationRow]
  BY DEF TypeOK
<1> QED BY <1>1 DEF AssociationRow, States

LEMMA AuthEdit ==
  ASSUME NEW l \in Links, TypeOK, authAction[l] \in AuthRow, NEW status \in Statuses,
         NEW target \in Devices \cup {None}
  PROVE  /\ [authAction[l] EXCEPT !.status = status] \in AuthRow
         /\ [authAction[l] EXCEPT !.status = status, !.target = target] \in AuthRow
BY DEF AuthRow

LEMMA AuthAttempt ==
  ASSUME NEW l \in Links, authAction[l] \in AuthRow
  PROVE  [authAction[l] EXCEPT !.attempt = 1] \in AuthRow
BY DEF AuthRow

LEMMA MarkAuthUnknownType ==
  ASSUME NEW l \in Links, NEW target \in Devices \cup {None}, TypeInv, authAction[l] \in AuthRow,
         MarkAuthUnknown(l, target)
  PROVE  /\ association' \in [AssociationIds -> AssociationRow]
         /\ authAction' \in [Links -> AuthRow \cup {NoAuth}]
         /\ \A k \in Links : authAction[k] \in AuthRow => authAction'[k] \in AuthRow
         /\ HeldHasDevice'
<1>1. TypeOK /\ HeldHasDevice
  BY DEF TypeInv
<1>2. authAction[l].assoc \in AssociationIds
  BY DEF AuthRow
<1>3. association' \in [AssociationIds -> AssociationRow]
  BY <1>1, <1>2, AssociationEdit DEF MarkAuthUnknown, Doubted, States, TypeOK
<1>4. HeldHasDevice'
  BY <1>1, <1>2 DEF HeldHasDevice, MarkAuthUnknown, Doubted, TypeOK
<1>5. authAction' \in [Links -> AuthRow \cup {NoAuth}]
  BY <1>1, AuthEdit DEF MarkAuthUnknown, TypeOK, Statuses
<1>6. ASSUME NEW k \in Links, authAction[k] \in AuthRow PROVE authAction'[k] \in AuthRow
  BY <1>1, <1>6, AuthEdit DEF MarkAuthUnknown, TypeOK, Statuses
<1> QED BY <1>3, <1>4, <1>5, <1>6


LEMMA MarkAuthFailedType ==
  ASSUME NEW l \in Links, TypeInv, authAction[l] \in AuthRow, MarkAuthFailed(l)
  PROVE  /\ association' \in [AssociationIds -> AssociationRow]
         /\ authAction' \in [Links -> AuthRow \cup {NoAuth}]
         /\ \A k \in Links : authAction[k] \in AuthRow => authAction'[k] \in AuthRow
         /\ HeldHasDevice'
<1>1. TypeOK /\ HeldHasDevice
  BY DEF TypeInv
<1>2. authAction[l].assoc \in AssociationIds
  BY DEF AuthRow
<1>3. association' \in [AssociationIds -> AssociationRow]
  BY <1>1, <1>2, AssociationEdit DEF MarkAuthFailed, Ended, States, Reasons, TypeOK
<1>4. HeldHasDevice'
  BY <1>1, <1>2 DEF HeldHasDevice, MarkAuthFailed, Ended, TypeOK
<1>5. authAction' \in [Links -> AuthRow \cup {NoAuth}]
  BY <1>1, AuthEdit DEF MarkAuthFailed, TypeOK, Statuses
<1>6. ASSUME NEW k \in Links, authAction[k] \in AuthRow PROVE authAction'[k] \in AuthRow
  BY <1>1, <1>6, AuthEdit DEF MarkAuthFailed, TypeOK, Statuses
<1> QED BY <1>3, <1>4, <1>5, <1>6

LEMMA RevokeEdit ==
  ASSUME NEW r \in RevokeIds, TypeOK, revokeAction[r] \in RevokeRow, NEW status \in Statuses
  PROVE  [revokeAction[r] EXCEPT !.status = status] \in RevokeRow
BY DEF RevokeRow

LEMMA RevokeAttempt ==
  ASSUME NEW r \in RevokeIds, revokeAction[r] \in RevokeRow
  PROVE  [revokeAction[r] EXCEPT !.attempt = 1] \in RevokeRow
BY DEF RevokeRow

LEMMA MarkRevokeUnknownType ==
  ASSUME NEW r \in RevokeIds, TypeInv, revokeAction[r] \in RevokeRow, MarkRevokeUnknown(r)
  PROVE  /\ association' \in [AssociationIds -> AssociationRow]
         /\ revokeAction' \in [RevokeIds -> RevokeRow \cup {NoRevoke}]
         /\ \A k \in RevokeIds : revokeAction[k] \in RevokeRow => revokeAction'[k] \in RevokeRow
         /\ HeldHasDevice'
<1>1. TypeOK /\ HeldHasDevice
  BY DEF TypeInv
<1>2. revokeAction[r].assoc \in AssociationIds
  BY DEF RevokeRow
<1>3. association' \in [AssociationIds -> AssociationRow]
  BY <1>1, <1>2, AssociationEdit DEF MarkRevokeUnknown, Doubted, States, TypeOK
<1>4. HeldHasDevice'
  BY <1>1, <1>2 DEF HeldHasDevice, MarkRevokeUnknown, Doubted, TypeOK
<1>5. revokeAction' \in [RevokeIds -> RevokeRow \cup {NoRevoke}]
  BY <1>1, RevokeEdit DEF MarkRevokeUnknown, TypeOK, Statuses
<1>6. ASSUME NEW k \in RevokeIds, revokeAction[k] \in RevokeRow PROVE revokeAction'[k] \in RevokeRow
  BY <1>1, <1>6, RevokeEdit DEF MarkRevokeUnknown, TypeOK, Statuses
<1> QED BY <1>3, <1>4, <1>5, <1>6

LEMMA WithdrawType ==
  ASSUME NEW r \in RevokeIds, TypeInv, revokeAction[r] \in RevokeRow, Unarmed(r), Withdraw(r)
  PROVE  /\ association' \in [AssociationIds -> AssociationRow]
         /\ revokeAction' \in [RevokeIds -> RevokeRow \cup {NoRevoke}]
         /\ \A k \in RevokeIds : revokeAction[k] \in RevokeRow => revokeAction'[k] \in RevokeRow
         /\ HeldHasDevice'
<1>1. TypeOK /\ HeldHasDevice
  BY DEF TypeInv
<1>2. revokeAction[r].assoc \in AssociationIds
  BY DEF RevokeRow
<1>3. association' \in [AssociationIds -> AssociationRow]
  BY <1>1, <1>2, AssociationEdit DEF Withdraw, States
<1>4. HeldHasDevice'
  BY <1>1, <1>2 DEF HeldHasDevice, Withdraw, Unarmed, TypeOK
<1>5. revokeAction' \in [RevokeIds -> RevokeRow \cup {NoRevoke}]
  BY <1>1, RevokeEdit DEF Withdraw, TypeOK, Statuses
<1>6. ASSUME NEW k \in RevokeIds, revokeAction[k] \in RevokeRow PROVE revokeAction'[k] \in RevokeRow
  BY <1>1, <1>6, RevokeEdit DEF Withdraw, TypeOK, Statuses
<1> QED BY <1>3, <1>4, <1>5, <1>6

LEMMA MoveType ==
  ASSUME NEW p \in Processes, NEW step \in Steps, TypeOK, Move(p, step)
  PROVE  /\ call' \in [Processes -> Call]
         /\ \A q \in Processes \ {p} : call'[q] = call[q]
         /\ call'[p] = [call[p] EXCEPT !.step = step]
         /\ call'[p].step = step
         /\ call'[p].link = call[p].link /\ call'[p].revoke = call[p].revoke
         /\ call'[p].user = call[p].user /\ call'[p].device = call[p].device
         /\ call'[p].reason = call[p].reason
<1>1. call \in [Processes -> Call]
  BY DEF TypeOK
<1> QED BY <1>1 DEF Move, Call

LEMMA ReturnType ==
  ASSUME NEW p \in Processes, TypeOK, Return(p)
  PROVE  /\ call' \in [Processes -> Call]
         /\ \A q \in Processes \ {p} : call'[q] = call[q]
         /\ CallNamesRows(p)'
<1>1. call \in [Processes -> Call]
  BY DEF TypeOK
<1>2. Idle \in Call
  BY DEF Idle, Call, Steps
<1>3. call'[p] = Idle
  BY <1>1 DEF Return
<1> QED BY <1>1, <1>2, <1>3 DEF Return, CallNamesRows, Idle, AuthPlaces, RevokePlaces, AdminPlaces

\* What a step of one process has to establish when it leaves the platform alone.
LEMMA LocalStepType ==
  ASSUME NEW p \in Processes, TypeInv,
         association' \in [AssociationIds -> AssociationRow],
         authAction' \in [Links -> AuthRow \cup {NoAuth}],
         revokeAction' \in [RevokeIds -> RevokeRow \cup {NoRevoke}],
         nextAssociation' \in 1 .. MaxAssociations + 1, nextRevoke' \in 1 .. MaxRevokes + 1,
         deviceRow' \in [Devices -> {"absent", "live", "revoked"}],
         call' \in [Processes -> Call], managed' \subseteq Devices, disturbed' \subseteq Devices,
         UNCHANGED <<authorized, approval, revocation, granted, approvalsSent, revokesSent>>,
         faults' \in 0 .. MaxFaults,
         RowsPersist, HeldHasDevice', CallNamesRows(p)',
         \A q \in Processes \ {p} : call'[q] = call[q]
  PROVE  TypeInv'
<1>1. TypeOK'
  BY DEF TypeInv, TypeOK
<1>2. \A q \in Processes : CallNamesRows(q)'
  BY OthersKeepTheirRows
<1>3. GrantNamesDevice'
  BY DEF TypeInv, GrantNamesDevice
<1> QED BY <1>1, <1>2, <1>3 DEF TypeInv

\* A step that only moves one call.
LEMMA CallStepType ==
  ASSUME NEW p \in Processes, TypeInv, UNCHANGED <<database, platform>>, faults' \in 0 .. MaxFaults,
         call' \in [Processes -> Call], CallNamesRows(p)',
         \A q \in Processes \ {p} : call'[q] = call[q]
  PROVE  TypeInv'
<1>1. RowsPersist
  BY DEF database, RowsPersist
<1>2. HeldHasDevice'
  BY DEF database, TypeInv, HeldHasDevice
<1> QED BY <1>1, <1>2, LocalStepType DEF database, platform, TypeInv, TypeOK

-----------------------------------------------------------------------------
(* The type invariant, action by action. *)

LEMMA AuthReserveType ==
  ASSUME NEW p \in Requests, NEW u \in Users, NEW l \in Links, TypeInv, AuthReserve(p, u, l)
  PROVE  TypeInv'
<1> USE BoundAssumption, NoneAssumption DEF AuthReserve, platform, TypeInv
<1>1. nextAssociation \in AssociationIds
  BY DEF TypeOK, AssociationIds
<1>2. association' \in [AssociationIds -> AssociationRow]
  BY <1>1 DEF TypeOK, NoAssociation, AssociationRow, States
<1>3. authAction' \in [Links -> AuthRow \cup {NoAuth}]
  BY <1>1 DEF TypeOK, NoAuth, AuthRow, Statuses
<1>4. call' \in [Processes -> Call]
  BY DEF TypeOK, Call, Idle, Steps, Processes
<1>5. TypeOK'
  BY <1>2, <1>3, <1>4 DEF TypeOK, AssociationIds
<1>6. \A q \in Processes : CallNamesRows(q)'
  <2>1. p \in Processes /\ call \in [Processes -> Call]
    BY DEF TypeOK, Processes
  <2>2. /\ call'[p].step = "describe" /\ call'[p].link = l
        /\ \A q \in Processes \ {p} : call'[q] = call[q]
    BY <2>1 DEF Idle
  <2>3. authAction'[l] \in AuthRow
    BY <1>1 DEF TypeOK, NoAuth, AuthRow, Statuses
  <2>4. RowsPersist
    BY <2>3 DEF RowsPersist, TypeOK
  <2>5. CallNamesRows(p)'
    BY <2>2, <2>3 DEF CallNamesRows, AuthPlaces, RevokePlaces, AdminPlaces
  <2> QED BY <2>1, <2>2, <2>4, <2>5, OthersKeepTheirRows
<1>7. HeldHasDevice'
  BY <1>1 DEF TypeOK, HeldHasDevice, NoAssociation
<1>8. GrantNamesDevice'
  BY DEF GrantNamesDevice
<1> QED BY <1>5, <1>6, <1>7, <1>8

LEMMA AuthReplayType ==
  ASSUME NEW l \in Links, TypeInv, AuthReplay(l)
  PROVE  TypeInv'
<1>1. authAction[l] \in AuthRow /\ authAction[l].target \in Devices \cup {None}
  BY DEF TypeInv, TypeOK, AuthReplay, AuthRow, NoAuth
<1>2. MarkAuthUnknown(l, authAction[l].target)
  BY DEF AuthReplay
<1>3. /\ association' \in [AssociationIds -> AssociationRow]
      /\ authAction' \in [Links -> AuthRow \cup {NoAuth}]
      /\ \A k \in Links : authAction[k] \in AuthRow => authAction'[k] \in AuthRow
      /\ HeldHasDevice'
  BY <1>1, <1>2, MarkAuthUnknownType
<1>4. TypeOK'
  BY <1>3 DEF AuthReplay, platform, TypeInv, TypeOK
<1>5. ASSUME NEW q \in Processes PROVE CallNamesRows(q)'
  BY <1>3 DEF AuthReplay, TypeInv, CallNamesRows
<1>6. GrantNamesDevice'
  BY DEF AuthReplay, platform, TypeInv, GrantNamesDevice
<1> QED BY <1>3, <1>4, <1>5, <1>6 DEF TypeInv

\* A call that moves on to a later step of the same saga, naming the same rows.
LEMMA MoveOnType ==
  ASSUME NEW p \in Processes, NEW step \in Steps, TypeInv, Move(p, step),
         UNCHANGED <<database, platform>>, faults' \in 0 .. MaxFaults,
         \/ step \in AuthPlaces /\ call[p].step \in AuthPlaces
         \/ step \in RevokePlaces /\ call[p].step \in RevokePlaces
         \/ step \in AdminPlaces /\ call[p].step \in AdminPlaces
  PROVE  TypeInv'
<1>1. CallNamesRows(p)
  BY DEF TypeInv
<1>2. TypeOK
  BY DEF TypeInv
<1>3. CallNamesRows(p)'
  BY <1>1, <1>2, MoveType
  DEF CallNamesRows, database, AuthPlaces, RevokePlaces, AdminPlaces
<1> QED BY <1>2, <1>3, MoveType, CallStepType

\* A call that returns.
LEMMA GiveUpType ==
  ASSUME NEW p \in Processes, TypeInv, Return(p), UNCHANGED <<database, platform>>,
         faults' \in 0 .. MaxFaults
  PROVE  TypeInv'
BY ReturnType, CallStepType DEF TypeInv

LEMMA AuthGiveUpType ==
  ASSUME NEW p \in Processes, TypeInv, AuthGiveUp(p)
  PROVE  TypeInv'
BY MoveOnType DEF AuthGiveUp, AuthPlaces, Steps, TypeInv, TypeOK

LEMMA AuthArmType ==
  ASSUME NEW p \in Processes, TypeInv, AuthArm(p)
  PROVE  TypeInv'
<1> DEFINE l == call[p].link
<1>1. TypeOK /\ CallNamesRows(p)
  BY DEF TypeInv
<1>2. l \in Links /\ authAction[l] \in AuthRow
  BY <1>1 DEF AuthArm, CallNamesRows, AuthPlaces
<1>3. authAction' = [authAction EXCEPT ![l].attempt = 1]
  BY DEF AuthArm
<1>4. authAction' \in [Links -> AuthRow \cup {NoAuth}]
  BY <1>1, <1>2, <1>3, AuthAttempt DEF TypeOK
<1>5. RowsPersist
  BY <1>1, <1>2, <1>3, AuthAttempt DEF TypeOK, RowsPersist, AuthArm
<1>6. Move(p, "approve")
  BY DEF AuthArm
<1>7. /\ call' \in [Processes -> Call]
      /\ \A q \in Processes \ {p} : call'[q] = call[q]
      /\ call'[p].step = "approve" /\ call'[p].link = l
  BY <1>1, <1>6, MoveType DEF Steps
<1>8. CallNamesRows(p)'
  BY <1>2, <1>5, <1>7 DEF CallNamesRows, AuthPlaces, RevokePlaces, AdminPlaces, RowsPersist
<1>9. HeldHasDevice'
  BY DEF TypeInv, HeldHasDevice, AuthArm
<1> QED BY <1>1, <1>4, <1>5, <1>7, <1>8, <1>9, LocalStepType DEF AuthArm, platform, TypeOK

\* A call that records an outcome in its AUTH rows and returns.
LEMMA AuthOutcomeType ==
  ASSUME NEW p \in Processes, TypeInv, Return(p), call[p].step \in AuthPlaces,
         NEW target \in Devices \cup {None},
         \/ UNCHANGED <<authAction, association>>
         \/ MarkAuthUnknown(call[p].link, target)
         \/ MarkAuthFailed(call[p].link),
         UNCHANGED <<revokeAction, nextAssociation, nextRevoke, deviceRow, platform, faults>>
  PROVE  TypeInv'
<1> DEFINE l == call[p].link
<1>1. TypeOK /\ CallNamesRows(p)
  BY DEF TypeInv
<1>2. l \in Links /\ authAction[l] \in AuthRow
  BY <1>1 DEF CallNamesRows
<1>3. /\ association' \in [AssociationIds -> AssociationRow]
      /\ authAction' \in [Links -> AuthRow \cup {NoAuth}]
      /\ \A k \in Links : authAction[k] \in AuthRow => authAction'[k] \in AuthRow
      /\ HeldHasDevice'
  <2>1. CASE UNCHANGED <<authAction, association>>
    BY <1>1, <2>1 DEF TypeInv, TypeOK, HeldHasDevice
  <2>2. CASE MarkAuthUnknown(l, target)
    BY <1>2, <2>2, MarkAuthUnknownType
  <2>3. CASE MarkAuthFailed(l)
    BY <1>2, <2>3, MarkAuthFailedType
  <2> QED BY <2>1, <2>2, <2>3
<1>4. RowsPersist
  BY <1>3 DEF RowsPersist
<1>5. /\ call' \in [Processes -> Call]
      /\ \A q \in Processes \ {p} : call'[q] = call[q]
      /\ CallNamesRows(p)'
  BY <1>1, ReturnType
<1> QED BY <1>1, <1>3, <1>4, <1>5, LocalStepType DEF platform, TypeOK

LEMMA AuthTarget ==
  ASSUME NEW p \in Processes, TypeInv, call[p].step \in AuthPlaces
  PROVE  /\ authAction[call[p].link].target \in Devices \cup {None}
         /\ granted[call[p].link] \in Devices \cup {None}
         /\ call[p].device \in Devices \cup {None}
<1>1. call[p].link \in Links /\ authAction[call[p].link] \in AuthRow
  BY DEF TypeInv, CallNamesRows
<1>2. call[p] \in Call
  BY DEF TypeInv, TypeOK
<1> QED BY <1>1, <1>2 DEF AuthRow, Call, TypeInv, TypeOK

LEMMA AuthAbortType ==
  ASSUME NEW p \in Processes, TypeInv, AuthAbort(p)
  PROVE  TypeInv'
<1>1. call[p].step \in AuthPlaces /\ Return(p)
  BY DEF AuthAbort, AuthPlaces
<1>2. authAction[call[p].link].target \in Devices \cup {None}
  BY <1>1, AuthTarget
<1> QED BY <1>1, <1>2, AuthOutcomeType DEF AuthAbort

LEMMA ApproveDeniedType ==
  ASSUME NEW p \in Processes, TypeInv, ApproveDenied(p)
  PROVE  TypeInv'
BY AuthOutcomeType DEF ApproveDenied, AuthPlaces

LEMMA ApprovalConflictType ==
  ASSUME NEW p \in Processes, TypeInv, ApprovalConflict(p)
  PROVE  TypeInv'
<1>1. call[p].step \in AuthPlaces /\ Return(p)
  BY DEF ApprovalConflict, AuthPlaces
<1>2. granted[call[p].link] \in Devices \cup {None}
  BY <1>1, AuthTarget
<1> QED BY <1>1, <1>2, AuthOutcomeType DEF ApprovalConflict

LEMMA RecordAuthUnknownType ==
  ASSUME NEW p \in Processes, TypeInv, RecordAuthUnknown(p)
  PROVE  TypeInv'
<1> DEFINE target == IF call[p].device = None THEN authAction[call[p].link].target
                     ELSE call[p].device
<1>1. call[p].step \in AuthPlaces /\ Return(p)
  BY DEF RecordAuthUnknown, AuthPlaces
<1>2. target \in Devices \cup {None}
  BY <1>1, AuthTarget
<1>3. \/ UNCHANGED <<authAction, association>>
      \/ MarkAuthUnknown(call[p].link, target)
  BY DEF RecordAuthUnknown
<1>4. UNCHANGED <<revokeAction, nextAssociation, nextRevoke, deviceRow, platform, faults>>
  BY DEF RecordAuthUnknown
<1> HIDE DEF target
<1> QED BY <1>1, <1>2, <1>3, <1>4, AuthOutcomeType

\* A step of one process that changes only its call and the platform's side.
LEMMA SendApproveType ==
  ASSUME NEW p \in Processes, TypeInv, SendApprove(p)
  PROVE  TypeInv'
<1>1. TypeOK /\ CallNamesRows(p)
  BY DEF TypeInv
<1>2. Move(p, "approving") /\ call[p].step \in AuthPlaces
  BY DEF SendApprove, AuthPlaces
<1>3. /\ call' \in [Processes -> Call]
      /\ \A q \in Processes \ {p} : call'[q] = call[q]
      /\ call'[p].step = "approving" /\ call'[p].link = call[p].link
  BY <1>1, <1>2, MoveType DEF Steps
<1>4. TypeOK'
  <2>1. approval' \in [Links -> PostStates]
    BY <1>1 DEF SendApprove, TypeOK, PostStates
  <2>2. approvalsSent' \in [Links -> Nat]
    <3> DEFINE l == call[p].link
    <3>1. l \in Links
      BY <1>1, <1>2 DEF CallNamesRows
    <3>2. approvalsSent[l] + 1 \in Nat
      BY <1>1, <3>1 DEF TypeOK
    <3>3. approvalsSent' = [approvalsSent EXCEPT ![l] = approvalsSent[l] + 1]
      BY DEF SendApprove
    <3> QED BY <1>1, <3>2, <3>3 DEF TypeOK
  <2> QED BY <1>1, <1>3, <2>1, <2>2 DEF SendApprove, database, TypeOK
<1>5. \A q \in Processes : CallNamesRows(q)'
  <2>1. CallNamesRows(p)'
    BY <1>1, <1>2, <1>3 DEF SendApprove, database, CallNamesRows, AuthPlaces, RevokePlaces,
       AdminPlaces
  <2>2. RowsPersist
    BY DEF SendApprove, database, RowsPersist
  <2> QED BY <1>3, <2>1, <2>2, OthersKeepTheirRows
<1>6. HeldHasDevice' /\ GrantNamesDevice'
  BY <1>1 DEF SendApprove, database, TypeInv, HeldHasDevice, GrantNamesDevice, TypeOK
<1> QED BY <1>4, <1>5, <1>6 DEF TypeInv

LEMMA ApproveRaisesType ==
  ASSUME NEW p \in Processes, TypeInv, ApproveRaises(p)
  PROVE  TypeInv'
BY MoveOnType DEF ApproveRaises, AuthPlaces, Steps, TypeInv, TypeOK

LEMMA FinalizeApprovalType ==
  ASSUME NEW p \in Processes, TypeInv, FinalizeApproval(p)
  PROVE  TypeInv'
<1> DEFINE l == call[p].link
           a == authAction[l].assoc
           d == granted[l]
<1>1. TypeOK /\ CallNamesRows(p) /\ HeldHasDevice /\ GrantNamesDevice
  BY DEF TypeInv
<1>2. l \in Links /\ authAction[l] \in AuthRow
  BY <1>1 DEF FinalizeApproval, CallNamesRows, AuthPlaces
<1>3. a \in AssociationIds /\ d \in Devices
  BY <1>1, <1>2 DEF AuthRow, FinalizeApproval, GrantNamesDevice
<1>4. association' \in [AssociationIds -> AssociationRow]
  BY <1>1, <1>3, AssociationTakesDevice DEF FinalizeApproval
<1>5. HeldHasDevice'
  <2>1. /\ association \in [AssociationIds -> AssociationRow]
        /\ association' = [association EXCEPT ![a].state = "ACTIVE", ![a].device = d]
    BY <1>1 DEF FinalizeApproval, TypeOK
  <2>2. association[a] \in AssociationRow
    BY <1>3, <2>1
  <2>3. association'[a].device = d
    BY <1>3, <2>1, <2>2 DEF AssociationRow
  <2>4. \A b \in AssociationIds \ {a} : association'[b] = association[b]
    BY <1>3, <2>1
  <2> QED BY <1>1, <1>3, <2>3, <2>4 DEF HeldHasDevice
<1>6. [authAction[l] EXCEPT !.status = "SUCCEEDED", !.target = d] \in AuthRow
  BY <1>2, <1>3 DEF AuthRow, Statuses
<1>7. /\ authAction' \in [Links -> AuthRow \cup {NoAuth}]
      /\ \A k \in Links : authAction[k] \in AuthRow => authAction'[k] \in AuthRow
  BY <1>1, <1>2, <1>6 DEF FinalizeApproval, TypeOK
<1>8. deviceRow' \in [Devices -> {"absent", "live", "revoked"}] /\ disturbed' \subseteq Devices
  BY <1>1, <1>3 DEF FinalizeApproval, TypeOK
<1>9. /\ call' \in [Processes -> Call]
      /\ \A q \in Processes \ {p} : call'[q] = call[q]
      /\ CallNamesRows(p)'
  BY <1>1, ReturnType DEF FinalizeApproval
<1>10. RowsPersist
  BY <1>7 DEF RowsPersist, FinalizeApproval
<1> QED BY <1>1, <1>4, <1>5, <1>7, <1>8, <1>9, <1>10, LocalStepType DEF FinalizeApproval, TypeOK

LEMMA FinalizeApprovalFailsType ==
  ASSUME NEW p \in Processes, TypeInv, FinalizeApprovalFails(p)
  PROVE  TypeInv'
<1> DEFINE l == call[p].link
<1>1. TypeOK /\ CallNamesRows(p)
  BY DEF TypeInv
<1>2. l \in Links /\ authAction[l] \in AuthRow
  BY <1>1 DEF FinalizeApprovalFails, CallNamesRows, AuthPlaces
<1>3. granted[l] \in Devices \cup {None} /\ call[p] \in Call
  BY <1>1, <1>2 DEF TypeOK
<1>4. [call[p] EXCEPT !.step = "authFailed", !.device = granted[l]] \in Call
  BY <1>3 DEF Call, Steps
<1>5. /\ call' \in [Processes -> Call]
      /\ \A q \in Processes \ {p} : call'[q] = call[q]
      /\ call'[p] = [call[p] EXCEPT !.step = "authFailed", !.device = granted[l]]
  BY <1>1, <1>4 DEF FinalizeApprovalFails, TypeOK
<1>6. call'[p].step = "authFailed" /\ call'[p].link = l
  BY <1>3, <1>5 DEF Call
<1>7. CallNamesRows(p)'
  BY <1>2, <1>6 DEF FinalizeApprovalFails, database, CallNamesRows, AuthPlaces, RevokePlaces,
     AdminPlaces
<1>8. faults' \in 0 .. MaxFaults
  BY <1>1, BoundAssumption DEF FinalizeApprovalFails, Fault, TypeOK
<1> QED BY <1>5, <1>7, <1>8, CallStepType DEF FinalizeApprovalFails

LEMMA AdminQualifyType ==
  ASSUME NEW p \in Requests, NEW u \in Users, NEW d \in Devices, TypeInv, AdminQualify(p, u, d)
  PROVE  TypeInv'
<1>1. p \in Processes /\ TypeOK
  BY DEF Processes, TypeInv
<1>2. [Idle EXCEPT !.step = "adminList", !.user = u, !.device = d] \in Call
  BY DEF Idle, Call, Steps
<1>3. /\ call' \in [Processes -> Call]
      /\ \A q \in Processes \ {p} : call'[q] = call[q]
      /\ call'[p] = [Idle EXCEPT !.step = "adminList", !.user = u, !.device = d]
  BY <1>1, <1>2 DEF AdminQualify, TypeOK
<1>4. CallNamesRows(p)'
  BY <1>3 DEF CallNamesRows, Idle, AuthPlaces, RevokePlaces, AdminPlaces
<1> QED BY <1>1, <1>3, <1>4, CallStepType DEF AdminQualify, TypeOK

LEMMA AdminListType ==
  ASSUME NEW p \in Processes, TypeInv, AdminList(p)
  PROVE  TypeInv'
<1>1. CASE Move(p, "adminCommit")
  BY <1>1, MoveOnType DEF AdminList, AdminPlaces, Steps, TypeInv, TypeOK
<1>2. CASE Return(p)
  BY <1>2, GiveUpType DEF AdminList, TypeInv, TypeOK
<1> QED BY <1>1, <1>2 DEF AdminList

LEMMA AdminAssociateType ==
  ASSUME NEW p \in Processes, TypeInv, AdminAssociate(p)
  PROVE  TypeInv'
<1> DEFINE u == call[p].user
           d == call[p].device
           row == [NoAssociation EXCEPT !.state = "ACTIVE", !.user = u, !.device = d]
<1>1. TypeOK /\ CallNamesRows(p) /\ HeldHasDevice
  BY DEF TypeInv
<1>2. u \in Users /\ d \in Devices
  BY <1>1 DEF AdminAssociate, CallNamesRows, AdminPlaces
<1>3. nextAssociation \in AssociationIds
  BY <1>1, BoundAssumption DEF AdminAssociate, TypeOK, AssociationIds
<1>4. row \in AssociationRow /\ row.device = d
  BY <1>2 DEF NoAssociation, AssociationRow, States
<1>5. association' = [association EXCEPT ![nextAssociation] = row]
  BY DEF AdminAssociate
<1> HIDE DEF row
<1>6. association' \in [AssociationIds -> AssociationRow]
  BY <1>1, <1>4, <1>5 DEF TypeOK
<1>7. HeldHasDevice'
  BY <1>1, <1>2, <1>3, <1>4, <1>5 DEF HeldHasDevice, TypeOK
<1>8. nextAssociation' \in 1 .. MaxAssociations + 1
  BY <1>3, BoundAssumption DEF AdminAssociate, AssociationIds
<1>9. /\ call' \in [Processes -> Call]
      /\ \A q \in Processes \ {p} : call'[q] = call[q]
      /\ CallNamesRows(p)'
  BY <1>1, ReturnType DEF AdminAssociate
<1>10. /\ deviceRow' \in [Devices -> {"absent", "live", "revoked"}]
       /\ managed' \subseteq Devices /\ disturbed' \subseteq Devices
  BY <1>1, <1>2 DEF AdminAssociate, TypeOK
<1>11. RowsPersist
  BY DEF AdminAssociate, RowsPersist
<1> QED BY <1>1, <1>6, <1>7, <1>8, <1>9, <1>10, <1>11, LocalStepType DEF AdminAssociate, TypeOK

LEMMA AdminRejectType ==
  ASSUME NEW p \in Processes, TypeInv, AdminReject(p)
  PROVE  TypeInv'
BY GiveUpType DEF AdminReject, TypeInv, TypeOK

LEMMA RevokeReserveType ==
  ASSUME NEW p \in Processes, NEW a \in AssociationIds, NEW reason \in RevokeReasons,
         TypeInv, RevokeReserve(p, a, reason)
  PROVE  TypeInv'
<1> DEFINE r == nextRevoke
           row == [NoRevoke EXCEPT !.status = "PENDING", !.assoc = a,
                                   !.target = association[a].device, !.reason = reason]
           state == [Idle EXCEPT !.step = "armRevoke", !.revoke = r, !.reason = reason]
<1>1. TypeOK /\ HeldHasDevice
  BY DEF TypeInv
<1>2. r \in RevokeIds
  BY <1>1, BoundAssumption DEF RevokeReserve, TypeOK, RevokeIds
<1>3. association[a].device \in Devices
  BY <1>1 DEF RevokeReserve, HeldHasDevice
<1>4. row \in RevokeRow
  BY <1>3 DEF NoRevoke, RevokeRow, Statuses
<1>5. state \in Call /\ state.step = "armRevoke" /\ state.revoke = r /\ state.reason = reason
  BY <1>2 DEF Idle, Call, Steps, Reasons
<1>6. /\ revokeAction' = [revokeAction EXCEPT ![r] = row]
      /\ call' = [call EXCEPT ![p] = state]
  BY DEF RevokeReserve
<1> HIDE DEF row, state
<1>7. /\ revokeAction' \in [RevokeIds -> RevokeRow \cup {NoRevoke}]
      /\ revokeAction'[r] \in RevokeRow
      /\ \A k \in RevokeIds : revokeAction[k] \in RevokeRow => revokeAction'[k] \in RevokeRow
  BY <1>1, <1>2, <1>4, <1>6 DEF TypeOK
<1>8. RowsPersist
  BY <1>7 DEF RowsPersist, RevokeReserve
<1>9. /\ association' \in [AssociationIds -> AssociationRow]
      /\ HeldHasDevice'
  <2>1. association \in [AssociationIds -> AssociationRow]
    BY <1>1 DEF TypeOK
  <2>2. PICK why \in Reasons \cup {None} :
          association' = [association EXCEPT ![a].state = "PENDING_REVOKE", ![a].reason = why]
    BY <2>1 DEF RevokeReserve, AssociationRow, Reasons, RevokeReasons
  <2>3. association' \in [AssociationIds -> AssociationRow]
    BY <1>1, <2>2, AssociationEdit DEF States
  <2>4. HeldHasDevice'
    BY <1>1, <1>3, <2>1, <2>2 DEF HeldHasDevice, AssociationRow
  <2> QED BY <2>3, <2>4
<1>10. /\ call' \in [Processes -> Call]
       /\ \A q \in Processes \ {p} : call'[q] = call[q]
       /\ call'[p] = state
  BY <1>1, <1>5, <1>6 DEF TypeOK
<1>11. CallNamesRows(p)'
  BY <1>2, <1>5, <1>7, <1>10 DEF CallNamesRows, AuthPlaces, RevokePlaces, AdminPlaces
<1>12. nextRevoke' \in 1 .. MaxRevokes + 1
  BY <1>2, BoundAssumption DEF RevokeReserve, RevokeIds
<1> QED BY <1>1, <1>7, <1>8, <1>9, <1>10, <1>11, <1>12, LocalStepType
        DEF RevokeReserve, platform, TypeOK

LEMMA RevokeRowComplete ==
  ASSUME NEW r \in RevokeIds, TypeOK, revokeAction[r].status \in Unresolved
  PROVE  revokeAction[r] \in RevokeRow
BY DEF TypeOK, NoRevoke, Unresolved

\* Rows of a revocation change outside any call.
LEMMA RevokeRowsType ==
  ASSUME NEW r \in RevokeIds, TypeInv, revokeAction[r] \in RevokeRow,
         MarkRevokeUnknown(r) \/ (Unarmed(r) /\ Withdraw(r)),
         UNCHANGED <<authAction, nextAssociation, nextRevoke, deviceRow, call, platform, faults>>
  PROVE  TypeInv'
<1>1. /\ association' \in [AssociationIds -> AssociationRow]
      /\ revokeAction' \in [RevokeIds -> RevokeRow \cup {NoRevoke}]
      /\ \A k \in RevokeIds : revokeAction[k] \in RevokeRow => revokeAction'[k] \in RevokeRow
      /\ HeldHasDevice'
  BY MarkRevokeUnknownType, WithdrawType
<1>2. TypeOK'
  BY <1>1 DEF platform, TypeInv, TypeOK
<1>3. ASSUME NEW q \in Processes PROVE CallNamesRows(q)'
  BY <1>1 DEF TypeInv, CallNamesRows
<1>4. GrantNamesDevice'
  BY DEF platform, TypeInv, GrantNamesDevice
<1> QED BY <1>1, <1>2, <1>3, <1>4 DEF TypeInv

LEMMA RevokeReplayType ==
  ASSUME NEW a \in AssociationIds, TypeInv, RevokeReplay(a)
  PROVE  TypeInv'
<1>1. PICK r \in RevokesOf(a) :
        /\ revokeAction[r].status = "PENDING"
        /\ MarkRevokeUnknown(r)
        /\ UNCHANGED <<authAction, nextAssociation, nextRevoke, deviceRow, call, platform, faults>>
  BY DEF RevokeReplay
<1>2. r \in RevokeIds
  BY DEF RevokesOf
<1>3. revokeAction[r] \in RevokeRow
  BY <1>1, <1>2, RevokeRowComplete DEF Unresolved, TypeInv
<1> QED BY <1>1, <1>2, <1>3, RevokeRowsType

LEMMA QuotaWithdrawType ==
  ASSUME NEW p \in Schedulers, NEW r \in RevokeIds, TypeInv, QuotaWithdraw(p, r)
  PROVE  TypeInv'
<1>1. Unarmed(r) /\ Withdraw(r)
  BY DEF QuotaWithdraw, Resumable
<1>2. revokeAction[r] \in RevokeRow
  BY <1>1, RevokeRowComplete DEF Unarmed, Unresolved, TypeInv
<1> QED BY <1>1, <1>2, RevokeRowsType DEF QuotaWithdraw

\* A background loop takes up a revocation that is on record.
LEMMA TakeUpType ==
  ASSUME NEW p \in Schedulers, NEW r \in RevokeIds, NEW step \in RevokePlaces,
         NEW reason \in RevokeReasons, TypeInv, revokeAction[r] \in RevokeRow,
         call' = [call EXCEPT ![p] = [Idle EXCEPT !.step = step, !.revoke = r, !.reason = reason]],
         UNCHANGED <<database, platform, faults>>
  PROVE  TypeInv'
<1> DEFINE state == [Idle EXCEPT !.step = step, !.revoke = r, !.reason = reason]
<1>1. p \in Processes /\ TypeOK
  BY DEF Processes, TypeInv
<1>2. state \in Call /\ state.step = step /\ state.revoke = r /\ state.reason = reason
  BY DEF Idle, Call, Steps, RevokePlaces, Reasons
<1> HIDE DEF state
<1>3. /\ call' \in [Processes -> Call]
      /\ \A q \in Processes \ {p} : call'[q] = call[q]
      /\ call'[p] = state
  BY <1>1, <1>2 DEF TypeOK, state
<1>4. CallNamesRows(p)'
  BY <1>2, <1>3 DEF CallNamesRows, database, AuthPlaces, RevokePlaces, AdminPlaces
<1> QED BY <1>1, <1>3, <1>4, CallStepType DEF TypeOK

LEMMA QuotaResumeType ==
  ASSUME NEW p \in Schedulers, NEW r \in RevokeIds, TypeInv, QuotaResume(p, r)
  PROVE  TypeInv'
<1>1. revokeAction[r] \in RevokeRow
  BY RevokeRowComplete DEF QuotaResume, Resumable, Unarmed, Unresolved, TypeInv
<1> QED BY <1>1, TakeUpType DEF QuotaResume, RevokePlaces, RevokeReasons

LEMMA ReconcilePrepareType ==
  ASSUME NEW p \in Schedulers, NEW r \in RevokeIds, TypeInv, ReconcilePrepare(p, r)
  PROVE  TypeInv'
<1>1. revokeAction[r] \in RevokeRow
  BY RevokeRowComplete DEF ReconcilePrepare, TypeInv
<1>2. revokeAction[r].reason \in RevokeReasons
  BY <1>1 DEF RevokeRow
<1> QED BY <1>1, <1>2, TakeUpType DEF ReconcilePrepare, RevokePlaces

\* A call that records an outcome in its REVOKE rows and returns.
LEMMA RevokeOutcomeType ==
  ASSUME NEW p \in Processes, TypeInv, Return(p), call[p].step \in RevokePlaces,
         \/ UNCHANGED <<revokeAction, association>>
         \/ MarkRevokeUnknown(call[p].revoke)
         \/ Unarmed(call[p].revoke) /\ Withdraw(call[p].revoke),
         UNCHANGED <<authAction, nextAssociation, nextRevoke, deviceRow, platform, faults>>
  PROVE  TypeInv'
<1> DEFINE r == call[p].revoke
<1>1. TypeOK /\ CallNamesRows(p)
  BY DEF TypeInv
<1>2. r \in RevokeIds /\ revokeAction[r] \in RevokeRow
  BY <1>1 DEF CallNamesRows
<1>3. /\ association' \in [AssociationIds -> AssociationRow]
      /\ revokeAction' \in [RevokeIds -> RevokeRow \cup {NoRevoke}]
      /\ \A k \in RevokeIds : revokeAction[k] \in RevokeRow => revokeAction'[k] \in RevokeRow
      /\ HeldHasDevice'
  <2>1. CASE UNCHANGED <<revokeAction, association>>
    BY <1>1, <2>1 DEF TypeInv, TypeOK, HeldHasDevice
  <2>2. CASE MarkRevokeUnknown(r)
    BY <1>2, <2>2, MarkRevokeUnknownType
  <2>3. CASE Unarmed(r) /\ Withdraw(r)
    BY <1>2, <2>3, WithdrawType
  <2> QED BY <2>1, <2>2, <2>3
<1>4. RowsPersist
  BY <1>3 DEF RowsPersist
<1>5. /\ call' \in [Processes -> Call]
      /\ \A q \in Processes \ {p} : call'[q] = call[q]
      /\ CallNamesRows(p)'
  BY <1>1, ReturnType
<1> QED BY <1>1, <1>3, <1>4, <1>5, LocalStepType DEF platform, TypeOK

LEMMA ArmRevokeType ==
  ASSUME NEW p \in Processes, TypeInv, ArmRevoke(p)
  PROVE  TypeInv'
<1> DEFINE r == call[p].revoke
<1>1. TypeOK /\ CallNamesRows(p)
  BY DEF TypeInv
<1>2. r \in RevokeIds /\ revokeAction[r] \in RevokeRow /\ call[p].reason \in RevokeReasons
  BY <1>1 DEF ArmRevoke, CallNamesRows, RevokePlaces
<1>3. CASE Unarmed(r)
  <2>1. /\ revokeAction' = [revokeAction EXCEPT ![r].attempt = 1]
        /\ Move(p, "revoke") /\ UNCHANGED association
    BY <1>3 DEF ArmRevoke
  <2>2. /\ revokeAction' \in [RevokeIds -> RevokeRow \cup {NoRevoke}]
        /\ \A k \in RevokeIds : revokeAction[k] \in RevokeRow => revokeAction'[k] \in RevokeRow
    BY <1>1, <1>2, <2>1, RevokeAttempt DEF TypeOK
  <2>3. /\ call' \in [Processes -> Call]
        /\ \A q \in Processes \ {p} : call'[q] = call[q]
        /\ call'[p].step = "revoke" /\ call'[p].revoke = r /\ call'[p].reason = call[p].reason
    BY <1>1, <2>1, MoveType DEF Steps
  <2>4. CallNamesRows(p)'
    BY <1>2, <2>2, <2>3 DEF CallNamesRows, AuthPlaces, RevokePlaces, AdminPlaces
  <2>5. RowsPersist /\ HeldHasDevice'
    BY <2>1, <2>2 DEF TypeInv, RowsPersist, HeldHasDevice, ArmRevoke
  <2> QED BY <1>1, <2>1, <2>2, <2>3, <2>4, <2>5, LocalStepType DEF ArmRevoke, platform, TypeOK
<1>4. CASE ~Unarmed(r)
  <2>1. Return(p) /\ call[p].step \in RevokePlaces
    BY <1>4 DEF ArmRevoke, RevokePlaces
  <2>2. \/ UNCHANGED <<revokeAction, association>>
        \/ MarkRevokeUnknown(r)
    BY <1>4 DEF ArmRevoke
  <2> QED BY <2>1, <2>2, RevokeOutcomeType DEF ArmRevoke
<1> QED BY <1>3, <1>4

LEMMA ArmRevokeWithdrawType ==
  ASSUME NEW p \in Processes, TypeInv, ArmRevokeWithdraw(p)
  PROVE  TypeInv'
BY RevokeOutcomeType DEF ArmRevokeWithdraw, RevokePlaces

\* A call that fails and moves on to the step that records it.
LEMMA FaultType ==
  ASSUME TypeOK, Fault
  PROVE  faults' \in 0 .. MaxFaults
BY BoundAssumption DEF Fault, TypeOK

LEMMA ArmRevokeFailsType ==
  ASSUME NEW p \in Processes, TypeInv, ArmRevokeFails(p)
  PROVE  TypeInv'
BY FaultType, MoveOnType DEF ArmRevokeFails, RevokePlaces, Steps, TypeInv

LEMMA SendRevokeType ==
  ASSUME NEW p \in Processes, TypeInv, SendRevoke(p)
  PROVE  TypeInv'
<1> DEFINE r == call[p].revoke
<1>1. TypeOK /\ CallNamesRows(p)
  BY DEF TypeInv
<1>2. Move(p, "revoking") /\ call[p].step \in RevokePlaces
  BY DEF SendRevoke, RevokePlaces
<1>3. /\ call' \in [Processes -> Call]
      /\ \A q \in Processes \ {p} : call'[q] = call[q]
      /\ call'[p].step = "revoking" /\ call'[p].revoke = r /\ call'[p].reason = call[p].reason
  BY <1>1, <1>2, MoveType DEF Steps
<1>4. r \in RevokeIds
  BY <1>1, <1>2 DEF CallNamesRows
<1>5. revocation' \in [RevokeIds -> PostStates]
  BY <1>1 DEF SendRevoke, TypeOK, PostStates
<1>6. revokesSent' \in [RevokeIds -> Nat]
  <2>1. revokesSent[r] + 1 \in Nat
    BY <1>1, <1>4 DEF TypeOK
  <2>2. revokesSent' = [revokesSent EXCEPT ![r] = revokesSent[r] + 1]
    BY DEF SendRevoke
  <2> QED BY <1>1, <2>1, <2>2 DEF TypeOK
<1>7. TypeOK'
  BY <1>1, <1>3, <1>5, <1>6 DEF SendRevoke, database, TypeOK
<1>8. \A q \in Processes : CallNamesRows(q)'
  <2>1. CallNamesRows(p)'
    BY <1>1, <1>2, <1>3 DEF SendRevoke, database, CallNamesRows, AuthPlaces, RevokePlaces,
       AdminPlaces
  <2>2. RowsPersist
    BY DEF SendRevoke, database, RowsPersist
  <2> QED BY <1>3, <2>1, <2>2, OthersKeepTheirRows
<1>9. HeldHasDevice' /\ GrantNamesDevice'
  BY DEF SendRevoke, database, TypeInv, HeldHasDevice, GrantNamesDevice
<1> QED BY <1>7, <1>8, <1>9 DEF TypeInv

LEMMA RevokeRaisesType ==
  ASSUME NEW p \in Processes, TypeInv, RevokeRaises(p)
  PROVE  TypeInv'
BY MoveOnType DEF RevokeRaises, RevokePlaces, Steps, TypeInv, TypeOK

LEMMA MarkUnknownType ==
  ASSUME NEW p \in Processes, TypeInv, MarkUnknown(p)
  PROVE  TypeInv'
BY RevokeOutcomeType DEF MarkUnknown, RevokePlaces

LEMMA FinalizeRevokeType ==
  ASSUME NEW p \in Processes, TypeInv, FinalizeRevoke(p)
  PROVE  TypeInv'
<1> DEFINE r == call[p].revoke
           a == revokeAction[r].assoc
           d == revokeAction[r].target
           reason == call[p].reason
<1>1. TypeOK /\ CallNamesRows(p)
  BY DEF TypeInv
<1>2. Return(p) /\ call[p].step \in RevokePlaces
  BY DEF FinalizeRevoke, Confirmed, RevokePlaces
<1>3. r \in RevokeIds /\ revokeAction[r] \in RevokeRow /\ reason \in RevokeReasons
  BY <1>1, <1>2 DEF CallNamesRows
<1>4. CASE /\ deviceRow' = [deviceRow EXCEPT ![d] = "revoked"]
           /\ association' = [association EXCEPT ![a].state = "ENDED", ![a].reason = reason]
           /\ revokeAction' = [revokeAction EXCEPT ![r].status = "SUCCEEDED"]
  <2>1. a \in AssociationIds /\ d \in Devices
    BY <1>3 DEF RevokeRow
  <2>2. association' \in [AssociationIds -> AssociationRow]
    BY <1>1, <1>3, <1>4, <2>1, AssociationEdit DEF States, Reasons
  <2>3. HeldHasDevice'
    <3>1. association \in [AssociationIds -> AssociationRow]
      BY <1>1 DEF TypeOK
    <3>2. association[a] \in AssociationRow
      BY <2>1, <3>1
    <3>3. association'[a].state = "ENDED"
      BY <1>4, <2>1, <3>1, <3>2 DEF AssociationRow
    <3>4. \A b \in AssociationIds \ {a} : association'[b] = association[b]
      BY <1>4, <2>1, <3>1
    <3> QED BY <2>1, <3>3, <3>4 DEF HeldHasDevice, TypeInv
  <2>4. [revokeAction[r] EXCEPT !.status = "SUCCEEDED"] \in RevokeRow
    BY <1>1, <1>3, RevokeEdit DEF Statuses
  <2>5. /\ revokeAction' \in [RevokeIds -> RevokeRow \cup {NoRevoke}]
        /\ \A k \in RevokeIds : revokeAction[k] \in RevokeRow => revokeAction'[k] \in RevokeRow
    BY <1>1, <1>3, <1>4, <2>4 DEF TypeOK
  <2>6. deviceRow' \in [Devices -> {"absent", "live", "revoked"}]
    BY <1>1, <1>4 DEF TypeOK
  <2>7. /\ call' \in [Processes -> Call]
        /\ \A q \in Processes \ {p} : call'[q] = call[q]
        /\ CallNamesRows(p)'
    BY <1>1, <1>2, ReturnType
  <2>8. RowsPersist
    BY <2>5 DEF RowsPersist, FinalizeRevoke
  <2> QED BY <1>1, <2>2, <2>3, <2>5, <2>6, <2>7, <2>8, LocalStepType
          DEF FinalizeRevoke, platform, TypeOK
<1>5. CASE /\ UNCHANGED deviceRow
           /\ UNCHANGED <<revokeAction, association>> \/ MarkRevokeUnknown(r)
  BY <1>2, <1>5, RevokeOutcomeType DEF FinalizeRevoke
<1> QED BY <1>4, <1>5 DEF FinalizeRevoke

LEMMA FinalizeRevokeFailsType ==
  ASSUME NEW p \in Processes, TypeInv, FinalizeRevokeFails(p)
  PROVE  TypeInv'
BY FaultType, MoveOnType DEF FinalizeRevokeFails, Confirmed, RevokePlaces, Steps, TypeInv

LEMMA ReconcileListType ==
  ASSUME NEW p \in Processes, TypeInv, ReconcileList(p)
  PROVE  TypeInv'
BY MoveOnType DEF ReconcileList, RevokePlaces, Steps, TypeInv, TypeOK

LEMMA ReconcileListFailsType ==
  ASSUME NEW p \in Processes, TypeInv, ReconcileListFails(p)
  PROVE  TypeInv'
BY FaultType, MoveOnType DEF ReconcileListFails, RevokePlaces, Steps, TypeInv

LEMMA RecordFailsType ==
  ASSUME NEW p \in Processes, TypeInv, RecordFails(p)
  PROVE  TypeInv'
BY FaultType, GiveUpType DEF RecordFails, TypeInv

\* A step of the platform.
LEMMA PlatformStepType ==
  ASSUME TypeInv, TypeOK', UNCHANGED <<database, call>>, GrantNamesDevice'
  PROVE  TypeInv'
<1>1. ASSUME NEW q \in Processes PROVE CallNamesRows(q)'
  BY DEF TypeInv, CallNamesRows, database
<1>2. HeldHasDevice'
  BY DEF TypeInv, HeldHasDevice, database
<1> QED BY <1>1, <1>2 DEF TypeInv

LEMMA PlatformType ==
  ASSUME TypeInv, Platform
  PROVE  TypeInv'
<1>1. TypeOK /\ GrantNamesDevice
  BY DEF TypeInv
<1>2. ASSUME NEW l \in Links, NEW d \in Devices, RemoteApprove(l, d) PROVE TypeInv'
  <2>1. TypeOK'
    BY <1>1, <1>2 DEF RemoteApprove, database, TypeOK, PostStates
  <2>2. GrantNamesDevice'
    BY <1>1, <1>2 DEF RemoteApprove, GrantNamesDevice, TypeOK
  <2> QED BY <1>2, <2>1, <2>2, PlatformStepType DEF RemoteApprove
<1>3. ASSUME NEW l \in Links, RemoteDeny(l) PROVE TypeInv'
  <2>1. TypeOK'
    BY <1>1, <1>3 DEF RemoteDeny, database, TypeOK, PostStates
  <2>2. GrantNamesDevice'
    BY <1>1, <1>3 DEF RemoteDeny, GrantNamesDevice, TypeOK
  <2> QED BY <1>3, <2>1, <2>2, PlatformStepType DEF RemoteDeny
<1>4. ASSUME NEW r \in RevokeIds, RemoteRevoke(r) PROVE TypeInv'
  <2>1. TypeOK'
    BY <1>1, <1>4 DEF RemoteRevoke, database, TypeOK, PostStates
  <2>2. GrantNamesDevice'
    BY <1>1, <1>4 DEF RemoteRevoke, GrantNamesDevice
  <2> QED BY <1>4, <2>1, <2>2, PlatformStepType DEF RemoteRevoke
<1>5. ASSUME NEW d \in Devices, ConsoleRevoke(d) PROVE TypeInv'
  <2>1. TypeOK'
    BY <1>1, <1>5, FaultType DEF ConsoleRevoke, database, TypeOK
  <2>2. GrantNamesDevice'
    BY <1>1, <1>5 DEF ConsoleRevoke, GrantNamesDevice
  <2> QED BY <1>5, <2>1, <2>2, PlatformStepType DEF ConsoleRevoke
<1> QED BY <1>2, <1>3, <1>4, <1>5 DEF Platform

LEMMA RestartType ==
  ASSUME TypeInv, Restart
  PROVE  TypeInv'
<1>1. Idle \in Call
  BY DEF Idle, Call, Steps
<1>2. faults' \in 0 .. MaxFaults
  BY FaultType DEF Restart, TypeInv
<1>3. TypeOK'
  BY <1>1, <1>2 DEF Restart, database, platform, TypeInv, TypeOK
<1>4. ASSUME NEW q \in Processes PROVE CallNamesRows(q)'
  BY DEF Restart, CallNamesRows, Idle, AuthPlaces, RevokePlaces, AdminPlaces
<1>5. HeldHasDevice' /\ GrantNamesDevice'
  BY DEF Restart, database, platform, TypeInv, HeldHasDevice, GrantNamesDevice
<1> QED BY <1>3, <1>4, <1>5 DEF TypeInv

LEMMA CallStepsType ==
  ASSUME NEW p \in Processes, TypeInv, CallSteps(p)
  PROVE  TypeInv'
<1>1. CASE AuthSteps(p)
  BY <1>1, AuthGiveUpType, AuthArmType, AuthAbortType, SendApproveType, ApproveRaisesType,
     ApproveDeniedType, FinalizeApprovalType, ApprovalConflictType, FinalizeApprovalFailsType,
     RecordAuthUnknownType DEF AuthSteps
<1>2. CASE AdminSteps(p)
  BY <1>2, AdminListType, AdminAssociateType, AdminRejectType DEF AdminSteps
<1>3. CASE RevokeSteps(p)
  BY <1>3, ArmRevokeType, ArmRevokeWithdrawType, ArmRevokeFailsType, SendRevokeType,
     RevokeRaisesType, MarkUnknownType, FinalizeRevokeType, FinalizeRevokeFailsType,
     ReconcileListType, ReconcileListFailsType DEF RevokeSteps
<1>4. CASE RecordFails(p)
  BY <1>4, RecordFailsType
<1> QED BY <1>1, <1>2, <1>3, <1>4 DEF CallSteps

LEMMA NextType ==
  ASSUME TypeInv, [Next]_vars
  PROVE  TypeInv'
<1>1. ASSUME NEW p \in Requests, NEW u \in Users, NEW l \in Links, AuthReserve(p, u, l)
      PROVE  TypeInv'
  BY <1>1, AuthReserveType
<1>2. ASSUME NEW p \in Requests, NEW u \in Users, NEW d \in Devices, AdminQualify(p, u, d)
      PROVE  TypeInv'
  BY <1>2, AdminQualifyType
<1>3. ASSUME NEW p \in Processes, NEW a \in AssociationIds, NEW reason \in RevokeReasons,
             RevokeReserve(p, a, reason)
      PROVE  TypeInv'
  BY <1>3, RevokeReserveType
<1>4. ASSUME NEW l \in Links, AuthReplay(l) PROVE TypeInv'
  BY <1>4, AuthReplayType
<1>5. ASSUME NEW a \in AssociationIds, RevokeReplay(a) PROVE TypeInv'
  BY <1>5, RevokeReplayType
<1>6. ASSUME NEW p \in Schedulers, NEW r \in RevokeIds,
             QuotaResume(p, r) \/ QuotaWithdraw(p, r) \/ ReconcilePrepare(p, r)
      PROVE  TypeInv'
  BY <1>6, QuotaResumeType, QuotaWithdrawType, ReconcilePrepareType
<1>7. ASSUME NEW p \in Processes, CallSteps(p) PROVE TypeInv'
  BY <1>7, CallStepsType
<1>8. CASE Platform
  BY <1>8, PlatformType
<1>9. CASE Restart
  BY <1>9, RestartType
<1>10. CASE UNCHANGED vars
  BY <1>10 DEF vars, database, platform, TypeInv, TypeOK, CallNamesRows, HeldHasDevice,
     GrantNamesDevice
<1> QED BY <1>1, <1>2, <1>3, <1>4, <1>5, <1>6, <1>7, <1>8, <1>9, <1>10 DEF Next

LEMMA TypeInvariant == Spec => []TypeInv
BY InitType, NextType, PTL DEF Spec

\* Every row, call and platform request has its type in every reachable state, for
\* any number of users, devices, links, commands and loops: no REVOKE row lacks its
\* device, and no service writes half a row.
THEOREM TypeCorrect == Spec => []TypeOK
<1>1. TypeInv => TypeOK
  BY DEF TypeInv
<1> QED BY <1>1, TypeInvariant, PTL

-----------------------------------------------------------------------------
(* Safety: POSTs are sent once, slots are exclusive and what is final stays *)
(* final.                                                                   *)

\* Rows that have not been created yet are blank.
FreshRows ==
  /\ \A a \in AssociationIds : a >= nextAssociation => association[a].state = "NONE"
  /\ \A r \in RevokeIds : r >= nextRevoke => revokeAction[r] = NoRevoke

\* A call about to send a POST has armed the attempt, and nobody has sent it.
ArmedBeforePost ==
  \A p \in Processes :
    /\ call[p].step = "approve" =>
         authAction[call[p].link].attempt = 1 /\ approvalsSent[call[p].link] = 0
    /\ call[p].step = "revoke" =>
         revokeAction[call[p].revoke].attempt = 1 /\ revokesSent[call[p].revoke] = 0

\* Two calls are never about to send the same POST.
OnePoster ==
  \A p, q \in Processes : p # q =>
    /\ ~(call[p].step = "approve" /\ call[q].step = "approve" /\ call[p].link = call[q].link)
    /\ ~(call[p].step = "revoke" /\ call[q].step = "revoke" /\ call[p].revoke = call[q].revoke)

PostInv == ArmedBeforePost /\ OnePoster /\ PostedOnceAfterArming

SafetyInv == FreshRows /\ ExclusiveSlots /\ PostInv

-----------------------------------------------------------------------------
(* What most steps leave as it is. *)

\* Only open associations change, and keep their user and device.
AssociationsKept ==
  /\ nextAssociation' = nextAssociation
  /\ \A a \in AssociationIds :
       /\ association'[a].user = association[a].user
       /\ association'[a].device = association[a].device
       /\ Open(a) \/ association'[a] = association[a]

\* No AUTH action is armed, and a succeeded one keeps its row.
AuthsKept ==
  \A l \in Links :
    /\ authAction'[l].attempt = authAction[l].attempt
    /\ authAction[l].status = "SUCCEEDED" => authAction'[l] = authAction[l]

\* No REVOKE action is created or armed, and a succeeded one keeps its row.
RevokesKept ==
  /\ nextRevoke' = nextRevoke
  /\ \A r \in RevokeIds :
       /\ revokeAction'[r].attempt = revokeAction[r].attempt
       /\ revokeAction[r].status \in {"SUCCEEDED", "NONE"} => revokeAction'[r] = revokeAction[r]

\* Nothing is sent and no call becomes about to send.
PostsKept ==
  /\ approvalsSent' = approvalsSent /\ revokesSent' = revokesSent
  /\ \A q \in Processes : call'[q].step \in {"approve", "revoke"} => call'[q] = call[q]

Quiet == AssociationsKept /\ AuthsKept /\ RevokesKept /\ PostsKept

LEMMA FreshKept ==
  ASSUME TypeInv, FreshRows, AssociationsKept, RevokesKept
  PROVE  FreshRows'
BY DEF FreshRows, AssociationsKept, RevokesKept, Open, NoRevoke

LEMMA ExclusiveKept ==
  ASSUME ExclusiveSlots, AssociationsKept
  PROVE  ExclusiveSlots'
BY DEF ExclusiveSlots, AssociationsKept, Open

LEMMA PostKept ==
  ASSUME TypeInv, PostInv, PostsKept,
         \A l \in Links : authAction'[l].attempt = authAction[l].attempt,
         \A r \in RevokeIds : revokeAction'[r].attempt = revokeAction[r].attempt
  PROVE  PostInv'
<1>1. ArmedBeforePost'
  <2>1. SUFFICES ASSUME NEW p \in Processes
                 PROVE  /\ call'[p].step = "approve" =>
                             /\ authAction'[call'[p].link].attempt = 1
                             /\ approvalsSent'[call'[p].link] = 0
                        /\ call'[p].step = "revoke" =>
                             /\ revokeAction'[call'[p].revoke].attempt = 1
                             /\ revokesSent'[call'[p].revoke] = 0
    BY DEF ArmedBeforePost
  <2>2. CASE call'[p].step = "approve"
    <3>1. call'[p] = call[p] /\ call[p].link \in Links
      BY <2>2 DEF PostsKept, TypeInv, CallNamesRows, AuthPlaces
    <3> QED BY <2>2, <3>1 DEF PostInv, ArmedBeforePost, PostsKept
  <2>3. CASE call'[p].step = "revoke"
    <3>1. call'[p] = call[p] /\ call[p].revoke \in RevokeIds
      BY <2>3 DEF PostsKept, TypeInv, CallNamesRows, RevokePlaces
    <3> QED BY <2>3, <3>1 DEF PostInv, ArmedBeforePost, PostsKept
  <2> QED BY <2>2, <2>3
<1>2. OnePoster'
  BY DEF PostInv, OnePoster, PostsKept
<1>3. PostedOnceAfterArming'
  BY DEF PostInv, PostedOnceAfterArming, PostsKept
<1> QED BY <1>1, <1>2, <1>3 DEF PostInv

LEMMA QuietSafety ==
  ASSUME TypeInv, SafetyInv, Quiet
  PROVE  SafetyInv'
BY FreshKept, ExclusiveKept, PostKept DEF SafetyInv, Quiet, AuthsKept, RevokesKept

LEMMA InitSafety == Init => SafetyInv
BY DEF Init, SafetyInv, FreshRows, ExclusiveSlots, PostInv, ArmedBeforePost, OnePoster,
       PostedOnceAfterArming, Open, NoAssociation, NoAuth, NoRevoke, Idle

-----------------------------------------------------------------------------
(* The rows a step records an outcome in. *)

LEMMA AssociationsUntouched ==
  ASSUME UNCHANGED <<association, nextAssociation>>
  PROVE  AssociationsKept
BY DEF AssociationsKept

LEMMA RevokesUntouched ==
  ASSUME UNCHANGED <<revokeAction, nextRevoke>>
  PROVE  RevokesKept
BY DEF RevokesKept

LEMMA AssociationEditKeeps ==
  ASSUME NEW a \in AssociationIds, TypeOK, Open(a), nextAssociation' = nextAssociation,
         \E state, reason :
           \/ association' = [association EXCEPT ![a].state = state]
           \/ association' = [association EXCEPT ![a].state = state, ![a].reason = reason]
  PROVE  AssociationsKept
<1>1. association \in [AssociationIds -> AssociationRow]
  BY DEF TypeOK
<1>2. association[a] \in AssociationRow
  BY <1>1
<1>3. PICK state, reason :
        \/ association' = [association EXCEPT ![a].state = state]
        \/ association' = [association EXCEPT ![a].state = state, ![a].reason = reason]
  OBVIOUS
<1>4. ASSUME NEW b \in AssociationIds
      PROVE  /\ association'[b].user = association[b].user
             /\ association'[b].device = association[b].device
             /\ b # a => association'[b] = association[b]
  BY <1>1, <1>2, <1>3 DEF AssociationRow
<1> QED BY <1>4 DEF AssociationsKept

LEMMA AuthEditKeeps ==
  ASSUME NEW l \in Links, TypeOK, authAction[l] \in AuthRow, authAction[l].status # "SUCCEEDED",
         \E status, target :
           \/ authAction' = [authAction EXCEPT ![l].status = status]
           \/ authAction' = [authAction EXCEPT ![l].status = status, ![l].target = target]
  PROVE  AuthsKept
<1>1. authAction \in [Links -> AuthRow \cup {NoAuth}]
  BY DEF TypeOK
<1>2. PICK status, target :
        \/ authAction' = [authAction EXCEPT ![l].status = status]
        \/ authAction' = [authAction EXCEPT ![l].status = status, ![l].target = target]
  OBVIOUS
<1>3. ASSUME NEW k \in Links
      PROVE  /\ authAction'[k].attempt = authAction[k].attempt
             /\ k # l => authAction'[k] = authAction[k]
  BY <1>1, <1>2 DEF AuthRow
<1> QED BY <1>3 DEF AuthsKept

LEMMA RevokeEditKeeps ==
  ASSUME NEW r \in RevokeIds, TypeOK, revokeAction[r] \in RevokeRow,
         revokeAction[r].status # "SUCCEEDED", nextRevoke' = nextRevoke,
         \E status : revokeAction' = [revokeAction EXCEPT ![r].status = status]
  PROVE  RevokesKept
<1>1. revokeAction \in [RevokeIds -> RevokeRow \cup {NoRevoke}]
  BY DEF TypeOK
<1>2. PICK status : revokeAction' = [revokeAction EXCEPT ![r].status = status]
  OBVIOUS
<1>3. ASSUME NEW k \in RevokeIds
      PROVE  /\ revokeAction'[k].attempt = revokeAction[k].attempt
             /\ k # r => revokeAction'[k] = revokeAction[k]
  BY <1>1, <1>2 DEF RevokeRow
<1>4. revokeAction[r].status # "NONE"
  BY DEF RevokeRow, Statuses
<1> QED BY <1>3, <1>4 DEF RevokesKept

LEMMA AuthOutcomeKeeps ==
  ASSUME NEW l \in Links, NEW target, TypeOK, authAction[l] \in AuthRow,
         authAction[l].status # "SUCCEEDED",
         MarkAuthUnknown(l, target) \/ MarkAuthFailed(l),
         nextAssociation' = nextAssociation
  PROVE  AssociationsKept /\ AuthsKept
<1> DEFINE a == authAction[l].assoc
<1>1. a \in AssociationIds
  BY DEF AuthRow
<1>2. \E status, t : \/ authAction' = [authAction EXCEPT ![l].status = status]
                     \/ authAction' = [authAction EXCEPT ![l].status = status, ![l].target = t]
  BY Zenon DEF MarkAuthUnknown, MarkAuthFailed
<1>3. AuthsKept
  BY <1>2, AuthEditKeeps
<1>4. CASE Open(a)
  <2>1. \E state, reason :
           \/ association' = [association EXCEPT ![a].state = state]
           \/ association' = [association EXCEPT ![a].state = state, ![a].reason = reason]
    <3>1. CASE MarkAuthUnknown(l, target)
      <4>1. association' = [association EXCEPT ![a].state = "UNKNOWN"]
        BY <1>4, <3>1 DEF MarkAuthUnknown, Doubted
      <4> QED BY <4>1, Zenon
    <3>2. CASE MarkAuthFailed(l)
      <4>1. association' = [association EXCEPT ![a].state = "ENDED", ![a].reason = "AUTH_FAILED"]
        BY <1>4, <3>2 DEF MarkAuthFailed, Ended
      <4> QED BY <4>1, Zenon
    <3> QED BY <3>1, <3>2
  <2> QED BY <1>1, <1>3, <1>4, <2>1, AssociationEditKeeps
<1>5. CASE ~Open(a)
  BY <1>3, <1>5, AssociationsUntouched DEF MarkAuthUnknown, MarkAuthFailed, Doubted, Ended
<1> QED BY <1>3, <1>4, <1>5

LEMMA RevokeOutcomeKeeps ==
  ASSUME NEW r \in RevokeIds, TypeOK, revokeAction[r] \in RevokeRow,
         revokeAction[r].status # "SUCCEEDED",
         MarkRevokeUnknown(r) \/ (Unarmed(r) /\ Withdraw(r)),
         nextAssociation' = nextAssociation, nextRevoke' = nextRevoke
  PROVE  AssociationsKept /\ RevokesKept
<1> DEFINE a == revokeAction[r].assoc
<1>1. a \in AssociationIds
  BY DEF RevokeRow
<1>2. \E status : revokeAction' = [revokeAction EXCEPT ![r].status = status]
  BY Zenon DEF MarkRevokeUnknown, Withdraw
<1>3. RevokesKept
  BY <1>2, RevokeEditKeeps
<1>4. CASE MarkRevokeUnknown(r) /\ Open(a)
  <2>1. association' = [association EXCEPT ![a].state = "UNKNOWN"]
    BY <1>4 DEF MarkRevokeUnknown, Doubted
  <2>2. \E state, reason :
           \/ association' = [association EXCEPT ![a].state = state]
           \/ association' = [association EXCEPT ![a].state = state, ![a].reason = reason]
    BY <2>1, Zenon
  <2> QED BY <1>1, <1>3, <1>4, <2>2, AssociationEditKeeps
<1>5. CASE MarkRevokeUnknown(r) /\ ~Open(a)
  BY <1>3, <1>5, AssociationsUntouched DEF MarkRevokeUnknown, Doubted
<1>6. CASE Unarmed(r) /\ Withdraw(r)
  <2>1. Open(a)
    BY <1>6 DEF Unarmed, Open
  <2>2. association' = [association EXCEPT ![a].state = "ACTIVE", ![a].reason = None]
    BY <1>6 DEF Withdraw
  <2>3. \E state, reason :
           \/ association' = [association EXCEPT ![a].state = state]
           \/ association' = [association EXCEPT ![a].state = state, ![a].reason = reason]
    BY <2>2, Zenon
  <2> QED BY <1>1, <1>3, <2>1, <2>3, AssociationEditKeeps
<1> QED BY <1>3, <1>4, <1>5, <1>6

LEMMA ReturnPosts ==
  ASSUME NEW p \in Processes, TypeOK, Return(p), UNCHANGED <<approvalsSent, revokesSent>>
  PROVE  PostsKept
BY DEF TypeOK, Return, PostsKept, Idle

LEMMA MovePosts ==
  ASSUME NEW p \in Processes, NEW step \in Steps, step \notin {"approve", "revoke"}, TypeOK,
         Move(p, step),
         UNCHANGED <<approvalsSent, revokesSent>>
  PROVE  PostsKept
<1>1. /\ \A q \in Processes \ {p} : call'[q] = call[q]
      /\ call'[p].step = step
  BY MoveType
<1> QED BY <1>1 DEF PostsKept

\* A step that only moves or ends a call.
LEMMA CallOnlyQuiet ==
  ASSUME UNCHANGED database, PostsKept
  PROVE  Quiet
BY DEF database, Quiet, AssociationsKept, AuthsKept, RevokesKept

-----------------------------------------------------------------------------
(* Safety, action by action. *)

\* A call that leaves the database alone and moves to a step other than a POST.
LEMMA MoveOnQuiet ==
  ASSUME NEW p \in Processes, NEW step \in Steps, step \notin {"approve", "revoke"}, TypeOK,
         Move(p, step), UNCHANGED <<database, platform>>
  PROVE  Quiet
BY MovePosts, CallOnlyQuiet DEF platform

LEMMA GiveUpQuiet ==
  ASSUME NEW p \in Processes, TypeOK, Return(p), UNCHANGED <<database, platform>>
  PROVE  Quiet
BY ReturnPosts, CallOnlyQuiet DEF platform

\* A call that records an outcome of its link.
LEMMA AuthOutcomeQuiet ==
  ASSUME NEW p \in Processes, NEW target, TypeInv, Return(p), call[p].step \in AuthPlaces,
         \/ UNCHANGED <<authAction, association>>
         \/ /\ authAction[call[p].link].status # "SUCCEEDED"
            /\ MarkAuthUnknown(call[p].link, target) \/ MarkAuthFailed(call[p].link),
         UNCHANGED <<revokeAction, nextAssociation, nextRevoke, deviceRow, platform, faults>>
  PROVE  Quiet
<1>1. TypeOK /\ call[p].link \in Links /\ authAction[call[p].link] \in AuthRow
  BY DEF TypeInv, CallNamesRows
<1>2. PostsKept
  BY <1>1, ReturnPosts DEF platform
<1>3. RevokesKept
  BY RevokesUntouched
<1>4. CASE UNCHANGED <<authAction, association>>
  BY <1>2, <1>3, <1>4 DEF Quiet, AssociationsKept, AuthsKept
<1>5. CASE /\ authAction[call[p].link].status # "SUCCEEDED"
           /\ MarkAuthUnknown(call[p].link, target) \/ MarkAuthFailed(call[p].link)
  BY <1>1, <1>2, <1>3, <1>5, AuthOutcomeKeeps DEF Quiet
<1> QED BY <1>4, <1>5

\* A call that records an outcome of its revocation.
LEMMA RevokeOutcomeQuiet ==
  ASSUME NEW p \in Processes, TypeInv, Return(p), call[p].step \in RevokePlaces,
         \/ UNCHANGED <<revokeAction, association>>
         \/ /\ revokeAction[call[p].revoke].status # "SUCCEEDED"
            /\ \/ MarkRevokeUnknown(call[p].revoke)
               \/ Unarmed(call[p].revoke) /\ Withdraw(call[p].revoke),
         UNCHANGED <<authAction, nextAssociation, nextRevoke, deviceRow, platform, faults>>
  PROVE  Quiet
<1>1. TypeOK /\ call[p].revoke \in RevokeIds /\ revokeAction[call[p].revoke] \in RevokeRow
  BY DEF TypeInv, CallNamesRows
<1>2. PostsKept
  BY <1>1, ReturnPosts DEF platform
<1>3. AuthsKept
  BY DEF AuthsKept
<1>4. CASE UNCHANGED <<revokeAction, association>>
  BY <1>2, <1>3, <1>4 DEF Quiet, AssociationsKept, RevokesKept
<1>5. CASE /\ revokeAction[call[p].revoke].status # "SUCCEEDED"
           /\ \/ MarkRevokeUnknown(call[p].revoke)
              \/ Unarmed(call[p].revoke) /\ Withdraw(call[p].revoke)
  BY <1>1, <1>2, <1>3, <1>5, RevokeOutcomeKeeps DEF Quiet
<1> QED BY <1>4, <1>5

\* The steps of a call that create no row, arm nothing and send nothing.
QuietSteps(p) ==
  \/ AuthGiveUp(p) \/ AuthAbort(p) \/ ApproveRaises(p) \/ ApproveDenied(p)
  \/ ApprovalConflict(p) \/ FinalizeApprovalFails(p) \/ RecordAuthUnknown(p)
  \/ AdminList(p) \/ AdminReject(p)
  \/ ArmRevokeWithdraw(p) \/ ArmRevokeFails(p) \/ RevokeRaises(p) \/ MarkUnknown(p)
  \/ FinalizeRevoke(p) \/ FinalizeRevokeFails(p) \/ ReconcileList(p) \/ ReconcileListFails(p)
  \/ RecordFails(p)

LEMMA FinalizeRevokeQuiet ==
  ASSUME NEW p \in Processes, TypeInv, FinalizeRevoke(p)
  PROVE  Quiet
<1> DEFINE r == call[p].revoke
           a == revokeAction[r].assoc
           reason == call[p].reason
<1>1. Return(p) /\ call[p].step \in RevokePlaces
  BY DEF FinalizeRevoke, Confirmed, RevokePlaces
<1>2. TypeOK /\ r \in RevokeIds /\ revokeAction[r] \in RevokeRow
  BY <1>1 DEF TypeInv, CallNamesRows
<1>3. CASE /\ revokeAction[r].status \in Unresolved /\ Open(a)
           /\ association' = [association EXCEPT ![a].state = "ENDED", ![a].reason = reason]
           /\ revokeAction' = [revokeAction EXCEPT ![r].status = "SUCCEEDED"]
  <2>1. a \in AssociationIds /\ revokeAction[r].status # "SUCCEEDED"
    BY <1>2, <1>3 DEF RevokeRow, Unresolved
  <2>2. \E state, why :
           \/ association' = [association EXCEPT ![a].state = state]
           \/ association' = [association EXCEPT ![a].state = state, ![a].reason = why]
    BY <1>3, Zenon
  <2>3. \E status : revokeAction' = [revokeAction EXCEPT ![r].status = status]
    BY <1>3, Zenon
  <2>4. nextAssociation' = nextAssociation /\ nextRevoke' = nextRevoke
    BY DEF FinalizeRevoke
  <2>5. AssociationsKept
    BY <1>2, <1>3, <2>1, <2>2, <2>4, AssociationEditKeeps
  <2>6. RevokesKept
    BY <1>2, <2>1, <2>3, <2>4, RevokeEditKeeps
  <2>7. PostsKept
    BY <1>1, <1>2, ReturnPosts DEF FinalizeRevoke, platform
  <2> QED BY <2>5, <2>6, <2>7 DEF Quiet, AuthsKept, FinalizeRevoke
<1>4. CASE /\ UNCHANGED deviceRow
           /\ \/ UNCHANGED <<revokeAction, association>>
              \/ revokeAction[r].status # "SUCCEEDED" /\ MarkRevokeUnknown(r)
  BY <1>1, <1>4, RevokeOutcomeQuiet DEF FinalizeRevoke
<1> QED BY <1>3, <1>4 DEF FinalizeRevoke

LEMMA AuthQuiet ==
  ASSUME NEW p \in Processes, TypeInv,
         \/ AuthAbort(p) \/ ApproveDenied(p) \/ ApprovalConflict(p) \/ RecordAuthUnknown(p)
  PROVE  Quiet
<1> DEFINE l == call[p].link
<1>1. Return(p) /\ call[p].step \in AuthPlaces
  BY DEF AuthAbort, ApproveDenied, ApprovalConflict, RecordAuthUnknown, AuthPlaces
<1>2. UNCHANGED <<revokeAction, nextAssociation, nextRevoke, deviceRow, platform, faults>>
  BY DEF AuthAbort, ApproveDenied, ApprovalConflict, RecordAuthUnknown
<1>3. \/ UNCHANGED <<authAction, association>>
      \/ /\ authAction[l].status # "SUCCEEDED"
         /\ MarkAuthFailed(l) \/ \E target : MarkAuthUnknown(l, target)
  BY DEF AuthAbort, ApproveDenied, ApprovalConflict, RecordAuthUnknown
<1>4. PICK target : \/ UNCHANGED <<authAction, association>>
                    \/ /\ authAction[l].status # "SUCCEEDED"
                       /\ MarkAuthFailed(l) \/ MarkAuthUnknown(l, target)
  BY <1>3, Zenon
<1> QED BY <1>1, <1>2, <1>4, AuthOutcomeQuiet

LEMMA QuietStepsAre ==
  ASSUME NEW p \in Processes, TypeInv, QuietSteps(p)
  PROVE  Quiet
<1>1. TypeOK
  BY DEF TypeInv
<1>2. CASE \/ AuthGiveUp(p) \/ ApproveRaises(p) \/ ArmRevokeFails(p) \/ RevokeRaises(p)
           \/ FinalizeRevokeFails(p) \/ ReconcileList(p) \/ ReconcileListFails(p)
  BY <1>1, <1>2, MoveOnQuiet DEF AuthGiveUp, ApproveRaises, ArmRevokeFails, RevokeRaises,
     FinalizeRevokeFails, ReconcileList, ReconcileListFails, Steps
<1>3. CASE AdminReject(p) \/ RecordFails(p)
  BY <1>1, <1>3, GiveUpQuiet DEF AdminReject, RecordFails
<1>4. CASE AdminList(p)
  BY <1>1, <1>4, GiveUpQuiet, MoveOnQuiet DEF AdminList, Steps
<1>5. CASE AuthAbort(p) \/ ApproveDenied(p) \/ ApprovalConflict(p) \/ RecordAuthUnknown(p)
  BY <1>5, AuthQuiet
<1>6. CASE FinalizeApprovalFails(p)
  <2>1. PostsKept
    BY <1>1, <1>6 DEF FinalizeApprovalFails, TypeOK, Call, PostsKept, platform
  <2> QED BY <1>6, <2>1, CallOnlyQuiet DEF FinalizeApprovalFails
<1>7. CASE ArmRevokeWithdraw(p)
  <2>1. revokeAction[call[p].revoke].status # "SUCCEEDED"
    BY <1>7 DEF ArmRevokeWithdraw, Unarmed
  <2> QED BY <1>7, <2>1, RevokeOutcomeQuiet DEF ArmRevokeWithdraw, RevokePlaces
<1>8. CASE MarkUnknown(p)
  BY <1>8, RevokeOutcomeQuiet DEF MarkUnknown, RevokePlaces
<1>9. CASE FinalizeRevoke(p)
  BY <1>9, FinalizeRevokeQuiet
<1> QED BY <1>2, <1>3, <1>4, <1>5, <1>6, <1>7, <1>8, <1>9 DEF QuietSteps

\* A step outside any call, or one that starts a call, that arms and sends nothing.
LEMMA OtherQuiet ==
  ASSUME TypeInv,
         \/ \E l \in Links : AuthReplay(l)
         \/ \E a \in AssociationIds : RevokeReplay(a)
         \/ \E p \in Requests, u \in Users, d \in Devices : AdminQualify(p, u, d)
         \/ \E p \in Schedulers, r \in RevokeIds :
              QuotaResume(p, r) \/ QuotaWithdraw(p, r) \/ ReconcilePrepare(p, r)
         \/ Platform \/ Restart \/ UNCHANGED vars
  PROVE  Quiet
<1>1. TypeOK
  BY DEF TypeInv
<1>2. ASSUME NEW l \in Links, AuthReplay(l) PROVE Quiet
  <2>1. authAction[l] \in AuthRow /\ authAction[l].status # "SUCCEEDED"
    BY <1>1, <1>2 DEF TypeOK, AuthReplay, NoAuth
  <2>2. AssociationsKept /\ AuthsKept
    BY <1>1, <1>2, <2>1, AuthOutcomeKeeps DEF AuthReplay
  <2> QED BY <1>2, <2>2 DEF Quiet, AuthReplay, platform, RevokesKept, PostsKept
<1>3. ASSUME NEW r \in RevokeIds, revokeAction[r].status = "PENDING",
             MarkRevokeUnknown(r) \/ (Unarmed(r) /\ Withdraw(r)),
             UNCHANGED <<authAction, nextAssociation, nextRevoke, deviceRow, call, platform, faults>>
      PROVE  Quiet
  <2>1. revokeAction[r] \in RevokeRow /\ revokeAction[r].status # "SUCCEEDED"
    BY <1>1, <1>3, RevokeRowComplete DEF Unresolved
  <2>2. AssociationsKept /\ RevokesKept
    BY <1>1, <1>3, <2>1, RevokeOutcomeKeeps
  <2> QED BY <1>3, <2>2 DEF Quiet, platform, AuthsKept, PostsKept
<1>4. ASSUME NEW a \in AssociationIds, RevokeReplay(a) PROVE Quiet
  BY <1>3, <1>4 DEF RevokeReplay, RevokesOf
<1>5. ASSUME NEW p \in Schedulers, NEW r \in RevokeIds, QuotaWithdraw(p, r) PROVE Quiet
  BY <1>3, <1>5 DEF QuotaWithdraw, Resumable, Unarmed
<1>6. ASSUME NEW p \in Requests, NEW u \in Users, NEW d \in Devices, AdminQualify(p, u, d)
      PROVE  Quiet
  <2>1. PostsKept
    BY <1>1, <1>6 DEF AdminQualify, TypeOK, Processes, PostsKept, platform, Idle
  <2> QED BY <1>6, <2>1, CallOnlyQuiet DEF AdminQualify
<1>7. ASSUME NEW p \in Schedulers, NEW r \in RevokeIds, QuotaResume(p, r) PROVE Quiet
  <2>1. PostsKept
    BY <1>1, <1>7 DEF QuotaResume, TypeOK, Processes, PostsKept, platform, Idle
  <2> QED BY <1>7, <2>1, CallOnlyQuiet DEF QuotaResume
<1>8. ASSUME NEW p \in Schedulers, NEW r \in RevokeIds, ReconcilePrepare(p, r) PROVE Quiet
  <2>1. PostsKept
    BY <1>1, <1>8 DEF ReconcilePrepare, TypeOK, Processes, PostsKept, platform, Idle
  <2> QED BY <1>8, <2>1, CallOnlyQuiet DEF ReconcilePrepare
<1>9. CASE Platform
  <2>1. UNCHANGED <<database, call, approvalsSent, revokesSent>>
    BY <1>9 DEF Platform, RemoteApprove, RemoteDeny, RemoteRevoke, ConsoleRevoke
  <2> QED BY <2>1, CallOnlyQuiet DEF PostsKept
<1>10. CASE Restart
  <2>1. PostsKept
    BY <1>10 DEF Restart, PostsKept, platform, Idle
  <2> QED BY <1>10, <2>1, CallOnlyQuiet DEF Restart
<1>11. CASE UNCHANGED vars
  <2>1. PostsKept
    BY <1>11 DEF vars, PostsKept, platform
  <2> QED BY <1>11, <2>1, CallOnlyQuiet DEF vars
<1> QED BY <1>2, <1>4, <1>5, <1>6, <1>7, <1>8, <1>9, <1>10, <1>11

LEMMA ArmKeeps ==
  ASSUME NEW p \in Processes, TypeInv, SafetyInv, AuthArm(p)
  PROVE  SafetyInv' /\ AssociationsKept /\ RevokesKept
<1> DEFINE l == call[p].link
<1>1. TypeOK /\ l \in Links /\ authAction[l] \in AuthRow
  BY DEF TypeInv, CallNamesRows, AuthArm, AuthPlaces
<1>2. AssociationsKept /\ RevokesKept
  BY AssociationsUntouched, RevokesUntouched DEF AuthArm
<1>3. /\ \A q \in Processes \ {p} : call'[q] = call[q]
      /\ call'[p].step = "approve" /\ call'[p].link = l
  BY <1>1, MoveType DEF AuthArm, Steps
<1>4. /\ authAction'[l].attempt = 1
      /\ \A k \in Links \ {l} : authAction'[k] = authAction[k]
  BY <1>1 DEF AuthArm, TypeOK, AuthRow
<1>5. UNCHANGED <<revokeAction, approvalsSent, revokesSent>> /\ authAction[l].attempt = 0
  BY DEF AuthArm, platform
<1>6. approvalsSent[l] = 0
  BY <1>1, <1>5 DEF SafetyInv, PostInv, PostedOnceAfterArming, TypeOK
<1>7. \A q \in Processes : call[q].step = "approve" => call[q].link \in Links \ {l}
  BY <1>5 DEF SafetyInv, PostInv, ArmedBeforePost, TypeInv, CallNamesRows, AuthPlaces
<1>8. ArmedBeforePost'
  BY <1>3, <1>4, <1>5, <1>6, <1>7 DEF SafetyInv, PostInv, ArmedBeforePost
<1>9. OnePoster'
  BY <1>3, <1>7 DEF SafetyInv, PostInv, OnePoster
<1>10. PostedOnceAfterArming'
  BY <1>1, <1>4, <1>5, <1>6 DEF SafetyInv, PostInv, PostedOnceAfterArming
<1> QED BY <1>2, <1>8, <1>9, <1>10, FreshKept, ExclusiveKept DEF SafetyInv, PostInv

LEMMA ArmRevokeKeeps ==
  ASSUME NEW p \in Processes, TypeInv, SafetyInv, ArmRevoke(p), Unarmed(call[p].revoke)
  PROVE  /\ SafetyInv'
         /\ AssociationsKept /\ AuthsKept
         /\ \A k \in RevokeIds : revokeAction[k].status = "SUCCEEDED" =>
                                   revokeAction'[k] = revokeAction[k]
<1> DEFINE r == call[p].revoke
<1>1. TypeOK /\ r \in RevokeIds /\ revokeAction[r] \in RevokeRow
  BY DEF TypeInv, CallNamesRows, ArmRevoke, RevokePlaces
<1>2. AssociationsKept /\ AuthsKept
  BY AssociationsUntouched DEF ArmRevoke, AuthsKept
<1>3. /\ \A q \in Processes \ {p} : call'[q] = call[q]
      /\ call'[p].step = "revoke" /\ call'[p].revoke = r
  BY <1>1, MoveType DEF ArmRevoke, Steps
<1>4. /\ revokeAction'[r].attempt = 1
      /\ \A k \in RevokeIds \ {r} : revokeAction'[k] = revokeAction[k]
  BY <1>1 DEF ArmRevoke, TypeOK, RevokeRow
<1>5. /\ UNCHANGED <<authAction, nextRevoke, approvalsSent, revokesSent>>
      /\ revokeAction[r].attempt = 0 /\ revokeAction[r].status = "PENDING"
  BY DEF ArmRevoke, Unarmed, platform
<1>6. revokesSent[r] = 0
  BY <1>1, <1>5 DEF SafetyInv, PostInv, PostedOnceAfterArming, TypeOK
<1>7. \A q \in Processes : call[q].step = "revoke" => call[q].revoke \in RevokeIds \ {r}
  BY <1>5 DEF SafetyInv, PostInv, ArmedBeforePost, TypeInv, CallNamesRows, RevokePlaces
<1>8. ArmedBeforePost'
  BY <1>3, <1>4, <1>5, <1>6, <1>7 DEF SafetyInv, PostInv, ArmedBeforePost
<1>9. OnePoster'
  BY <1>3, <1>7 DEF SafetyInv, PostInv, OnePoster
<1>10. PostedOnceAfterArming'
  BY <1>1, <1>4, <1>5, <1>6 DEF SafetyInv, PostInv, PostedOnceAfterArming
<1>11. FreshRows'
  BY <1>2, <1>4, <1>5 DEF SafetyInv, FreshRows, AssociationsKept, Open, NoRevoke
<1>12. ExclusiveSlots'
  BY <1>2, ExclusiveKept DEF SafetyInv
<1>13. \A k \in RevokeIds : revokeAction[k].status = "SUCCEEDED" =>
                              revokeAction'[k] = revokeAction[k]
  BY <1>4, <1>5
<1> QED BY <1>2, <1>8, <1>9, <1>10, <1>11, <1>12, <1>13 DEF SafetyInv, PostInv

LEMMA SendApproveKeeps ==
  ASSUME NEW p \in Processes, TypeInv, SafetyInv, SendApprove(p)
  PROVE  SafetyInv' /\ AssociationsKept /\ AuthsKept /\ RevokesKept
<1> DEFINE l == call[p].link
<1>1. TypeOK /\ l \in Links
  BY DEF TypeInv, CallNamesRows, SendApprove, AuthPlaces
<1>2. AssociationsKept /\ AuthsKept /\ RevokesKept
  BY DEF SendApprove, database, AssociationsKept, AuthsKept, RevokesKept
<1>3. /\ \A q \in Processes \ {p} : call'[q] = call[q]
      /\ call'[p].step = "approving"
  BY <1>1, MoveType DEF SendApprove, Steps
<1>4. /\ UNCHANGED <<authAction, revokeAction, revokesSent>>
      /\ approvalsSent'[l] = approvalsSent[l] + 1
      /\ \A k \in Links \ {l} : approvalsSent'[k] = approvalsSent[k]
  BY <1>1 DEF SendApprove, database, TypeOK
<1>5. authAction[l].attempt = 1 /\ approvalsSent[l] = 0
  BY DEF SendApprove, SafetyInv, PostInv, ArmedBeforePost
<1>6. \A q \in Processes \ {p} : call[q].step = "approve" => call[q].link \in Links \ {l}
  BY DEF SendApprove, SafetyInv, PostInv, OnePoster, TypeInv, CallNamesRows, AuthPlaces
<1>7. ArmedBeforePost'
  BY <1>3, <1>4, <1>6 DEF SafetyInv, PostInv, ArmedBeforePost
<1>8. OnePoster'
  BY <1>3 DEF SafetyInv, PostInv, OnePoster
<1>9. PostedOnceAfterArming'
  BY <1>4, <1>5 DEF SafetyInv, PostInv, PostedOnceAfterArming
<1> QED BY <1>2, <1>7, <1>8, <1>9, FreshKept, ExclusiveKept DEF SafetyInv, PostInv

LEMMA SendRevokeKeeps ==
  ASSUME NEW p \in Processes, TypeInv, SafetyInv, SendRevoke(p)
  PROVE  SafetyInv' /\ AssociationsKept /\ AuthsKept /\ RevokesKept
<1> DEFINE r == call[p].revoke
<1>1. TypeOK /\ r \in RevokeIds
  BY DEF TypeInv, CallNamesRows, SendRevoke, RevokePlaces
<1>2. AssociationsKept /\ AuthsKept /\ RevokesKept
  BY DEF SendRevoke, database, AssociationsKept, AuthsKept, RevokesKept
<1>3. /\ \A q \in Processes \ {p} : call'[q] = call[q]
      /\ call'[p].step = "revoking"
  BY <1>1, MoveType DEF SendRevoke, Steps
<1>4. /\ UNCHANGED <<authAction, revokeAction, approvalsSent>>
      /\ revokesSent'[r] = revokesSent[r] + 1
      /\ \A k \in RevokeIds \ {r} : revokesSent'[k] = revokesSent[k]
  BY <1>1 DEF SendRevoke, database, TypeOK
<1>5. revokeAction[r].attempt = 1 /\ revokesSent[r] = 0
  BY DEF SendRevoke, SafetyInv, PostInv, ArmedBeforePost
<1>6. \A q \in Processes \ {p} : call[q].step = "revoke" => call[q].revoke \in RevokeIds \ {r}
  BY DEF SendRevoke, SafetyInv, PostInv, OnePoster, TypeInv, CallNamesRows, RevokePlaces
<1>7. ArmedBeforePost'
  BY <1>3, <1>4, <1>6 DEF SafetyInv, PostInv, ArmedBeforePost
<1>8. OnePoster'
  BY <1>3 DEF SafetyInv, PostInv, OnePoster
<1>9. PostedOnceAfterArming'
  BY <1>4, <1>5 DEF SafetyInv, PostInv, PostedOnceAfterArming
<1> QED BY <1>2, <1>7, <1>8, <1>9, FreshKept, ExclusiveKept DEF SafetyInv, PostInv

\* What FinalIsFinal asks of one step.
FinalKept ==
  /\ \A a \in AssociationIds : association[a].state = "ENDED" => association'[a] = association[a]
  /\ \A l \in Links : authAction[l].status = "SUCCEEDED" => authAction'[l] = authAction[l]
  /\ \A r \in RevokeIds : revokeAction[r].status = "SUCCEEDED" => revokeAction'[r] = revokeAction[r]

LEMMA KeptIsFinal ==
  ASSUME AssociationsKept, AuthsKept,
         \A r \in RevokeIds :
           revokeAction[r].status = "SUCCEEDED" => revokeAction'[r] = revokeAction[r]
  PROVE  FinalKept
BY DEF AssociationsKept, AuthsKept, FinalKept, Open

LEMMA QuietFinal ==
  ASSUME AssociationsKept, AuthsKept, RevokesKept
  PROVE  FinalKept
BY KeptIsFinal DEF RevokesKept

\* A new association of a user and a device nobody else holds.
LEMMA NewAssociation ==
  ASSUME NEW u \in Users, NEW d \in Devices \cup {None}, NEW row, row.user = u, row.device = d,
         TypeOK, FreshRows, ExclusiveSlots,
         nextAssociation \in AssociationIds, OpenOf(u) = {}, d # None => HoldersOf(d) = {},
         association' = [association EXCEPT ![nextAssociation] = row],
         nextAssociation' = nextAssociation + 1
  PROVE  /\ ExclusiveSlots'
         /\ \A a \in AssociationIds : a >= nextAssociation' => association'[a].state = "NONE"
         /\ \A a \in AssociationIds : association[a].state = "ENDED" =>
                                        association'[a] = association[a]
<1> DEFINE n == nextAssociation
<1>1. /\ association'[n].user = u /\ association'[n].device = d
      /\ \A a \in AssociationIds \ {n} : association'[a] = association[a]
  BY DEF TypeOK
<1>2. association[n].state = "NONE" /\ n \in Nat
  BY DEF FreshRows, AssociationIds, TypeOK
<1>3. \A a \in AssociationIds : Open(a) => association[a].user # u
  BY DEF OpenOf
<1>4. \A a \in AssociationIds : Open(a) /\ association[a].device = d => d = None
  BY DEF HoldersOf
<1>5. ExclusiveSlots'
  BY <1>1, <1>3, <1>4 DEF ExclusiveSlots, Open
<1>6. \A a \in AssociationIds : a >= n + 1 => a # n /\ a >= n
  BY <1>2 DEF AssociationIds
<1> QED BY <1>1, <1>2, <1>5, <1>6 DEF FreshRows

LEMMA AuthReserveKeeps ==
  ASSUME NEW p \in Requests, NEW u \in Users, NEW l \in Links, TypeInv, SafetyInv,
         AuthReserve(p, u, l)
  PROVE  SafetyInv' /\ FinalKept
<1> DEFINE row == [NoAssociation EXCEPT !.state = "PENDING_AUTH", !.user = u]
<1>1. TypeOK /\ p \in Processes
  BY DEF TypeInv, Processes
<1>2. nextAssociation \in AssociationIds
  BY <1>1, BoundAssumption DEF AuthReserve, TypeOK, AssociationIds
<1>3. /\ association' = [association EXCEPT ![nextAssociation] = row]
      /\ row.user = u /\ row.device = None
  BY DEF AuthReserve, NoAssociation
<1> HIDE DEF row
<1>4. /\ ExclusiveSlots'
      /\ \A a \in AssociationIds : a >= nextAssociation' => association'[a].state = "NONE"
      /\ \A a \in AssociationIds : association[a].state = "ENDED" =>
                                     association'[a] = association[a]
  BY <1>1, <1>2, <1>3, NewAssociation DEF AuthReserve, SafetyInv
<1>5. AuthsKept
  BY <1>1 DEF AuthReserve, TypeOK, AuthsKept, NoAuth, AuthRow, Statuses
<1>6. UNCHANGED <<revokeAction, nextRevoke, approvalsSent, revokesSent>>
  BY DEF AuthReserve, platform
<1>7. PostsKept
  BY <1>1, <1>6 DEF AuthReserve, TypeOK, PostsKept, Idle
<1>8. PostInv'
  BY <1>5, <1>6, <1>7, PostKept DEF SafetyInv, AuthsKept
<1> QED BY <1>4, <1>5, <1>6, <1>8 DEF SafetyInv, FreshRows, FinalKept, AuthsKept

LEMMA AdminAssociateKeeps ==
  ASSUME NEW p \in Processes, TypeInv, SafetyInv, AdminAssociate(p)
  PROVE  SafetyInv' /\ FinalKept
<1> DEFINE u == call[p].user
           d == call[p].device
           row == [NoAssociation EXCEPT !.state = "ACTIVE", !.user = u, !.device = d]
<1>1. TypeOK /\ u \in Users /\ d \in Devices
  BY DEF TypeInv, CallNamesRows, AdminAssociate, AdminPlaces
<1>2. nextAssociation \in AssociationIds
  BY <1>1, BoundAssumption DEF AdminAssociate, TypeOK, AssociationIds
<1>3. /\ association' = [association EXCEPT ![nextAssociation] = row]
      /\ row.user = u /\ row.device = d
      /\ OpenOf(u) = {} /\ HoldersOf(d) = {} /\ nextAssociation' = nextAssociation + 1
  BY DEF AdminAssociate, NoAssociation
<1> HIDE DEF row
<1>4. /\ ExclusiveSlots'
      /\ \A a \in AssociationIds : a >= nextAssociation' => association'[a].state = "NONE"
      /\ \A a \in AssociationIds : association[a].state = "ENDED" =>
                                     association'[a] = association[a]
  BY <1>1, <1>2, <1>3, NewAssociation DEF SafetyInv
<1>5. UNCHANGED <<authAction, revokeAction, nextRevoke, approvalsSent, revokesSent>>
  BY DEF AdminAssociate
<1>6. PostsKept
  BY <1>1, <1>5, ReturnPosts DEF AdminAssociate
<1>7. PostInv'
  BY <1>5, <1>6, PostKept DEF SafetyInv
<1> QED BY <1>4, <1>5, <1>7 DEF SafetyInv, FreshRows, FinalKept

LEMMA FinalizeApprovalKeeps ==
  ASSUME NEW p \in Processes, TypeInv, SafetyInv, FinalizeApproval(p)
  PROVE  SafetyInv' /\ FinalKept
<1> DEFINE l == call[p].link
           a == authAction[l].assoc
           d == granted[l]
<1>1. TypeOK /\ l \in Links /\ authAction[l] \in AuthRow /\ d \in Devices
  BY DEF TypeInv, CallNamesRows, FinalizeApproval, AuthPlaces, GrantNamesDevice
<1>2. a \in AssociationIds
  BY <1>1 DEF AuthRow
<1>3. /\ association[a].state \in {"PENDING_AUTH", "UNKNOWN"}
      /\ authAction[l].status \in Unresolved
      /\ HoldersOf(d) \subseteq {a}
  BY DEF FinalizeApproval, Conflict
<1>4. /\ association'[a].user = association[a].user /\ association'[a].device = d
      /\ association'[a].state = "ACTIVE"
      /\ \A b \in AssociationIds \ {a} : association'[b] = association[b]
  <2>1. association \in [AssociationIds -> AssociationRow]
    BY <1>1 DEF TypeOK
  <2> QED BY <1>2, <2>1 DEF FinalizeApproval, AssociationRow
<1>5. Open(a) /\ \A b \in AssociationIds : Open(b) /\ association[b].device = d => b = a
  BY <1>3 DEF Open, HoldersOf
<1>6. ExclusiveSlots'
  <2>1. SUFFICES ASSUME NEW b \in AssociationIds, NEW c \in AssociationIds, b # c,
                        Open(b)', Open(c)'
                 PROVE  /\ association'[b].user # association'[c].user
                        /\ association'[b].device = association'[c].device =>
                             association'[b].device = None
    BY DEF ExclusiveSlots
  <2>2. Open(b) /\ Open(c)
    BY <1>4, <1>5, <2>1 DEF Open
  <2> QED BY <1>4, <1>5, <2>1, <2>2, SMTT(15), ZenonT(40) DEF SafetyInv, ExclusiveSlots
<1>7. AuthsKept
  <2>1. \E status, target :
          \/ authAction' = [authAction EXCEPT ![l].status = status]
          \/ authAction' = [authAction EXCEPT ![l].status = status, ![l].target = target]
    BY Zenon DEF FinalizeApproval
  <2> QED BY <1>1, <1>3, <2>1, AuthEditKeeps DEF Unresolved
<1>8. UNCHANGED <<revokeAction, nextRevoke, nextAssociation, approvalsSent, revokesSent>>
  BY DEF FinalizeApproval
<1>9. PostsKept
  BY <1>1, <1>8, ReturnPosts DEF FinalizeApproval
<1>10. PostInv'
  BY <1>7, <1>8, <1>9, PostKept DEF SafetyInv, AuthsKept
<1>11. FreshRows'
  BY <1>3, <1>4, <1>8 DEF SafetyInv, FreshRows
<1>12. FinalKept
  BY <1>3, <1>4, <1>7, <1>8 DEF FinalKept, AuthsKept
<1> QED BY <1>6, <1>10, <1>11, <1>12 DEF SafetyInv

LEMMA RevokeReserveKeeps ==
  ASSUME NEW p \in Processes, NEW a \in AssociationIds, NEW reason \in RevokeReasons,
         TypeInv, SafetyInv, RevokeReserve(p, a, reason)
  PROVE  SafetyInv' /\ FinalKept
<1> DEFINE r == nextRevoke
<1>1. TypeOK
  BY DEF TypeInv
<1>2. r \in RevokeIds /\ r \in Nat
  BY <1>1, BoundAssumption DEF RevokeReserve, TypeOK, RevokeIds
<1>3. revokeAction[r] = NoRevoke
  BY <1>2 DEF SafetyInv, FreshRows, RevokeIds
<1>4. /\ revokeAction'[r].attempt = 0
      /\ \A k \in RevokeIds \ {r} : revokeAction'[k] = revokeAction[k]
  BY <1>1, <1>2 DEF RevokeReserve, TypeOK, NoRevoke
<1>5. AssociationsKept
  <2>1. association \in [AssociationIds -> AssociationRow]
    BY <1>1 DEF TypeOK
  <2>2. \E state, why :
          \/ association' = [association EXCEPT ![a].state = state]
          \/ association' = [association EXCEPT ![a].state = state, ![a].reason = why]
    <3>1. PICK why : association' = [association EXCEPT ![a].state = "PENDING_REVOKE",
                                                        ![a].reason = why]
      BY <2>1 DEF RevokeReserve, AssociationRow
    <3> QED BY <3>1, Zenon
  <2>3. Open(a) /\ nextAssociation' = nextAssociation
    BY DEF RevokeReserve, Open
  <2> QED BY <1>1, <2>2, <2>3, AssociationEditKeeps
<1>6. UNCHANGED <<authAction, approvalsSent, revokesSent>> /\ nextRevoke' = r + 1
  BY DEF RevokeReserve, platform
<1>7. PostsKept
  BY <1>1, <1>6 DEF RevokeReserve, TypeOK, PostsKept, Idle
<1>8. PostInv'
  BY <1>3, <1>4, <1>6, <1>7, PostKept DEF SafetyInv, NoRevoke
<1>9. FreshRows'
  <2>1. \A k \in RevokeIds : k >= r + 1 => k # r /\ k >= r
    BY <1>2 DEF RevokeIds
  <2> QED BY <1>4, <1>5, <1>6, <2>1 DEF SafetyInv, FreshRows, AssociationsKept, Open
<1>10. FinalKept
  BY <1>3, <1>4, <1>5, <1>6, KeptIsFinal DEF AuthsKept, NoRevoke
<1> QED BY <1>5, <1>8, <1>9, <1>10, ExclusiveKept DEF SafetyInv

LEMMA NextSafety ==
  ASSUME TypeInv, SafetyInv, [Next]_vars
  PROVE  SafetyInv' /\ FinalKept
<1>1. CASE Quiet
  BY <1>1, QuietSafety, QuietFinal DEF Quiet
<1>2. ASSUME NEW p \in Requests, NEW u \in Users, NEW l \in Links, AuthReserve(p, u, l)
      PROVE  SafetyInv' /\ FinalKept
  BY <1>2, AuthReserveKeeps
<1>3. ASSUME NEW p \in Processes, NEW a \in AssociationIds, NEW reason \in RevokeReasons,
             RevokeReserve(p, a, reason)
      PROVE  SafetyInv' /\ FinalKept
  BY <1>3, RevokeReserveKeeps
<1>4. ASSUME NEW p \in Processes, CallSteps(p)
      PROVE  SafetyInv' /\ FinalKept
  <2>1. CASE AuthArm(p)
    <3>1. AssociationsKept /\ RevokesKept
      BY <2>1, ArmKeeps
    <3>2. \A k \in Links : authAction[k].status = "SUCCEEDED" => authAction'[k] = authAction[k]
      BY <2>1 DEF AuthArm, TypeInv, TypeOK
    <3>3. FinalKept
      BY <3>1, <3>2 DEF FinalKept, AssociationsKept, RevokesKept, Open
    <3> QED BY <2>1, <3>3, ArmKeeps
  <2>2. CASE SendApprove(p)
    BY <2>2, SendApproveKeeps, QuietFinal
  <2>3. CASE FinalizeApproval(p)
    BY <2>3, FinalizeApprovalKeeps
  <2>4. CASE AdminAssociate(p)
    BY <2>4, AdminAssociateKeeps
  <2>5. CASE ArmRevoke(p)
    <3>1. CASE Unarmed(call[p].revoke)
      BY <2>5, <3>1, ArmRevokeKeeps, KeptIsFinal
    <3>2. CASE ~Unarmed(call[p].revoke)
      <4>1. /\ Return(p) /\ call[p].step \in RevokePlaces
            /\ UNCHANGED <<authAction, nextAssociation, nextRevoke, deviceRow, platform, faults>>
            /\ \/ UNCHANGED <<revokeAction, association>>
               \/ /\ revokeAction[call[p].revoke].status # "SUCCEEDED"
                  /\ MarkRevokeUnknown(call[p].revoke)
        BY <2>5, <3>2 DEF ArmRevoke, RevokePlaces
      <4>2. Quiet
        BY <4>1, RevokeOutcomeQuiet
      <4> QED BY <1>1, <4>2
    <3> QED BY <3>1, <3>2
  <2>6. CASE SendRevoke(p)
    BY <2>6, SendRevokeKeeps, QuietFinal
  <2>7. CASE QuietSteps(p)
    BY <1>1, <2>7, QuietStepsAre
  <2> QED BY <1>4, <2>1, <2>2, <2>3, <2>4, <2>5, <2>6, <2>7
          DEF CallSteps, AuthSteps, AdminSteps, RevokeSteps, QuietSteps
<1>5. ASSUME \/ \E l \in Links : AuthReplay(l)
             \/ \E a \in AssociationIds : RevokeReplay(a)
             \/ \E p \in Requests, u \in Users, d \in Devices : AdminQualify(p, u, d)
             \/ \E p \in Schedulers, r \in RevokeIds :
                  QuotaResume(p, r) \/ QuotaWithdraw(p, r) \/ ReconcilePrepare(p, r)
             \/ Platform \/ Restart \/ UNCHANGED vars
      PROVE  SafetyInv' /\ FinalKept
  BY <1>1, <1>5, OtherQuiet
<1> QED BY <1>2, <1>3, <1>4, <1>5 DEF Next

LEMMA SafetyInvariant == Spec => []SafetyInv
<1>1. TypeInv /\ SafetyInv /\ [Next]_vars => SafetyInv'
  BY NextSafety
<1> QED BY <1>1, InitSafety, TypeInvariant, PTL DEF Spec

-----------------------------------------------------------------------------
(* The theorems. *)

\* No replay, restart, resumption, second command or reconciliation makes the bot
\* send an approve or a revoke POST twice, or before its attempt is committed.
THEOREM PostedOnce == Spec => []PostedOnceAfterArming
<1>1. SafetyInv => PostedOnceAfterArming
  BY DEF SafetyInv, PostInv
<1> QED BY <1>1, SafetyInvariant, PTL

\* In every interleaving of approvals, /authuser and revocations a user has at most
\* one open association and a device at most one open holder.
THEOREM SlotsExclusive == Spec => []ExclusiveSlots
<1>1. SafetyInv => ExclusiveSlots
  BY DEF SafetyInv
<1> QED BY <1>1, SafetyInvariant, PTL

\* Late answers, replays and restarts never reopen an ended association or take
\* back a success that is on record.
THEOREM FinalStaysFinal == Spec => FinalIsFinal
<1>1. TypeInv /\ SafetyInv /\ [Next]_vars => FinalKept
  BY NextSafety
<1>2. Spec => [][FinalKept]_vars
  BY <1>1, TypeInvariant, SafetyInvariant, PTL DEF Spec
<1> QED BY <1>2 DEF FinalIsFinal, FinalKept
=============================================================================
