--------------------------- MODULE DeviceLifecycle ---------------------------
(***************************************************************************)
(* The life of a device association: authorization by link (/auth),        *)
(* association of an already authorized device (/authuser), revocation     *)
(* (/deauth, /deauthuser and automatic quota revocation) and the           *)
(* background reconciliation of revocations whose outcome is not known.    *)
(*                                                                         *)
(* Every service method is a chain of database transactions with network   *)
(* awaits between them.  A transaction locks the task scope, the user, the *)
(* association and the action, in that order, and is one atomic step here; *)
(* a call keeps its place between two transactions in call[p].  A restart  *)
(* of the process forgets every call and nothing else.                     *)
(***************************************************************************)
EXTENDS Naturals, FiniteSets

CONSTANTS
  Users,            \* local users
  Devices,          \* device ids of the organization on the platform
  Links,            \* authorization links; the fingerprint is the AUTH action's key
  Requests,         \* slots for concurrent bot commands
  Schedulers,       \* background loops; a deployment has one
  None,             \* SQL NULL
  MaxAssociations,  \* bound: association rows ever created
  MaxRevokes,       \* bound: REVOKE rows ever created
  MaxFaults,        \* bound: restarts and failed transactions or inventory reads
  ConsoleRevokes    \* may somebody revoke a device outside the bot?

ASSUME NoneAssumption ==
  /\ None \notin Users /\ None \notin Devices /\ None \notin Links
  /\ None \notin Nat /\ None # "QUOTA"
ASSUME ProcessAssumption == Requests \cap Schedulers = {} /\ \A s, t \in Schedulers : s = t
ASSUME BoundAssumption ==
  MaxAssociations \in Nat /\ MaxRevokes \in Nat /\ MaxFaults \in Nat
ASSUME ConsoleAssumption == ConsoleRevokes \in BOOLEAN

VARIABLES
  association,      \* DeviceAssociation rows
  authAction,       \* DeviceAction rows of kind AUTH, by link
  revokeAction,     \* DeviceAction rows of kind REVOKE
  nextAssociation,  \* autoincrement of the association ids
  nextRevoke,       \* autoincrement of the REVOKE ids
  deviceRow,        \* Device rows: revoked_at is NULL in a "live" row
  call,             \* where each command and background loop stands
  authorized,       \* platform: the devices that hold an authorization
  approval,         \* platform: the approve POST of each link
  revocation,       \* platform: the revoke POST of each REVOKE action
  granted,          \* platform: the device an approve POST was granted for
  approvalsSent,    \* history: approve POSTs sent, by link
  revokesSent,      \* history: revoke POSTs sent, by REVOKE action
  managed,          \* history: devices authorized or associated through the bot
  disturbed,        \* history: devices revoked at the console, or associated after
                    \* they had been revoked
  faults            \* restarts and failures so far

database == <<association, authAction, revokeAction, nextAssociation, nextRevoke, deviceRow>>
platform == <<authorized, approval, revocation, granted, managed, disturbed, approvalsSent,
              revokesSent>>
vars == <<database, call, platform, faults>>

-----------------------------------------------------------------------------
(* Rows and calls. *)

AssociationIds == 1 .. MaxAssociations
RevokeIds == 1 .. MaxRevokes
Processes == Requests \cup Schedulers

Statuses == {"PENDING", "UNKNOWN", "SUCCEEDED", "FAILED"}
Unresolved == {"PENDING", "UNKNOWN"}
States == {"NONE", "PENDING_AUTH", "ACTIVE", "PENDING_REVOKE", "UNKNOWN", "ENDED"}
RevokeReasons == {"USER_DEAUTH", "ADMIN_DEAUTH", "QUOTA"}
Reasons == RevokeReasons \cup {"AUTH_FAILED"}
PostStates == {"unsent", "sent", "granted", "denied", "done"}
Steps == {"idle", "describe", "abort", "approve", "approving", "authFailed",
          "armRevoke", "revoke", "revoking", "list", "confirmed", "markUnknown",
          "adminList", "adminCommit"}

AssociationRow == [state : States, user : Users \cup {None},
                   device : Devices \cup {None}, reason : Reasons \cup {None}]
AuthRow == [status : Statuses, assoc : AssociationIds, attempt : {0, 1},
            target : Devices \cup {None}]
RevokeRow == [status : Statuses, assoc : AssociationIds, attempt : {0, 1},
              target : Devices, reason : RevokeReasons]
Call == [step : Steps, link : Links \cup {None}, revoke : RevokeIds \cup {None},
         user : Users \cup {None}, device : Devices \cup {None},
         reason : Reasons \cup {None}]

NoAssociation == [state |-> "NONE", user |-> None, device |-> None, reason |-> None]
NoAuth == [status |-> "NONE", assoc |-> None, attempt |-> 0, target |-> None]
NoRevoke == [status |-> "NONE", assoc |-> None, attempt |-> 0, target |-> None,
             reason |-> None]
Idle == [step |-> "idle", link |-> None, revoke |-> None, user |-> None,
         device |-> None, reason |-> None]

\* A row that exists is complete: a REVOKE row has its association, its device and
\* the reason its audit entry names.
TypeOK ==
  /\ association \in [AssociationIds -> AssociationRow]
  /\ authAction \in [Links -> AuthRow \cup {NoAuth}]
  /\ revokeAction \in [RevokeIds -> RevokeRow \cup {NoRevoke}]
  /\ nextAssociation \in 1 .. MaxAssociations + 1
  /\ nextRevoke \in 1 .. MaxRevokes + 1
  /\ deviceRow \in [Devices -> {"absent", "live", "revoked"}]
  /\ call \in [Processes -> Call]
  /\ authorized \subseteq Devices
  /\ approval \in [Links -> PostStates]
  /\ revocation \in [RevokeIds -> PostStates]
  /\ granted \in [Links -> Devices \cup {None}]
  /\ approvalsSent \in [Links -> Nat]
  /\ revokesSent \in [RevokeIds -> Nat]
  /\ managed \subseteq Devices
  /\ disturbed \subseteq Devices
  /\ faults \in 0 .. MaxFaults

Open(a) == association[a].state \notin {"NONE", "ENDED"}
OpenOf(u) == {a \in AssociationIds : Open(a) /\ association[a].user = u}
HoldersOf(d) == {a \in AssociationIds : Open(a) /\ association[a].device = d}

RevokesOf(a) == {r \in RevokeIds : revokeAction[r].assoc = a}
IsLatest(r, a) == r \in RevokesOf(a) /\ \A q \in RevokesOf(a) : q <= r

\* Both rows of an action move together; an association that has ended keeps its state.
Doubted(a) == IF Open(a) THEN [association EXCEPT ![a].state = "UNKNOWN"] ELSE association
Ended(a, reason) ==
  IF Open(a) THEN [association EXCEPT ![a].state = "ENDED", ![a].reason = reason]
  ELSE association

MarkAuthUnknown(l, target) ==
  /\ authAction' = [authAction EXCEPT ![l].status = "UNKNOWN", ![l].target = target]
  /\ association' = Doubted(authAction[l].assoc)
MarkAuthFailed(l) ==
  /\ authAction' = [authAction EXCEPT ![l].status = "FAILED"]
  /\ association' = Ended(authAction[l].assoc, "AUTH_FAILED")
MarkRevokeUnknown(r) ==
  /\ revokeAction' = [revokeAction EXCEPT ![r].status = "UNKNOWN"]
  /\ association' = Doubted(revokeAction[r].assoc)

Init ==
  /\ association = [a \in AssociationIds |-> NoAssociation]
  /\ authAction = [l \in Links |-> NoAuth]
  /\ revokeAction = [r \in RevokeIds |-> NoRevoke]
  /\ nextAssociation = 1
  /\ nextRevoke = 1
  /\ deviceRow = [d \in Devices |-> "absent"]
  /\ call = [p \in Processes |-> Idle]
  /\ authorized \in SUBSET Devices       \* devices approved before the bot was used
  /\ approval = [l \in Links |-> "unsent"]
  /\ revocation = [r \in RevokeIds |-> "unsent"]
  /\ granted = [l \in Links |-> None]
  /\ approvalsSent = [l \in Links |-> 0]
  /\ revokesSent = [r \in RevokeIds |-> 0]
  /\ managed = {}
  /\ disturbed = {}
  /\ faults = 0

Move(p, step) == call' = [call EXCEPT ![p].step = step]
Return(p) == call' = [call EXCEPT ![p] = Idle]
Fault == faults < MaxFaults /\ faults' = faults + 1

\* The client sends one request at a time: the next one waits for the answer, the
\* error or the timeout of a POST that is under way.
LineBusy ==
  \E p \in Processes :
    \/ call[p].step = "approving" /\ approval[call[p].link] = "sent"
    \/ call[p].step = "revoking" /\ revocation[call[p].revoke] = "sent"

-----------------------------------------------------------------------------
(* /auth: reserve, describe, arm, approve, record the outcome. *)

\* A new link of a user without an open association: the association and its
\* AUTH action are written before anything is asked of the platform.  A user
\* who fails the scope or quota check leaves no trace.
AuthReserve(p, u, l) ==
  /\ call[p] = Idle
  /\ authAction[l].status = "NONE"
  /\ OpenOf(u) = {}
  /\ nextAssociation <= MaxAssociations
  /\ association' = [association EXCEPT ![nextAssociation] =
                       [NoAssociation EXCEPT !.state = "PENDING_AUTH", !.user = u]]
  /\ authAction' = [authAction EXCEPT ![l] =
                      [NoAuth EXCEPT !.status = "PENDING", !.assoc = nextAssociation]]
  /\ nextAssociation' = nextAssociation + 1
  /\ call' = [call EXCEPT ![p] = [Idle EXCEPT !.step = "describe", !.link = l]]
  /\ UNCHANGED <<revokeAction, nextRevoke, deviceRow, platform, faults>>

\* The same link again while its approve POST may be under way: the outcome is
\* declared unknown, the link is not approved a second time.
AuthReplay(l) ==
  /\ authAction[l].status = "PENDING" /\ authAction[l].attempt > 0
  /\ MarkAuthUnknown(l, authAction[l].target)
  /\ UNCHANGED <<revokeAction, nextAssociation, nextRevoke, deviceRow, call, platform, faults>>

\* The link cannot be described, or the arming transaction refuses or fails.
AuthGiveUp(p) ==
  /\ call[p].step = "describe"
  /\ Move(p, "abort")
  /\ UNCHANGED <<database, platform, faults>>

\* The attempt is committed before the POST.
AuthArm(p) ==
  LET l == call[p].link
      a == authAction[l].assoc
  IN /\ call[p].step = "describe"
     /\ authAction[l].status = "PENDING" /\ authAction[l].attempt = 0
     /\ association[a].state = "PENDING_AUTH"
     /\ OpenOf(association[a].user) = {a}
     /\ authAction' = [authAction EXCEPT ![l].attempt = 1]
     /\ Move(p, "approve")
     /\ UNCHANGED <<association, revokeAction, nextAssociation, nextRevoke, deviceRow,
                    platform, faults>>

\* Nothing was sent: the reservation is given back.
AuthAbort(p) ==
  LET l == call[p].link
  IN /\ call[p].step = "abort"
     /\ CASE authAction[l].status # "PENDING" -> UNCHANGED <<authAction, association>>
          [] authAction[l].status = "PENDING" /\ authAction[l].attempt > 0 ->
               MarkAuthUnknown(l, authAction[l].target)
          [] OTHER -> MarkAuthFailed(l)
     /\ Return(p)
     /\ UNCHANGED <<revokeAction, nextAssociation, nextRevoke, deviceRow, platform, faults>>

SendApprove(p) ==
  LET l == call[p].link
  IN /\ call[p].step = "approve" /\ ~LineBusy
     /\ approval' = [approval EXCEPT ![l] = "sent"]
     /\ approvalsSent' = [approvalsSent EXCEPT ![l] = @ + 1]
     /\ Move(p, "approving")
     /\ UNCHANGED <<database, authorized, revocation, granted, managed, disturbed, revokesSent,
                    faults>>

\* The authentication circuit is open, the request times out, the response is
\* invalid: the outcome of the POST is not known to the bot.
ApproveRaises(p) ==
  /\ call[p].step \in {"approve", "approving"}
  /\ Move(p, "authFailed")
  /\ UNCHANGED <<database, platform, faults>>

\* The platform answers that the device limit is reached: nothing was approved.
ApproveDenied(p) ==
  LET l == call[p].link
  IN /\ call[p].step = "approving" /\ approval[l] = "denied"
     /\ IF authAction[l].status = "SUCCEEDED" THEN UNCHANGED <<authAction, association>>
        ELSE MarkAuthFailed(l)
     /\ Return(p)
     /\ UNCHANGED <<revokeAction, nextAssociation, nextRevoke, deviceRow, platform, faults>>

\* Seeded bug: nobody asks whether another open association holds the device.
Conflict_IgnoresHolder(l, a, d) ==
  \/ authAction[l].attempt # 1 \/ authAction[l].status \notin Unresolved
  \/ association[a].state \notin {"PENDING_AUTH", "UNKNOWN"}
  \/ OpenOf(association[a].user) # {a}

\* May association a, with its AUTH action at link l, take device d?
Conflict(l, a, d) ==
  \/ authAction[l].attempt # 1 \/ authAction[l].status \notin Unresolved
  \/ association[a].state \notin {"PENDING_AUTH", "UNKNOWN"}
  \/ OpenOf(association[a].user) # {a}
  \/ HoldersOf(d) \ {a} # {}

FinalizeApproval(p) ==
  LET l == call[p].link
      a == authAction[l].assoc
      d == granted[l]
  IN /\ call[p].step = "approving" /\ approval[l] = "granted"
     /\ ~Conflict(l, a, d)
     /\ deviceRow' = [deviceRow EXCEPT ![d] = "live"]
     /\ association' = [association EXCEPT ![a].state = "ACTIVE", ![a].device = d]
     /\ authAction' = [authAction EXCEPT ![l].status = "SUCCEEDED", ![l].target = d]
     /\ disturbed' = IF d \in authorized THEN disturbed ELSE disturbed \cup {d}
     /\ Return(p)
     /\ UNCHANGED <<revokeAction, nextAssociation, nextRevoke, authorized, approval, revocation,
                    granted, managed, approvalsSent, revokesSent, faults>>

\* Approved, but the user or the device is taken: the reservation stays, in doubt.
ApprovalConflict(p) ==
  LET l == call[p].link
  IN /\ call[p].step = "approving" /\ approval[l] = "granted"
     /\ Conflict(l, authAction[l].assoc, granted[l])
     /\ IF authAction[l].status = "SUCCEEDED" THEN UNCHANGED <<authAction, association>>
        ELSE MarkAuthUnknown(l, granted[l])
     /\ Return(p)
     /\ UNCHANGED <<revokeAction, nextAssociation, nextRevoke, deviceRow, platform, faults>>

\* The transaction that records the approval fails and is rolled back.
FinalizeApprovalFails(p) ==
  LET l == call[p].link
  IN /\ call[p].step = "approving" /\ approval[l] = "granted"
     /\ call' = [call EXCEPT ![p].step = "authFailed", ![p].device = granted[l]]
     /\ Fault
     /\ UNCHANGED <<database, platform>>

\* Seeded bug: a timed out approval is taken for a failed one.
RecordAuthUnknown_Fails(p) ==
  LET l == call[p].link
  IN /\ call[p].step = "authFailed"
     /\ IF authAction[l].status = "SUCCEEDED" THEN UNCHANGED <<authAction, association>>
        ELSE MarkAuthFailed(l)
     /\ Return(p)
     /\ UNCHANGED <<revokeAction, nextAssociation, nextRevoke, deviceRow, platform, faults>>

RecordAuthUnknown(p) ==
  LET l == call[p].link
      target == IF call[p].device = None THEN authAction[l].target ELSE call[p].device
  IN /\ call[p].step = "authFailed"
     /\ IF authAction[l].status = "SUCCEEDED" THEN UNCHANGED <<authAction, association>>
        ELSE MarkAuthUnknown(l, target)
     /\ Return(p)
     /\ UNCHANGED <<revokeAction, nextAssociation, nextRevoke, deviceRow, platform, faults>>

-----------------------------------------------------------------------------
(* /authuser: a device the platform already lists as authorized. *)

AdminQualify(p, u, d) ==
  /\ call[p] = Idle
  /\ OpenOf(u) = {} /\ HoldersOf(d) = {}
  /\ call' = [call EXCEPT ![p] = [Idle EXCEPT !.step = "adminList", !.user = u, !.device = d]]
  /\ UNCHANGED <<database, platform, faults>>

\* The inventory is read outside any transaction.
AdminList(p) ==
  /\ call[p].step = "adminList" /\ ~LineBusy
  /\ IF call[p].device \in authorized THEN Move(p, "adminCommit") ELSE Return(p)
  /\ UNCHANGED <<database, platform, faults>>

\* Seeded bug: the qualification is not checked again after the inventory is read.
AdminAssociate_Unchecked(p) ==
  LET d == call[p].device
  IN /\ call[p].step = "adminCommit"
     /\ nextAssociation <= MaxAssociations
     /\ deviceRow' = [deviceRow EXCEPT ![d] = "live"]
     /\ association' = [association EXCEPT ![nextAssociation] =
                          [NoAssociation EXCEPT !.state = "ACTIVE", !.user = call[p].user,
                                                !.device = d]]
     /\ nextAssociation' = nextAssociation + 1
     /\ managed' = managed \cup {d}
     /\ Return(p)
     /\ UNCHANGED <<authAction, revokeAction, nextRevoke, authorized, approval, revocation,
                    granted, disturbed, approvalsSent, revokesSent, faults>>

\* The qualification is checked again; the inventory is not.
AdminAssociate(p) ==
  LET u == call[p].user
      d == call[p].device
  IN /\ call[p].step = "adminCommit"
     /\ OpenOf(u) = {} /\ HoldersOf(d) = {}
     /\ nextAssociation <= MaxAssociations
     /\ deviceRow' = [deviceRow EXCEPT ![d] = "live"]
     /\ association' = [association EXCEPT ![nextAssociation] =
                          [NoAssociation EXCEPT !.state = "ACTIVE", !.user = u, !.device = d]]
     /\ nextAssociation' = nextAssociation + 1
     /\ managed' = managed \cup {d}
     /\ disturbed' = IF d \in authorized THEN disturbed ELSE disturbed \cup {d}
     /\ Return(p)
     /\ UNCHANGED <<authAction, revokeAction, nextRevoke, authorized, approval, revocation,
                    granted, approvalsSent, revokesSent, faults>>

\* The second check finds the user or the device taken, or the transaction fails.
AdminReject(p) ==
  /\ call[p].step = "adminCommit"
  /\ Return(p)
  /\ UNCHANGED <<database, platform, faults>>

-----------------------------------------------------------------------------
(* /deauth, /deauthuser and the quota loop: reserve, sample, arm, revoke,  *)
(* record the outcome.  Whether a quota revocation is still due is decided *)
(* by the ledger, the cycle and the task, which this module leaves open.   *)

Asks(p, reason) ==
  IF p \in Schedulers THEN reason = "QUOTA" ELSE reason \in {"USER_DEAUTH", "ADMIN_DEAUTH"}

\* Seeded bug: the reservation does not ask for a confirmed association.
RevokeReserve_AnyState(p, a, reason) ==
  /\ call[p] = Idle /\ Asks(p, reason)
  /\ Open(a) /\ RevokesOf(a) = {}
  /\ nextRevoke <= MaxRevokes
  /\ association' = [association EXCEPT ![a].state = "PENDING_REVOKE"]
  /\ revokeAction' = [revokeAction EXCEPT ![nextRevoke] =
                        [NoRevoke EXCEPT !.status = "PENDING", !.assoc = a,
                           !.target = association[a].device, !.reason = reason]]
  /\ nextRevoke' = nextRevoke + 1
  /\ call' = [call EXCEPT ![p] = [Idle EXCEPT !.step = "armRevoke", !.revoke = nextRevoke,
                                              !.reason = reason]]
  /\ UNCHANGED <<authAction, nextAssociation, deviceRow, platform, faults>>

\* No revocation of the association is on record, or only withdrawn ones.
RevokeReserve(p, a, reason) ==
  /\ call[p] = Idle /\ Asks(p, reason)
  /\ association[a].state = "ACTIVE"
  /\ \A r \in RevokesOf(a) : IsLatest(r, a) => revokeAction[r].status = "FAILED"
  /\ nextRevoke <= MaxRevokes
  /\ association' = [association EXCEPT ![a].state = "PENDING_REVOKE",
                       ![a].reason = IF reason = "QUOTA" THEN "QUOTA" ELSE @]
  /\ revokeAction' = [revokeAction EXCEPT ![nextRevoke] =
                        [NoRevoke EXCEPT !.status = "PENDING", !.assoc = a,
                           !.target = association[a].device, !.reason = reason]]
  /\ nextRevoke' = nextRevoke + 1
  /\ call' = [call EXCEPT ![p] = [Idle EXCEPT !.step = "armRevoke", !.revoke = nextRevoke,
                                              !.reason = reason]]
  /\ UNCHANGED <<authAction, nextAssociation, deviceRow, platform, faults>>

\* Asking again while the revoke POST may be under way only records the doubt.
RevokeReplay(a) ==
  \E r \in RevokesOf(a) :
    /\ IsLatest(r, a) /\ Open(a)
    /\ revokeAction[r].status = "PENDING" /\ revokeAction[r].attempt > 0
    /\ MarkRevokeUnknown(r)
    /\ UNCHANGED <<authAction, nextAssociation, nextRevoke, deviceRow, call, platform, faults>>

Unarmed(r) ==
  /\ revokeAction[r].status = "PENDING" /\ revokeAction[r].attempt = 0
  /\ association[revokeAction[r].assoc].state = "PENDING_REVOKE"

\* A quota revocation that was reserved and never armed (the process restarted).
Resumable(r, a) ==
  /\ IsLatest(r, a)
  /\ Unarmed(r) /\ association[a].reason = "QUOTA"

\* Seeded bug: the withdrawn reservation is not given back to the association.
Withdraw_KeepsState(r) ==
  /\ revokeAction' = [revokeAction EXCEPT ![r].status = "FAILED"]
  /\ UNCHANGED association

Withdraw(r) ==
  /\ revokeAction' = [revokeAction EXCEPT ![r].status = "FAILED"]
  /\ association' = [association EXCEPT ![revokeAction[r].assoc].state = "ACTIVE",
                                        ![revokeAction[r].assoc].reason = None]

QuotaResume(p, r) ==
  /\ p \in Schedulers /\ call[p] = Idle
  /\ revokeAction[r].assoc # None /\ Resumable(r, revokeAction[r].assoc)
  /\ call' = [call EXCEPT ![p] = [Idle EXCEPT !.step = "armRevoke", !.revoke = r,
                                              !.reason = "QUOTA"]]
  /\ UNCHANGED <<database, platform, faults>>

QuotaWithdraw(p, r) ==
  /\ p \in Schedulers /\ call[p] = Idle
  /\ revokeAction[r].assoc # None /\ Resumable(r, revokeAction[r].assoc)
  /\ Withdraw(r)
  /\ UNCHANGED <<authAction, nextAssociation, nextRevoke, deviceRow, call, platform, faults>>

\* Between the reservation and this step the device's usage is sampled.  An action
\* that somebody else armed, withdrew or finished meanwhile is not armed again.
ArmRevoke(p) ==
  LET r == call[p].revoke
  IN /\ call[p].step = "armRevoke"
     /\ IF Unarmed(r)
        THEN /\ revokeAction' = [revokeAction EXCEPT ![r].attempt = 1]
             /\ Move(p, "revoke")
             /\ UNCHANGED association
        ELSE /\ Return(p)
             /\ IF revokeAction[r].status = "PENDING" THEN MarkRevokeUnknown(r)
                ELSE UNCHANGED <<revokeAction, association>>
     /\ UNCHANGED <<authAction, nextAssociation, nextRevoke, deviceRow, platform, faults>>

\* The quota revocation is no longer due after the sample.
ArmRevokeWithdraw(p) ==
  LET r == call[p].revoke
  IN /\ call[p].step = "armRevoke" /\ call[p].reason = "QUOTA"
     /\ Unarmed(r)
     /\ Withdraw(r)
     /\ Return(p)
     /\ UNCHANGED <<authAction, nextAssociation, nextRevoke, deviceRow, platform, faults>>

ArmRevokeFails(p) ==
  /\ call[p].step = "armRevoke"
  /\ Move(p, "markUnknown")
  /\ Fault
  /\ UNCHANGED <<database, platform>>

SendRevoke(p) ==
  LET r == call[p].revoke
  IN /\ call[p].step = "revoke" /\ ~LineBusy
     /\ revocation' = [revocation EXCEPT ![r] = "sent"]
     /\ revokesSent' = [revokesSent EXCEPT ![r] = @ + 1]
     /\ Move(p, "revoking")
     /\ UNCHANGED <<database, authorized, approval, granted, managed, disturbed, approvalsSent,
                    faults>>

\* Seeded bug: a revoke POST that times out counts as confirmed.
RevokeRaises_Confirms(p) ==
  /\ call[p].step \in {"revoke", "revoking"}
  /\ Move(p, "confirmed")
  /\ UNCHANGED <<database, platform, faults>>

RevokeRaises(p) ==
  /\ call[p].step \in {"revoke", "revoking"}
  /\ Move(p, "markUnknown")
  /\ UNCHANGED <<database, platform, faults>>

\* At most one action of an association may be PENDING or UNKNOWN
\* (uq_device_actions_pending_association); a commit that breaks this fails.
OthersUnresolved(r) ==
  \/ \E q \in RevokesOf(revokeAction[r].assoc) \ {r} : revokeAction[q].status \in Unresolved
  \/ \E l \in Links : /\ authAction[l].assoc = revokeAction[r].assoc
                      /\ authAction[l].status \in Unresolved

MarkUnknown(p) ==
  LET r == call[p].revoke
  IN /\ call[p].step = "markUnknown"
     /\ IF revokeAction[r].status = "SUCCEEDED" \/ OthersUnresolved(r)
        THEN UNCHANGED <<revokeAction, association>>
        ELSE MarkRevokeUnknown(r)
     /\ Return(p)
     /\ UNCHANGED <<authAction, nextAssociation, nextRevoke, deviceRow, platform, faults>>

\* The platform confirmed the POST, or reconciliation found the device gone.
Confirmed(p) ==
  \/ call[p].step = "revoking" /\ revocation[call[p].revoke] = "done"
  \/ call[p].step = "confirmed"

\* Seeded bug: a confirmation that comes second is treated as a conflict.
FinalizeRevoke_SecondConfirmation(p) ==
  LET r == call[p].revoke
      a == revokeAction[r].assoc
      d == revokeAction[r].target
  IN /\ Confirmed(p)
     /\ IF revokeAction[r].status \in Unresolved /\ Open(a)
        THEN /\ deviceRow' = [deviceRow EXCEPT ![d] = "revoked"]
             /\ association' = Ended(a, call[p].reason)
             /\ revokeAction' = [revokeAction EXCEPT ![r].status = "SUCCEEDED"]
        ELSE MarkRevokeUnknown(r) /\ UNCHANGED deviceRow
     /\ Return(p)
     /\ UNCHANGED <<authAction, nextAssociation, nextRevoke, platform, faults>>

FinalizeRevoke(p) ==
  LET r == call[p].revoke
      a == revokeAction[r].assoc
      d == revokeAction[r].target
  IN /\ Confirmed(p)
     /\ CASE revokeAction[r].status = "SUCCEEDED" ->
               UNCHANGED <<revokeAction, association, deviceRow>>
          [] /\ revokeAction[r].status \in Unresolved /\ revokeAction[r].attempt = 1
             /\ Open(a) /\ association[a].device = d ->
               /\ deviceRow' = [deviceRow EXCEPT ![d] = "revoked"]
               /\ association' = [association EXCEPT ![a].state = "ENDED",
                                                    ![a].reason = call[p].reason]
               /\ revokeAction' = [revokeAction EXCEPT ![r].status = "SUCCEEDED"]
          [] OTHER -> MarkRevokeUnknown(r) /\ UNCHANGED deviceRow
     /\ Return(p)
     /\ UNCHANGED <<authAction, nextAssociation, nextRevoke, platform, faults>>

FinalizeRevokeFails(p) ==
  /\ Confirmed(p)
  /\ Move(p, "markUnknown")
  /\ Fault
  /\ UNCHANGED <<database, platform>>

-----------------------------------------------------------------------------
(* Reconciliation: every armed unresolved revocation is compared with the  *)
(* platform's inventory; the POST is never repeated.                       *)

\* Seeded bug: reconciliation sends the POST again instead of reading the inventory.
ReconcilePrepare_Resends(p, r) ==
  /\ p \in Schedulers /\ call[p] = Idle
  /\ revokeAction[r].status \in Unresolved /\ revokeAction[r].attempt = 1
  /\ call' = [call EXCEPT ![p] = [Idle EXCEPT !.step = "revoke", !.revoke = r,
                                    !.reason = revokeAction[r].reason]]
  /\ UNCHANGED <<database, platform, faults>>

\* Seeded bug: only PENDING revocations are reconciled.
ReconcilePrepare_PendingOnly(p, r) ==
  /\ p \in Schedulers /\ call[p] = Idle
  /\ revokeAction[r].status = "PENDING" /\ revokeAction[r].attempt = 1
  /\ association[revokeAction[r].assoc].state \in {"PENDING_REVOKE", "UNKNOWN"}
  /\ call' = [call EXCEPT ![p] = [Idle EXCEPT !.step = "list", !.revoke = r,
                                    !.reason = revokeAction[r].reason]]
  /\ UNCHANGED <<database, platform, faults>>

ReconcilePrepare(p, r) ==
  LET a == revokeAction[r].assoc
  IN /\ p \in Schedulers /\ call[p] = Idle
     /\ revokeAction[r].status \in Unresolved /\ revokeAction[r].attempt = 1
     /\ association[a].state \in {"PENDING_REVOKE", "UNKNOWN"}
     /\ call' = [call EXCEPT ![p] = [Idle EXCEPT !.step = "list", !.revoke = r,
                                       !.reason = revokeAction[r].reason]]
     /\ UNCHANGED <<database, platform, faults>>

ReconcileList(p) ==
  /\ call[p].step = "list" /\ ~LineBusy
  /\ IF revokeAction[call[p].revoke].target \in authorized
     THEN Move(p, "markUnknown") ELSE Move(p, "confirmed")
  /\ UNCHANGED <<database, platform, faults>>

\* The inventory cannot be read, or the account changed meanwhile.
ReconcileListFails(p) ==
  /\ call[p].step = "list"
  /\ Move(p, "markUnknown")
  /\ Fault
  /\ UNCHANGED <<database, platform>>

-----------------------------------------------------------------------------
(* The platform, the database and the process. *)

RemoteApprove(l, d) ==
  /\ approval[l] = "sent"
  /\ approval' = [approval EXCEPT ![l] = "granted"]
  /\ granted' = [granted EXCEPT ![l] = d]
  /\ authorized' = authorized \cup {d}
  /\ managed' = managed \cup {d}
  /\ UNCHANGED <<database, call, revocation, disturbed, approvalsSent, revokesSent, faults>>

RemoteDeny(l) ==
  /\ approval[l] = "sent"
  /\ approval' = [approval EXCEPT ![l] = "denied"]
  /\ UNCHANGED <<database, call, authorized, revocation, granted, managed, disturbed,
                 approvalsSent, revokesSent, faults>>

RemoteRevoke(r) ==
  /\ revocation[r] = "sent"
  /\ revocation' = [revocation EXCEPT ![r] = "done"]
  /\ authorized' = authorized \ {revokeAction[r].target}
  /\ UNCHANGED <<database, call, approval, granted, managed, disturbed, approvalsSent,
                 revokesSent, faults>>

ConsoleRevoke(d) ==
  /\ ConsoleRevokes /\ d \in authorized
  /\ authorized' = authorized \ {d}
  /\ disturbed' = disturbed \cup {d}
  /\ Fault
  /\ UNCHANGED <<database, call, approval, revocation, granted, managed, approvalsSent,
                 revokesSent>>

\* The transaction that records a doubt or gives a reservation back fails: the
\* caller is told UNKNOWN and the rows stay as they are.
RecordFails(p) ==
  /\ call[p].step \in {"abort", "authFailed", "markUnknown"}
  /\ Return(p)
  /\ Fault
  /\ UNCHANGED <<database, platform>>

Restart ==
  /\ \E p \in Processes : call[p] # Idle
  /\ call' = [p \in Processes |-> Idle]
  /\ Fault
  /\ UNCHANGED <<database, platform>>

-----------------------------------------------------------------------------

AuthSteps(p) ==
  \/ AuthGiveUp(p) \/ AuthArm(p) \/ AuthAbort(p)
  \/ SendApprove(p) \/ ApproveRaises(p) \/ ApproveDenied(p)
  \/ FinalizeApproval(p) \/ ApprovalConflict(p) \/ FinalizeApprovalFails(p)
  \/ RecordAuthUnknown(p)

AdminSteps(p) == AdminList(p) \/ AdminAssociate(p) \/ AdminReject(p)

RevokeSteps(p) ==
  \/ ArmRevoke(p) \/ ArmRevokeWithdraw(p) \/ ArmRevokeFails(p)
  \/ SendRevoke(p) \/ RevokeRaises(p) \/ MarkUnknown(p)
  \/ FinalizeRevoke(p) \/ FinalizeRevokeFails(p)
  \/ ReconcileList(p) \/ ReconcileListFails(p)

CallSteps(p) == AuthSteps(p) \/ AdminSteps(p) \/ RevokeSteps(p) \/ RecordFails(p)

Platform ==
  \/ \E l \in Links : RemoteDeny(l) \/ \E d \in Devices : RemoteApprove(l, d)
  \/ \E r \in RevokeIds : RemoteRevoke(r)
  \/ \E d \in Devices : ConsoleRevoke(d)

Next ==
  \/ \E p \in Requests, u \in Users :
       (\E l \in Links : AuthReserve(p, u, l)) \/ (\E d \in Devices : AdminQualify(p, u, d))
  \/ \E p \in Processes, a \in AssociationIds, reason \in RevokeReasons : RevokeReserve(p, a, reason)
  \/ \E l \in Links : AuthReplay(l)
  \/ \E a \in AssociationIds : RevokeReplay(a)
  \/ \E p \in Schedulers, r \in RevokeIds :
       QuotaResume(p, r) \/ QuotaWithdraw(p, r) \/ ReconcilePrepare(p, r)
  \/ \E p \in Processes : CallSteps(p)
  \/ Platform
  \/ Restart

Spec == Init /\ [][Next]_vars

-----------------------------------------------------------------------------
(* Safety. *)

\* A link is approved at most once and a revocation is sent at most once, and
\* only after the attempt was committed: no replay, restart, resumption or
\* reconciliation may send a POST whose outcome could already be in effect.
PostedOnceAfterArming ==
  /\ \A l \in Links : approvalsSent[l] <= authAction[l].attempt
  /\ \A r \in RevokeIds : revokesSent[r] <= revokeAction[r].attempt

\* A user has at most one open association and a device at most one open holder,
\* whatever the order in which approvals, /authuser and revocations commit.
ExclusiveSlots ==
  \A a, b \in AssociationIds :
    (Open(a) /\ Open(b) /\ a # b) =>
      /\ association[a].user # association[b].user
      /\ association[a].device = association[b].device => association[a].device = None

\* A device that the bot made the platform authorize is never forgotten while it
\* is authorized: an open association holds it, or an open association still
\* waits for the outcome of the link that authorized it.
GrantsAccountedFor ==
  \A d \in managed \cap authorized :
    \/ HoldersOf(d) # {}
    \/ \E l \in Links : /\ authAction[l].status \in Unresolved /\ granted[l] = d
                        /\ Open(authAction[l].assoc)

\* While a revoke POST may still take effect, also after a timeout or a restart,
\* its device belongs to the association it was reserved for: a late POST cannot
\* hit another user's device.  (A device revoked at the platform's console, or
\* associated after it was revoked, can be approved anew and then be hit.)
RevokeHitsItsHolder ==
  \A r \in RevokeIds : (revocation[r] = "sent" /\ revokeAction[r].target \notin disturbed) =>
    HoldersOf(revokeAction[r].target) = {revokeAction[r].assoc}

\* What an association says about itself agrees with its actions: ACTIVE only with
\* everything settled, PENDING_* with exactly that action pending, and in doubt only
\* together with an unresolved action that explains the doubt.  An ended one leaves no
\* unresolved action behind, which nothing would ever settle and every cycle reset
\* would stumble over; and it records the reason of whoever reserved its revocation,
\* also when a later resumption or reconciliation finished it.
StateMatchesActions ==
  /\ \A a \in AssociationIds :
       LET auths == {l \in Links : authAction[l].assoc = a /\ authAction[l].status \in Unresolved}
           revokes == {r \in RevokesOf(a) : revokeAction[r].status \in Unresolved}
       IN /\ association[a].state \in {"ACTIVE", "ENDED"} => auths = {} /\ revokes = {}
          /\ association[a].state = "PENDING_AUTH" =>
               revokes = {} /\ \E l \in auths : auths = {l} /\ authAction[l].status = "PENDING"
          /\ association[a].state = "PENDING_REVOKE" =>
               auths = {} /\ \E r \in revokes : revokes = {r} /\ revokeAction[r].status = "PENDING"
          /\ association[a].state = "UNKNOWN" => Cardinality(auths) + Cardinality(revokes) = 1
  /\ \A r \in RevokeIds : revokeAction[r].status = "SUCCEEDED" =>
       /\ association[revokeAction[r].assoc].state = "ENDED"
       /\ association[revokeAction[r].assoc].reason = revokeAction[r].reason

\* Nothing comes back: an ended association stays as it is, and a succeeded
\* action is never called unknown or failed by a late or restarted caller.
FinalIsFinal ==
  [][/\ \A a \in AssociationIds :
          association[a].state = "ENDED" => association'[a] = association[a]
     /\ \A l \in Links :
          authAction[l].status = "SUCCEEDED" => authAction'[l] = authAction[l]
     /\ \A r \in RevokeIds :
          revokeAction[r].status = "SUCCEEDED" => revokeAction'[r] = revokeAction[r]]_vars

-----------------------------------------------------------------------------
(* The slot of a user, as DeviceOwnership sees it. *)

Phase(a) ==
  CASE association[a].device = None -> "pending"
    [] association[a].state = "ACTIVE" -> "held"
    [] OTHER -> "releasing"

SlotOf(u) ==
  LET open == OpenOf(u)
  IN IF open = {} THEN [phase |-> "free", device |-> None]
     ELSE LET a == CHOOSE a \in open : TRUE
          IN [phase |-> Phase(a), device |-> association[a].device]

Ownership == INSTANCE DeviceOwnership WITH slot <- [u \in Users |-> SlotOf(u)]

\* Whatever the interleaving of commands, late answers, reconciliation and
\* restarts, a user's slot moves only along the ownership cycle, and a device
\* changes hands only through a release of its former slot.
ImplementsOwnership == Ownership!Spec

-----------------------------------------------------------------------------
(* Progress.  A call that has started takes its next step: each await ends *)
(* by an answer, an error or a timeout.  Every round of the background     *)
(* loop visits the unresolved revocations, the longest untouched first.    *)

Fairness ==
  /\ \A p \in Processes : WF_vars(CallSteps(p))
  /\ \A p \in Schedulers, r \in RevokeIds : SF_vars(ReconcilePrepare(p, r))

FairSpec == Spec /\ Fairness

\* A revocation that was armed and took effect at the platform does not stay
\* unresolved: its user does not lose the slot to a lost response or a restart.
EffectiveRevokeIsRecorded ==
  \A r \in RevokeIds :
    []<>~(/\ revokeAction[r].status \in Unresolved /\ revokeAction[r].attempt = 1
          /\ revokeAction[r].target \notin authorized)

\* What the commands promise of a revocation they report as unconfirmed: the
\* background goes on checking it.
UnresolvedRevokeIsChecked ==
  \A r \in RevokeIds :
    (revokeAction[r].status \in Unresolved)
      ~> \/ revokeAction[r].status \notin Unresolved
         \/ \E p \in Schedulers : call[p].step = "list" /\ call[p].revoke = r

\* /authuser associates devices that are authorized.
AuthuserTakesAuthorizedDevice ==
  [][\A p \in Processes : AdminAssociate(p) => call[p].device \in authorized]_vars
=============================================================================
