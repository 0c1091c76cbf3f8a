---------------------------- MODULE QuotaEnforcement ----------------------------
(***************************************************************************)
(* Limits of a round, their transfers and adjustments, the sticky lock of  *)
(* a ledger, and the background run that locks, revokes and tells users.   *)
(*                                                                         *)
(* The run keeps the moment it began and works through many transactions   *)
(* with requests in between, while commands, samples, cycle syncs and the  *)
(* clock go on; the guard of a revocation looks at the current time.       *)
(*                                                                         *)
(* Time is a number of half rounds: the second half of a round stands for  *)
(* its last 24 hours.  Money is a small number.  Device identities and the *)
(* outcomes of authorizations are the subject of DeviceLifecycle; here an  *)
(* association has a number and a revocation either ends it or stays       *)
(* unresolved.  The notices of 50 and 80 percent behave as that of 100     *)
(* without its revocation status and are left out.                         *)
(***************************************************************************)
EXTENDS Integers, Sequences, SequencesExt, FiniteSets, FiniteSetsExt

CONSTANTS
  Users,       \* bound and active users in the scope of the task
  None,        \* SQL NULL
  Limits,      \* task limits an administrator or a new round may set
  FirstLimit,  \* bound: the limit of the task in the beginning
  Amounts,     \* amounts of transfers and adjustments
  Keys,        \* operation keys
  Batch,       \* rows a run looks at (limit of run_once)
  MaxUse,      \* bound: use of a user in a round
  Bounds       \* bound: how many half rounds, authorizations, changes (of task, gate, limit
               \* and evidence), faults (lost answers, failed messages, restarts) and
               \* entries (transfers and adjustments) meet in a behaviour

ASSUME NoneAssumption == None \notin Nat \cup Users
ASSUME UsersAssumption == IsFiniteSet(Users)
ASSUME MoneyAssumption == Limits \subseteq Nat /\ FirstLimit \in Limits /\ Amounts \subseteq Nat \ {0}
ASSUME BoundAssumption ==
  /\ Batch \in Nat \ {0} /\ MaxUse \in Nat
  /\ Bounds \subseteq [clock : Nat \ {0}, auths : Nat, changes : Nat, faults : Nat, entries : Nat]
  /\ \E longest \in Bounds : \A b \in Bounds : b.clock <= longest.clock

RoundOf(t) == (t + 1) \div 2
IsLast(t) == t % 2 = 0
MaxClock == CHOOSE n \in {b.clock : b \in Bounds} : \A b \in Bounds : b.clock <= n
Rounds == 1 .. RoundOf(MaxClock)

VARIABLES
  clock,
  task,      \* QuotaTask and ServiceState: running, write gate, limit
  cycle,     \* DeviceQuotaCycle rows
  created,   \* ledgers <<user, round>> in the order of their ids
  ledger,    \* DeviceCycleLedger rows
  adj,       \* DeviceQuotaAdjustment rows
  slot,      \* latest DeviceAssociation of a user and its revocation
  past,      \* ended associations whose authorization had succeeded
  notice,    \* DeviceNotification rows
  loop,      \* the background run
  count,     \* how many of each bounded kind there were, but for the clock
  over,      \* history: <<u, r>> where u's use had reached u's limit in round r
  sent,      \* history: <<u, r>> where a quota revocation of u was sent in round r
  said       \* history: <<u, r, status>> revocation status u was told for round r

money == <<created, ledger, adj>>
history == <<over, sent, said>>
vars == <<clock, task, cycle, money, slot, past, notice, loop, count, history>>

-----------------------------------------------------------------------------

Outcomes == {"SUCCEEDED", "UNKNOWN", "FAILED", "PENDING", "NOT_ELIGIBLE"}
Statuses == Outcomes \cup {"EXEMPT_LAST_DAY", "TASK_STOPPED", "NO_ACTIVE_DEVICE", "NOT_REACHED"}
Events == {"REACHED", "NEW_CYCLE", "LAST_DAY"}

LedgerRow == [used : 0 .. MaxUse \cup {None}, verified : BOOLEAN, locked : BOOLEAN,
              unlocked : BOOLEAN]
NewLedger == [used |-> None, verified |-> FALSE, locked |-> FALSE, unlocked |-> FALSE]
CycleRow == [status : {"NONE", "VERIFIED", "NEEDS_REVIEW", "EXPIRED"}, allow : BOOLEAN,
             fresh : BOOLEAN]
\* "action" is the latest revocation of the association: NONE, or its status.
SlotRow == [id : Nat, state : {"NONE", "PENDING_AUTH", "ACTIVE", "PENDING_REVOKE", "UNKNOWN"},
            approving : BOOLEAN, reason : {"", "QUOTA", "OTHER"}, began : 0 .. MaxClock,
            action : {"NONE", "PENDING", "UNKNOWN", "FAILED"}, armed : BOOLEAN]
NoSlot == [id |-> 0, state |-> "NONE", approving |-> FALSE, reason |-> "", began |-> 0,
           action |-> "NONE", armed |-> FALSE]
Ticket == [user : Users, round : Rounds, id : Nat]
NoticeRow == [status : {"NONE", "PENDING", "SENT", "CANCELLED"}, waits : BOOLEAN,
              revoke : Statuses]
NoNotice == [status |-> "NONE", waits |-> FALSE, revoke |-> "NOT_REACHED"]
LoopState == [step : {"idle", "reconcile", "process", "revoke", "arm", "post", "conclude",
                      "notices", "deliver", "send"},
              at : 0 .. MaxClock, overtaken : BOOLEAN, targets : SUBSET (Nat \ {0}),
              tickets : Seq(Ticket), outcome : Outcomes \cup {""}, aborts : BOOLEAN,
              notice : (Users \X Rounds \X Events) \cup {<<>>}]
Idle == [step |-> "idle", at |-> 0, overtaken |-> FALSE, targets |-> {}, tickets |-> <<>>,
         outcome |-> "", aborts |-> FALSE, notice |-> <<>>]

\* The clock and the counts are within a bound.
Within(t, counts) == \E b \in Bounds : t <= b.clock /\ \A k \in DOMAIN counts : counts[k] <= b[k]

TypeOK ==
  /\ clock \in 1 .. MaxClock
  /\ task \in [running : BOOLEAN, gate : BOOLEAN, limit : Limits]
  /\ cycle \in [Rounds -> CycleRow]
  /\ created \in Seq(Users \X Rounds) /\ IsInjective(created)
  /\ ledger \in [Users -> [Rounds -> LedgerRow]]
  /\ \A u \in Users, r \in Rounds :
       /\ ledger[u][r].unlocked => ledger[u][r].locked
       /\ ledger[u][r].verified => ledger[u][r].used # None
  /\ \A a \in adj : a \in [key : Keys, side : {"out", "in", "adjust"}, user : Users,
                           round : Rounds, amount : Int]
  /\ slot \in [Users -> SlotRow]
  /\ \A u \in Users : \A p \in past[u] :
       p \in [id : Nat, began : 1 .. MaxClock, ended : 1 .. MaxClock, reason : {"QUOTA", "OTHER"}]
  /\ notice \in [Users -> [Rounds -> [Events -> NoticeRow]]]
  /\ loop \in LoopState /\ loop.targets \subseteq DOMAIN created
  /\ over \subseteq Users \X Rounds /\ sent \subseteq Users \X Rounds
  /\ said \subseteq Users \X Rounds \X Statuses
  /\ count \in [auths : Nat, changes : Nat, faults : Nat, entries : Nat] /\ Within(clock, count)

Init ==
  /\ clock = 1
  /\ task \in [running : BOOLEAN, gate : {TRUE}, limit : {FirstLimit}]
  /\ cycle = [r \in Rounds |-> [status |-> IF r = 1 THEN "VERIFIED" ELSE "NONE",
                                allow |-> FALSE, fresh |-> r = 1]]
  /\ created = <<>> /\ adj = {}
  /\ ledger = [u \in Users |-> [r \in Rounds |-> NewLedger]]
  /\ slot = [u \in Users |-> NoSlot]
  /\ past = [u \in Users |-> {}]
  /\ notice = [u \in Users |-> [r \in Rounds |-> [e \in Events |-> NoNotice]]]
  /\ loop = Idle
  /\ count = [auths |-> 0, changes |-> 0, faults |-> 0, entries |-> 0]
  /\ over = {} /\ sent = {} /\ said = {}

\* One more of a kind.
Counts(kind) ==
  LET counts == [count EXCEPT ![kind] = @ + 1]
  IN  Within(clock, counts) /\ count' = counts

Change == Counts("changes")
Fault == Counts("faults")

-----------------------------------------------------------------------------
(* Limits, locks and the checks of an authorization and of a revocation. *)

Exists(u, r) == Contains(created, <<u, r>>)

WithLedger(u, r) == IF Exists(u, r) THEN created ELSE Append(created, <<u, r>>)

EffectiveLimit(u, r) ==
  LET raw == task.limit + SumFunctionOnSet([a \in adj |-> a.amount],
                                           {a \in adj : a.user = u /\ a.round = r})
  IN  IF raw < 0 THEN 0 ELSE raw

Reached(u, r) == ledger[u][r].used # None /\ ledger[u][r].used >= EffectiveLimit(u, r)

CurrentAt(r, t) == RoundOf(t) = r /\ cycle[r].status = "VERIFIED"

\* The release of the last day, for a moment t at which the evidence is fresh or not.
LastDayAllowed(r, t, fresh) == CurrentAt(r, t) /\ IsLast(t) /\ cycle[r].allow /\ fresh

FreshNow == cycle[RoundOf(clock)].fresh

\* Evidence newer than the moment of the run counts as not fresh for it.
FreshForRun(r) == cycle[r].fresh /\ ~loop.overtaken

Authorized(u) == slot[u].state \in {"ACTIVE", "PENDING_REVOKE", "UNKNOWN"}

HasCycleAuthHistory(u, r) ==
  \/ Authorized(u) /\ RoundOf(slot[u].began) <= r
  \/ \E p \in past[u] : RoundOf(p.began) <= r /\ RoundOf(p.ended) >= r

\* Variant for the mutation checks: a lock is forgotten once the limit is higher.
MayAuthorize_IgnoresLock(u, t, fresh) ==
  LET r == RoundOf(t)  l == ledger[u][r] IN
  /\ CurrentAt(r, t) /\ fresh
  /\ l.used = None => ~HasCycleAuthHistory(u, r)
  /\ l.used # None => l.verified
  /\ (IF l.used = None THEN 0 ELSE l.used) < EffectiveLimit(u, r)

\* auth_quota_check: may u be authorized at the moment t?
MayAuthorize(u, t, fresh) ==
  LET r == RoundOf(t)  l == ledger[u][r] IN
  /\ CurrentAt(r, t) /\ fresh
  /\ \/ LastDayAllowed(r, t, fresh)
     \/ /\ ~l.locked
        /\ l.used = None => ~HasCycleAuthHistory(u, r)
        /\ l.used # None => l.verified
        /\ (IF l.used = None THEN 0 ELSE l.used) < EffectiveLimit(u, r)

\* Variant for the mutation checks: releases a lock that is not there.
CheckEffect_Always(u, t, fresh) ==
  ledger' = [ledger EXCEPT ![u][RoundOf(t)].unlocked = @ \/ LastDayAllowed(RoundOf(t), t, fresh)]

\* What a check that passes leaves behind: on the last day it releases the lock.
CheckEffect(u, t, fresh) ==
  ledger' = [ledger EXCEPT ![u][RoundOf(t)].unlocked =
               @ \/ (LastDayAllowed(RoundOf(t), t, fresh) /\ ledger[u][RoundOf(t)].locked)]

\* DeviceQuotaRevokeGuard, asked at the reservation and again before the request.
Guard(u, r) ==
  /\ task.running /\ task.gate
  /\ CurrentAt(r, clock)
  /\ ~LastDayAllowed(r, clock, cycle[r].fresh)
  /\ ledger[u][r].locked

GuardEffect(u, r) == ledger' = [ledger EXCEPT ![u][r].unlocked = FALSE]

\* Keeps the history of who had reached the limit, after use or limits changed.
Watched ==
  over' = over \cup {x \in Users \X {RoundOf(clock)} : Reached(x[1], x[2])'}

-----------------------------------------------------------------------------
(* The clock, the account and the administrator. *)

ClockTicks ==
  /\ Within(clock + 1, count)
  /\ clock' = clock + 1
  /\ UNCHANGED <<task, cycle, money, slot, past, notice, loop, count, history>>

\* A newer check time makes the evidence look future to a run that began before.
Overtake == loop' = [loop EXCEPT !.overtaken = loop.step # "idle"]

\* A sync stores the row of a new round: earlier rounds expire and the limit may
\* be set from the estimate of the round before.
OpenRound(allow, limit) ==
  LET r == RoundOf(clock) IN
  /\ cycle[r].status = "NONE"
  /\ allow => IsLast(clock)
  /\ cycle' = [q \in Rounds |->
                 IF q = r THEN [status |-> "VERIFIED", allow |-> allow, fresh |-> TRUE]
                 ELSE IF q < r THEN [cycle[q] EXCEPT !.status = "EXPIRED"] ELSE cycle[q]]
  /\ task' = [task EXCEPT !.limit = limit]
  /\ IF limit = task.limit THEN UNCHANGED count ELSE Change
  /\ Overtake
  /\ UNCHANGED <<clock, money, slot, past, notice, sent, said>>
  /\ Watched

\* A sync renews the evidence of the round it knows, or doubts it.
SyncCycle(status, allow) ==
  LET r == RoundOf(clock) IN
  /\ cycle[r].status # "NONE"
  /\ allow => IsLast(clock) /\ status = "VERIFIED"
  /\ cycle' = [cycle EXCEPT ![r] = [status |-> status, allow |-> allow, fresh |-> TRUE]]
  /\ Overtake
  /\ Change
  /\ UNCHANGED <<clock, task, money, slot, past, notice, history>>

\* No sync succeeds for longer than the evidence is trusted.
EvidenceAges ==
  LET r == RoundOf(clock) IN
  /\ cycle[r].fresh
  /\ cycle' = [cycle EXCEPT ![r].fresh = FALSE]
  /\ Change
  /\ UNCHANGED <<clock, task, money, slot, past, notice, loop, history>>

\* /starttask and /stoptask; the write gate follows or is closed by an account change.
SetTask(running, gate) ==
  /\ task' = [task EXCEPT !.running = running, !.gate = gate]
  /\ task' # task
  /\ Change
  /\ UNCHANGED <<clock, cycle, money, slot, past, notice, loop, history>>

SetLimit(amount) ==
  /\ amount # task.limit
  /\ task' = [task EXCEPT !.limit = amount]
  /\ Change
  /\ UNCHANGED <<clock, cycle, money, slot, past, notice, loop, sent, said>>
  /\ Watched

\* A sample is charged to a user who had a device in the round.
Metered(u, r, used, verified) ==
  /\ HasCycleAuthHistory(u, r) /\ cycle[r].status # "NONE"
  /\ ledger[u][r].used # None => used >= ledger[u][r].used
  /\ created' = WithLedger(u, r)
  /\ ledger' = [ledger EXCEPT ![u][r].used = used, ![u][r].verified = verified]
  /\ ledger' # ledger
  /\ UNCHANGED <<clock, task, cycle, adj, slot, past, notice, loop, count, sent, said>>
  /\ Watched

-----------------------------------------------------------------------------
(* Transfers and adjustments: one transaction each, unique by operation key. *)

KeyIsNew(k) == \A a \in adj : a.key # k

\* adjust: in any round; the limit it is checked against is the effective one.
Adjust(k, u, r, amount) ==
  /\ KeyIsNew(k) /\ Counts("entries") /\ cycle[r].status # "NONE"
  /\ EffectiveLimit(u, r) + amount >= 0
  /\ created' = WithLedger(u, r)
  /\ adj' = adj \cup {[key |-> k, side |-> "adjust", user |-> u, round |-> r, amount |-> amount]}
  /\ UNCHANGED <<clock, task, cycle, ledger, slot, past, notice, loop, sent, said>>
  /\ Watched

\* Variant for the mutation checks: what has been used can be given away.
Spare_Limit(u, r) == EffectiveLimit(u, r)

\* What the sender has left, when the use is known well enough to give it away.
Spare(u, r) ==
  LET used == IF ledger[u][r].used = None THEN 0 ELSE ledger[u][r].used
  IN  IF used > EffectiveLimit(u, r) THEN 0 ELSE EffectiveLimit(u, r) - used

UseIsKnown(u, r) ==
  IF ledger[u][r].used = None THEN ~HasCycleAuthHistory(u, r) ELSE ledger[u][r].verified

Entries(k, s, t, r, amount) ==
  {[key |-> k, side |-> "out", user |-> s, round |-> r, amount |-> -amount],
   [key |-> k, side |-> "in", user |-> t, round |-> r, amount |-> amount]}

\* Both ledgers are created if need be, in the order of the users.
Transfer(k, s, t, amount) ==
  LET r == RoundOf(clock)
      first == IF Exists(s, r) THEN created ELSE Append(created, <<s, r>>)
  IN
  /\ s # t /\ KeyIsNew(k) /\ Counts("entries")
  /\ CurrentAt(r, clock)
  /\ ~ledger[s][r].locked
  /\ UseIsKnown(s, r)
  /\ amount <= Spare(s, r)
  /\ created' = IF Exists(t, r) THEN first ELSE Append(first, <<t, r>>)
  /\ adj' = adj \cup Entries(k, s, t, r, amount)
  /\ UNCHANGED <<clock, task, cycle, ledger, slot, past, notice, loop, sent, said>>
  /\ Watched

-----------------------------------------------------------------------------
(* Authorizations and revocations by command, as far as quotas see them. *)

\* /auth: checked when the slot is reserved ...
AuthReserve(u) ==
  /\ slot[u].state = "NONE" /\ Counts("auths")
  /\ MayAuthorize(u, clock, FreshNow)
  /\ CheckEffect(u, clock, FreshNow)
  /\ slot' = [slot EXCEPT ![u] = [NoSlot EXCEPT !.id = slot[u].id + 1, !.state = "PENDING_AUTH",
                                               !.began = clock]]
  /\ UNCHANGED <<clock, task, cycle, created, adj, past, notice, loop, history>>

\* ... and again, after the request was described, before the approval is sent.
AuthArm(u) ==
  /\ slot[u].state = "PENDING_AUTH" /\ ~slot[u].approving
  /\ MayAuthorize(u, clock, FreshNow)
  /\ CheckEffect(u, clock, FreshNow)
  /\ slot' = [slot EXCEPT ![u].approving = TRUE]
  /\ UNCHANGED <<clock, task, cycle, created, adj, past, notice, loop, count, history>>

AuthGranted(u) ==
  /\ slot[u].approving
  /\ slot' = [slot EXCEPT ![u].approving = FALSE, ![u].state = "ACTIVE"]
  /\ UNCHANGED <<clock, task, cycle, money, past, notice, loop, count, history>>

\* Refused by the second check or by the platform: the association ends.
AuthFails(u) ==
  /\ slot[u].state = "PENDING_AUTH"
  /\ slot' = [slot EXCEPT ![u] = [NoSlot EXCEPT !.id = slot[u].id, !.reason = "OTHER"]]
  /\ UNCHANGED <<clock, task, cycle, money, past, notice, loop, count, history>>

\* The association of u ends, revoked.
Ends(u) ==
  LET reason == IF slot[u].reason = "QUOTA" THEN "QUOTA" ELSE "OTHER" IN
  /\ past' = [past EXCEPT ![u] = @ \cup {[id |-> slot[u].id, began |-> slot[u].began,
                                         ended |-> clock, reason |-> reason]}]
  /\ slot' = [slot EXCEPT ![u] = [NoSlot EXCEPT !.id = slot[u].id, !.reason = reason]]

\* A revocation whose quota check is repeated and fails is taken back.
Withdrawn(u) ==
  slot' = [slot EXCEPT ![u].state = "ACTIVE", ![u].reason = "", ![u].action = "FAILED"]

Reserved(u, reason) ==
  slot' = [slot EXCEPT ![u].state = "PENDING_REVOKE", ![u].reason = reason,
                       ![u].action = "PENDING", ![u].armed = FALSE]

InDoubt(u) == slot' = [slot EXCEPT ![u].state = "UNKNOWN", ![u].action = "UNKNOWN"]

\* /deauth of the user or an administrator.
DeauthReserve(u) ==
  /\ slot[u].state = "ACTIVE"
  /\ Reserved(u, "OTHER")
  /\ UNCHANGED <<clock, task, cycle, money, past, notice, loop, count, history>>

\* Finds a revocation that may have been sent: its outcome is unknown.
DeauthMeets(u) ==
  /\ slot[u].action = "PENDING" /\ slot[u].armed
  /\ InDoubt(u)
  /\ UNCHANGED <<clock, task, cycle, money, past, notice, loop, count, history>>

DeauthArm(u) ==
  /\ slot[u].action = "PENDING" /\ ~slot[u].armed /\ slot[u].reason = "OTHER"
  /\ slot' = [slot EXCEPT ![u].armed = TRUE]
  /\ UNCHANGED <<clock, task, cycle, money, past, notice, loop, count, history>>

\* The answer of a command's request, or a later look at the platform.
Settles(u) ==
  /\ slot[u].armed /\ slot[u].action \in {"PENDING", "UNKNOWN"}
  /\ slot[u].reason = "OTHER" \/ loop.step = "reconcile"
  /\ Ends(u)
  /\ UNCHANGED <<clock, task, cycle, money, notice, loop, count, history>>

-----------------------------------------------------------------------------
(* One run of DeviceQuotaActionService. *)

Begin ==
  /\ loop.step = "idle"
  /\ loop' = [Idle EXCEPT !.step = "reconcile", !.at = clock]
  /\ UNCHANGED <<clock, task, cycle, money, slot, past, notice, count, history>>

\* The first ledgers, by their place in "created", of the round that is current at the
\* moment of the run.
CurrentLedgers ==
  LET current == {i \in DOMAIN created : CurrentAt(created[i][2], loop.at)}
  IN  {i \in current : Cardinality({j \in current : j < i}) < Batch}

Select ==
  /\ loop.step = "reconcile"
  /\ loop' = [loop EXCEPT !.step = "process", !.targets = CurrentLedgers]
  /\ UNCHANGED <<clock, task, cycle, money, slot, past, notice, count, history>>

LockDue(u, r) ==
  /\ task.running
  /\ CurrentAt(r, loop.at) /\ ~LastDayAllowed(r, loop.at, FreshForRun(r))
  /\ Reached(u, r)

\* The status a ledger at its limit is given, and whether its device is to be revoked.
ReachedStatus(u, r) ==
  CASE LastDayAllowed(r, loop.at, FreshForRun(r)) -> "EXEMPT_LAST_DAY"
    [] ~LastDayAllowed(r, loop.at, FreshForRun(r)) /\ ~task.running -> "TASK_STOPPED"
    [] OTHER -> IF slot[u].state = "NONE" THEN "NO_ACTIVE_DEVICE"
                ELSE IF slot[u].action \in {"PENDING", "UNKNOWN"} THEN slot[u].action
                ELSE IF slot[u].state = "ACTIVE" /\ task.gate THEN "PENDING"
                ELSE "NOT_REACHED"

Resumable(u) ==
  /\ slot[u].state = "PENDING_REVOKE" /\ slot[u].reason = "QUOTA"
  /\ slot[u].action = "PENDING" /\ ~slot[u].armed

\* Variant for the mutation checks: a reservation left by a restart is not resumed.
WantsRevoke_NoResume(u, r) ==
  /\ task.running /\ ~LastDayAllowed(r, loop.at, FreshForRun(r))
  /\ slot[u].state = "ACTIVE"
  /\ IF Reached(u, r) THEN task.gate ELSE ledger[u][r].locked

WantsRevoke(u, r) ==
  /\ task.running /\ ~LastDayAllowed(r, loop.at, FreshForRun(r))
  /\ IF Reached(u, r) THEN Resumable(u) \/ (slot[u].state = "ACTIVE" /\ task.gate)
     ELSE ledger[u][r].locked /\ slot[u].state = "ACTIVE"

\* _process_ledger: lock a ledger at its limit, tell the user once, and take a
\* ticket for the revocation.
ProcessLedger(i) ==
  LET u == created[i][1]
      r == created[i][2]
      due == CurrentAt(r, loop.at) /\ ledger[u][r].used # None
      lock == due /\ LockDue(u, r) /\ ~ledger[u][r].locked
      tells == due /\ Reached(u, r) /\ notice[u][r]["REACHED"].status = "NONE"
  IN
  /\ loop.step = "process"
  /\ i \in loop.targets /\ \A j \in loop.targets : i <= j
  /\ ledger' = IF lock THEN [ledger EXCEPT ![u][r].locked = TRUE, ![u][r].unlocked = FALSE]
               ELSE ledger
  /\ notice' = IF tells
               THEN [notice EXCEPT ![u][r]["REACHED"] =
                       [status |-> "PENDING", waits |-> FALSE, revoke |-> ReachedStatus(u, r)]]
               ELSE notice
  /\ loop' = [loop EXCEPT !.targets = @ \ {i},
                          !.tickets = IF due /\ WantsRevoke(u, r)
                                      THEN Append(@, [user |-> u, round |-> r, id |-> slot[u].id])
                                      ELSE @]
  /\ UNCHANGED <<clock, task, cycle, created, adj, slot, past, count, history>>

Processed ==
  /\ loop.step = "process" /\ loop.targets = {}
  /\ loop' = [loop EXCEPT !.step = IF loop.tickets = <<>> THEN "notices" ELSE "revoke"]
  /\ UNCHANGED <<clock, task, cycle, money, slot, past, notice, count, history>>

Concludes(outcome, aborts) ==
  loop' = [loop EXCEPT !.step = "conclude", !.outcome = outcome, !.aborts = aborts]

\* deauth_quota reserves the revocation, or resumes one that was reserved before.
ReserveRevoke ==
  LET t == Head(loop.tickets)  u == t.user IN
  /\ loop.step = "revoke"
  /\ slot[u].id = t.id
  /\ slot[u].state = "ACTIVE" \/ Resumable(u)
  /\ Guard(u, t.round)
  /\ GuardEffect(u, t.round)
  /\ Reserved(u, "QUOTA")
  /\ loop' = [loop EXCEPT !.step = "arm"]
  /\ UNCHANGED <<clock, task, cycle, created, adj, past, notice, count, history>>

\* The conditions have changed since the ledger was looked at.
ReserveRefused ==
  LET t == Head(loop.tickets)  u == t.user IN
  /\ loop.step = "revoke"
  /\ slot[u].id = t.id
  /\ ~Guard(u, t.round)
  /\ \/ slot[u].state = "ACTIVE" /\ UNCHANGED slot /\ Concludes("NOT_ELIGIBLE", FALSE)
     \/ Resumable(u) /\ Withdrawn(u) /\ Concludes("FAILED", FALSE)
  /\ UNCHANGED <<clock, task, cycle, money, past, notice, count, history>>

\* The association has ended, or another revocation of it is under way.
ReserveMeets ==
  LET t == Head(loop.tickets)  u == t.user IN
  /\ loop.step = "revoke"
  /\ \/ /\ slot[u].id # t.id \/ slot[u].state = "NONE"
        /\ UNCHANGED slot /\ Concludes("SUCCEEDED", FALSE)
     \/ /\ slot[u].id = t.id /\ slot[u].action = "PENDING" /\ slot[u].armed
        /\ InDoubt(u) /\ Concludes("UNKNOWN", FALSE)
     \/ /\ slot[u].id = t.id /\ slot[u].action = "PENDING" /\ ~slot[u].armed
        /\ slot[u].reason # "QUOTA"
        /\ UNCHANGED slot /\ Concludes("PENDING", FALSE)
     \/ /\ slot[u].id = t.id /\ slot[u].action = "UNKNOWN"
        /\ UNCHANGED slot /\ Concludes("UNKNOWN", FALSE)
  /\ UNCHANGED <<clock, task, cycle, money, past, notice, count, history>>

\* Variant for the mutation checks: the guard is not asked again.
ArmRevoke_Unchecked ==
  LET t == Head(loop.tickets)  u == t.user IN
  /\ loop.step = "arm"
  /\ GuardEffect(u, t.round)
  /\ slot' = [slot EXCEPT ![u].armed = TRUE]
  /\ sent' = sent \cup {<<u, RoundOf(clock)>>}
  /\ loop' = [loop EXCEPT !.step = "post"]
  /\ UNCHANGED <<clock, task, cycle, created, adj, past, notice, count, over, said>>

\* After the last sample was taken: asked again, and then the request is sent.
ArmRevoke ==
  LET t == Head(loop.tickets)  u == t.user IN
  /\ loop.step = "arm"
  /\ Guard(u, t.round)
  /\ GuardEffect(u, t.round)
  /\ slot' = [slot EXCEPT ![u].armed = TRUE]
  /\ sent' = sent \cup {<<u, RoundOf(clock)>>}
  /\ loop' = [loop EXCEPT !.step = "post"]
  /\ UNCHANGED <<clock, task, cycle, created, adj, past, notice, count, over, said>>

ArmWithdraws ==
  LET t == Head(loop.tickets)  u == t.user IN
  /\ loop.step = "arm"
  /\ ~Guard(u, t.round)
  /\ Withdrawn(u)
  /\ Concludes("FAILED", FALSE)
  /\ UNCHANGED <<clock, task, cycle, money, past, notice, count, history>>

RevokeConfirmed ==
  LET u == Head(loop.tickets).user IN
  /\ loop.step = "post"
  /\ Ends(u)
  /\ Concludes("SUCCEEDED", FALSE)
  /\ UNCHANGED <<clock, task, cycle, money, notice, count, history>>

\* Variant for the mutation checks: a lost answer is reported as a confirmation.
RevokeLost_Confirms(aborts) ==
  LET u == Head(loop.tickets).user IN
  /\ loop.step = "post"
  /\ InDoubt(u)
  /\ Concludes("SUCCEEDED", aborts)
  /\ Fault
  /\ UNCHANGED <<clock, task, cycle, money, past, notice, history>>

\* The answer is lost, or a 401 opens the circuit and the run ends.
RevokeLost(aborts) ==
  LET u == Head(loop.tickets).user IN
  /\ loop.step = "post"
  /\ InDoubt(u)
  /\ Concludes("UNKNOWN", aborts)
  /\ Fault
  /\ UNCHANGED <<clock, task, cycle, money, past, notice, history>>

\* _set_revoke_status: the notice is corrected while it has not been sent.
SetRevokeStatus ==
  LET t == Head(loop.tickets)
      n == notice[t.user][t.round]["REACHED"]
      rest == Tail(loop.tickets)
  IN
  /\ loop.step = "conclude"
  /\ notice' = IF n.status = "PENDING"
               THEN [notice EXCEPT ![t.user][t.round]["REACHED"].revoke = loop.outcome]
               ELSE notice
  /\ loop' = IF loop.aborts THEN Idle
             ELSE [loop EXCEPT !.step = IF rest = <<>> THEN "notices" ELSE "revoke",
                               !.tickets = rest, !.outcome = ""]
  /\ UNCHANGED <<clock, task, cycle, money, slot, past, count, history>>

-----------------------------------------------------------------------------
(* Invitations to authorize again, and the delivery of notices. *)

AuthorizedIn(u, r) ==
  \/ Authorized(u) /\ RoundOf(slot[u].began) = r
  \/ \E p \in past[u] : RoundOf(p.began) = r

RevokedForQuota(u) == {p \in past[u] : p.reason = "QUOTA"}

\* Variant for the mutation checks: only users who have a ledger in the new round.
Invitable_HasLedger(u) ==
  LET r == RoundOf(loop.at) IN
  /\ CurrentAt(r, loop.at) /\ Exists(u, r)
  /\ RevokedForQuota(u) # {} /\ slot[u].state = "NONE" /\ slot[u].reason = "QUOTA"
  /\ AuthorizedIn(u, r) => LastDayAllowed(r, loop.at, FreshForRun(r))

\* Users with a device revoked for the quota, none now, and not yet authorized in
\* the round unless the last day releases them.
Invitable(u) ==
  LET r == RoundOf(loop.at) IN
  /\ CurrentAt(r, loop.at)
  /\ RevokedForQuota(u) # {} /\ slot[u].state = "NONE" /\ slot[u].reason = "QUOTA"
  /\ AuthorizedIn(u, r) => LastDayAllowed(r, loop.at, FreshForRun(r))

\* The invitation that the moment of the run calls for.
Invitation(u) ==
  LET r == RoundOf(loop.at)
      last == LastDayAllowed(r, loop.at, FreshForRun(r))
  IN  IF ~MayAuthorize(u, loop.at, FreshForRun(r)) THEN {}
      ELSE IF last THEN {"LAST_DAY"}
      ELSE IF \E p \in RevokedForQuota(u) : RoundOf(p.ended) < r THEN {"NEW_CYCLE"} ELSE {}

Unsaid(u) == {e \in Invitation(u) : notice[u][RoundOf(loop.at)][e].status = "NONE"}

\* _queue_user_auth_notices: the ledger is created if need be and the check of an
\* authorization is made for its own sake, with its effect.
Invite(u) ==
  LET r == RoundOf(loop.at) IN
  /\ loop.step = "notices"
  /\ Invitable(u)
  /\ ~Exists(u, r) \/ Unsaid(u) # {}
  /\ created' = WithLedger(u, r)
  /\ IF MayAuthorize(u, loop.at, FreshForRun(r)) THEN CheckEffect(u, loop.at, FreshForRun(r))
     ELSE UNCHANGED ledger
  /\ notice' = [notice EXCEPT ![u][r] =
                  [e \in Events |-> IF e \in Unsaid(u) THEN [NoNotice EXCEPT !.status = "PENDING"]
                                    ELSE @[e]]]
  /\ UNCHANGED <<clock, task, cycle, adj, slot, past, loop, count, history>>

\* Every candidate has been looked at.
Invited ==
  /\ loop.step = "notices"
  /\ \A u \in Users : Invitable(u) => Exists(u, RoundOf(loop.at)) /\ Unsaid(u) = {}
  /\ loop' = [loop EXCEPT !.step = "deliver"]
  /\ UNCHANGED <<clock, task, cycle, money, slot, past, notice, count, history>>

\* Is an invitation still true at the moment of the run?
StillInvited(u, r, e) ==
  /\ CurrentAt(r, loop.at)
  /\ slot[u].state = "NONE"
  /\ e = "NEW_CYCLE" => ~AuthorizedIn(u, r)
  /\ e = "LAST_DAY" => LastDayAllowed(r, loop.at, FreshForRun(r))
  /\ MayAuthorize(u, loop.at, FreshForRun(r))

ClaimNotice(u, r, e) ==
  /\ loop.step = "deliver"
  /\ notice[u][r][e].status = "PENDING" /\ ~notice[u][r][e].waits
  /\ e # "REACHED" => StillInvited(u, r, e)
  /\ IF e = "REACHED" THEN UNCHANGED ledger ELSE CheckEffect(u, loop.at, FreshForRun(r))
  /\ notice' = [notice EXCEPT ![u][r][e].waits = TRUE]
  /\ said' = said \cup (IF e = "REACHED" THEN {<<u, r, notice[u][r][e].revoke>>} ELSE {})
  /\ loop' = [loop EXCEPT !.step = "send", !.notice = <<u, r, e>>]
  /\ UNCHANGED <<clock, task, cycle, created, adj, slot, past, count, over, sent>>

CancelNotice(u, r, e) ==
  /\ loop.step = "deliver"
  /\ notice[u][r][e].status = "PENDING" /\ ~notice[u][r][e].waits
  /\ e # "REACHED" /\ ~StillInvited(u, r, e)
  /\ notice' = [notice EXCEPT ![u][r][e].status = "CANCELLED"]
  /\ UNCHANGED <<clock, task, cycle, money, slot, past, loop, count, history>>

NoticeSent ==
  LET n == loop.notice IN
  /\ loop.step = "send"
  /\ notice' = [notice EXCEPT ![n[1]][n[2]][n[3]].status = "SENT", ![n[1]][n[2]][n[3]].waits = FALSE]
  /\ loop' = [loop EXCEPT !.step = "deliver", !.notice = <<>>]
  /\ UNCHANGED <<clock, task, cycle, money, slot, past, count, history>>

NoticeFails ==
  /\ loop.step = "send"
  /\ loop' = [loop EXCEPT !.step = "deliver", !.notice = <<>>]
  /\ Fault
  /\ UNCHANGED <<clock, task, cycle, money, slot, past, notice, history>>

\* The retry time of a notice is reached; while notices are delivered the list is
\* fixed, and the notice waits for the next run.
RetryPasses(u, r, e) ==
  /\ notice[u][r][e].waits /\ loop.step \notin {"deliver", "send"}
  /\ notice' = [notice EXCEPT ![u][r][e].waits = FALSE]
  /\ UNCHANGED <<clock, task, cycle, money, slot, past, loop, count, history>>

Finish ==
  /\ loop.step = "deliver"
  /\ \A u \in Users, r \in Rounds, e \in Events :
       notice[u][r][e].status = "PENDING" => notice[u][r][e].waits
  /\ loop' = Idle
  /\ UNCHANGED <<clock, task, cycle, money, slot, past, notice, count, history>>

Restart ==
  /\ loop.step # "idle"
  /\ loop' = Idle
  /\ Fault
  /\ UNCHANGED <<clock, task, cycle, money, slot, past, notice, history>>

-----------------------------------------------------------------------------

Run ==
  \/ Begin \/ Select \/ Processed
  \/ \E i \in DOMAIN created : ProcessLedger(i)
  \/ ReserveRevoke \/ ReserveRefused \/ ReserveMeets
  \/ ArmRevoke \/ ArmWithdraws \/ RevokeConfirmed \/ SetRevokeStatus
  \/ \E u \in Users : Invite(u)
  \/ \E u \in Users, r \in Rounds, e \in Events : ClaimNotice(u, r, e) \/ CancelNotice(u, r, e)
  \/ Invited \/ NoticeSent \/ Finish

Next ==
  \/ Run
  \/ ClockTicks \/ EvidenceAges \/ NoticeFails \/ Restart
  \/ \E allow \in BOOLEAN, limit \in Limits : OpenRound(allow, limit)
  \/ \E status \in {"VERIFIED", "NEEDS_REVIEW"}, allow \in BOOLEAN : SyncCycle(status, allow)
  \/ \E running \in BOOLEAN, gate \in BOOLEAN : SetTask(running, gate)
  \/ \E amount \in Limits : SetLimit(amount)
  \/ \E u \in Users, r \in Rounds, used \in 0 .. MaxUse, verified \in BOOLEAN :
       Metered(u, r, used, verified)
  \/ \E k \in Keys, u \in Users, r \in Rounds, amount \in Amounts :
       Adjust(k, u, r, amount) \/ Adjust(k, u, r, -amount)
  \/ \E k \in Keys, s, t \in Users, amount \in Amounts : Transfer(k, s, t, amount)
  \/ \E u \in Users : AuthReserve(u) \/ AuthArm(u) \/ AuthGranted(u) \/ AuthFails(u)
                      \/ DeauthReserve(u) \/ DeauthMeets(u) \/ DeauthArm(u) \/ Settles(u)
  \/ \E aborts \in BOOLEAN : RevokeLost(aborts)
  \/ \E u \in Users, r \in Rounds, e \in Events : RetryPasses(u, r, e)

Spec == Init /\ [][Next]_vars

\* The loop of the scheduler calls the run again and again; every request and
\* every message has an answer or a timeout.
FairSpec == Spec /\ WF_vars(Run)

-----------------------------------------------------------------------------
(* Safety. *)

\* A quota revocation is sent only while the task runs, the gate is open and the last
\* day does not release the user, although the run decided it long before; and whoever
\* it hits had, in that same round, used up the limit that was in force then: tickets
\* of an earlier moment or of another round, and limits that move meanwhile, never
\* revoke a user who was not over.
RevokedOnlyWhileEnforced ==
  [][sent' # sent => /\ task.running /\ task.gate
                     /\ ~LastDayAllowed(RoundOf(clock), clock, FreshNow)
                     /\ sent' \subseteq over']_vars

\* A user revoked for the quota in a round is not authorized again in that round,
\* whatever is adjusted, given or set meanwhile, unless the last day releases it.
NoReturnInRound ==
  [][\A u \in Users :
       /\ slot'[u].approving /\ ~slot[u].approving
       /\ <<u, RoundOf(clock)>> \in sent
       => LastDayAllowed(RoundOf(clock), clock, FreshNow)]_vars

\* A user is told that the revocation is confirmed only if an association of that
\* user has ended since the round began.
ConfirmationIsTrue ==
  \A u \in Users, r \in Rounds :
    <<u, r, "SUCCEEDED">> \in said => \E p \in past[u] : RoundOf(p.ended) >= r

LimitSum == SumFunctionOnSet([u \in Users |-> EffectiveLimit(u, RoundOf(clock))], Users)

\* A transfer creates no money and leaves nobody who was within the limit above it.
TransfersAreSound ==
  [][(\E a \in adj' \ adj : a.side # "adjust") =>
       /\ LimitSum' <= LimitSum
       /\ \A u \in Users : LET used == ledger[u][RoundOf(clock)].used IN
            used # None /\ used <= EffectiveLimit(u, RoundOf(clock))
              => used <= EffectiveLimit(u, RoundOf(clock))']_vars

\* What a transfer takes from the sender arrives: the tests expect the limit of the
\* recipient to grow by the amount (test_device_quota.py:133).
TransferArrives ==
  [][\A a \in adj' \ adj : a.side = "in" =>
       EffectiveLimit(a.user, a.round)' = EffectiveLimit(a.user, a.round) + a.amount]_vars

-----------------------------------------------------------------------------
(* Liveness. *)

\* A device in use, or a reserved revocation, of a user who is over the limit of the
\* current round while enforcement is on.
Due(u) ==
  LET r == RoundOf(clock) IN
  /\ slot[u].state = "ACTIVE" \/ Resumable(u)
  /\ task.running /\ task.gate
  /\ CurrentAt(r, clock) /\ ~LastDayAllowed(r, clock, cycle[r].fresh)
  /\ Reached(u, r)

\* Nobody stays over the limit with a device for ever, also after a restart
\* between the reservation and the request.
OverLimitIsRevoked == \A u \in Users : ~<>[]Due(u)

\* A user revoked in an earlier round who may authorize again in this one is told so.
InvitationDue(u) ==
  LET r == RoundOf(clock) IN
  /\ slot[u].state = "NONE" /\ slot[u].reason = "QUOTA"
  /\ \E p \in RevokedForQuota(u) : RoundOf(p.ended) < r
  /\ ~AuthorizedIn(u, r) /\ ~IsLast(clock)
  /\ MayAuthorize(u, clock, FreshNow)
  /\ notice[u][r]["NEW_CYCLE"].status = "NONE"

RevokedAreInvited == \A u \in Users : ~<>[]InvitationDue(u)

=============================================================================
