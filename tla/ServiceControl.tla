----------------------------- MODULE ServiceControl -----------------------------
(***************************************************************************)
(* Whether the bot may write: the latch of the ServiceState row, the       *)
(* status of the quota task, and the identity of the account behind both.  *)
(*                                                                         *)
(* The organization has one live account, which the platform may replace.  *)
(* Reconciliation compares it with the account of the latest round: when   *)
(* they differ, it closes the latch, collects baselines and commits a new  *)
(* round together with the new identity; a task that was RUNNING goes on   *)
(* with writes afterwards.  The background loop reconciles in every tick,  *)
(* /starttask, /recovery_enable and /auth do so before they act.  A 401    *)
(* opens the circuit of the client and stops the task.                     *)
(*                                                                         *)
(* A process is the loop or a command; an action is a request, its answer, *)
(* a statement that has to wait for a row or the commit of a transaction.  *)
(* Transactions lock rows one after the other, not all in the same order.  *)
(***************************************************************************)
EXTENDS Naturals

CONSTANTS
  Accounts,
  Commands,       \* commands that run at a time
  Loop,           \* main, then the background loop
  None,           \* SQL NULL, nobody
  Bounds          \* bound: how many replaced accounts, ended rounds, faults, logins
                  \* and commands meet in a behaviour

ASSUME NoneAssumption == None \notin Accounts \cup Commands \cup {Loop}
ASSUME LoopAssumption == Loop \notin Commands
ASSUME BoundsAssumption ==
  /\ Bounds # {}
  /\ Bounds \subseteq [changes : Nat, rounds : Nat, faults : Nat, logins : Nat, commands : Nat]

VARIABLES
  platform,       \* the account it reports, and those it reported before
  service,        \* ServiceState: write_enabled, reason, selected_account_id
  task,           \* QuotaTask.status
  cycle,          \* the latest DeviceQuotaCycle
  client,         \* circuit of the client, account it routes to
  turn,           \* who reconciles: the lock of the reconcile service
  lock,           \* who holds the ServiceState and the QuotaTask row
  asked,          \* whose evidence of the cycle is newer than what was last stored, in order
  call,           \* where the loop and each command stand
  count           \* how often each bounded event happened

rows == <<service, task, cycle>>
vars == <<platform, rows, client, turn, lock, asked, call, count>>

-----------------------------------------------------------------------------

Processes == Commands \cup {Loop}
Identity == Accounts \cup {None}

\* account_reconcile_*: an account was replaced or could not be determined.
Unreconciled == {"pending", "failed"}
Reasons == Unreconciled \cup {"startup", "reconciled", "resumed", "started", "stopped",
                              "unauthorized", "validated"}
Round == [account : Identity, status : {"VERIFIED", "NEEDS_REVIEW"}, ended : BOOLEAN]
NoRound == [account |-> None, status |-> "NONE", ended |-> FALSE]
NewRound(account) == [account |-> account, status |-> "VERIFIED", ended |-> FALSE]

\* The loop boots: main reconciles and resume_quota_task reconciles and opens; a start
\* reconciles in its handler and again in start_quota_task.
Jobs == {"start", "startTask", "stop", "recover", "auth", "reset"}
Phases == Jobs \cup {"none", "boot", "resume", "open", "tick"}
PlanSteps == {"plan", "evidence", "final", "lockState", "resetCommit"}
Steps == PlanSteps \cup
  {"idle", "sleep", "reconcile", "fetch", "failed", "snapshot", "persist", "pend", "keep", "undo",
   "enableRead", "enable", "sync", "syncCommit", "act", "lockTask", "taskCommit",
   "force", "forceCommit", "disable"}

\* What a reset read before its requests, or that it changed since.
Plan == [open : BOOLEAN, selected : Identity, task : {"RUNNING", "STOPPED"},
         account : Identity, status : {"VERIFIED", "NEEDS_REVIEW"}]
Stale == [open |-> FALSE, selected |-> None, task |-> "STOPPED",
          account |-> None, status |-> "NONE"]

\* seen: the account of the last answer; expected, running: selection and status in the
\* snapshot; of: the account of the round; back: where an interrupted request goes on.
CallState == [job : Phases, step : Steps, seen : Identity, expected : Identity, of : Identity,
              running : BOOLEAN, plan : Plan \cup {Stale}, back : Steps \cup {"raised"}]
Quiet == [job |-> "none", step |-> "idle", seen |-> None, expected |-> None, of |-> None,
          running |-> FALSE, plan |-> Stale, back |-> "idle"]
At(job, step) == [Quiet EXCEPT !.job = job, !.step = step]

\* <<p, q>> is in asked if p has asked before q, or is q.
Asked == {pair[1] : pair \in asked}
InOrder ==
  /\ \A p \in Asked : <<p, p>> \in asked
  /\ \A p, q \in Asked : p # q => (<<p, q>> \in asked <=> <<q, p>> \notin asked)
  /\ \A p, q, r \in Asked : <<p, q>> \in asked /\ <<q, r>> \in asked => <<p, r>> \in asked

TypeOK ==
  /\ platform \in [account : Accounts, former : SUBSET Accounts]
  /\ service \in [open : BOOLEAN, reason : Reasons, selected : Identity]
  /\ task \in {"RUNNING", "STOPPED"}
  /\ cycle \in Round \cup {NoRound}
  /\ client \in [circuit : BOOLEAN, account : Identity]
  /\ turn \in Processes \cup {None}
  /\ lock \in [state : Processes \cup {None}, task : Processes \cup {None}]
  /\ asked \subseteq Asked \X Asked /\ InOrder /\ Asked \subseteq Processes
  /\ call \in [Processes -> CallState]
  /\ \E b \in Bounds : \A k \in DOMAIN b : count[k] \in 0 .. b[k]

Happens(kind) ==
  LET next == [count EXCEPT ![kind] = @ + 1]
  IN /\ \E b \in Bounds : \A k \in DOMAIN b : next[k] <= b[k]
     /\ count' = next
Fault == Happens("faults")

Goto(p, step) == call' = [call EXCEPT ![p].step = step]
Is(p, step) == call[p].step = step
StateFree == lock.state = None
TaskFree == lock.task = None

\* The newest evidence of p; once evidence is stored, what was asked for before is dropped.
Remaining(S) == asked \cap (S \X S)
Without(p) == Remaining(Asked \ {p})
AskedAgain(p) == Without(p) \cup ((Asked \cup {p}) \X {p})
Newer(p) == Remaining({q \in Asked : p \in Asked => q # p /\ <<p, q>> \in asked})

\* A plan covers the settings, the selection and the round; the end of a round is time.
Seen == [open |-> service.open, selected |-> service.selected, task |-> task,
         account |-> cycle.account, status |-> cycle.status]
Resets(p) == call[p].step \in PlanSteps
Target(p) == IF call[p].job = "reset" THEN call[p].plan.selected ELSE call[p].seen
Touched(q) == IF Resets(q) THEN [call[q] EXCEPT !.plan = Stale] ELSE call[q]

\* main closes the latch before anything else and routes to the account it knows.
Booted == call[Loop].job = "tick"
Idle == [p \in Processes |-> IF p = Loop THEN At("boot", "idle") ELSE Quiet]
StartsUp(selected) ==
  /\ service' = [open |-> FALSE, reason |-> "startup", selected |-> selected]
  /\ client' = [circuit |-> FALSE, account |-> selected]
  /\ turn' = None /\ lock' = [state |-> None, task |-> None]
  /\ asked' = {}
  /\ call' = Idle

\* An older version may have left a round without an account.
Init ==
  /\ platform \in [account : Accounts, former : {{}}]
  /\ \E account \in Identity :
       /\ service = [open |-> FALSE, reason |-> "startup", selected |-> account]
       /\ client = [circuit |-> FALSE, account |-> account]
       /\ cycle \in IF account = None THEN {NoRound} ELSE {NewRound(account), NewRound(None)}
  /\ task \in {"RUNNING", "STOPPED"}
  /\ turn = None /\ lock = [state |-> None, task |-> None]
  /\ asked = {}
  /\ call = Idle
  /\ count = [changes |-> 0, rounds |-> 0, faults |-> 0, logins |-> 0, commands |-> 0]

-----------------------------------------------------------------------------
(* The platform, the operator's login and restarts. *)

Replace(account) ==
  /\ account # platform.account
  /\ platform' = [account |-> account, former |-> platform.former \cup {platform.account}]
  /\ Happens("changes")
  /\ UNCHANGED <<rows, client, turn, lock, asked, call>>

\* A reset of the same account that has its evidence is refused from then on.
RoundEnds ==
  /\ cycle # NoRound /\ ~cycle.ended
  /\ cycle' = [cycle EXCEPT !.ended = TRUE]
  /\ call' = [q \in Processes |->
                IF cycle.account \in {None, Target(q)} THEN Touched(q) ELSE call[q]]
  /\ Happens("rounds")
  /\ UNCHANGED <<platform, service, task, client, turn, lock, asked>>

\* /task and /account authenticate: with the circuit open that is one login.
authenticate ==
  /\ client.circuit /\ \A p \in Processes : call[p].back = "idle"
  /\ client' = [client EXCEPT !.circuit = FALSE]
  /\ Happens("logins")
  /\ UNCHANGED <<platform, rows, turn, lock, asked, call>>

\* Transactions under way are rolled back.
Restart ==
  /\ StartsUp(service.selected)
  /\ Fault
  /\ UNCHANGED <<platform, task, cycle>>

-----------------------------------------------------------------------------
(* What follows a reconciliation, and a call that raised. *)

AfterSuccess ==
  [boot |-> At("resume", "reconcile"), resume |-> At("open", "enableRead"),
   open |-> At("tick", "sleep"), tick |-> At("tick", "sync"),
   start |-> At("startTask", "reconcile"), startTask |-> At("startTask", "lockTask"),
   recover |-> At("recover", "force"), auth |-> At("auth", "sync"), reset |-> Quiet]
AfterFailure ==
  [j \in Phases |-> CASE j = "boot" -> At("boot", "disable")
                      [] j = "resume" -> At("open", "enableRead")
                      [] j = "tick" -> At("tick", "sleep")
                      [] OTHER -> Quiet]

\* The step that handles what a request raises.
Handler(p) ==
  CASE call[p].step = "fetch" -> "failed"
    [] Resets(p) /\ call[p].job # "reset" -> "undo"
    [] OTHER -> "raised"
HandledAt(p, step) ==
  IF step = "raised" THEN AfterFailure[call[p].job]
  ELSE [call[p] EXCEPT !.step = step, !.back = "idle", !.plan = Stale]
Raised(p) == [call EXCEPT ![p] = HandledAt(p, Handler(p))]
Raise(p) == call' = Raised(p)

\* The turn ends with the reconciliation.
Finish(p, outcome) ==
  /\ turn' = IF turn = p THEN None ELSE turn
  /\ call' = [call EXCEPT ![p] = outcome[call[p].job]]

-----------------------------------------------------------------------------
(* Requests. *)

Answers(p, next) == ~client.circuit /\ call' = next /\ UNCHANGED <<client, count>>

\* The loop goes on when only the sync of the cycle failed.
RequestFails(p) ==
  /\ IF client.circuit THEN UNCHANGED count ELSE Fault
  /\ IF Is(p, "sync") /\ ~client.circuit /\ call[p].job = "tick" THEN Goto(p, "act") ELSE Raise(p)
  /\ UNCHANGED client

\* The alert of a 401 stops the task before the request raises.
Unauthorized(p) ==
  /\ ~client.circuit
  /\ Fault
  /\ client' = [client EXCEPT !.circuit = TRUE]
  /\ call' = [call EXCEPT ![p].back = Handler(p), ![p].step = "force"]

Asks(p, next) == Answers(p, next) \/ RequestFails(p) \/ Unauthorized(p)

-----------------------------------------------------------------------------
(* Reconciliation, one at a time. *)

Enter(p) ==
  /\ Is(p, "reconcile") /\ turn = None
  /\ turn' = p
  /\ Goto(p, "fetch")
  /\ UNCHANGED <<platform, rows, client, lock, asked, count>>

Fetch(p) ==
  /\ Is(p, "fetch")
  /\ Asks(p, [call EXCEPT ![p].seen = platform.account, ![p].step = "snapshot"])
  /\ UNCHANGED <<platform, rows, turn, lock, asked>>

\* Seeded bug: a failed reconciliation leaves the latch as it is.
_disable_after_failure_Skips(p) ==
  /\ Is(p, "failed")
  /\ Finish(p, AfterFailure)
  /\ UNCHANGED <<platform, rows, client, lock, asked, count>>

\* Closes the latch for the reason the next attempt has to remove.
_disable_after_failure(p) ==
  /\ Is(p, "failed") /\ StateFree
  /\ service' = [service EXCEPT !.open = FALSE, !.reason = "failed"]
  /\ Finish(p, AfterFailure)
  /\ UNCHANGED <<platform, task, cycle, client, lock, asked, count>>

\* The identity of the latest round counts, else the one that was selected; without
\* either the live account is taken as it is.
_snapshot(p) ==
  /\ Is(p, "snapshot")
  /\ call' = [call EXCEPT
       ![p].expected = service.selected, ![p].running = (task = "RUNNING"),
       ![p].of = IF cycle.account # None THEN cycle.account ELSE service.selected,
       ![p].step = IF \/ cycle = NoRound \/ cycle.account = call[p].seen
                      \/ cycle.account = None /\ service.selected = None
                   THEN "persist" ELSE "pend"]
  /\ UNCHANGED <<platform, rows, client, turn, lock, asked, count>>

\* Unless somebody selected a third account since the snapshot.
Selectable(p, account) == service.selected \in {call[p].expected, account}

\* Seeded bug: the reason that closed the latch stays.
_persist_identity_KeepsReason(p) ==
  /\ Is(p, "persist") /\ StateFree
  /\ IF Selectable(p, call[p].seen)
     THEN /\ service' = [service EXCEPT !.selected = call[p].seen]
          /\ client' = [client EXCEPT !.account = call[p].seen]
          /\ Goto(p, "enableRead") /\ UNCHANGED turn
     ELSE Finish(p, AfterFailure) /\ UNCHANGED <<service, client>>
  /\ UNCHANGED <<platform, task, cycle, lock, asked, count>>

_persist_identity(p) ==
  /\ Is(p, "persist") /\ StateFree
  /\ IF Selectable(p, call[p].seen)
     THEN /\ service' = [service EXCEPT !.selected = call[p].seen, !.reason = "reconciled"]
          /\ client' = [client EXCEPT !.account = call[p].seen]
          /\ Goto(p, "enableRead") /\ UNCHANGED turn
     ELSE Finish(p, AfterFailure) /\ UNCHANGED <<service, client>>
  /\ UNCHANGED <<platform, task, cycle, lock, asked, count>>

Pend(p) ==
  /\ Is(p, "pend") /\ StateFree
  /\ service' = [service EXCEPT !.open = FALSE, !.reason = "pending"]
  /\ Goto(p, "keep")
  /\ UNCHANGED <<platform, task, cycle, client, turn, lock, asked, count>>

\* A selection that is not the account of the round is put right before the reset.
KeepPrevious(p) ==
  /\ Is(p, "keep") /\ StateFree
  /\ IF call[p].expected = call[p].of \/ Selectable(p, call[p].of)
     THEN /\ service' = IF call[p].expected = call[p].of THEN service
                        ELSE [open |-> FALSE, reason |-> "pending", selected |-> call[p].of]
          /\ client' = [client EXCEPT !.account = call[p].seen]
          /\ Goto(p, "plan") /\ UNCHANGED turn
     ELSE Finish(p, AfterFailure) /\ UNCHANGED <<service, client>>
  /\ UNCHANGED <<platform, task, cycle, lock, asked, count>>

\* Seeded bug: the gateway stays with the account that was to be reset to.
_restore_gateway_Skips(p) ==
  /\ Is(p, "undo")
  /\ Finish(p, AfterFailure)
  /\ UNCHANGED <<platform, rows, client, lock, asked, count>>

\* The gateway is routed back to the account of the round.
_restore_gateway(p) ==
  /\ Is(p, "undo")
  /\ client' = [client EXCEPT !.account = call[p].of]
  /\ Finish(p, AfterFailure)
  /\ UNCHANGED <<platform, rows, lock, asked, count>>

\* The running tasks are counted before the row of the latch is locked.
EnableReads(p) ==
  /\ Is(p, "enableRead")
  /\ IF task = "RUNNING" /\ (call[p].running \/ turn # p)
     THEN Goto(p, "enable") /\ UNCHANGED turn
     ELSE Finish(p, AfterSuccess)
  /\ UNCHANGED <<platform, rows, client, lock, asked, count>>

\* Seeded bug: the latch is opened whatever closed it.
enable_latch_AnyReason(p) ==
  /\ Is(p, "enable") /\ StateFree
  /\ service' = [service EXCEPT !.open = TRUE,
                                !.reason = IF turn = p THEN "reconciled" ELSE "resumed"]
  /\ Finish(p, AfterSuccess)
  /\ UNCHANGED <<platform, task, cycle, client, lock, asked, count>>

enable_latch(p) ==
  /\ Is(p, "enable") /\ StateFree
  /\ service' = IF service.reason \in Unreconciled THEN service
                ELSE [service EXCEPT !.open = TRUE,
                                     !.reason = IF turn = p THEN "reconciled" ELSE "resumed"]
  /\ Finish(p, AfterSuccess)
  /\ UNCHANGED <<platform, task, cycle, client, lock, asked, count>>

-----------------------------------------------------------------------------
(* A reset of the round, by a reconciliation or by /reset: plan, evidence   *)
(* and baselines of the target account, evidence again, one transaction.    *)

\* Seeded bug: a task without a round is reset.
_read_plan_AnyRound(p) ==
  /\ Is(p, "plan")
  /\ IF service.selected # None /\ cycle.account \in {None, service.selected}
     THEN call' = [call EXCEPT ![p].plan = Seen, ![p].step = "evidence"]
     ELSE Raise(p)
  /\ UNCHANGED <<platform, rows, client, turn, lock, asked, count>>

_read_plan(p) ==
  /\ Is(p, "plan")
  /\ IF cycle # NoRound /\ service.selected # None /\ cycle.account \in {None, service.selected}
     THEN call' = [call EXCEPT ![p].plan = Seen, ![p].step = "evidence"]
     ELSE Raise(p)
  /\ UNCHANGED <<platform, rows, client, turn, lock, asked, count>>

\* An unresolved action or an association that is not active, at the plan or at the commit.
Refuses(p) ==
  /\ Is(p, "plan") \/ (Is(p, "resetCommit") /\ TaskFree)
  /\ lock' = [lock EXCEPT !.state = IF @ = p THEN None ELSE @]
  /\ asked' = Without(p)
  /\ Raise(p)
  /\ Fault
  /\ UNCHANGED <<platform, rows, client, turn>>

\* The account that answers and the one the gateway routes to are the target, before
\* the baselines and after them.
Evidence(p) ==
  /\ call[p].step \in {"evidence", "final"}
  /\ Asks(p, IF platform.account = Target(p) /\ client.account = Target(p)
             THEN [call EXCEPT ![p].step = IF Is(p, "evidence") THEN "final" ELSE "lockState"]
             ELSE Raised(p))
  /\ asked' = IF call'[p].step = "lockState" THEN AskedAgain(p) ELSE asked
  /\ UNCHANGED <<platform, rows, turn, lock>>

LockState(p) ==
  /\ Is(p, "lockState") /\ StateFree
  /\ lock' = [lock EXCEPT !.state = p]
  /\ Goto(p, "resetCommit")
  /\ UNCHANGED <<platform, rows, client, turn, asked, count>>

\* Nothing the plan read has changed; the round and its identity change together.
_commit_reset(p) ==
  /\ Is(p, "resetCommit") /\ TaskFree
  /\ lock' = [lock EXCEPT !.state = None]
  /\ IF call[p].plan = Seen /\ client.account = Target(p)
     THEN /\ cycle' = NewRound(Target(p))
          /\ service' = IF Target(p) = service.selected THEN service
                        ELSE [service EXCEPT !.selected = Target(p), !.reason = "reconciled"]
          /\ asked' = Newer(p)
          /\ call' = [q \in Processes |->
                        IF q # p THEN Touched(q)
                        ELSE IF turn # p THEN Quiet
                        ELSE [call[p] EXCEPT !.step = "enableRead", !.plan = Stale]]
     ELSE Raise(p) /\ asked' = Without(p) /\ UNCHANGED <<service, cycle>>
  /\ UNCHANGED <<platform, task, client, turn, count>>

-----------------------------------------------------------------------------
(* The cycle of the live account is stored. *)

Sync(p) ==
  /\ Is(p, "sync")
  /\ Asks(p, [call EXCEPT ![p].seen = platform.account, ![p].step = "syncCommit"])
  /\ asked' = IF call'[p].step = "syncCommit" THEN AskedAgain(p) ELSE asked
  /\ UNCHANGED <<platform, rows, turn, lock>>

AfterSync(p) == IF p = Loop THEN At("tick", "act") ELSE Quiet

\* The cycle as the sync leaves it; a new one makes the plans of resets stale.
Store(p, opens, round) ==
  /\ Is(p, "syncCommit") /\ TaskFree
  /\ cycle' = round
  /\ call' = [q \in Processes |-> IF q = p THEN AfterSync(p)
                                  ELSE IF opens THEN Touched(q) ELSE call[q]]
  /\ UNCHANGED <<platform, service, task, client, turn, lock, count>>

\* Until it ends, the round of another account goes to review.
OpensRound == cycle = NoRound \/ cycle.ended
Reviewed(p) ==
  IF OpensRound THEN NewRound(call[p].seen)
  ELSE [cycle EXCEPT !.status = IF cycle.account = call[p].seen THEN "VERIFIED" ELSE "NEEDS_REVIEW"]

\* Seeded bug: evidence is stored however old it is.
sync_AnyEvidence(p) == Store(p, OpensRound, Reviewed(p)) /\ asked' = Newer(p)

\* Evidence older than the stored one is ignored.
sync(p) ==
  IF p \in Asked THEN Store(p, OpensRound, Reviewed(p)) /\ asked' = Newer(p)
  ELSE Store(p, FALSE, cycle) /\ UNCHANGED asked

-----------------------------------------------------------------------------
(* The loop. *)

Boots ==
  /\ Is(Loop, "idle")
  /\ call' = [call EXCEPT ![Loop] = At(IF task = "RUNNING" THEN "boot" ELSE "resume", "reconcile")]
  /\ UNCHANGED <<platform, rows, client, turn, lock, asked, count>>

\* Nothing was reconciled at boot.
disable ==
  /\ Is(Loop, "disable") /\ StateFree
  /\ service' = [service EXCEPT !.open = FALSE, !.reason = "failed"]
  /\ call' = [call EXCEPT ![Loop] = At("resume", "reconcile")]
  /\ UNCHANGED <<platform, task, cycle, client, turn, lock, asked, count>>

Wakes ==
  /\ Is(Loop, "sleep")
  /\ Goto(Loop, "reconcile")
  /\ UNCHANGED <<platform, rows, client, turn, lock, asked, count>>

\* Samples and quota actions.
Acts ==
  /\ Is(Loop, "act")
  /\ Asks(Loop, [call EXCEPT ![Loop] = At("tick", "sleep")])
  /\ UNCHANGED <<platform, rows, turn, lock, asked>>

-----------------------------------------------------------------------------
(* The commands. *)

FirstStep == [start |-> "reconcile", stop |-> "lockTask", recover |-> "reconcile",
              auth |-> "reconcile", reset |-> "plan"]

Begin(p, job) ==
  /\ call[p] = Quiet /\ Booted
  /\ call' = [call EXCEPT ![p] = At(job, FirstStep[job])]
  /\ Happens("commands")
  /\ UNCHANGED <<platform, rows, client, turn, lock, asked>>

\* /starttask and /stoptask lock the task, then the state.
LockTask(p) ==
  /\ Is(p, "lockTask") /\ TaskFree
  /\ lock' = [lock EXCEPT !.task = p]
  /\ Goto(p, "taskCommit")
  /\ UNCHANGED <<platform, rows, client, turn, asked, count>>

\* An account that is not reconciled keeps the latch closed.
_refresh_latch(status) ==
  IF status = "RUNNING"
  THEN IF service.reason \in Unreconciled THEN [service EXCEPT !.open = FALSE]
       ELSE IF service.open THEN service
       ELSE [service EXCEPT !.open = TRUE, !.reason = "started"]
  ELSE IF service.open THEN [service EXCEPT !.open = FALSE, !.reason = "stopped"]
       ELSE service

Settle(p, status) ==
  /\ Is(p, "taskCommit") /\ StateFree
  /\ task' = status
  /\ service' = _refresh_latch(status)
  /\ lock' = [lock EXCEPT !.task = None]
  /\ call' = [q \in Processes |-> IF q = p THEN Quiet ELSE Touched(q)]
  /\ UNCHANGED <<platform, cycle, client, turn, asked, count>>

\* The reconciliation before it has selected an account.
start(p) == call[p].job = "startTask" /\ service.selected # None /\ Settle(p, "RUNNING")
stop(p) == call[p].job = "stop" /\ Settle(p, "STOPPED")

\* The alert of a 401 and /recovery_enable lock the state, then the task.
ForceLocks(p) ==
  /\ Is(p, "force") /\ StateFree
  /\ lock' = [lock EXCEPT !.state = p]
  /\ Goto(p, "forceCommit")
  /\ UNCHANGED <<platform, rows, client, turn, asked, count>>

Alerts(p) == call[p].back # "idle"
AfterForce(p) == IF Alerts(p) THEN HandledAt(p, call[p].back) ELSE Quiet

\* Only a running task is updated, and waited for.
force_stop(p) ==
  /\ Is(p, "forceCommit") /\ (task = "RUNNING" => TaskFree)
  /\ task' = "STOPPED"
  /\ service' = [service EXCEPT !.open = FALSE,
                                !.reason = IF Alerts(p) THEN "unauthorized" ELSE "validated"]
  /\ lock' = [lock EXCEPT !.state = None]
  /\ call' = [q \in Processes |-> IF q = p THEN AfterForce(p)
                                  ELSE IF task = "RUNNING" THEN Touched(q) ELSE call[q]]
  /\ UNCHANGED <<platform, cycle, client, turn, asked, count>>

-----------------------------------------------------------------------------
(* Two transactions that wait for each other: the database aborts one.      *)

WaitsForTask(p) == Is(p, "resetCommit") \/ (Is(p, "forceCommit") /\ task = "RUNNING")
Deadlock == /\ lock.state # None /\ lock.task # None
            /\ WaitsForTask(lock.state) /\ Is(lock.task, "taskCommit")

\* A victim raises; what the alert of a 401 raises is only logged.
AbortsForce ==
  /\ Deadlock /\ Is(lock.state, "forceCommit")
  /\ lock' = [lock EXCEPT !.state = None]
  /\ call' = [call EXCEPT ![lock.state] = AfterForce(lock.state)]
  /\ UNCHANGED <<platform, rows, client, turn, asked, count>>

AbortsReset ==
  /\ Deadlock /\ Is(lock.state, "resetCommit")
  /\ lock' = [lock EXCEPT !.state = None]
  /\ Raise(lock.state)
  /\ asked' = Without(lock.state)
  /\ UNCHANGED <<platform, rows, client, turn, count>>

AbortsCommand ==
  /\ Deadlock
  /\ lock' = [lock EXCEPT !.task = None]
  /\ call' = [call EXCEPT ![lock.task] = Quiet]
  /\ UNCHANGED <<platform, rows, client, turn, asked, count>>

-----------------------------------------------------------------------------

Reconciles(p) ==
  \/ Enter(p) \/ Fetch(p) \/ _disable_after_failure(p) \/ _snapshot(p) \/ _persist_identity(p)
  \/ Pend(p) \/ KeepPrevious(p) \/ _restore_gateway(p) \/ EnableReads(p) \/ enable_latch(p)
ResetsRound(p) == _read_plan(p) \/ Refuses(p) \/ Evidence(p) \/ LockState(p) \/ _commit_reset(p)
Proceeds(p) ==
  \/ Reconciles(p) \/ ResetsRound(p) \/ Sync(p) \/ sync(p)
  \/ LockTask(p) \/ start(p) \/ stop(p) \/ ForceLocks(p) \/ force_stop(p)
Loops == Boots \/ disable \/ Wakes \/ Acts \/ Proceeds(Loop)
Aborts == AbortsForce \/ AbortsReset \/ AbortsCommand

Next ==
  \/ \E account \in Accounts : Replace(account)
  \/ RoundEnds \/ authenticate \/ Restart
  \/ \E p \in Commands, job \in DOMAIN FirstStep : Begin(p, job)
  \/ Loops
  \/ \E p \in Commands : Proceeds(p)
  \/ Aborts

\* The event loop runs every coroutine, a request ends within its timeout and the
\* database ends a deadlock.  Who waits for a row or for its turn is served in order:
\* strong fairness.
Fairness == WF_vars(Loops) /\ (\A p \in Commands : SF_vars(Proceeds(p))) /\ WF_vars(Aborts)

Spec == Init /\ [][Next]_vars
FairSpec == Spec /\ Fairness

-----------------------------------------------------------------------------
(* Properties *)

\* Once a reconciliation has failed or met another account nobody may write, whatever
\* starts or resumes, until a reconciliation or a stop has replaced the reason.
PendingKeepsClosed == [][service.reason \in Unreconciled => ~service'.open]_vars

\* The gateway routes to the selected account unless a reconciliation is under way:
\* also after one that failed, and to the new account once its round is committed.
RoutesToSelected == turn = None => client.account = service.selected

\* A round of the live account is not sent to review by what the platform reported
\* before the account was replaced.
CurrentIsVerified ==
  cycle.account = platform.account /\ platform.account \notin platform.former
    => cycle.status = "VERIFIED"

\* After a 401 the writes are closed or the operator logs in, also when the alert
\* loses against a command that holds the task.
UnauthorizedCloses == client.circuit ~> (~service.open \/ ~client.circuit)

\* A task that stays RUNNING gets its writes back, in a round of the live account.
RunningTaskResumes ==
  []<>(\/ task = "STOPPED" \/ client.circuit
       \/ service.open /\ cycle.account = platform.account)

\* task.py:342: the latch is open while some task is RUNNING.  Not so:
\* a stop between the two reads of enable_latch leaves it open.
LatchNeedsRunningTask == service.open => task = "RUNNING"
=============================================================================
