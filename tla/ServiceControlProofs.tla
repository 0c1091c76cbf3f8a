------------------------- MODULE ServiceControlProofs -------------------------
(***************************************************************************)
(* Who may open the latch and where the gateway routes, for any accounts,  *)
(* any number of commands and any bounds.                                  *)
(***************************************************************************)
EXTENDS ServiceControl, TLAPS

\* The state without the order of the evidence and the counters of the bounds.
StateTyped ==
  /\ platform \in [account : Accounts, former : SUBSET Accounts]
  /\ service \in [open : BOOLEAN, reason : Reasons, selected : Identity]
  /\ task \in {"RUNNING", "STOPPED"}
  /\ cycle \in Round \cup {NoRound}
  /\ client \in [circuit : BOOLEAN, account : Identity]
  /\ turn \in Processes \cup {None}
  /\ lock \in [state : Processes \cup {None}, task : Processes \cup {None}]
  /\ call \in [Processes -> CallState]

\* A closed gate keeps the reason that closed it.
UnreconciledIsClosed == service.reason \in Unreconciled => ~service.open

\* The jobs that reconcile, and the steps at which a call may be for which job.
Reconciling == {"boot", "resume", "tick", "start", "startTask", "recover", "auth"}
TurnSteps == {"fetch", "failed", "snapshot", "persist", "pend", "keep", "undo"}
Forced(c) == c.step \in {"force", "forceCommit"}

Shaped(c) ==
  /\ c.step \in TurnSteps \cup {"reconcile"} => c.job \in Reconciling
  /\ c.step \in PlanSteps => c.job \in Reconciling \cup {"reset"}
  /\ c.step \in {"enableRead", "enable"} => c.job \in Reconciling \cup {"open"}
  /\ Forced(c) => c.back \in {"idle", "raised", "failed", "undo"}
  /\ Forced(c) /\ c.back \in {"failed", "undo"} => c.job \in Reconciling
  /\ c.step = "sleep" => c.job = "tick"

\* The call is in the middle of a reconciliation.
InTurn(c) ==
  \/ c.step \in TurnSteps
  \/ c.step \in PlanSteps /\ c.job # "reset"
  \/ c.step \in {"enableRead", "enable"} /\ c.job # "open"
  \/ Forced(c) /\ c.back \in {"failed", "undo"}

\* Its snapshot of the selection still counts.
Snapshots(c) == c.step \in {"pend", "keep"}

\* It has routed the gateway to the account it resets to, or is about to undo that.
Diverted(c) ==
  \/ c.step \in PlanSteps /\ c.job # "reset"
  \/ c.step = "undo"
  \/ Forced(c) /\ c.back = "undo"

\* One reconciliation at a time; only while it is diverted the gateway routes to another
\* account than the selected one, which is then the account of the round.
TurnsInv ==
  /\ \A p \in Processes : Shaped(call[p])
  /\ \A p \in Processes : InTurn(call[p]) <=> turn = p
  /\ \A p \in Processes : Snapshots(call[p]) => service.selected = call[p].expected
  /\ \A p \in Processes : Diverted(call[p]) => service.selected = call[p].of
  /\ (\A p \in Processes : ~Diverted(call[p])) => client.account = service.selected

-----------------------------------------------------------------------------
(* Types. *)

LEMMA ConstantFacts ==
  /\ Loop \in Processes /\ None \notin Processes /\ None \in Identity
  /\ Commands \subseteq Processes /\ Loop \notin Commands
  /\ Accounts \subseteq Identity
BY NoneAssumption, LoopAssumption DEF Processes, Identity

LEMMA QuietTyped == Quiet \in CallState
BY ConstantFacts DEF Quiet, CallState, Phases, Steps, Stale

LEMMA AtTyped ==
  ASSUME NEW job \in Phases, NEW step \in Steps
  PROVE  At(job, step) \in CallState
BY QuietTyped DEF At, CallState

LEMMA FailureTyped ==
  ASSUME NEW job \in Phases
  PROVE  AfterFailure[job] \in CallState
<1>1. {"boot", "resume", "open", "tick"} \subseteq Phases
  BY DEF Phases
<1>2. {"disable", "reconcile", "enableRead", "sleep"} \subseteq Steps
  BY DEF Steps
<1> QED BY <1>1, <1>2, AtTyped, QuietTyped DEF AfterFailure

LEMMA SuccessTyped ==
  ASSUME NEW job \in Reconciling \cup {"open", "reset"}
  PROVE  AfterSuccess[job] \in CallState
<1>1. {"resume", "open", "tick", "startTask", "recover", "auth"} \subseteq Phases
  BY DEF Phases, Jobs
<1>2. {"reconcile", "enableRead", "sleep", "sync", "lockTask", "force"} \subseteq Steps
  BY DEF Steps
<1> QED BY <1>1, <1>2, AtTyped, QuietTyped DEF AfterSuccess, Reconciling

LEMMA HandledTyped ==
  ASSUME StateTyped, NEW p \in Processes, NEW step \in Steps \cup {"raised"}
  PROVE  HandledAt(p, step) \in CallState
<1>1. call[p] \in CallState
  BY DEF StateTyped
<1>2. AfterFailure[call[p].job] \in CallState
  BY <1>1, FailureTyped DEF CallState
<1>3. step # "raised" => step \in Steps
  OBVIOUS
<1>4. "idle" \in Steps
  BY DEF Steps
<1>5. step # "raised" => [call[p] EXCEPT !.step = step, !.back = "idle", !.plan = Stale] \in CallState
  BY <1>1, <1>3, <1>4 DEF CallState
<1> QED BY <1>2, <1>5 DEF HandledAt

LEMMA RaisedTyped ==
  ASSUME StateTyped, NEW p \in Processes
  PROVE  /\ Handler(p) \in {"failed", "undo", "raised"}
         /\ Raised(p) \in [Processes -> CallState]
<1>1. Handler(p) \in {"failed", "undo", "raised"}
  BY DEF Handler
<1>2. Handler(p) \in Steps \cup {"raised"}
  BY <1>1 DEF Steps
<1>3. HandledAt(p, Handler(p)) \in CallState
  BY <1>2, HandledTyped
<1> QED BY <1>1, <1>3 DEF Raised, StateTyped

LEMMA TouchedTyped ==
  ASSUME StateTyped, NEW q \in Processes
  PROVE  Touched(q) \in CallState
BY DEF Touched, StateTyped, CallState

LEMMA GotoTyped ==
  ASSUME StateTyped, NEW p \in Processes, NEW step \in Steps
  PROVE  [call EXCEPT ![p].step = step] \in [Processes -> CallState]
BY DEF StateTyped, CallState

\* A request whose answer leaves well typed calls leaves well typed calls.
LEMMA AsksTyped ==
  ASSUME StateTyped, NEW p \in Processes, NEW next \in [Processes -> CallState], Asks(p, next)
  PROVE  /\ call' \in [Processes -> CallState]
         /\ client' \in [circuit : BOOLEAN, account : Identity]
<1>1. client' \in [circuit : BOOLEAN, account : Identity]
  BY DEF Asks, Answers, RequestFails, Unauthorized, StateTyped
<1>2. Raised(p) \in [Processes -> CallState]
  BY RaisedTyped
<1>3. [call EXCEPT ![p].step = "act"] \in [Processes -> CallState]
  BY GotoTyped DEF Steps
<1>4. [call EXCEPT ![p].back = Handler(p), ![p].step = "force"] \in [Processes -> CallState]
  <2>1. Handler(p) \in Steps \cup {"raised"}
    BY RaisedTyped DEF Steps
  <2>2. "force" \in Steps
    BY DEF Steps
  <2>3. call[p] \in CallState
    BY DEF StateTyped
  <2>4. [call[p] EXCEPT !.back = Handler(p), !.step = "force"] \in CallState
    BY <2>1, <2>2, <2>3 DEF CallState
  <2>5. [call EXCEPT ![p].back = Handler(p), ![p].step = "force"]
          = [call EXCEPT ![p] = [call[p] EXCEPT !.back = Handler(p), !.step = "force"]]
    BY DEF StateTyped
  <2> QED BY <2>4, <2>5 DEF StateTyped
<1>5. call' \in {next, Raised(p), [call EXCEPT ![p].step = "act"],
                 [call EXCEPT ![p].back = Handler(p), ![p].step = "force"]}
  BY DEF Asks, Answers, RequestFails, Unauthorized, Raise, Goto
<1> QED BY <1>1, <1>2, <1>3, <1>4, <1>5

LEMMA InitTyped == Init => StateTyped
<1> SUFFICES ASSUME Init PROVE StateTyped
  OBVIOUS
<1>1. call \in [Processes -> CallState]
  BY QuietTyped, AtTyped DEF Init, Idle, Phases, Steps
<1>2. service \in [open : BOOLEAN, reason : Reasons, selected : Identity]
  BY DEF Init, Reasons
<1>3. cycle \in Round \cup {NoRound}
  <2>1. \A account \in Identity : NewRound(account) \in Round
    BY DEF NewRound, Round
  <2> QED BY <2>1, ConstantFacts DEF Init
<1> QED BY <1>1, <1>2, <1>3, ConstantFacts DEF Init, StateTyped

\* Platform, operator and restarts.
LEMMA OutsideTyped ==
  ASSUME StateTyped,
         \/ \E account \in Accounts : Replace(account)
         \/ RoundEnds \/ authenticate \/ Restart
  PROVE  StateTyped'
<1>1. CASE \E account \in Accounts : Replace(account)
  BY <1>1 DEF Replace, rows, StateTyped
<1>2. CASE RoundEnds
  <2>1. call' \in [Processes -> CallState]
    BY <1>2, TouchedTyped DEF RoundEnds, StateTyped
  <2>2. cycle' \in Round \cup {NoRound}
    BY <1>2 DEF RoundEnds, StateTyped, Round
  <2> QED BY <1>2, <2>1, <2>2 DEF RoundEnds, StateTyped
<1>3. CASE authenticate
  BY <1>3 DEF authenticate, rows, StateTyped
<1>4. CASE Restart
  <2>1. call' \in [Processes -> CallState]
    BY <1>4, QuietTyped, AtTyped DEF Restart, StartsUp, Idle, Phases, Steps
  <2> QED BY <1>4, <2>1, ConstantFacts DEF Restart, StartsUp, StateTyped, Reasons
<1> QED BY <1>1, <1>2, <1>3, <1>4

\* A reconciliation up to its reset.
LEMMA ReconcileTyped ==
  ASSUME StateTyped, TurnsInv, NEW p \in Processes, Reconciles(p)
  PROVE  StateTyped'
<1> USE ConstantFacts
<1>0. call[p] \in CallState /\ call[p].job \in Phases
  BY DEF StateTyped, CallState
<1>1. CASE Enter(p)
  BY <1>1, GotoTyped DEF Enter, Goto, rows, StateTyped, Steps
<1>2. CASE Fetch(p)
  <2>1. [call EXCEPT ![p].seen = platform.account, ![p].step = "snapshot"]
          \in [Processes -> CallState]
    <3>1. platform.account \in Identity /\ "snapshot" \in Steps
      BY DEF StateTyped, Steps
    <3>2. [call[p] EXCEPT !.seen = platform.account, !.step = "snapshot"] \in CallState
      BY <1>0, <3>1 DEF CallState
    <3>3. [call EXCEPT ![p].seen = platform.account, ![p].step = "snapshot"]
            = [call EXCEPT ![p] = [call[p] EXCEPT !.seen = platform.account, !.step = "snapshot"]]
      BY DEF StateTyped
    <3> QED BY <3>2, <3>3 DEF StateTyped
  <2> QED BY <1>2, <2>1, AsksTyped DEF Fetch, rows, StateTyped
<1>3. CASE _disable_after_failure(p)
  <2>1. service' \in [open : BOOLEAN, reason : Reasons, selected : Identity]
    BY <1>3 DEF _disable_after_failure, StateTyped, Reasons, Unreconciled
  <2>2. AfterFailure[call[p].job] \in CallState
    BY <1>0, FailureTyped
  <2> QED BY <1>3, <2>1, <2>2 DEF _disable_after_failure, Finish, StateTyped
<1>4. CASE _snapshot(p)
  <2> DEFINE of == IF cycle.account # None THEN cycle.account ELSE service.selected
             step == IF \/ cycle = NoRound \/ cycle.account = call[p].seen
                        \/ cycle.account = None /\ service.selected = None
                     THEN "persist" ELSE "pend"
  <2>1. of \in Identity
    BY DEF StateTyped, Round, NoRound
  <2>2. step \in Steps
    BY DEF Steps
  <2>3. call' = [call EXCEPT ![p].expected = service.selected, ![p].running = (task = "RUNNING"),
                             ![p].of = of, ![p].step = step]
    BY <1>4 DEF _snapshot
  <2>4. service.selected \in Identity /\ (task = "RUNNING") \in BOOLEAN
    BY DEF StateTyped
  <2> HIDE DEF of, step
  <2> DEFINE next == [call[p] EXCEPT !.expected = service.selected, !.running = (task = "RUNNING"),
                                     !.of = of, !.step = step]
  <2>5. next \in CallState
    BY <1>0, <2>1, <2>2, <2>4 DEF CallState
  <2>6. call' = [call EXCEPT ![p] = next]
    BY <2>3 DEF StateTyped
  <2>7. call' \in [Processes -> CallState]
    BY <2>5, <2>6 DEF StateTyped
  <2> QED BY <1>4, <2>7 DEF _snapshot, rows, StateTyped
<1>5. CASE _persist_identity(p)
  <2>1. AfterFailure[call[p].job] \in CallState
    BY <1>0, FailureTyped
  <2>2. call[p].seen \in Identity
    BY <1>0 DEF CallState
  <2>3. service' \in [open : BOOLEAN, reason : Reasons, selected : Identity]
    BY <1>5, <2>2 DEF _persist_identity, StateTyped, Reasons
  <2>4. client' \in [circuit : BOOLEAN, account : Identity]
    BY <1>5, <2>2 DEF _persist_identity, StateTyped
  <2>5. turn' \in Processes \cup {None}
    BY <1>5 DEF _persist_identity, Finish, StateTyped
  <2>6. call' \in [Processes -> CallState]
    BY <1>5, <2>1, GotoTyped, SMTT(15), ZenonT(40) DEF _persist_identity, Finish, Goto, StateTyped, Steps
  <2> QED BY <1>5, <2>3, <2>4, <2>5, <2>6 DEF _persist_identity, StateTyped
<1>6. CASE Pend(p)
  <2>1. service' \in [open : BOOLEAN, reason : Reasons, selected : Identity]
    BY <1>6 DEF Pend, StateTyped, Reasons, Unreconciled
  <2>2. call' \in [Processes -> CallState]
    BY <1>6, GotoTyped DEF Pend, Goto, Steps
  <2> QED BY <1>6, <2>1, <2>2 DEF Pend, StateTyped
<1>7. CASE KeepPrevious(p)
  <2>1. AfterFailure[call[p].job] \in CallState
    BY <1>0, FailureTyped
  <2>2. call[p].seen \in Identity /\ call[p].of \in Identity
    BY <1>0 DEF CallState
  <2>3. service' \in [open : BOOLEAN, reason : Reasons, selected : Identity]
    <3>1. service' \in {service, [open |-> FALSE, reason |-> "pending", selected |-> call[p].of]}
      BY <1>7 DEF KeepPrevious
    <3>2. [open |-> FALSE, reason |-> "pending", selected |-> call[p].of]
            \in [open : BOOLEAN, reason : Reasons, selected : Identity]
      BY <2>2 DEF Reasons, Unreconciled
    <3> QED BY <3>1, <3>2 DEF StateTyped
  <2>4. client' \in [circuit : BOOLEAN, account : Identity]
    BY <1>7, <2>2 DEF KeepPrevious, StateTyped
  <2>5. turn' \in Processes \cup {None}
    BY <1>7 DEF KeepPrevious, Finish, StateTyped
  <2>6. call' \in [Processes -> CallState]
    <3>1. "plan" \in Steps
      BY DEF Steps, PlanSteps
    <3> QED BY <1>7, <2>1, <3>1, GotoTyped DEF KeepPrevious, Finish, Goto, StateTyped
  <2> QED BY <1>7, <2>3, <2>4, <2>5, <2>6 DEF KeepPrevious, StateTyped
<1>8. CASE _restore_gateway(p)
  <2>1. AfterFailure[call[p].job] \in CallState
    BY <1>0, FailureTyped
  <2>2. call[p].of \in Identity
    BY <1>0 DEF CallState
  <2>3. client' \in [circuit : BOOLEAN, account : Identity]
    BY <1>8, <2>2 DEF _restore_gateway, StateTyped
  <2> QED BY <1>8, <2>1, <2>3 DEF _restore_gateway, Finish, rows, StateTyped
<1>9. CASE EnableReads(p) \/ enable_latch(p)
  <2>1. call[p].job \in Reconciling \cup {"open"}
    BY <1>9 DEF EnableReads, enable_latch, Is, TurnsInv, Shaped
  <2>2. AfterSuccess[call[p].job] \in CallState
    BY <2>1, SuccessTyped
  <2>3. service' \in [open : BOOLEAN, reason : Reasons, selected : Identity]
    BY <1>9 DEF EnableReads, enable_latch, rows, StateTyped, Reasons
  <2>4. turn' \in Processes \cup {None}
    BY <1>9 DEF EnableReads, enable_latch, Finish, StateTyped
  <2>5. call' \in [Processes -> CallState]
    BY <1>9, <2>2, GotoTyped DEF EnableReads, enable_latch, Finish, Goto, StateTyped, Steps
  <2> QED BY <1>9, <2>3, <2>4, <2>5 DEF EnableReads, enable_latch, rows, StateTyped
<1> QED BY <1>1, <1>2, <1>3, <1>4, <1>5, <1>6, <1>7, <1>8, <1>9 DEF Reconciles

\* A reset of the round.
LEMMA ResetTyped ==
  ASSUME StateTyped, TurnsInv, NEW p \in Processes, ResetsRound(p)
  PROVE  StateTyped'
<1> USE ConstantFacts
<1>0. call[p] \in CallState
  BY DEF StateTyped
<1>1. Raised(p) \in [Processes -> CallState]
  BY RaisedTyped
<1>2. CASE _read_plan(p)
  <2>1. CASE call' = [call EXCEPT ![p].plan = Seen, ![p].step = "evidence"] /\ cycle # NoRound
    <3>1. Seen \in Plan /\ "evidence" \in Steps
      BY <2>1 DEF Seen, Plan, StateTyped, Round, Steps, PlanSteps
    <3>2. [call[p] EXCEPT !.plan = Seen, !.step = "evidence"] \in CallState
      BY <1>0, <3>1 DEF CallState
    <3>3. call' = [call EXCEPT ![p] = [call[p] EXCEPT !.plan = Seen, !.step = "evidence"]]
      BY <2>1 DEF StateTyped
    <3>4. call' \in [Processes -> CallState]
      BY <3>2, <3>3 DEF StateTyped
    <3> QED BY <1>2, <3>4 DEF _read_plan, rows, StateTyped
  <2>2. CASE Raise(p)
    BY <1>1, <1>2, <2>2 DEF _read_plan, Raise, rows, StateTyped
  <2> QED BY <1>2, <2>1, <2>2 DEF _read_plan
<1>3. CASE Refuses(p)
  BY <1>1, <1>3 DEF Refuses, Raise, rows, StateTyped
<1>4. CASE Evidence(p)
  <2> DEFINE next == IF platform.account = Target(p) /\ client.account = Target(p)
                     THEN [call EXCEPT ![p].step = IF Is(p, "evidence") THEN "final" ELSE "lockState"]
                     ELSE Raised(p)
  <2>1. next \in [Processes -> CallState]
    <3>1. (IF Is(p, "evidence") THEN "final" ELSE "lockState") \in Steps
      BY DEF Steps, PlanSteps
    <3> QED BY <1>1, <3>1, GotoTyped
  <2>2. Asks(p, next)
    BY <1>4 DEF Evidence
  <2> HIDE DEF next
  <2> QED BY <1>4, <2>1, <2>2, AsksTyped DEF Evidence, rows, StateTyped
<1>5. CASE LockState(p)
  <2>1. "resetCommit" \in Steps
    BY DEF Steps, PlanSteps
  <2> QED BY <1>5, <2>1, GotoTyped DEF LockState, Goto, rows, StateTyped
<1>6. CASE _commit_reset(p)
  <2>1. CASE Raise(p) /\ UNCHANGED <<service, cycle>>
    BY <1>1, <1>6, <2>1 DEF _commit_reset, Raise, StateTyped
  <2>2. CASE ~(Raise(p) /\ UNCHANGED <<service, cycle>>)
    <3>1. Target(p) \in Identity
      BY <1>0 DEF Target, CallState, Plan, Stale
    <3>2. cycle' = NewRound(Target(p))
      BY <1>6, <2>2 DEF _commit_reset
    <3>3. cycle' \in Round
      BY <3>1, <3>2 DEF NewRound, Round
    <3>4. service' \in {service, [service EXCEPT !.selected = Target(p), !.reason = "reconciled"]}
      BY <1>6, <2>2 DEF _commit_reset
    <3>5. service' \in [open : BOOLEAN, reason : Reasons, selected : Identity]
      BY <3>1, <3>4 DEF StateTyped, Reasons
    <3>6. [call[p] EXCEPT !.step = "enableRead", !.plan = Stale] \in CallState
      BY <1>0 DEF CallState, Steps
    <3>7. call' = [q \in Processes |->
                     IF q # p THEN Touched(q)
                     ELSE IF turn # p THEN Quiet
                     ELSE [call[p] EXCEPT !.step = "enableRead", !.plan = Stale]]
      BY <1>6, <2>2 DEF _commit_reset
    <3>8. call' \in [Processes -> CallState]
      BY <3>6, <3>7, QuietTyped, TouchedTyped
    <3> QED BY <1>6, <3>3, <3>5, <3>8 DEF _commit_reset, StateTyped
  <2> QED BY <2>1, <2>2
<1> QED BY <1>2, <1>3, <1>4, <1>5, <1>6 DEF ResetsRound

\* The cycle, the task and the alert.
LEMMA CommandTyped ==
  ASSUME StateTyped, NEW p \in Processes,
         \/ Sync(p) \/ sync(p) \/ LockTask(p) \/ start(p) \/ stop(p) \/ ForceLocks(p) \/ force_stop(p)
  PROVE  StateTyped'
<1> USE ConstantFacts
<1>0. call[p] \in CallState
  BY DEF StateTyped
<1>1. CASE Sync(p)
  <2>1. platform.account \in Identity /\ "syncCommit" \in Steps
    BY DEF StateTyped, Steps
  <2>2. [call[p] EXCEPT !.seen = platform.account, !.step = "syncCommit"] \in CallState
    BY <1>0, <2>1 DEF CallState
  <2>3. [call EXCEPT ![p].seen = platform.account, ![p].step = "syncCommit"]
          = [call EXCEPT ![p] = [call[p] EXCEPT !.seen = platform.account, !.step = "syncCommit"]]
    BY DEF StateTyped
  <2>4. [call EXCEPT ![p].seen = platform.account, ![p].step = "syncCommit"]
          \in [Processes -> CallState]
    BY <2>2, <2>3 DEF StateTyped
  <2> QED BY <1>1, <2>4, AsksTyped DEF Sync, rows, StateTyped
<1>2. CASE sync(p)
  <2>1. Reviewed(p) \in Round /\ cycle \in Round \cup {NoRound}
    <3>1. NewRound(call[p].seen) \in Round
      BY <1>0 DEF NewRound, Round, CallState
    <3>2. cycle # NoRound =>
            [cycle EXCEPT !.status = IF cycle.account = call[p].seen THEN "VERIFIED" ELSE "NEEDS_REVIEW"]
              \in Round
      BY DEF StateTyped, Round
    <3> QED BY <3>1, <3>2 DEF Reviewed, OpensRound, StateTyped
  <2>2. PICK opens \in BOOLEAN, round \in Round \cup {NoRound} : Store(p, opens, round)
    <3>1. OpensRound \in BOOLEAN
      BY DEF OpensRound, StateTyped, Round, NoRound
    <3> QED BY <1>2, <2>1, <3>1 DEF sync
  <2>3. AfterSync(p) \in CallState
    BY QuietTyped, AtTyped DEF AfterSync, Phases, Steps
  <2>4. call' \in [Processes -> CallState]
    BY <2>2, <2>3, TouchedTyped DEF Store, StateTyped
  <2> QED BY <2>2, <2>4 DEF Store, StateTyped
<1>3. CASE LockTask(p)
  <2>1. "taskCommit" \in Steps
    BY DEF Steps
  <2> QED BY <1>3, <2>1, GotoTyped DEF LockTask, Goto, rows, StateTyped
<1>4. CASE start(p) \/ stop(p)
  <2>1. PICK status \in {"RUNNING", "STOPPED"} : Settle(p, status)
    BY <1>4 DEF start, stop
  <2>2. call' \in [Processes -> CallState]
    BY <2>1, QuietTyped, TouchedTyped DEF Settle
  <2>3. service' \in [open : BOOLEAN, reason : Reasons, selected : Identity]
    <3>1. service' \in {service, [service EXCEPT !.open = FALSE],
                        [service EXCEPT !.open = TRUE, !.reason = "started"],
                        [service EXCEPT !.open = FALSE, !.reason = "stopped"]}
      BY <2>1 DEF Settle, _refresh_latch
    <3> QED BY <3>1 DEF StateTyped, Reasons
  <2> QED BY <2>1, <2>2, <2>3 DEF Settle, StateTyped
<1>5. CASE ForceLocks(p)
  <2>1. "forceCommit" \in Steps
    BY DEF Steps
  <2> QED BY <1>5, <2>1, GotoTyped DEF ForceLocks, Goto, rows, StateTyped
<1>6. CASE force_stop(p)
  <2>1. AfterForce(p) \in CallState
    BY <1>0, HandledTyped, QuietTyped DEF AfterForce, CallState
  <2>2. call' \in [Processes -> CallState]
    BY <1>6, <2>1, TouchedTyped DEF force_stop, StateTyped
  <2>3. service' \in [open : BOOLEAN, reason : Reasons, selected : Identity]
    BY <1>6 DEF force_stop, StateTyped, Reasons
  <2> QED BY <1>6, <2>2, <2>3 DEF force_stop, StateTyped
<1> QED BY <1>1, <1>2, <1>3, <1>4, <1>5, <1>6

\* The loop, new commands and transactions the database aborts.
LEMMA LoopTyped ==
  ASSUME StateTyped,
         \/ Boots \/ disable \/ Wakes \/ Acts \/ Aborts
         \/ \E p \in Commands, job \in DOMAIN FirstStep : Begin(p, job)
  PROVE  StateTyped'
<1> USE ConstantFacts
<1>1. CASE Boots
  <2>1. At(IF task = "RUNNING" THEN "boot" ELSE "resume", "reconcile") \in CallState
    BY AtTyped DEF Phases, Steps
  <2> QED BY <1>1, <2>1 DEF Boots, rows, StateTyped
<1>2. CASE disable
  <2>1. At("resume", "reconcile") \in CallState
    BY AtTyped DEF Phases, Steps
  <2>2. service' \in [open : BOOLEAN, reason : Reasons, selected : Identity]
    BY <1>2 DEF disable, StateTyped, Reasons, Unreconciled
  <2> QED BY <1>2, <2>1, <2>2 DEF disable, StateTyped
<1>3. CASE Wakes
  BY <1>3, GotoTyped DEF Wakes, Goto, rows, StateTyped, Steps
<1>4. CASE Acts
  <2>1. At("tick", "sleep") \in CallState
    BY AtTyped DEF Phases, Steps
  <2>2. [call EXCEPT ![Loop] = At("tick", "sleep")] \in [Processes -> CallState]
    BY <2>1 DEF StateTyped
  <2> QED BY <1>4, <2>2, AsksTyped DEF Acts, rows, StateTyped
<1>5. CASE Aborts
  <2>1. lock.state \in Processes /\ lock.task \in Processes
    BY <1>5 DEF Aborts, AbortsForce, AbortsReset, AbortsCommand, Deadlock, StateTyped
  <2>2. call[lock.state] \in CallState
    BY <2>1 DEF StateTyped
  <2>3. AfterForce(lock.state) \in CallState
    BY <2>1, <2>2, HandledTyped, QuietTyped DEF AfterForce, CallState
  <2>4. Raised(lock.state) \in [Processes -> CallState]
    BY <2>1, RaisedTyped
  <2>5. call' \in [Processes -> CallState]
    BY <1>5, <2>1, <2>3, <2>4, QuietTyped
       DEF Aborts, AbortsForce, AbortsReset, AbortsCommand, Raise, StateTyped
  <2> QED BY <1>5, <2>5
          DEF Aborts, AbortsForce, AbortsReset, AbortsCommand, rows, StateTyped
<1>6. CASE \E p \in Commands, job \in DOMAIN FirstStep : Begin(p, job)
  <2>1. PICK p \in Commands, job \in DOMAIN FirstStep : Begin(p, job)
    BY <1>6
  <2>2. At(job, FirstStep[job]) \in CallState
    BY AtTyped DEF FirstStep, Phases, Jobs, Steps, PlanSteps
  <2> QED BY <2>1, <2>2 DEF Begin, rows, StateTyped
<1> QED BY <1>1, <1>2, <1>3, <1>4, <1>5, <1>6

LEMMA NextTyped ==
  ASSUME StateTyped, TurnsInv, [Next]_vars
  PROVE  StateTyped'
<1>1. CASE UNCHANGED vars
  BY <1>1 DEF vars, rows, StateTyped
<1>2. ASSUME NEW p \in Processes, Proceeds(p)
      PROVE  StateTyped'
  BY <1>2, ReconcileTyped, ResetTyped, CommandTyped DEF Proceeds
<1>3. CASE Next
  BY <1>2, <1>3, OutsideTyped, LoopTyped, ConstantFacts DEF Next, Loops
<1> QED BY <1>1, <1>3

-----------------------------------------------------------------------------
(* The latch. *)

\* A step that leaves the latch, closes it, or finds a reason that permits to open it.
LatchStep ==
  \/ UNCHANGED service
  \/ ~service'.open
  \/ service.reason \notin Unreconciled /\ service'.reason \notin Unreconciled
  \/ service'.open = service.open /\ service'.reason \notin Unreconciled

LEMMA LatchSteps ==
  ASSUME StateTyped, [Next]_vars
  PROVE  LatchStep
<1>0. CASE UNCHANGED vars
  BY <1>0 DEF vars, rows, LatchStep
<1>1. ASSUME NEW p \in Processes, Reconciles(p)
      PROVE  LatchStep
  <2>1. CASE Enter(p) \/ Fetch(p) \/ _snapshot(p) \/ _restore_gateway(p) \/ EnableReads(p)
    BY <2>1 DEF Enter, Fetch, _snapshot, _restore_gateway, EnableReads, rows, LatchStep
  <2>2. CASE _disable_after_failure(p) \/ Pend(p)
    BY <2>2 DEF _disable_after_failure, Pend, StateTyped, LatchStep
  <2>3. CASE _persist_identity(p)
    <3>1. service' \in {service, [service EXCEPT !.selected = call[p].seen, !.reason = "reconciled"]}
      BY <2>3 DEF _persist_identity
    <3> QED BY <3>1 DEF StateTyped, LatchStep, Unreconciled
  <2>4. CASE KeepPrevious(p)
    <3>1. service' \in {service, [open |-> FALSE, reason |-> "pending", selected |-> call[p].of]}
      BY <2>4 DEF KeepPrevious
    <3> QED BY <3>1 DEF LatchStep
  <2>5. CASE enable_latch(p)
    BY <2>5 DEF enable_latch, StateTyped, LatchStep, Unreconciled
  <2> QED BY <1>1, <2>1, <2>2, <2>3, <2>4, <2>5 DEF Reconciles
<1>2. ASSUME NEW p \in Processes, ResetsRound(p)
      PROVE  LatchStep
  <2>1. CASE _commit_reset(p)
    <3>1. service' \in {service, [service EXCEPT !.selected = Target(p), !.reason = "reconciled"]}
      BY <2>1 DEF _commit_reset
    <3> QED BY <3>1 DEF StateTyped, LatchStep, Unreconciled
  <2> QED BY <1>2, <2>1
          DEF ResetsRound, _read_plan, Refuses, Evidence, LockState, rows, LatchStep
<1>3. ASSUME NEW p \in Processes, NEW status \in {"RUNNING", "STOPPED"}, Settle(p, status)
      PROVE  LatchStep
  <2>1. service' = _refresh_latch(status)
    BY <1>3 DEF Settle
  <2> QED BY <2>1 DEF _refresh_latch, StateTyped, LatchStep, Unreconciled
<1>4. ASSUME NEW p \in Processes, Proceeds(p)
      PROVE  LatchStep
  <2>1. CASE Sync(p) \/ sync(p) \/ LockTask(p) \/ ForceLocks(p)
    BY <2>1 DEF Sync, sync, Store, LockTask, ForceLocks, rows, LatchStep
  <2>2. CASE force_stop(p)
    BY <2>2 DEF force_stop, StateTyped, LatchStep
  <2>3. CASE start(p) \/ stop(p)
    BY <1>3, <2>3 DEF start, stop
  <2> QED BY <1>1, <1>2, <1>4, <2>1, <2>2, <2>3 DEF Proceeds
<1>5. CASE disable
  BY <1>5 DEF disable, StateTyped, LatchStep
<1>6. CASE Restart
  BY <1>6 DEF Restart, StartsUp, LatchStep
<1>7. CASE Boots \/ Wakes \/ Acts \/ Aborts
  BY <1>7 DEF Boots, Wakes, Acts, Aborts, AbortsForce, AbortsReset, AbortsCommand, rows, LatchStep
<1>8. CASE \/ \E account \in Accounts : Replace(account)
           \/ RoundEnds \/ authenticate
           \/ \E p \in Commands, job \in DOMAIN FirstStep : Begin(p, job)
  BY <1>8 DEF Replace, RoundEnds, authenticate, Begin, rows, LatchStep
<1> QED BY <1>0, <1>4, <1>5, <1>6, <1>7, <1>8, ConstantFacts DEF Next, Loops

-----------------------------------------------------------------------------
(* The turns. *)

\* What the turns tell apart of a call.
SameTurn(c, d) ==
  /\ c.step = d.step /\ c.job = d.job /\ c.back = d.back
  /\ c.expected = d.expected /\ c.of = d.of

LEMMA DivertedInTurn ==
  ASSUME NEW p \in Processes, ~InTurn(call[p])
  PROVE  ~Snapshots(call[p]) /\ ~Diverted(call[p])
BY DEF InTurn, Snapshots, Diverted, TurnSteps

LEMMA TouchedSame ==
  ASSUME StateTyped, NEW q \in Processes
  PROVE  SameTurn(Touched(q), call[q])
BY DEF Touched, SameTurn, StateTyped, CallState

LEMMA Alone ==
  ASSUME TurnsInv, NEW p \in Processes, InTurn(call[p])
  PROVE  /\ turn = p
         /\ \A q \in Processes : q # p => ~InTurn(call[q])
         /\ ~Diverted(call[p]) => client.account = service.selected
BY DivertedInTurn DEF TurnsInv

\* A step of a call outside of its turn, which neither routes nor selects.
LEMMA TurnOutside ==
  ASSUME TurnsInv, NEW p \in Processes,
         ~InTurn(call[p]), ~InTurn(call'[p]), Shaped(call'[p]),
         turn' = turn, client'.account = client.account, service'.selected = service.selected,
         \A q \in Processes : q # p => SameTurn(call'[q], call[q])
  PROVE  TurnsInv'
<1>1. ASSUME NEW q \in Processes, q # p
      PROVE  /\ Shaped(call'[q]) /\ (InTurn(call'[q]) <=> turn = q)
             /\ Snapshots(call'[q]) => service.selected = call'[q].expected
             /\ Diverted(call'[q]) => service.selected = call'[q].of
             /\ Diverted(call'[q]) <=> Diverted(call[q])
  BY <1>1 DEF TurnsInv, SameTurn, Shaped, InTurn, Snapshots, Diverted, Forced
<1>2. ~Snapshots(call'[p]) /\ ~Diverted(call'[p]) /\ ~Diverted(call[p]) /\ turn # p
  BY DEF TurnsInv, InTurn, Snapshots, Diverted, TurnSteps
<1> QED BY <1>1, <1>2 DEF TurnsInv

\* A step of the call that has, or takes, the turn.
LEMMA TurnHeld ==
  ASSUME TurnsInv, NEW p \in Processes,
         \A q \in Processes : q # p => ~InTurn(call[q]) /\ SameTurn(call'[q], call[q]),
         turn' = p, InTurn(call'[p]), Shaped(call'[p]),
         Snapshots(call'[p]) => service'.selected = call'[p].expected,
         Diverted(call'[p]) => service'.selected = call'[p].of,
         ~Diverted(call'[p]) => client'.account = service'.selected
  PROVE  TurnsInv'
<1>1. ASSUME NEW q \in Processes, q # p
      PROVE  Shaped(call'[q]) /\ ~InTurn(call'[q])
  BY <1>1 DEF TurnsInv, SameTurn, Shaped, InTurn, Forced
<1>2. ASSUME NEW q \in Processes, ~InTurn(call'[q])
      PROVE  ~Snapshots(call'[q]) /\ ~Diverted(call'[q])
  BY <1>2 DEF InTurn, Snapshots, Diverted, TurnSteps
<1> QED BY <1>1, <1>2 DEF TurnsInv

\* A step that ends the turn.
LEMMA TurnEnds ==
  ASSUME TurnsInv, NEW p \in Processes,
         InTurn(call[p]), ~InTurn(call'[p]), Shaped(call'[p]),
         turn' = None, client'.account = service'.selected,
         \A q \in Processes : q # p => SameTurn(call'[q], call[q])
  PROVE  TurnsInv'
<1>1. ASSUME NEW q \in Processes, q # p
      PROVE  Shaped(call'[q]) /\ ~InTurn(call'[q])
  BY <1>1, Alone DEF TurnsInv, SameTurn, Shaped, InTurn, Forced
<1>2. ASSUME NEW q \in Processes, ~InTurn(call'[q])
      PROVE  ~Snapshots(call'[q]) /\ ~Diverted(call'[q])
  BY <1>2 DEF InTurn, Snapshots, Diverted, TurnSteps
<1> QED BY <1>1, <1>2, ConstantFacts DEF TurnsInv

LEMMA AtOutside ==
  ASSUME NEW job \in Phases, NEW step \in Steps,
         step \notin TurnSteps \cup PlanSteps \cup {"enable"},
         step = "reconcile" => job \in Reconciling,
         step = "enableRead" => job = "open",
         step = "sleep" => job = "tick"
  PROVE  ~InTurn(At(job, step)) /\ Shaped(At(job, step))
<1>1. At(job, step).step = step /\ At(job, step).job = job /\ At(job, step).back = "idle"
  BY DEF At, Quiet
<1> QED BY <1>1 DEF InTurn, Shaped, Forced

\* What follows a reconciliation is outside of the turn.
LEMMA OutcomesOutside ==
  /\ ~InTurn(Quiet) /\ Shaped(Quiet)
  /\ \A job \in Phases : ~InTurn(AfterFailure[job]) /\ Shaped(AfterFailure[job])
  /\ \A job \in Reconciling \cup {"open", "reset"} :
       ~InTurn(AfterSuccess[job]) /\ Shaped(AfterSuccess[job])
<1> USE DEF Phases, Jobs, Steps, TurnSteps, PlanSteps, Reconciling
<1>1. ~InTurn(Quiet) /\ Shaped(Quiet)
  BY DEF Quiet, InTurn, Shaped, Forced
<1>2. /\ ~InTurn(At("boot", "disable")) /\ Shaped(At("boot", "disable"))
      /\ ~InTurn(At("open", "enableRead")) /\ Shaped(At("open", "enableRead"))
      /\ ~InTurn(At("tick", "sleep")) /\ Shaped(At("tick", "sleep"))
      /\ ~InTurn(At("tick", "sync")) /\ Shaped(At("tick", "sync"))
      /\ ~InTurn(At("resume", "reconcile")) /\ Shaped(At("resume", "reconcile"))
  BY AtOutside
<1>3. /\ ~InTurn(At("startTask", "reconcile")) /\ Shaped(At("startTask", "reconcile"))
      /\ ~InTurn(At("startTask", "lockTask")) /\ Shaped(At("startTask", "lockTask"))
      /\ ~InTurn(At("recover", "force")) /\ Shaped(At("recover", "force"))
      /\ ~InTurn(At("auth", "sync")) /\ Shaped(At("auth", "sync"))
  BY AtOutside
<1>4. ASSUME NEW job \in Phases
      PROVE  ~InTurn(AfterFailure[job]) /\ Shaped(AfterFailure[job])
  BY <1>1, <1>2 DEF AfterFailure
<1>5. ASSUME NEW job \in Reconciling \cup {"open", "reset"}
      PROVE  ~InTurn(AfterSuccess[job]) /\ Shaped(AfterSuccess[job])
  BY <1>1, <1>2, <1>3 DEF AfterSuccess
<1> QED BY <1>1, <1>4, <1>5

LEMMA InitTurns == Init => TurnsInv
<1> SUFFICES ASSUME Init PROVE TurnsInv
  OBVIOUS
<1>1. ASSUME NEW p \in Processes
      PROVE  call[p] \in {At("boot", "idle"), Quiet}
  BY DEF Init, Idle
<1>2. ~InTurn(At("boot", "idle")) /\ Shaped(At("boot", "idle"))
  BY AtOutside DEF Phases, Steps, TurnSteps, PlanSteps
<1>3. ASSUME NEW p \in Processes
      PROVE  ~InTurn(call[p]) /\ Shaped(call[p])
  BY <1>1, <1>2, OutcomesOutside
<1> QED BY <1>3, DivertedInTurn, ConstantFacts DEF Init, TurnsInv

\* A request that raises: within a turn the reconciliation handles it.
LEMMA RaiseTurn ==
  ASSUME StateTyped, TurnsInv, NEW p \in Processes,
         Is(p, "fetch") \/ Resets(p) \/ ~InTurn(call[p]),
         Raise(p), turn' = turn, client'.account = client.account,
         service'.selected = service.selected
  PROVE  TurnsInv'
<1>0. call[p] \in CallState /\ call[p].job \in Phases
  BY DEF StateTyped, CallState
<1>1. /\ call'[p] = HandledAt(p, Handler(p))
      /\ \A q \in Processes : q # p => SameTurn(call'[q], call[q])
  BY DEF Raise, Raised, StateTyped, SameTurn
<1>2. CASE Is(p, "fetch")
  <2>1. call'[p].step = "failed" /\ call'[p].job = call[p].job
    BY <1>0, <1>1, <1>2 DEF Handler, HandledAt, Is, Resets, PlanSteps, CallState
  <2>2. InTurn(call[p]) /\ ~Diverted(call[p]) /\ call[p].job \in Reconciling
    BY <1>2 DEF Is, InTurn, Diverted, Forced, TurnSteps, PlanSteps, TurnsInv, Shaped
  <2>3. InTurn(call'[p]) /\ Shaped(call'[p]) /\ ~Snapshots(call'[p]) /\ ~Diverted(call'[p])
    BY <2>1, <2>2 DEF InTurn, Shaped, Snapshots, Diverted, Forced, TurnSteps, PlanSteps
  <2> QED BY <1>1, <2>2, <2>3, Alone, TurnHeld
<1>3. CASE Resets(p) /\ call[p].job # "reset"
  <2>1. call'[p].step = "undo" /\ call'[p].job = call[p].job /\ call'[p].of = call[p].of
    BY <1>0, <1>1, <1>3 DEF Handler, HandledAt, Resets, CallState, PlanSteps
  <2>2. InTurn(call[p]) /\ Diverted(call[p]) /\ call[p].job \in Reconciling
    BY <1>3 DEF Resets, InTurn, Diverted, TurnsInv, Shaped
  <2>3. InTurn(call'[p]) /\ Shaped(call'[p]) /\ ~Snapshots(call'[p]) /\ Diverted(call'[p])
    BY <2>1, <2>2 DEF InTurn, Shaped, Snapshots, Diverted, Forced, TurnSteps, PlanSteps
  <2>4. service'.selected = call'[p].of
    BY <2>1, <2>2 DEF TurnsInv
  <2> QED BY <1>1, <2>2, <2>3, <2>4, Alone, TurnHeld
<1>4. CASE ~Is(p, "fetch") /\ ~(Resets(p) /\ call[p].job # "reset")
  <2>1. call'[p] = AfterFailure[call[p].job]
    BY <1>1, <1>4 DEF Handler, HandledAt, Is
  <2>2. ~InTurn(call'[p]) /\ Shaped(call'[p])
    BY <1>0, <2>1, OutcomesOutside
  <2>3. ~InTurn(call[p])
    BY <1>4 DEF Resets, InTurn, Forced, TurnSteps, PlanSteps
  <2> QED BY <1>1, <2>2, <2>3, TurnOutside
<1> QED BY <1>2, <1>3, <1>4

\* A request: what it leaves the turns as, when its answer does.
LEMMA AsksTurn ==
  ASSUME StateTyped, TurnsInv, NEW p \in Processes, NEW next,
         Is(p, "fetch") \/ Resets(p) \/ ~InTurn(call[p]),
         Asks(p, next), turn' = turn, service'.selected = service.selected,
         call' = next /\ client' = client => TurnsInv'
  PROVE  TurnsInv'
<1>0. call[p] \in CallState
  BY DEF StateTyped
<1>1. client'.account = client.account
  BY DEF Asks, Answers, RequestFails, Unauthorized, StateTyped
<1>2. CASE Answers(p, next)
  BY <1>2 DEF Answers
<1>3. CASE RequestFails(p)
  <2>1. CASE Raise(p)
    BY <1>1, <2>1, RaiseTurn
  <2>2. CASE Is(p, "sync") /\ Goto(p, "act")
    <3>1. call'[p].step = "act" /\ \A q \in Processes : q # p => SameTurn(call'[q], call[q])
      BY <1>0, <2>2 DEF Goto, StateTyped, CallState, SameTurn
    <3>2. ~InTurn(call[p]) /\ ~InTurn(call'[p]) /\ Shaped(call'[p])
      BY <2>2, <3>1 DEF Is, InTurn, Shaped, Forced, TurnSteps, PlanSteps
    <3> QED BY <1>1, <3>1, <3>2, TurnOutside
  <2> QED BY <1>3, <2>1, <2>2 DEF RequestFails
<1>4. CASE Unauthorized(p)
  <2>1. /\ call'[p].step = "force" /\ call'[p].back = Handler(p)
        /\ call'[p].job = call[p].job /\ call'[p].of = call[p].of
        /\ \A q \in Processes : q # p => SameTurn(call'[q], call[q])
    BY <1>0, <1>4 DEF Unauthorized, StateTyped, CallState, SameTurn
  <2>2. ~Snapshots(call'[p])
    BY <2>1 DEF Snapshots
  <2>3. CASE Is(p, "fetch")
    <3>1. call'[p].back = "failed"
      BY <2>1, <2>3 DEF Handler, Is, Resets, PlanSteps
    <3>2. InTurn(call[p]) /\ ~Diverted(call[p]) /\ call[p].job \in Reconciling
      BY <2>3 DEF Is, InTurn, Diverted, Forced, TurnSteps, PlanSteps, TurnsInv, Shaped
    <3>3. InTurn(call'[p]) /\ Shaped(call'[p]) /\ ~Diverted(call'[p])
      BY <2>1, <3>1, <3>2 DEF InTurn, Shaped, Diverted, Forced, TurnSteps, PlanSteps
    <3> QED BY <1>1, <2>1, <2>2, <3>2, <3>3, Alone, TurnHeld
  <2>4. CASE Resets(p) /\ call[p].job # "reset"
    <3>1. call'[p].back = "undo"
      BY <2>1, <2>4 DEF Handler, Resets, PlanSteps
    <3>2. InTurn(call[p]) /\ Diverted(call[p]) /\ call[p].job \in Reconciling
      BY <2>4 DEF Resets, InTurn, Diverted, TurnsInv, Shaped
    <3>3. InTurn(call'[p]) /\ Shaped(call'[p]) /\ Diverted(call'[p])
      BY <2>1, <3>1, <3>2 DEF InTurn, Shaped, Diverted, Forced, TurnSteps, PlanSteps
    <3>4. service'.selected = call'[p].of
      BY <2>1, <3>2 DEF TurnsInv
    <3> QED BY <1>1, <2>1, <2>2, <3>2, <3>3, <3>4, Alone, TurnHeld
  <2>5. CASE ~Is(p, "fetch") /\ ~(Resets(p) /\ call[p].job # "reset")
    <3>1. call'[p].back = "raised"
      BY <2>1, <2>5 DEF Handler, Is
    <3>2. ~InTurn(call'[p]) /\ Shaped(call'[p])
      BY <2>1, <3>1 DEF InTurn, Shaped, Forced, TurnSteps, PlanSteps
    <3>3. ~InTurn(call[p])
      BY <2>5 DEF Resets, InTurn, Forced, TurnSteps, PlanSteps
    <3> QED BY <1>1, <2>1, <3>2, <3>3, TurnOutside
  <2> QED BY <2>3, <2>4, <2>5
<1> QED BY <1>2, <1>3, <1>4 DEF Asks

LEMMA OutsideTurn ==
  ASSUME StateTyped, TurnsInv,
         \/ \E account \in Accounts : Replace(account)
         \/ RoundEnds \/ authenticate \/ Restart
  PROVE  TurnsInv'
<1>1. CASE \E account \in Accounts : Replace(account)
  BY <1>1 DEF Replace, rows, TurnsInv
<1>2. CASE RoundEnds
  <2>1. \A q \in Processes : SameTurn(call'[q], call[q])
    BY <1>2, TouchedSame DEF RoundEnds, SameTurn
  <2> QED BY <1>2, <2>1
          DEF RoundEnds, TurnsInv, SameTurn, Shaped, InTurn, Snapshots, Diverted, Forced
<1>3. CASE authenticate
  BY <1>3 DEF authenticate, rows, TurnsInv, StateTyped
<1>4. CASE Restart
  <2>1. \A q \in Processes : call'[q] \in {At("boot", "idle"), Quiet}
    BY <1>4 DEF Restart, StartsUp, Idle
  <2>2. ~InTurn(At("boot", "idle")) /\ Shaped(At("boot", "idle"))
    BY AtOutside DEF Phases, Steps, TurnSteps, PlanSteps
  <2>3. \A q \in Processes : ~InTurn(call'[q]) /\ Shaped(call'[q])
    BY <2>1, <2>2, OutcomesOutside
  <2>4. \A q \in Processes : ~Snapshots(call'[q]) /\ ~Diverted(call'[q])
    BY <2>3 DEF InTurn, Snapshots, Diverted, TurnSteps
  <2> QED BY <1>4, <2>3, <2>4, ConstantFacts DEF Restart, StartsUp, TurnsInv
<1> QED BY <1>1, <1>2, <1>3, <1>4

\* The call moves to another step.
LEMMA GotoSame ==
  ASSUME StateTyped, NEW p \in Processes, NEW step \in Steps, Goto(p, step)
  PROVE  /\ call'[p].step = step /\ call'[p].job = call[p].job /\ call'[p].back = call[p].back
         /\ call'[p].of = call[p].of /\ call'[p].expected = call[p].expected
         /\ \A q \in Processes : q # p => SameTurn(call'[q], call[q])
BY DEF Goto, StateTyped, CallState, SameTurn

LEMMA FinishEnds ==
  ASSUME StateTyped, TurnsInv, NEW p \in Processes, NEW outcome, Finish(p, outcome),
         ~InTurn(outcome[call[p].job]), Shaped(outcome[call[p].job]),
         IF InTurn(call[p]) THEN client'.account = service'.selected
         ELSE client'.account = client.account /\ service'.selected = service.selected
  PROVE  TurnsInv'
<1>1. call'[p] = outcome[call[p].job]
  BY DEF Finish, StateTyped
<1>2. \A q \in Processes : q # p => SameTurn(call'[q], call[q])
  BY DEF Finish, StateTyped, SameTurn
<1>3. CASE InTurn(call[p])
  BY <1>1, <1>2, <1>3, Alone, TurnEnds DEF Finish
<1>4. CASE ~InTurn(call[p])
  BY <1>1, <1>2, <1>4, TurnOutside DEF Finish, TurnsInv
<1> QED BY <1>3, <1>4

LEMMA ReconcileTurn ==
  ASSUME StateTyped, TurnsInv, NEW p \in Processes, Reconciles(p)
  PROVE  TurnsInv'
<1>0. call[p] \in CallState /\ call[p].job \in Phases
  BY DEF StateTyped, CallState
<1> USE DEF Is
<1>10. ~InTurn(AfterFailure[call[p].job]) /\ Shaped(AfterFailure[call[p].job])
  BY <1>0, OutcomesOutside
<1>1. CASE Enter(p)
  <2>1. Goto(p, "fetch") /\ "fetch" \in Steps
    BY <1>1 DEF Enter, Steps
  <2>2. \A q \in Processes : ~InTurn(call[q])
    BY <1>1, ConstantFacts DEF Enter, TurnsInv
  <2>3. client.account = service.selected
    BY <2>2, DivertedInTurn DEF TurnsInv
  <2>4. call[p].job \in Reconciling
    BY <1>1 DEF Enter, TurnsInv, Shaped
  <2>5. call'[p].step = "fetch" /\ call'[p].job = call[p].job
    BY <2>1, GotoSame
  <2>6. InTurn(call'[p]) /\ Shaped(call'[p]) /\ ~Snapshots(call'[p]) /\ ~Diverted(call'[p])
    BY <2>4, <2>5 DEF InTurn, Shaped, Snapshots, Diverted, Forced, TurnSteps, PlanSteps
  <2>7. \A q \in Processes : q # p => SameTurn(call'[q], call[q])
    BY <2>1, GotoSame
  <2> QED BY <1>1, <2>2, <2>3, <2>6, <2>7, TurnHeld DEF Enter, rows
<1>2. CASE Fetch(p)
  <2> DEFINE next == [call EXCEPT ![p].seen = platform.account, ![p].step = "snapshot"]
  <2>1. ASSUME call' = next, client' = client
        PROVE  TurnsInv'
    <3>1. call'[p].step = "snapshot" /\ call'[p].job = call[p].job
      BY <1>0, <2>1 DEF StateTyped, CallState
    <3>2. \A q \in Processes : q # p => SameTurn(call'[q], call[q])
      BY <2>1 DEF StateTyped, SameTurn
    <3>3. InTurn(call[p]) /\ ~Diverted(call[p]) /\ call[p].job \in Reconciling
      BY <1>2 DEF Fetch, InTurn, Diverted, Forced, TurnSteps, PlanSteps, TurnsInv, Shaped
    <3>4. InTurn(call'[p]) /\ Shaped(call'[p]) /\ ~Snapshots(call'[p]) /\ ~Diverted(call'[p])
      BY <3>1, <3>3 DEF InTurn, Shaped, Snapshots, Diverted, Forced, TurnSteps, PlanSteps
    <3> QED BY <1>2, <2>1, <3>2, <3>3, <3>4, Alone, TurnHeld DEF Fetch, rows
  <2>2. Asks(p, next) /\ turn' = turn /\ service' = service /\ Is(p, "fetch")
    BY <1>2 DEF Fetch, rows
  <2> HIDE DEF next
  <2> QED BY <2>1, <2>2, AsksTurn
<1>3. CASE _disable_after_failure(p)
  <2>1. InTurn(call[p]) /\ ~Diverted(call[p])
    BY <1>3 DEF _disable_after_failure, InTurn, Diverted, Forced, TurnSteps, PlanSteps
  <2>2. service'.selected = service.selected /\ client' = client /\ Finish(p, AfterFailure)
    BY <1>3 DEF _disable_after_failure, StateTyped
  <2> QED BY <1>10, <2>1, <2>2, Alone, FinishEnds
<1>4. CASE _snapshot(p)
  <2>1. /\ call'[p].step \in {"persist", "pend"} /\ call'[p].job = call[p].job
        /\ call'[p].expected = service.selected
        /\ \A q \in Processes : q # p => SameTurn(call'[q], call[q])
    BY <1>0, <1>4 DEF _snapshot, StateTyped, CallState, SameTurn
  <2>2. InTurn(call[p]) /\ ~Diverted(call[p]) /\ call[p].job \in Reconciling
    BY <1>4 DEF _snapshot, InTurn, Diverted, Forced, TurnSteps, PlanSteps, TurnsInv, Shaped
  <2>3. InTurn(call'[p]) /\ Shaped(call'[p]) /\ ~Diverted(call'[p])
    BY <2>1, <2>2 DEF InTurn, Shaped, Diverted, Forced, TurnSteps, PlanSteps
  <2> QED BY <1>4, <2>1, <2>2, <2>3, Alone, TurnHeld DEF _snapshot, rows
<1>5. CASE _persist_identity(p)
  <2>1. InTurn(call[p]) /\ ~Diverted(call[p]) /\ call[p].job \in Reconciling
    BY <1>5 DEF _persist_identity, InTurn, Diverted, Forced, TurnSteps, PlanSteps, TurnsInv, Shaped
  <2>2. CASE Selectable(p, call[p].seen)
    <3>1. Goto(p, "enableRead") /\ "enableRead" \in Steps /\ turn' = turn
      BY <1>5, <2>2 DEF _persist_identity, Steps
    <3>2. client'.account = service'.selected
      BY <1>5, <2>2 DEF _persist_identity, StateTyped
    <3>3. /\ call'[p].step = "enableRead" /\ call'[p].job = call[p].job
          /\ \A q \in Processes : q # p => SameTurn(call'[q], call[q])
      BY <3>1, GotoSame
    <3>4. InTurn(call'[p]) /\ Shaped(call'[p]) /\ ~Snapshots(call'[p]) /\ ~Diverted(call'[p])
      BY <2>1, <3>3 DEF InTurn, Shaped, Snapshots, Diverted, Forced, TurnSteps, PlanSteps, Reconciling
    <3> QED BY <2>1, <3>1, <3>2, <3>3, <3>4, Alone, TurnHeld
  <2>3. CASE ~Selectable(p, call[p].seen)
    <3>1. Finish(p, AfterFailure) /\ service' = service /\ client' = client
      BY <1>5, <2>3 DEF _persist_identity
    <3> QED BY <1>10, <2>1, <3>1, Alone, FinishEnds
  <2> QED BY <2>2, <2>3
<1>6. CASE Pend(p)
  <2>1. InTurn(call[p]) /\ ~Diverted(call[p]) /\ Snapshots(call[p]) /\ call[p].job \in Reconciling
    BY <1>6 DEF Pend, InTurn, Diverted, Snapshots, Forced, TurnSteps, PlanSteps, TurnsInv, Shaped
  <2>2. Goto(p, "keep") /\ "keep" \in Steps /\ turn' = turn
    BY <1>6 DEF Pend, Steps
  <2>3. /\ call'[p].step = "keep" /\ call'[p].job = call[p].job
        /\ call'[p].expected = call[p].expected
        /\ \A q \in Processes : q # p => SameTurn(call'[q], call[q])
    BY <2>2, GotoSame
  <2>4. InTurn(call'[p]) /\ Shaped(call'[p]) /\ ~Diverted(call'[p])
    BY <2>1, <2>3 DEF InTurn, Shaped, Diverted, Forced, TurnSteps, PlanSteps
  <2>5. service'.selected = service.selected /\ client' = client
    BY <1>6 DEF Pend, StateTyped
  <2>6. service'.selected = call'[p].expected
    BY <2>1, <2>3, <2>5 DEF TurnsInv
  <2> QED BY <2>1, <2>2, <2>3, <2>4, <2>5, <2>6, Alone, TurnHeld
<1>7. CASE KeepPrevious(p)
  <2>1. InTurn(call[p]) /\ ~Diverted(call[p]) /\ Snapshots(call[p]) /\ call[p].job \in Reconciling
    BY <1>7 DEF KeepPrevious, InTurn, Diverted, Snapshots, Forced, TurnSteps, PlanSteps, TurnsInv, Shaped
  <2>2. CASE call[p].expected = call[p].of \/ Selectable(p, call[p].of)
    <3>1. Goto(p, "plan") /\ turn' = turn
      BY <1>7, <2>2 DEF KeepPrevious
    <3>2. "plan" \in Steps
      BY DEF Steps, PlanSteps
    <3>3. /\ call'[p].step = "plan" /\ call'[p].job = call[p].job /\ call'[p].of = call[p].of
          /\ \A q \in Processes : q # p => SameTurn(call'[q], call[q])
      BY <3>1, <3>2, GotoSame
    <3>4. InTurn(call'[p]) /\ Shaped(call'[p]) /\ ~Snapshots(call'[p]) /\ Diverted(call'[p])
      BY <2>1, <3>3 DEF InTurn, Shaped, Snapshots, Diverted, Forced, TurnSteps, PlanSteps, Reconciling
    <3>5. service'.selected = call[p].of
      BY <1>7, <2>1, <2>2 DEF KeepPrevious, TurnsInv
    <3> QED BY <2>1, <3>1, <3>3, <3>4, <3>5, Alone, TurnHeld
  <2>3. CASE ~(call[p].expected = call[p].of \/ Selectable(p, call[p].of))
    <3>1. Finish(p, AfterFailure) /\ service' = service /\ client' = client
      BY <1>7, <2>3 DEF KeepPrevious
    <3> QED BY <1>10, <2>1, <3>1, Alone, FinishEnds
  <2> QED BY <2>2, <2>3
<1>8. CASE _restore_gateway(p)
  <2>1. InTurn(call[p]) /\ Diverted(call[p])
    BY <1>8 DEF _restore_gateway, InTurn, Diverted, TurnSteps
  <2>2. client'.account = call[p].of /\ service' = service /\ Finish(p, AfterFailure)
    BY <1>8 DEF _restore_gateway, rows, StateTyped
  <2>3. service.selected = call[p].of
    BY <2>1 DEF TurnsInv
  <2> QED BY <1>10, <2>1, <2>2, <2>3, FinishEnds
<1>9. CASE EnableReads(p) \/ enable_latch(p)
  <2>1. call[p].job \in Reconciling \cup {"open"} /\ ~Diverted(call[p])
    BY <1>9 DEF EnableReads, enable_latch, TurnsInv, Shaped, Diverted, Forced, PlanSteps
  <2>2. ~InTurn(AfterSuccess[call[p].job]) /\ Shaped(AfterSuccess[call[p].job])
    BY <2>1, OutcomesOutside
  <2>3. service'.selected = service.selected /\ client' = client
    BY <1>9 DEF EnableReads, enable_latch, rows, StateTyped
  <2>4. CASE Finish(p, AfterSuccess)
    BY <2>1, <2>2, <2>3, <2>4, Alone, FinishEnds
  <2>5. CASE Is(p, "enableRead") /\ Goto(p, "enable") /\ turn' = turn
    <3>1. /\ call'[p].step = "enable" /\ call'[p].job = call[p].job
          /\ \A q \in Processes : q # p => SameTurn(call'[q], call[q])
      BY <2>5, GotoSame DEF Steps
    <3>2. Shaped(call'[p]) /\ (InTurn(call'[p]) <=> InTurn(call[p]))
      BY <2>1, <2>5, <3>1 DEF InTurn, Shaped, Forced, TurnSteps, PlanSteps
    <3>3. ~Snapshots(call'[p]) /\ ~Diverted(call'[p])
      BY <3>1 DEF Snapshots, Diverted, Forced, PlanSteps
    <3>4. CASE InTurn(call[p])
      BY <2>1, <2>3, <2>5, <3>1, <3>2, <3>3, <3>4, Alone, TurnHeld
    <3>5. CASE ~InTurn(call[p])
      BY <2>3, <2>5, <3>1, <3>2, <3>5, TurnOutside
    <3> QED BY <3>4, <3>5
  <2> QED BY <1>9, <2>4, <2>5 DEF EnableReads, enable_latch
<1> QED BY <1>1, <1>2, <1>3, <1>4, <1>5, <1>6, <1>7, <1>8, <1>9 DEF Reconciles

LEMMA ResetTurn ==
  ASSUME StateTyped, TurnsInv, NEW p \in Processes, ResetsRound(p)
  PROVE  TurnsInv'
<1>0. call[p] \in CallState
  BY DEF StateTyped
<1> USE DEF Is
\* To the next step of the same reset.
<1>1. ASSUME NEW step \in PlanSteps, Resets(p), turn' = turn,
             client' = client, service' = service,
             call'[p].step = step, call'[p].job = call[p].job, call'[p].of = call[p].of,
             \A q \in Processes : q # p => SameTurn(call'[q], call[q])
      PROVE  TurnsInv'
  <2>1. Shaped(call'[p]) /\ (InTurn(call'[p]) <=> InTurn(call[p])) /\ ~Snapshots(call'[p])
    BY <1>1 DEF Resets, TurnsInv, Shaped, InTurn, Snapshots, Forced, TurnSteps, PlanSteps
  <2>2. CASE InTurn(call[p])
    <3>1. Diverted(call[p]) /\ Diverted(call'[p])
      BY <1>1, <2>2 DEF Resets, InTurn, Diverted, Forced, TurnSteps, PlanSteps
    <3>2. service'.selected = call'[p].of
      BY <1>1, <3>1 DEF TurnsInv
    <3> QED BY <1>1, <2>1, <2>2, <3>1, <3>2, Alone, TurnHeld
  <2>3. CASE ~InTurn(call[p])
    BY <1>1, <2>1, <2>3, TurnOutside
  <2> QED BY <2>2, <2>3
<1>2. CASE _read_plan(p)
  <2>1. Resets(p) /\ turn' = turn /\ client' = client /\ service' = service
    BY <1>2 DEF _read_plan, rows, Resets, PlanSteps
  <2>2. CASE call' = [call EXCEPT ![p].plan = Seen, ![p].step = "evidence"]
    <3>1. /\ call'[p].step = "evidence" /\ call'[p].job = call[p].job /\ call'[p].of = call[p].of
          /\ \A q \in Processes : q # p => SameTurn(call'[q], call[q])
      BY <1>0, <2>2 DEF StateTyped, CallState, SameTurn
    <3> QED BY <1>1, <2>1, <3>1 DEF PlanSteps
  <2>3. CASE Raise(p)
    BY <2>1, <2>3, RaiseTurn
  <2> QED BY <1>2, <2>2, <2>3 DEF _read_plan
<1>3. CASE Refuses(p)
  <2>1. Resets(p) /\ Raise(p) /\ turn' = turn /\ client' = client /\ service' = service
    BY <1>3 DEF Refuses, rows, Resets, PlanSteps
  <2> QED BY <2>1, RaiseTurn
<1>4. CASE Evidence(p)
  <2> DEFINE next == IF platform.account = Target(p) /\ client.account = Target(p)
                     THEN [call EXCEPT ![p].step = IF Is(p, "evidence") THEN "final" ELSE "lockState"]
                     ELSE Raised(p)
  <2>1. Resets(p) /\ turn' = turn /\ service' = service /\ Asks(p, next)
    BY <1>4 DEF Evidence, rows, Resets, PlanSteps
  <2>2. ASSUME call' = next, client' = client
        PROVE  TurnsInv'
    <3>1. CASE Raise(p)
      BY <2>1, <2>2, <3>1, RaiseTurn
    <3>2. CASE \E step \in {"final", "lockState"} : Goto(p, step)
      <4>1. PICK step \in {"final", "lockState"} : Goto(p, step)
        BY <3>2
      <4>2. step \in Steps /\ step \in PlanSteps
        BY DEF Steps, PlanSteps
      <4>3. /\ call'[p].step = step /\ call'[p].job = call[p].job /\ call'[p].of = call[p].of
            /\ \A q \in Processes : q # p => SameTurn(call'[q], call[q])
        BY <4>1, <4>2, GotoSame
      <4> QED BY <1>1, <2>1, <2>2, <4>2, <4>3
    <3> QED BY <2>2, <3>1, <3>2 DEF Raise, Goto
  <2> HIDE DEF next
  <2> QED BY <2>1, <2>2, AsksTurn
<1>5. CASE LockState(p)
  <2>1. /\ Resets(p) /\ turn' = turn /\ client' = client /\ service' = service
        /\ Goto(p, "resetCommit")
    BY <1>5 DEF LockState, rows, Resets, PlanSteps
  <2>2. "resetCommit" \in Steps /\ "resetCommit" \in PlanSteps
    BY DEF Steps, PlanSteps
  <2>3. /\ call'[p].step = "resetCommit" /\ call'[p].job = call[p].job /\ call'[p].of = call[p].of
        /\ \A q \in Processes : q # p => SameTurn(call'[q], call[q])
    BY <2>1, <2>2, GotoSame
  <2> QED BY <1>1, <2>1, <2>2, <2>3
<1>6. CASE _commit_reset(p)
  <2>1. Resets(p) /\ call[p].step = "resetCommit" /\ turn' = turn /\ client' = client
    BY <1>6 DEF _commit_reset, Resets, PlanSteps
  <2>2. CASE Raise(p) /\ service' = service
    BY <2>1, <2>2, RaiseTurn
  <2>3. CASE call[p].plan = Seen /\ client.account = Target(p)
    <3>1. call' = [q \in Processes |->
                     IF q # p THEN Touched(q)
                     ELSE IF turn # p THEN Quiet
                     ELSE [call[p] EXCEPT !.step = "enableRead", !.plan = Stale]]
      BY <1>6, <2>3 DEF _commit_reset
    <3>2. service'.selected = Target(p)
      BY <1>6, <2>3 DEF _commit_reset, StateTyped
    <3>3. \A q \in Processes : q # p => SameTurn(call'[q], call[q])
      BY <3>1, TouchedSame
    <3>4. CASE turn = p
      <4>1. InTurn(call[p]) /\ call[p].job \in Reconciling
        BY <2>1, <3>4 DEF TurnsInv, InTurn, Shaped, Forced, TurnSteps, PlanSteps
      <4>2. call'[p].step = "enableRead" /\ call'[p].job = call[p].job
        BY <1>0, <3>1, <3>4 DEF CallState
      <4>3. InTurn(call'[p]) /\ Shaped(call'[p]) /\ ~Snapshots(call'[p]) /\ ~Diverted(call'[p])
        BY <4>1, <4>2 DEF InTurn, Shaped, Snapshots, Diverted, Forced, TurnSteps, PlanSteps, Reconciling
      <4> QED BY <2>1, <2>3, <3>2, <3>3, <4>1, <4>3, Alone, TurnHeld
    <3>5. CASE turn # p
      <4>1. ~InTurn(call[p]) /\ call[p].job = "reset"
        BY <2>1, <3>5 DEF TurnsInv, InTurn, PlanSteps
      <4>2. call'[p] = Quiet
        BY <3>1, <3>5
      <4>3. service'.selected = service.selected
        BY <2>3, <3>2, <4>1 DEF Target, Seen
      <4> QED BY <2>1, <3>3, <4>1, <4>2, <4>3, OutcomesOutside, TurnOutside
    <3> QED BY <3>4, <3>5
  <2> QED BY <1>6, <2>2, <2>3 DEF _commit_reset
<1> QED BY <1>2, <1>3, <1>4, <1>5, <1>6 DEF ResetsRound

\* The call goes on after it has stopped the task, or failed to.
LEMMA ForceTurn ==
  ASSUME StateTyped, TurnsInv, NEW p \in Processes,
         Is(p, "forceCommit"), call'[p] = AfterForce(p),
         turn' = turn, client' = client, service'.selected = service.selected,
         \A q \in Processes : q # p => SameTurn(call'[q], call[q])
  PROVE  TurnsInv'
<1>0. call[p] \in CallState /\ call[p].job \in Phases
  BY DEF StateTyped, CallState
<1>1. CASE call[p].back \in {"failed", "undo"}
  <2>1. /\ call'[p].step = call[p].back /\ call'[p].job = call[p].job /\ call'[p].of = call[p].of
    BY <1>0, <1>1 DEF AfterForce, Alerts, HandledAt, CallState
  <2>2. InTurn(call[p]) /\ call[p].job \in Reconciling
    BY <1>1 DEF Is, InTurn, Forced, TurnsInv, Shaped
  <2>3. InTurn(call'[p]) /\ Shaped(call'[p]) /\ ~Snapshots(call'[p])
        /\ (Diverted(call'[p]) <=> Diverted(call[p]))
    BY <1>1, <2>1, <2>2
       DEF Is, InTurn, Shaped, Snapshots, Diverted, Forced, TurnSteps, PlanSteps
  <2>4. Diverted(call'[p]) => service'.selected = call'[p].of
    BY <2>1, <2>3 DEF TurnsInv
  <2> QED BY <2>2, <2>3, <2>4, Alone, TurnHeld
<1>2. CASE call[p].back \notin {"failed", "undo"}
  <2>1. call'[p] \in {Quiet, AfterFailure[call[p].job]}
    BY <1>2 DEF Is, TurnsInv, Shaped, Forced, AfterForce, Alerts, HandledAt
  <2>2. ~InTurn(call'[p]) /\ Shaped(call'[p])
    BY <1>0, <2>1, OutcomesOutside
  <2>3. ~InTurn(call[p])
    BY <1>2 DEF Is, InTurn, Forced, TurnSteps, PlanSteps
  <2> QED BY <2>2, <2>3, TurnOutside
<1> QED BY <1>1, <1>2

LEMMA CommandTurn ==
  ASSUME StateTyped, TurnsInv, NEW p \in Processes,
         \/ Sync(p) \/ sync(p) \/ LockTask(p) \/ start(p) \/ stop(p) \/ ForceLocks(p) \/ force_stop(p)
  PROVE  TurnsInv'
<1>0. call[p] \in CallState
  BY DEF StateTyped
<1> USE DEF Is
<1>1. CASE Sync(p)
  <2> DEFINE next == [call EXCEPT ![p].seen = platform.account, ![p].step = "syncCommit"]
  <2>1. ~InTurn(call[p]) /\ turn' = turn /\ service' = service /\ Asks(p, next)
    BY <1>1 DEF Sync, rows, InTurn, Forced, TurnSteps, PlanSteps
  <2>2. ASSUME call' = next, client' = client
        PROVE  TurnsInv'
    <3>1. /\ call'[p].step = "syncCommit"
          /\ \A q \in Processes : q # p => SameTurn(call'[q], call[q])
      BY <1>0, <2>2 DEF StateTyped, CallState, SameTurn
    <3>2. ~InTurn(call'[p]) /\ Shaped(call'[p])
      BY <3>1 DEF InTurn, Shaped, Forced, TurnSteps, PlanSteps
    <3> QED BY <2>1, <2>2, <3>1, <3>2, TurnOutside
  <2> HIDE DEF next
  <2> QED BY <2>1, <2>2, AsksTurn
<1>2. CASE sync(p)
  <2>1. PICK opens, round : Store(p, opens, round)
    BY <1>2 DEF sync
  <2>2. ~InTurn(call[p]) /\ turn' = turn /\ client' = client /\ service' = service
    BY <2>1 DEF Store, InTurn, Forced, TurnSteps, PlanSteps
  <2>3. \A q \in Processes : q # p => SameTurn(call'[q], call[q])
    BY <2>1, TouchedSame DEF Store, SameTurn
  <2>4. call'[p] \in {At("tick", "act"), Quiet}
    BY <2>1 DEF Store, AfterSync
  <2>5. ~InTurn(At("tick", "act")) /\ Shaped(At("tick", "act"))
    BY AtOutside DEF Phases, Steps, TurnSteps, PlanSteps
  <2>6. ~InTurn(call'[p]) /\ Shaped(call'[p])
    BY <2>4, <2>5, OutcomesOutside
  <2> QED BY <2>2, <2>3, <2>6, TurnOutside
<1>3. CASE LockTask(p)
  <2>1. ~InTurn(call[p]) /\ turn' = turn /\ client' = client /\ service' = service /\ Goto(p, "taskCommit")
    BY <1>3 DEF LockTask, rows, InTurn, Forced, TurnSteps, PlanSteps
  <2>2. /\ call'[p].step = "taskCommit"
        /\ \A q \in Processes : q # p => SameTurn(call'[q], call[q])
    BY <2>1, GotoSame DEF Steps
  <2>3. ~InTurn(call'[p]) /\ Shaped(call'[p])
    BY <2>2 DEF InTurn, Shaped, Forced, TurnSteps, PlanSteps
  <2> QED BY <2>1, <2>2, <2>3, TurnOutside
<1>4. CASE start(p) \/ stop(p)
  <2>1. PICK status \in {"RUNNING", "STOPPED"} : Settle(p, status)
    BY <1>4 DEF start, stop
  <2>2. ~InTurn(call[p]) /\ turn' = turn /\ client' = client
    BY <2>1 DEF Settle, InTurn, Forced, TurnSteps, PlanSteps
  <2>3. service'.selected = service.selected
    BY <2>1 DEF Settle, _refresh_latch, StateTyped
  <2>4. call'[p] = Quiet /\ \A q \in Processes : q # p => SameTurn(call'[q], call[q])
    BY <2>1, TouchedSame DEF Settle
  <2> QED BY <2>2, <2>3, <2>4, OutcomesOutside, TurnOutside
<1>5. CASE ForceLocks(p)
  <2>1. turn' = turn /\ client' = client /\ service' = service /\ Goto(p, "forceCommit")
    BY <1>5 DEF ForceLocks, rows
  <2>2. /\ call'[p].step = "forceCommit" /\ call'[p].job = call[p].job
        /\ call'[p].back = call[p].back /\ call'[p].of = call[p].of
        /\ \A q \in Processes : q # p => SameTurn(call'[q], call[q])
    BY <2>1, GotoSame DEF Steps
  <2>3. /\ Shaped(call'[p]) /\ (InTurn(call'[p]) <=> InTurn(call[p])) /\ ~Snapshots(call'[p])
        /\ (Diverted(call'[p]) <=> Diverted(call[p]))
    BY <1>5, <2>2
       DEF ForceLocks, TurnsInv, Shaped, InTurn, Snapshots, Diverted, Forced, TurnSteps, PlanSteps
  <2>4. Diverted(call'[p]) => service'.selected = call'[p].of
    BY <2>1, <2>2, <2>3 DEF TurnsInv
  <2>5. CASE InTurn(call[p])
    BY <2>1, <2>2, <2>3, <2>4, <2>5, Alone, TurnHeld
  <2>6. CASE ~InTurn(call[p])
    BY <2>1, <2>2, <2>3, <2>6, TurnOutside
  <2> QED BY <2>5, <2>6
<1>6. CASE force_stop(p)
  <2>1. turn' = turn /\ client' = client /\ service'.selected = service.selected
    BY <1>6 DEF force_stop, StateTyped
  <2>2. call'[p] = AfterForce(p) /\ \A q \in Processes : q # p => SameTurn(call'[q], call[q])
    BY <1>6, TouchedSame DEF force_stop, SameTurn
  <2> QED BY <1>6, <2>1, <2>2, ForceTurn DEF force_stop
<1> QED BY <1>1, <1>2, <1>3, <1>4, <1>5, <1>6

\* A call outside of its turn that starts over.
LEMMA AtTurn ==
  ASSUME StateTyped, TurnsInv, NEW p \in Processes, NEW next,
         ~InTurn(call[p]), ~InTurn(next), Shaped(next), call' = [call EXCEPT ![p] = next],
         turn' = turn, client' = client, service'.selected = service.selected
  PROVE  TurnsInv'
<1>1. call'[p] = next /\ \A q \in Processes : q # p => SameTurn(call'[q], call[q])
  BY DEF StateTyped, SameTurn
<1> QED BY <1>1, TurnOutside

LEMMA LoopTurn ==
  ASSUME StateTyped, TurnsInv,
         \/ Boots \/ disable \/ Wakes \/ Acts \/ Aborts
         \/ \E p \in Commands, job \in DOMAIN FirstStep : Begin(p, job)
  PROVE  TurnsInv'
<1> USE ConstantFacts DEF Is
<1>1. CASE Boots
  <2> DEFINE next == At(IF task = "RUNNING" THEN "boot" ELSE "resume", "reconcile")
  <2>1. ~InTurn(next) /\ Shaped(next)
    BY AtOutside DEF Phases, Steps, TurnSteps, PlanSteps, Reconciling
  <2>2. /\ call' = [call EXCEPT ![Loop] = next] /\ ~InTurn(call[Loop])
        /\ turn' = turn /\ client' = client /\ service' = service
    BY <1>1 DEF Boots, rows, InTurn, Forced, TurnSteps, PlanSteps
  <2> HIDE DEF next
  <2> QED BY <2>1, <2>2, AtTurn
<1>2. CASE disable
  <2> DEFINE next == At("resume", "reconcile")
  <2>1. ~InTurn(next) /\ Shaped(next)
    BY AtOutside DEF Phases, Steps, TurnSteps, PlanSteps, Reconciling
  <2>2. /\ call' = [call EXCEPT ![Loop] = next] /\ ~InTurn(call[Loop])
        /\ turn' = turn /\ client' = client /\ service'.selected = service.selected
    BY <1>2 DEF disable, InTurn, Forced, TurnSteps, PlanSteps, StateTyped
  <2> HIDE DEF next
  <2> QED BY <2>1, <2>2, AtTurn
<1>3. CASE Wakes
  <2>1. /\ Goto(Loop, "reconcile") /\ ~InTurn(call[Loop]) /\ call[Loop].job = "tick"
        /\ turn' = turn /\ client' = client /\ service' = service
    BY <1>3 DEF Wakes, rows, TurnsInv, Shaped, InTurn, Forced, TurnSteps, PlanSteps
  <2>2. /\ call'[Loop].step = "reconcile" /\ call'[Loop].job = "tick"
        /\ \A q \in Processes : q # Loop => SameTurn(call'[q], call[q])
    BY <2>1, GotoSame DEF Steps
  <2>3. ~InTurn(call'[Loop]) /\ Shaped(call'[Loop])
    BY <2>2 DEF InTurn, Shaped, Forced, TurnSteps, PlanSteps, Reconciling
  <2> QED BY <2>1, <2>2, <2>3, TurnOutside
<1>4. CASE Acts
  <2> DEFINE next == [call EXCEPT ![Loop] = At("tick", "sleep")]
  <2>1. ~InTurn(call[Loop]) /\ turn' = turn /\ service' = service /\ Asks(Loop, next)
    BY <1>4 DEF Acts, rows, InTurn, Forced, TurnSteps, PlanSteps
  <2>2. ASSUME call' = next, client' = client
        PROVE  TurnsInv'
    <3>1. ~InTurn(At("tick", "sleep")) /\ Shaped(At("tick", "sleep"))
      BY AtOutside DEF Phases, Steps, TurnSteps, PlanSteps
    <3> QED BY <2>1, <2>2, <3>1, AtTurn
  <2> HIDE DEF next
  <2> QED BY <2>1, <2>2, AsksTurn
<1>5. CASE AbortsForce \/ AbortsReset
  <2>1. lock.state \in Processes /\ turn' = turn /\ client' = client /\ service' = service
    BY <1>5 DEF AbortsForce, AbortsReset, Deadlock, rows, StateTyped
  <2>2. CASE AbortsForce
    <3>1. Is(lock.state, "forceCommit") /\ call' = [call EXCEPT ![lock.state] = AfterForce(lock.state)]
      BY <2>2 DEF AbortsForce
    <3>2. /\ call'[lock.state] = AfterForce(lock.state)
          /\ \A q \in Processes : q # lock.state => SameTurn(call'[q], call[q])
      BY <2>1, <3>1 DEF StateTyped, SameTurn
    <3> QED BY <2>1, <3>1, <3>2, ForceTurn
  <2>3. CASE AbortsReset
    <3>1. Raise(lock.state) /\ Resets(lock.state)
      BY <2>3 DEF AbortsReset, Resets, PlanSteps
    <3> QED BY <2>1, <3>1, RaiseTurn
  <2> QED BY <1>5, <2>2, <2>3
<1>6. CASE AbortsCommand
  <2>1. /\ lock.task \in Processes /\ ~InTurn(call[lock.task])
        /\ turn' = turn /\ client' = client /\ service' = service
        /\ call' = [call EXCEPT ![lock.task] = Quiet]
    BY <1>6 DEF AbortsCommand, Deadlock, rows, StateTyped, InTurn, Forced, TurnSteps, PlanSteps
  <2> QED BY <2>1, OutcomesOutside, AtTurn
<1>7. CASE \E p \in Commands, job \in DOMAIN FirstStep : Begin(p, job)
  <2>1. PICK p \in Commands, job \in DOMAIN FirstStep : Begin(p, job)
    BY <1>7
  <2> DEFINE next == At(job, FirstStep[job])
  <2>2. next.step = FirstStep[job] /\ next.job = job /\ next.back = "idle"
    BY DEF At, Quiet
  <2>3. ~InTurn(next) /\ Shaped(next)
    <3> HIDE DEF next
    <3> QED BY <2>2 DEF FirstStep, InTurn, Shaped, Forced, TurnSteps, PlanSteps, Reconciling
  <2>4. /\ call' = [call EXCEPT ![p] = next] /\ call[p] = Quiet
        /\ turn' = turn /\ client' = client /\ service' = service
    BY <2>1 DEF Begin, rows
  <2> HIDE DEF next
  <2> QED BY <2>3, <2>4, OutcomesOutside, AtTurn
<1> QED BY <1>1, <1>2, <1>3, <1>4, <1>5, <1>6, <1>7 DEF Aborts

LEMMA NextTurn ==
  ASSUME StateTyped, TurnsInv, [Next]_vars
  PROVE  TurnsInv'
<1>1. CASE UNCHANGED vars
  BY <1>1 DEF vars, rows, TurnsInv
<1>2. ASSUME NEW p \in Processes, Proceeds(p)
      PROVE  TurnsInv'
  BY <1>2, ReconcileTurn, ResetTurn, CommandTurn DEF Proceeds
<1>3. CASE Next
  BY <1>2, <1>3, OutsideTurn, LoopTurn, ConstantFacts DEF Next, Loops
<1> QED BY <1>1, <1>3

-----------------------------------------------------------------------------
(* Theorems. *)

ControlInv == StateTyped /\ TurnsInv /\ UnreconciledIsClosed

LEMMA ControlInvariant == Spec => []ControlInv
<1>1. Init => ControlInv
  <2>1. Init => service.open = FALSE
    BY DEF Init
  <2> QED BY <2>1, InitTyped, InitTurns DEF ControlInv, UnreconciledIsClosed
<1>2. ControlInv /\ [Next]_vars => ControlInv'
  BY NextTyped, NextTurn, LatchSteps DEF ControlInv, UnreconciledIsClosed, LatchStep
<1> QED BY <1>1, <1>2, PTL DEF Spec

\* Once a reconciliation has failed (device_account_reconcile.py:206) or met another
\* account (:116), no step of the loop, a command, an alert or a restart leaves the latch open.
THEOREM ClosedWhileUnreconciled == Spec => PendingKeepsClosed
<1>1. ControlInv /\ [Next]_vars => (service.reason \in Unreconciled => ~service'.open)
  BY LatchSteps DEF ControlInv, UnreconciledIsClosed, LatchStep
<1>2. ControlInv /\ [Next]_vars => [service.reason \in Unreconciled => ~service'.open]_vars
  BY <1>1
<1> QED BY <1>2, ControlInvariant, PTL DEF Spec, PendingKeepsClosed

\* Between reconciliations the gateway routes to the selected account, however the last
\* one ended: it persisted, reset, failed, lost its session or was rolled back.
THEOREM GatewayFollowsSelection == Spec => []RoutesToSelected
<1>1. ControlInv => RoutesToSelected
  <2> SUFFICES ASSUME ControlInv, turn = None PROVE client.account = service.selected
    BY DEF RoutesToSelected
  <2>1. \A p \in Processes : ~InTurn(call[p])
    BY ConstantFacts DEF ControlInv, TurnsInv
  <2> QED BY <2>1, DivertedInTurn DEF ControlInv, TurnsInv
<1> QED BY <1>1, ControlInvariant, PTL
-----------------------------------------------------------------------------
(* The order of the evidence, and the bounds.                              *)

OrderTyped == asked \subseteq Asked \X Asked /\ InOrder /\ Asked \subseteq Processes

Counters == [changes : Nat, rounds : Nat, faults : Nat, logins : Nat, commands : Nat]
CountTyped ==
  /\ count \in Counters
  /\ \E b \in Bounds : \A k \in DOMAIN b : count[k] \in 0 .. b[k]

\* The processes that asked after p, or all if p's evidence was overtaken.
Later(p) == {q \in Asked : p \in Asked => q # p /\ <<p, q>> \in asked}

LEMMA AskedPairs ==
  ASSUME OrderTyped
  PROVE  /\ \A p, q : <<p, q>> \in asked => p \in Asked /\ q \in Asked
         /\ \A p : p \in Asked <=> <<p, p>> \in asked
<1>1. \A p, q : <<p, q>> \in asked => p \in Asked /\ q \in Asked
  BY DEF OrderTyped
<1>2. \A p : p \in Asked => <<p, p>> \in asked
  BY DEF OrderTyped, InOrder
<1> QED BY <1>1, <1>2

\* Whoever remains does so in the same order.
LEMMA RemainingOrder ==
  ASSUME OrderTyped, NEW S, asked' = Remaining(S)
  PROVE  /\ OrderTyped' /\ Asked' = Asked \cap S
         /\ \A p, q : <<p, q>> \in asked' <=> <<p, q>> \in asked /\ p \in S /\ q \in S
<1>1. \A p, q : <<p, q>> \in asked' <=> <<p, q>> \in asked /\ p \in S /\ q \in S
  BY DEF Remaining
<1>2. Asked' = Asked \cap S
  <2>1. ASSUME NEW p \in Asked' PROVE p \in Asked \cap S
    <3>1. PICK pair \in asked' : p = pair[1]
      BY <2>1 DEF Asked
    <3>2. pair \in asked /\ pair \in S \X S
      BY <3>1 DEF Remaining
    <3> QED BY <3>1, <3>2 DEF Asked
  <2>2. ASSUME NEW p \in Asked \cap S PROVE p \in Asked'
    <3>1. <<p, p>> \in asked'
      BY <1>1, AskedPairs
    <3>2. <<p, p>>[1] = p
      OBVIOUS
    <3> QED BY <3>1, <3>2 DEF Asked
  <2> QED BY <2>1, <2>2
<1>3. asked' \subseteq Asked' \X Asked'
  <2>1. asked' \subseteq asked /\ asked' \subseteq S \X S
    BY DEF Remaining
  <2> QED BY <1>2, <2>1 DEF OrderTyped
<1>4. InOrder'
  BY <1>1, <1>2 DEF OrderTyped, InOrder
<1> QED BY <1>1, <1>2, <1>3, <1>4 DEF OrderTyped

LEMMA SameOrder ==
  ASSUME OrderTyped, asked' = asked
  PROVE  OrderTyped' /\ Asked' = Asked /\ \A p : Later(p)' = Later(p)
BY SMTT(15), ZenonT(40) DEF OrderTyped, InOrder, Asked, Later

LEMMA NobodyAsked ==
  ASSUME asked' = {}
  PROVE  OrderTyped' /\ Asked' = {}
BY DEF OrderTyped, InOrder, Asked

\* Whoever asks is the last.
LEMMA AgainOrder ==
  ASSUME OrderTyped, NEW p \in Processes, asked' = AskedAgain(p)
  PROVE  /\ OrderTyped' /\ Asked' = Asked \cup {p}
         /\ \A q, r : <<q, r>> \in asked' <=>
                        \/ <<q, r>> \in asked /\ q # p /\ r # p
                        \/ (q \in Asked \/ q = p) /\ r = p
<1>1. \A q, r : <<q, r>> \in asked' <=>
                  \/ <<q, r>> \in asked /\ q # p /\ r # p
                  \/ (q \in Asked \/ q = p) /\ r = p
  BY AskedPairs DEF AskedAgain, Without, Remaining
<1>2. Asked' = Asked \cup {p}
  <2>1. ASSUME NEW q \in Asked' PROVE q \in Asked \cup {p}
    <3>1. PICK pair \in asked' : q = pair[1]
      BY <2>1 DEF Asked
    <3>2. pair \in asked \/ pair \in (Asked \cup {p}) \X {p}
      BY <3>1 DEF AskedAgain, Without, Remaining
    <3> QED BY <3>1, <3>2 DEF Asked
  <2>2. ASSUME NEW q \in Asked \cup {p} PROVE q \in Asked'
    <3>1. <<q, p>> \in asked'
      BY <1>1
    <3>2. <<q, p>>[1] = q
      OBVIOUS
    <3> QED BY <3>1, <3>2 DEF Asked
  <2> QED BY <2>1, <2>2
<1>3. asked' \subseteq Asked' \X Asked'
  BY <1>2 DEF AskedAgain, Without, Remaining, OrderTyped
<1>4. InOrder'
  BY <1>1, <1>2, AskedPairs DEF OrderTyped, InOrder
<1> QED BY <1>1, <1>2, <1>3, <1>4 DEF OrderTyped

\* Who remains after evidence was stored was later than the evidence of whoever is gone
\* before it.
LEMMA NewerLater ==
  ASSUME OrderTyped, NEW p \in Processes, asked' = Newer(p)
  PROVE  /\ OrderTyped' /\ Asked' = Later(p) /\ Asked' \subseteq Asked
         /\ \A q \in Processes : q # p => Later(q)' \subseteq Later(q)
<1>1. asked' = Remaining(Later(p)) /\ Later(p) \subseteq Asked
  BY DEF Newer, Later
<1>2. /\ OrderTyped' /\ Asked' = Asked \cap Later(p)
      /\ \A q, r : <<q, r>> \in asked' <=> <<q, r>> \in asked /\ q \in Later(p) /\ r \in Later(p)
  BY <1>1, RemainingOrder
<1>3. ASSUME NEW q \in Processes, q # p, NEW r \in Later(q)'
      PROVE  r \in Later(q)
  <2>1. r \in Asked /\ r \in Later(p) /\ (q \in Asked' => r # q /\ <<q, r>> \in asked')
    BY <1>1, <1>2, <1>3 DEF Later
  <2>2. CASE q \in Later(p)
    BY <1>1, <1>2, <2>1, <2>2 DEF Later
  <2>3. CASE q \in Asked /\ q \notin Later(p)
    <3>1. p \in Asked /\ <<q, p>> \in asked
      BY <1>3, <2>3 DEF Later, OrderTyped, InOrder
    <3>2. r # p /\ <<p, r>> \in asked
      BY <2>1, <3>1 DEF Later
    <3>3. <<q, r>> \in asked
      BY <2>1, <2>3, <3>1, <3>2 DEF OrderTyped, InOrder
    <3>4. r # q
      BY <2>1, <2>3
    <3> QED BY <2>1, <3>3, <3>4 DEF Later
  <2>4. CASE q \notin Asked
    BY <2>1, <2>4 DEF Later
  <2> QED BY <2>2, <2>3, <2>4
<1> QED BY <1>1, <1>2, <1>3

\* Whoever gives up leaves the others in order.
LEMMA WithoutLater ==
  ASSUME OrderTyped, NEW p \in Processes, asked' = Without(p)
  PROVE  /\ OrderTyped' /\ Asked' \subseteq Asked
         /\ \A q \in Processes : q # p => Later(q)' \subseteq Later(q)
<1>1. /\ OrderTyped' /\ Asked' = Asked \cap (Asked \ {p})
      /\ \A q, r : <<q, r>> \in asked' <=>
                     <<q, r>> \in asked /\ q \in Asked \ {p} /\ r \in Asked \ {p}
  BY RemainingOrder DEF Without
<1> QED BY <1>1 DEF Later


\* What any step does to the order of the evidence.
OrderStep ==
  \/ asked' \in {asked, {}}
  \/ \E p \in Processes : asked' \in {Without(p), AskedAgain(p), Newer(p)}

LEMMA OrderSteps ==
  ASSUME StateTyped, Next
  PROVE  OrderStep
<1>1. CASE \/ \E account \in Accounts : Replace(account)
           \/ RoundEnds \/ authenticate \/ Restart
           \/ \E p \in Commands, job \in DOMAIN FirstStep : Begin(p, job)
           \/ Boots \/ disable \/ Wakes \/ Acts
  BY <1>1 DEF Replace, RoundEnds, authenticate, Restart, StartsUp, Begin, Boots, disable, Wakes,
              Acts, OrderStep
<1>2. CASE Aborts
  <2>1. lock.state \in Processes
    BY <1>2 DEF Aborts, AbortsForce, AbortsReset, AbortsCommand, Deadlock, StateTyped
  <2> QED BY <1>2, <2>1 DEF Aborts, AbortsForce, AbortsReset, AbortsCommand, OrderStep
<1>3. ASSUME NEW p \in Processes, Proceeds(p)
      PROVE  OrderStep
  <2>1. CASE Reconciles(p)
    BY <2>1 DEF Reconciles, Enter, Fetch, _disable_after_failure, _snapshot, _persist_identity,
                Pend, KeepPrevious, _restore_gateway, EnableReads, enable_latch, OrderStep
  <2>2. CASE ResetsRound(p)
    BY <2>2 DEF ResetsRound, _read_plan, Refuses, Evidence, LockState, _commit_reset, OrderStep
  <2>3. CASE \/ Sync(p) \/ sync(p) \/ LockTask(p) \/ start(p) \/ stop(p)
             \/ ForceLocks(p) \/ force_stop(p)
    BY <2>3 DEF Sync, sync, LockTask, start, stop, Settle, ForceLocks, force_stop, OrderStep
  <2> QED BY <1>3, <2>1, <2>2, <2>3 DEF Proceeds
<1> QED BY <1>1, <1>2, <1>3, ConstantFacts DEF Next, Loops

LEMMA NextOrder ==
  ASSUME StateTyped, OrderTyped, [Next]_vars
  PROVE  OrderTyped'
<1>1. CASE UNCHANGED vars
  BY <1>1, SameOrder DEF vars
<1>2. CASE Next
  <2>1. OrderStep
    BY <1>2, OrderSteps
  <2> QED BY <2>1, SameOrder, NobodyAsked, WithoutLater, AgainOrder, NewerLater DEF OrderStep
<1> QED BY <1>1, <1>2

LEMMA HappensTyped ==
  ASSUME CountTyped, NEW kind \in {"changes", "rounds", "faults", "logins", "commands"},
         Happens(kind)
  PROVE  CountTyped'
<1> DEFINE next == [count EXCEPT ![kind] = @ + 1]
<1>1. next \in Counters /\ count' = next
  BY DEF CountTyped, Counters, Happens
<1>2. PICK b \in Bounds : \A k \in DOMAIN b : next[k] <= b[k]
  BY DEF Happens
<1>3. b \in Counters
  BY <1>2, BoundsAssumption DEF Counters
<1> HIDE DEF next
<1>4. \A k \in DOMAIN b : b[k] \in Nat /\ next[k] \in Nat
  BY <1>1, <1>3 DEF Counters
<1>5. \A k \in DOMAIN b : next[k] \in 0 .. b[k]
  BY <1>2, <1>4
<1> QED BY <1>1, <1>5 DEF CountTyped

\* What any step does to the counters of the bounds.
CountStep ==
  \/ count' = count
  \/ \E kind \in {"changes", "rounds", "faults", "logins", "commands"} : Happens(kind)

LEMMA CountSteps ==
  ASSUME Next
  PROVE  CountStep
<1>1. \A p \in Processes : \A next : Asks(p, next) => CountStep
  BY DEF Asks, Answers, RequestFails, Unauthorized, Fault, CountStep
<1>2. CASE \/ \E account \in Accounts : Replace(account)
           \/ RoundEnds \/ authenticate \/ Restart
           \/ \E p \in Commands, job \in DOMAIN FirstStep : Begin(p, job)
           \/ Boots \/ disable \/ Wakes
  BY <1>2 DEF Replace, RoundEnds, authenticate, Restart, Fault, Begin, Boots, disable, Wakes,
              CountStep
<1>3. CASE Acts \/ Aborts
  BY <1>1, <1>3, ConstantFacts DEF Acts, Aborts, AbortsForce, AbortsReset, AbortsCommand, CountStep
<1>4. ASSUME NEW p \in Processes, Proceeds(p)
      PROVE  CountStep
  <2>1. CASE Reconciles(p)
    BY <1>1, <2>1 DEF Reconciles, Enter, Fetch, _disable_after_failure, _snapshot,
                _persist_identity, Pend, KeepPrevious, _restore_gateway, EnableReads,
                enable_latch, CountStep
  <2>2. CASE ResetsRound(p)
    BY <1>1, <2>2 DEF ResetsRound, _read_plan, Refuses, Fault, Evidence, LockState, _commit_reset,
                CountStep
  <2>3. CASE \/ Sync(p) \/ sync(p) \/ LockTask(p) \/ start(p) \/ stop(p)
             \/ ForceLocks(p) \/ force_stop(p)
    BY <1>1, <2>3 DEF Sync, sync, Store, LockTask, start, stop, Settle, ForceLocks, force_stop,
                CountStep
  <2> QED BY <1>4, <2>1, <2>2, <2>3 DEF Proceeds
<1> QED BY <1>2, <1>3, <1>4, ConstantFacts DEF Next, Loops

LEMMA NextCount ==
  ASSUME CountTyped, [Next]_vars
  PROVE  CountTyped'
<1>1. CASE UNCHANGED vars
  BY <1>1 DEF vars, CountTyped
<1>2. CASE Next
  <2>1. CountStep
    BY <1>2, CountSteps
  <2> QED BY <2>1, HappensTyped DEF CountStep, CountTyped
<1> QED BY <1>1, <1>2

LEMMA InitOrder == Init => OrderTyped /\ CountTyped
<1> SUFFICES ASSUME Init PROVE OrderTyped /\ CountTyped
  OBVIOUS
<1>1. OrderTyped
  BY DEF Init, OrderTyped, InOrder, Asked
<1>2. count \in Counters /\ \A k \in DOMAIN count : count[k] = 0
  BY DEF Init, Counters
<1> QED BY <1>1, <1>2, BoundsAssumption DEF CountTyped, Counters

-----------------------------------------------------------------------------
(* The evidence of the round.                                              *)

\* The platform reports the account, or has reported it.
Known(account) == account \in platform.former \cup {platform.account, None}
Fresh == platform.account \notin platform.former

\* The account that the evidence of a call is about, once it has some.
TargetOf(c) == IF c.job = "reset" THEN c.plan.selected ELSE c.seen
Commits(c) == c.step \in {"lockState", "resetCommit"}
Holds(c) == c.step = "syncCommit" \/ Commits(c)
Evidenced(c) == IF c.step = "syncCommit" THEN c.seen ELSE TargetOf(c)

\* The call has found the account of the round, and may store what it sees.
Reconciled(c) ==
  \/ c.step \in {"persist", "sync", "syncCommit"}
  \/ c.step \in {"enableRead", "enable"} /\ c.job # "open"

Agrees(q) == Is(q, "syncCommit") => call[q].seen = platform.account

\* Accounts that calls have seen, or reset to, are known.
AccountsKnown ==
  \A p \in Processes :
    /\ Known(call[p].seen)
    /\ Commits(call[p]) => Known(TargetOf(call[p]))

\* The account of the round is known except for the first round, which nobody touches
\* until a reconciliation has replaced it.
FirstRoundStays ==
  ~Known(cycle.account) =>
    cycle.status = "VERIFIED" /\ \A p \in Processes : ~Reconciled(call[p])

\* Nobody who asked after evidence of a new account saw another one ...
LaterAgrees ==
  Fresh =>
    \A p \in Processes : Holds(call[p]) /\ Evidenced(call[p]) = platform.account =>
      \A q \in Later(p) : Agrees(q)

\* ... also after it was stored.
StoredAgrees ==
  Fresh /\ cycle.account = platform.account =>
    cycle.status = "VERIFIED" /\ \A q \in Asked : Agrees(q)

EvidenceInv == AccountsKnown /\ FirstRoundStays /\ LaterAgrees /\ StoredAgrees

\* The call d is c some steps later, with no other evidence than c has.
Kept(c, d) ==
  /\ Known(d.seen)
  /\ d.step = "syncCommit" => c.step = "syncCommit" /\ d.seen = c.seen
  /\ Commits(d) => TargetOf(d) = None \/ (Commits(c) /\ TargetOf(d) = TargetOf(c))
  /\ Reconciled(d) => Reconciled(c) \/ Known(cycle'.account)

\* A call without evidence that is not reconciled either.
Harmless(d) == Known(d.seen) /\ ~Holds(d) /\ ~Reconciled(d)

LEMMA HarmlessKept ==
  ASSUME NEW c, NEW d, Harmless(d)
  PROVE  Kept(c, d)
BY DEF Harmless, Kept, Holds

LEMMA SameKept ==
  ASSUME EvidenceInv, NEW q \in Processes
  PROVE  Kept(call[q], call[q])
BY DEF EvidenceInv, AccountsKnown, Kept

LEMMA TouchedKept ==
  ASSUME StateTyped, EvidenceInv, NEW q \in Processes
  PROVE  Kept(call[q], Touched(q))
<1>1. call[q] \in CallState /\ Known(call[q].seen)
  BY DEF StateTyped, EvidenceInv, AccountsKnown
<1>2. Touched(q) = call[q] \/ Touched(q) = [call[q] EXCEPT !.plan = Stale]
  BY DEF Touched
<1>3. ASSUME NEW d, d = [call[q] EXCEPT !.plan = Stale]
      PROVE  Kept(call[q], d)
  <2>1. d.step = call[q].step /\ d.job = call[q].job /\ d.seen = call[q].seen /\ d.plan = Stale
    BY <1>1, <1>3 DEF CallState
  <2>2. Stale.selected = None
    BY DEF Stale
  <2> QED BY <1>1, <2>1, <2>2 DEF Kept, TargetOf, Commits, Reconciled
<1> QED BY <1>2, <1>3, SameKept

\* A step that brings no evidence keeps what is known, if what it stores is right.
LEMMA EvidenceKept ==
  ASSUME StateTyped, OrderTyped, EvidenceInv, platform' = platform, Asked' \subseteq Asked,
         \A q \in Processes : Later(q)' \subseteq Later(q) \/ ~Holds(call'[q]),
         ~Known(cycle'.account) => cycle'.account = cycle.account /\ cycle'.status = "VERIFIED",
         Fresh /\ cycle'.account = platform.account =>
           cycle'.status = "VERIFIED" /\ \A q \in Asked' : Agrees(q),
         \A q \in Processes : Kept(call[q], call'[q])
  PROVE  EvidenceInv'
<1>1. /\ \A account : Known(account)' <=> Known(account)
      /\ Fresh' <=> Fresh
      /\ platform'.account = platform.account
  BY DEF Known, Fresh
<1>2. ASSUME NEW q \in Processes, Agrees(q)
      PROVE  Agrees(q)'
  BY <1>1, <1>2 DEF Agrees, Is, Kept, Holds
<1>3. AccountsKnown'
  <2>1. ASSUME NEW q \in Processes
        PROVE  /\ Known(call'[q].seen)
               /\ Commits(call'[q]) => Known(TargetOf(call'[q]))
    <3>1. Commits(call[q]) => Known(TargetOf(call[q]))
      BY DEF EvidenceInv, AccountsKnown
    <3>2. Known(None)
      BY DEF Known
    <3> QED BY <3>1, <3>2 DEF Kept, Holds
  <2> QED BY <1>1, <2>1 DEF AccountsKnown, Commits, TargetOf, Known
<1>4. FirstRoundStays'
  <2>1. ASSUME ~Known(cycle'.account)
        PROVE  cycle'.status = "VERIFIED" /\ \A p \in Processes : ~Reconciled(call'[p])
    <3>1. ~Known(cycle.account)
      BY <2>1
    <3> QED BY <2>1, <3>1 DEF EvidenceInv, FirstRoundStays, Kept
  <2> QED BY <1>1, <2>1 DEF FirstRoundStays, Reconciled, Known
<1>5. LaterAgrees'
  <2>1. ASSUME Fresh, NEW p \in Processes, Holds(call'[p]),
               Evidenced(call'[p]) = platform.account, NEW q \in Later(p)'
        PROVE  Agrees(q)'
    <3>1. q \in Later(p) /\ q \in Processes
      BY <2>1 DEF Later, OrderTyped
    <3>2. Kept(call[p], call'[p])
      BY <2>1
    <3>3. platform.account # None
      BY NoneAssumption DEF StateTyped
    <3>4. Holds(call[p]) /\ Evidenced(call[p]) = platform.account
      BY <2>1, <3>2, <3>3 DEF Kept, Holds, Evidenced, Commits
    <3> QED BY <1>2, <2>1, <3>1, <3>4 DEF EvidenceInv, LaterAgrees
  <2> QED BY <1>1, <2>1 DEF LaterAgrees, Holds, Commits, Evidenced, TargetOf
<1>6. StoredAgrees'
  <2>1. ASSUME Fresh, cycle'.account = platform.account
        PROVE  cycle'.status = "VERIFIED" /\ \A q \in Asked' : Agrees(q)'
    <3>1. Asked' \subseteq Processes
      BY DEF OrderTyped
    <3> QED BY <1>2, <2>1, <3>1
  <2> QED BY <1>1, <2>1 DEF StoredAgrees
<1> QED BY <1>3, <1>4, <1>5, <1>6 DEF EvidenceInv

\* The round and the order of the evidence stay.
LEMMA EvidenceCalm ==
  ASSUME StateTyped, OrderTyped, EvidenceInv, platform' = platform, asked' = asked,
         cycle'.account = cycle.account, cycle'.status = cycle.status,
         \A q \in Processes : Kept(call[q], call'[q])
  PROVE  EvidenceInv'
<1>1. Asked' = Asked /\ \A q : Later(q)' = Later(q)
  BY SameOrder
<1> QED BY <1>1, EvidenceKept DEF EvidenceInv, FirstRoundStays, StoredAgrees

\* p gives up its evidence.
LEMMA EvidenceDropped ==
  ASSUME StateTyped, OrderTyped, EvidenceInv, platform' = platform, cycle' = cycle,
         NEW p \in Processes, asked' = Without(p), ~Holds(call'[p]),
         \A q \in Processes : Kept(call[q], call'[q])
  PROVE  EvidenceInv'
<1>1. Asked' \subseteq Asked /\ \A q \in Processes : q # p => Later(q)' \subseteq Later(q)
  BY WithoutLater
<1> QED BY <1>1, EvidenceKept DEF EvidenceInv, FirstRoundStays, StoredAgrees

\* p has asked again, and has evidence of the live account.
LEMMA EvidenceAsked ==
  ASSUME StateTyped, OrderTyped, EvidenceInv, platform' = platform, cycle' = cycle,
         NEW p \in Processes, asked' = AskedAgain(p),
         \A q \in Processes : q # p => call'[q] = call[q],
         Holds(call'[p]), Evidenced(call'[p]) = platform.account, Known(call'[p].seen),
         Reconciled(call'[p]) => Reconciled(call[p])
  PROVE  EvidenceInv'
<1>1. /\ \A account : Known(account)' <=> Known(account)
      /\ Fresh' <=> Fresh
      /\ platform'.account = platform.account
  BY DEF Known, Fresh
<1>2. /\ Asked' = Asked \cup {p} /\ Asked \subseteq Processes
      /\ \A q, r : <<q, r>> \in asked' <=>
                     \/ <<q, r>> \in asked /\ q # p /\ r # p
                     \/ (q \in Asked \/ q = p) /\ r = p
  BY AgainOrder DEF OrderTyped
<1>3. Agrees(p)'
  BY <1>1 DEF Agrees, Is, Evidenced
<1>4. ASSUME NEW q \in Processes, q # p, Agrees(q)
      PROVE  Agrees(q)'
  BY <1>1, <1>4 DEF Agrees, Is
<1>5. AccountsKnown'
  <2>1. Commits(call'[p]) => Known(TargetOf(call'[p]))
    BY DEF Evidenced, Commits, Known
  <2>2. ASSUME NEW q \in Processes
        PROVE  Known(call'[q].seen) /\ (Commits(call'[q]) => Known(TargetOf(call'[q])))
    BY <2>1, <2>2 DEF EvidenceInv, AccountsKnown
  <2> QED BY <1>1, <2>2 DEF AccountsKnown, Commits, TargetOf, Known
<1>6. FirstRoundStays'
  <2>1. ASSUME ~Known(cycle.account)
        PROVE  cycle.status = "VERIFIED" /\ \A q \in Processes : ~Reconciled(call'[q])
    BY <2>1 DEF EvidenceInv, FirstRoundStays
  <2> QED BY <1>1, <2>1 DEF FirstRoundStays, Reconciled, Known
<1>7. LaterAgrees'
  <2>1. ASSUME Fresh, NEW r \in Processes, Holds(call'[r]),
               Evidenced(call'[r]) = platform.account, NEW q \in Later(r)'
        PROVE  Agrees(q)'
    <3>1. q \in Processes /\ q \in Asked'
      BY <1>2, <2>1 DEF Later
    <3>2. CASE q = p
      BY <1>3, <3>2
    <3>3. CASE q # p
      <4>1. r # p
        BY <1>2, <2>1, <3>3 DEF Later
      <4>2. q \in Later(r)
        BY <1>2, <2>1, <3>3, <4>1 DEF Later
      <4>3. Holds(call[r]) /\ Evidenced(call[r]) = platform.account
        BY <2>1, <4>1
      <4> QED BY <1>4, <2>1, <3>1, <3>3, <4>2, <4>3 DEF EvidenceInv, LaterAgrees
    <3> QED BY <3>2, <3>3
  <2> QED BY <1>1, <2>1 DEF LaterAgrees, Holds, Commits, Evidenced, TargetOf
<1>8. StoredAgrees'
  <2>1. ASSUME Fresh, cycle.account = platform.account
        PROVE  cycle.status = "VERIFIED" /\ \A q \in Asked' : Agrees(q)'
    <3>1. cycle.status = "VERIFIED" /\ \A q \in Asked : Agrees(q)
      BY <2>1 DEF EvidenceInv, StoredAgrees
    <3> QED BY <1>2, <1>3, <1>4, <3>1
  <2> QED BY <1>1, <2>1 DEF StoredAgrees
<1> QED BY <1>5, <1>6, <1>7, <1>8 DEF EvidenceInv

LEMMA OutcomesHarmless ==
  ASSUME StateTyped, EvidenceInv
  PROVE  /\ Harmless(Quiet)
         /\ \A job \in Phases : Harmless(AfterFailure[job])
         /\ \A job \in Phases, step \in Steps :
              /\ step \notin {"syncCommit", "lockState", "resetCommit", "persist", "sync"}
              /\ step \in {"enableRead", "enable"} => job = "open"
              => Harmless(At(job, step))
<1> USE DEF Harmless, Holds, Commits, Reconciled
<1>1. Known(None)
  BY DEF Known
<1>2. Harmless(Quiet)
  BY <1>1 DEF Quiet
<1>3. ASSUME NEW job \in Phases, NEW step \in Steps,
             step \notin {"syncCommit", "lockState", "resetCommit", "persist", "sync"},
             step \in {"enableRead", "enable"} => job = "open"
      PROVE  Harmless(At(job, step))
  <2>1. At(job, step).step = step /\ At(job, step).job = job /\ At(job, step).seen = None
    BY DEF At, Quiet
  <2> QED BY <1>1, <1>3, <2>1
<1>4. /\ Harmless(At("boot", "disable")) /\ Harmless(At("open", "enableRead"))
      /\ Harmless(At("tick", "sleep"))
  BY <1>3 DEF Phases, Steps
<1>5. ASSUME NEW job \in Phases
      PROVE  Harmless(AfterFailure[job])
  BY <1>2, <1>4 DEF AfterFailure
<1> QED BY <1>2, <1>3, <1>5

LEMMA HandledHarmless ==
  ASSUME StateTyped, EvidenceInv, NEW p \in Processes, NEW step \in {"failed", "undo", "raised"}
  PROVE  Harmless(HandledAt(p, step))
<1>1. call[p] \in CallState /\ call[p].job \in Phases /\ Known(call[p].seen)
  BY DEF StateTyped, CallState, EvidenceInv, AccountsKnown
<1>2. CASE step = "raised"
  BY <1>1, <1>2, OutcomesHarmless DEF HandledAt
<1>3. CASE step # "raised"
  <2>1. PICK d : d = [call[p] EXCEPT !.step = step, !.back = "idle", !.plan = Stale]
    OBVIOUS
  <2>2. d.step = step /\ d.seen = call[p].seen
    BY <1>1, <2>1 DEF CallState
  <2> QED BY <1>1, <1>3, <2>1, <2>2 DEF HandledAt, Harmless, Holds, Commits, Reconciled
<1> QED BY <1>2, <1>3

LEMMA RaiseHarmless ==
  ASSUME StateTyped, EvidenceInv, NEW p \in Processes, Raise(p)
  PROVE  Harmless(call'[p]) /\ \A q \in Processes : q # p => call'[q] = call[q]
<1>1. Handler(p) \in {"failed", "undo", "raised"}
  BY RaisedTyped
<1>2. Harmless(HandledAt(p, Handler(p)))
  BY <1>1, HandledHarmless
<1> QED BY <1>2 DEF Raise, Raised, StateTyped

LEMMA GotoCall ==
  ASSUME StateTyped, NEW p \in Processes, NEW step, Goto(p, step)
  PROVE  /\ call'[p].step = step /\ call'[p].seen = call[p].seen
         /\ call'[p].job = call[p].job /\ call'[p].plan = call[p].plan
         /\ \A q \in Processes : q # p => call'[q] = call[q]
<1>1. call[p] \in CallState
  BY DEF StateTyped
<1> QED BY <1>1 DEF Goto, StateTyped, CallState

\* A request that brings no answer leaves a call without evidence.
LEMMA AsksHarmless ==
  ASSUME StateTyped, EvidenceInv, NEW p \in Processes, NEW next, Asks(p, next), call' # next
  PROVE  Harmless(call'[p]) /\ \A q \in Processes : q # p => call'[q] = call[q]
<1>0. call[p] \in CallState /\ Known(call[p].seen)
  BY DEF StateTyped, EvidenceInv, AccountsKnown
<1>1. CASE Raise(p)
  BY <1>1, RaiseHarmless
<1>2. CASE Goto(p, "act")
  BY <1>0, <1>2, GotoCall DEF Harmless, Holds, Commits, Reconciled
<1>3. CASE call' = [call EXCEPT ![p].back = Handler(p), ![p].step = "force"]
  <2>1. call'[p].step = "force" /\ call'[p].seen = call[p].seen
    BY <1>0, <1>3 DEF StateTyped, CallState
  <2>2. \A q \in Processes : q # p => call'[q] = call[q]
    BY <1>3 DEF StateTyped
  <2> QED BY <1>0, <2>1, <2>2 DEF Harmless, Holds, Commits, Reconciled
<1> QED BY <1>1, <1>2, <1>3 DEF Asks, Answers, RequestFails, Unauthorized

\* One call moves on without evidence, the others stay as they are or find their plan stale.
LEMMA OthersKept ==
  ASSUME StateTyped, EvidenceInv, NEW p \in Processes, Kept(call[p], call'[p]),
         \A q \in Processes : q # p => call'[q] \in {call[q], Touched(q)}
  PROVE  \A q \in Processes : Kept(call[q], call'[q])
BY SameKept, TouchedKept

LEMMA FinishCall ==
  ASSUME StateTyped, NEW p \in Processes, NEW outcome, Finish(p, outcome)
  PROVE  /\ call'[p] = outcome[call[p].job]
         /\ \A q \in Processes : q # p => call'[q] = call[q]
BY DEF Finish, StateTyped

\* What follows a success was reconciled before.
LEMMA SuccessKept ==
  ASSUME StateTyped, EvidenceInv, NEW p \in Processes, Shaped(call[p]),
         call[p].step \in {"enableRead", "enable"}
  PROVE  Kept(call[p], AfterSuccess[call[p].job])
<1>1. call[p].job \in Reconciling \cup {"open"}
  BY DEF Shaped
<1>2. CASE call[p].job = "open"
  <2>1. Harmless(At("tick", "sleep"))
    BY OutcomesHarmless DEF Phases, Steps
  <2> QED BY <1>2, <2>1, HarmlessKept DEF AfterSuccess
<1>3. CASE call[p].job # "open"
  <2>1. Reconciled(call[p])
    BY <1>3 DEF Reconciled
  <2>2. ASSUME NEW job \in Phases, NEW step \in Steps,
               step \notin {"syncCommit", "lockState", "resetCommit"}
        PROVE  Kept(call[p], At(job, step))
    <3>1. At(job, step).step = step /\ At(job, step).seen = None
      BY DEF At, Quiet
    <3> QED BY <2>1, <2>2, <3>1 DEF Kept, Commits, Known
  <2>3. /\ Kept(call[p], At("resume", "reconcile")) /\ Kept(call[p], At("open", "enableRead"))
        /\ Kept(call[p], At("tick", "sync")) /\ Kept(call[p], At("startTask", "reconcile"))
        /\ Kept(call[p], At("startTask", "lockTask")) /\ Kept(call[p], At("recover", "force"))
        /\ Kept(call[p], At("auth", "sync"))
    BY <2>2 DEF Phases, Jobs, Steps
  <2> QED BY <1>1, <1>3, <2>3 DEF AfterSuccess, Reconciling
<1> QED BY <1>2, <1>3

LEMMA ReconcileEvidence ==
  ASSUME StateTyped, TurnsInv, OrderTyped, EvidenceInv, NEW p \in Processes, Reconciles(p)
  PROVE  EvidenceInv'
<1>0. /\ call[p] \in CallState /\ call[p].job \in Phases /\ Known(call[p].seen)
      /\ Shaped(call[p]) /\ Known(None)
  BY DEF StateTyped, CallState, EvidenceInv, AccountsKnown, TurnsInv, Known
<1>1. platform' = platform /\ asked' = asked /\ cycle' = cycle
  BY DEF Reconciles, Enter, Fetch, _disable_after_failure, _snapshot, _persist_identity, Pend,
         KeepPrevious, _restore_gateway, EnableReads, enable_latch, rows
<1>2. SUFFICES /\ Kept(call[p], call'[p])
               /\ \A q \in Processes : q # p => call'[q] = call[q]
  BY <1>1, EvidenceCalm, OthersKept
<1>3. ASSUME NEW step, Goto(p, step),
             step \notin {"syncCommit", "lockState", "resetCommit", "persist", "sync"},
             step \in {"enableRead", "enable"} => Reconciled(call[p]) \/ call[p].job = "open"
      PROVE  /\ Kept(call[p], call'[p])
             /\ \A q \in Processes : q # p => call'[q] = call[q]
  BY <1>0, <1>3, GotoCall DEF Kept, Commits, Reconciled
<1>4. ASSUME Finish(p, AfterFailure)
      PROVE  /\ Kept(call[p], call'[p])
             /\ \A q \in Processes : q # p => call'[q] = call[q]
  BY <1>0, <1>4, FinishCall, OutcomesHarmless, HarmlessKept
<1>5. CASE Enter(p)
  BY <1>3, <1>5 DEF Enter
<1>6. CASE Fetch(p)
  <2> DEFINE next == [call EXCEPT ![p].seen = platform.account, ![p].step = "snapshot"]
  <2>1. CASE call' = next
    <3>1. call'[p].step = "snapshot" /\ call'[p].seen = platform.account
      BY <1>0, <2>1 DEF StateTyped, CallState
    <3>2. \A q \in Processes : q # p => call'[q] = call[q]
      BY <2>1 DEF StateTyped
    <3>3. Known(platform.account)
      BY DEF Known
    <3> QED BY <3>1, <3>2, <3>3 DEF Kept, Commits, Reconciled
  <2>2. CASE call' # next
    <3>1. Asks(p, next)
      BY <1>6 DEF Fetch
    <3> HIDE DEF next
    <3> QED BY <2>2, <3>1, AsksHarmless, HarmlessKept
  <2> QED BY <2>1, <2>2
<1>7. CASE _snapshot(p)
  <2> DEFINE of == IF cycle.account # None THEN cycle.account ELSE service.selected
             step == IF \/ cycle = NoRound \/ cycle.account = call[p].seen
                        \/ cycle.account = None /\ service.selected = None
                     THEN "persist" ELSE "pend"
  <2>1. call' = [call EXCEPT ![p].expected = service.selected, ![p].running = (task = "RUNNING"),
                             ![p].of = of, ![p].step = step]
    BY <1>7 DEF _snapshot
  <2>2. step = "pend" \/ (step = "persist" /\ Known(cycle.account))
    BY <1>0 DEF NoRound
  <2> HIDE DEF of, step
  <2>3. call'[p].step = step /\ call'[p].seen = call[p].seen
    BY <1>0, <2>1 DEF StateTyped, CallState
  <2>4. \A q \in Processes : q # p => call'[q] = call[q]
    BY <2>1 DEF StateTyped
  <2>5. Known(cycle'.account) <=> Known(cycle.account)
    BY <1>1
  <2> QED BY <1>0, <2>2, <2>3, <2>4, <2>5 DEF Kept, Commits, Reconciled
<1>8. CASE _persist_identity(p)
  <2>1. Reconciled(call[p])
    BY <1>8 DEF _persist_identity, Is, Reconciled
  <2> QED BY <1>3, <1>4, <1>8, <2>1 DEF _persist_identity
<1>9. CASE EnableReads(p) \/ enable_latch(p)
  <2>1. call[p].step \in {"enableRead", "enable"}
    BY <1>9 DEF EnableReads, enable_latch, Is
  <2>2. Reconciled(call[p]) \/ call[p].job = "open"
    BY <2>1 DEF Reconciled
  <2>3. CASE Goto(p, "enable")
    BY <1>3, <2>2, <2>3
  <2>4. CASE Finish(p, AfterSuccess)
    BY <1>0, <2>1, <2>4, FinishCall, SuccessKept
  <2> QED BY <1>9, <2>3, <2>4 DEF EnableReads, enable_latch
<1>10. CASE _disable_after_failure(p) \/ Pend(p) \/ KeepPrevious(p) \/ _restore_gateway(p)
  BY <1>3, <1>4, <1>10 DEF _disable_after_failure, Pend, KeepPrevious, _restore_gateway
<1> QED BY <1>5, <1>6, <1>7, <1>8, <1>9, <1>10 DEF Reconciles

LEMMA ResetEvidence ==
  ASSUME StateTyped, TurnsInv, OrderTyped, EvidenceInv, NEW p \in Processes, ResetsRound(p)
  PROVE  EvidenceInv'
<1>0. call[p] \in CallState /\ Known(call[p].seen) /\ Known(None)
  BY DEF StateTyped, EvidenceInv, AccountsKnown, Known
<1>1. ASSUME platform' = platform, cycle' = cycle, asked' = asked,
             \A q \in Processes : q # p => call'[q] = call[q], Harmless(call'[p])
      PROVE  EvidenceInv'
  BY <1>1, EvidenceCalm, OthersKept, HarmlessKept
<1>2. ASSUME platform' = platform, cycle' = cycle, asked' = Without(p), Raise(p)
      PROVE  EvidenceInv'
  <2>1. Harmless(call'[p]) /\ \A q \in Processes : q # p => call'[q] = call[q]
    BY <1>2, RaiseHarmless
  <2>2. \A q \in Processes : Kept(call[q], call'[q])
    BY <2>1, OthersKept, HarmlessKept
  <2> QED BY <1>2, <2>1, <2>2, EvidenceDropped DEF Harmless
<1>3. CASE _read_plan(p)
  <2>1. platform' = platform /\ cycle' = cycle /\ asked' = asked
    BY <1>3 DEF _read_plan, rows
  <2>2. CASE call' = [call EXCEPT ![p].plan = Seen, ![p].step = "evidence"]
    <3>1. call'[p].step = "evidence" /\ call'[p].seen = call[p].seen
      BY <1>0, <2>2 DEF StateTyped, CallState
    <3>2. \A q \in Processes : q # p => call'[q] = call[q]
      BY <2>2 DEF StateTyped
    <3>3. Harmless(call'[p])
      BY <1>0, <3>1 DEF Harmless, Holds, Commits, Reconciled
    <3> QED BY <1>1, <2>1, <3>2, <3>3
  <2>3. CASE Raise(p)
    BY <1>1, <2>1, <2>3, RaiseHarmless
  <2> QED BY <1>3, <2>2, <2>3 DEF _read_plan
<1>4. CASE Refuses(p)
  BY <1>2, <1>4 DEF Refuses, rows
<1>5. CASE Evidence(p)
  <2> DEFINE next == IF platform.account = Target(p) /\ client.account = Target(p)
                     THEN [call EXCEPT ![p].step = IF Is(p, "evidence") THEN "final" ELSE "lockState"]
                     ELSE Raised(p)
  <2>1. platform' = platform /\ cycle' = cycle /\ Asks(p, next)
    BY <1>5 DEF Evidence, rows
  <2>2. CASE call' = Raised(p)
    <3>1. Harmless(call'[p]) /\ \A q \in Processes : q # p => call'[q] = call[q]
      BY <2>2, RaiseHarmless DEF Raise
    <3>2. asked' = asked
      BY <1>5, <3>1 DEF Evidence, Harmless, Holds, Commits
    <3> QED BY <1>1, <2>1, <3>1, <3>2
  <2>3. CASE /\ platform.account = Target(p) /\ Is(p, "evidence") /\ Goto(p, "final")
    <3>1. call'[p].step = "final" /\ call'[p].seen = call[p].seen
          /\ \A q \in Processes : q # p => call'[q] = call[q]
      BY <2>3, GotoCall
    <3>2. Harmless(call'[p]) /\ asked' = asked
      BY <1>0, <1>5, <3>1 DEF Evidence, Harmless, Holds, Commits, Reconciled
    <3> QED BY <1>1, <2>1, <3>1, <3>2
  <2>4. CASE platform.account = Target(p) /\ Goto(p, "lockState")
    <3>1. /\ call'[p].step = "lockState" /\ call'[p].seen = call[p].seen
          /\ call'[p].job = call[p].job /\ call'[p].plan = call[p].plan
          /\ \A q \in Processes : q # p => call'[q] = call[q]
      BY <2>4, GotoCall
    <3>2. asked' = AskedAgain(p)
      BY <1>5, <3>1 DEF Evidence
    <3>3. Holds(call'[p]) /\ Evidenced(call'[p]) = platform.account
      BY <2>4, <3>1 DEF Holds, Commits, Evidenced, TargetOf, Target
    <3>4. Known(call'[p].seen) /\ ~Reconciled(call'[p])
      BY <1>0, <3>1 DEF Reconciled
    <3> QED BY <2>1, <3>1, <3>2, <3>3, <3>4, EvidenceAsked
  <2>5. CASE call' # next
    <3> HIDE DEF next
    <3>1. Harmless(call'[p]) /\ \A q \in Processes : q # p => call'[q] = call[q]
      BY <2>1, <2>5, AsksHarmless
    <3>2. asked' = asked
      BY <1>5, <3>1 DEF Evidence, Harmless, Holds, Commits
    <3> QED BY <1>1, <2>1, <3>1, <3>2
  <2> QED BY <2>2, <2>3, <2>4, <2>5 DEF Goto
<1>6. CASE LockState(p)
  <2>1. /\ call'[p].step = "resetCommit" /\ call'[p].seen = call[p].seen
        /\ call'[p].job = call[p].job /\ call'[p].plan = call[p].plan
        /\ \A q \in Processes : q # p => call'[q] = call[q]
    BY <1>6, GotoCall DEF LockState
  <2>2. Kept(call[p], call'[p])
    BY <1>0, <1>6, <2>1 DEF LockState, Is, Kept, Commits, TargetOf, Reconciled
  <2> QED BY <1>6, <2>1, <2>2, EvidenceCalm, OthersKept DEF LockState, rows
<1>7. CASE _commit_reset(p)
  <2>1. CASE Raise(p) /\ asked' = Without(p) /\ UNCHANGED <<service, cycle>>
    BY <1>2, <1>7, <2>1 DEF _commit_reset
  <2>2. CASE ~(Raise(p) /\ asked' = Without(p) /\ UNCHANGED <<service, cycle>>)
    <3>1. /\ platform' = platform /\ cycle' = NewRound(Target(p)) /\ asked' = Newer(p)
          /\ call' = [q \in Processes |->
                        IF q # p THEN Touched(q)
                        ELSE IF turn # p THEN Quiet
                        ELSE [call[p] EXCEPT !.step = "enableRead", !.plan = Stale]]
      BY <1>7, <2>2 DEF _commit_reset
    <3>2. /\ Holds(call[p]) /\ Commits(call[p])
          /\ Target(p) = TargetOf(call[p]) /\ Target(p) = Evidenced(call[p])
      BY <1>7 DEF _commit_reset, Is, Holds, Commits, Evidenced, TargetOf, Target
    <3>3. cycle'.account = Target(p) /\ cycle'.status = "VERIFIED" /\ Known(Target(p))
      BY <3>1, <3>2 DEF NewRound, EvidenceInv, AccountsKnown
    <3>4. /\ Asked' = Later(p) /\ Asked' \subseteq Asked
          /\ \A q \in Processes : q # p => Later(q)' \subseteq Later(q)
      BY <3>1, NewerLater
    <3>5. Known(call'[p].seen) /\ ~Holds(call'[p])
      <4>1. CASE call'[p] = Quiet
        BY <4>1, OutcomesHarmless DEF Harmless
      <4>2. CASE call'[p] = [call[p] EXCEPT !.step = "enableRead", !.plan = Stale]
        <5>1. call'[p].step = "enableRead" /\ call'[p].seen = call[p].seen
          BY <1>0, <4>2 DEF CallState
        <5> QED BY <1>0, <5>1 DEF Holds, Commits
      <4> QED BY <3>1, <4>1, <4>2
    <3>6. Kept(call[p], call'[p])
      BY <3>3, <3>5 DEF Kept, Holds, Commits
    <3>7. \A q \in Processes : Kept(call[q], call'[q])
      BY <3>1, <3>6, OthersKept
    <3>8. Fresh /\ cycle'.account = platform.account => \A q \in Asked' : Agrees(q)
      BY <3>2, <3>3, <3>4 DEF EvidenceInv, LaterAgrees
    <3> QED BY <3>1, <3>3, <3>4, <3>5, <3>7, <3>8, EvidenceKept
  <2> QED BY <2>1, <2>2
<1> QED BY <1>3, <1>4, <1>5, <1>6, <1>7 DEF ResetsRound

LEMMA CommandEvidence ==
  ASSUME StateTyped, TurnsInv, OrderTyped, EvidenceInv, NEW p \in Processes,
         \/ Sync(p) \/ sync(p) \/ LockTask(p) \/ start(p) \/ stop(p) \/ ForceLocks(p) \/ force_stop(p)
  PROVE  EvidenceInv'
<1>0. call[p] \in CallState /\ Known(call[p].seen) /\ Known(platform.account) /\ Shaped(call[p])
  BY DEF StateTyped, EvidenceInv, AccountsKnown, Known, TurnsInv
<1>1. ASSUME platform' = platform, cycle' = cycle, asked' = asked,
             \A q \in Processes : q # p => call'[q] \in {call[q], Touched(q)}, Harmless(call'[p])
      PROVE  EvidenceInv'
  BY <1>1, EvidenceCalm, OthersKept, HarmlessKept
<1>2. CASE Sync(p)
  <2> DEFINE next == [call EXCEPT ![p].seen = platform.account, ![p].step = "syncCommit"]
  <2>1. platform' = platform /\ cycle' = cycle /\ Asks(p, next) /\ Is(p, "sync")
    BY <1>2 DEF Sync, rows
  <2>2. CASE call' = next
    <3>1. call'[p].step = "syncCommit" /\ call'[p].seen = platform.account
      BY <1>0, <2>2 DEF StateTyped, CallState
    <3>2. \A q \in Processes : q # p => call'[q] = call[q]
      BY <2>2 DEF StateTyped
    <3>3. asked' = AskedAgain(p)
      BY <1>2, <3>1 DEF Sync
    <3>4. Holds(call'[p]) /\ Evidenced(call'[p]) = platform.account /\ Reconciled(call[p])
      BY <2>1, <3>1 DEF Holds, Evidenced, Reconciled, Is
    <3> HIDE DEF next
    <3> QED BY <1>0, <2>1, <3>1, <3>2, <3>3, <3>4, EvidenceAsked
  <2>3. CASE call' # next
    <3> HIDE DEF next
    <3>1. Harmless(call'[p]) /\ \A q \in Processes : q # p => call'[q] = call[q]
      BY <2>1, <2>3, AsksHarmless
    <3>2. asked' = asked
      BY <1>2, <3>1 DEF Sync, Harmless, Holds
    <3> QED BY <1>1, <2>1, <3>1, <3>2
  <2> QED BY <2>2, <2>3
<1>3. CASE sync(p)
  <2>1. Is(p, "syncCommit") /\ platform' = platform
    BY <1>3 DEF sync, Store
  <2>2. Holds(call[p]) /\ Evidenced(call[p]) = call[p].seen /\ Reconciled(call[p])
    BY <2>1 DEF Is, Holds, Evidenced, Reconciled
  <2>3. Harmless(AfterSync(p))
    <3>1. Harmless(At("tick", "act")) /\ Harmless(Quiet)
      BY OutcomesHarmless DEF Phases, Steps
    <3> QED BY <3>1 DEF AfterSync
  <2>4. /\ call'[p] = AfterSync(p)
        /\ \A q \in Processes : q # p => call'[q] \in {call[q], Touched(q)}
    BY <1>3 DEF sync, Store
  <2>5. CASE p \notin Asked
    <3>1. cycle' = cycle /\ asked' = asked
      BY <1>3, <2>5 DEF sync, Store
    <3> QED BY <1>1, <2>1, <2>3, <2>4, <3>1
  <2>6. CASE p \in Asked
    <3>1. asked' = Newer(p) /\ cycle' = Reviewed(p)
      BY <1>3, <2>6 DEF sync, Store
    <3>2. /\ Asked' = Later(p) /\ Asked' \subseteq Asked
          /\ \A q \in Processes : q # p => Later(q)' \subseteq Later(q)
      BY <3>1, NewerLater
    <3>3. \A q \in Processes : Kept(call[q], call'[q])
      BY <2>3, <2>4, OthersKept, HarmlessKept
    <3>4. ~Holds(call'[p])
      BY <2>3, <2>4 DEF Harmless
    <3>5. Known(cycle.account)
      BY <2>2 DEF EvidenceInv, FirstRoundStays
    <3>6. CASE OpensRound
      <4>1. cycle'.account = call[p].seen /\ cycle'.status = "VERIFIED"
        BY <3>1, <3>6 DEF Reviewed, NewRound
      <4>2. Fresh /\ cycle'.account = platform.account => \A q \in Asked' : Agrees(q)
        BY <2>2, <3>2, <4>1 DEF EvidenceInv, LaterAgrees
      <4> QED BY <1>0, <2>1, <3>2, <3>3, <3>4, <4>1, <4>2, EvidenceKept
    <3>7. CASE ~OpensRound
      <4>1. cycle \in Round
        BY <3>7 DEF OpensRound, StateTyped
      <4>2. /\ cycle'.account = cycle.account
            /\ cycle.account = call[p].seen => cycle'.status = "VERIFIED"
        BY <3>1, <3>7, <4>1 DEF Reviewed, Round
      <4>3. ASSUME Fresh, cycle'.account = platform.account
            PROVE  cycle'.status = "VERIFIED" /\ \A q \in Asked' : Agrees(q)
        <5>1. \A q \in Asked : Agrees(q)
          BY <4>2, <4>3 DEF EvidenceInv, StoredAgrees
        <5>2. call[p].seen = platform.account
          BY <2>1, <2>6, <5>1 DEF Agrees
        <5> QED BY <3>2, <4>2, <4>3, <5>1, <5>2
      <4>4. Known(cycle'.account)
        BY <3>5, <4>2
      <4> QED BY <2>1, <3>2, <3>3, <3>4, <4>3, <4>4, EvidenceKept
    <3> QED BY <3>6, <3>7
  <2> QED BY <2>5, <2>6
<1>4. CASE LockTask(p) \/ ForceLocks(p)
  <2>1. PICK step \in {"taskCommit", "forceCommit"} : Goto(p, step)
    BY <1>4 DEF LockTask, ForceLocks
  <2>2. /\ call'[p].step = step /\ call'[p].seen = call[p].seen
        /\ \A q \in Processes : q # p => call'[q] = call[q]
    BY <2>1, GotoCall
  <2>3. Harmless(call'[p])
    BY <1>0, <2>2 DEF Harmless, Holds, Commits, Reconciled
  <2> QED BY <1>1, <1>4, <2>2, <2>3 DEF LockTask, ForceLocks, rows
<1>5. CASE start(p) \/ stop(p)
  <2>1. PICK status \in {"RUNNING", "STOPPED"} : Settle(p, status)
    BY <1>5 DEF start, stop
  <2> QED BY <1>1, <2>1, OutcomesHarmless DEF Settle
<1>6. CASE force_stop(p)
  <2>1. Harmless(AfterForce(p))
    <3>1. Alerts(p) => call[p].back \in {"failed", "undo", "raised"}
      BY <1>0, <1>6 DEF force_stop, Is, Shaped, Forced, Alerts
    <3> QED BY <3>1, HandledHarmless, OutcomesHarmless DEF AfterForce
  <2> QED BY <1>1, <1>6, <2>1 DEF force_stop
<1> QED BY <1>2, <1>3, <1>4, <1>5, <1>6

LEMMA LoopEvidence ==
  ASSUME StateTyped, TurnsInv, OrderTyped, EvidenceInv,
         \/ Boots \/ disable \/ Wakes \/ Acts \/ Aborts
         \/ \E p \in Commands, job \in DOMAIN FirstStep : Begin(p, job)
  PROVE  EvidenceInv'
<1> USE ConstantFacts
<1>1. ASSUME NEW p \in Processes, platform' = platform, cycle' = cycle, asked' = asked,
             \A q \in Processes : q # p => call'[q] = call[q], Harmless(call'[p])
      PROVE  EvidenceInv'
  BY <1>1, EvidenceCalm, OthersKept, HarmlessKept
<1>2. ASSUME NEW p \in Processes, NEW d, platform' = platform, cycle' = cycle, asked' = asked,
             call' = [call EXCEPT ![p] = d], Harmless(d)
      PROVE  EvidenceInv'
  <2>1. call'[p] = d /\ \A q \in Processes : q # p => call'[q] = call[q]
    BY <1>2 DEF StateTyped
  <2> QED BY <1>1, <1>2, <2>1
<1>3. CASE Boots \/ disable
  <2>1. PICK job \in {"boot", "resume"} : call' = [call EXCEPT ![Loop] = At(job, "reconcile")]
    BY <1>3 DEF Boots, disable
  <2>2. Harmless(At(job, "reconcile"))
    BY OutcomesHarmless DEF Phases, Steps
  <2> QED BY <1>2, <1>3, <2>1, <2>2 DEF Boots, disable, rows
<1>4. CASE Wakes
  <2>1. Goto(Loop, "reconcile") /\ Known(call[Loop].seen)
    BY <1>4 DEF Wakes, EvidenceInv, AccountsKnown
  <2>2. Harmless(call'[Loop]) /\ \A q \in Processes : q # Loop => call'[q] = call[q]
    BY <2>1, GotoCall DEF Harmless, Holds, Commits, Reconciled
  <2> QED BY <1>1, <1>4, <2>2 DEF Wakes, rows
<1>5. CASE Acts
  <2> DEFINE next == [call EXCEPT ![Loop] = At("tick", "sleep")]
  <2>1. Asks(Loop, next) /\ platform' = platform /\ cycle' = cycle /\ asked' = asked
    BY <1>5 DEF Acts, rows
  <2>2. CASE call' = next
    <3>1. Harmless(At("tick", "sleep"))
      BY OutcomesHarmless DEF Phases, Steps
    <3> QED BY <1>2, <2>1, <2>2, <3>1
  <2>3. CASE call' # next
    <3> HIDE DEF next
    <3> QED BY <1>1, <2>1, <2>3, AsksHarmless
  <2> QED BY <2>2, <2>3
<1>6. CASE Aborts
  <2>1. lock.state \in Processes /\ lock.task \in Processes
    BY <1>6 DEF Aborts, AbortsForce, AbortsReset, AbortsCommand, Deadlock, StateTyped
  <2>2. CASE AbortsForce
    <3>1. Shaped(call[lock.state]) /\ Is(lock.state, "forceCommit")
      BY <2>1, <2>2 DEF AbortsForce, TurnsInv
    <3>2. Alerts(lock.state) => call[lock.state].back \in {"failed", "undo", "raised"}
      BY <3>1 DEF Is, Shaped, Forced, Alerts
    <3>3. Harmless(AfterForce(lock.state))
      BY <2>1, <3>2, HandledHarmless, OutcomesHarmless DEF AfterForce
    <3> QED BY <1>2, <2>1, <2>2, <3>3 DEF AbortsForce, rows
  <2>3. CASE AbortsReset
    <3>1. PICK p \in Processes : p = lock.state
      BY <2>1
    <3>2. Raise(p) /\ asked' = Without(p) /\ platform' = platform /\ cycle' = cycle
      BY <2>3, <3>1 DEF AbortsReset, rows
    <3>3. Harmless(call'[p]) /\ \A q \in Processes : q # p => call'[q] = call[q]
      BY <3>2, RaiseHarmless
    <3>4. \A q \in Processes : Kept(call[q], call'[q])
      BY <3>3, OthersKept, HarmlessKept
    <3> QED BY <3>2, <3>3, <3>4, EvidenceDropped DEF Harmless
  <2>4. CASE AbortsCommand
    BY <1>2, <2>1, <2>4, OutcomesHarmless DEF AbortsCommand, rows
  <2> QED BY <1>6, <2>2, <2>3, <2>4 DEF Aborts
<1>7. CASE \E p \in Commands, job \in DOMAIN FirstStep : Begin(p, job)
  <2>1. PICK p \in Commands, job \in DOMAIN FirstStep : Begin(p, job)
    BY <1>7
  <2>2. Harmless(At(job, FirstStep[job]))
    <3>1. /\ job \in Phases /\ FirstStep[job] \in Steps
          /\ FirstStep[job] \in {"reconcile", "lockTask", "plan"}
      BY DEF FirstStep, Phases, Jobs, Steps, PlanSteps
    <3> QED BY <3>1, OutcomesHarmless
  <2>3. p \in Processes
    OBVIOUS
  <2> QED BY <1>2, <2>1, <2>2, <2>3 DEF Begin, rows
<1> QED BY <1>3, <1>4, <1>5, <1>6, <1>7

\* Another account makes what was live known, and no round of it is there unless it is
\* the first one, which nobody has touched.
LEMMA ReplaceEvidence ==
  ASSUME StateTyped, OrderTyped, EvidenceInv, NEW account \in Accounts, Replace(account)
  PROVE  EvidenceInv'
<1>1. /\ platform'.account = account /\ platform'.former = platform.former \cup {platform.account}
      /\ UNCHANGED <<cycle, asked, call>> /\ account # platform.account
  BY DEF Replace, rows
<1>2. \A a : Known(a) => Known(a)'
  BY <1>1 DEF Known
<1>3. Fresh' => ~Known(account)
  BY <1>1, NoneAssumption DEF Fresh, Known
<1>4. AccountsKnown'
  BY <1>1, <1>2 DEF EvidenceInv, AccountsKnown, Commits, TargetOf
<1>5. FirstRoundStays'
  BY <1>1, <1>2 DEF EvidenceInv, FirstRoundStays, Reconciled
<1>6. LaterAgrees'
  <2>1. ASSUME Fresh', NEW p \in Processes, Holds(call[p]), Evidenced(call[p]) = account
        PROVE  FALSE
    BY <1>3, <2>1 DEF EvidenceInv, AccountsKnown, Holds, Evidenced
  <2> QED BY <1>1, <2>1 DEF LaterAgrees, Holds, Commits, Evidenced, TargetOf
<1>7. StoredAgrees'
  <2>1. ASSUME Fresh', cycle.account = account
        PROVE  cycle.status = "VERIFIED" /\ \A q \in Asked : Agrees(q)'
    <3>1. cycle.status = "VERIFIED" /\ \A q \in Processes : ~Reconciled(call[q])
      BY <1>3, <2>1 DEF EvidenceInv, FirstRoundStays
    <3>2. \A q \in Asked : ~Is(q, "syncCommit")
      BY <3>1 DEF Is, Reconciled, OrderTyped
    <3> QED BY <1>1, <3>1, <3>2 DEF Agrees, Is
  <2> QED BY <1>1, <2>1 DEF StoredAgrees, Asked
<1> QED BY <1>4, <1>5, <1>6, <1>7 DEF EvidenceInv

LEMMA OutsideEvidence ==
  ASSUME StateTyped, OrderTyped, EvidenceInv,
         \/ \E account \in Accounts : Replace(account)
         \/ RoundEnds \/ authenticate \/ Restart
  PROVE  EvidenceInv'
<1>1. CASE \E account \in Accounts : Replace(account)
  BY <1>1, ReplaceEvidence
<1>2. CASE RoundEnds
  <2>1. /\ platform' = platform /\ asked' = asked
        /\ \A q \in Processes : call'[q] \in {call[q], Touched(q)}
    BY <1>2 DEF RoundEnds
  <2>2. cycle'.account = cycle.account /\ cycle'.status = cycle.status
    BY <1>2 DEF RoundEnds, StateTyped, Round
  <2>3. \A q \in Processes : Kept(call[q], call'[q])
    BY <2>1, SameKept, TouchedKept
  <2> QED BY <2>1, <2>2, <2>3, EvidenceCalm
<1>3. CASE authenticate
  BY <1>3, SameKept, EvidenceCalm DEF authenticate, rows
<1>4. CASE Restart
  <2>1. platform' = platform /\ cycle' = cycle /\ asked' = {} /\ call' = Idle
    BY <1>4 DEF Restart, StartsUp
  <2>2. Harmless(Quiet) /\ Harmless(At("boot", "idle"))
    BY OutcomesHarmless DEF Phases, Steps
  <2>3. \A q \in Processes : Kept(call[q], call'[q])
    BY <2>1, <2>2, HarmlessKept DEF Idle
  <2>4. Asked' = {} /\ \A q : Later(q)' = {}
    BY <2>1, NobodyAsked DEF Later
  <2> QED BY <2>1, <2>3, <2>4, EvidenceKept DEF EvidenceInv, FirstRoundStays, StoredAgrees
<1> QED BY <1>1, <1>2, <1>3, <1>4

LEMMA NextEvidence ==
  ASSUME StateTyped, TurnsInv, OrderTyped, EvidenceInv, [Next]_vars
  PROVE  EvidenceInv'
<1>1. CASE UNCHANGED vars
  BY <1>1, SameKept, EvidenceCalm DEF vars, rows
<1>2. ASSUME NEW p \in Processes, Proceeds(p)
      PROVE  EvidenceInv'
  BY <1>2, ReconcileEvidence, ResetEvidence, CommandEvidence DEF Proceeds
<1>3. CASE Next
  BY <1>2, <1>3, OutsideEvidence, LoopEvidence, ConstantFacts DEF Next, Loops
<1> QED BY <1>1, <1>3

LEMMA InitEvidence == Init => EvidenceInv
<1> SUFFICES ASSUME Init PROVE EvidenceInv
  OBVIOUS
<1>1. \A p \in Processes : call[p].seen = None /\ call[p].step = "idle"
  BY DEF Init, Idle, At, Quiet
<1>2. asked = {} /\ (cycle.account = None \/ cycle.status = "VERIFIED")
  BY DEF Init, NoRound, NewRound
<1>3. AccountsKnown
  BY <1>1 DEF AccountsKnown, Known, Commits
<1>4. FirstRoundStays
  BY <1>1, <1>2 DEF FirstRoundStays, Known, Reconciled
<1>5. LaterAgrees
  BY <1>1 DEF LaterAgrees, Holds, Commits
<1>6. StoredAgrees
  <2>1. platform.account # None
    BY NoneAssumption DEF Init
  <2>2. Asked = {}
    BY DEF Init, Asked
  <2> QED BY <1>2, <2>1, <2>2 DEF StoredAgrees
<1> QED BY <1>3, <1>4, <1>5, <1>6 DEF EvidenceInv

-----------------------------------------------------------------------------
(* Theorems. *)

\* The rows, the locks, the turn, the order of the evidence and every call keep their
\* types in any interleaving.
THEOREM ControlTyped == Spec => []TypeOK
<1>1. Init => OrderTyped /\ CountTyped
  BY InitOrder
<1>2. ControlInv /\ OrderTyped /\ CountTyped /\ [Next]_vars => OrderTyped' /\ CountTyped'
  BY NextOrder, NextCount DEF ControlInv
<1>3. ControlInv /\ OrderTyped /\ CountTyped => TypeOK
  BY DEF ControlInv, StateTyped, OrderTyped, CountTyped, TypeOK
<1> QED BY <1>1, <1>2, <1>3, ControlInvariant, PTL DEF Spec

\* Evidence that was asked for before the platform replaced the account, and is stored
\* after the round of the new account (device_cycle.py:98), does not send that round to review.
THEOREM NewRoundsStayVerified == Spec => []CurrentIsVerified
<1>1. Init => OrderTyped /\ EvidenceInv
  BY InitOrder, InitEvidence
<1>2. ControlInv /\ OrderTyped /\ EvidenceInv /\ [Next]_vars => OrderTyped' /\ EvidenceInv'
  BY NextOrder, NextEvidence DEF ControlInv
<1>3. EvidenceInv => CurrentIsVerified
  BY DEF EvidenceInv, StoredAgrees, Fresh, CurrentIsVerified
<1> QED BY <1>1, <1>2, <1>3, ControlInvariant, PTL DEF Spec
=============================================================================
