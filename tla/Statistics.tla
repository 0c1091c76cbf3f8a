------------------------------- MODULE Statistics -------------------------------
(***************************************************************************)
(* The background loop: started and stopped by /startstats and /stopstats, *)
(* it syncs the round in every tick, estimates what the whole account may  *)
(* spend (the estimate of a round sets the limit of the next one), and     *)
(* delivers the queued notices about replaced accounts.                    *)
(*                                                                         *)
(* The platform shows a stored snapshot of the account; requests to renew  *)
(* it are claimed in the database so that they stay rare.  An estimate is  *)
(* made of a round, a snapshot and the ledgers, read one after the other   *)
(* while /auth syncs the round and a reset replaces it.  A notice is       *)
(* claimed with a lease, sent, and marked afterwards.                      *)
(*                                                                         *)
(* A process is a loop or a command; an action is a transaction, a request *)
(* with its answer, or what runs between two awaits.  Time is minutes;     *)
(* snapshots are numbered, and a round begins before a snapshot.           *)
(***************************************************************************)
EXTENDS Naturals

CONSTANTS
  Accounts,
  FirstAccount,      \* the live account at the start, one as good as another
  Loops,             \* incarnations of the background loop
  FirstLoop,
  Commands,          \* commands that run at a time
  None,              \* SQL NULL, nobody
  Window,            \* minutes of a window of the platform
  Cooldown,          \* minutes between two requests to renew the snapshot
  ExpiredCooldown,   \* the same when the snapshot is of a past window
  Lease,             \* minutes a claimed notice is left alone
  MaxNotices,        \* bound: notices queued
  Bounds             \* bound: how many events of each kind meet in a behaviour

ASSUME NoneAssumption == None \notin Accounts \cup Loops \cup Commands
ASSUME AccountAssumption == FirstAccount \in Accounts
ASSUME LoopAssumption == FirstLoop \in Loops /\ Loops \cap Commands = {}
ASSUME TimeAssumption ==
  /\ Window \in Nat \ {0, 1} /\ {Lease, MaxNotices} \subseteq Nat \ {0}
  /\ ExpiredCooldown \in Nat \ {0} /\ Cooldown \in Nat /\ ExpiredCooldown <= Cooldown
ASSUME BoundsAssumption ==
  /\ Bounds # {}
  /\ Bounds \subseteq [changes : Nat, falls : Nat, uses : Nat, snapshots : Nat,
                       windows : Nat, faults : Nat, switches : Nat, commands : Nat]

VARIABLES
  clock,      \* number of the window, minutes left of it, its first snapshot
  platform,   \* live account, percent of the window used, stored snapshot
  round,      \* the latest DeviceQuotaCycle with its estimate
  asked,      \* whose evidence of the round is newer than what was last stored
  refresh,    \* the claim of the snapshot's renewal
  on,         \* ServiceState.sync_enabled
  jobs,       \* _task and _quota_stop of BackgroundJobs
  notice,     \* DeviceAccountNotification rows
  told,       \* history: copies of a notice that arrived, attempts of unknown outcome
  call,       \* where loops and commands stand
  count       \* how often each bounded event happened

vars == <<clock, platform, round, asked, refresh, on, jobs, notice, told, call, count>>

-----------------------------------------------------------------------------

Processes == Loops \cup Commands
Notices == 1 .. MaxNotices

Snapshot == [account : Accounts, window : Nat, percent : Nat, at : Nat]
NoSnapshot == [account |-> None, window |-> 0, percent |-> 0, at |-> 0]

\* No percent is as good as 0.
Estimate == [id : Nat, account : Accounts, window : Nat, at : Nat, percent : Nat]
Round == [id : Nat \ {0}, window : Nat, account : Accounts, started : Nat,
          status : {"VERIFIED", "NEEDS_REVIEW"}, percent : Nat, blocked : BOOLEAN,
          estimate : Estimate \cup {NoSnapshot}]
NoRound == [id |-> 0, window |-> 0, account |-> None, started |-> 0, status |-> "NONE",
            percent |-> 0, blocked |-> FALSE, estimate |-> NoSnapshot]
NewRound(snapshot, started) ==
  [id |-> round.id + 1, window |-> snapshot.window, account |-> snapshot.account,
   started |-> started, status |-> "VERIFIED", percent |-> snapshot.percent,
   blocked |-> FALSE, estimate |-> NoSnapshot]

\* What an estimate remembers of the round.
IdentityOf(r) == [r EXCEPT !.percent = 0, !.estimate = NoSnapshot]
Current == IF round.window = clock.window THEN IdentityOf(round) ELSE NoRound

Row == [status : {"NONE", "PENDING", "SENT"},
        key : {<<>>} \cup ({"reset", "failed"} \X Nat \X Accounts),
        attempt : Nat, retry : 0 .. Lease]
NoRow == [status |-> "NONE", key |-> <<>>, attempt |-> 0, retry |-> 0]

Switches == {"startstats", "starttask", "stopstats"}
Operations == Switches \cup {"auth", "reset", "replace"}
Requests == {"fetch", "request", "refetch", "usage"}
Delivering == {"list", "claim notice", "send", "finish"}
Steps == Requests \cup Delivering \cup
  {"idle", "check", "tick", "claim", "store", "before", "local", "record", "wait",
   "switch", "read", "launch", "signal", "await", "clear", "reset", "alert"}

\* seen: the last answer; cut: the first snapshot of the new round; cycle: the round of
\* the plan or of the last sync; before, local: the round before and after the request;
\* good: it can be estimated, or an answer was good; loop: whose end a stop waits for.
CallState == [job : Operations \cup {"none", "sync", "estimate", "deliver"}, step : Steps,
              seen : Snapshot \cup {NoSnapshot}, cut : Nat, cycle : Nat,
              before : Round \cup {NoRound}, local : Round \cup {NoRound}, good : BOOLEAN,
              todo : SUBSET Notices, attempt : Nat, loop : Loops \cup {None}, ends : BOOLEAN]
Quiet == [job |-> "none", step |-> "idle", seen |-> NoSnapshot, cut |-> 0, cycle |-> 0,
          before |-> NoRound, local |-> NoRound, good |-> FALSE, todo |-> {}, attempt |-> 0,
          loop |-> None, ends |-> FALSE]
At(job, step) == [Quiet EXCEPT !.job = job, !.step = step]

\* <<p, q>> is in asked if p has asked before q, or is q.
Asked == {pair[1] : pair \in asked}
InOrder ==
  /\ \A p \in Asked : <<p, p>> \in asked
  /\ \A p, q \in Asked : p # q => (<<p, q>> \in asked <=> <<q, p>> \notin asked)
  /\ \A p, q, r \in Asked : <<p, q>> \in asked /\ <<q, r>> \in asked => <<p, r>> \in asked

TypeOK ==
  /\ clock \in [window : Nat, left : 1 .. Window, first : Nat]
  /\ platform \in [account : Accounts, percent : Nat, snapshot : Snapshot]
  /\ round \in Round \cup {NoRound}
  /\ asked \subseteq Asked \X Asked /\ InOrder /\ Asked \subseteq Processes
  /\ refresh \in [age : 0 .. Cooldown, holder : Processes \cup {None}]
  /\ on \in BOOLEAN
  /\ jobs \in [task : Loops \cup {None}, stop : BOOLEAN]
  /\ notice \in [Notices -> Row]
  /\ told \in [Notices -> [copies : Nat, doubts : Nat]]
  /\ call \in [Processes -> CallState]
  /\ \E b \in Bounds : \A k \in DOMAIN b : count[k] \in 0 .. b[k]

Reaches(next) == \E b \in Bounds : \A k \in DOMAIN b : next[k] <= b[k]
More(kind) == [count EXCEPT ![kind] = @ + 1]
Happens(kind) == Reaches(More(kind)) /\ count' = More(kind)
Fault == Happens("faults")

Is(p, step) == call[p].step = step
Goto(p, step) == call' = [call EXCEPT ![p].step = step]
First(S) == CHOOSE n \in S : \A m \in S : n <= m
Alive(l) == ~Is(l, "idle")

\* The newest evidence of p; once evidence is stored, what was asked for before is dropped.
Remaining(S) == asked \cap (S \X S)
AskedAgain(p) == Remaining(Asked \ {p}) \cup ((Asked \cup {p}) \X {p})
Newer(p) == Remaining({q \in Asked : p \in Asked => q # p /\ <<p, q>> \in asked})

\* A process boots with the loop if the switch is on.
Boots == [p \in Processes |-> IF p = FirstLoop /\ on THEN At("none", "check") ELSE Quiet]

\* A notice may be left from before.
Init ==
  /\ clock = [window |-> 1, left |-> Window, first |-> 1]
  /\ platform = [account |-> FirstAccount, percent |-> 0,
                  snapshot |-> [account |-> FirstAccount, window |-> 1, percent |-> 0, at |-> 1]]
  /\ round \in {NoRound, [NoRound EXCEPT !.id = 1, !.window = 1, !.account = FirstAccount,
                                         !.started = 1, !.status = "VERIFIED"]}
  /\ asked = {}
  /\ refresh = [age |-> Cooldown, holder |-> None]
  /\ on \in BOOLEAN
  /\ jobs = [task |-> IF on THEN FirstLoop ELSE None, stop |-> FALSE]
  /\ \E left \in {NoRow, [NoRow EXCEPT !.status = "PENDING"]} :
       notice = [n \in Notices |-> IF n = 1 THEN left ELSE NoRow]
  /\ told = [n \in Notices |-> [copies |-> 0, doubts |-> 0]]
  /\ call = Boots
  /\ count = [changes |-> 0, falls |-> 0, uses |-> 0, snapshots |-> 0,
              windows |-> 0, faults |-> 0, switches |-> 0, commands |-> 0]

-----------------------------------------------------------------------------
(* The platform and time. *)

Uses ==
  /\ platform' = [platform EXCEPT !.percent = @ + 1]
  /\ Happens("uses")
  /\ UNCHANGED <<clock, round, asked, refresh, on, jobs, notice, told, call>>

\* The usage of the window is reset on the platform.
Falls ==
  /\ platform.percent > 0
  /\ platform' = [platform EXCEPT !.percent = 0]
  /\ Happens("falls")
  /\ UNCHANGED <<clock, round, asked, refresh, on, jobs, notice, told, call>>

Stored == [account |-> platform.account, window |-> clock.window,
           percent |-> platform.percent, at |-> platform.snapshot.at + 1]
Stores ==
  /\ platform' = [platform EXCEPT !.snapshot = Stored]
  /\ Happens("snapshots")
Snaps == Stores /\ UNCHANGED <<clock, round, asked, refresh, on, jobs, notice, told, call>>

Replace(account) ==
  /\ account # platform.account
  /\ platform' = [account |-> account, percent |-> 0,
                  snapshot |-> [Stored EXCEPT !.account = account, !.percent = 0]]
  /\ Happens("changes")
  /\ UNCHANGED <<clock, round, asked, refresh, on, jobs, notice, told, call>>

\* Seeded bug: a lease that has run out goes on running.
Due_RunsOn(row) == [row EXCEPT !.retry = IF row.status = "PENDING" THEN @ - 1 ELSE @]
Due(row) == [row EXCEPT !.retry = IF @ > 0 THEN @ - 1 ELSE 0]
Older(minutes) == IF minutes < Cooldown THEN minutes + 1 ELSE Cooldown

\* A notice is sent or given up within the minute (35 s) and marked at once; windows
\* beyond the bound do not pass.
Minute ==
  /\ \A l \in Loops : call[l].step \notin {"send", "finish"}
  /\ notice' = [n \in Notices |-> Due(notice[n])]
  /\ refresh' = [refresh EXCEPT !.age = Older(@)]
  /\ IF clock.left = Window /\ Reaches(More("windows"))
     THEN clock' = [clock EXCEPT !.left = @ - 1] /\ Happens("windows") /\ UNCHANGED platform
     ELSE IF clock.left = Window
     THEN UNCHANGED <<clock, platform, count>>
     ELSE IF clock.left > 1
     THEN clock' = [clock EXCEPT !.left = @ - 1] /\ UNCHANGED <<platform, count>>
     ELSE /\ clock' = [window |-> clock.window + 1, left |-> Window,
                       first |-> platform.snapshot.at + 1]
          /\ platform' = [platform EXCEPT !.percent = 0]
          /\ UNCHANGED count
  /\ UNCHANGED <<round, asked, on, jobs, told, call>>

-----------------------------------------------------------------------------
(* Requests: a failed one ends the command, or goes on with the delivery.   *)

Failed(p) ==
  IF p \in Loops THEN [At("deliver", "list") EXCEPT !.ends = call[p].ends]
  ELSE IF call[p].job = "replace" THEN [call[p] EXCEPT !.step = "alert"]
  ELSE Quiet
Fail(p) == call' = [call EXCEPT ![p] = Failed(p)]
Released(p) == [refresh EXCEPT !.holder = IF @ = p THEN None ELSE @]

RequestFails(p) ==
  /\ call[p].step \in Requests
  /\ Fail(p)
  /\ refresh' = Released(p)
  /\ Fault
  /\ UNCHANGED <<clock, platform, round, asked, on, jobs, notice, told>>

\* Evidence of the round: in the last minute of a window and after its end the
\* snapshot is renewed first.
Fetch(p) ==
  /\ Is(p, "fetch")
  /\ asked' = AskedAgain(p)
  /\ LET snapshot == platform.snapshot
     IN call' = [call EXCEPT ![p].seen = snapshot,
                   ![p].step = IF snapshot.window < clock.window \/ clock.left = 1
                               THEN "claim" ELSE "store"]
  /\ UNCHANGED <<clock, platform, round, refresh, on, jobs, notice, told, count>>

IsDue(p) ==
  LET expired == call[p].seen.window < clock.window
  IN CASE call[p].job \in {"reset", "replace"} -> TRUE
       [] call[p].job = "estimate" -> refresh.age = Cooldown
       [] OTHER -> \/ refresh.age >= (IF expired THEN ExpiredCooldown ELSE Cooldown)
                   \/ ~expired /\ clock.left = 1 /\ refresh.age >= 1

AfterRefresh(p) == IF call[p].job = "estimate" THEN "usage" ELSE "refetch"

\* The claim is committed before the request, which is made under the lock.
refresh_if_due(p) ==
  /\ Is(p, "claim") /\ refresh.holder = None
  /\ IF IsDue(p)
     THEN refresh' = [age |-> 0, holder |-> p] /\ Goto(p, "request")
     ELSE Goto(p, AfterRefresh(p)) /\ UNCHANGED refresh
  /\ UNCHANGED <<clock, platform, round, asked, on, jobs, notice, told, count>>

\* The answer does not say whether the snapshot is a new one.
Request(p) ==
  /\ Is(p, "request")
  /\ Stores \/ UNCHANGED <<platform, count>>
  /\ refresh' = Released(p)
  /\ Goto(p, AfterRefresh(p))
  /\ UNCHANGED <<clock, round, asked, on, jobs, notice, told>>

\* A reset insists on a snapshot of its target account in the new round.
Refetch(p) ==
  /\ Is(p, "refetch")
  /\ LET snapshot == platform.snapshot
         resets == call[p].job \in {"reset", "replace"}
     IN IF \/ snapshot.window < clock.window
           \/ resets /\ (snapshot.at < call[p].cut \/ snapshot.account # call[p].seen.account)
        THEN Fail(p) /\ UNCHANGED asked
        ELSE /\ call' = [call EXCEPT ![p].seen = snapshot,
                                     ![p].step = IF resets THEN "reset" ELSE "store"]
             /\ asked' = IF resets THEN AskedAgain(p) ELSE asked
  /\ UNCHANGED <<clock, platform, round, refresh, on, jobs, notice, told, count>>

-----------------------------------------------------------------------------
(* The round. *)

\* Another account than the round's, or another window before its end: in doubt, and
\* without an estimate from then on.
Doubted(percent) ==
  [round EXCEPT !.blocked = TRUE, !.status = "NEEDS_REVIEW", !.percent = percent]
Synced(snapshot) ==
  CASE snapshot.window > round.window -> NewRound(snapshot, clock.first)
    [] snapshot.window < round.window -> Doubted(0)
    [] snapshot.window = round.window /\ snapshot.account # round.account -> Doubted(round.percent)
    [] OTHER -> [round EXCEPT !.status = "VERIFIED", !.percent = snapshot.percent,
                              !.blocked = @ \/ snapshot.percent < round.percent]

sync(p) ==
  /\ Is(p, "store")
  /\ IF p \in Asked THEN round' = Synced(call[p].seen) /\ asked' = Newer(p)
     ELSE UNCHANGED <<round, asked>>
  /\ call' = [call EXCEPT ![p] = IF p \in Commands THEN Quiet
                                 ELSE [At("estimate", "before") EXCEPT !.cycle = round'.id,
                                                                       !.ends = call[p].ends]]
  /\ UNCHANGED <<clock, platform, refresh, on, jobs, notice, told, count>>

\* One notice for each key.
Queued(key) ==
  LET free == {n \in Notices : notice[n] = NoRow}
  IN IF free = {} \/ \E n \in Notices : notice[n].key = key THEN notice
     ELSE [notice EXCEPT ![First(free)] = [NoRow EXCEPT !.status = "PENDING", !.key = key]]

_commit_reset(p) ==
  /\ Is(p, "reset")
  /\ LET snapshot == call[p].seen
     IN IF round.id = call[p].cycle /\ snapshot.window = clock.window
        THEN /\ round' = NewRound(snapshot, call[p].cut)
             /\ notice' = IF snapshot.account = round.account THEN notice
                          ELSE Queued(<<"reset", round.id, snapshot.account>>)
             /\ asked' = Newer(p)
             /\ call' = [call EXCEPT ![p] = Quiet]
        ELSE Fail(p) /\ UNCHANGED <<round, notice, asked>>
  /\ UNCHANGED <<clock, platform, refresh, on, jobs, told, count>>

queue_reset_failure(p) ==
  /\ Is(p, "alert")
  /\ notice' = Queued(<<"failed", call[p].cycle, call[p].seen.account>>)
  /\ call' = [call EXCEPT ![p] = Quiet]
  /\ UNCHANGED <<clock, platform, round, asked, refresh, on, jobs, told, count>>

-----------------------------------------------------------------------------
(* The estimate: the round, the snapshot, round and ledgers, the transaction. *)

\* Samples that are still missing put the estimate off.
SamplesMissing(l) ==
  /\ Is(l, "before")
  /\ Fail(l)
  /\ UNCHANGED <<clock, platform, round, asked, refresh, on, jobs, notice, told, count>>

_current_cycle(l) ==
  /\ Is(l, "before")
  /\ call' = [call EXCEPT ![l].before = Current, ![l].step = "claim"]
  /\ UNCHANGED <<clock, platform, round, asked, refresh, on, jobs, notice, told, count>>

get_usage(l) ==
  /\ Is(l, "usage")
  /\ call' = [call EXCEPT ![l].seen = platform.snapshot, ![l].step = "local",
                          ![l].good = (platform.snapshot.window = clock.window)]
  /\ UNCHANGED <<clock, platform, round, asked, refresh, on, jobs, notice, told, count>>

\* The ledgers of the round are summed if it is still the one from before; without
\* consumption in the ledgers or in the snapshot there is nothing to divide.
_read_local(l) ==
  /\ Is(l, "local")
  /\ \E spent \in BOOLEAN :
       LET snapshot == call[l].seen
       IN call' = [call EXCEPT ![l].local = Current, ![l].step = "record",
            ![l].good = /\ @ /\ spent /\ snapshot.percent > 0
                        /\ Current = call[l].before /\ Current.status = "VERIFIED"
                        /\ ~Current.blocked
                        /\ snapshot.account = Current.account /\ snapshot.window = Current.window
                        /\ snapshot.at >= Current.started]
  /\ UNCHANGED <<clock, platform, round, asked, refresh, on, jobs, notice, told, count>>

\* Seeded bug: the round is not looked at again before the estimate is stored.
Recordable_Unchecked(l) == round.id # 0
\* The round is the one that was synced and read, as it was, and the snapshot is newer
\* than the last one that was used.
Recordable(l) ==
  /\ Current # NoRound /\ Current.id = call[l].cycle /\ Current.id = call[l].local.id
  /\ Current.status = "VERIFIED" /\ ~Current.blocked
  /\ Current.account = call[l].seen.account
  /\ call[l].seen.at >= Current.started /\ call[l].seen.at > round.estimate.at

\* A percent below an earlier one of the round blocks its estimate.
record_estimate(l) ==
  /\ Is(l, "record")
  /\ LET snapshot == call[l].seen
         fell == snapshot.percent < round.percent \/ snapshot.percent < round.estimate.percent
     IN round' = IF ~Recordable(l) THEN round
                 ELSE IF fell THEN [round EXCEPT !.blocked = TRUE]
                 ELSE IF call[l].good
                 THEN [round EXCEPT !.estimate =
                         [id |-> call[l].local.id, account |-> snapshot.account,
                          window |-> snapshot.window, at |-> snapshot.at,
                          percent |-> snapshot.percent]]
                 ELSE round
  /\ Fail(l)
  /\ UNCHANGED <<clock, platform, asked, refresh, on, jobs, notice, told, count>>

-----------------------------------------------------------------------------
(* Delivery: list, then claim, send and mark one notice after the other.    *)

Delivered(l) == IF call[l].ends THEN Quiet ELSE At("none", "wait")
Rest(l) == LET todo == call[l].todo \ {First(call[l].todo)}
           IN IF todo = {} THEN Delivered(l)
              ELSE [At("deliver", "claim notice") EXCEPT !.todo = todo, !.ends = call[l].ends]

\* Seeded bug: a notice that was attempted is not listed again.
Listed_FirstAttempt == {n \in Notices : notice[n].status = "PENDING" /\ notice[n].attempt = 0}
Listed == {n \in Notices : notice[n].status = "PENDING" /\ notice[n].retry = 0}

deliver_pending(l) ==
  /\ Is(l, "list")
  /\ call' = [call EXCEPT ![l] = IF Listed = {} THEN Delivered(l)
                                 ELSE [@ EXCEPT !.todo = Listed, !.step = "claim notice"]]
  /\ UNCHANGED <<clock, platform, round, asked, refresh, on, jobs, notice, told, count>>

\* Seeded bug: a claim does not put the next attempt off.
_claim_NoLease(l) ==
  /\ Is(l, "claim notice")
  /\ LET n == First(call[l].todo)
     IN IF n \in Listed
        THEN /\ notice' = [notice EXCEPT ![n].attempt = @ + 1]
             /\ call' = [call EXCEPT ![l].attempt = notice'[n].attempt, ![l].step = "send"]
        ELSE call' = [call EXCEPT ![l] = Rest(l)] /\ UNCHANGED notice
  /\ UNCHANGED <<clock, platform, round, asked, refresh, on, jobs, told, count>>

_claim(l) ==
  /\ Is(l, "claim notice")
  /\ LET n == First(call[l].todo)
     IN IF n \in Listed
        THEN /\ notice' = [notice EXCEPT ![n].attempt = @ + 1, ![n].retry = Lease]
             /\ call' = [call EXCEPT ![l].attempt = notice'[n].attempt, ![l].step = "send"]
        ELSE call' = [call EXCEPT ![l] = Rest(l)] /\ UNCHANGED notice
  /\ UNCHANGED <<clock, platform, round, asked, refresh, on, jobs, told, count>>

Send(l) ==
  /\ Is(l, "send")
  /\ told' = [told EXCEPT ![First(call[l].todo)].copies = @ + 1]
  /\ call' = [call EXCEPT ![l].good = TRUE, ![l].step = "finish"]
  /\ UNCHANGED <<clock, platform, round, asked, refresh, on, jobs, notice, count>>

\* Refused, or the answer is lost and nobody knows.
SendFails(l) ==
  /\ Is(l, "send")
  /\ \E copies \in {0, 1} :
       told' = [told EXCEPT ![First(call[l].todo)] =
                  [copies |-> @.copies + copies, doubts |-> @.doubts + copies]]
  /\ call' = [call EXCEPT ![l].good = FALSE, ![l].step = "finish"]
  /\ Fault
  /\ UNCHANGED <<clock, platform, round, asked, refresh, on, jobs, notice>>

\* Only the last attempt of a pending notice counts.
_finish(l) ==
  /\ Is(l, "finish")
  /\ LET n == First(call[l].todo)
     IN notice' = IF notice[n].status # "PENDING" \/ notice[n].attempt # call[l].attempt THEN notice
                  ELSE IF call[l].good
                  THEN [notice EXCEPT ![n].status = "SENT", ![n].retry = 0]
                  ELSE [notice EXCEPT ![n].retry = Lease]
  /\ call' = [call EXCEPT ![l] = Rest(l)]
  /\ UNCHANGED <<clock, platform, round, asked, refresh, on, jobs, told, count>>

-----------------------------------------------------------------------------
(* The loop and the commands that start and stop it. *)

Check(l) ==
  /\ Is(l, "check")
  /\ call' = [call EXCEPT ![l] = IF jobs.stop THEN Quiet ELSE At("none", "tick")]
  /\ UNCHANGED <<clock, platform, round, asked, refresh, on, jobs, notice, told, count>>

Tick(l) ==
  /\ Is(l, "tick")
  /\ call' = [call EXCEPT ![l] = IF on THEN At("sync", "fetch") ELSE At("none", "wait")]
  /\ UNCHANGED <<clock, platform, round, asked, refresh, on, jobs, notice, told, count>>

Wakes(l) ==
  /\ Is(l, "wait")
  /\ Goto(l, "check")
  /\ UNCHANGED <<clock, platform, round, asked, refresh, on, jobs, notice, told, count>>

FirstStep == [startstats |-> "switch", starttask |-> "read", stopstats |-> "switch",
              auth |-> "fetch", reset |-> "claim", replace |-> "claim"]

\* A reset plans for the round there is, and cuts it before it renews the snapshot; the
\* reconciliations that replace an account take turns.
Begin(c, job) ==
  /\ call[c] = Quiet
  /\ job = "reset" => round.id # 0
  /\ job = "replace" => /\ round.id # 0 /\ platform.account # round.account
                        /\ \A d \in Commands : call[d].job # "replace"
  /\ LET target == IF job = "reset" THEN round.account ELSE platform.account
     IN call' = [call EXCEPT ![c] =
          IF job \in {"reset", "replace"}
          THEN [At(job, "claim") EXCEPT !.cycle = round.id, !.cut = platform.snapshot.at + 1,
                                        !.seen = [NoSnapshot EXCEPT !.account = target]]
          ELSE At(job, FirstStep[job])]
  /\ Happens(IF job \in Switches THEN "switches" ELSE "commands")
  /\ UNCHANGED <<clock, platform, round, asked, refresh, on, jobs, notice, told>>

set_sync_enabled(c) ==
  /\ Is(c, "switch")
  /\ on' = (call[c].job = "startstats")
  /\ Goto(c, IF call[c].job = "startstats" THEN "read" ELSE "signal")
  /\ UNCHANGED <<clock, platform, round, asked, refresh, jobs, notice, told, count>>

sync_enabled(c) ==
  /\ Is(c, "read")
  /\ call' = [call EXCEPT ![c] = IF on THEN [@ EXCEPT !.step = "launch"] ELSE Quiet]
  /\ UNCHANGED <<clock, platform, round, asked, refresh, on, jobs, notice, told, count>>

\* Nothing is started beside a loop that has not ended.
start_quota_task(c) ==
  /\ Is(c, "launch")
  /\ IF jobs.task # None /\ Alive(jobs.task)
     THEN call' = [call EXCEPT ![c] = Quiet] /\ UNCHANGED jobs
     ELSE \E l \in Loops :
            /\ ~Alive(l) /\ \A d \in Commands : call[d].loop # l
            /\ jobs' = [task |-> l, stop |-> FALSE]
            /\ call' = [call EXCEPT ![c] = Quiet, ![l] = At("none", "check")]
  /\ UNCHANGED <<clock, platform, round, asked, refresh, on, notice, told, count>>

_cancel_quota_loop(c) ==
  /\ Is(c, "signal")
  /\ jobs' = [jobs EXCEPT !.stop = TRUE]
  /\ call' = [call EXCEPT ![c] = IF jobs.task = None THEN Quiet
                                 ELSE [At("stopstats", "await") EXCEPT !.loop = jobs.task]]
  /\ UNCHANGED <<clock, platform, round, asked, refresh, on, notice, told, count>>

\* After 30 seconds: a tick that is cancelled still delivers, a delivery that is
\* cancelled ends where it is.
Cancels(c) ==
  /\ Is(c, "await") /\ ~call[c].ends /\ Alive(call[c].loop)
  /\ LET l == call[c].loop
         works == call[l].step \notin Delivering \cup {"check", "tick", "wait"}
     IN /\ call' = [call EXCEPT ![c].ends = TRUE,
                      ![l] = IF works THEN [At("deliver", "list") EXCEPT !.ends = TRUE] ELSE Quiet]
        /\ refresh' = Released(l)
        /\ IF call[l].step \in {"send", "finish"}
           THEN \E copies \in IF Is(l, "send") THEN {0, 1} ELSE {0} :
                  told' = [told EXCEPT ![First(call[l].todo)] =
                             [copies |-> @.copies + copies, doubts |-> @.doubts + 1]]
           ELSE UNCHANGED told
  /\ UNCHANGED <<clock, platform, round, asked, on, jobs, notice, count>>

Ended(c) ==
  /\ Is(c, "await") /\ ~Alive(call[c].loop)
  /\ Goto(c, "clear")
  /\ UNCHANGED <<clock, platform, round, asked, refresh, on, jobs, notice, told, count>>

Clears(c) ==
  /\ Is(c, "clear")
  /\ jobs' = [jobs EXCEPT !.task = None]
  /\ call' = [call EXCEPT ![c] = Quiet]
  /\ UNCHANGED <<clock, platform, round, asked, refresh, on, notice, told, count>>

\* What was being sent may arrive.
Restart ==
  /\ call' = Boots
  /\ asked' = {}
  /\ refresh' = [refresh EXCEPT !.holder = None]
  /\ jobs' = [task |-> IF on THEN FirstLoop ELSE None, stop |-> FALSE]
  /\ LET sending(n) == \E l \in Loops : Is(l, "send") /\ First(call[l].todo) = n
         marking(n) == \E l \in Loops : Is(l, "finish") /\ First(call[l].todo) = n
     IN \E arrived \in SUBSET {n \in Notices : sending(n)} :
          told' = [n \in Notices |->
                     [copies |-> told[n].copies + (IF n \in arrived THEN 1 ELSE 0),
                      doubts |-> told[n].doubts + (IF sending(n) \/ marking(n) THEN 1 ELSE 0)]]
  /\ Fault
  /\ UNCHANGED <<clock, platform, round, on, notice>>

-----------------------------------------------------------------------------

Syncs(p) == Fetch(p) \/ refresh_if_due(p) \/ Request(p) \/ Refetch(p) \/ sync(p)
Estimates(l) ==
  SamplesMissing(l) \/ _current_cycle(l) \/ get_usage(l) \/ _read_local(l) \/ record_estimate(l)
Delivers(l) == deliver_pending(l) \/ _claim(l) \/ Send(l) \/ _finish(l)
Runs(l) == Check(l) \/ Tick(l) \/ Wakes(l) \/ Syncs(l) \/ Estimates(l) \/ Delivers(l)
Proceeds(c) ==
  \/ Syncs(c) \/ _commit_reset(c) \/ queue_reset_failure(c)
  \/ set_sync_enabled(c) \/ sync_enabled(c) \/ start_quota_task(c)
  \/ _cancel_quota_loop(c) \/ Cancels(c) \/ Ended(c) \/ Clears(c)

Next ==
  \/ Uses \/ Falls \/ Snaps \/ Minute \/ Restart
  \/ \E account \in Accounts : Replace(account)
  \/ \E l \in Loops : Runs(l) \/ SendFails(l)
  \/ \E p \in Processes : RequestFails(p)
  \/ \E c \in Commands : Proceeds(c) \/ \E job \in Operations : Begin(c, job)

Spec == Init /\ [][Next]_vars

\* The event loop runs every task, requests end by their timeouts, and time passes.
Fairness ==
  /\ \A l \in Loops : WF_vars(Runs(l))
  /\ \A c \in Commands : WF_vars(Proceeds(c))
  /\ WF_vars(Minute)
FairSpec == Spec /\ Fairness

-----------------------------------------------------------------------------
(* Properties *)

\* The estimate of a round, which sets the limit of the next one, divides what was
\* spent in this round by what a snapshot of its account, window and time says.
EstimateIsOfItsRound ==
  round.estimate # NoSnapshot =>
    /\ round.estimate.id = round.id
    /\ round.estimate.account = round.account
    /\ round.estimate.window = round.window
    /\ round.estimate.at >= round.started

\* A notice arrives twice only if the outcome of an attempt was in doubt, also when two
\* loops deliver at the same time.
CopiesNeedDoubt == \A n \in Notices : told[n].copies <= 1 + told[n].doubts

\* While the statistics run, every queued notice is sent in the end.
QueuedIsSent ==
  \A n \in Notices : []<>(notice[n].status # "PENDING" \/ ~on \/ \A l \in Loops : ~Alive(l))

\* handlers.py:794 says after /startstats that the loop is running.  Not so: beside a
\* /stopstats that still waits for the last tick nothing is started.
StartedStatisticsRun ==
  on /\ (\A c \in Commands : call[c] = Quiet) => \E l \in Loops : Alive(l)

\* scheduler.py:87: at most one loop.  Not so: a stop that wakes up after a new loop was
\* started forgets it.
OneLoop == \A k, l \in Loops : Alive(k) /\ Alive(l) => k = l

\* device_account_usage.py:139: an estimate is blocked when the usage of the account was
\* reset or changed.  Not so: a snapshot read before a sync of /auth looks like a fall.
BlockedMeansFallen == round.blocked => count.falls + count.changes > 0
=============================================================================
