------------------------------ MODULE UsageLedger ------------------------------
(***************************************************************************)
(* What a user's devices cost in a round: sampling jobs read the running   *)
(* total of a device from the platform, and every sample is applied to the *)
(* segment of its association in each round (DeviceQuotaCycle) the         *)
(* association overlaps; the ledger of a user and a round sums segments.   *)
(*                                                                         *)
(* The platform reports only a total per device, and only when asked: a    *)
(* baseline, the order of samples and the bounds of association and round  *)
(* decide whom the difference of two totals is charged to.                 *)
(*                                                                         *)
(* Jobs are claimed with a lease and processed in several transactions by  *)
(* the background loop or by a command's callback (a runner); a runner may *)
(* fail, be cancelled or be overtaken between any two of them.  Associate  *)
(* and End stand for the outcome of the module DeviceLifecycle.            *)
(*                                                                         *)
(* Time: events that leave a timestamp happen at distinct odd instants,    *)
(* rounds begin and end at even ones.                                      *)
(***************************************************************************)
EXTENDS Integers, FiniteSets, Functions

CONSTANTS
  Users, Devices,
  Runners,          \* who may process a job: the background loop, a callback
  None,             \* SQL NULL
  Week,             \* length of a round
  Horizon,          \* bound: no idle time passes after it
  LastTime,         \* bound: nothing that takes an instant happens after it
  MaxAssociations,  \* bound: associations ever made
  MaxCycles,        \* bound: rounds ever stored
  MaxPeriodic,      \* bound: periodic jobs of an association
  MaxTotal,         \* bound: total of a device
  Bounds            \* bound: how many faults (failures, restarts, doubtful evidence,
                    \* falling totals) and sampling callbacks meet in a behaviour

ASSUME NoneAssumption == None \notin Users /\ None \notin Devices /\ None \notin Int
ASSUME WeekAssumption == Week \in Nat \ {0} /\ Week % 2 = 0
ASSUME BoundAssumption ==
  /\ {Horizon, LastTime, MaxAssociations, MaxCycles, MaxPeriodic, MaxTotal} \subseteq Nat
  /\ LastTime > 0 /\ Bounds \subseteq [faults : Nat, callbacks : Nat] /\ Bounds # {}

VARIABLES
  now,
  total,            \* platform: running total of each device
  association,      \* confirmed associations
  nextAssociation,
  cycle,            \* DeviceQuotaCycle rows of the task
  nextCycle,
  segment,          \* DeviceUsageSegment rows, by association and round
  ledger,           \* DeviceCycleLedger rows, by user and round
  job,              \* DeviceResampleJob rows with their snapshot, by sequence
  planned,          \* jobs the tick decided on and has not enqueued yet
  runner,           \* where each runner stands
  spent,            \* history: spent[a][w] is what a's holder used in week w
  regressed,        \* history: devices whose total fell
  events            \* how many faults and callbacks there were

world == <<total, spent, regressed>>
rounds == <<cycle, nextCycle>>
books == <<segment, ledger>>
people == <<association, nextAssociation>>
vars == <<now, world, people, rounds, books, job, planned, runner, events>>

-----------------------------------------------------------------------------

AssociationIds == 1 .. MaxAssociations
CycleIds == 1 .. MaxCycles
Initial == 0
BeforeRevokeJob == 1
AfterRevokeJob == 7
Periodic == 8 .. 7 + MaxPeriodic
Sequences == {Initial, BeforeRevokeJob, AfterRevokeJob} \cup Periodic

Times == 0 .. LastTime
Weeks == 0 .. LastTime \div Week

Amount == 0 .. MaxTotal
Qualities == {"UNKNOWN", "VERIFIED", "NEEDS_REVIEW"}
Usable == {"VERIFIED", "EXPIRED"}
Pending == {"waiting", "due", "leased"}

AssociationRow == [user : Users, device : Devices, started : Times,
                   ended : Times \cup {None}, fresh : BOOLEAN]
NoAssociation == [user |-> None, device |-> None, started |-> None, ended |-> None,
                  fresh |-> FALSE]
CycleRow == [started : Nat, reset : Nat, created : Times,
             status : {"VERIFIED", "NEEDS_REVIEW", "EXPIRED"}]
NoCycle == [started |-> 0, reset |-> 0, created |-> 0, status |-> "NONE"]
SegmentRow == [baseline : Amount \cup {None}, at : Times \cup {None},
               used : Nat \cup {None}, imported : Nat \cup {None}, quality : Qualities]
NoSegment == [baseline |-> None, at |-> None, used |-> None, imported |-> None,
              quality |-> "NONE"]
LedgerRow == [used : Nat \cup {None}, quality : Qualities \cup {"NONE"}]
NoLedger == [used |-> None, quality |-> "NONE"]
\* A job that is completed has its snapshot.
JobRow == [phase : Pending \cup {"none"}, sampled : Times \cup {None}, total : Amount \cup {None}]
CompletedJob == [phase : {"completed"}, sampled : Times, total : Amount]
NoJob == [phase |-> "none", sampled |-> None, total |-> None]
\* "latest" says that nobody has claimed the job again: attempt_count is still the
\* number the claim was given.
RunnerState == [assoc : AssociationIds \cup {None}, seq : Sequences \cup {None},
                step : {"idle", "plan", "ensure", "collect", "request", "save", "planSample",
                        "ensureSample", "apply", "finish", "retry"},
                latest : BOOLEAN, claimed : Times, total : Amount \cup {None},
                ended : Times \cup {None},
                plan : SUBSET CycleIds, todo : SUBSET CycleIds, unresolved : BOOLEAN]
Idle == [assoc |-> None, seq |-> None, step |-> "idle", latest |-> FALSE, claimed |-> 0,
         total |-> None, ended |-> None, plan |-> {}, todo |-> {}, unresolved |-> FALSE]

TypeOK ==
  /\ now \in Times
  /\ total \in [Devices -> Amount]
  /\ association \in [AssociationIds -> AssociationRow \cup {NoAssociation}]
  /\ nextAssociation \in 1 .. MaxAssociations + 1
  /\ cycle \in [CycleIds -> CycleRow \cup {NoCycle}]
  /\ nextCycle \in 1 .. MaxCycles + 1
  /\ segment \in [AssociationIds -> [CycleIds -> SegmentRow \cup {NoSegment}]]
  /\ ledger \in [Users -> [CycleIds -> LedgerRow]]
  /\ job \in [AssociationIds -> [Sequences -> JobRow \cup CompletedJob]]
  /\ planned \subseteq AssociationIds \X Sequences
  /\ runner \in [Runners -> RunnerState]
  /\ spent \in [AssociationIds -> [Weeks -> Nat]]
  /\ regressed \subseteq Devices
  /\ \E b \in Bounds : \A k \in DOMAIN b : events[k] \in 0 .. b[k]

Made(a) == association[a].user # None
Held(a) == Made(a) /\ association[a].ended = None
Has(a, d) == Made(a) /\ association[a].device = d
Latest == nextCycle - 1
Later(x, y) == IF x > y THEN x ELSE y
First(S) == CHOOSE c \in S : \A b \in S : c <= b

Happens(kind) ==
  LET next == [events EXCEPT ![kind] = @ + 1]
  IN /\ \E b \in Bounds : \A k \in DOMAIN b : next[k] <= b[k]
     /\ events' = next
Fault == Happens("faults")
Evidence(status) == IF status = "NEEDS_REVIEW" THEN Fault ELSE UNCHANGED events
TimePasses == now + 2 <= LastTime /\ now' = now + 2

Init ==
  /\ now = 1
  /\ total \in [Devices -> Amount]
  /\ association = [a \in AssociationIds |-> NoAssociation]
  /\ nextAssociation = 1
  /\ cycle = [c \in CycleIds |-> NoCycle]
  /\ nextCycle = 1
  /\ segment = [a \in AssociationIds |-> [c \in CycleIds |-> NoSegment]]
  /\ ledger = [u \in Users |-> [c \in CycleIds |-> NoLedger]]
  /\ job = [a \in AssociationIds |-> [s \in Sequences |-> NoJob]]
  /\ planned = {}
  /\ runner = [p \in Runners |-> Idle]
  /\ spent = [a \in AssociationIds |-> [w \in Weeks |-> 0]]
  /\ regressed = {}
  /\ events = [faults |-> 0, callbacks |-> 0]
-----------------------------------------------------------------------------
(* Associations, rounds and the platform. *)

Successors(a) == {b \in AssociationIds : b > a /\ Has(b, association[a].device)}

\* Requests to the platform are sent one at a time in the order they were made: none
\* that authorizes the device overtakes a request for its total.
NewAssociation(u, d, fresh) ==
  /\ nextAssociation <= MaxAssociations
  /\ \A a \in AssociationIds : Held(a) => association[a].user # u /\ association[a].device # d
  /\ \A p \in Runners : runner[p].step = "request" => association[runner[p].assoc].device # d
  /\ association' = [association EXCEPT ![nextAssociation] =
                       [user |-> u, device |-> d, started |-> now, ended |-> None, fresh |-> fresh]]
  /\ nextAssociation' = nextAssociation + 1
  /\ TimePasses

\* An authorization.  The platform says of a device it authorized for the first
\* time that the result is not reused; its total is then zero.
Associate(u, d, fresh) ==
  /\ fresh => total[d] = 0 \/ \E a \in AssociationIds : Has(a, d)
  /\ NewAssociation(u, d, fresh)
  /\ UNCHANGED <<world, rounds, books, job, planned, runner, events>>

\* /authuser with a usage: the user's first association and ledger of the current
\* round start from the amount the operator names.
import_initial_usage(u, d, amount) ==
  LET a == nextAssociation
      c == Latest
  IN /\ c > 0 /\ cycle[c].status = "VERIFIED" /\ now < cycle[c].reset
     /\ \A b \in AssociationIds : association[b].user # u
     /\ ledger[u][c] = NoLedger
     /\ NewAssociation(u, d, FALSE)
     /\ segment' = [segment EXCEPT ![a][c] =
                      [baseline |-> total[d], at |-> now, used |-> amount,
                       imported |-> amount, quality |-> "VERIFIED"]]
     /\ ledger' = [ledger EXCEPT ![u][c] = [used |-> amount, quality |-> "VERIFIED"]]
     /\ UNCHANGED <<world, rounds, job, planned, runner, events>>

End(a) ==
  /\ Held(a)
  /\ association' = [association EXCEPT ![a].ended = now]
  /\ TimePasses
  /\ UNCHANGED <<nextAssociation, world, rounds, books, job, planned, runner, events>>

\* A device is used by whoever held it last; its total grows while it is held.  After
\* a revocation the platform may still add what was used before, within the delay of
\* the final sample.
Report(a) ==
  LET d == association[a].device
      at == IF Held(a) THEN now ELSE association[a].ended
  IN /\ Made(a) /\ Successors(a) = {}
     /\ Held(a) \/ job[a][AfterRevokeJob].phase \in {"none", "waiting"}
     /\ total[d] < MaxTotal
     /\ total' = [total EXCEPT ![d] = @ + 1]
     /\ spent' = [spent EXCEPT ![a][at \div Week] = @ + 1]
     /\ UNCHANGED <<now, regressed, people, rounds, books, job, planned, runner, events>>

\* The platform corrects a total downwards.
Regress(d) ==
  /\ total[d] > 0
  /\ total' = [total EXCEPT ![d] = @ - 1]
  /\ regressed' = regressed \cup {d}
  /\ Fault
  /\ UNCHANGED <<now, spent, people, rounds, books, job, planned, runner>>

\* A round ends at a multiple of Week.  The first look after that expires it and
\* opens the one the evidence belongs to.
SyncRollover(status) ==
  LET reset == Week * (now \div Week + 1)
  IN /\ nextCycle <= MaxCycles
     /\ Latest > 0 => cycle[Latest].reset <= now
     /\ cycle' = [c \in CycleIds |->
                    IF c = nextCycle
                    THEN [started |-> IF Latest = 0 THEN reset - Week
                                      ELSE Later(reset - Week, cycle[Latest].reset),
                          reset |-> reset, created |-> now, status |-> status]
                    ELSE IF c < nextCycle THEN [cycle[c] EXCEPT !.status = "EXPIRED"]
                    ELSE cycle[c]]
     /\ nextCycle' = nextCycle + 1
     /\ Evidence(status)
     /\ UNCHANGED <<now, world, people, books, job, planned, runner>>

\* Evidence of the current round confirms it or puts it in doubt.
SyncCurrent(status) ==
  /\ Latest > 0 /\ now < cycle[Latest].reset
  /\ cycle[Latest].status # status
  /\ cycle' = [cycle EXCEPT ![Latest].status = status]
  /\ Evidence(status)
  /\ UNCHANGED <<now, nextCycle, world, people, books, job, planned, runner>>

Pass ==
  /\ now < Horizon
  /\ TimePasses
  /\ UNCHANGED <<world, people, rounds, books, job, planned, runner, events>>

-----------------------------------------------------------------------------
(* Jobs are enqueued once per association and sequence.                    *)

Enqueue(a, s, phase) ==
  job' = IF job[a][s].phase = "none" THEN [job EXCEPT ![a][s].phase = phase] ELSE job

after_authorized(a) ==
  /\ Made(a) /\ job[a][Initial].phase = "none"
  /\ Enqueue(a, Initial, "due")
  /\ Happens("callbacks")
  /\ UNCHANGED <<now, world, people, rounds, books, planned, runner>>

before_revoke(a) ==
  /\ Held(a) /\ job[a][BeforeRevokeJob].phase = "none"
  /\ Enqueue(a, BeforeRevokeJob, "due")
  /\ Happens("callbacks")
  /\ UNCHANGED <<now, world, people, rounds, books, planned, runner>>

\* By the callback of the revocation or by the tick: the final sample waits an hour.
schedule_after_revoke(a) ==
  /\ Made(a) /\ ~Held(a) /\ job[a][AfterRevokeJob].phase = "none"
  /\ Enqueue(a, AfterRevokeJob, "waiting")
  /\ UNCHANGED <<now, world, people, rounds, books, planned, runner, events>>

\* The tick reads associations and jobs first and enqueues later; meanwhile the
\* association may end and callbacks may enqueue.  (One association at a time: what
\* the tick enqueues for one does not bear on what it read of another.)
TickRead(a) ==
  /\ Held(a) /\ planned = {}
  /\ IF job[a][Initial].phase = "none" THEN planned' = planned \cup {<<a, Initial>>}
     ELSE /\ \A s \in Sequences : job[a][s].phase \notin Pending
          /\ \E s \in Periodic : job[a][s].phase = "none"
          /\ LET s == First({s \in Periodic : job[a][s].phase = "none"})
             IN planned' = planned \cup {<<a, s>>}
  /\ UNCHANGED <<now, world, people, rounds, books, job, runner, events>>

TickEnqueue(a, s) ==
  /\ <<a, s>> \in planned
  /\ Enqueue(a, s, "due")
  /\ planned' = planned \ {<<a, s>>}
  /\ UNCHANGED <<now, world, people, rounds, books, runner, events>>

\* The delay after the revocation is over.
BecomesDue(a) ==
  /\ job[a][AfterRevokeJob].phase = "waiting"
  /\ job' = [job EXCEPT ![a][AfterRevokeJob].phase = "due"]
  /\ UNCHANGED <<now, world, people, rounds, books, planned, runner, events>>

-----------------------------------------------------------------------------
(* Segments and ledgers. *)

\* Some instant of association a belongs to round c.
Overlaps(a, c) ==
  /\ association[a].started < cycle[c].reset
  /\ association[a].ended = None \/ association[a].ended > cycle[c].started

Starts(a, c) == Later(association[a].started, cycle[c].started)

\* Seeded bug: earlier associations of the device do not matter.
ZeroOrigin_IgnoresEarlier(a, c) ==
  /\ association[a].fresh
  /\ cycle[c].started <= association[a].started /\ association[a].started < cycle[c].reset

\* The device had no total before the association, and the association began in c.
ZeroOrigin(a, c) ==
  /\ association[a].fresh
  /\ cycle[c].started <= association[a].started /\ association[a].started < cycle[c].reset
  /\ \A b \in AssociationIds : Has(b, association[a].device) => b >= a

Superseded(a, at) == \E b \in Successors(a) : association[b].started <= at

\* _locked_context: a transaction on the books refuses anything else.
InContext(a, c) == cycle[c].status \in Usable /\ Overlaps(a, c)

SegmentOf(a, c) ==
  IF segment[a][c] # NoSegment THEN segment[a][c]
  ELSE [NoSegment EXCEPT !.baseline = IF ZeroOrigin(a, c) THEN 0 ELSE None, !.quality = "UNKNOWN"]

\* The ledger of u in c after its segments became seg: never less than before.
refreshed(u, c, seg) ==
  LET rows == {a \in AssociationIds : association[a].user = u /\ seg[a][c] # NoSegment}
      known == {a \in rows : seg[a][c].used # None}
      sum == IF known = {} THEN None
             ELSE SumFunctionOnSet([a \in rows |-> seg[a][c].used], known)
      before == ledger[u][c].used
      falls == before # None /\ (sum = None \/ sum < before)
      gap == \E a \in AssociationIds \ rows : association[a].user = u /\ Overlaps(a, c)
      review == \/ gap \/ falls
                \/ \E a \in rows : seg[a][c].quality = "NEEDS_REVIEW"
                \/ known # {} /\ known # rows
      verified == known = rows /\ \A a \in rows : seg[a][c].quality = "VERIFIED"
  IN [used |-> IF falls THEN before ELSE sum,
      quality |-> CASE review -> "NEEDS_REVIEW"
                    [] ~review /\ verified -> "VERIFIED"
                    [] ~review /\ known = {} -> "UNKNOWN"
                    [] OTHER -> "NEEDS_REVIEW"]

Book(a, c, row) ==
  LET u == association[a].user
  IN /\ segment' = [segment EXCEPT ![a][c] = row]
     /\ ledger' = [ledger EXCEPT ![u][c] = refreshed(u, c, segment')]

\* Seeded bug: a sample with a known origin lifts the mark of an earlier doubt.
applied_LiftsDoubt(row, at, amount, zeroOrigin) ==
  LET imported == IF row.imported = None THEN 0 ELSE row.imported
      candidate == imported + amount - row.baseline
      origin == row.imported # None \/ (row.baseline = 0 /\ zeroOrigin)
  IN CASE row.at # None /\ at <= row.at -> row
       [] row.baseline = None /\ (row.at = None \/ at > row.at) ->
            [row EXCEPT !.baseline = amount, !.at = at, !.used = 0, !.quality = "NEEDS_REVIEW"]
       [] OTHER ->
            IF candidate < 0 \/ (row.used # None /\ candidate < row.used)
            THEN [row EXCEPT !.at = at, !.quality = "NEEDS_REVIEW"]
            ELSE [row EXCEPT !.at = at, !.used = candidate,
                             !.quality = IF origin THEN "VERIFIED" ELSE "NEEDS_REVIEW"]

\* Seeded bug: a first sample that becomes the baseline is taken for an exact one.
applied_ExactBaseline(row, at, amount, zeroOrigin) ==
  LET imported == IF row.imported = None THEN 0 ELSE row.imported
      candidate == imported + amount - row.baseline
  IN CASE row.at # None /\ at <= row.at -> row
       [] row.baseline = None /\ (row.at = None \/ at > row.at) ->
            [row EXCEPT !.baseline = amount, !.at = at, !.used = 0, !.quality = "VERIFIED"]
       [] OTHER ->
            IF candidate < 0 \/ (row.used # None /\ candidate < row.used)
            THEN [row EXCEPT !.at = at, !.quality = "NEEDS_REVIEW"]
            ELSE [row EXCEPT !.at = at, !.used = candidate,
                             !.quality = IF @ # "NEEDS_REVIEW" THEN "VERIFIED" ELSE "NEEDS_REVIEW"]

\* A sample in the window of the round: older ones are ignored, a first one
\* without a baseline becomes it, and what was charged never decreases.
applied(row, at, amount, zeroOrigin) ==
  LET imported == IF row.imported = None THEN 0 ELSE row.imported
      candidate == imported + amount - row.baseline
      origin == row.imported # None \/ (row.baseline = 0 /\ zeroOrigin)
  IN CASE row.at # None /\ at <= row.at -> row
       [] row.baseline = None /\ (row.at = None \/ at > row.at) ->
            [row EXCEPT !.baseline = amount, !.at = at, !.used = 0, !.quality = "NEEDS_REVIEW"]
       [] OTHER ->
            IF candidate < 0 \/ (row.used # None /\ candidate < row.used)
            THEN [row EXCEPT !.at = at, !.quality = "NEEDS_REVIEW"]
            ELSE [row EXCEPT !.at = at, !.used = candidate,
                             !.quality = IF @ # "NEEDS_REVIEW" /\ origin THEN "VERIFIED"
                                         ELSE "NEEDS_REVIEW"]

\* Seeded bug: an association that ended in a later round is charged in this one.
InWindow_AnyEnd(a, c, at) ==
  \/ cycle[c].status = "VERIFIED" /\ now < cycle[c].reset /\ at < cycle[c].reset
  \/ /\ cycle[c].status = "EXPIRED" \/ now >= cycle[c].reset
     /\ association[a].ended # None
     /\ Successors(a) = {}

\* The round is current and the sample belongs to it, or the association was
\* revoked in the round and nobody has held the device since.
InWindow(a, c, at) ==
  \/ cycle[c].status = "VERIFIED" /\ now < cycle[c].reset /\ at < cycle[c].reset
  \/ /\ cycle[c].status = "EXPIRED" \/ now >= cycle[c].reset
     /\ association[a].ended # None /\ association[a].ended <= cycle[c].reset
     /\ Successors(a) = {}

Charge(a, c, at, amount) ==
  IF InWindow(a, c, at) THEN applied(SegmentOf(a, c), at, amount, ZeroOrigin(a, c))
  ELSE [SegmentOf(a, c) EXCEPT !.quality = "NEEDS_REVIEW"]

-----------------------------------------------------------------------------
(* A claimed job: plan and ensure the rounds, collect a snapshot, plan and *)
(* ensure again as of the snapshot, apply it round by round, complete.     *)

Goto(p, step) == runner' = [runner EXCEPT ![p].step = step]
Settle(p, step) ==
  runner' = [runner EXCEPT ![p] = [Idle EXCEPT !.assoc = runner[p].assoc, !.seq = runner[p].seq,
                                               !.latest = runner[p].latest, !.step = step]]

\* Seeded bug: the lease of a claim does not expire.
Claim_NoExpiry(p, a, s) ==
  /\ runner[p] = Idle
  /\ job[a][s].phase = "due"
  /\ job' = [job EXCEPT ![a][s].phase = "leased"]
  /\ runner' = [q \in Runners |->
                  IF q = p THEN [Idle EXCEPT !.assoc = a, !.seq = s, !.step = "plan",
                                             !.latest = TRUE, !.claimed = now]
                  ELSE runner[q]]
  /\ UNCHANGED <<now, world, people, rounds, books, planned, events>>

\* A job is claimed when it is due or the lease of the last claim has expired, whoever
\* held it; that it expires under a runner at work is one of the bounded faults.
\* (The delay of a retry is not modelled: such a job is due.)
Claim(p, a, s) ==
  /\ runner[p] = Idle
  /\ job[a][s].phase \in {"due", "leased"}
  /\ job' = [job EXCEPT ![a][s].phase = "leased"]
  /\ runner' = [q \in Runners |->
                  IF q = p THEN [Idle EXCEPT !.assoc = a, !.seq = s, !.step = "plan",
                                             !.latest = TRUE, !.claimed = now]
                  ELSE IF runner[q].assoc = a /\ runner[q].seq = s
                  THEN [runner[q] EXCEPT !.latest = FALSE]
                  ELSE runner[q]]
  /\ IF \E q \in Runners : runner[q].assoc = a /\ runner[q].seq = s /\ runner[q].latest
     THEN Fault ELSE UNCHANGED events
  /\ UNCHANGED <<now, world, people, rounds, books, planned>>

\* The rounds that began by the cutoff and overlap the association as it was read.
Planned(a, ended, cutoff) ==
  {c \in 1 .. Latest : /\ cycle[c].started <= cutoff
                       /\ cycle[c].reset > association[a].started
                       /\ ended # None => cycle[c].started < ended}

\* Seeded bug: a job without a round to book in is taken for done.
PlanAs_NothingToBook(p, ended, cutoff, next) ==
  LET overlapping == Planned(runner[p].assoc, ended, cutoff)
      usable == {c \in overlapping : cycle[c].status \in Usable}
  IN IF usable = {} THEN Settle(p, "finish")
     ELSE runner' = [runner EXCEPT ![p].plan = usable, ![p].todo = usable, ![p].step = next,
                       ![p].unresolved = (usable # overlapping), ![p].claimed = 0,
                       ![p].ended = IF next = "ensure" THEN ended ELSE None]

PlanAs(p, ended, cutoff, next) ==
  LET overlapping == Planned(runner[p].assoc, ended, cutoff)
      usable == {c \in overlapping : cycle[c].status \in Usable}
  IN IF usable = {} THEN Settle(p, "retry")
     ELSE runner' = [runner EXCEPT ![p].plan = usable, ![p].todo = usable, ![p].step = next,
                       ![p].unresolved = (usable # overlapping), ![p].claimed = 0,
                       ![p].ended = IF next = "ensure" THEN ended ELSE None]

\* The association is read once.  A snapshot an earlier attempt saved is used as it is.
Plan(p) ==
  LET a == runner[p].assoc
      snapshot == job[a][runner[p].seq].sampled
  IN /\ runner[p].step = "plan"
     /\ IF snapshot = None THEN PlanAs(p, association[a].ended, runner[p].claimed, "ensure")
        ELSE PlanAs(p, association[a].ended, snapshot, "ensureSample")
     /\ UNCHANGED <<now, world, people, rounds, books, job, planned, events>>

\* Seeded bug: a round in doubt does not stop the job.
Advance_IgnoresDoubt(p, next) ==
  LET todo == runner[p].todo \ {First(runner[p].todo)}
  IN IF todo # {} THEN runner' = [runner EXCEPT ![p].todo = todo]
     ELSE IF next = "apply"
     THEN runner' = [runner EXCEPT ![p].step = "apply", ![p].todo = runner[p].plan, ![p].plan = {}]
     ELSE IF next = "finish" THEN Settle(p, "finish")
     ELSE runner' = [runner EXCEPT ![p].step = next, ![p].todo = {}, ![p].plan = {}]

\* The next round, or after the last one the next step: a round in doubt stops the
\* job before it collects and before it completes.
Advance(p, next) ==
  LET todo == runner[p].todo \ {First(runner[p].todo)}
  IN IF todo # {} THEN runner' = [runner EXCEPT ![p].todo = todo]
     ELSE IF next = "apply"
     THEN runner' = [runner EXCEPT ![p].step = "apply", ![p].todo = runner[p].plan, ![p].plan = {}]
     ELSE IF runner[p].unresolved THEN Settle(p, "retry")
     ELSE IF next = "finish" THEN Settle(p, "finish")
     ELSE runner' = [runner EXCEPT ![p].step = next, ![p].todo = {}, ![p].plan = {}]

Ensure(p) ==
  LET a == runner[p].assoc
      c == First(runner[p].todo)
  IN /\ runner[p].step \in {"ensure", "ensureSample"}
     /\ IF InContext(a, c)
        THEN /\ Book(a, c, SegmentOf(a, c))
             /\ Advance(p, IF runner[p].step = "ensure" THEN "collect" ELSE "apply")
        ELSE Settle(p, "retry") /\ UNCHANGED books
     /\ UNCHANGED <<now, world, people, rounds, job, planned, events>>

\* A snapshot carries the time its request was made, not that of the answer.  One an
\* earlier attempt or another runner saved is used as it is.
Collect(p) ==
  /\ runner[p].step = "collect"
  /\ IF job[runner[p].assoc][runner[p].seq].sampled = None
     THEN /\ runner' = [runner EXCEPT ![p].step = "request", ![p].claimed = now]
          /\ TimePasses
     ELSE Goto(p, "planSample") /\ UNCHANGED now
  /\ UNCHANGED <<world, people, rounds, books, job, planned, events>>

\* The client sends one request at a time, in the order they were made; its answer
\* is the total of that moment.
Answer(p) ==
  /\ runner[p].step = "request"
  /\ \A q \in Runners : runner[q].step = "request" => runner[p].claimed <= runner[q].claimed
  /\ runner' = [runner EXCEPT ![p].step = "save",
                              ![p].total = total[association[runner[p].assoc].device]]
  /\ UNCHANGED <<now, world, people, rounds, books, job, planned, events>>

\* Seeded bug: every attempt saves its own snapshot.
Save_Again(p) ==
  LET a == runner[p].assoc
      s == runner[p].seq
  IN /\ runner[p].step = "save"
     /\ job' = [job EXCEPT ![a][s].sampled = runner[p].claimed,
                           ![a][s].total = runner[p].total]
     /\ runner' = [runner EXCEPT ![p].step = "planSample", ![p].claimed = 0, ![p].total = None]
     /\ UNCHANGED <<now, world, people, rounds, books, planned, events>>

\* The answer is saved unless another runner's was; then that one is used.
Save(p) ==
  LET a == runner[p].assoc
      s == runner[p].seq
  IN /\ runner[p].step = "save"
     /\ job' = IF job[a][s].sampled # None THEN job
               ELSE [job EXCEPT ![a][s].sampled = runner[p].claimed,
                                ![a][s].total = runner[p].total]
     /\ runner' = [runner EXCEPT ![p].step = "planSample", ![p].claimed = 0, ![p].total = None]
     /\ UNCHANGED <<now, world, people, rounds, books, planned, events>>

PlanSample(p) ==
  /\ runner[p].step = "planSample"
  /\ PlanAs(p, runner[p].ended, job[runner[p].assoc][runner[p].seq].sampled, "ensureSample")
  /\ UNCHANGED <<now, world, people, rounds, books, job, planned, events>>

Apply(p) ==
  LET a == runner[p].assoc
      c == First(runner[p].todo)
      snapshot == job[a][runner[p].seq]
  IN /\ runner[p].step = "apply"
     /\ IF /\ InContext(a, c) /\ snapshot.sampled >= Starts(a, c)
           /\ ~Superseded(a, snapshot.sampled)
        THEN Book(a, c, Charge(a, c, snapshot.sampled, snapshot.total)) /\ Advance(p, "finish")
        ELSE Settle(p, "retry") /\ UNCHANGED books
     /\ UNCHANGED <<now, world, people, rounds, job, planned, events>>

\* Only the latest claim of a pending job may settle it.
Finish(p) ==
  LET a == runner[p].assoc
      s == runner[p].seq
  IN /\ runner[p].step = "finish"
     /\ job' = IF runner[p].latest /\ job[a][s].phase \in Pending
               THEN [job EXCEPT ![a][s].phase = "completed"] ELSE job
     /\ runner' = [runner EXCEPT ![p] = Idle]
     /\ UNCHANGED <<now, world, people, rounds, books, planned, events>>

Retry(p) ==
  LET a == runner[p].assoc
      s == runner[p].seq
  IN /\ runner[p].step = "retry"
     /\ job' = IF runner[p].latest /\ job[a][s].phase \in Pending
               THEN [job EXCEPT ![a][s].phase = "due"] ELSE job
     /\ runner' = [runner EXCEPT ![p] = Idle]
     /\ UNCHANGED <<now, world, people, rounds, books, planned, events>>

\* A timeout, a failed request or a failed transaction.
Fails(p) ==
  /\ runner[p].step \notin {"idle", "retry"}
  /\ Settle(p, "retry")
  /\ Fault
  /\ UNCHANGED <<now, world, people, rounds, books, job, planned>>

\* The callback that runs the job is cancelled.
Cancel(p) ==
  /\ runner[p] # Idle
  /\ runner' = [runner EXCEPT ![p] = Idle]
  /\ Fault
  /\ UNCHANGED <<now, world, people, rounds, books, job, planned>>

Restart ==
  /\ runner' = [p \in Runners |-> Idle]
  /\ planned' = {}
  /\ Fault
  /\ UNCHANGED <<now, world, people, rounds, books, job>>

-----------------------------------------------------------------------------

Steps(p) ==
  \/ Plan(p) \/ Ensure(p) \/ Collect(p) \/ Answer(p) \/ Save(p) \/ PlanSample(p)
  \/ Apply(p) \/ Finish(p) \/ Retry(p)

Environment ==
  \/ \E d \in Devices : Regress(d)
  \/ \E u \in Users, d \in Devices :
       (\E fresh \in BOOLEAN : Associate(u, d, fresh))
         \/ import_initial_usage(u, d, 1)
  \/ \E a \in AssociationIds : Report(a) \/ End(a)
  \/ \E status \in {"VERIFIED", "NEEDS_REVIEW"} : SyncRollover(status) \/ SyncCurrent(status)
  \/ Pass

Sampling ==
  \/ \E a \in AssociationIds :
       \/ after_authorized(a) \/ before_revoke(a) \/ schedule_after_revoke(a) \/ TickRead(a)
       \/ BecomesDue(a)
       \/ \E s \in Sequences : TickEnqueue(a, s)
  \/ \E p \in Runners, a \in AssociationIds, s \in Sequences : Claim(p, a, s)

Next ==
  \/ Environment
  \/ Sampling
  \/ \E p \in Runners : Steps(p) \/ Fails(p) \/ Cancel(p)
  \/ Restart

Spec == Init /\ [][Next]_vars

-----------------------------------------------------------------------------
(* Properties. *)

\* What the holder of a used in round c.
UsedIn(a, c) == spent[a][cycle[c].started \div Week]

\* Nobody is charged for what was used before the association, by a predecessor or
\* a successor on the device, or in another round, in whatever order samples are
\* collected and applied.
ChargedForOwnUse ==
  \A a \in AssociationIds, c \in CycleIds :
    segment[a][c].used # None =>
      LET imported == IF segment[a][c].imported = None THEN 0 ELSE segment[a][c].imported
      IN segment[a][c].used - imported <= UsedIn(a, c)

\* Nothing is lost without a mark: a ledger that is VERIFIED once the final sample of
\* each association of the user in the round is complete is the whole consumption.
SettledIsComplete ==
  \A u \in Users, c \in CycleIds :
    LET mine == {a \in AssociationIds : association[a].user = u /\ Overlaps(a, c)}
    IN (/\ ledger[u][c].quality = "VERIFIED"
        /\ \A a \in mine : /\ association[a].ended # None /\ association[a].ended <= cycle[c].reset
                           /\ job[a][AfterRevokeJob].phase = "completed"
                           /\ association[a].device \notin regressed)
       => ledger[u][c].used =
            SumFunctionOnSet([a \in mine |-> UsedIn(a, c) +
                                (IF segment[a][c].imported = None THEN 0 ELSE segment[a][c].imported)],
                             mine)

\* A job is not completed before its sample is accounted for in every round that
\* existed and overlaps the association: counted there, or the segment is in doubt.
CompletedSampleCounted ==
  \A a \in AssociationIds, s \in Sequences, c \in 1 .. Latest :
    (/\ job[a][s].phase = "completed" /\ Overlaps(a, c)
     /\ cycle[c].created <= job[a][s].sampled)
    => \/ segment[a][c].at # None /\ segment[a][c].at >= job[a][s].sampled
       \/ segment[a][c].quality = "NEEDS_REVIEW"

\* A job has one snapshot and completes once: a runner that was overtaken after its
\* lease expired neither replaces the sample nor puts the job back.
SettledJobsStay ==
  [][\A a \in AssociationIds, s \in Sequences :
       /\ job[a][s].sampled # None => /\ job'[a][s].sampled = job[a][s].sampled
                                      /\ job'[a][s].total = job[a][s].total
       /\ job[a][s].phase = "completed" => job'[a][s] = job[a][s]]_vars

\* A ledger never forgets: charges do not decrease, and a doubt is not lifted by a
\* later sample.
ChargesStay ==
  [][\A a \in AssociationIds, c \in CycleIds :
       /\ segment[a][c].used # None => segment'[a][c].used >= segment[a][c].used
       /\ segment[a][c].quality = "NEEDS_REVIEW" => segment'[a][c].quality = "NEEDS_REVIEW"]_vars

-----------------------------------------------------------------------------
(* Progress.  The loop visits every due job again and again, every step it *)
(* has begun ends, and every wait ends.                                    *)

Fairness ==
  /\ \A p \in Runners : WF_vars(Steps(p))
  /\ \A a \in AssociationIds :
       /\ WF_vars(schedule_after_revoke(a))
       /\ WF_vars(BecomesDue(a))
       /\ SF_vars(\E p \in Runners : Claim(p, a, AfterRevokeJob))

FairSpec == Spec /\ Fairness

\* Someone has to settle something first: a round in doubt, no round at all, or a
\* successor that took the device before the final sample.
Blocked(a) ==
  \/ \E c \in 1 .. Latest : Overlaps(a, c) /\ cycle[c].status = "NEEDS_REVIEW"
  \/ \A c \in 1 .. Latest : ~Overlaps(a, c)
  \/ Successors(a) # {}

\* The final sample of a revoked device is taken and completed, also when the
\* callback is lost, the process restarts or a lease has to expire.
FinalSampleTaken ==
  \A a \in AssociationIds :
    []<>(~Made(a) \/ Held(a) \/ job[a][AfterRevokeJob].phase = "completed" \/ Blocked(a))
=============================================================================
