--------------------------- MODULE StatisticsProofs ---------------------------
(***************************************************************************)
(* Statistics keeps its types, an estimate is of its round, and a notice   *)
(* arrives twice only after a doubt, for any number of accounts, loops,    *)
(* commands and notices, any windows, leases and bounds.                   *)
(***************************************************************************)
EXTENDS Statistics, WellFoundedInduction, TLAPS

\* What a step of a call says about the call: which snapshot it has read, and whose end
\* it waits for.
Placed(c) ==
  /\ c.job \in {"reset", "replace"} => c.seen \in Snapshot
  /\ c.step \in {"store", "reset", "local", "record"} => c.seen \in Snapshot /\ c.seen.window > 0
  /\ c.step = "alert" => c.job = "replace"
  /\ c.step = "await" => c.loop \in Loops

\* The state without the order of the evidence and the counters of the bounds.
StateTyped ==
  /\ clock \in [window : Nat, left : 1 .. Window, first : Nat] /\ clock.window > 0
  /\ platform \in [account : Accounts, percent : Nat, snapshot : Snapshot]
  /\ platform.snapshot.window > 0
  /\ round \in Round \cup {NoRound}
  /\ refresh \in [age : 0 .. Cooldown, holder : Processes \cup {None}]
  /\ on \in BOOLEAN
  /\ jobs \in [task : Loops \cup {None}, stop : BOOLEAN]
  /\ notice \in [Notices -> Row]
  /\ told \in [Notices -> [copies : Nat, doubts : Nat]]
  /\ call \in [Processes -> CallState] /\ \A p \in Processes : Placed(call[p])

-----------------------------------------------------------------------------
(* Numbers, and states of a call. *)

LEMMA LeastOne ==
  ASSUME NEW S \in SUBSET Notices, S # {}
  PROVE  First(S) \in S
<1>1. S \subseteq Nat
  BY DEF Notices
<1> DEFINE less == {ss \in Nat \X Nat : ss[1] < ss[2]}
<1>2. IsWellFoundedOn(less, Nat)
  BY NatLessThanWellFounded DEF OpToRel
<1> HIDE DEF less
<1>3. PICK n \in S : \A m \in S : ~(<<m, n>> \in less)
  BY <1>1, <1>2, WFMin
<1>4. ASSUME NEW m \in S PROVE n <= m
  <2>1. m \in Nat /\ n \in Nat /\ <<m, n>> \notin less
    BY <1>1, <1>3
  <2>2. <<m, n>> \in less <=> m < n
    BY <2>1 DEF less
  <2> QED BY <2>1, <2>2
<1> QED BY <1>4 DEF First


\* A call that is about to do nothing that lasts: no estimate to store, no notice to send.
Plain(c) ==
  c \in CallState /\ Placed(c) /\ c.step \notin {"record", "send", "finish"}

JobNames == Operations \cup {"none", "sync", "estimate", "deliver"}
\* Steps that say something about the call.
Telling == {"store", "reset", "local", "record", "alert", "await", "send", "finish"}

LEMMA QuietPlain ==
  /\ Quiet \in CallState /\ Plain(Quiet)
  /\ Quiet.job = "none" /\ Quiet.step = "idle"
BY DEF Quiet, CallState, Steps, Plain, Placed

LEMMA AtPlain ==
  ASSUME NEW job \in JobNames, NEW step \in Steps, NEW ends \in BOOLEAN
  PROVE  /\ At(job, step) \in CallState
         /\ At(job, step).job = job /\ At(job, step).step = step
         /\ [At(job, step) EXCEPT !.ends = ends] \in CallState
         /\ job \notin {"reset", "replace"} /\ step \notin Telling =>
              Plain(At(job, step)) /\ Plain([At(job, step) EXCEPT !.ends = ends])
<1> DEFINE c == At(job, step)
           d == [c EXCEPT !.ends = ends]
<1>1. c \in CallState /\ c.job = job /\ c.step = step
  <2>1. Quiet \in CallState
    BY QuietPlain
  <2>2. [Quiet EXCEPT !.job = job] \in CallState
    BY <2>1 DEF CallState, JobNames
  <2> QED BY <2>2 DEF CallState, At
<1> HIDE DEF c
<1>2. d \in CallState /\ d.job = job /\ d.step = step
  BY <1>1 DEF CallState
<1> HIDE DEF d
<1>3. job \notin {"reset", "replace"} /\ step \notin Telling => Plain(c) /\ Plain(d)
  BY <1>1, <1>2 DEF Plain, Placed, Telling
<1> QED BY <1>1, <1>2, <1>3 DEF c, d

\* Only the calls of S move, and to where nothing lasting is about to be done.
Moved(S) ==
  /\ call' \in [Processes -> CallState]
  /\ \A q \in Processes \ S : call'[q] = call[q]
  /\ \A q \in S : Plain(call'[q])

LEMMA MovedPlaced ==
  ASSUME StateTyped, NEW S \in SUBSET Processes, Moved(S)
  PROVE  call' \in [Processes -> CallState] /\ \A p \in Processes : Placed(call'[p])
BY DEF StateTyped, Moved, Plain

LEMMA StepMoves ==
  ASSUME StateTyped, NEW p \in Processes, NEW c, Plain(c), call' = [call EXCEPT ![p] = c]
  PROVE  Moved({p})
<1>1. call \in [Processes -> CallState] /\ c \in CallState
  BY DEF StateTyped, Plain
<1>2. call' \in [Processes -> CallState] /\ call'[p] = c
      /\ \A q \in Processes : q # p => call'[q] = call[q]
  BY <1>1
<1> QED BY <1>2 DEF Moved

LEMMA StepPlain ==
  ASSUME StateTyped, NEW p \in Processes, NEW step \in Steps,
         step \notin {"store", "reset", "local", "record", "await", "send", "finish"},
         step = "alert" => call[p].job = "replace"
  PROVE  /\ [call[p] EXCEPT !.step = step] \in CallState
         /\ Plain([call[p] EXCEPT !.step = step])
         /\ Goto(p, step) => call' = [call EXCEPT ![p] = [call[p] EXCEPT !.step = step]]
<1> DEFINE c == [call[p] EXCEPT !.step = step]
<1>1. call[p] \in CallState /\ Placed(call[p])
  BY DEF StateTyped
<1>2. c \in CallState /\ c.step = step /\ c.job = call[p].job /\ c.seen = call[p].seen
  BY <1>1 DEF CallState
<1>3. Goto(p, step) => call' = [call EXCEPT ![p] = c]
  BY DEF Goto
<1> HIDE DEF c
<1>4. Plain(c)
  BY <1>1, <1>2 DEF Plain, Placed
<1> QED BY <1>2, <1>3, <1>4 DEF c

LEMMA GotoMoves ==
  ASSUME StateTyped, NEW p \in Processes, NEW step \in Steps, Goto(p, step),
         step \notin {"store", "reset", "local", "record", "await", "send", "finish"},
         step = "alert" => call[p].job = "replace"
  PROVE  Moved({p})
BY StepPlain, StepMoves

LEMMA FailedPlain ==
  ASSUME StateTyped, NEW p \in Processes
  PROVE  Plain(Failed(p))
<1>1. call[p] \in CallState
  BY DEF StateTyped
<1>2. call[p].ends \in BOOLEAN
  BY <1>1 DEF CallState
<1>3. "deliver" \in JobNames /\ "list" \in Steps /\ "list" \notin Telling /\ "alert" \in Steps
  BY DEF JobNames, Steps, Delivering, Telling
<1>4. Plain([At("deliver", "list") EXCEPT !.ends = call[p].ends])
  BY <1>2, <1>3, AtPlain
<1>5. call[p].job = "replace" => Plain([call[p] EXCEPT !.step = "alert"])
  BY <1>3, StepPlain
<1> QED BY <1>4, <1>5, QuietPlain DEF Failed

LEMMA FailMoves ==
  ASSUME StateTyped, NEW p \in Processes, Fail(p)
  PROVE  Moved({p})
BY FailedPlain, StepMoves DEF Fail

LEMMA ReleasedTyped ==
  ASSUME StateTyped, NEW p
  PROVE  Released(p) \in [age : 0 .. Cooldown, holder : Processes \cup {None}]
BY DEF StateTyped, Released

\* Unless a snapshot is asked for, nothing but the calls is concerned.
Elsewhere == UNCHANGED <<clock, platform, round, on, jobs, notice, told>>

LEMMA CallsTyped ==
  ASSUME StateTyped, NEW S \in SUBSET Processes, Moved(S), Elsewhere,
         refresh' \in [age : 0 .. Cooldown, holder : Processes \cup {None}]
  PROVE  StateTyped'
<1>1. call' \in [Processes -> CallState] /\ \A p \in Processes : Placed(call'[p])
  BY MovedPlaced
<1> QED BY <1>1 DEF StateTyped, Elsewhere

-----------------------------------------------------------------------------
(* Types. *)

LEMMA SnapshotTyped ==
  ASSUME StateTyped
  PROVE  /\ platform.snapshot \in Snapshot /\ platform.snapshot.window > 0
         /\ clock.window \in Nat /\ clock.window > 0
         /\ Stored \in Snapshot /\ Stored.window > 0
         /\ platform.account \in Accounts
<1>1. platform.snapshot \in Snapshot /\ platform.account \in Accounts /\ platform.percent \in Nat
      /\ clock.window \in Nat /\ clock.window > 0
  BY DEF StateTyped
<1>2. platform.snapshot.at + 1 \in Nat
  BY <1>1 DEF Snapshot
<1>3. Stored \in Snapshot /\ Stored.window > 0
  BY <1>1, <1>2 DEF Stored, Snapshot
<1> QED BY <1>1, <1>3 DEF StateTyped

\* A call that has just read the snapshot goes on with what the answer says.
LEMMA ReadingPlain ==
  ASSUME StateTyped, NEW p \in Processes, NEW step \in {"claim", "store", "reset", "local"}
  PROVE  LET c == [call[p] EXCEPT !.seen = platform.snapshot, !.step = step]
         IN  c \in CallState /\ Plain(c)
<1> DEFINE c == [call[p] EXCEPT !.seen = platform.snapshot, !.step = step]
<1>1. call[p] \in CallState /\ platform.snapshot \in Snapshot /\ platform.snapshot.window > 0
  BY SnapshotTyped DEF StateTyped
<1>2. step \in Steps
  BY DEF Steps
<1>3. c \in CallState /\ c.seen = platform.snapshot /\ c.step = step
  BY <1>1, <1>2 DEF CallState
<1> HIDE DEF c
<1>4. Plain(c)
  BY <1>1, <1>3 DEF Plain, Placed
<1> QED BY <1>3, <1>4 DEF c

LEMMA FetchMoves ==
  ASSUME StateTyped, NEW p \in Processes, Fetch(p)
  PROVE  Moved({p})
<1>1. PICK step \in {"claim", "store"} :
        call' = [call EXCEPT ![p].seen = platform.snapshot, ![p].step = step]
  BY Zenon DEF Fetch
<1> DEFINE c == [call[p] EXCEPT !.seen = platform.snapshot, !.step = step]
<1>2. call' = [call EXCEPT ![p] = c]
  BY <1>1 DEF StateTyped
<1>3. Plain(c)
  BY ReadingPlain
<1> HIDE DEF c
<1> QED BY <1>2, <1>3, StepMoves

LEMMA RefreshMoves ==
  ASSUME StateTyped, NEW p \in Processes, refresh_if_due(p) \/ Request(p)
  PROVE  /\ Moved({p})
         /\ refresh' \in [age : 0 .. Cooldown, holder : Processes \cup {None}]
<1>1. PICK step \in {"request", "usage", "refetch"} : Goto(p, step)
  BY DEF refresh_if_due, Request, AfterRefresh
<1>2. step \in Steps
  BY DEF Steps, Requests
<1>3. Moved({p})
  BY <1>1, <1>2, GotoMoves
<1>4. refresh' \in [age : 0 .. Cooldown, holder : Processes \cup {None}]
  BY ReleasedTyped, TimeAssumption DEF refresh_if_due, Request, StateTyped
<1> QED BY <1>3, <1>4

LEMMA RefetchMoves ==
  ASSUME StateTyped, NEW p \in Processes, Refetch(p)
  PROVE  Moved({p})
<1>1. CASE Fail(p)
  BY <1>1, FailMoves
<1>2. ASSUME NEW step \in {"store", "reset"},
             call' = [call EXCEPT ![p].seen = platform.snapshot, ![p].step = step]
      PROVE  Moved({p})
  <2> DEFINE c == [call[p] EXCEPT !.seen = platform.snapshot, !.step = step]
  <2>1. call' = [call EXCEPT ![p] = c]
    BY <1>2 DEF StateTyped
  <2>2. Plain(c)
    BY ReadingPlain
  <2> HIDE DEF c
  <2> QED BY <2>1, <2>2, StepMoves
<1>3. Fail(p) \/ \E step \in {"store", "reset"} :
        call' = [call EXCEPT ![p].seen = platform.snapshot, ![p].step = step]
  BY Zenon DEF Refetch
<1> QED BY <1>1, <1>2, <1>3

LEMMA StoresTyped ==
  ASSUME StateTyped, Stores
  PROVE  /\ platform' \in [account : Accounts, percent : Nat, snapshot : Snapshot]
         /\ platform'.snapshot.window > 0
<1>1. Stored \in Snapshot /\ Stored.window > 0
  BY SnapshotTyped
<1>2. platform' = [platform EXCEPT !.snapshot = Stored]
  BY DEF Stores
<1>3. platform'.snapshot = Stored
  BY <1>2 DEF StateTyped
<1>4. platform' \in [account : Accounts, percent : Nat, snapshot : Snapshot]
  BY <1>1, <1>2 DEF StateTyped
<1> QED BY <1>1, <1>3, <1>4

LEMMA RequestsTyped ==
  ASSUME StateTyped, NEW p \in Processes,
         Fetch(p) \/ refresh_if_due(p) \/ Request(p) \/ Refetch(p) \/ RequestFails(p)
  PROVE  /\ StateTyped' /\ Moved({p})
         /\ call[p].step \in Requests \cup {"claim"}
         /\ UNCHANGED <<round, notice, told>>
<1>1. {p} \in SUBSET Processes
  OBVIOUS
<1>2. /\ call[p].step \in Requests \cup {"claim"}
      /\ UNCHANGED <<round, notice, told>>
  BY DEF Fetch, refresh_if_due, Request, Refetch, RequestFails, Is, Requests
<1>3. CASE Fetch(p) \/ Refetch(p) \/ RequestFails(p)
  <2>1. Moved({p})
    BY <1>3, FetchMoves, RefetchMoves, FailMoves DEF RequestFails
  <2>2. Elsewhere
    BY <1>3 DEF Fetch, Refetch, RequestFails, Elsewhere
  <2>3. refresh' \in [age : 0 .. Cooldown, holder : Processes \cup {None}]
    BY <1>3, ReleasedTyped DEF Fetch, Refetch, RequestFails, StateTyped
  <2> QED BY <1>1, <1>2, <2>1, <2>2, <2>3, CallsTyped
<1>4. CASE refresh_if_due(p) \/ Request(p)
  <2>1. /\ Moved({p})
        /\ refresh' \in [age : 0 .. Cooldown, holder : Processes \cup {None}]
    BY <1>4, RefreshMoves
  <2>2. call' \in [Processes -> CallState] /\ \A q \in Processes : Placed(call'[q])
    BY <1>1, <2>1, MovedPlaced
  <2>3. UNCHANGED <<clock, round, on, jobs, notice, told>> /\ (platform' = platform \/ Stores)
    BY <1>4 DEF refresh_if_due, Request
  <2>4. /\ platform' \in [account : Accounts, percent : Nat, snapshot : Snapshot]
        /\ platform'.snapshot.window > 0
    BY <2>3, StoresTyped DEF StateTyped
  <2> QED BY <1>2, <2>1, <2>2, <2>3, <2>4 DEF StateTyped
<1> QED BY <1>3, <1>4

\* A new round, or the one there is with its identity and its estimate.
Follows(r) ==
  \/ r.id = round.id + 1 /\ r.estimate = NoSnapshot
  \/ /\ r.id = round.id /\ r.window = round.window /\ r.account = round.account
     /\ r.started = round.started /\ r.estimate = round.estimate

LEMMA RoundTyped ==
  ASSUME StateTyped
  PROVE  /\ round.id \in Nat /\ round.window \in Nat /\ round.started \in Nat
         /\ round.percent \in Nat /\ round.blocked \in BOOLEAN
         /\ round.id # 0 \/ round.window # 0 => round \in Round
         /\ round = NoRound => round.id = 0 /\ round.window = 0
<1>1. round \in Round \/ round = NoRound
  BY DEF StateTyped
<1>2. /\ NoRound.id = 0 /\ NoRound.window = 0 /\ NoRound.started = 0
      /\ NoRound.percent = 0 /\ NoRound.blocked \in BOOLEAN
  BY DEF NoRound
<1>3. CASE round \in Round
  <2>1. /\ round.id \in Nat \ {0} /\ round.window \in Nat /\ round.started \in Nat
        /\ round.percent \in Nat /\ round.blocked \in BOOLEAN
    BY <1>3 DEF Round
  <2>2. round # NoRound
    BY <1>2, <2>1
  <2> QED BY <1>3, <2>1, <2>2
<1>4. CASE round = NoRound
  <2>1. /\ round.id = 0 /\ round.window = 0 /\ round.started = 0 /\ round.percent = 0
        /\ round.blocked \in BOOLEAN
    BY <1>2, <1>4, Zenon
  <2> QED BY <2>1
<1> QED BY <1>1, <1>3, <1>4

LEMMA NewRoundTyped ==
  ASSUME StateTyped, NEW snapshot \in Snapshot, NEW started \in Nat
  PROVE  NewRound(snapshot, started) \in Round /\ Follows(NewRound(snapshot, started))
<1> DEFINE n == round.id + 1
<1>1. n \in Nat \ {0}
  BY RoundTyped
<1>2. snapshot.window \in Nat /\ snapshot.account \in Accounts /\ snapshot.percent \in Nat
  BY DEF Snapshot
<1>3. NewRound(snapshot, started) \in Round
  <2> HIDE DEF n
  <2>1. NewRound(snapshot, started) =
          [id |-> n, window |-> snapshot.window, account |-> snapshot.account,
           started |-> started, status |-> "VERIFIED", percent |-> snapshot.percent,
           blocked |-> FALSE, estimate |-> NoSnapshot]
    BY DEF NewRound, n
  <2> QED BY <1>1, <1>2, <2>1 DEF Round
<1> QED BY <1>3 DEF Follows, NewRound

LEMMA DoubtedTyped ==
  ASSUME StateTyped, round \in Round, NEW percent \in Nat
  PROVE  Doubted(percent) \in Round /\ Follows(Doubted(percent))
BY DEF Doubted, Round, Follows

LEMMA SyncedTyped ==
  ASSUME StateTyped, NEW snapshot \in Snapshot, snapshot.window > 0
  PROVE  Synced(snapshot) \in Round /\ Follows(Synced(snapshot))
<1>1. snapshot.window \in Nat /\ snapshot.percent \in Nat /\ clock.first \in Nat
  BY DEF Snapshot, StateTyped
<1>2. CASE snapshot.window > round.window
  <2>1. Synced(snapshot) = NewRound(snapshot, clock.first)
    BY <1>1, <1>2, RoundTyped DEF Synced
  <2> QED BY <1>1, <2>1, NewRoundTyped
<1>3. CASE ~(snapshot.window > round.window)
  <2>1. round \in Round
    BY <1>1, <1>3, RoundTyped
  <2>2. CASE snapshot.window < round.window
    <3>1. Synced(snapshot) = Doubted(0)
      BY <1>1, <1>3, <2>2, RoundTyped DEF Synced
    <3> QED BY <2>1, <3>1, DoubtedTyped
  <2>3. CASE snapshot.window = round.window /\ snapshot.account # round.account
    <3>1. Synced(snapshot) = Doubted(round.percent)
      BY <1>1, <2>3, RoundTyped DEF Synced
    <3> QED BY <2>1, <3>1, DoubtedTyped, RoundTyped
  <2>4. CASE snapshot.window = round.window /\ snapshot.account = round.account
    <3> DEFINE r == [round EXCEPT !.status = "VERIFIED", !.percent = snapshot.percent,
                                  !.blocked = @ \/ snapshot.percent < round.percent]
    <3>1. Synced(snapshot) = r
      BY <1>1, <2>4, RoundTyped DEF Synced
    <3>2. (round.blocked \/ snapshot.percent < round.percent) \in BOOLEAN
      OBVIOUS
    <3>3. r \in Round
      BY <1>1, <2>1, <3>2 DEF Round
    <3>4. Follows(r)
      BY <2>1 DEF Follows, Round
    <3> HIDE DEF r
    <3> QED BY <3>1, <3>3, <3>4
  <2> QED BY <1>1, <1>3, <2>2, <2>3, <2>4, RoundTyped
<1> QED BY <1>2, <1>3

LEMMA SyncTyped ==
  ASSUME StateTyped, NEW p \in Processes, sync(p)
  PROVE  /\ StateTyped' /\ Moved({p}) /\ call[p].step = "store"
         /\ UNCHANGED <<notice, told>>
         /\ Follows(round')
<1>1. call[p] \in CallState /\ Placed(call[p]) /\ call[p].step = "store"
      /\ UNCHANGED <<clock, platform, refresh, on, jobs, notice, told>>
  BY DEF StateTyped, sync, Is
<1>2. call[p].seen \in Snapshot /\ call[p].seen.window > 0
  BY <1>1 DEF Placed
<1>3. round' = round \/ round' = Synced(call[p].seen)
  BY DEF sync
<1>4. round' \in Round \cup {NoRound} /\ Follows(round')
  <2>1. Follows(round)
    BY DEF Follows
  <2> QED BY <1>2, <1>3, <2>1, SyncedTyped DEF StateTyped
<1>5. round'.id \in Nat
  BY <1>4 DEF Round, NoRound
<1> DEFINE next == [At("estimate", "before") EXCEPT !.cycle = round'.id, !.ends = call[p].ends]
<1>6. Plain(next)
  <2>1. At("estimate", "before") \in CallState /\ Plain(At("estimate", "before"))
        /\ At("estimate", "before").job = "estimate" /\ At("estimate", "before").step = "before"
    BY AtPlain DEF JobNames, Steps, Telling
  <2>2. call[p].ends \in BOOLEAN
    BY <1>1 DEF CallState
  <2> DEFINE start == At("estimate", "before")
  <2> HIDE DEF start
  <2>3. /\ next \in CallState /\ next.job = "estimate" /\ next.step = "before"
    BY <1>5, <2>1, <2>2 DEF CallState, start
  <2> HIDE DEF next
  <2> QED BY <2>3 DEF Plain, Placed
<1>7. call' = [call EXCEPT ![p] = IF p \in Commands THEN Quiet ELSE next]
  BY DEF sync
<1> HIDE DEF next
<1>8. Moved({p})
  BY <1>6, <1>7, QuietPlain, StepMoves
<1>9. call' \in [Processes -> CallState] /\ \A q \in Processes : Placed(call'[q])
  BY <1>8, MovedPlaced
<1> QED BY <1>1, <1>4, <1>8, <1>9 DEF StateTyped

\* The notices that there are stay as they are.
NoticesStay == \A n \in Notices : notice[n].status # "NONE" => notice'[n] = notice[n]

Keys == {"reset", "failed"} \X Nat \X Accounts

LEMMA QueuedTyped ==
  ASSUME StateTyped, NEW key \in Keys
  PROVE  /\ Queued(key) \in [Notices -> Row]
         /\ \A n \in Notices : notice[n].status # "NONE" => Queued(key)[n] = notice[n]
<1> DEFINE free == {n \in Notices : notice[n] = NoRow}
           new == [NoRow EXCEPT !.status = "PENDING", !.key = key]
<1>1. notice \in [Notices -> Row]
  BY DEF StateTyped
<1>2. CASE Queued(key) = notice
  BY <1>1, <1>2
<1>3. CASE free # {} /\ Queued(key) = [notice EXCEPT ![First(free)] = new]
  <2>1. First(free) \in free
    BY <1>3, LeastOne
  <2>2. 0 \in 0 .. Lease
    BY TimeAssumption
  <2>3. NoRow \in Row
    BY <2>2 DEF Row, NoRow
  <2>4. new \in Row
    BY <2>3 DEF Row, Keys
  <2>5. NoRow.status = "NONE"
    BY DEF NoRow
  <2>6. \A n \in Notices : notice[n].status # "NONE" => n # First(free)
    BY <2>1, <2>5
  <2> HIDE DEF free, new
  <2> QED BY <1>1, <1>3, <2>4, <2>6
<1>4. Queued(key) = notice \/ (free # {} /\ Queued(key) = [notice EXCEPT ![First(free)] = new])
  BY DEF Queued
<1> QED BY <1>2, <1>3, <1>4

LEMMA ResetTyped ==
  ASSUME StateTyped, NEW p \in Processes, _commit_reset(p) \/ queue_reset_failure(p)
  PROVE  /\ StateTyped' /\ Moved({p}) /\ call[p].step \in {"reset", "alert"}
         /\ NoticesStay /\ told' = told
         /\ Follows(round')
<1>1. call[p] \in CallState /\ Placed(call[p]) /\ round \in Round \cup {NoRound}
      /\ notice \in [Notices -> Row]
  BY DEF StateTyped
<1>2. call[p].step \in {"reset", "alert"}
      /\ UNCHANGED <<clock, platform, refresh, on, jobs, told>>
  BY DEF _commit_reset, queue_reset_failure, Is
<1>3. call[p].seen \in Snapshot
  BY <1>1, <1>2 DEF Placed
<1>4. call[p].cut \in Nat /\ call[p].cycle \in Nat /\ call[p].seen.account \in Accounts
  BY <1>1, <1>3 DEF CallState, Snapshot
<1>5. Fail(p) \/ call' = [call EXCEPT ![p] = Quiet]
  BY DEF _commit_reset, queue_reset_failure
<1>6. Moved({p})
  BY <1>5, FailMoves, QuietPlain, StepMoves
<1>7. round' = round \/ round' = NewRound(call[p].seen, call[p].cut)
  BY DEF _commit_reset, queue_reset_failure
<1>8. round' \in Round \cup {NoRound} /\ Follows(round')
  <2>1. Follows(round)
    BY DEF Follows
  <2>2. /\ NewRound(call[p].seen, call[p].cut) \in Round
        /\ Follows(NewRound(call[p].seen, call[p].cut))
    BY <1>3, <1>4, NewRoundTyped
  <2> QED BY <1>1, <1>7, <2>1, <2>2
<1>9. PICK key \in Keys : notice' = notice \/ notice' = Queued(key)
  <2>1. /\ <<"reset", round.id, call[p].seen.account>> \in Keys
        /\ <<"failed", call[p].cycle, call[p].seen.account>> \in Keys
    BY <1>4, RoundTyped DEF Keys
  <2>2. \/ notice' = notice
        \/ notice' = Queued(<<"reset", round.id, call[p].seen.account>>)
        \/ notice' = Queued(<<"failed", call[p].cycle, call[p].seen.account>>)
    BY DEF _commit_reset, queue_reset_failure
  <2> QED BY <2>1, <2>2, Zenon
<1>10. notice' \in [Notices -> Row] /\ NoticesStay
  BY <1>1, <1>9, QueuedTyped DEF NoticesStay
<1>11. call' \in [Processes -> CallState] /\ \A q \in Processes : Placed(call'[q])
  BY <1>6, MovedPlaced
<1> QED BY <1>2, <1>6, <1>8, <1>10, <1>11 DEF StateTyped

\* The round as it is, or none.
LEMMA CurrentTyped ==
  ASSUME StateTyped
  PROVE  /\ Current \in Round \cup {NoRound}
         /\ Current # NoRound =>
              /\ round \in Round
              /\ Current.id = round.id /\ Current.window = round.window
              /\ Current.account = round.account /\ Current.started = round.started
         /\ Current.id \in Nat /\ Current.id <= round.id
         /\ Current.id = round.id => Current.window = round.window
<1> DEFINE r == IdentityOf(round)
<1>1. /\ r \in Round \cup {NoRound}
      /\ r.id = round.id /\ r.window = round.window
      /\ r.account = round.account /\ r.started = round.started
      /\ r # NoRound => round \in Round
  <2>1. CASE round \in Round
    BY <2>1 DEF IdentityOf, Round
  <2>2. CASE round = NoRound
    <3> DEFINE Blank == [id : {0}, window : {0}, account : {None}, started : {0},
                         status : {"NONE"}, percent : {0}, blocked : {FALSE},
                         estimate : {NoSnapshot}]
    <3>1. round \in Blank
      BY <2>2 DEF NoRound
    <3>2. r \in Blank
      BY <3>1 DEF IdentityOf
    <3>3. ASSUME NEW x \in Blank PROVE x = NoRound
      <4>1. x = [id |-> x.id, window |-> x.window, account |-> x.account,
                 started |-> x.started, status |-> x.status, percent |-> x.percent,
                 blocked |-> x.blocked, estimate |-> x.estimate]
        OBVIOUS
      <4>2. /\ x.id = 0 /\ x.window = 0 /\ x.account = None /\ x.started = 0
            /\ x.status = "NONE" /\ x.percent = 0 /\ x.blocked = FALSE
            /\ x.estimate = NoSnapshot
        OBVIOUS
      <4> HIDE DEF Blank
      <4> QED BY <4>1, <4>2, Zenon DEF NoRound
    <3>4. r = NoRound
      BY <3>2, <3>3
    <3> QED BY <2>2, <3>4
  <2> QED BY <2>1, <2>2 DEF StateTyped
<1>2. CASE Current = r
  <2> HIDE DEF r
  <2>1. PICK n \in Nat : round.id = n
    BY RoundTyped
  <2>2. Current.id = n
    BY <1>1, <1>2, <2>1
  <2> QED BY <1>1, <1>2, <2>1, <2>2
<1>3. CASE Current = NoRound
  <2>1. NoRound.id = 0 /\ NoRound.window = 0
    BY DEF NoRound
  <2>2. round.id = 0 => round.window = 0
    <3>1. CASE round \in Round
      BY <3>1 DEF Round
    <3>2. CASE round = NoRound
      BY <2>1, <3>2
    <3> QED BY <3>1, <3>2 DEF StateTyped
  <2> QED BY <1>3, <2>1, <2>2, RoundTyped
<1>4. Current = r \/ Current = NoRound
  BY DEF Current
<1> HIDE DEF r
<1> QED BY <1>2, <1>3, <1>4

\* What a loop at the record step has read: an estimate may be made of the last round only
\* from a snapshot of its window.
ReadSound(c) ==
  c.step = "record" =>
    /\ c.local.id <= round.id
    /\ c.local.id = round.id => c.local.window = round.window
    /\ c.good => c.seen.window = c.local.window

\* The round keeps its identity, and what it has stored is an estimate of it.
Recorded(r) ==
  /\ r.id = round.id /\ r.window = round.window /\ r.account = round.account
  /\ r.started = round.started
  /\ \/ r.estimate = round.estimate
     \/ /\ r.estimate.id = round.id /\ r.estimate.account = round.account
        /\ r.estimate.window = round.window /\ r.estimate.at >= round.started

LEMMA EstimatesMove ==
  ASSUME StateTyped, NEW p \in Processes,
         SamplesMissing(p) \/ _current_cycle(p) \/ get_usage(p)
  PROVE  Moved({p})
<1>1. call[p] \in CallState /\ Placed(call[p])
  BY DEF StateTyped
<1>2. CASE SamplesMissing(p)
  BY <1>2, FailMoves DEF SamplesMissing
<1>3. CASE _current_cycle(p)
  <2> DEFINE c == [call[p] EXCEPT !.before = Current, !.step = "claim"]
  <2>1. call' = [call EXCEPT ![p] = c]
    BY <1>3 DEF _current_cycle, StateTyped
  <2>2. "claim" \in Steps
    BY DEF Steps
  <2>3. c \in CallState /\ c.step = "claim" /\ c.job = call[p].job /\ c.seen = call[p].seen
    BY <1>1, <2>2, CurrentTyped DEF CallState
  <2> HIDE DEF c
  <2>4. Plain(c)
    BY <1>1, <2>3 DEF Plain, Placed
  <2> QED BY <2>1, <2>4, StepMoves
<1>4. CASE get_usage(p)
  <2> DEFINE good == platform.snapshot.window = clock.window
             d == [call[p] EXCEPT !.seen = platform.snapshot, !.step = "local"]
             c == [d EXCEPT !.good = good]
  <2>1. call' = [call EXCEPT ![p] = c]
    BY <1>4 DEF get_usage, StateTyped
  <2>2. good \in BOOLEAN
    OBVIOUS
  <2>3. d \in CallState /\ Plain(d)
    BY ReadingPlain
  <2>4. d.step = "local"
    BY <1>1 DEF CallState
  <2> HIDE DEF good, d
  <2>5. c \in CallState /\ c.step = d.step /\ c.job = d.job /\ c.seen = d.seen
    BY <2>2, <2>3 DEF CallState
  <2> HIDE DEF c
  <2>6. Plain(c)
    BY <2>3, <2>4, <2>5 DEF Plain, Placed
  <2> QED BY <2>1, <2>6, StepMoves
<1> QED BY <1>2, <1>3, <1>4

\* The calls are one step further, whatever the step.
LEMMA CallKept ==
  ASSUME StateTyped, NEW p \in Processes, NEW c \in CallState, Placed(c),
         call' = [call EXCEPT ![p] = c]
  PROVE  /\ call' \in [Processes -> CallState] /\ \A q \in Processes : Placed(call'[q])
         /\ call'[p] = c /\ \A q \in Processes : q # p => call'[q] = call[q]
BY DEF StateTyped

LEMMA ReadLocalTyped ==
  ASSUME StateTyped, NEW p \in Processes, _read_local(p)
  PROVE  /\ StateTyped'
         /\ call[p].step = "local" /\ call'[p].step = "record"
         /\ UNCHANGED <<round, notice, told>>
         /\ \A q \in Processes : q # p => call'[q] = call[q]
         /\ ReadSound(call'[p])
<1>1. call[p] \in CallState /\ Placed(call[p])
  BY DEF StateTyped
<1>2. /\ call[p].step = "local"
      /\ UNCHANGED <<clock, platform, round, refresh, on, jobs, notice, told>>
  BY DEF _read_local, Is
<1>3. PICK good \in BOOLEAN :
        /\ good => call[p].seen.window = Current.window
        /\ call' = [call EXCEPT ![p].local = Current, ![p].step = "record", ![p].good = good]
  <2>1. PICK spent \in BOOLEAN :
          LET snapshot == call[p].seen
          IN call' = [call EXCEPT ![p].local = Current, ![p].step = "record",
               ![p].good = /\ @ /\ spent /\ snapshot.percent > 0
                           /\ Current = call[p].before /\ Current.status = "VERIFIED"
                           /\ ~Current.blocked
                           /\ snapshot.account = Current.account
                           /\ snapshot.window = Current.window
                           /\ snapshot.at >= Current.started]
    BY Zenon DEF _read_local
  <2> DEFINE good == /\ call[p].good /\ spent /\ call[p].seen.percent > 0
                     /\ Current = call[p].before /\ Current.status = "VERIFIED"
                     /\ ~Current.blocked
                     /\ call[p].seen.account = Current.account
                     /\ call[p].seen.window = Current.window
                     /\ call[p].seen.at >= Current.started
  <2>2. good \in BOOLEAN /\ (good => call[p].seen.window = Current.window)
    OBVIOUS
  <2>3. call' = [call EXCEPT ![p].local = Current, ![p].step = "record", ![p].good = good]
    BY <2>1 DEF StateTyped
  <2> HIDE DEF good
  <2> QED BY <2>2, <2>3
<1> DEFINE c == [call[p] EXCEPT !.local = Current, !.step = "record", !.good = good]
<1>4. call' = [call EXCEPT ![p] = c]
  BY <1>3 DEF StateTyped
<1>5. "record" \in Steps
  BY DEF Steps
<1>6. /\ c \in CallState /\ c.step = "record" /\ c.local = Current /\ c.good = good
      /\ c.job = call[p].job /\ c.seen = call[p].seen
  BY <1>1, <1>3, <1>5, CurrentTyped DEF CallState
<1> HIDE DEF c
<1>7. Placed(c)
  BY <1>1, <1>2, <1>6 DEF Placed
<1>8. /\ call' \in [Processes -> CallState] /\ \A q \in Processes : Placed(call'[q])
      /\ call'[p] = c /\ \A q \in Processes : q # p => call'[q] = call[q]
  BY <1>4, <1>6, <1>7, CallKept
<1>9. ReadSound(c)
  BY <1>3, <1>6, CurrentTyped DEF ReadSound
<1>10. StateTyped'
  BY <1>2, <1>8 DEF StateTyped
<1> QED BY <1>2, <1>6, <1>8, <1>9, <1>10

LEMMA RecordTyped ==
  ASSUME StateTyped, EstimateIsOfItsRound, NEW p \in Processes, ReadSound(call[p]),
         record_estimate(p)
  PROVE  /\ StateTyped' /\ Moved({p})
         /\ call[p].step = "record"
         /\ UNCHANGED <<notice, told>>
         /\ Recorded(round')
<1>1. call[p] \in CallState /\ Placed(call[p]) /\ call[p].step = "record"
      /\ UNCHANGED <<clock, platform, refresh, on, jobs, notice, told>> /\ Fail(p)
  BY DEF StateTyped, record_estimate, Is
<1>2. Moved({p})
  BY <1>1, FailMoves
<1>3. call' \in [Processes -> CallState] /\ \A q \in Processes : Placed(call'[q])
  BY <1>2, MovedPlaced
<1> DEFINE seen == call[p].seen
           new == [id |-> call[p].local.id, account |-> seen.account, window |-> seen.window,
                   at |-> seen.at, percent |-> seen.percent]
<1>4. round' \in Round \cup {NoRound} /\ Recorded(round')
  <2>1. CASE round' = round
    BY <2>1 DEF Recorded, StateTyped
  <2>2. CASE Recordable(p) /\ round' = [round EXCEPT !.blocked = TRUE]
    <3>1. round \in Round
      BY <2>2, CurrentTyped DEF Recordable
    <3> QED BY <2>2, <3>1 DEF Round, Recorded
  <2>3. CASE Recordable(p) /\ call[p].good /\ round' = [round EXCEPT !.estimate = new]
    <3>1. /\ round \in Round /\ call[p].local.id = round.id
          /\ seen.account = round.account /\ seen.at >= round.started
      BY <2>3, CurrentTyped DEF Recordable
    <3>2. seen.window = round.window
      BY <1>1, <2>3, <3>1 DEF ReadSound
    <3>3. seen \in Snapshot
      BY <1>1 DEF Placed
    <3>4. /\ new \in Estimate
          /\ new.id = round.id /\ new.account = round.account
          /\ new.window = round.window /\ new.at >= round.started
      BY <3>1, <3>2, <3>3 DEF Snapshot, Estimate, Round
    <3> HIDE DEF new
    <3>5. round' \in Round /\ round'.estimate = new
          /\ round'.id = round.id /\ round'.window = round.window
          /\ round'.account = round.account /\ round'.started = round.started
      BY <2>3, <3>1, <3>4 DEF Round
    <3> QED BY <3>4, <3>5 DEF Recorded
  <2>4. \/ round' = round
        \/ Recordable(p) /\ round' = [round EXCEPT !.blocked = TRUE]
        \/ Recordable(p) /\ call[p].good /\ round' = [round EXCEPT !.estimate = new]
    BY DEF record_estimate
  <2> QED BY <2>1, <2>2, <2>3, <2>4
<1> HIDE DEF new
<1> QED BY <1>1, <1>2, <1>3, <1>4 DEF StateTyped

LEMMA EstimatesTyped ==
  ASSUME StateTyped, NEW p \in Processes,
         SamplesMissing(p) \/ _current_cycle(p) \/ get_usage(p)
  PROVE  /\ StateTyped' /\ Moved({p}) /\ call[p].step \in {"before", "usage"}
         /\ UNCHANGED <<round, notice, told>>
<1>1. call[p].step \in {"before", "usage"} /\ Elsewhere /\ refresh' = refresh
  BY DEF SamplesMissing, _current_cycle, get_usage, Is, Elsewhere
<1>2. Moved({p})
  BY EstimatesMove
<1>3. {p} \in SUBSET Processes /\ refresh \in [age : 0 .. Cooldown, holder : Processes \cup {None}]
  BY DEF StateTyped
<1>4. StateTyped'
  BY <1>1, <1>2, <1>3, CallsTyped
<1> QED BY <1>1, <1>2, <1>4 DEF Elsewhere

\* What the loop does next is plain.
LEMMA RestPlain ==
  ASSUME StateTyped, NEW l \in Processes
  PROVE  Plain(Delivered(l)) /\ Plain(Rest(l))
<1>1. call[l] \in CallState
  BY DEF StateTyped
<1>2. call[l].ends \in BOOLEAN /\ call[l].todo \in SUBSET Notices
  BY <1>1 DEF CallState
<1>3. Plain(At("none", "wait"))
  <2>1. "none" \in JobNames /\ "wait" \in Steps /\ "wait" \notin Telling
    BY DEF JobNames, Steps, Telling
  <2> QED BY <2>1, AtPlain
<1>4. Plain(Delivered(l))
  BY <1>3, QuietPlain DEF Delivered
<1> DEFINE todo == call[l].todo \ {First(call[l].todo)}
           c == [At("deliver", "claim notice") EXCEPT !.todo = todo, !.ends = call[l].ends]
<1>5. todo \in SUBSET Notices
  BY <1>2
<1> DEFINE start == At("deliver", "claim notice")
<1>6. start \in CallState /\ start.job = "deliver" /\ start.step = "claim notice"
  <2>1. "deliver" \in JobNames /\ "claim notice" \in Steps
    BY DEF JobNames, Steps, Delivering
  <2> QED BY <2>1, AtPlain
<1>7. Plain(c)
  <2> HIDE DEF start, todo
  <2>1. c = [start EXCEPT !.todo = todo, !.ends = call[l].ends]
    BY DEF start
  <2>2. c \in CallState /\ c.job = "deliver" /\ c.step = "claim notice"
    BY <1>2, <1>5, <1>6, <2>1 DEF CallState
  <2> HIDE DEF c
  <2> QED BY <2>2 DEF Plain, Placed
<1>8. Rest(l) = IF todo = {} THEN Delivered(l) ELSE c
  BY DEF Rest
<1> HIDE DEF c, todo
<1> QED BY <1>4, <1>7, <1>8

LEMMA ListTyped ==
  ASSUME StateTyped, NEW l \in Processes, deliver_pending(l)
  PROVE  /\ StateTyped' /\ Moved({l}) /\ call[l].step = "list"
         /\ UNCHANGED <<round, notice, told>>
<1>1. call[l] \in CallState /\ Placed(call[l])
  BY DEF StateTyped
<1>2. call[l].step = "list" /\ Elsewhere /\ refresh' = refresh
  BY DEF deliver_pending, Is, Elsewhere
<1> DEFINE c == [call[l] EXCEPT !.todo = Listed, !.step = "claim notice"]
<1>3. Listed \in SUBSET Notices /\ "claim notice" \in Steps
  BY DEF Listed, Steps, Delivering
<1>4. c \in CallState /\ c.step = "claim notice" /\ c.job = call[l].job /\ c.seen = call[l].seen
  BY <1>1, <1>3 DEF CallState
<1>5. call' = [call EXCEPT ![l] = Delivered(l)] \/ call' = [call EXCEPT ![l] = c]
  BY DEF deliver_pending, StateTyped
<1> HIDE DEF c
<1>6. Plain(c)
  BY <1>1, <1>4 DEF Plain, Placed
<1>7. Moved({l})
  BY <1>5, <1>6, RestPlain, StepMoves
<1>8. {l} \in SUBSET Processes /\ refresh \in [age : 0 .. Cooldown, holder : Processes \cup {None}]
  BY DEF StateTyped
<1>9. StateTyped'
  BY <1>2, <1>7, <1>8, CallsTyped
<1> QED BY <1>2, <1>7, <1>9 DEF Elsewhere

\* A claim is given up, or it is the next attempt of a notice that is due.
Claims(l, n) ==
  /\ n = First(call[l].todo) /\ n \in Listed
  /\ notice'[n].status = notice[n].status /\ notice'[n].retry = Lease
  /\ \A m \in Notices : m # n => notice'[m] = notice[m]
  /\ call'[l].step = "send" /\ call'[l].todo = call[l].todo
  /\ call'[l].attempt = notice'[n].attempt
  /\ \A q \in Processes : q # l => call'[q] = call[q]

LEMMA ClaimTyped ==
  ASSUME StateTyped, NEW l \in Processes, _claim(l)
  PROVE  /\ StateTyped' /\ call[l].step = "claim notice"
         /\ UNCHANGED <<round, told>>
         /\ \/ Moved({l}) /\ notice' = notice
            \/ \E n \in Notices : Claims(l, n)
<1>1. call[l] \in CallState /\ Placed(call[l]) /\ notice \in [Notices -> Row]
  BY DEF StateTyped
<1>2. /\ call[l].step = "claim notice"
      /\ UNCHANGED <<clock, platform, round, refresh, on, jobs, told>>
  BY DEF _claim, Is
<1> DEFINE n == First(call[l].todo)
<1>3. CASE n \notin Listed
  <2>1. call' = [call EXCEPT ![l] = Rest(l)] /\ notice' = notice
    BY <1>3 DEF _claim
  <2>2. Moved({l})
    BY <2>1, RestPlain, StepMoves
  <2>3. {l} \in SUBSET Processes /\ Elsewhere
        /\ refresh' \in [age : 0 .. Cooldown, holder : Processes \cup {None}]
    BY <1>2, <2>1 DEF StateTyped, Elsewhere
  <2>4. StateTyped'
    BY <2>2, <2>3, CallsTyped
  <2> QED BY <1>2, <2>1, <2>2, <2>4
<1>4. CASE n \in Listed
  <2>1. n \in Notices /\ notice[n] \in Row
    BY <1>1, <1>4 DEF Listed
  <2> DEFINE row == [notice[n] EXCEPT !.attempt = @ + 1, !.retry = Lease]
  <2>2. /\ notice' = [notice EXCEPT ![n] = row]
        /\ call' = [call EXCEPT ![l].attempt = notice'[n].attempt, ![l].step = "send"]
    BY <1>1, <1>4 DEF _claim
  <2>3. /\ row \in Row /\ row.status = notice[n].status /\ row.retry = Lease
    <3>1. Lease \in 0 .. Lease /\ notice[n].attempt + 1 \in Nat
      BY <2>1, TimeAssumption DEF Row
    <3> QED BY <2>1, <3>1 DEF Row
  <2> HIDE DEF row
  <2>4. /\ notice' \in [Notices -> Row] /\ notice'[n] = row
        /\ \A m \in Notices : m # n => notice'[m] = notice[m]
    BY <1>1, <2>1, <2>2, <2>3
  <2>5. row.attempt \in Nat /\ "send" \in Steps
    BY <2>3 DEF Row, Steps, Delivering
  <2> DEFINE c == [call[l] EXCEPT !.attempt = row.attempt, !.step = "send"]
  <2>6. call' = [call EXCEPT ![l] = c]
    <3>1. call' = [call EXCEPT ![l].attempt = row.attempt, ![l].step = "send"]
      BY <2>2, <2>4
    <3> QED BY <3>1 DEF StateTyped
  <2>7. /\ c \in CallState /\ c.step = "send" /\ c.attempt = row.attempt
        /\ c.todo = call[l].todo /\ c.job = call[l].job /\ c.seen = call[l].seen
    BY <1>1, <2>5 DEF CallState
  <2> HIDE DEF c
  <2>8. Placed(c)
    BY <1>1, <2>7 DEF Placed
  <2>9. /\ call' \in [Processes -> CallState] /\ \A q \in Processes : Placed(call'[q])
        /\ call'[l] = c /\ \A q \in Processes : q # l => call'[q] = call[q]
    BY <2>6, <2>7, <2>8, CallKept
  <2>10. StateTyped'
    BY <1>2, <2>4, <2>9 DEF StateTyped
  <2>11. Claims(l, n)
    BY <1>4, <2>3, <2>4, <2>7, <2>9 DEF Claims
  <2> QED BY <1>2, <2>1, <2>10, <2>11
<1> QED BY <1>3, <1>4

\* An attempt ends with copies that arrived and doubts about it.
Attempts(n, copies, doubts) ==
  told' = [told EXCEPT ![n] = [copies |-> @.copies + copies, doubts |-> @.doubts + doubts]]

LEMMA ToldTyped ==
  ASSUME StateTyped, NEW n, NEW copies \in Nat, NEW doubts \in Nat, Attempts(n, copies, doubts)
  PROVE  /\ told' \in [Notices -> [copies : Nat, doubts : Nat]]
         /\ n \in Notices => /\ told'[n].copies = told[n].copies + copies
                             /\ told'[n].doubts = told[n].doubts + doubts
         /\ \A m \in Notices : m # n => told'[m] = told[m]
<1>1. told \in [Notices -> [copies : Nat, doubts : Nat]]
  BY DEF StateTyped
<1> DEFINE new == [copies |-> told[n].copies + copies, doubts |-> told[n].doubts + doubts]
<1>2. told' = [told EXCEPT ![n] = new]
  BY DEF Attempts
<1>3. CASE n \in Notices
  <2>1. told[n] \in [copies : Nat, doubts : Nat]
    BY <1>1, <1>3
  <2>2. /\ new \in [copies : Nat, doubts : Nat]
        /\ new.copies = told[n].copies + copies /\ new.doubts = told[n].doubts + doubts
    BY <2>1
  <2> HIDE DEF new
  <2>3. told'[n] = new /\ \A m \in Notices : m # n => told'[m] = told[m]
    BY <1>1, <1>2, <1>3
  <2>4. told' \in [Notices -> [copies : Nat, doubts : Nat]]
    BY <1>1, <1>2, <2>2
  <2> QED BY <2>2, <2>3, <2>4
<1>4. CASE n \notin Notices
  <2> HIDE DEF new
  <2>1. told' = told
    BY <1>1, <1>2, <1>4
  <2> QED BY <1>1, <1>4, <2>1
<1> QED BY <1>3, <1>4

\* The request was sent; the call remembers whether the answer was good.
Sent(l, good) ==
  /\ call'[l].step = "finish" /\ call'[l].todo = call[l].todo
  /\ call'[l].attempt = call[l].attempt /\ call'[l].good = good
  /\ \A q \in Processes : q # l => call'[q] = call[q]

LEMMA SentTyped ==
  ASSUME StateTyped, NEW l \in Processes, NEW good \in BOOLEAN,
         call' = [call EXCEPT ![l].good = good, ![l].step = "finish"]
  PROVE  /\ call' \in [Processes -> CallState] /\ \A q \in Processes : Placed(call'[q])
         /\ Sent(l, good)
<1> DEFINE c == [call[l] EXCEPT !.good = good, !.step = "finish"]
<1>1. call[l] \in CallState /\ Placed(call[l])
  BY DEF StateTyped
<1>2. call' = [call EXCEPT ![l] = c] /\ "finish" \in Steps
  BY DEF StateTyped, Steps, Delivering
<1>3. /\ c \in CallState /\ c.step = "finish" /\ c.good = good /\ c.attempt = call[l].attempt
      /\ c.todo = call[l].todo /\ c.job = call[l].job /\ c.seen = call[l].seen
  BY <1>1, <1>2 DEF CallState
<1> HIDE DEF c
<1>4. Placed(c)
  BY <1>1, <1>3 DEF Placed
<1>5. /\ call' \in [Processes -> CallState] /\ \A q \in Processes : Placed(call'[q])
      /\ call'[l] = c /\ \A q \in Processes : q # l => call'[q] = call[q]
  BY <1>2, <1>3, <1>4, CallKept
<1> QED BY <1>3, <1>5 DEF Sent

LEMMA SendTyped ==
  ASSUME StateTyped, NEW l \in Processes, Send(l) \/ SendFails(l)
  PROVE  /\ StateTyped' /\ call[l].step = "send"
         /\ UNCHANGED <<round, notice>>
         /\ \/ Sent(l, TRUE) /\ Attempts(First(call[l].todo), 1, 0)
            \/ /\ Sent(l, FALSE)
               /\ \E copies \in {0, 1} : Attempts(First(call[l].todo), copies, copies)
<1>1. /\ call[l].step = "send"
      /\ UNCHANGED <<clock, platform, round, refresh, on, jobs, notice>>
  BY DEF Send, SendFails, Is
<1>2. ASSUME NEW good \in BOOLEAN, NEW copies \in Nat, NEW doubts \in Nat,
             call' = [call EXCEPT ![l].good = good, ![l].step = "finish"],
             Attempts(First(call[l].todo), copies, doubts)
      PROVE  StateTyped' /\ Sent(l, good)
  <2>1. told' \in [Notices -> [copies : Nat, doubts : Nat]]
    BY <1>2, ToldTyped
  <2>2. /\ call' \in [Processes -> CallState] /\ \A q \in Processes : Placed(call'[q])
        /\ Sent(l, good)
    BY <1>2, SentTyped
  <2> QED BY <1>1, <2>1, <2>2 DEF StateTyped
<1>3. CASE Send(l)
  <2>1. call' = [call EXCEPT ![l].good = TRUE, ![l].step = "finish"]
    BY <1>3 DEF Send
  <2>2. told' = [told EXCEPT ![First(call[l].todo)].copies = @ + 1]
    BY <1>3 DEF Send
  <2>3. Attempts(First(call[l].todo), 1, 0)
    <3> DEFINE n == First(call[l].todo)
    <3>1. told \in [Notices -> [copies : Nat, doubts : Nat]]
      BY DEF StateTyped
    <3>2. told' = [told EXCEPT ![n] = [told[n] EXCEPT !.copies = @ + 1]]
      BY <2>2
    <3> HIDE DEF n
    <3>3. CASE n \in Notices
      <4>1. told[n] \in [copies : Nat, doubts : Nat]
        BY <3>1, <3>3
      <4>2. [told[n] EXCEPT !.copies = @ + 1] =
              [copies |-> told[n].copies + 1, doubts |-> told[n].doubts + 0]
        BY <4>1
      <4> QED BY <3>2, <4>2 DEF Attempts, n
    <3>4. CASE n \notin Notices
      <4>1. told' = told
        BY <3>1, <3>2, <3>4
      <4>2. told = [told EXCEPT ![n] = [copies |-> @.copies + 1, doubts |-> @.doubts + 0]]
        BY <3>1, <3>4
      <4> QED BY <4>1, <4>2 DEF Attempts, n
    <3> QED BY <3>3, <3>4
  <2> QED BY <1>1, <1>2, <2>1, <2>3
<1>4. CASE SendFails(l)
  <2>1. call' = [call EXCEPT ![l].good = FALSE, ![l].step = "finish"]
    BY <1>4 DEF SendFails
  <2>2. PICK copies \in {0, 1} : Attempts(First(call[l].todo), copies, copies)
    BY <1>4 DEF SendFails, Attempts
  <2> QED BY <1>1, <1>2, <2>1, <2>2
<1> QED BY <1>3, <1>4

\* The row is marked only if it still is what was attempted.
Marked(l, n) ==
  IF notice[n].status # "PENDING" \/ notice[n].attempt # call[l].attempt
  THEN notice' = notice
  ELSE /\ \A m \in Notices : m # n => notice'[m] = notice[m]
       /\ n \in Notices => /\ notice'[n].attempt = notice[n].attempt
                           /\ notice'[n].status = IF call[l].good THEN "SENT" ELSE "PENDING"

LEMMA FinishTyped ==
  ASSUME StateTyped, NEW l \in Processes, _finish(l)
  PROVE  /\ StateTyped' /\ Moved({l}) /\ call[l].step = "finish"
         /\ UNCHANGED <<round, told>>
         /\ Marked(l, First(call[l].todo))
<1> DEFINE n == First(call[l].todo)
           sent == [notice[n] EXCEPT !.status = "SENT", !.retry = 0]
           again == [notice[n] EXCEPT !.retry = Lease]
<1>1. /\ call[l].step = "finish" /\ notice \in [Notices -> Row]
      /\ UNCHANGED <<clock, platform, round, refresh, on, jobs, told>>
  BY DEF _finish, Is, StateTyped
<1>2. Moved({l})
  BY RestPlain, StepMoves DEF _finish
<1>3. call' \in [Processes -> CallState] /\ \A q \in Processes : Placed(call'[q])
  BY <1>2, MovedPlaced
<1>4. \/ notice' = notice /\ (notice[n].status # "PENDING" \/ notice[n].attempt # call[l].attempt)
      \/ /\ notice[n].status = "PENDING" /\ notice[n].attempt = call[l].attempt
         /\ \/ call[l].good /\ notice' = [notice EXCEPT ![n] = sent]
            \/ ~call[l].good /\ notice' = [notice EXCEPT ![n] = again]
  BY <1>1 DEF _finish
<1>5. n \in Notices => /\ sent \in Row /\ sent.status = "SENT"
                       /\ sent.attempt = notice[n].attempt
                       /\ again \in Row /\ again.status = notice[n].status
                       /\ again.attempt = notice[n].attempt
  <2>1. n \in Notices => notice[n] \in Row
    BY <1>1
  <2>2. Lease \in 0 .. Lease /\ 0 \in 0 .. Lease
    BY TimeAssumption
  <2> HIDE DEF n
  <2> QED BY <2>1, <2>2 DEF Row
<1> HIDE DEF n, sent, again
<1>6. notice' \in [Notices -> Row] /\ Marked(l, n)
  <2>1. CASE notice' = notice /\ (notice[n].status # "PENDING" \/ notice[n].attempt # call[l].attempt)
    BY <1>1, <2>1 DEF Marked
  <2>2. ASSUME NEW row \in {sent, again}, notice[n].status = "PENDING",
               notice[n].attempt = call[l].attempt, notice' = [notice EXCEPT ![n] = row],
               row = sent <=> call[l].good
        PROVE  notice' \in [Notices -> Row] /\ Marked(l, n)
    <3>1. \A m \in Notices : m # n => notice'[m] = notice[m]
      BY <1>1, <2>2
    <3>2. CASE n \in Notices
      <4>1. notice'[n] = row /\ row \in Row /\ notice' \in [Notices -> Row]
        BY <1>1, <1>5, <2>2, <3>2
      <4>2. /\ row.attempt = notice[n].attempt
            /\ row.status = IF call[l].good THEN "SENT" ELSE "PENDING"
        BY <1>5, <2>2, <3>2
      <4> QED BY <2>2, <3>1, <4>1, <4>2 DEF Marked
    <3>3. CASE n \notin Notices
      <4>1. notice' = notice
        BY <1>1, <2>2, <3>3
      <4> QED BY <1>1, <2>2, <3>1, <3>3, <4>1 DEF Marked
    <3> QED BY <3>2, <3>3
  <2>3. sent # again \/ n \notin Notices \/ notice[n].status = "SENT"
    BY <1>5
  <2>4. CASE /\ notice[n].status = "PENDING" /\ notice[n].attempt = call[l].attempt
             /\ \/ call[l].good /\ notice' = [notice EXCEPT ![n] = sent]
                \/ ~call[l].good /\ notice' = [notice EXCEPT ![n] = again]
    <3>1. CASE n \in Notices
      BY <2>2, <2>3, <2>4, <3>1
    <3>2. CASE n \notin Notices
      <4>1. notice' = notice
        BY <1>1, <2>4, <3>2
      <4> QED BY <1>1, <2>4, <3>2, <4>1 DEF Marked
    <3> QED BY <3>1, <3>2
  <2> QED BY <1>4, <2>1, <2>4
<1> QED BY <1>1, <1>2, <1>3, <1>6 DEF StateTyped, n

\* The loop and the commands.
CommandSteps == {"check", "tick", "wait", "switch", "read", "launch", "signal", "await", "clear"}

LEMMA LoopTyped ==
  ASSUME StateTyped, NEW l \in Processes, Check(l) \/ Tick(l) \/ Wakes(l)
  PROVE  /\ StateTyped' /\ Moved({l}) /\ call[l].step \in CommandSteps
         /\ UNCHANGED <<round, notice, told>>
<1>1. call[l].step \in CommandSteps /\ Elsewhere /\ refresh' = refresh
  BY DEF Check, Tick, Wakes, Is, CommandSteps, Elsewhere
<1>2. Plain(At("none", "tick")) /\ Plain(At("none", "wait")) /\ Plain(At("sync", "fetch"))
  <2>1. /\ {"none", "sync"} \subseteq JobNames /\ {"tick", "wait", "fetch"} \subseteq Steps
        /\ "tick" \notin Telling /\ "wait" \notin Telling /\ "fetch" \notin Telling
    BY DEF JobNames, Steps, Requests, Telling
  <2> QED BY <2>1, AtPlain
<1>3. CASE Wakes(l)
  <2>1. Goto(l, "check") /\ "check" \in Steps
    BY <1>3 DEF Wakes, Steps
  <2> QED BY <2>1, <1>1, <1>3, GotoMoves, CallsTyped, SMTT(15), ZenonT(40) DEF StateTyped, Elsewhere
<1>4. CASE Check(l) \/ Tick(l)
  <2>1. PICK c \in {Quiet, At("none", "tick"), At("none", "wait"), At("sync", "fetch")} :
          call' = [call EXCEPT ![l] = c]
    BY <1>4 DEF Check, Tick
  <2>2. Moved({l})
    BY <1>2, <2>1, QuietPlain, StepMoves
  <2> QED BY <1>1, <2>2, CallsTyped DEF StateTyped, Elsewhere
<1> QED BY <1>3, <1>4

LEMMA SwitchTyped ==
  ASSUME StateTyped, NEW c \in Processes,
         set_sync_enabled(c) \/ sync_enabled(c) \/ Ended(c) \/ Clears(c)
  PROVE  /\ StateTyped' /\ Moved({c}) /\ call[c].step \in CommandSteps
         /\ UNCHANGED <<round, notice, told>>
<1>1. /\ call[c].step \in CommandSteps
      /\ UNCHANGED <<clock, platform, round, refresh, notice, told>>
  BY DEF set_sync_enabled, sync_enabled, Ended, Clears, Is, CommandSteps
<1>2. Moved({c})
  <2>1. {"read", "signal", "launch", "clear"} \subseteq Steps
    BY DEF Steps
  <2>2. CASE set_sync_enabled(c) \/ Ended(c)
    <3>1. PICK step \in {"read", "signal", "clear"} : Goto(c, step)
      BY <2>2 DEF set_sync_enabled, Ended
    <3> QED BY <2>1, <3>1, GotoMoves
  <2>3. CASE sync_enabled(c)
    <3>1. \/ call' = [call EXCEPT ![c] = [call[c] EXCEPT !.step = "launch"]]
          \/ call' = [call EXCEPT ![c] = Quiet]
      BY <2>3 DEF sync_enabled, StateTyped
    <3>2. Plain([call[c] EXCEPT !.step = "launch"])
      BY <2>1, StepPlain
    <3> QED BY <3>1, <3>2, QuietPlain, StepMoves
  <2>4. CASE Clears(c)
    BY <2>4, QuietPlain, StepMoves DEF Clears
  <2> QED BY <2>2, <2>3, <2>4
<1>3. call' \in [Processes -> CallState] /\ \A q \in Processes : Placed(call'[q])
  BY <1>2, MovedPlaced
<1>4. on' \in BOOLEAN
  BY DEF set_sync_enabled, sync_enabled, Ended, Clears, StateTyped
<1>5. jobs' \in [task : Loops \cup {None}, stop : BOOLEAN]
  BY DEF set_sync_enabled, sync_enabled, Ended, Clears, StateTyped
<1> QED BY <1>1, <1>2, <1>3, <1>4, <1>5 DEF StateTyped

\* The calls of a command and of the loop it starts, or stops.
LEMMA TwoMove ==
  ASSUME StateTyped, NEW c \in Processes, NEW l \in Processes, c # l, NEW x, NEW y,
         Plain(x), Plain(y), call' = [call EXCEPT ![c] = x, ![l] = y]
  PROVE  Moved({c, l})
<1>1. call \in [Processes -> CallState] /\ x \in CallState /\ y \in CallState
  BY DEF StateTyped, Plain
<1> DEFINE half == [call EXCEPT ![c] = x]
<1>2. half \in [Processes -> CallState] /\ half[c] = x
      /\ \A q \in Processes : q # c => half[q] = call[q]
  BY <1>1
<1>3. call' = [half EXCEPT ![l] = y]
  OBVIOUS
<1> HIDE DEF half
<1>4. call' \in [Processes -> CallState] /\ call'[l] = y
      /\ \A q \in Processes : q # l => call'[q] = half[q]
  BY <1>1, <1>2, <1>3
<1>5. call'[c] = x /\ \A q \in Processes \ {c, l} : call'[q] = call[q]
  BY <1>2, <1>4
<1> QED BY <1>4, <1>5 DEF Moved

LEMMA StartTyped ==
  ASSUME StateTyped, NEW c \in Processes, start_quota_task(c)
  PROVE  /\ StateTyped'
         /\ UNCHANGED <<round, notice, told>>
         /\ \E S \in SUBSET Processes :
              Moved(S) /\ \A q \in S : call[q].step \in {"idle"} \cup CommandSteps
<1>1. /\ call[c].step = "launch" /\ "launch" \in CommandSteps
      /\ UNCHANGED <<clock, platform, round, refresh, on, notice, told>>
  BY DEF start_quota_task, Is, CommandSteps
<1>2. CASE call' = [call EXCEPT ![c] = Quiet] /\ jobs' = jobs
  <2>1. Moved({c})
    BY <1>2, QuietPlain, StepMoves
  <2>2. call' \in [Processes -> CallState] /\ \A q \in Processes : Placed(call'[q])
    BY <2>1, MovedPlaced
  <2>3. StateTyped'
    BY <1>1, <1>2, <2>2 DEF StateTyped
  <2> QED BY <1>1, <2>1, <2>3
<1>3. CASE ~(call' = [call EXCEPT ![c] = Quiet] /\ jobs' = jobs)
  <2>1. PICK l \in Loops :
          /\ ~Alive(l) /\ jobs' = [task |-> l, stop |-> FALSE]
          /\ call' = [call EXCEPT ![c] = Quiet, ![l] = At("none", "check")]
    BY <1>3 DEF start_quota_task
  <2>2. l \in Processes /\ call[l].step = "idle" /\ l # c
    BY <1>1, <2>1 DEF Processes, Alive, Is
  <2>3. Plain(At("none", "check"))
    <3>1. "none" \in JobNames /\ "check" \in Steps /\ "check" \notin Telling
      BY DEF JobNames, Steps, Telling
    <3> QED BY <3>1, AtPlain
  <2>4. Moved({c, l})
    BY <2>1, <2>2, <2>3, QuietPlain, TwoMove
  <2>5. call' \in [Processes -> CallState] /\ \A q \in Processes : Placed(call'[q])
    BY <2>2, <2>4, MovedPlaced
  <2>6. jobs' \in [task : Loops \cup {None}, stop : BOOLEAN]
    BY <2>1
  <2>7. StateTyped'
    BY <1>1, <2>5, <2>6 DEF StateTyped
  <2>8. {c, l} \in SUBSET Processes /\ \A q \in {c, l} : call[q].step \in {"idle"} \cup CommandSteps
    BY <1>1, <2>2
  <2> QED BY <1>1, <2>4, <2>7, <2>8
<1> QED BY <1>2, <1>3

LEMMA SignalTyped ==
  ASSUME StateTyped, NEW c \in Processes, _cancel_quota_loop(c)
  PROVE  /\ StateTyped' /\ Moved({c}) /\ call[c].step \in CommandSteps
         /\ UNCHANGED <<round, notice, told>>
<1>1. /\ call[c].step \in CommandSteps
      /\ UNCHANGED <<clock, platform, round, refresh, on, notice, told>>
  BY DEF _cancel_quota_loop, Is, CommandSteps
<1>2. jobs.task \in Loops \cup {None}
  BY DEF StateTyped
<1> DEFINE start == At("stopstats", "await")
           d == [start EXCEPT !.loop = jobs.task]
<1>3. start \in CallState /\ start.job = "stopstats" /\ start.step = "await"
  <2>1. "stopstats" \in JobNames /\ "await" \in Steps
    BY DEF JobNames, Operations, Switches, Steps
  <2> QED BY <2>1, AtPlain
<1>4. ASSUME jobs.task # None, call' = [call EXCEPT ![c] = d] PROVE Moved({c})
  <2> HIDE DEF start
  <2>1. d \in CallState /\ d.job = "stopstats" /\ d.step = "await" /\ d.loop = jobs.task
    BY <1>2, <1>3 DEF CallState
  <2> HIDE DEF d
  <2>2. Plain(d)
    BY <1>2, <1>4, <2>1 DEF Plain, Placed
  <2> QED BY <1>4, <2>2, StepMoves
<1>5. ASSUME call' = [call EXCEPT ![c] = Quiet] PROVE Moved({c})
  BY <1>5, QuietPlain, StepMoves
<1>6. Moved({c})
  BY <1>4, <1>5 DEF _cancel_quota_loop
<1>7. call' \in [Processes -> CallState] /\ \A q \in Processes : Placed(call'[q])
  BY <1>6, MovedPlaced
<1>8. jobs' \in [task : Loops \cup {None}, stop : BOOLEAN]
  BY DEF _cancel_quota_loop, StateTyped
<1> QED BY <1>1, <1>6, <1>7, <1>8 DEF StateTyped

\* What a cancelled delivery leaves behind.
Abandoned(l) ==
  IF call[l].step \in {"send", "finish"}
  THEN \E copies \in IF Is(l, "send") THEN {0, 1} ELSE {0} :
         Attempts(First(call[l].todo), copies, 1)
  ELSE told' = told

LEMMA CancelsTyped ==
  ASSUME StateTyped, NEW c \in Commands, Cancels(c)
  PROVE  /\ StateTyped' /\ call[c].step = "await"
         /\ call[c].loop \in Loops /\ c \in Processes /\ call[c].loop \in Processes
         /\ UNCHANGED <<round, notice>>
         /\ Moved({c, call[c].loop})
         /\ Abandoned(call[c].loop)
<1> DEFINE l == call[c].loop
           x == [call[c] EXCEPT !.ends = TRUE]
           last == [At("deliver", "list") EXCEPT !.ends = TRUE]
<1>1. c \in Processes /\ call[c] \in CallState /\ Placed(call[c]) /\ call[c].step = "await"
      /\ UNCHANGED <<clock, platform, round, on, jobs, notice>>
  BY DEF StateTyped, Cancels, Is, Processes
<1>2. l \in Loops /\ l \in Processes /\ l # c
  BY <1>1, LoopAssumption DEF Placed, Processes
<1>3. Plain(x)
  <2>1. x \in CallState /\ x.job = call[c].job /\ x.step = "await" /\ x.loop = call[c].loop
        /\ x.seen = call[c].seen
    BY <1>1 DEF CallState
  <2> HIDE DEF x
  <2> QED BY <1>1, <2>1 DEF Plain, Placed
<1>4. Plain(last)
  <2>1. "deliver" \in JobNames /\ "list" \in Steps /\ "list" \notin Telling /\ TRUE \in BOOLEAN
    BY DEF JobNames, Steps, Delivering, Telling
  <2> QED BY <2>1, AtPlain
<1>5. PICK y \in {last, Quiet} : call' = [call EXCEPT ![c].ends = TRUE, ![l] = y]
  BY DEF Cancels
<1>6. call' = [call EXCEPT ![c] = x, ![l] = y]
  <2> HIDE DEF l
  <2> QED BY <1>1, <1>5 DEF StateTyped
<1>7. Moved({c, l})
  <2> HIDE DEF l, x, last
  <2> QED BY <1>1, <1>2, <1>3, <1>4, <1>5, <1>6, QuietPlain, TwoMove
<1>8. call' \in [Processes -> CallState] /\ \A q \in Processes : Placed(call'[q])
  BY <1>1, <1>2, <1>7, MovedPlaced
<1>9. refresh' \in [age : 0 .. Cooldown, holder : Processes \cup {None}]
  BY ReleasedTyped DEF Cancels
<1>10. Abandoned(l)
  BY DEF Cancels, Abandoned, Attempts
<1>11. told' \in [Notices -> [copies : Nat, doubts : Nat]]
  <2>1. CASE told' = told
    BY <2>1 DEF StateTyped
  <2>2. ASSUME NEW copies \in {0, 1}, Attempts(First(call[l].todo), copies, 1)
        PROVE  told' \in [Notices -> [copies : Nat, doubts : Nat]]
    <3>1. copies \in Nat /\ 1 \in Nat
      OBVIOUS
    <3> DEFINE n == First(call[l].todo)
    <3> HIDE DEF n
    <3>2. Attempts(n, copies, 1)
      BY <2>2 DEF n
    <3> QED BY <3>1, <3>2, ToldTyped
  <2>3. told' = told \/ \E copies \in {0, 1} : Attempts(First(call[l].todo), copies, 1)
    <3>1. (IF Is(l, "send") THEN {0, 1} ELSE {0}) \subseteq {0, 1}
      OBVIOUS
    <3> QED BY <1>10, <3>1, Zenon DEF Abandoned
  <2> QED BY <2>1, <2>2, <2>3
<1>12. StateTyped'
  BY <1>1, <1>8, <1>9, <1>11 DEF StateTyped
<1> QED BY <1>1, <1>2, <1>7, <1>10, <1>12

LEMMA BeginTyped ==
  ASSUME StateTyped, NEW c \in Processes, NEW job \in Operations, Begin(c, job)
  PROVE  /\ StateTyped' /\ Moved({c}) /\ call[c].step = "idle"
         /\ UNCHANGED <<round, notice, told>>
<1>1. /\ call[c].step = "idle" /\ Elsewhere /\ refresh' = refresh
      /\ refresh \in [age : 0 .. Cooldown, holder : Processes \cup {None}]
  BY QuietPlain DEF Begin, Elsewhere, StateTyped
<1> DEFINE target == IF job = "reset" THEN round.account ELSE platform.account
           seen == [NoSnapshot EXCEPT !.account = target]
           start == At(job, "claim")
           d == [start EXCEPT !.cycle = round.id, !.cut = platform.snapshot.at + 1, !.seen = seen]
<1>2. CASE job \in {"reset", "replace"}
  <2>1. target \in Accounts
    <3>1. job = "reset" => round \in Round
      BY RoundTyped DEF Begin
    <3> QED BY <3>1, SnapshotTyped DEF Round
  <2>2. seen \in Snapshot
    <3> HIDE DEF target
    <3>1. NoSnapshot = [account |-> None, window |-> 0, percent |-> 0, at |-> 0]
      BY DEF NoSnapshot
    <3>2. seen = [account |-> target, window |-> 0, percent |-> 0, at |-> 0]
      BY <3>1
    <3> QED BY <2>1, <3>2 DEF Snapshot
  <2>3. start \in CallState /\ start.job = job /\ start.step = "claim"
    <3>1. job \in JobNames /\ "claim" \in Steps
      BY DEF JobNames, Steps
    <3> QED BY <3>1, AtPlain
  <2>4. round.id \in Nat /\ platform.snapshot.at + 1 \in Nat
    BY RoundTyped, SnapshotTyped DEF Snapshot
  <2>5. call' = [call EXCEPT ![c] = d]
    BY <1>2 DEF Begin
  <2> HIDE DEF target, seen, start
  <2>6. d \in CallState /\ d.job = job /\ d.step = "claim" /\ d.seen = seen
    BY <2>2, <2>3, <2>4 DEF CallState
  <2> HIDE DEF d
  <2>7. Plain(d)
    BY <2>2, <2>6 DEF Plain, Placed
  <2>8. Moved({c})
    BY <2>5, <2>7, StepMoves
  <2> QED BY <1>1, <2>8, CallsTyped DEF Elsewhere
<1>3. CASE job \notin {"reset", "replace"}
  <2> DEFINE step == FirstStep[job]
  <2>1. call' = [call EXCEPT ![c] = At(job, step)]
    BY <1>3 DEF Begin
  <2>2. step \in {"switch", "read", "fetch"}
    <3>1. job \in {"startstats", "starttask", "stopstats", "auth"}
      BY <1>3 DEF Operations, Switches
    <3> QED BY <3>1 DEF FirstStep
  <2>3. job \in JobNames /\ step \in Steps /\ step \notin Telling
    BY <2>2 DEF JobNames, Steps, Requests, Telling
  <2> HIDE DEF step
  <2>4. Plain(At(job, step))
    BY <1>3, <2>3, AtPlain
  <2>5. Moved({c})
    BY <2>1, <2>4, StepMoves
  <2> QED BY <1>1, <2>5, CallsTyped DEF Elsewhere
<1> QED BY <1>2, <1>3

LEMMA PlatformTyped ==
  ASSUME StateTyped, Uses \/ Falls \/ Snaps \/ (\E account \in Accounts : Replace(account))
  PROVE  StateTyped' /\ UNCHANGED <<round, notice, told, call>>
<1>1. UNCHANGED <<clock, round, refresh, on, jobs, notice, told, call>>
  BY DEF Uses, Falls, Snaps, Replace
<1>2. platform \in [account : Accounts, percent : Nat, snapshot : Snapshot]
      /\ platform.snapshot.window > 0
  BY DEF StateTyped
<1>3. /\ platform' \in [account : Accounts, percent : Nat, snapshot : Snapshot]
      /\ platform'.snapshot.window > 0
  <2>1. CASE Uses \/ Falls
    BY <1>2, <2>1 DEF Uses, Falls
  <2>2. CASE Snaps
    BY <2>2, StoresTyped DEF Snaps
  <2>3. ASSUME NEW account \in Accounts, Replace(account)
        PROVE  /\ platform' \in [account : Accounts, percent : Nat, snapshot : Snapshot]
               /\ platform'.snapshot.window > 0
    <3> DEFINE snapshot == [Stored EXCEPT !.account = account, !.percent = 0]
    <3>1. Stored \in Snapshot /\ Stored.window > 0
      BY SnapshotTyped
    <3>2. snapshot \in Snapshot /\ snapshot.window = Stored.window
      BY <3>1 DEF Snapshot
    <3>3. platform' = [account |-> account, percent |-> 0, snapshot |-> snapshot]
      BY <2>3 DEF Replace
    <3> HIDE DEF snapshot
    <3> QED BY <3>1, <3>2, <3>3
  <2> QED BY <2>1, <2>2, <2>3
<1> QED BY <1>1, <1>3 DEF StateTyped

LEMMA MinuteTyped ==
  ASSUME StateTyped, Minute
  PROVE  /\ StateTyped' /\ UNCHANGED <<round, told, call>>
         /\ \A n \in Notices : notice'[n].status = notice[n].status
<1>1. UNCHANGED <<round, on, jobs, told, call>>
  BY DEF Minute
<1>2. notice' = [n \in Notices |-> Due(notice[n])] /\ notice \in [Notices -> Row]
  BY DEF Minute, StateTyped
<1>3. \A n \in Notices : Due(notice[n]) \in Row /\ Due(notice[n]).status = notice[n].status
  <2>1. TAKE n \in Notices
  <2>2. notice[n] \in Row /\ notice[n].retry \in 0 .. Lease /\ Lease \in Nat
    BY <1>2, TimeAssumption DEF Row
  <2>3. (IF notice[n].retry > 0 THEN notice[n].retry - 1 ELSE 0) \in 0 .. Lease
    BY <2>2
  <2> QED BY <2>2, <2>3 DEF Due, Row
<1>4. /\ notice' \in [Notices -> Row]
      /\ \A n \in Notices : notice'[n].status = notice[n].status
  BY <1>2, <1>3
<1>5. refresh' \in [age : 0 .. Cooldown, holder : Processes \cup {None}]
  <2>1. refresh \in [age : 0 .. Cooldown, holder : Processes \cup {None}]
    BY DEF StateTyped
  <2>2. Older(refresh.age) \in 0 .. Cooldown
    BY <2>1, TimeAssumption DEF Older
  <2> QED BY <2>1, <2>2 DEF Minute
<1>6. /\ clock \in [window : Nat, left : 1 .. Window, first : Nat] /\ clock.window > 0
      /\ platform \in [account : Accounts, percent : Nat, snapshot : Snapshot]
      /\ platform.snapshot.window > 0 /\ Window \in Nat /\ Window > 1
  BY TimeAssumption DEF StateTyped
<1> DEFINE ticked == [clock EXCEPT !.left = @ - 1]
           next == [window |-> clock.window + 1, left |-> Window, first |-> platform.snapshot.at + 1]
<1>7. \/ clock' = clock /\ platform' = platform
      \/ clock.left > 1 /\ clock' = ticked /\ platform' = platform
      \/ clock' = next /\ platform' = [platform EXCEPT !.percent = 0]
  BY <1>6 DEF Minute
<1>8. next \in [window : Nat, left : 1 .. Window, first : Nat] /\ next.window > 0
  <2>1. platform.snapshot.at \in Nat /\ clock.window \in Nat
    BY <1>6 DEF Snapshot
  <2> QED BY <1>6, <2>1
<1>9. clock.left > 1 =>
        ticked \in [window : Nat, left : 1 .. Window, first : Nat] /\ ticked.window > 0
  BY <1>6
<1> HIDE DEF ticked, next
<1>10. /\ clock' \in [window : Nat, left : 1 .. Window, first : Nat] /\ clock'.window > 0
       /\ platform' \in [account : Accounts, percent : Nat, snapshot : Snapshot]
       /\ platform'.snapshot.window > 0
  BY <1>6, <1>7, <1>8, <1>9
<1> QED BY <1>1, <1>4, <1>5, <1>10 DEF StateTyped

Sends(n) == \E l \in Loops : Is(l, "send") /\ First(call[l].todo) = n
Marks(n) == \E l \in Loops : Is(l, "finish") /\ First(call[l].todo) = n

\* What a restart leaves behind: each notice may have arrived once more if it was being
\* sent, and its outcome is in doubt if it was being sent or marked.
Interrupted(n) ==
  \E copies \in {0, 1}, doubts \in {0, 1} :
    /\ told'[n].copies = told[n].copies + copies /\ told'[n].doubts = told[n].doubts + doubts
    /\ copies = 1 => Sends(n)
    /\ doubts = 1 <=> Sends(n) \/ Marks(n)

LEMMA BootsPlain ==
  /\ Boots \in [Processes -> CallState]
  /\ \A p \in Processes : Plain(Boots[p])
<1>1. Plain(At("none", "check"))
  <2>1. "none" \in JobNames /\ "check" \in Steps /\ "check" \notin Telling
    BY DEF JobNames, Steps, Telling
  <2> QED BY <2>1, AtPlain
<1>2. \A p \in Processes : Boots[p] = IF p = FirstLoop /\ on THEN At("none", "check") ELSE Quiet
  BY DEF Boots
<1>3. \A p \in Processes : Plain(Boots[p])
  BY <1>1, <1>2, QuietPlain
<1>4. Boots = [p \in Processes |-> Boots[p]]
  BY DEF Boots
<1> QED BY <1>3, <1>4 DEF Plain

LEMMA RestartTyped ==
  ASSUME StateTyped, Restart
  PROVE  /\ StateTyped' /\ Moved(Processes)
         /\ UNCHANGED <<round, notice>>
         /\ \A n \in Notices : Interrupted(n)
<1>1. /\ UNCHANGED <<clock, platform, round, on, notice>>
      /\ call' = Boots /\ told \in [Notices -> [copies : Nat, doubts : Nat]]
  BY DEF Restart, StateTyped
<1>2. call' \in [Processes -> CallState] /\ \A p \in Processes : Plain(call'[p])
  BY <1>1, BootsPlain
<1>3. PICK arrived \in SUBSET {n \in Notices : Sends(n)} :
        told' = [n \in Notices |->
                   [copies |-> told[n].copies + (IF n \in arrived THEN 1 ELSE 0),
                    doubts |-> told[n].doubts + (IF Sends(n) \/ Marks(n) THEN 1 ELSE 0)]]
  BY DEF Restart, Sends, Marks
<1>4. ASSUME NEW n \in Notices
      PROVE  told'[n] \in [copies : Nat, doubts : Nat] /\ Interrupted(n)
  <2> DEFINE copies == IF n \in arrived THEN 1 ELSE 0
             doubts == IF Sends(n) \/ Marks(n) THEN 1 ELSE 0
  <2>1. told'[n] = [copies |-> told[n].copies + copies, doubts |-> told[n].doubts + doubts]
    BY <1>3
  <2>2. /\ copies \in {0, 1} /\ doubts \in {0, 1}
        /\ copies = 1 => Sends(n)
        /\ doubts = 1 <=> Sends(n) \/ Marks(n)
    BY <1>3
  <2>3. told[n].copies \in Nat /\ told[n].doubts \in Nat
    BY <1>1
  <2> HIDE DEF copies, doubts
  <2>4. told'[n].copies = told[n].copies + copies /\ told'[n].doubts = told[n].doubts + doubts
    BY <2>1
  <2>5. told'[n] \in [copies : Nat, doubts : Nat]
    BY <2>1, <2>2, <2>3
  <2> QED BY <2>2, <2>4, <2>5, Zenon DEF Interrupted
<1>5. told' \in [Notices -> [copies : Nat, doubts : Nat]]
  <2>1. told' = [n \in Notices |-> told'[n]]
    BY <1>3
  <2> QED BY <1>4, <2>1
<1>6. refresh' \in [age : 0 .. Cooldown, holder : Processes \cup {None}]
  BY DEF Restart, StateTyped
<1>7. jobs' \in [task : Loops \cup {None}, stop : BOOLEAN]
  BY LoopAssumption DEF Restart
<1>8. StateTyped'
  BY <1>1, <1>2, <1>5, <1>6, <1>7 DEF StateTyped, Plain
<1> QED BY <1>1, <1>2, <1>4, <1>8 DEF Moved

LEMMA InitTyped == Init => StateTyped
<1> SUFFICES ASSUME Init PROVE StateTyped
  OBVIOUS
<1>1. call = Boots /\ on \in BOOLEAN
  BY DEF Init
<1>2. call \in [Processes -> CallState] /\ \A p \in Processes : Placed(call[p])
  BY <1>1, BootsPlain DEF Plain
<1>3. /\ clock \in [window : Nat, left : 1 .. Window, first : Nat] /\ clock.window > 0
      /\ platform \in [account : Accounts, percent : Nat, snapshot : Snapshot]
      /\ platform.snapshot.window > 0
  BY TimeAssumption, AccountAssumption DEF Init, Snapshot
<1>4. round \in Round \cup {NoRound}
  <2> DEFINE first == [NoRound EXCEPT !.id = 1, !.window = 1, !.account = FirstAccount,
                                      !.started = 1, !.status = "VERIFIED"]
  <2>1. ASSUME NEW r \in [id : {0}, window : {0}, account : {None}, started : {0},
                           status : {"NONE"}, percent : Nat, blocked : BOOLEAN,
                           estimate : Estimate \cup {NoSnapshot}]
        PROVE  [r EXCEPT !.id = 1, !.window = 1, !.account = FirstAccount,
                         !.started = 1, !.status = "VERIFIED"] \in Round
    <3> DEFINE Begun == [id : {0, 1}, window : {0, 1}, account : Accounts \cup {None},
                         started : {0, 1}, status : {"NONE", "VERIFIED"}, percent : Nat,
                         blocked : BOOLEAN, estimate : Estimate \cup {NoSnapshot}]
               a == [r EXCEPT !.id = 1, !.window = 1]
               b == [a EXCEPT !.account = FirstAccount, !.started = 1]
               c == [b EXCEPT !.status = "VERIFIED"]
    <3>1. a \in Begun /\ a.id = 1 /\ a.window = 1
      OBVIOUS
    <3> HIDE DEF a
    <3>2. b \in Begun /\ b.id = 1 /\ b.window = 1 /\ b.account = FirstAccount /\ b.started = 1
      BY <3>1, AccountAssumption
    <3> HIDE DEF b
    <3>3. c \in Round
      BY <3>2, AccountAssumption DEF Round
    <3> QED BY <3>3 DEF a, b
  <2>2. NoRound \in [id : {0}, window : {0}, account : {None}, started : {0},
                    status : {"NONE"}, percent : Nat, blocked : BOOLEAN,
                    estimate : Estimate \cup {NoSnapshot}]
    BY SMT DEF NoRound
  <2>3. first \in Round
    BY <2>1, <2>2, Zenon
  <2>4. round = NoRound \/ round = first
    BY DEF Init
  <2> HIDE DEF first
  <2> QED BY <2>3, <2>4
<1>5. /\ refresh \in [age : 0 .. Cooldown, holder : Processes \cup {None}]
      /\ jobs \in [task : Loops \cup {None}, stop : BOOLEAN]
      /\ told \in [Notices -> [copies : Nat, doubts : Nat]]
  BY <1>1, TimeAssumption, LoopAssumption DEF Init
<1>6. notice \in [Notices -> Row]
  <2>1. 0 \in 0 .. Lease
    BY TimeAssumption
  <2>2. NoRow \in Row
    BY <2>1 DEF NoRow, Row
  <2>3. [NoRow EXCEPT !.status = "PENDING"] \in Row
    BY <2>2 DEF Row
  <2> QED BY <2>2, <2>3 DEF Init
<1> QED BY <1>1, <1>2, <1>3, <1>4, <1>5, <1>6 DEF StateTyped

-----------------------------------------------------------------------------
(* Estimates. *)

EstimateInv == EstimateIsOfItsRound /\ \A p \in Processes : ReadSound(call[p])

\* A new round makes what was read one of an older round; else the round is the same.
LEMMA EstimateKept ==
  ASSUME StateTyped, StateTyped', EstimateInv,
         Follows(round') \/ Recorded(round'),
         \A p \in Processes : \/ call'[p] = call[p] \/ call'[p].step # "record"
                              \/ ReadSound(call'[p]) /\ round' = round
  PROVE  EstimateInv'
<1>1. PICK n \in Nat : round.id = n
  BY RoundTyped
<1>2. EstimateIsOfItsRound'
  <2>1. CASE round'.estimate = NoSnapshot
    BY <2>1 DEF EstimateIsOfItsRound
  <2>2. CASE /\ round'.id = round.id /\ round'.window = round.window
             /\ round'.account = round.account /\ round'.started = round.started
             /\ round'.estimate = round.estimate
    BY <2>2 DEF EstimateInv, EstimateIsOfItsRound
  <2>3. CASE Recorded(round') /\ round'.estimate # round.estimate
    BY <2>3 DEF Recorded, EstimateIsOfItsRound
  <2> QED BY <2>1, <2>2, <2>3 DEF Follows, Recorded
<1>3. ASSUME NEW p \in Processes PROVE ReadSound(call[p])'
  <2>1. CASE call'[p].step # "record"
    BY <2>1 DEF ReadSound
  <2>2. CASE ReadSound(call'[p]) /\ round' = round
    BY <2>2 DEF ReadSound
  <2>3. CASE call'[p] = call[p] /\ call[p].step = "record"
    <3>1. call[p] \in CallState
      BY DEF StateTyped
    <3>2. call[p].local \in Round \cup {NoRound}
      BY <3>1 DEF CallState
    <3>3. PICK m \in Nat : call[p].local.id = m
      BY <3>2 DEF Round, NoRound
    <3>4. /\ m <= n /\ (m = n => call[p].local.window = round.window)
          /\ call[p].good => call[p].seen.window = call[p].local.window
      BY <1>1, <2>3, <3>3 DEF EstimateInv, ReadSound
    <3>5. CASE round'.id = n + 1
      BY <2>3, <3>3, <3>4, <3>5 DEF ReadSound
    <3>6. CASE round'.id = n /\ round'.window = round.window
      BY <2>3, <3>3, <3>4, <3>6 DEF ReadSound
    <3> QED BY <1>1, <3>5, <3>6 DEF Follows, Recorded
  <2> QED BY <2>1, <2>2, <2>3
<1> QED BY <1>2, <1>3 DEF EstimateInv

LEMMA MovedEstimate ==
  ASSUME StateTyped, StateTyped', EstimateInv, NEW S \in SUBSET Processes, Moved(S),
         round' = round \/ Follows(round') \/ Recorded(round')
  PROVE  EstimateInv'
<1>1. \A p \in Processes : call'[p] = call[p] \/ call'[p].step # "record"
  BY DEF Moved, Plain
<1>2. round' = round => Follows(round')
  BY DEF Follows
<1> QED BY <1>1, <1>2, EstimateKept

LEMMA SameEstimate ==
  ASSUME StateTyped, StateTyped', EstimateInv, round' = round,
         \A p \in Processes : call'[p] = call[p] \/ call'[p].step # "record"
  PROVE  EstimateInv'
BY EstimateKept DEF Follows

LEMMA SyncsEstimate ==
  ASSUME StateTyped, EstimateInv, NEW p \in Processes, Syncs(p) \/ RequestFails(p)
  PROVE  StateTyped' /\ EstimateInv'
<1>1. {p} \in SUBSET Processes
  OBVIOUS
<1>2. CASE sync(p)
  BY <1>1, <1>2, SyncTyped, MovedEstimate
<1>3. CASE Fetch(p) \/ refresh_if_due(p) \/ Request(p) \/ Refetch(p) \/ RequestFails(p)
  BY <1>1, <1>3, RequestsTyped, MovedEstimate
<1> QED BY <1>2, <1>3 DEF Syncs

LEMMA EstimatesEstimate ==
  ASSUME StateTyped, EstimateInv, NEW l \in Processes, Estimates(l)
  PROVE  StateTyped' /\ EstimateInv'
<1>1. {l} \in SUBSET Processes
  OBVIOUS
<1>2. CASE SamplesMissing(l) \/ _current_cycle(l) \/ get_usage(l)
  BY <1>1, <1>2, EstimatesTyped, MovedEstimate
<1>3. CASE _read_local(l)
  <2>1. /\ StateTyped' /\ round' = round /\ ReadSound(call'[l])
        /\ \A q \in Processes : q # l => call'[q] = call[q]
    BY <1>3, ReadLocalTyped
  <2>2. Follows(round')
    BY <2>1 DEF Follows
  <2> QED BY <2>1, <2>2, EstimateKept
<1>4. CASE record_estimate(l)
  <2>1. StateTyped' /\ Moved({l}) /\ Recorded(round')
    BY <1>4, RecordTyped DEF EstimateInv
  <2> QED BY <1>1, <2>1, MovedEstimate
<1> QED BY <1>2, <1>3, <1>4 DEF Estimates

LEMMA DeliversEstimate ==
  ASSUME StateTyped, EstimateInv, NEW l \in Processes, Delivers(l) \/ SendFails(l)
  PROVE  StateTyped' /\ EstimateInv'
<1>1. {l} \in SUBSET Processes
  OBVIOUS
<1>2. CASE deliver_pending(l)
  BY <1>1, <1>2, ListTyped, MovedEstimate
<1>3. CASE _claim(l)
  <2>1. StateTyped' /\ round' = round /\ (Moved({l}) \/ \E n \in Notices : Claims(l, n))
    BY <1>3, ClaimTyped
  <2>2. \A q \in Processes : call'[q] = call[q] \/ call'[q].step # "record"
    BY <2>1 DEF Moved, Plain, Claims
  <2> QED BY <2>1, <2>2, SameEstimate
<1>4. CASE Send(l) \/ SendFails(l)
  <2>1. StateTyped' /\ round' = round /\ (Sent(l, TRUE) \/ Sent(l, FALSE))
    BY <1>4, SendTyped
  <2>2. \A q \in Processes : call'[q] = call[q] \/ call'[q].step # "record"
    BY <2>1 DEF Sent
  <2> QED BY <2>1, <2>2, SameEstimate
<1>5. CASE _finish(l)
  BY <1>1, <1>5, FinishTyped, MovedEstimate
<1> QED BY <1>2, <1>3, <1>4, <1>5 DEF Delivers

LEMMA CommandsEstimate ==
  ASSUME StateTyped, EstimateInv, NEW c \in Commands,
         Proceeds(c) \/ \E job \in Operations : Begin(c, job)
  PROVE  StateTyped' /\ EstimateInv'
<1>1. c \in Processes /\ {c} \in SUBSET Processes
  BY DEF Processes
<1>2. CASE Syncs(c)
  BY <1>1, <1>2, SyncsEstimate
<1>3. CASE _commit_reset(c) \/ queue_reset_failure(c)
  BY <1>1, <1>3, ResetTyped, MovedEstimate
<1>4. CASE set_sync_enabled(c) \/ sync_enabled(c) \/ Ended(c) \/ Clears(c)
  BY <1>1, <1>4, SwitchTyped, MovedEstimate
<1>5. CASE start_quota_task(c)
  BY <1>1, <1>5, StartTyped, MovedEstimate
<1>6. CASE _cancel_quota_loop(c)
  BY <1>1, <1>6, SignalTyped, MovedEstimate
<1>7. CASE Cancels(c)
  <2>1. /\ StateTyped' /\ round' = round /\ Moved({c, call[c].loop})
        /\ {c, call[c].loop} \in SUBSET Processes
    BY <1>7, CancelsTyped
  <2> QED BY <2>1, MovedEstimate
<1>8. CASE \E job \in Operations : Begin(c, job)
  BY <1>1, <1>8, BeginTyped, MovedEstimate
<1> QED BY <1>2, <1>3, <1>4, <1>5, <1>6, <1>7, <1>8 DEF Proceeds

LEMMA NextEstimate ==
  ASSUME StateTyped, EstimateInv, [Next]_vars
  PROVE  StateTyped' /\ EstimateInv'
<1>1. CASE Uses \/ Falls \/ Snaps \/ (\E account \in Accounts : Replace(account))
  BY <1>1, PlatformTyped, SameEstimate
<1>2. CASE Minute
  BY <1>2, MinuteTyped, SameEstimate
<1>3. CASE Restart
  <2>1. Processes \in SUBSET Processes
    OBVIOUS
  <2> QED BY <1>3, <2>1, RestartTyped, MovedEstimate
<1>4. ASSUME NEW l \in Loops, Runs(l) \/ SendFails(l) PROVE StateTyped' /\ EstimateInv'
  <2>1. l \in Processes /\ {l} \in SUBSET Processes
    BY DEF Processes
  <2>2. CASE Check(l) \/ Tick(l) \/ Wakes(l)
    BY <2>1, <2>2, LoopTyped, MovedEstimate
  <2> QED BY <1>4, <2>1, <2>2, SyncsEstimate, EstimatesEstimate, DeliversEstimate DEF Runs
<1>5. CASE \E p \in Processes : RequestFails(p)
  BY <1>5, SyncsEstimate
<1>6. CASE \E c \in Commands : Proceeds(c) \/ \E job \in Operations : Begin(c, job)
  BY <1>6, CommandsEstimate
<1>7. CASE UNCHANGED vars
  <2>1. StateTyped'
    BY <1>7 DEF vars, StateTyped
  <2> QED BY <1>7, <2>1, SameEstimate DEF vars
<1> QED BY <1>1, <1>2, <1>3, <1>4, <1>5, <1>6, <1>7 DEF Next

LEMMA InitEstimate == Init => StateTyped /\ EstimateInv
<1> SUFFICES ASSUME Init PROVE StateTyped /\ EstimateInv
  OBVIOUS
<1>1. StateTyped /\ call = Boots
  BY InitTyped DEF Init
<1>2. \A p \in Processes : ReadSound(call[p])
  BY <1>1, BootsPlain DEF Plain, ReadSound
<1>3. round.estimate = NoSnapshot
  <2>1. NoRound.estimate = NoSnapshot
    BY DEF NoRound
  <2> QED BY <2>1 DEF Init, NoRound
<1> QED BY <1>1, <1>2, <1>3 DEF EstimateInv, EstimateIsOfItsRound

\* The estimate that is stored with a round divides by a snapshot of this round's account
\* and window that is not from before its start, whatever /auth and resets do between the
\* reads of record_estimate.
THEOREM EstimatesOfTheirRound == Spec => []EstimateIsOfItsRound
<1>1. Init => StateTyped /\ EstimateInv
  BY InitEstimate
<1>2. StateTyped /\ EstimateInv /\ [Next]_vars => StateTyped' /\ EstimateInv'
  BY NextEstimate
<1>3. EstimateInv => EstimateIsOfItsRound
  BY DEF EstimateInv
<1> QED BY <1>1, <1>2, <1>3, PTL DEF Spec

-----------------------------------------------------------------------------
(* Notices. *)

Sending(l) == call[l].step \in {"send", "finish"}
Of(l) == First(call[l].todo)

\* Whoever sends a notice has it claimed: the lease runs, and no later attempt began.
Claimed(l) ==
  /\ Of(l) \in Notices
  /\ notice[Of(l)].status = "PENDING" /\ notice[Of(l)].retry > 0
  /\ notice[Of(l)].attempt = call[l].attempt

OneSender == \A k, l \in Loops : Sending(k) /\ Sending(l) /\ Of(k) = Of(l) => k = l

\* There is one copy for each doubt, and one more of what was sent, or is about to be marked.
Counted(n) ==
  \/ told[n].copies <= told[n].doubts
  \/ /\ told[n].copies <= told[n].doubts + 1
     /\ \/ notice[n].status = "SENT"
        \/ \E l \in Loops : Is(l, "finish") /\ call[l].good /\ Of(l) = n

CopiesInv ==
  /\ \A l \in Loops : Sending(l) => Claimed(l)
  /\ OneSender
  /\ \A n \in Notices : Counted(n)

\* Nobody who sends moves, nobody begins to send, and no notice that is there changes.
LEMMA CopiesKept ==
  ASSUME StateTyped, CopiesInv, told' = told, NoticesStay,
         \A l \in Loops : call'[l] = call[l] \/ (~Sending(l) /\ ~Sending(l)')
  PROVE  CopiesInv'
<1>1. ASSUME NEW l \in Loops, Sending(l)' PROVE Claimed(l)' /\ Sending(l) /\ Of(l)' = Of(l)
  <2>1. call'[l] = call[l]
    BY <1>1
  <2>2. Sending(l) /\ Of(l)' = Of(l)
    BY <1>1, <2>1 DEF Sending, Of
  <2>3. Claimed(l) /\ notice'[Of(l)] = notice[Of(l)]
    BY <2>2 DEF CopiesInv, Claimed, NoticesStay
  <2> QED BY <2>1, <2>2, <2>3 DEF Claimed
<1>2. OneSender'
  BY <1>1 DEF CopiesInv, OneSender
<1>3. ASSUME NEW n \in Notices PROVE Counted(n)'
  <2>1. Counted(n)
    BY DEF CopiesInv
  <2>2. notice[n].status = "SENT" => notice'[n].status = "SENT"
    BY DEF NoticesStay
  <2>3. ASSUME NEW l \in Loops, Is(l, "finish"), call[l].good, Of(l) = n
        PROVE  Is(l, "finish")' /\ call'[l].good /\ Of(l)' = n
    <3>1. call'[l] = call[l]
      BY <2>3 DEF Sending, Is
    <3> QED BY <2>3, <3>1 DEF Is, Of
  <2> QED BY <2>1, <2>2, <2>3 DEF Counted
<1> QED BY <1>1, <1>2, <1>3 DEF CopiesInv

LEMMA MovedCopies ==
  ASSUME StateTyped, CopiesInv, told' = told, NoticesStay \/ notice' = notice,
         NEW S \in SUBSET Processes, Moved(S), \A q \in S : ~Sending(q)
  PROVE  CopiesInv'
<1>1. NoticesStay
  BY DEF NoticesStay
<1>2. ASSUME NEW l \in Loops PROVE call'[l] = call[l] \/ (~Sending(l) /\ ~Sending(l)')
  <2>1. CASE l \in S
    BY <2>1 DEF Moved, Plain, Sending
  <2>2. CASE l \notin S
    BY <2>2 DEF Moved, Processes
  <2> QED BY <2>1, <2>2
<1> QED BY <1>1, <1>2, CopiesKept

LEMMA MinuteCopies ==
  ASSUME StateTyped, CopiesInv, Minute
  PROVE  CopiesInv'
<1>1. /\ told' = told /\ call' = call
      /\ \A n \in Notices : notice'[n].status = notice[n].status
  BY MinuteTyped
<1>2. \A l \in Loops : ~Sending(l) /\ ~Sending(l)'
  BY <1>1 DEF Minute, Sending
<1>3. OneSender'
  BY <1>2 DEF OneSender
<1>4. ASSUME NEW n \in Notices PROVE Counted(n)'
  BY <1>1 DEF CopiesInv, Counted, Is, Of
<1> QED BY <1>2, <1>3, <1>4 DEF CopiesInv

LEMMA ClaimCopies ==
  ASSUME StateTyped, CopiesInv, NEW l \in Loops, NEW n \in Notices, Claims(l, n), told' = told
  PROVE  CopiesInv'
<1>1. /\ n = Of(l) /\ notice[n].status = "PENDING" /\ notice[n].retry = 0
  BY DEF Claims, Listed, Of
<1>2. \A k \in Loops : Sending(k) => Of(k) # n
  <2>1. ASSUME NEW k \in Loops, Sending(k), Of(k) = n PROVE FALSE
    <3>1. notice[n].retry > 0
      BY <2>1 DEF CopiesInv, Claimed
    <3> QED BY <1>1, <3>1
  <2> QED BY <2>1
<1>3. \A k \in Loops : k # l => call'[k] = call[k]
  BY DEF Claims, Processes
<1>4. /\ Of(l)' = n /\ Claimed(l)'
  <2>1. Of(l)' = n
    BY <1>1 DEF Claims, Of
  <2>2. notice'[n].status = "PENDING" /\ notice'[n].retry > 0 /\ notice'[n].attempt = call'[l].attempt
    BY <1>1, TimeAssumption DEF Claims
  <2> QED BY <2>1, <2>2 DEF Claimed
<1>5. ASSUME NEW k \in Loops, k # l, Sending(k)'
      PROVE  Sending(k) /\ Of(k)' = Of(k) /\ Of(k) # n /\ Claimed(k)'
  <2>1. call'[k] = call[k]
    BY <1>3, <1>5
  <2>2. Sending(k) /\ Of(k)' = Of(k)
    BY <1>5, <2>1 DEF Sending, Of
  <2>3. Of(k) # n /\ Claimed(k)
    BY <1>2, <2>2 DEF CopiesInv
  <2>4. notice'[Of(k)] = notice[Of(k)]
    BY <2>3 DEF Claims, Claimed
  <2>5. Claimed(k)'
    BY <2>1, <2>2, <2>3, <2>4 DEF Claimed
  <2> QED BY <2>2, <2>3, <2>5
<1>6. \A k \in Loops : Sending(k)' => Claimed(k)'
  BY <1>4, <1>5
<1>7. OneSender'
  BY <1>4, <1>5 DEF OneSender, CopiesInv
<1>8. ASSUME NEW m \in Notices PROVE Counted(m)'
  <2>1. notice'[m].status = notice[m].status
    BY DEF Claims
  <2>2. ASSUME NEW k \in Loops, Is(k, "finish"), call[k].good, Of(k) = m
        PROVE  Is(k, "finish")' /\ call'[k].good /\ Of(k)' = m
    <3>1. k # l
      BY <1>1, <1>2, <2>2 DEF Sending, Is
    <3>2. call'[k] = call[k]
      BY <1>3, <3>1
    <3> QED BY <2>2, <3>2 DEF Is, Of
  <2> QED BY <2>1, <2>2 DEF CopiesInv, Counted
<1> QED BY <1>6, <1>7, <1>8 DEF CopiesInv

\* Before its copy is sent, a claimed notice has none beyond the doubts.
LEMMA SenderCounts ==
  ASSUME StateTyped, CopiesInv, NEW l \in Loops, Sending(l)
  PROVE  /\ Of(l) \in Notices /\ told[Of(l)].copies \in Nat /\ told[Of(l)].doubts \in Nat
         /\ told[Of(l)].copies <= told[Of(l)].doubts + 1
         /\ Is(l, "send") \/ ~call[l].good => told[Of(l)].copies <= told[Of(l)].doubts
<1>1. Of(l) \in Notices /\ notice[Of(l)].status = "PENDING" /\ Counted(Of(l))
  BY DEF CopiesInv, Claimed
<1>2. told[Of(l)].copies \in Nat /\ told[Of(l)].doubts \in Nat
  BY <1>1 DEF StateTyped
<1>3. ASSUME NEW k \in Loops, Is(k, "finish"), call[k].good, Of(k) = Of(l)
      PROVE  Is(l, "finish") /\ call[l].good
  <2>1. k = l
    BY <1>3 DEF CopiesInv, OneSender, Sending, Is
  <2> QED BY <1>3, <2>1
<1>4. CASE told[Of(l)].copies <= told[Of(l)].doubts
  BY <1>1, <1>2, <1>4
<1>5. CASE ~(told[Of(l)].copies <= told[Of(l)].doubts)
  BY <1>1, <1>2, <1>3, <1>5 DEF Counted, Is
<1> QED BY <1>4, <1>5

\* A sender goes on to mark its notice.
LEMMA SentClaims ==
  ASSUME StateTyped, CopiesInv, NEW l \in Loops, call[l].step = "send", NEW good \in BOOLEAN,
         Sent(l, good), notice' = notice
  PROVE  /\ \A k \in Loops : Sending(k)' => Claimed(k)'
         /\ OneSender'
         /\ \A k \in Loops : k # l => call'[k] = call[k]
<1>1. \A k \in Loops : k # l => call'[k] = call[k]
  BY DEF Sent, Processes
<1>2. Sending(l) /\ Of(l)' = Of(l) /\ call'[l].attempt = call[l].attempt
  BY DEF Sent, Sending, Of
<1>3. ASSUME NEW k \in Loops
      PROVE  /\ Sending(k)' => Sending(k)
             /\ Of(k)' = Of(k) /\ call'[k].attempt = call[k].attempt
             /\ ~Sending(k) => call'[k] = call[k]
  <2>1. CASE k = l
    BY <1>2, <2>1
  <2>2. CASE k # l
    <3>1. call'[k] = call[k]
      BY <1>1, <2>2
    <3> QED BY <3>1 DEF Sending, Of
  <2> QED BY <2>1, <2>2
<1>4. ASSUME NEW k \in Loops, Sending(k)' PROVE Claimed(k)'
  <2>1. Claimed(k)
    BY <1>3, <1>4 DEF CopiesInv
  <2> QED BY <1>3, <2>1 DEF Claimed
<1>5. OneSender'
  BY <1>3 DEF OneSender, CopiesInv
<1> QED BY <1>1, <1>3, <1>4, <1>5

LEMMA SendCopies ==
  ASSUME StateTyped, CopiesInv, NEW l \in Loops, Send(l) \/ SendFails(l)
  PROVE  CopiesInv'
<1>1. l \in Processes
  BY DEF Processes
<1>2. /\ call[l].step = "send" /\ notice' = notice
      /\ \/ Sent(l, TRUE) /\ Attempts(Of(l), 1, 0)
         \/ Sent(l, FALSE) /\ \E copies \in {0, 1} : Attempts(Of(l), copies, copies)
  BY <1>1, SendTyped DEF Of
<1>3. PICK good \in BOOLEAN : Sent(l, good)
  BY <1>2
<1>4. /\ \A k \in Loops : Sending(k)' => Claimed(k)'
      /\ OneSender'
      /\ \A k \in Loops : k # l => call'[k] = call[k]
  BY <1>2, <1>3, SentClaims
<1>5. Sending(l) /\ Is(l, "send")
  BY <1>2 DEF Sending, Is
<1>6. PICK n \in Notices :
        /\ n = Of(l) /\ told[n].copies \in Nat /\ told[n].doubts \in Nat
        /\ told[n].copies <= told[n].doubts
  BY <1>5, SenderCounts
<1>7. Of(l)' = n
  BY <1>3, <1>6 DEF Sent, Of
<1>8. ASSUME NEW m \in Notices, m # n PROVE Counted(m)'
  <2>1. told'[m] = told[m]
    <3>1. ASSUME NEW copies \in Nat, NEW doubts \in Nat, Attempts(n, copies, doubts)
          PROVE  told'[m] = told[m]
      BY <1>8, <3>1, ToldTyped
    <3>2. \E copies \in Nat, doubts \in Nat : Attempts(n, copies, doubts)
      BY <1>2, <1>6
    <3> QED BY <3>1, <3>2
  <2>2. ASSUME NEW k \in Loops, Is(k, "finish"), call[k].good, Of(k) = m
        PROVE  Is(k, "finish")' /\ call'[k].good /\ Of(k)' = m
    <3>1. k # l
      BY <1>6, <1>8, <2>2
    <3>2. call'[k] = call[k]
      BY <1>4, <3>1
    <3> QED BY <2>2, <3>2 DEF Is, Of
  <2> QED BY <1>2, <2>1, <2>2 DEF CopiesInv, Counted
<1>9. Counted(n)'
  <2>1. CASE Sent(l, TRUE) /\ Attempts(n, 1, 0)
    <3>1. told'[n].copies = told[n].copies + 1 /\ told'[n].doubts = told[n].doubts + 0
      BY <1>6, <2>1, ToldTyped, SMTT(15), ZenonT(40)
    <3>2. told'[n].copies <= told'[n].doubts + 1
      BY <1>6, <3>1
    <3>3. Is(l, "finish")' /\ call'[l].good
      BY <2>1 DEF Sent, Is
    <3> QED BY <1>7, <3>2, <3>3 DEF Counted
  <2>2. ASSUME NEW copies \in {0, 1}, Attempts(n, copies, copies) PROVE Counted(n)'
    <3>1. copies \in Nat
      OBVIOUS
    <3>2. told'[n].copies = told[n].copies + copies /\ told'[n].doubts = told[n].doubts + copies
      BY <1>6, <2>2, <3>1, ToldTyped
    <3>3. told'[n].copies <= told'[n].doubts
      BY <1>6, <3>1, <3>2
    <3> QED BY <3>3 DEF Counted
  <2> QED BY <1>2, <1>6, <2>1, <2>2
<1> QED BY <1>4, <1>8, <1>9 DEF CopiesInv

\* Only the row of what was sent is marked, and nobody else is sending that.
LEMMA FinishCopies ==
  ASSUME StateTyped, CopiesInv, NEW l \in Loops, _finish(l)
  PROVE  CopiesInv'
<1> DEFINE n == Of(l)
<1>1. l \in Processes
  BY DEF Processes
<1>2. Moved({l}) /\ call[l].step = "finish" /\ told' = told /\ Marked(l, n)
  BY <1>1, FinishTyped DEF Of
<1>3. Sending(l) /\ Claimed(l)
  BY <1>2 DEF Sending, CopiesInv
<1>4. n \in Notices /\ notice[n].status = "PENDING" /\ notice[n].attempt = call[l].attempt
  BY <1>3 DEF Claimed
<1>5. /\ \A m \in Notices : m # n => notice'[m] = notice[m]
      /\ call[l].good => notice'[n].status = "SENT"
  BY <1>2, <1>4 DEF Marked
<1>6. ~Sending(l)' /\ \A k \in Loops : k # l => call'[k] = call[k]
  BY <1>2 DEF Moved, Plain, Sending, Processes
<1>7. ASSUME NEW k \in Loops, Sending(k)'
      PROVE  Claimed(k)' /\ Sending(k) /\ Of(k)' = Of(k)
  <2>1. k # l /\ call'[k] = call[k]
    BY <1>6, <1>7
  <2>2. Sending(k) /\ Of(k)' = Of(k)
    BY <1>7, <2>1 DEF Sending, Of
  <2>3. Of(k) # n /\ Claimed(k)
    BY <1>3, <2>1, <2>2 DEF CopiesInv, OneSender
  <2>4. notice'[Of(k)] = notice[Of(k)]
    BY <1>5, <2>3 DEF Claimed
  <2> QED BY <2>1, <2>2, <2>3, <2>4 DEF Claimed
<1>8. OneSender'
  BY <1>7 DEF OneSender, CopiesInv
<1>9. told[n].copies <= told[n].doubts + 1 /\ (~call[l].good => told[n].copies <= told[n].doubts)
  BY <1>3, SenderCounts
<1>10. ASSUME NEW m \in Notices PROVE Counted(m)'
  <2>1. CASE m = n
    BY <1>2, <1>5, <1>9, <2>1 DEF Counted
  <2>2. CASE m # n
    <3>1. ASSUME NEW k \in Loops, Is(k, "finish"), call[k].good, Of(k) = m
          PROVE  Is(k, "finish")' /\ call'[k].good /\ Of(k)' = m
      <4>1. call'[k] = call[k]
        BY <1>6, <2>2, <3>1
      <4> QED BY <3>1, <4>1 DEF Is, Of
    <3> QED BY <1>2, <1>5, <2>2, <3>1 DEF CopiesInv, Counted
  <2> QED BY <2>1, <2>2
<1> QED BY <1>7, <1>8, <1>10 DEF CopiesInv

\* A cancelled sender leaves a doubt about its notice.
LEMMA CancelsCopies ==
  ASSUME StateTyped, CopiesInv, NEW c \in Commands, Cancels(c)
  PROVE  CopiesInv'
<1> DEFINE l == call[c].loop
           n == Of(l)
<1>1. /\ l \in Loops /\ c \in Processes /\ l \in Processes /\ call[c].step = "await"
      /\ notice' = notice /\ Moved({c, l}) /\ Abandoned(l)
  BY CancelsTyped
<1>2. ~Sending(c)
  BY <1>1 DEF Sending
<1> HIDE DEF l
<1>3. CASE ~Sending(l)
  <2>1. told' = told
    BY <1>1, <1>3 DEF Abandoned, Sending
  <2>2. {c, l} \in SUBSET Processes /\ \A q \in {c, l} : ~Sending(q)
    BY <1>1, <1>2, <1>3
  <2> QED BY <1>1, <2>1, <2>2, MovedCopies
<1>4. CASE Sending(l)
  <2>1. PICK copies \in {0, 1} : Attempts(n, copies, 1) /\ (copies = 1 => Is(l, "send"))
    BY <1>1, <1>4 DEF Abandoned, Sending, Of
  <2>2. /\ n \in Notices /\ told[n].copies \in Nat /\ told[n].doubts \in Nat
        /\ told[n].copies <= told[n].doubts + 1
        /\ Is(l, "send") => told[n].copies <= told[n].doubts
    BY <1>1, <1>4, SenderCounts
  <2>3. copies \in Nat /\ 1 \in Nat
    OBVIOUS
  <2> HIDE DEF n
  <2>4. /\ told'[n].copies = told[n].copies + copies /\ told'[n].doubts = told[n].doubts + 1
        /\ \A m \in Notices : m # n => told'[m] = told[m]
    BY <2>1, <2>2, <2>3, ToldTyped
  <2>5. told'[n].copies <= told'[n].doubts
    BY <2>1, <2>2, <2>4
  <2>6. ASSUME NEW k \in Loops
        PROVE  call'[k] = call[k] \/ (~Sending(k)' /\ (k = l \/ ~Sending(k)))
    <3>1. CASE k \in {c, l}
      <4>1. Plain(call'[k])
        BY <1>1, <3>1 DEF Moved
      <4>2. ~Sending(k)'
        BY <4>1 DEF Plain, Sending
      <4> QED BY <1>2, <3>1, <4>2
    <3>2. CASE k \notin {c, l}
      BY <1>1, <3>2 DEF Moved, Processes
    <3> QED BY <3>1, <3>2
  <2>7. ASSUME NEW k \in Loops, Sending(k)'
        PROVE  Claimed(k)' /\ Sending(k) /\ Of(k)' = Of(k)
    <3>1. call'[k] = call[k]
      BY <2>6, <2>7
    <3>2. Sending(k) /\ Of(k)' = Of(k)
      BY <2>7, <3>1 DEF Sending, Of
    <3>3. Claimed(k)
      BY <3>2 DEF CopiesInv
    <3> QED BY <1>1, <3>1, <3>2, <3>3 DEF Claimed
  <2>8. OneSender'
    BY <2>7 DEF OneSender, CopiesInv
  <2>9. ASSUME NEW m \in Notices PROVE Counted(m)'
    <3>1. CASE m = n
      BY <2>5, <3>1 DEF Counted
    <3>2. CASE m # n
      <4>1. ASSUME NEW k \in Loops, Is(k, "finish"), call[k].good, Of(k) = m
            PROVE  Is(k, "finish")' /\ call'[k].good /\ Of(k)' = m
        <5>1. Sending(k) /\ k # l
          BY <3>2, <4>1 DEF n, Sending, Is
        <5>2. call'[k] = call[k]
          BY <2>6, <5>1
        <5> QED BY <4>1, <5>2 DEF Is, Of
      <4> QED BY <1>1, <2>4, <3>2, <4>1 DEF CopiesInv, Counted
    <3> QED BY <3>1, <3>2
  <2> QED BY <2>7, <2>8, <2>9 DEF CopiesInv
<1> QED BY <1>3, <1>4

\* After a restart nobody sends; what was being sent or marked is in doubt.
LEMMA RestartCopies ==
  ASSUME StateTyped, CopiesInv, Restart
  PROVE  CopiesInv'
<1>1. /\ Moved(Processes) /\ notice' = notice
      /\ \A n \in Notices : Interrupted(n)
  BY RestartTyped
<1>2. \A l \in Loops : ~Sending(l)'
  BY <1>1 DEF Moved, Plain, Sending, Processes
<1>3. OneSender'
  BY <1>2 DEF OneSender
<1>4. ASSUME NEW n \in Notices PROVE Counted(n)'
  <2>1. PICK copies \in {0, 1}, doubts \in {0, 1} :
          /\ told'[n].copies = told[n].copies + copies
          /\ told'[n].doubts = told[n].doubts + doubts
          /\ copies = 1 => Sends(n)
          /\ doubts = 1 <=> Sends(n) \/ Marks(n)
    BY <1>1 DEF Interrupted
  <2>2. told[n].copies \in Nat /\ told[n].doubts \in Nat
    BY DEF StateTyped
  <2>3. ASSUME NEW l \in Loops, Sending(l), Of(l) = n PROVE Counted(n)'
    <3>1. told[n].copies <= told[n].doubts + 1
          /\ (Is(l, "send") => told[n].copies <= told[n].doubts)
      BY <2>3, SenderCounts
    <3>2. doubts = 1
      BY <2>1, <2>3 DEF Sends, Marks, Sending, Is, Of
    <3>3. Sends(n) => Is(l, "send")
      BY <2>3 DEF Sends, CopiesInv, OneSender, Sending, Is, Of
    <3>4. told'[n].copies <= told'[n].doubts
      BY <2>1, <2>2, <3>1, <3>2, <3>3
    <3> QED BY <3>4 DEF Counted
  <2>4. CASE ~Sends(n) /\ ~Marks(n)
    <3>1. copies = 0 /\ doubts = 0
      BY <2>1, <2>4
    <3>2. told'[n].copies = told[n].copies /\ told'[n].doubts = told[n].doubts
      BY <2>1, <2>2, <3>1
    <3>3. Counted(n)
      BY DEF CopiesInv
    <3>4. ~ \E l \in Loops : Is(l, "finish") /\ call[l].good /\ Of(l) = n
      BY <2>4 DEF Marks, Of
    <3> QED BY <1>1, <3>2, <3>3, <3>4 DEF Counted
  <2>5. Sends(n) \/ Marks(n) => \E l \in Loops : Sending(l) /\ Of(l) = n
    BY DEF Sends, Marks, Sending, Is, Of
  <2> QED BY <2>3, <2>4, <2>5
<1> QED BY <1>2, <1>3, <1>4 DEF CopiesInv

LEMMA RunsCopies ==
  ASSUME StateTyped, EstimateInv, CopiesInv, NEW l \in Loops, Runs(l) \/ SendFails(l)
  PROVE  CopiesInv'
<1>1. l \in Processes /\ {l} \in SUBSET Processes
  BY DEF Processes
<1>2. call[l].step \notin {"send", "finish"} => \A q \in {l} : ~Sending(q)
  BY DEF Sending
<1>3. CASE Check(l) \/ Tick(l) \/ Wakes(l)
  BY <1>1, <1>2, <1>3, LoopTyped, MovedCopies DEF CommandSteps
<1>4. CASE sync(l)
  BY <1>1, <1>2, <1>4, SyncTyped, MovedCopies
<1>5. CASE Fetch(l) \/ refresh_if_due(l) \/ Request(l) \/ Refetch(l)
  BY <1>1, <1>2, <1>5, RequestsTyped, MovedCopies DEF Requests
<1>6. CASE SamplesMissing(l) \/ _current_cycle(l) \/ get_usage(l)
  BY <1>1, <1>2, <1>6, EstimatesTyped, MovedCopies
<1>7. CASE _read_local(l)
  <2>1. /\ call[l].step = "local" /\ call'[l].step = "record"
        /\ told' = told /\ notice' = notice
        /\ \A q \in Processes : q # l => call'[q] = call[q]
    BY <1>1, <1>7, ReadLocalTyped
  <2>2. ASSUME NEW k \in Loops PROVE call'[k] = call[k] \/ (~Sending(k) /\ ~Sending(k)')
    BY <2>1 DEF Processes, Sending
  <2>3. NoticesStay
    BY <2>1 DEF NoticesStay
  <2> QED BY <2>1, <2>2, <2>3, CopiesKept
<1>8. CASE record_estimate(l)
  BY <1>1, <1>2, <1>8, RecordTyped, MovedCopies DEF EstimateInv
<1>9. CASE deliver_pending(l)
  BY <1>1, <1>2, <1>9, ListTyped, MovedCopies
<1>10. CASE _claim(l)
  <2>1. /\ call[l].step = "claim notice" /\ told' = told
        /\ \/ Moved({l}) /\ notice' = notice
           \/ \E n \in Notices : Claims(l, n)
    BY <1>1, <1>10, ClaimTyped
  <2> QED BY <1>1, <1>2, <2>1, ClaimCopies, MovedCopies
<1>11. CASE Send(l) \/ SendFails(l)
  BY <1>11, SendCopies
<1>12. CASE _finish(l)
  BY <1>12, FinishCopies
<1> QED BY <1>3, <1>4, <1>5, <1>6, <1>7, <1>8, <1>9, <1>10, <1>11, <1>12
        DEF Runs, Syncs, Estimates, Delivers

LEMMA CommandsCopies ==
  ASSUME StateTyped, CopiesInv, NEW c \in Commands,
         Proceeds(c) \/ \E job \in Operations : Begin(c, job)
  PROVE  CopiesInv'
<1>1. c \in Processes /\ {c} \in SUBSET Processes
  BY DEF Processes
<1>2. call[c].step \notin {"send", "finish"} => \A q \in {c} : ~Sending(q)
  BY DEF Sending
<1>3. CASE sync(c)
  BY <1>1, <1>2, <1>3, SyncTyped, MovedCopies
<1>4. CASE Fetch(c) \/ refresh_if_due(c) \/ Request(c) \/ Refetch(c)
  BY <1>1, <1>2, <1>4, RequestsTyped, MovedCopies DEF Requests
<1>5. CASE _commit_reset(c) \/ queue_reset_failure(c)
  BY <1>1, <1>2, <1>5, ResetTyped, MovedCopies
<1>6. CASE set_sync_enabled(c) \/ sync_enabled(c) \/ Ended(c) \/ Clears(c)
  BY <1>1, <1>2, <1>6, SwitchTyped, MovedCopies DEF CommandSteps
<1>7. CASE start_quota_task(c)
  <2>1. PICK S \in SUBSET Processes :
          Moved(S) /\ \A q \in S : call[q].step \in {"idle"} \cup CommandSteps
    BY <1>1, <1>7, StartTyped
  <2>2. notice' = notice /\ told' = told
    BY <1>1, <1>7, StartTyped
  <2>3. \A q \in S : ~Sending(q)
    BY <2>1 DEF Sending, CommandSteps
  <2> QED BY <2>1, <2>2, <2>3, MovedCopies
<1>8. CASE _cancel_quota_loop(c)
  BY <1>1, <1>2, <1>8, SignalTyped, MovedCopies DEF CommandSteps
<1>9. CASE Cancels(c)
  BY <1>9, CancelsCopies
<1>10. CASE \E job \in Operations : Begin(c, job)
  BY <1>1, <1>2, <1>10, BeginTyped, MovedCopies
<1> QED BY <1>3, <1>4, <1>5, <1>6, <1>7, <1>8, <1>9, <1>10 DEF Proceeds, Syncs

LEMMA NextCopies ==
  ASSUME StateTyped, EstimateInv, CopiesInv, [Next]_vars
  PROVE  CopiesInv'
<1>1. ASSUME call' = call, told' = told, notice' = notice PROVE CopiesInv'
  BY <1>1, CopiesKept DEF NoticesStay
<1>2. CASE Uses \/ Falls \/ Snaps \/ (\E account \in Accounts : Replace(account))
  BY <1>1, <1>2, PlatformTyped
<1>3. ASSUME NEW p \in Processes, RequestFails(p) PROVE CopiesInv'
  <2>1. /\ Moved({p}) /\ call[p].step \in Requests \cup {"claim"}
        /\ notice' = notice /\ told' = told
    BY <1>3, RequestsTyped
  <2>2. {p} \in SUBSET Processes /\ \A q \in {p} : ~Sending(q)
    BY <2>1 DEF Sending, Requests
  <2> QED BY <2>1, <2>2, MovedCopies
<1>4. CASE UNCHANGED vars
  BY <1>1, <1>4 DEF vars
<1> QED BY <1>2, <1>3, <1>4, MinuteCopies, RestartCopies, RunsCopies, CommandsCopies DEF Next

\* A notice has at most one copy more than attempts in doubt, with two loops at a time,
\* leases that run out, cancelled deliveries and restarts between any two steps.
THEOREM CopiesNeedDoubts == Spec => []CopiesNeedDoubt
<1>1. Init => StateTyped /\ EstimateInv /\ CopiesInv
  <2>1. ASSUME Init PROVE CopiesInv
    <3>1. \A l \in Loops : ~Sending(l)
      BY <2>1, BootsPlain DEF Init, Plain, Sending, Processes
    <3>2. \A n \in Notices : told[n].copies = 0 /\ told[n].doubts = 0
      BY <2>1 DEF Init
    <3> QED BY <3>1, <3>2 DEF CopiesInv, OneSender, Counted
  <2> QED BY <2>1, InitEstimate
<1>2. StateTyped /\ EstimateInv /\ CopiesInv /\ [Next]_vars =>
        StateTyped' /\ EstimateInv' /\ CopiesInv'
  BY NextEstimate, NextCopies
<1>3. StateTyped /\ CopiesInv => CopiesNeedDoubt
  <2> SUFFICES ASSUME StateTyped, CopiesInv, NEW n \in Notices
               PROVE  told[n].copies <= 1 + told[n].doubts
    BY DEF CopiesNeedDoubt
  <2>1. told[n].copies \in Nat /\ told[n].doubts \in Nat
    BY DEF StateTyped
  <2>2. Counted(n)
    BY DEF CopiesInv
  <2> QED BY <2>1, <2>2 DEF Counted
<1> QED BY <1>1, <1>2, <1>3, PTL DEF Spec

-----------------------------------------------------------------------------
(* The order of the evidence, and the bounds. *)

OrderTyped == asked \subseteq Asked \X Asked /\ InOrder /\ Asked \subseteq Processes

Kinds == {"changes", "falls", "uses", "snapshots", "windows", "faults", "switches", "commands"}
Counters == [changes : Nat, falls : Nat, uses : Nat, snapshots : Nat,
             windows : Nat, faults : Nat, switches : Nat, commands : Nat]
CountTyped ==
  /\ count \in Counters
  /\ \E b \in Bounds : \A k \in DOMAIN b : count[k] \in 0 .. b[k]

LEMMA AskedPairs ==
  ASSUME OrderTyped
  PROVE  /\ \A p, q : <<p, q>> \in asked => p \in Asked /\ q \in Asked
         /\ \A p : p \in Asked <=> <<p, p>> \in asked
<1>1. \A p, q : <<p, q>> \in asked => p \in Asked /\ q \in Asked
  BY DEF OrderTyped
<1>2. \A p : p \in Asked => <<p, p>> \in asked
  BY DEF OrderTyped, InOrder
<1> QED BY <1>1, <1>2

\* Whoever remains does so in the same order.
LEMMA RemainingOrder ==
  ASSUME OrderTyped, NEW S, asked' = Remaining(S)
  PROVE  /\ OrderTyped' /\ Asked' = Asked \cap S
         /\ \A p, q : <<p, q>> \in asked' <=> <<p, q>> \in asked /\ p \in S /\ q \in S
<1>1. \A p, q : <<p, q>> \in asked' <=> <<p, q>> \in asked /\ p \in S /\ q \in S
  BY DEF Remaining
<1>2. Asked' = Asked \cap S
  <2>1. ASSUME NEW p \in Asked' PROVE p \in Asked \cap S
    <3>1. PICK pair \in asked' : p = pair[1]
      BY <2>1 DEF Asked
    <3>2. pair \in asked /\ pair \in S \X S
      BY <3>1 DEF Remaining
    <3> QED BY <3>1, <3>2 DEF Asked
  <2>2. ASSUME NEW p \in Asked \cap S PROVE p \in Asked'
    <3>1. <<p, p>> \in asked'
      BY <1>1, AskedPairs
    <3>2. <<p, p>>[1] = p
      OBVIOUS
    <3> QED BY <3>1, <3>2 DEF Asked
  <2> QED BY <2>1, <2>2
<1>3. asked' \subseteq Asked' \X Asked'
  <2>1. asked' \subseteq asked /\ asked' \subseteq S \X S
    BY DEF Remaining
  <2> QED BY <1>2, <2>1 DEF OrderTyped
<1>4. InOrder'
  BY <1>1, <1>2 DEF OrderTyped, InOrder
<1> QED BY <1>1, <1>2, <1>3, <1>4 DEF OrderTyped

LEMMA SameOrder ==
  ASSUME OrderTyped, asked' \in {asked, {}}
  PROVE  OrderTyped'
BY DEF OrderTyped, InOrder, Asked

\* Whoever asks is the last.
LEMMA AgainOrder ==
  ASSUME OrderTyped, NEW p \in Processes, asked' = AskedAgain(p)
  PROVE  /\ OrderTyped' /\ Asked' = Asked \cup {p}
         /\ \A q, r : <<q, r>> \in asked' <=>
                        \/ <<q, r>> \in asked /\ q # p /\ r # p
                        \/ (q \in Asked \/ q = p) /\ r = p
<1>1. \A q, r : <<q, r>> \in asked' <=>
                  \/ <<q, r>> \in asked /\ q # p /\ r # p
                  \/ (q \in Asked \/ q = p) /\ r = p
  BY AskedPairs DEF AskedAgain, Remaining
<1>2. Asked' = Asked \cup {p}
  <2>1. ASSUME NEW q \in Asked' PROVE q \in Asked \cup {p}
    <3>1. PICK pair \in asked' : q = pair[1]
      BY <2>1 DEF Asked
    <3>2. pair \in asked \/ pair \in (Asked \cup {p}) \X {p}
      BY <3>1 DEF AskedAgain, Remaining
    <3> QED BY <3>1, <3>2 DEF Asked
  <2>2. ASSUME NEW q \in Asked \cup {p} PROVE q \in Asked'
    <3>1. <<q, p>> \in asked'
      BY <1>1
    <3>2. <<q, p>>[1] = q
      OBVIOUS
    <3> QED BY <3>1, <3>2 DEF Asked
  <2> QED BY <2>1, <2>2
<1>3. asked' \subseteq Asked' \X Asked'
  BY <1>2 DEF AskedAgain, Remaining, OrderTyped
<1>4. InOrder'
  BY <1>1, <1>2, AskedPairs DEF OrderTyped, InOrder
<1> QED BY <1>1, <1>2, <1>3, <1>4 DEF OrderTyped

\* What any step does to the order of the evidence.
OrderStep ==
  \/ asked' \in {asked, {}}
  \/ \E p \in Processes : asked' \in {AskedAgain(p), Newer(p)}

LEMMA OrderSteps ==
  ASSUME Next
  PROVE  OrderStep
<1>1. CASE \/ Uses \/ Falls \/ Snaps \/ Minute \/ Restart
           \/ \E account \in Accounts : Replace(account)
           \/ \E p \in Processes : RequestFails(p)
           \/ \E l \in Loops : SendFails(l)
           \/ \E c \in Commands, job \in Operations : Begin(c, job)
  BY <1>1 DEF Uses, Falls, Snaps, Minute, Restart, Replace, RequestFails, SendFails, Begin,
              OrderStep
<1>2. ASSUME NEW p \in Processes, Syncs(p) PROVE OrderStep
  BY <1>2 DEF Syncs, Fetch, refresh_if_due, Request, Refetch, sync, OrderStep
<1>3. ASSUME NEW l \in Loops, Runs(l) PROVE OrderStep
  <2>1. CASE Check(l) \/ Tick(l) \/ Wakes(l)
    BY <2>1 DEF Check, Tick, Wakes, OrderStep
  <2>2. CASE Estimates(l)
    BY <2>2 DEF Estimates, SamplesMissing, _current_cycle, get_usage, _read_local,
                record_estimate, OrderStep
  <2>3. CASE Delivers(l)
    BY <2>3 DEF Delivers, deliver_pending, _claim, Send, _finish, OrderStep
  <2>4. l \in Processes
    BY DEF Processes
  <2> QED BY <1>2, <1>3, <2>1, <2>2, <2>3, <2>4 DEF Runs
<1>4. ASSUME NEW c \in Commands, Proceeds(c) PROVE OrderStep
  <2>1. c \in Processes
    BY DEF Processes
  <2>2. CASE _commit_reset(c) \/ queue_reset_failure(c)
    BY <2>1, <2>2 DEF _commit_reset, queue_reset_failure, OrderStep
  <2>3. CASE \/ set_sync_enabled(c) \/ sync_enabled(c) \/ start_quota_task(c)
             \/ _cancel_quota_loop(c) \/ Cancels(c) \/ Ended(c) \/ Clears(c)
    BY <2>3 DEF set_sync_enabled, sync_enabled, start_quota_task, _cancel_quota_loop, Cancels,
                Ended, Clears, OrderStep
  <2> QED BY <1>2, <1>4, <2>1, <2>2, <2>3 DEF Proceeds
<1> QED BY <1>1, <1>3, <1>4 DEF Next

LEMMA NextOrder ==
  ASSUME OrderTyped, [Next]_vars
  PROVE  OrderTyped'
<1>1. CASE UNCHANGED vars
  BY <1>1, SameOrder DEF vars
<1>2. CASE Next
  <2>1. OrderStep
    BY <1>2, OrderSteps
  <2>2. \A p : Newer(p) = Remaining({q \in Asked : p \in Asked => q # p /\ <<p, q>> \in asked})
    BY DEF Newer
  <2> QED BY <2>1, <2>2, SameOrder, AgainOrder, RemainingOrder DEF OrderStep
<1> QED BY <1>1, <1>2

LEMMA HappensTyped ==
  ASSUME CountTyped, NEW kind \in Kinds, Happens(kind)
  PROVE  CountTyped'
<1> DEFINE next == More(kind)
<1>1. next \in Counters /\ count' = next
  BY DEF CountTyped, Counters, Happens, More, Kinds
<1>2. PICK b \in Bounds : \A k \in DOMAIN b : next[k] <= b[k]
  BY DEF Happens, Reaches
<1>3. b \in Counters
  BY <1>2, BoundsAssumption DEF Counters
<1> HIDE DEF next
<1>4. \A k \in DOMAIN b : b[k] \in Nat /\ next[k] \in Nat
  BY <1>1, <1>3 DEF Counters
<1>5. \A k \in DOMAIN b : next[k] \in 0 .. b[k]
  BY <1>2, <1>4
<1> QED BY <1>1, <1>5 DEF CountTyped

\* What any step does to the counters of the bounds.
CountStep == count' = count \/ \E kind \in Kinds : Happens(kind)

LEMMA CountSteps ==
  ASSUME Next
  PROVE  CountStep
<1>1. CASE \/ Uses \/ Falls \/ Snaps \/ Minute \/ Restart
           \/ \E account \in Accounts : Replace(account)
           \/ \E p \in Processes : RequestFails(p)
           \/ \E l \in Loops : SendFails(l)
           \/ \E c \in Commands, job \in Operations : Begin(c, job)
  BY <1>1 DEF Uses, Falls, Snaps, Stores, Minute, Restart, Replace, RequestFails, SendFails,
              Begin, Fault, CountStep, Kinds
<1>2. ASSUME NEW p, Syncs(p) PROVE CountStep
  BY <1>2 DEF Syncs, Fetch, refresh_if_due, Request, Stores, Refetch, sync, CountStep, Kinds
<1>3. ASSUME NEW l \in Loops, Runs(l) PROVE CountStep
  <2>1. CASE Check(l) \/ Tick(l) \/ Wakes(l)
    BY <2>1 DEF Check, Tick, Wakes, CountStep
  <2>2. CASE Estimates(l)
    BY <2>2 DEF Estimates, SamplesMissing, _current_cycle, get_usage, _read_local,
                record_estimate, CountStep
  <2>3. CASE Delivers(l)
    BY <2>3 DEF Delivers, deliver_pending, _claim, Send, _finish, CountStep
  <2> QED BY <1>2, <1>3, <2>1, <2>2, <2>3 DEF Runs
<1>4. ASSUME NEW c \in Commands, Proceeds(c) PROVE CountStep
  <2>1. CASE _commit_reset(c) \/ queue_reset_failure(c)
    BY <2>1 DEF _commit_reset, queue_reset_failure, CountStep
  <2>2. CASE \/ set_sync_enabled(c) \/ sync_enabled(c) \/ start_quota_task(c)
             \/ _cancel_quota_loop(c) \/ Cancels(c) \/ Ended(c) \/ Clears(c)
    BY <2>2 DEF set_sync_enabled, sync_enabled, start_quota_task, _cancel_quota_loop, Cancels,
                Ended, Clears, CountStep
  <2> QED BY <1>2, <1>4, <2>1, <2>2 DEF Proceeds
<1> QED BY <1>1, <1>3, <1>4 DEF Next

LEMMA NextCount ==
  ASSUME CountTyped, [Next]_vars
  PROVE  CountTyped'
<1>1. CASE UNCHANGED vars
  BY <1>1 DEF vars, CountTyped
<1>2. CASE Next
  <2>1. CountStep
    BY <1>2, CountSteps
  <2> QED BY <2>1, HappensTyped DEF CountStep, CountTyped
<1> QED BY <1>1, <1>2

LEMMA InitOrder == Init => OrderTyped /\ CountTyped
<1> SUFFICES ASSUME Init PROVE OrderTyped /\ CountTyped
  OBVIOUS
<1>1. OrderTyped
  BY DEF Init, OrderTyped, InOrder, Asked
<1>2. count \in Counters /\ \A k \in DOMAIN count : count[k] = 0
  BY DEF Init, Counters
<1> QED BY <1>1, <1>2, BoundsAssumption DEF CountTyped, Counters

\* The round, the rows, the jobs, the claims and every call keep their types, and the
\* order in which evidence was asked for stays one, in any interleaving.
THEOREM StatisticsTyped == Spec => []TypeOK
<1>1. Init => StateTyped /\ EstimateInv /\ OrderTyped /\ CountTyped
  BY InitEstimate, InitOrder
<1>2. StateTyped /\ EstimateInv /\ OrderTyped /\ CountTyped /\ [Next]_vars =>
        StateTyped' /\ EstimateInv' /\ OrderTyped' /\ CountTyped'
  BY NextEstimate, NextOrder, NextCount
<1>3. StateTyped /\ OrderTyped /\ CountTyped => TypeOK
  BY DEF StateTyped, OrderTyped, CountTyped, TypeOK
<1> QED BY <1>1, <1>2, <1>3, PTL DEF Spec
=============================================================================
