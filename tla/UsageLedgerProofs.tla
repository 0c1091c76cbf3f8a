--------------------------- MODULE UsageLedgerProofs ---------------------------
(***************************************************************************)
(* Safety of UsageLedger: a job keeps its sample and completes once, a     *)
(* charge or a doubt is never taken back, a completed sample is            *)
(* accounted for in every round it belongs to, and nobody is charged for   *)
(* the use of another user or another round; a verified ledger whose       *)
(* associations are over leaves out nothing; and the types of its rows,    *)
(* its runners and its sums.  All of it for any number of users, devices,  *)
(* runners and rounds, and any bounds.                                     *)
(***************************************************************************)
EXTENDS UsageLedger, SumTheorems, TLAPS

Phases == Pending \cup {"none", "completed"}
RunnerSteps == {"idle", "plan", "ensure", "collect", "request", "save", "planSample",
                "ensureSample", "apply", "finish", "retry"}

PersonType == [user : Users \cup {None}, device : Devices \cup {None}, started : Nat \cup {None},
               ended : Nat \cup {None}, fresh : BOOLEAN]
RoundType == [started : Nat, reset : Nat, created : Nat,
              status : {"VERIFIED", "NEEDS_REVIEW", "EXPIRED", "NONE"}]
SegmentType == [baseline : Nat \cup {None}, at : Nat \cup {None}, used : Nat \cup {None},
                imported : Nat \cup {None}, quality : Qualities \cup {"NONE"}]
JobType == [phase : Phases, sampled : Nat \cup {None}, total : Nat \cup {None}]
RunnerType == [assoc : AssociationIds \cup {None}, seq : Sequences \cup {None},
               step : RunnerSteps, latest : BOOLEAN, claimed : Nat, total : Nat \cup {None},
               ended : Nat \cup {None}, plan : SUBSET CycleIds, todo : SUBSET CycleIds,
               unresolved : BOOLEAN]

\* An association exists once its number was given out.
PeopleInv ==
  /\ nextAssociation \in Nat \ {0}
  /\ association \in [AssociationIds -> PersonType]
  /\ \A a \in AssociationIds :
       IF a < nextAssociation
       THEN association[a].device \in Devices /\ association[a].started \in Nat
       ELSE association[a] = NoAssociation

\* A round began by the time it was stored, and ends after those before it.
RoundsInv ==
  /\ now \in Nat
  /\ nextCycle \in 1 .. MaxCycles + 1
  /\ cycle \in [CycleIds -> RoundType]
  /\ \A c \in CycleIds : c < nextCycle =>
       cycle[c].started <= cycle[c].created /\ cycle[c].created <= now
  /\ \A c, d \in CycleIds : c <= d /\ d < nextCycle => cycle[c].reset <= cycle[d].reset

\* A segment without a baseline has no charge.
SegmentsInv ==
  /\ total \in [Devices -> Nat]
  /\ segment \in [AssociationIds -> [CycleIds -> SegmentType]]
  /\ \A a \in AssociationIds, c \in CycleIds :
       /\ segment[a][c].baseline = None => segment[a][c].used = None
       /\ a >= nextAssociation => segment[a][c] = NoSegment

\* Samples are of associations that exist and of the past; a completed job has one.
JobsInv ==
  /\ job \in [AssociationIds -> [Sequences -> JobType]]
  /\ \A a \in AssociationIds, s \in Sequences :
       /\ job[a][s].phase # "none" \/ job[a][s].sampled # None \/ <<a, s>> \in planned =>
            a < nextAssociation
       /\ job[a][s].sampled # None => job[a][s].sampled < now /\ job[a][s].total # None
       /\ job[a][s].phase = "completed" => job[a][s].sampled # None

\* A runner works on a job of an association that exists; the end it has read is the end,
\* and past the collection there is a snapshot.
Placed(p) ==
  LET a == runner[p].assoc  s == runner[p].seq IN
  /\ runner[p].step # "idle" => a \in AssociationIds /\ a < nextAssociation /\ s \in Sequences
  /\ runner[p].step \in {"request", "save"} => runner[p].claimed < now
  /\ runner[p].step = "save" => runner[p].total # None
  /\ runner[p].step \in {"planSample", "ensureSample", "apply", "finish"} =>
       job[a][s].sampled # None
  /\ runner[p].step # "idle" /\ runner[p].ended # None =>
       association[a].ended = runner[p].ended

BooksInv == PeopleInv /\ RoundsInv /\ SegmentsInv /\ JobsInv
RunnersInv == runner \in [Runners -> RunnerType] /\ \A p \in Runners : Placed(p)

\* The sample was asked for in a round that was stored by then, or in the one in which
\* the association began.
Belongs(a, s, c) ==
  \/ cycle[c].created <= job[a][s].sampled
  \/ cycle[c].started <= association[a].started /\ cycle[c].started <= job[a][s].sampled

\* The rounds that job s of association a has to be accounted for in ...
Due(a, s) == {c \in CycleIds : c < nextCycle /\ Overlaps(a, c) /\ Belongs(a, s, c)}

\* ... and is.
Counted(a, s, c) ==
  \/ segment[a][c].at # None /\ segment[a][c].at >= job[a][s].sampled
  \/ segment[a][c].quality = "NEEDS_REVIEW"

\* No round in which the association began is stored from now on.
Reached(a) == \E c \in CycleIds : c < nextCycle /\ cycle[c].reset > association[a].started

\* A runner leaves out no round, unless it will put the job back.
LeavesOutNothing(p) ==
  LET a == runner[p].assoc  s == runner[p].seq IN
  /\ runner[p].step \in {"ensureSample", "apply", "finish"} => Reached(a)
  /\ runner[p].step = "ensureSample" /\ ~runner[p].unresolved => Due(a, s) \subseteq runner[p].plan
  /\ runner[p].step = "apply" /\ ~runner[p].unresolved =>
       \A c \in Due(a, s) : c \in runner[p].todo \/ Counted(a, s, c)
  /\ runner[p].step = "finish" => \A c \in Due(a, s) : Counted(a, s, c)

SamplesCounted ==
  \A a \in AssociationIds, s \in Sequences :
    job[a][s].phase = "completed" => Reached(a) /\ \A c \in Due(a, s) : Counted(a, s, c)

LedgerInv ==
  /\ BooksInv /\ RunnersInv
  /\ \A p \in Runners : LeavesOutNothing(p)
  /\ SamplesCounted

LEMMA InitLedger == Init => LedgerInv
<1> SUFFICES ASSUME Init PROVE LedgerInv
  OBVIOUS
<1>1. PeopleInv
  BY DEF Init, PeopleInv, PersonType, NoAssociation, AssociationIds
<1>2. RoundsInv
  BY BoundAssumption DEF Init, RoundsInv, RoundType, NoCycle, Latest
<1>3. SegmentsInv
  BY DEF Init, SegmentsInv, SegmentType, NoSegment, Amount
<1>4. JobsInv
  BY DEF Init, JobsInv, JobType, NoJob, Phases, Pending
<1>5. RunnersInv
  BY DEF Init, RunnersInv, RunnerType, RunnerSteps, Placed, Idle
<1>6. \A p \in Runners : LeavesOutNothing(p)
  BY DEF Init, LeavesOutNothing, Idle
<1>7. SamplesCounted
  BY DEF Init, SamplesCounted, NoJob
<1> QED BY <1>1, <1>2, <1>3, <1>4, <1>5, <1>6, <1>7 DEF LedgerInv, BooksInv

-----------------------------------------------------------------------------
(* What every step does to the books: it adds to them.                     *)

PeopleGrow ==
  /\ nextAssociation' >= nextAssociation
  /\ \A a \in AssociationIds : a < nextAssociation =>
       /\ association'[a].started = association[a].started
       /\ association[a].ended # None => association'[a].ended = association[a].ended

RoundsGrow ==
  /\ now' >= now /\ nextCycle' >= nextCycle
  /\ \A c \in CycleIds : c < nextCycle => /\ cycle'[c].started = cycle[c].started
                                          /\ cycle'[c].reset = cycle[c].reset
                                          /\ cycle'[c].created = cycle[c].created
  /\ \A c \in CycleIds : c >= nextCycle /\ c < nextCycle' =>
       /\ cycle'[c].created >= now
       /\ \A d \in CycleIds : d < nextCycle => cycle'[c].started >= cycle[d].reset

RowGrows(old, new) ==
  /\ old.used # None => new.used # None /\ new.used >= old.used
  /\ old.at # None => new.at # None /\ new.at >= old.at
  /\ old.quality = "NEEDS_REVIEW" => new.quality = "NEEDS_REVIEW"

SegmentsGrow == \A a \in AssociationIds, c \in CycleIds : RowGrows(segment[a][c], segment'[a][c])

JobsGrow ==
  \A a \in AssociationIds, s \in Sequences :
    /\ job[a][s].sampled # None => /\ job'[a][s].sampled = job[a][s].sampled
                                   /\ job'[a][s].total = job[a][s].total
    /\ job[a][s].phase = "completed" => job'[a][s] = job[a][s]

Grows == PeopleGrow /\ RoundsGrow /\ SegmentsGrow /\ JobsGrow

\* A job is completed only when its sample is accounted for.
CompletesCounted ==
  \A a \in AssociationIds, s \in Sequences : job'[a][s].phase = "completed" =>
    \/ job[a][s].phase = "completed"
    \/ /\ a < nextAssociation /\ job[a][s].sampled # None /\ Reached(a)
       /\ \A c \in Due(a, s) : Counted(a, s, c)

RunnerGoesOn(p) ==
  LET old == runner[p]  new == runner'[p] IN
  /\ new.assoc = old.assoc /\ new.seq = old.seq /\ new.step = old.step
  /\ new.claimed = old.claimed /\ new.total = old.total /\ new.ended = old.ended
  /\ new.plan = old.plan /\ new.todo = old.todo /\ new.unresolved = old.unresolved

LEMMA BoundsTyped == MaxCycles \in Nat /\ MaxAssociations \in Nat
BY BoundAssumption

LEMMA JobTyped ==
  ASSUME JobsInv, NEW a \in AssociationIds, NEW s \in Sequences
  PROVE  job[a][s] \in JobType /\ job[a][s].sampled \in Nat \cup {None}
<1>1. job[a][s] \in JobType
  BY DEF JobsInv
<1> QED BY <1>1 DEF JobType

LEMMA SegmentTyped ==
  ASSUME SegmentsInv, SegmentsInv', NEW a \in AssociationIds, NEW c \in CycleIds
  PROVE  /\ segment[a][c] \in SegmentType /\ segment'[a][c] \in SegmentType
         /\ segment[a][c].at \in Nat \cup {None} /\ segment'[a][c].at \in Nat \cup {None}
<1>1. segment[a][c] \in SegmentType /\ segment'[a][c] \in SegmentType
  BY DEF SegmentsInv
<1> QED BY <1>1 DEF SegmentType

LEMMA RoundTyped ==
  ASSUME RoundsInv, RoundsInv'
  PROVE  /\ nextCycle \in Nat /\ nextCycle' \in Nat /\ now \in Nat /\ now' \in Nat
         /\ \A c \in CycleIds :
              /\ c \in Nat /\ cycle[c].created \in Nat /\ cycle'[c].created \in Nat
              /\ cycle[c].started \in Nat /\ cycle'[c].started \in Nat /\ cycle[c].reset \in Nat
<1>1. nextCycle \in 1 .. MaxCycles + 1 /\ nextCycle' \in 1 .. MaxCycles + 1
  BY DEF RoundsInv
<1>2. nextCycle \in Nat /\ nextCycle' \in Nat
  BY <1>1, BoundsTyped
<1>3. \A c \in CycleIds : cycle[c] \in RoundType /\ cycle'[c] \in RoundType
  BY DEF RoundsInv
<1>4. \A c \in CycleIds :
        /\ cycle[c].created \in Nat /\ cycle'[c].created \in Nat
        /\ cycle[c].started \in Nat /\ cycle'[c].started \in Nat /\ cycle[c].reset \in Nat
  BY <1>3 DEF RoundType
<1>5. \A c \in CycleIds : c \in Nat
  BY BoundsTyped DEF CycleIds
<1>6. now \in Nat /\ now' \in Nat
  BY DEF RoundsInv
<1> QED BY <1>2, <1>4, <1>5, <1>6

\* The association began in no round that is stored after one that reaches it.
LEMMA ReachedStays ==
  ASSUME BooksInv, BooksInv', Grows, NEW a \in AssociationIds, a < nextAssociation, Reached(a)
  PROVE  /\ Reached(a)'
         /\ \A c \in CycleIds : c >= nextCycle /\ c < nextCycle' =>
              ~(cycle'[c].started <= association'[a].started)
<1>1. PICK d \in CycleIds : d < nextCycle /\ cycle[d].reset > association[a].started
  BY DEF Reached
<1>2. /\ nextCycle \in Nat /\ nextCycle' \in Nat /\ nextCycle' >= nextCycle /\ d \in Nat
      /\ cycle[d].reset \in Nat
      /\ \A c \in CycleIds : c \in Nat /\ cycle'[c].started \in Nat
  BY RoundTyped DEF BooksInv, Grows, RoundsGrow
<1>3. /\ association'[a].started = association[a].started /\ association[a].started \in Nat
      /\ cycle'[d].reset = cycle[d].reset
  BY <1>1 DEF BooksInv, PeopleInv, Grows, PeopleGrow, RoundsGrow
<1>4. d < nextCycle'
  BY <1>1, <1>2
<1>5. Reached(a)'
  BY <1>1, <1>3, <1>4 DEF Reached
<1>6. ASSUME NEW c \in CycleIds, c >= nextCycle, c < nextCycle'
      PROVE  ~(cycle'[c].started <= association'[a].started)
  <2>1. cycle'[c].started >= cycle[d].reset
    BY <1>1, <1>6 DEF Grows, RoundsGrow
  <2>2. cycle'[c].started \in Nat /\ cycle[d].reset \in Nat
    BY <1>2
  <2>3. cycle[d].reset > association[a].started
    BY <1>1
  <2> QED BY <1>3, <2>1, <2>2, <2>3
<1> QED BY <1>5, <1>6

\* A sample does not become due in a round that is stored or begins later.
LEMMA DueStays ==
  ASSUME BooksInv, BooksInv', Grows, NEW a \in AssociationIds, NEW s \in Sequences,
         a < nextAssociation, job[a][s].sampled # None, Reached(a)
  PROVE  Due(a, s)' \subseteq Due(a, s) /\ Reached(a)'
<1> SUFFICES ASSUME NEW c \in Due(a, s)' PROVE c \in Due(a, s)
  BY ReachedStays
<1>1. /\ job'[a][s].sampled = job[a][s].sampled /\ job[a][s].sampled \in Nat
      /\ job[a][s].sampled < now
  BY JobTyped DEF BooksInv, JobsInv, Grows, JobsGrow
<1>2. c \in CycleIds /\ c < nextCycle' /\ Belongs(a, s, c)'
  BY DEF Due
<1>3. /\ now \in Nat /\ nextCycle \in Nat /\ nextCycle' \in Nat
      /\ c \in Nat /\ cycle'[c].created \in Nat
  BY <1>2, RoundTyped DEF BooksInv
<1>4. c >= nextCycle => /\ cycle'[c].created >= now
                        /\ ~(cycle'[c].started <= association'[a].started)
  BY <1>2, ReachedStays DEF Grows, RoundsGrow
<1>5. c < nextCycle
  BY <1>1, <1>2, <1>3, <1>4 DEF Belongs
<1>6. Overlaps(a, c)' => Overlaps(a, c)
  BY <1>2, <1>5 DEF Overlaps, Grows, PeopleGrow, RoundsGrow
<1>7. Overlaps(a, c)'
  BY DEF Due
<1>8. Belongs(a, s, c)
  BY <1>1, <1>2, <1>5 DEF Belongs, Grows, PeopleGrow, RoundsGrow
<1> QED BY <1>2, <1>5, <1>6, <1>7, <1>8 DEF Due

LEMMA CountedStays ==
  ASSUME BooksInv, BooksInv', Grows, NEW a \in AssociationIds, NEW s \in Sequences,
         NEW c \in CycleIds, job[a][s].sampled # None, Counted(a, s, c)
  PROVE  Counted(a, s, c)'
<1>1. /\ job'[a][s].sampled = job[a][s].sampled /\ job[a][s].sampled \in Nat
  BY JobTyped DEF BooksInv, Grows, JobsGrow
<1>2. RowGrows(segment[a][c], segment'[a][c])
  BY DEF Grows, SegmentsGrow
<1>3. segment[a][c].at \in Nat \cup {None} /\ segment'[a][c].at \in Nat \cup {None}
  BY SegmentTyped DEF BooksInv
<1> QED BY <1>1, <1>2, <1>3 DEF Counted, RowGrows

LEMMA RunnerStays ==
  ASSUME LedgerInv, BooksInv', Grows, NEW p \in Runners, RunnerGoesOn(p)
  PROVE  Placed(p)' /\ LeavesOutNothing(p)'
<1>1. Placed(p) /\ BooksInv /\ LeavesOutNothing(p)
  BY DEF LedgerInv, RunnersInv
<1>2. PICK a, s : a = runner[p].assoc /\ s = runner[p].seq /\ a = runner'[p].assoc /\ s = runner'[p].seq
  BY DEF RunnerGoesOn
<1>3. nextAssociation \in Nat /\ nextAssociation' \in Nat /\ now \in Nat /\ now' \in Nat
  BY <1>1 DEF BooksInv, PeopleInv, RoundsInv
<1>4. Placed(p)'
  <2>1. CASE runner[p].step = "idle"
    BY <2>1 DEF Placed, RunnerGoesOn
  <2>2. CASE runner[p].step # "idle"
    <3>1. a \in AssociationIds /\ a < nextAssociation /\ s \in Sequences
      BY <1>1, <1>2, <2>2 DEF Placed
    <3>2. a < nextAssociation'
      BY <1>3, <3>1 DEF Grows, PeopleGrow, AssociationIds
    <3>3. /\ runner'[p].step \in {"request", "save"} => runner'[p].claimed < now'
          /\ runner'[p].step = "save" => runner'[p].total # None
      <4>1. runner[p].claimed \in Nat
        BY DEF LedgerInv, RunnersInv, RunnerType
      <4> QED BY <1>1, <1>3, <4>1 DEF Placed, RunnerGoesOn, Grows, RoundsGrow
    <3>4. job[a][s].sampled # None => job'[a][s].sampled # None
      BY <3>1 DEF Grows, JobsGrow
    <3>5. association[a].ended # None => association'[a].ended = association[a].ended
      BY <3>1 DEF Grows, PeopleGrow
    <3> QED BY <1>1, <1>2, <3>1, <3>2, <3>3, <3>4, <3>5 DEF Placed, RunnerGoesOn
  <2> QED BY <2>1, <2>2
<1>5. ASSUME runner[p].step \in {"ensureSample", "apply", "finish"}
      PROVE  /\ Due(a, s)' \subseteq Due(a, s) /\ Reached(a)'
             /\ \A c \in Due(a, s) : Counted(a, s, c) => Counted(a, s, c)'
  <2>1. /\ a \in AssociationIds /\ a < nextAssociation /\ s \in Sequences
        /\ job[a][s].sampled # None /\ Reached(a)
    BY <1>1, <1>2, <1>5 DEF Placed, LeavesOutNothing
  <2>2. Due(a, s) \subseteq CycleIds
    BY DEF Due
  <2> QED BY <1>1, <2>1, <2>2, DueStays, CountedStays
<1>6. LeavesOutNothing(p)'
  <2>1. SUFFICES /\ runner[p].step \in {"ensureSample", "apply", "finish"} => Reached(a)'
                 /\ runner[p].step = "ensureSample" /\ ~runner[p].unresolved =>
                      Due(a, s)' \subseteq runner[p].plan
                 /\ runner[p].step = "apply" /\ ~runner[p].unresolved =>
                      \A c \in Due(a, s)' : c \in runner[p].todo \/ Counted(a, s, c)'
                 /\ runner[p].step = "finish" => \A c \in Due(a, s)' : Counted(a, s, c)'
    BY <1>2 DEF LeavesOutNothing, RunnerGoesOn, Due, Belongs, Counted, Overlaps, Reached
  <2> QED BY <1>1, <1>2, <1>5 DEF LeavesOutNothing
<1> QED BY <1>4, <1>6

\* A runner that gives up, or is about to, has nothing to leave out.
LEMMA RunnerGivesUp ==
  ASSUME NEW p \in Runners, runner'[p].step \in {"idle", "plan", "ensure", "collect", "retry"},
         runner'[p].step # "idle" =>
           /\ runner'[p].assoc \in AssociationIds /\ runner'[p].assoc < nextAssociation'
           /\ runner'[p].seq \in Sequences
           /\ runner'[p].ended \in {None, association'[runner'[p].assoc].ended}
  PROVE  Placed(p)' /\ LeavesOutNothing(p)'
BY DEF Placed, LeavesOutNothing

LEMMA StepKeeps ==
  ASSUME LedgerInv, BooksInv', Grows, CompletesCounted, runner' \in [Runners -> RunnerType],
         \A p \in Runners : RunnerGoesOn(p) \/ (Placed(p)' /\ LeavesOutNothing(p)')
  PROVE  LedgerInv' /\ Grows
<1>1. \A p \in Runners : Placed(p)' /\ LeavesOutNothing(p)'
  BY RunnerStays
<1>2. BooksInv
  BY DEF LedgerInv
<1>3. SamplesCounted'
  <2>1. SUFFICES ASSUME NEW a \in AssociationIds, NEW s \in Sequences,
                        job'[a][s].phase = "completed"
                 PROVE  Reached(a)' /\ \A c \in Due(a, s)' : Counted(a, s, c)'
    BY DEF SamplesCounted, Due, Belongs, Counted, Overlaps, Reached
  <2>2. /\ a < nextAssociation /\ job[a][s].sampled # None /\ Reached(a)
        /\ \A c \in Due(a, s) : Counted(a, s, c)
    BY <1>2, <2>1 DEF CompletesCounted, LedgerInv, SamplesCounted, BooksInv, JobsInv
  <2>3. Due(a, s) \subseteq CycleIds
    BY DEF Due
  <2> QED BY <1>2, <2>2, <2>3, DueStays, CountedStays
<1> QED BY <1>1, <1>2, <1>3 DEF LedgerInv, RunnersInv

-----------------------------------------------------------------------------
(* What a step leaves alone is as it was, at a later time perhaps.         *)

LEMMA PeopleSame ==
  ASSUME PeopleInv, UNCHANGED people
  PROVE  PeopleInv' /\ PeopleGrow
<1>1. nextAssociation' >= nextAssociation
  BY DEF PeopleInv, people
<1> QED BY <1>1 DEF PeopleInv, PeopleGrow, people

LEMMA RoundsSame ==
  ASSUME RoundsInv, UNCHANGED rounds, now' \in Nat, now' >= now
  PROVE  RoundsInv' /\ RoundsGrow
<1>1. nextCycle \in Nat /\ now \in Nat /\ CycleIds \subseteq Nat
  BY BoundsTyped DEF RoundsInv, CycleIds
<1>2. ASSUME NEW c \in CycleIds, c < nextCycle
      PROVE  cycle[c].created <= now'
  <2>1. cycle[c] \in RoundType /\ cycle[c].created <= now
    BY <1>2 DEF RoundsInv
  <2>2. cycle[c].created \in Nat
    BY <2>1 DEF RoundType
  <2> QED BY <1>1, <2>1, <2>2
<1>3. RoundsInv'
  BY <1>2 DEF RoundsInv, rounds
<1>4. nextCycle' = nextCycle /\ cycle' = cycle /\ nextCycle' >= nextCycle
  BY <1>1 DEF rounds
<1>5. \A c \in CycleIds : ~(c >= nextCycle /\ c < nextCycle')
  BY <1>1, <1>4
<1> QED BY <1>3, <1>4, <1>5 DEF RoundsGrow

LEMMA RowStays ==
  ASSUME NEW row \in SegmentType
  PROVE  RowGrows(row, row)
<1>1. row.used \in Nat \cup {None} /\ row.at \in Nat \cup {None}
  BY DEF SegmentType
<1> QED BY <1>1 DEF RowGrows

LEMMA SegmentsSame ==
  ASSUME SegmentsInv, UNCHANGED segment, total' \in [Devices -> Nat],
         nextAssociation \in Nat, nextAssociation' \in Nat, nextAssociation' >= nextAssociation
  PROVE  SegmentsInv' /\ SegmentsGrow
<1>1. AssociationIds \subseteq Nat
  BY BoundsTyped DEF AssociationIds
<1>2. SegmentsInv'
  <2>1. ASSUME NEW a \in AssociationIds, a >= nextAssociation'
        PROVE  a >= nextAssociation
    BY <1>1, <2>1
  <2> QED BY <2>1 DEF SegmentsInv
<1>3. \A a \in AssociationIds, c \in CycleIds : segment[a][c] \in SegmentType
  BY DEF SegmentsInv
<1>4. SegmentsGrow
  BY <1>3, RowStays DEF SegmentsGrow
<1> QED BY <1>2, <1>4

LEMMA JobsSame ==
  ASSUME JobsInv, UNCHANGED job, planned' \subseteq planned, now \in Nat, now' \in Nat,
         now' >= now, nextAssociation \in Nat, nextAssociation' \in Nat,
         nextAssociation' >= nextAssociation
  PROVE  JobsInv' /\ JobsGrow /\ CompletesCounted
<1>1. AssociationIds \subseteq Nat
  BY BoundsTyped DEF AssociationIds
<1>2. ASSUME NEW a \in AssociationIds, NEW s \in Sequences
      PROVE  /\ job[a][s].phase # "none" \/ job[a][s].sampled # None \/ <<a, s>> \in planned' =>
                  a < nextAssociation'
             /\ job[a][s].sampled # None => job[a][s].sampled < now'
  <2>1. job[a][s].sampled # None => job[a][s].sampled \in Nat
    BY JobTyped
  <2> QED BY <1>1, <2>1 DEF JobsInv
<1>3. JobsInv'
  BY <1>2 DEF JobsInv
<1> QED BY <1>3 DEF JobsGrow, CompletesCounted

-----------------------------------------------------------------------------
(* Associations, rounds and the platform.                                  *)

LEMMA Numbers ==
  ASSUME BooksInv
  PROVE  /\ now \in Nat /\ now + 2 \in Nat /\ now + 2 >= now /\ now >= now
         /\ nextAssociation \in Nat /\ nextAssociation + 1 \in Nat
         /\ nextAssociation >= nextAssociation /\ nextAssociation + 1 >= nextAssociation
         /\ AssociationIds \subseteq Nat /\ CycleIds \subseteq Nat
<1>1. now \in Nat /\ nextAssociation \in Nat
  BY DEF BooksInv, RoundsInv, PeopleInv
<1> QED BY <1>1, BoundsTyped DEF AssociationIds, CycleIds

\* A new association takes the next number.
LEMMA NewPerson ==
  ASSUME BooksInv, NEW u \in Users, NEW d \in Devices, NEW fresh \in BOOLEAN,
         NewAssociation(u, d, fresh)
  PROVE  PeopleInv' /\ PeopleGrow /\ nextAssociation \in AssociationIds
         /\ nextAssociation' = nextAssociation + 1 /\ now' = now + 2
<1>1. PICK n \in Nat : n = nextAssociation
  BY Numbers
<1>2. n \in AssociationIds /\ nextAssociation' = n + 1 /\ now' = now + 2
  BY <1>1, BoundsTyped DEF BooksInv, PeopleInv, NewAssociation, TimePasses, AssociationIds
<1>3. PICK row : row = [user |-> u, device |-> d, started |-> now, ended |-> None, fresh |-> fresh]
  OBVIOUS
<1>4. association' = [association EXCEPT ![n] = row]
  BY <1>1, <1>3 DEF NewAssociation
<1>5. row \in PersonType /\ row.device \in Devices /\ row.started \in Nat
  BY <1>3, Numbers DEF PersonType
<1>6. association \in [AssociationIds -> PersonType] /\ n \in Nat \ {0}
  BY <1>1 DEF BooksInv, PeopleInv
<1>7. association' \in [AssociationIds -> PersonType]
  BY <1>4, <1>5, <1>6
<1>8. \A a \in AssociationIds : association'[a] = IF a = n THEN row ELSE association[a]
  BY <1>4, <1>6
<1>9. \A a \in AssociationIds : a < n + 1 <=> a < n \/ a = n
  BY <1>6, Numbers
<1>10. PeopleInv'
  BY <1>1, <1>2, <1>5, <1>6, <1>7, <1>8, <1>9 DEF BooksInv, PeopleInv
<1>11. PeopleGrow
  BY <1>1, <1>2, <1>6, <1>8, Numbers DEF PeopleGrow
<1> QED BY <1>1, <1>2, <1>10, <1>11

LEMMA AssociateBooks ==
  ASSUME BooksInv, NEW u \in Users, NEW d \in Devices, NEW fresh \in BOOLEAN,
         Associate(u, d, fresh)
  PROVE  BooksInv' /\ Grows /\ CompletesCounted
<1>1. /\ PeopleInv' /\ PeopleGrow /\ nextAssociation' = nextAssociation + 1 /\ now' = now + 2
  BY NewPerson DEF Associate
<1>2. /\ nextAssociation' \in Nat /\ nextAssociation' >= nextAssociation
      /\ now' \in Nat /\ now' >= now
  BY <1>1, Numbers
<1>3. RoundsInv' /\ RoundsGrow
  BY <1>2, RoundsSame DEF Associate, BooksInv
<1>4. SegmentsInv' /\ SegmentsGrow
  <2>1. UNCHANGED segment /\ total' = total
    BY DEF Associate, books, world
  <2> QED BY <1>2, <2>1, SegmentsSame, Numbers DEF BooksInv, SegmentsInv
<1>5. JobsInv' /\ JobsGrow /\ CompletesCounted
  BY <1>2, JobsSame, Numbers DEF Associate, BooksInv
<1> QED BY <1>1, <1>3, <1>4, <1>5 DEF BooksInv, Grows

LEMMA ImportBooks ==
  ASSUME BooksInv, NEW u \in Users, NEW d \in Devices, NEW amount \in Nat,
         import_initial_usage(u, d, amount)
  PROVE  BooksInv' /\ Grows /\ CompletesCounted
<1>1. NewAssociation(u, d, FALSE) /\ UNCHANGED <<world, rounds, job, planned>>
  BY DEF import_initial_usage
<1>2. /\ PeopleInv' /\ PeopleGrow /\ nextAssociation' = nextAssociation + 1 /\ now' = now + 2
      /\ nextAssociation \in AssociationIds
  BY <1>1, NewPerson
<1>3. /\ nextAssociation' \in Nat /\ nextAssociation' >= nextAssociation
      /\ now' \in Nat /\ now' >= now
  BY <1>2, Numbers
<1>4. RoundsInv' /\ RoundsGrow
  BY <1>1, <1>3, RoundsSame DEF BooksInv
<1>5. JobsInv' /\ JobsGrow /\ CompletesCounted
  BY <1>1, <1>3, JobsSame, Numbers DEF BooksInv
<1>6. PICK a \in AssociationIds, c \in {Latest} : a = nextAssociation /\ c = Latest
  BY <1>2
<1>7. c \in CycleIds
  <2>1. c = nextCycle - 1 /\ c > 0 /\ nextCycle \in 1 .. MaxCycles + 1
    BY <1>6 DEF import_initial_usage, Latest, BooksInv, RoundsInv
  <2> QED BY <2>1, BoundsTyped DEF CycleIds
<1>8. PICK row : row = [baseline |-> total[d], at |-> now, used |-> amount,
                        imported |-> amount, quality |-> "VERIFIED"]
  OBVIOUS
<1>9. segment' = [segment EXCEPT ![a][c] = row]
  BY <1>6, <1>8 DEF import_initial_usage
<1>10. total[d] \in Nat /\ segment \in [AssociationIds -> [CycleIds -> SegmentType]]
       /\ total' = total
  BY <1>1 DEF BooksInv, SegmentsInv, world
<1>11. row \in SegmentType /\ row.baseline # None
  BY <1>8, <1>10, Numbers, NoneAssumption DEF SegmentType, Qualities
<1>12. segment' \in [AssociationIds -> [CycleIds -> SegmentType]]
  BY <1>7, <1>9, <1>10, <1>11
<1>13. \A b \in AssociationIds, e \in CycleIds :
         segment'[b][e] = IF b = a /\ e = c THEN row ELSE segment[b][e]
  BY <1>7, <1>9, <1>10
<1>14. SegmentsInv'
  <2>1. ASSUME NEW b \in AssociationIds, NEW e \in CycleIds
        PROVE  /\ segment'[b][e].baseline = None => segment'[b][e].used = None
               /\ b >= nextAssociation' => segment'[b][e] = NoSegment
    <3>1. b >= nextAssociation' => b >= nextAssociation /\ b # a
      BY <1>2, <1>6, Numbers
    <3> QED BY <1>11, <1>13, <3>1 DEF BooksInv, SegmentsInv
  <2> QED BY <1>10, <1>12, <2>1 DEF BooksInv, SegmentsInv
<1>15. SegmentsGrow
  <2>1. segment[a][c] = NoSegment
    BY <1>6, <1>7, Numbers DEF BooksInv, SegmentsInv
  <2>2. RowGrows(NoSegment, row)
    BY DEF RowGrows, NoSegment
  <2>3. \A b \in AssociationIds, e \in CycleIds : segment[b][e] \in SegmentType
    BY <1>10
  <2> QED BY <1>13, <2>1, <2>2, <2>3, RowStays DEF SegmentsGrow
<1> QED BY <1>2, <1>4, <1>5, <1>14, <1>15 DEF BooksInv, Grows

LEMMA EndBooks ==
  ASSUME BooksInv, NEW a \in AssociationIds, End(a)
  PROVE  BooksInv' /\ Grows /\ CompletesCounted
<1>1. /\ association[a].ended = None /\ association[a].user # None
      /\ association' = [association EXCEPT ![a].ended = now]
      /\ now' = now + 2 /\ UNCHANGED <<nextAssociation, world, rounds, books, job, planned>>
  BY DEF End, Held, Made, TimePasses
<1>2. now' \in Nat /\ now' >= now /\ nextAssociation' \in Nat /\ nextAssociation' >= nextAssociation
  BY <1>1, Numbers
<1>3. association \in [AssociationIds -> PersonType] /\ association[a] \in PersonType
  BY DEF BooksInv, PeopleInv
<1>4. PICK row : row = [association[a] EXCEPT !.ended = now]
  OBVIOUS
<1>5. /\ row \in PersonType /\ row.device = association[a].device
      /\ row.started = association[a].started
  BY <1>3, <1>4, Numbers DEF PersonType
<1>6. association' = [association EXCEPT ![a] = row]
  BY <1>1, <1>3, <1>4
<1>7. association' \in [AssociationIds -> PersonType]
  BY <1>3, <1>5, <1>6
<1>8. \A b \in AssociationIds : association'[b] = IF b = a THEN row ELSE association[b]
  BY <1>3, <1>6
<1>9. a < nextAssociation
  BY <1>1 DEF BooksInv, PeopleInv, NoAssociation
<1>10. PeopleInv'
  BY <1>1, <1>5, <1>7, <1>8, <1>9 DEF BooksInv, PeopleInv
<1>11. PeopleGrow
  BY <1>1, <1>2, <1>5, <1>8 DEF PeopleGrow
<1>12. RoundsInv' /\ RoundsGrow
  BY <1>1, <1>2, RoundsSame DEF BooksInv
<1>13. SegmentsInv' /\ SegmentsGrow
  <2>1. UNCHANGED segment /\ total' = total
    BY <1>1 DEF books, world
  <2> QED BY <1>2, <2>1, SegmentsSame, Numbers DEF BooksInv, SegmentsInv
<1>14. JobsInv' /\ JobsGrow /\ CompletesCounted
  BY <1>1, <1>2, JobsSame, Numbers DEF BooksInv
<1> QED BY <1>10, <1>11, <1>12, <1>13, <1>14 DEF BooksInv, Grows

LEMMA BooksSame ==
  ASSUME BooksInv, UNCHANGED <<people, rounds, segment, job>>, total' \in [Devices -> Nat],
         planned' \subseteq planned, now' \in Nat, now' >= now
  PROVE  BooksInv' /\ Grows /\ CompletesCounted
<1>1. nextAssociation' = nextAssociation
  BY DEF people
<1>2. nextAssociation' \in Nat /\ nextAssociation' >= nextAssociation
  BY <1>1, Numbers
<1>3. PeopleInv' /\ PeopleGrow
  BY PeopleSame DEF BooksInv
<1>4. RoundsInv' /\ RoundsGrow
  BY RoundsSame DEF BooksInv
<1>5. SegmentsInv' /\ SegmentsGrow
  BY <1>2, SegmentsSame, Numbers DEF BooksInv
<1>6. JobsInv' /\ JobsGrow /\ CompletesCounted
  BY <1>2, JobsSame, Numbers DEF BooksInv
<1> QED BY <1>3, <1>4, <1>5, <1>6 DEF BooksInv, Grows

LEMMA WorldBooks ==
  ASSUME BooksInv,
         (\E a \in AssociationIds : Report(a)) \/ (\E d \in Devices : Regress(d)) \/ Pass
  PROVE  BooksInv' /\ Grows /\ CompletesCounted
<1>1. total \in [Devices -> Nat]
  BY DEF BooksInv, SegmentsInv
<1>2. CASE Pass
  <2>1. total' = total /\ now' = now + 2 /\ UNCHANGED <<people, rounds, segment, job>>
        /\ planned' \subseteq planned
    BY <1>2 DEF Pass, TimePasses, world, books
  <2>2. now' \in Nat /\ now' >= now
    BY <2>1, Numbers
  <2> QED BY <1>1, <2>1, <2>2, BooksSame
<1>3. ASSUME NEW d, UNCHANGED <<now, people, rounds, segment, job, planned>>,
             \/ total' = [total EXCEPT ![d] = @ + 1]
             \/ total[d] > 0 /\ total' = [total EXCEPT ![d] = @ - 1]
      PROVE  BooksInv' /\ Grows /\ CompletesCounted
  <2>1. total' \in [Devices -> Nat]
    BY <1>1, <1>3
  <2> QED BY <1>3, <2>1, BooksSame, Numbers
<1>4. ASSUME NEW a \in AssociationIds, Report(a)
      PROVE  BooksInv' /\ Grows /\ CompletesCounted
  BY <1>3, <1>4 DEF Report, books
<1>5. ASSUME NEW d \in Devices, Regress(d)
      PROVE  BooksInv' /\ Grows /\ CompletesCounted
  BY <1>3, <1>5 DEF Regress, books
<1> QED BY <1>2, <1>4, <1>5

\* The round that now belongs to has begun.
LEMMA RoundOfNow ==
  ASSUME NEW n \in Nat
  PROVE  /\ Week * (n \div Week + 1) \in Nat
         /\ Week * (n \div Week + 1) - Week \in Nat
         /\ Week * (n \div Week + 1) - Week <= n /\ n < Week * (n \div Week + 1)
<1>1. Week \in Nat /\ Week > 0
  BY WeekAssumption
<1>2. PICK q \in Int : q = n \div Week
  BY <1>1
<1>3. n % Week \in 0 .. Week - 1
  BY <1>1
<1>4. n = Week * q + (n % Week)
  BY <1>1, <1>2
<1>5. Week * (q + 1) = Week * q + Week
  BY <1>1
<1>6. q >= 0
  BY <1>1, <1>2
<1>7. PICK x \in Int : x = Week * q
  BY <1>1
<1>8. x <= n /\ n < x + Week
  BY <1>1, <1>3, <1>4, <1>7
<1>9. x >= 0
  BY <1>1, <1>6, <1>7
<1> QED BY <1>1, <1>2, <1>5, <1>7, <1>8, <1>9

LEMMA RolloverBooks ==
  ASSUME BooksInv, NEW status \in {"VERIFIED", "NEEDS_REVIEW"}, SyncRollover(status)
  PROVE  BooksInv' /\ Grows /\ CompletesCounted
<1>1. PICK n \in CycleIds : n = nextCycle /\ n \in Nat /\ n >= 1
  BY BoundsTyped DEF SyncRollover, BooksInv, RoundsInv, CycleIds
<1>2. PICK reset \in Nat : /\ reset = Week * (now \div Week + 1)
                           /\ reset - Week \in Nat /\ reset - Week <= now /\ now < reset
  BY RoundOfNow, Numbers
<1>3. cycle \in [CycleIds -> RoundType]
  BY DEF BooksInv, RoundsInv
<1>4. PICK started \in Nat :
        /\ started <= now /\ started = IF Latest = 0 THEN reset - Week
                                       ELSE Later(reset - Week, cycle[Latest].reset)
        /\ \A d \in CycleIds : d < n => cycle[d].reset <= started /\ cycle[d].reset <= reset
  <2>1. CASE Latest = 0
    <3>1. \A d \in CycleIds : ~(d < n)
      BY <1>1, <2>1, BoundsTyped DEF Latest, CycleIds
    <3> QED BY <1>2, <2>1, <3>1
  <2>2. CASE Latest # 0
    <3>1. Latest \in CycleIds /\ Latest > 0 /\ Latest < nextCycle
          /\ \A d \in CycleIds : d < n => d <= Latest
      BY <1>1, <2>2, BoundsTyped DEF Latest, CycleIds
    <3>2. cycle[Latest].reset <= now
      BY <1>1, <1>3, <3>1 DEF SyncRollover
    <3>3. PICK last \in Nat : last = cycle[Latest].reset
      BY <1>3, <3>1 DEF RoundType
    <3>4. ASSUME NEW d \in CycleIds, d < n
          PROVE  cycle[d].reset \in Nat /\ cycle[d].reset <= last
      <4>1. cycle[d].reset <= cycle[Latest].reset
        BY <3>1, <3>4 DEF BooksInv, RoundsInv
      <4>2. cycle[d].reset \in Nat
        BY <1>3 DEF RoundType
      <4> QED BY <3>3, <4>1, <4>2
    <3>5. last <= Later(reset - Week, last) /\ Later(reset - Week, last) \in Nat
          /\ Later(reset - Week, last) <= now /\ last < reset
      BY <1>2, <3>2, <3>3, Numbers DEF Later
    <3>6. PICK started \in Nat : started = Later(reset - Week, last)
      BY <3>5
    <3>7. \A d \in CycleIds : d < n => cycle[d].reset <= started /\ cycle[d].reset <= reset
      BY <1>2, <3>3, <3>4, <3>5, <3>6
    <3> QED BY <2>2, <3>3, <3>5, <3>6, <3>7
  <2> QED BY <2>1, <2>2
<1>5. PICK row : row = [started |-> started, reset |-> reset, created |-> now, status |-> status]
  OBVIOUS
<1>6. row \in RoundType
  BY <1>5, Numbers DEF RoundType
<1>7. cycle' = [c \in CycleIds |->
                  IF c = n THEN row
                  ELSE IF c < n THEN [cycle[c] EXCEPT !.status = "EXPIRED"] ELSE cycle[c]]
  BY <1>1, <1>2, <1>4, <1>5 DEF SyncRollover
<1>8. nextCycle' = n + 1 /\ UNCHANGED <<now, people, segment, job, planned>> /\ total' = total
  BY <1>1 DEF SyncRollover, world, books
<1>9. \A c \in CycleIds : /\ [cycle[c] EXCEPT !.status = "EXPIRED"] \in RoundType
                          /\ cycle[c] \in RoundType
  BY <1>3 DEF RoundType
<1>10. cycle' \in [CycleIds -> RoundType]
  BY <1>6, <1>7, <1>9
<1>11. ASSUME NEW c \in CycleIds, c < n
       PROVE  /\ cycle'[c].started = cycle[c].started /\ cycle'[c].reset = cycle[c].reset
              /\ cycle'[c].created = cycle[c].created
  <2>1. c \in Nat
    BY Numbers
  <2>2. cycle'[c] = [cycle[c] EXCEPT !.status = "EXPIRED"]
    BY <1>1, <1>7, <1>11, <2>1
  <2> QED BY <1>3, <2>2 DEF RoundType
<1>12. /\ cycle'[n].started <= now /\ cycle'[n].created = now
       /\ cycle'[n].started = started /\ cycle'[n].reset = reset
  BY <1>4, <1>5, <1>7
<1>13. \A c \in CycleIds : c < n + 1 <=> c < n \/ c = n
  BY <1>1, Numbers
<1>14. RoundsInv'
  <2>1. nextCycle' \in 1 .. MaxCycles + 1
    <3>1. n + 1 \in 1 .. MaxCycles + 1
      BY <1>1, BoundsTyped DEF CycleIds
    <3> QED BY <1>8, <3>1
  <2>2. ASSUME NEW c \in CycleIds, c < nextCycle'
        PROVE  cycle'[c].started <= cycle'[c].created /\ cycle'[c].created <= now'
    <3>1. CASE c = n
      BY <1>8, <1>12, <3>1, Numbers
    <3>2. CASE c < n
      BY <1>1, <1>8, <1>11, <3>2 DEF BooksInv, RoundsInv
    <3> QED BY <1>8, <1>13, <2>2, <3>1, <3>2
  <2>3. ASSUME NEW c \in CycleIds, NEW d \in CycleIds, c <= d, d < nextCycle'
        PROVE  cycle'[c].reset <= cycle'[d].reset
    <3>1. c \in Nat /\ d \in Nat
      BY Numbers
    <3>2. CASE d < n
      <4>1. c < n
        BY <1>1, <2>3, <3>1, <3>2
      <4>2. cycle[c].reset <= cycle[d].reset
        BY <1>1, <2>3, <3>2 DEF BooksInv, RoundsInv
      <4> QED BY <1>11, <3>2, <4>1, <4>2
    <3>3. CASE d = n /\ c < n
      BY <1>4, <1>11, <1>12, <3>3
    <3>4. CASE d = n /\ c = n
      BY <1>2, <1>12, <3>4
    <3>5. d < n \/ (d = n /\ (c < n \/ c = n))
      BY <1>1, <1>8, <2>3, <3>1
    <3> QED BY <3>2, <3>3, <3>4, <3>5
  <2> QED BY <1>8, <1>10, <2>1, <2>2, <2>3, Numbers DEF RoundsInv
<1>15. RoundsGrow
  <2>1. n + 1 >= n /\ \A c \in CycleIds : c >= n /\ c < n + 1 => c = n
    BY <1>1, Numbers
  <2>2. \A d \in CycleIds : d < n => cycle'[n].started >= cycle[d].reset
    BY <1>3, <1>4, <1>12 DEF RoundType
  <2> QED BY <1>1, <1>8, <1>11, <1>12, <2>1, <2>2, Numbers DEF RoundsGrow
<1>16. nextAssociation' \in Nat /\ nextAssociation' >= nextAssociation /\ now' \in Nat /\ now' >= now
  BY <1>8, Numbers DEF people
<1>17. PeopleInv' /\ PeopleGrow
  BY <1>8, PeopleSame DEF BooksInv
<1>18. SegmentsInv' /\ SegmentsGrow
  BY <1>8, <1>16, SegmentsSame, Numbers DEF BooksInv, SegmentsInv
<1>19. JobsInv' /\ JobsGrow /\ CompletesCounted
  BY <1>8, <1>16, JobsSame, Numbers DEF BooksInv
<1> QED BY <1>14, <1>15, <1>17, <1>18, <1>19 DEF BooksInv, Grows

LEMMA EvidenceBooks ==
  ASSUME BooksInv, NEW status \in {"VERIFIED", "NEEDS_REVIEW"}, SyncCurrent(status)
  PROVE  BooksInv' /\ Grows /\ CompletesCounted
<1>1. PICK n \in CycleIds : n = Latest
  BY BoundsTyped DEF SyncCurrent, BooksInv, RoundsInv, CycleIds, Latest
<1>2. cycle \in [CycleIds -> RoundType] /\ nextCycle \in Nat
  BY BoundsTyped DEF BooksInv, RoundsInv
<1>3. /\ cycle' = [cycle EXCEPT ![n].status = status] /\ total' = total
      /\ UNCHANGED <<now, nextCycle, people, segment, job, planned>>
  BY <1>1 DEF SyncCurrent, world, books
<1>4. [cycle[n] EXCEPT !.status = status] \in RoundType
  BY <1>2 DEF RoundType
<1>5. cycle' \in [CycleIds -> RoundType]
  BY <1>2, <1>3, <1>4
<1>6. \A c \in CycleIds : /\ cycle'[c].started = cycle[c].started
                          /\ cycle'[c].reset = cycle[c].reset
                          /\ cycle'[c].created = cycle[c].created
  BY <1>2, <1>3 DEF RoundType
<1>7. RoundsInv'
  BY <1>3, <1>5, <1>6 DEF BooksInv, RoundsInv
<1>8. RoundsGrow
  <2>1. \A c \in CycleIds : ~(c >= nextCycle /\ c < nextCycle)
    BY <1>2, Numbers
  <2> QED BY <1>2, <1>3, <1>6, <2>1, Numbers DEF RoundsGrow
<1>9. nextAssociation' \in Nat /\ nextAssociation' >= nextAssociation /\ now' \in Nat /\ now' >= now
  BY <1>3, Numbers DEF people
<1>10. PeopleInv' /\ PeopleGrow
  BY <1>3, PeopleSame DEF BooksInv
<1>11. SegmentsInv' /\ SegmentsGrow
  BY <1>3, <1>9, SegmentsSame, Numbers DEF BooksInv, SegmentsInv
<1>12. JobsInv' /\ JobsGrow /\ CompletesCounted
  BY <1>3, <1>9, JobsSame, Numbers DEF BooksInv
<1> QED BY <1>7, <1>8, <1>10, <1>11, <1>12 DEF BooksInv, Grows

-----------------------------------------------------------------------------
(* Jobs.                                                                   *)

LEMMA JobChanges ==
  ASSUME BooksInv, NEW a \in AssociationIds, NEW s \in Sequences, NEW row \in JobType,
         a < nextAssociation, job[a][s].phase # "completed",
         row.sampled # None => row.sampled < now /\ row.total # None,
         job[a][s].sampled # None => /\ row.sampled = job[a][s].sampled
                                     /\ row.total = job[a][s].total,
         row.phase = "completed" => /\ job[a][s].sampled # None /\ Reached(a)
                                    /\ \A c \in Due(a, s) : Counted(a, s, c),
         job' = [job EXCEPT ![a][s] = row],
         UNCHANGED <<now, people, rounds, segment>>, total' = total, planned' \subseteq planned
  PROVE  BooksInv' /\ Grows /\ CompletesCounted
<1>1. job \in [AssociationIds -> [Sequences -> JobType]]
  BY DEF BooksInv, JobsInv
<1>2. job' \in [AssociationIds -> [Sequences -> JobType]]
  BY <1>1
<1>3. \A b \in AssociationIds, t \in Sequences :
        job'[b][t] = IF b = a /\ t = s THEN row ELSE job[b][t]
  BY <1>1
<1>4. nextAssociation' = nextAssociation /\ now' = now
  BY DEF people
<1>5. JobsInv'
  <2>1. ASSUME NEW b \in AssociationIds, NEW t \in Sequences
        PROVE  /\ job'[b][t].phase # "none" \/ job'[b][t].sampled # None \/ <<b, t>> \in planned' =>
                    b < nextAssociation
               /\ job'[b][t].sampled # None => job'[b][t].sampled < now /\ job'[b][t].total # None
               /\ job'[b][t].phase = "completed" => job'[b][t].sampled # None
    <3>1. CASE b = a /\ t = s
      <4>1. job'[b][t] = row
        BY <1>3, <3>1
      <4> QED BY <3>1, <4>1
    <3>2. CASE ~(b = a /\ t = s)
      <4>1. job'[b][t] = job[b][t]
        BY <1>3, <3>2
      <4> QED BY <4>1 DEF BooksInv, JobsInv
    <3> QED BY <3>1, <3>2
  <2> QED BY <1>2, <1>4, <2>1 DEF JobsInv
<1>6. JobsGrow
  BY <1>3 DEF JobsGrow
<1>7. CompletesCounted
  BY <1>3 DEF CompletesCounted
<1>8. total \in [Devices -> Nat]
  BY DEF BooksInv, SegmentsInv
<1>9. SegmentsInv' /\ SegmentsGrow
  BY <1>4, <1>8, SegmentsSame, Numbers DEF BooksInv
<1>10. RoundsInv' /\ RoundsGrow
  BY <1>4, RoundsSame, Numbers DEF BooksInv
<1>11. PeopleInv' /\ PeopleGrow
  BY PeopleSame DEF BooksInv
<1> QED BY <1>5, <1>6, <1>7, <1>9, <1>10, <1>11 DEF BooksInv, Grows

\* A job that did not exist, or waited, gets a phase short of completion.
LEMMA PhaseChanges ==
  ASSUME BooksInv, NEW a \in AssociationIds, NEW s \in Sequences, NEW phase \in Pending,
         a < nextAssociation, job[a][s].phase # "completed",
         job' = [job EXCEPT ![a][s].phase = phase],
         UNCHANGED <<now, people, rounds, segment>>, total' = total, planned' \subseteq planned
  PROVE  BooksInv' /\ Grows /\ CompletesCounted
<1>1. job[a][s] \in JobType /\ job \in [AssociationIds -> [Sequences -> JobType]]
  BY JobTyped DEF BooksInv, JobsInv
<1>2. PICK row : row = [job[a][s] EXCEPT !.phase = phase]
  OBVIOUS
<1>3. /\ row \in JobType /\ row.sampled = job[a][s].sampled /\ row.total = job[a][s].total
      /\ row.phase = phase
  BY <1>1, <1>2 DEF JobType, Phases
<1>4. job' = [job EXCEPT ![a][s] = row]
  BY <1>1, <1>2
<1>5. row.phase # "completed"
  BY <1>3 DEF Pending
<1>6. row.sampled # None => row.sampled < now /\ row.total # None
  BY <1>3 DEF BooksInv, JobsInv
<1> QED BY <1>3, <1>4, <1>5, <1>6, JobChanges

LEMMA Exists ==
  ASSUME BooksInv, NEW a \in AssociationIds, association[a].user # None
  PROVE  a < nextAssociation
BY DEF BooksInv, PeopleInv, NoAssociation

LEMMA JobsStay ==
  ASSUME BooksInv, UNCHANGED <<now, people, rounds, segment, job>>, total' = total,
         planned' \subseteq planned
  PROVE  BooksInv' /\ Grows /\ CompletesCounted
<1>1. total \in [Devices -> Nat]
  BY DEF BooksInv, SegmentsInv
<1> QED BY <1>1, BooksSame, Numbers

LEMMA EnqueueBooks ==
  ASSUME BooksInv, NEW a \in AssociationIds, NEW s \in Sequences, NEW phase \in Pending,
         a < nextAssociation, Enqueue(a, s, phase),
         UNCHANGED <<now, people, rounds, segment>>, total' = total, planned' \subseteq planned
  PROVE  BooksInv' /\ Grows /\ CompletesCounted
<1>1. CASE job[a][s].phase = "none"
  BY <1>1, PhaseChanges DEF Enqueue
<1>2. CASE job[a][s].phase # "none"
  BY <1>2, JobsStay DEF Enqueue
<1> QED BY <1>1, <1>2

LEMMA JobSequences == {Initial, BeforeRevokeJob, AfterRevokeJob} \subseteq Sequences
BY DEF Sequences

LEMMA SchedulingBooks ==
  ASSUME BooksInv, NEW a \in AssociationIds,
         \/ after_authorized(a) \/ before_revoke(a) \/ schedule_after_revoke(a) \/ BecomesDue(a)
         \/ \E s \in Sequences : TickEnqueue(a, s)
  PROVE  BooksInv' /\ Grows /\ CompletesCounted
<1> {"due", "waiting"} \subseteq Pending
  BY DEF Pending
<1>1. CASE after_authorized(a)
  <2>1. a < nextAssociation
    BY <1>1, Exists DEF after_authorized, Made
  <2> QED BY <1>1, <2>1, EnqueueBooks, JobSequences DEF after_authorized, world, books
<1>2. CASE before_revoke(a)
  <2>1. a < nextAssociation
    BY <1>2, Exists DEF before_revoke, Held, Made
  <2> QED BY <1>2, <2>1, EnqueueBooks, JobSequences DEF before_revoke, world, books
<1>3. CASE schedule_after_revoke(a)
  <2>1. a < nextAssociation
    BY <1>3, Exists DEF schedule_after_revoke, Made
  <2> QED BY <1>3, <2>1, EnqueueBooks, JobSequences DEF schedule_after_revoke, world, books
<1>4. CASE BecomesDue(a)
  <2>1. a < nextAssociation
    BY <1>4, JobSequences DEF BecomesDue, BooksInv, JobsInv
  <2> QED BY <1>4, <2>1, PhaseChanges, JobSequences DEF BecomesDue, world, books
<1>5. ASSUME NEW s \in Sequences, TickEnqueue(a, s)
      PROVE  BooksInv' /\ Grows /\ CompletesCounted
  <2>1. a < nextAssociation
    BY <1>5 DEF TickEnqueue, BooksInv, JobsInv
  <2> QED BY <1>5, <2>1, EnqueueBooks DEF TickEnqueue, world, books
<1> QED BY <1>1, <1>2, <1>3, <1>4, <1>5

LEMMA TickReadBooks ==
  ASSUME BooksInv, NEW a \in AssociationIds, TickRead(a)
  PROVE  BooksInv' /\ Grows /\ CompletesCounted
<1>1. UNCHANGED <<now, people, rounds, segment, job>> /\ total' = total
  BY DEF TickRead, world, books
<1>2. total \in [Devices -> Nat]
  BY DEF BooksInv, SegmentsInv
<1>3. nextAssociation' = nextAssociation
  BY <1>1 DEF people
<1>4. a < nextAssociation
  BY Exists DEF TickRead, Held, Made
<1>5. \E s : planned' = planned \cup {<<a, s>>}
  BY DEF TickRead
<1>6. \A b \in AssociationIds, s \in Sequences : <<b, s>> \in planned' =>
        <<b, s>> \in planned \/ b < nextAssociation
  BY <1>4, <1>5
<1>7. JobsInv' /\ JobsGrow /\ CompletesCounted
  <2>1. JobsInv'
    <3>1. ASSUME NEW b \in AssociationIds, NEW s \in Sequences
          PROVE  job[b][s].phase # "none" \/ job[b][s].sampled # None \/ <<b, s>> \in planned' =>
                   b < nextAssociation
      BY <1>6 DEF BooksInv, JobsInv
    <3> QED BY <1>1, <1>3, <3>1 DEF BooksInv, JobsInv
  <2> QED BY <1>1, <2>1 DEF JobsGrow, CompletesCounted
<1>8. SegmentsInv' /\ SegmentsGrow
  BY <1>1, <1>2, <1>3, SegmentsSame, Numbers DEF BooksInv
<1>9. RoundsInv' /\ RoundsGrow
  BY <1>1, RoundsSame, Numbers DEF BooksInv
<1>10. PeopleInv' /\ PeopleGrow
  BY <1>1, PeopleSame DEF BooksInv
<1> QED BY <1>7, <1>8, <1>9, <1>10 DEF BooksInv, Grows

-----------------------------------------------------------------------------
(* Runners.                                                                *)

\* One runner moves: what it has to leave in order is about its new place.
LEMMA MoverKeeps ==
  ASSUME LedgerInv, BooksInv', Grows, CompletesCounted,
         NEW p \in Runners, NEW new \in RunnerType, runner' = [runner EXCEPT ![p] = new],
         NEW a \in AssociationIds, NEW s \in Sequences, a < nextAssociation,
         new.assoc = a, new.seq = s,
         new.step \in {"request", "save"} => new.claimed < now',
         new.step = "save" => new.total # None,
         new.step = "planSample" => job'[a][s].sampled # None,
         new.step \in {"ensureSample", "apply", "finish"} => job[a][s].sampled # None,
         new.ended # None => association[a].ended = new.ended,
         new.step \in {"ensureSample", "apply", "finish"} => Reached(a),
         new.step = "ensureSample" /\ ~new.unresolved => Due(a, s) \subseteq new.plan,
         new.step = "apply" /\ ~new.unresolved =>
           \A c \in Due(a, s) : c \in new.todo \/ Counted(a, s, c)',
         new.step = "finish" => \A c \in Due(a, s) : Counted(a, s, c)'
  PROVE  LedgerInv' /\ Grows
<1>1. runner \in [Runners -> RunnerType] /\ BooksInv
  BY DEF LedgerInv, RunnersInv
<1>2. runner' \in [Runners -> RunnerType] /\ runner'[p] = new
  BY <1>1
<1>3. \A q \in Runners : q # p => runner'[q] = runner[q]
  BY <1>1
<1>4. \A q \in Runners : q # p => RunnerGoesOn(q)
  BY <1>3 DEF RunnerGoesOn
<1>5. job[a][s].sampled # None =>
        /\ job'[a][s].sampled # None
        /\ Reached(a) => Due(a, s)' \subseteq Due(a, s) /\ Reached(a)'
  BY <1>1, DueStays DEF Grows, JobsGrow
<1>6. association[a].ended # None => association'[a].ended = association[a].ended
  BY DEF Grows, PeopleGrow
<1>7. nextAssociation \in Nat /\ nextAssociation' \in Nat
  BY <1>1 DEF BooksInv, PeopleInv
<1>8. a < nextAssociation'
  <2>1. a \in Nat
    BY <1>1, Numbers
  <2> QED BY <1>7, <2>1 DEF Grows, PeopleGrow
<1>9. Placed(p)'
  BY <1>2, <1>5, <1>6, <1>8 DEF Placed
<1>10. LeavesOutNothing(p)'
  <2>1. SUFFICES /\ new.step \in {"ensureSample", "apply", "finish"} => Reached(a)'
                 /\ new.step = "ensureSample" /\ ~new.unresolved => Due(a, s)' \subseteq new.plan
                 /\ new.step = "apply" /\ ~new.unresolved =>
                      \A c \in Due(a, s)' : c \in new.todo \/ Counted(a, s, c)'
                 /\ new.step = "finish" => \A c \in Due(a, s)' : Counted(a, s, c)'
    BY <1>2 DEF LeavesOutNothing, Due, Belongs, Counted, Overlaps, Reached
  <2> QED BY <1>5
<1> QED BY <1>2, <1>4, <1>9, <1>10, StepKeeps

\* A runner that leaves its job.
LEMMA LeaverKeeps ==
  ASSUME LedgerInv, BooksInv', Grows, CompletesCounted, NEW p \in Runners,
         runner' = [runner EXCEPT ![p] = Idle]
  PROVE  LedgerInv' /\ Grows
<1>1. runner \in [Runners -> RunnerType]
  BY DEF LedgerInv, RunnersInv
<1>2. Idle \in RunnerType
  BY DEF Idle, RunnerType, RunnerSteps
<1>3. runner' \in [Runners -> RunnerType] /\ runner'[p] = Idle
  BY <1>1, <1>2
<1>4. \A q \in Runners : q # p => runner'[q] = runner[q]
  BY <1>1
<1>5. \A q \in Runners : q # p => RunnerGoesOn(q)
  BY <1>4 DEF RunnerGoesOn
<1>6. Idle.step = "idle"
  BY DEF Idle
<1>7. Placed(p)' /\ LeavesOutNothing(p)'
  BY <1>3, <1>6, RunnerGivesUp
<1> QED BY <1>3, <1>5, <1>7, StepKeeps

LEMMA Place ==
  ASSUME LedgerInv, NEW p \in Runners, runner[p].step # "idle"
  PROVE  /\ runner[p] \in RunnerType /\ runner[p].assoc \in AssociationIds
         /\ runner[p].assoc < nextAssociation /\ runner[p].seq \in Sequences
BY DEF LedgerInv, RunnersInv, Placed

LEMMA SettleKeeps ==
  ASSUME LedgerInv, BooksInv', Grows, CompletesCounted, NEW p \in Runners,
         runner[p].step # "idle", NEW step \in {"retry", "finish"}, Settle(p, step),
         step = "finish" =>
           /\ job[runner[p].assoc][runner[p].seq].sampled # None /\ Reached(runner[p].assoc)
           /\ \A c \in Due(runner[p].assoc, runner[p].seq) :
                \A a, s : a = runner[p].assoc /\ s = runner[p].seq => Counted(a, s, c)'
  PROVE  LedgerInv' /\ Grows
<1>1. PICK a \in AssociationIds, s \in Sequences :
        a = runner[p].assoc /\ s = runner[p].seq /\ a < nextAssociation
  BY Place
<1>2. PICK new : new = [Idle EXCEPT !.assoc = runner[p].assoc, !.seq = runner[p].seq,
                                    !.latest = runner[p].latest, !.step = step]
  OBVIOUS
<1>3. runner[p].latest \in BOOLEAN
  BY Place DEF RunnerType
<1>4. /\ new \in RunnerType /\ new.assoc = a /\ new.seq = s /\ new.step = step
      /\ new.ended = None
  BY <1>1, <1>2, <1>3 DEF Idle, RunnerType, RunnerSteps
<1>5. runner' = [runner EXCEPT ![p] = new]
  BY <1>2 DEF Settle
<1> QED BY <1>1, <1>4, <1>5, MoverKeeps

\* What a runner plans from its sample is all that is due.
LEMMA PlanCovers ==
  ASSUME BooksInv, NEW a \in AssociationIds, NEW s \in Sequences, job[a][s].sampled # None,
         NEW ended, ended \in {None, association[a].ended}
  PROVE  Due(a, s) \subseteq Planned(a, ended, job[a][s].sampled)
<1> SUFFICES ASSUME NEW c \in Due(a, s) PROVE c \in Planned(a, ended, job[a][s].sampled)
  OBVIOUS
<1>1. c \in CycleIds /\ c < nextCycle /\ Overlaps(a, c) /\ Belongs(a, s, c)
  BY DEF Due
<1>2. nextCycle \in Nat /\ c \in Nat
  BY <1>1, Numbers, BoundsTyped DEF BooksInv, RoundsInv
<1>3. c \in 1 .. Latest
  BY <1>1, <1>2 DEF Latest, CycleIds
<1>4. cycle[c] \in RoundType /\ job[a][s].sampled \in Nat
  BY <1>1, JobTyped DEF BooksInv, RoundsInv
<1>5. cycle[c].started \in Nat /\ cycle[c].created \in Nat /\ cycle[c].reset \in Nat
  BY <1>4 DEF RoundType
<1>6. cycle[c].started <= job[a][s].sampled
  BY <1>1, <1>4, <1>5 DEF BooksInv, RoundsInv, Belongs
<1>7. association[a] \in PersonType /\ a < nextAssociation
  BY DEF BooksInv, PeopleInv, JobsInv
<1>8. association[a].started \in Nat /\ association[a].ended \in Nat \cup {None}
  BY <1>7 DEF BooksInv, PeopleInv, PersonType
<1> QED BY <1>1, <1>3, <1>5, <1>6, <1>8 DEF Planned, Overlaps

LEMMA PlannedStored ==
  ASSUME BooksInv, NEW a, NEW ended, NEW cutoff
  PROVE  Planned(a, ended, cutoff) \subseteq CycleIds
<1>1. nextCycle \in 1 .. MaxCycles + 1
  BY DEF BooksInv, RoundsInv
<1>2. 1 .. Latest \subseteq CycleIds
  BY <1>1, BoundsTyped DEF Latest, CycleIds
<1> QED BY <1>2 DEF Planned

\* A plan that is not empty has a round that reaches the association.
LEMMA PlanReaches ==
  ASSUME BooksInv, NEW a, NEW ended, NEW cutoff, Planned(a, ended, cutoff) # {}
  PROVE  Reached(a)
<1>1. PICK c \in Planned(a, ended, cutoff) : c \in CycleIds
  BY PlannedStored
<1>2. c \in 1 .. Latest /\ cycle[c].reset > association[a].started
  BY DEF Planned
<1>3. nextCycle \in Nat /\ c \in Nat
  BY <1>1, BoundsTyped DEF BooksInv, RoundsInv, CycleIds
<1>4. c < nextCycle
  BY <1>2, <1>3 DEF Latest
<1> QED BY <1>1, <1>2, <1>4 DEF Reached

LEMMA PlanAsKeeps ==
  ASSUME LedgerInv, NEW p \in Runners, runner[p].step # "idle",
         NEW a \in AssociationIds, NEW s \in Sequences, a = runner[p].assoc, s = runner[p].seq,
         NEW ended \in {None, association[a].ended}, NEW cutoff,
         NEW next \in {"ensure", "ensureSample"},
         next = "ensureSample" => job[a][s].sampled # None /\ cutoff = job[a][s].sampled,
         PlanAs(p, ended, cutoff, next),
         UNCHANGED <<now, people, rounds, segment, job>>, total' = total, planned' \subseteq planned
  PROVE  LedgerInv' /\ Grows
<1>1. BooksInv /\ BooksInv' /\ Grows /\ CompletesCounted
  BY JobsStay DEF LedgerInv
<1>2. PICK overlapping : overlapping = Planned(a, ended, cutoff)
  OBVIOUS
<1>3. PICK usable : usable = {c \in overlapping : cycle[c].status \in Usable}
  OBVIOUS
<1>4. usable \in SUBSET CycleIds
  BY <1>1, <1>2, <1>3, PlannedStored
<1>5. CASE usable = {}
  BY <1>1, <1>2, <1>3, <1>5, SettleKeeps DEF PlanAs
<1>6. CASE usable # {}
  <2>1. PICK new : new = [runner[p] EXCEPT !.plan = usable, !.todo = usable, !.step = next,
                            !.unresolved = (usable # overlapping), !.claimed = 0,
                            !.ended = IF next = "ensure" THEN ended ELSE None]
    OBVIOUS
  <2>2. runner[p] \in RunnerType /\ a < nextAssociation
    BY Place
  <2>3. ended \in Nat \cup {None}
    BY <1>1, <2>2 DEF BooksInv, PeopleInv, PersonType
  <2>4. /\ new \in RunnerType /\ new.assoc = a /\ new.seq = s /\ new.step = next
        /\ new.plan = usable /\ new.unresolved = (usable # overlapping)
        /\ new.ended = IF next = "ensure" THEN ended ELSE None
    BY <1>4, <2>1, <2>2, <2>3 DEF RunnerType, RunnerSteps
  <2>5. runner' = [runner EXCEPT ![p] = new]
    <3>1. runner' = [runner EXCEPT ![p].plan = usable, ![p].todo = usable, ![p].step = next,
                       ![p].unresolved = (usable # overlapping), ![p].claimed = 0,
                       ![p].ended = IF next = "ensure" THEN ended ELSE None]
      BY <1>2, <1>3, <1>6 DEF PlanAs
    <3> QED BY <2>1, <3>1, Place DEF LedgerInv, RunnersInv, RunnerType
  <2>6. new.step = "ensureSample" /\ ~new.unresolved => Due(a, s) \subseteq new.plan
    BY <1>1, <1>2, <2>4, PlanCovers
  <2>7. Reached(a)
    BY <1>1, <1>2, <1>3, <1>6, PlanReaches
  <2> QED BY <1>1, <2>2, <2>4, <2>5, <2>6, <2>7, MoverKeeps
<1> QED BY <1>5, <1>6

LEMMA PlanKeeps ==
  ASSUME LedgerInv, NEW p \in Runners, Plan(p) \/ PlanSample(p)
  PROVE  LedgerInv' /\ Grows
<1>1. runner[p].step # "idle"
  BY DEF Plan, PlanSample
<1>2. PICK a \in AssociationIds, s \in Sequences : a = runner[p].assoc /\ s = runner[p].seq
  BY <1>1, Place
<1>3. UNCHANGED <<now, people, rounds, segment, job>> /\ total' = total /\ planned' \subseteq planned
  BY DEF Plan, PlanSample, books, world
<1>4. CASE Plan(p) /\ job[a][s].sampled = None
  <2>1. PlanAs(p, association[a].ended, runner[p].claimed, "ensure")
    BY <1>2, <1>4 DEF Plan
  <2> QED BY <1>1, <1>2, <1>3, <2>1, PlanAsKeeps
<1>5. CASE Plan(p) /\ job[a][s].sampled # None
  <2>1. PlanAs(p, association[a].ended, job[a][s].sampled, "ensureSample")
    BY <1>2, <1>5 DEF Plan
  <2> QED BY <1>1, <1>2, <1>3, <1>5, <2>1, PlanAsKeeps
<1>6. CASE PlanSample(p)
  <2>1. PlanAs(p, runner[p].ended, job[a][s].sampled, "ensureSample")
    BY <1>2, <1>6 DEF PlanSample
  <2>2. runner[p].ended \in {None, association[a].ended} /\ job[a][s].sampled # None
    BY <1>2, <1>6 DEF PlanSample, LedgerInv, RunnersInv, Placed
  <2> QED BY <1>1, <1>2, <1>3, <2>1, <2>2, PlanAsKeeps
<1> QED BY <1>4, <1>5, <1>6

LEMMA CollectKeeps ==
  ASSUME LedgerInv, NEW p \in Runners, Collect(p)
  PROVE  LedgerInv' /\ Grows
<1>1. PICK a \in AssociationIds, s \in Sequences :
        a = runner[p].assoc /\ s = runner[p].seq /\ a < nextAssociation
  BY Place DEF Collect
<1>2. UNCHANGED <<people, rounds, segment, job>> /\ total' = total /\ planned' \subseteq planned
  BY DEF Collect, books, world
<1>3. BooksInv /\ runner[p] \in RunnerType /\ runner \in [Runners -> RunnerType] /\ Placed(p)
  BY DEF LedgerInv, RunnersInv
<1>4. total \in [Devices -> Nat]
  BY <1>3 DEF BooksInv, SegmentsInv
<1>5. CASE job[a][s].sampled = None
  <2>1. now' = now + 2 /\ runner' = [runner EXCEPT ![p].step = "request", ![p].claimed = now]
    BY <1>1, <1>5 DEF Collect, TimePasses
  <2>2. now \in Nat /\ now' \in Nat /\ now' >= now /\ now < now'
    BY <1>3, <2>1, Numbers
  <2>3. BooksInv' /\ Grows /\ CompletesCounted
    BY <1>2, <1>3, <1>4, <2>2, BooksSame
  <2>4. PICK new : new = [runner[p] EXCEPT !.step = "request", !.claimed = now]
    OBVIOUS
  <2>5. /\ new \in RunnerType /\ new.assoc = a /\ new.seq = s /\ new.step = "request"
        /\ new.claimed = now /\ new.ended = runner[p].ended
    BY <1>1, <1>3, <2>2, <2>4 DEF RunnerType, RunnerSteps
  <2>6. runner' = [runner EXCEPT ![p] = new]
    BY <1>3, <2>1, <2>4 DEF RunnerType
  <2>7. runner[p].ended # None => association[a].ended = runner[p].ended
    BY <1>1, <1>3 DEF Collect, Placed
  <2> QED BY <1>1, <2>2, <2>3, <2>5, <2>6, <2>7, MoverKeeps
<1>6. CASE job[a][s].sampled # None
  <2>1. now' = now /\ runner' = [runner EXCEPT ![p].step = "planSample"]
    BY <1>1, <1>6 DEF Collect, Goto
  <2>2. BooksInv' /\ Grows /\ CompletesCounted
    BY <1>2, <1>3, <2>1, JobsStay
  <2>3. PICK new : new = [runner[p] EXCEPT !.step = "planSample"]
    OBVIOUS
  <2>4. /\ new \in RunnerType /\ new.assoc = a /\ new.seq = s /\ new.step = "planSample"
        /\ new.ended = runner[p].ended
    BY <1>1, <1>3, <2>3 DEF RunnerType, RunnerSteps
  <2>5. runner' = [runner EXCEPT ![p] = new]
    BY <1>3, <2>1, <2>3 DEF RunnerType
  <2>6. runner[p].ended # None => association[a].ended = runner[p].ended
    BY <1>1, <1>3 DEF Collect, Placed
  <2>7. job'[a][s].sampled # None
    BY <1>2, <1>6
  <2> QED BY <1>1, <2>2, <2>4, <2>5, <2>6, <2>7, MoverKeeps
<1> QED BY <1>5, <1>6

LEMMA AnswerKeeps ==
  ASSUME LedgerInv, NEW p \in Runners, Answer(p)
  PROVE  LedgerInv' /\ Grows
<1>1. PICK a \in AssociationIds, s \in Sequences :
        a = runner[p].assoc /\ s = runner[p].seq /\ a < nextAssociation
  BY Place DEF Answer
<1>2. UNCHANGED <<now, people, rounds, segment, job>> /\ total' = total /\ planned' \subseteq planned
  BY DEF Answer, books, world
<1>3. BooksInv /\ runner[p] \in RunnerType /\ runner \in [Runners -> RunnerType] /\ Placed(p)
  BY DEF LedgerInv, RunnersInv
<1>4. BooksInv' /\ Grows /\ CompletesCounted
  BY <1>2, <1>3, JobsStay
<1>5. PICK amount \in Nat : amount = total[association[runner[p].assoc].device]
  BY <1>1, <1>3 DEF BooksInv, PeopleInv, SegmentsInv
<1>6. PICK new : new = [runner[p] EXCEPT !.step = "save", !.total = amount]
  OBVIOUS
<1>7. /\ new \in RunnerType /\ new.assoc = a /\ new.seq = s /\ new.step = "save"
      /\ new.claimed = runner[p].claimed /\ new.total = amount /\ new.ended = runner[p].ended
  BY <1>1, <1>3, <1>6 DEF RunnerType, RunnerSteps
<1>8. runner' = [runner EXCEPT ![p] = new]
  <2>1. runner' = [runner EXCEPT ![p].step = "save", ![p].total = amount]
    BY <1>5 DEF Answer
  <2> QED BY <1>3, <1>6, <2>1 DEF RunnerType
<1>9. /\ runner[p].ended # None => association[a].ended = runner[p].ended
      /\ new.claimed < now' /\ new.total # None
  BY <1>1, <1>2, <1>3, <1>7, NoneAssumption DEF Answer, Placed
<1> QED BY <1>1, <1>4, <1>7, <1>8, <1>9, MoverKeeps

LEMMA SaveKeeps ==
  ASSUME LedgerInv, NEW p \in Runners, Save(p)
  PROVE  LedgerInv' /\ Grows
<1>1. PICK a \in AssociationIds, s \in Sequences :
        a = runner[p].assoc /\ s = runner[p].seq /\ a < nextAssociation
  BY Place DEF Save
<1>2. /\ UNCHANGED <<now, people, rounds, segment>> /\ total' = total /\ planned' \subseteq planned
      /\ runner' = [runner EXCEPT ![p].step = "planSample", ![p].claimed = 0,
                                     ![p].total = None]
  BY DEF Save, books, world
<1>3. BooksInv /\ runner[p] \in RunnerType /\ runner \in [Runners -> RunnerType] /\ Placed(p)
  BY DEF LedgerInv, RunnersInv
<1>4. BooksInv' /\ Grows /\ CompletesCounted /\ job'[a][s].sampled # None
  <2>1. CASE job[a][s].sampled # None
    <3>1. job' = job
      BY <1>1, <2>1 DEF Save
    <3> QED BY <1>2, <1>3, <2>1, <3>1, JobsStay
  <2>2. CASE job[a][s].sampled = None
    <3>1. PICK amount \in Nat : amount = runner[p].total
      BY <1>3 DEF RunnerType, Placed, Save
    <3>2. job[a][s] \in JobType /\ job \in [AssociationIds -> [Sequences -> JobType]]
      BY <1>3, JobTyped DEF BooksInv, JobsInv
    <3>3. PICK row : row = [job[a][s] EXCEPT !.sampled = runner[p].claimed, !.total = amount]
      OBVIOUS
    <3>4. /\ runner[p].claimed \in Nat /\ runner[p].claimed < now /\ amount \in Nat
      BY <1>3, <3>1 DEF RunnerType, Placed, Save
    <3>5. /\ row \in JobType /\ row.sampled = runner[p].claimed /\ row.total = amount
          /\ row.phase = job[a][s].phase
      BY <3>2, <3>3, <3>4 DEF JobType
    <3>6. row.sampled # None /\ row.total # None
      BY <3>4, <3>5, NoneAssumption
    <3>7. job' = [job EXCEPT ![a][s] = row]
      <4>1. job' = [job EXCEPT ![a][s].sampled = runner[p].claimed, ![a][s].total = amount]
        BY <1>1, <2>2, <3>1 DEF Save
      <4> QED BY <3>2, <3>3, <4>1 DEF JobType
    <3>8. job[a][s].phase # "completed"
      BY <1>3, <2>2 DEF BooksInv, JobsInv
    <3>9. BooksInv' /\ Grows /\ CompletesCounted
      BY <1>1, <1>2, <1>3, <2>2, <3>4, <3>5, <3>6, <3>7, <3>8, JobChanges
    <3>10. job'[a][s] = row
      BY <3>2, <3>7
    <3> QED BY <3>6, <3>9, <3>10
  <2> QED BY <2>1, <2>2
<1>5. PICK new : new = [runner[p] EXCEPT !.step = "planSample", !.claimed = 0, !.total = None]
  OBVIOUS
<1>6. /\ new \in RunnerType /\ new.assoc = a /\ new.seq = s /\ new.step = "planSample"
      /\ new.ended = runner[p].ended
  BY <1>1, <1>3, <1>5 DEF RunnerType, RunnerSteps
<1>7. runner' = [runner EXCEPT ![p] = new]
  BY <1>2, <1>3, <1>5 DEF RunnerType
<1>8. runner[p].ended # None => association[a].ended = runner[p].ended
  BY <1>1, <1>3 DEF Save, Placed
<1> QED BY <1>1, <1>4, <1>6, <1>7, <1>8, MoverKeeps

LEMMA CompletionKeeps ==
  ASSUME LedgerInv, NEW p \in Runners, Finish(p) \/ Retry(p)
  PROVE  LedgerInv' /\ Grows
<1>1. PICK a \in AssociationIds, s \in Sequences :
        a = runner[p].assoc /\ s = runner[p].seq /\ a < nextAssociation
  BY Place DEF Finish, Retry
<1>2. /\ UNCHANGED <<now, people, rounds, segment>> /\ total' = total /\ planned' \subseteq planned
      /\ runner' = [runner EXCEPT ![p] = Idle]
  BY DEF Finish, Retry, books, world
<1>3. BooksInv /\ Placed(p) /\ LeavesOutNothing(p)
  BY DEF LedgerInv, RunnersInv
<1>4. CASE job' = job
  BY <1>2, <1>3, <1>4, JobsStay, LeaverKeeps
<1>5. CASE Finish(p) /\ job[a][s].phase \in Pending
              /\ job' = [job EXCEPT ![a][s].phase = "completed"]
  <2>1. job[a][s] \in JobType /\ job \in [AssociationIds -> [Sequences -> JobType]]
    BY <1>3, JobTyped DEF BooksInv, JobsInv
  <2>2. PICK row : row = [job[a][s] EXCEPT !.phase = "completed"]
    OBVIOUS
  <2>3. /\ row \in JobType /\ row.sampled = job[a][s].sampled /\ row.total = job[a][s].total
    BY <2>1, <2>2 DEF JobType, Phases
  <2>4. job' = [job EXCEPT ![a][s] = row]
    BY <1>5, <2>1, <2>2
  <2>5. job[a][s].phase # "completed"
    BY <1>5 DEF Pending
  <2>6. job[a][s].sampled # None /\ Reached(a) /\ \A c \in Due(a, s) : Counted(a, s, c)
    BY <1>1, <1>3, <1>5 DEF Finish, Placed, LeavesOutNothing
  <2>7. row.sampled # None => row.sampled < now /\ row.total # None
    BY <1>3, <2>3 DEF BooksInv, JobsInv
  <2>8. BooksInv' /\ Grows /\ CompletesCounted
    BY <1>1, <1>2, <1>3, <2>3, <2>4, <2>5, <2>6, <2>7, JobChanges
  <2> QED BY <1>2, <2>8, LeaverKeeps
<1>6. CASE job[a][s].phase \in Pending /\ job' = [job EXCEPT ![a][s].phase = "due"]
  <2>1. job[a][s].phase # "completed" /\ "due" \in Pending
    BY <1>6 DEF Pending
  <2>2. BooksInv' /\ Grows /\ CompletesCounted
    BY <1>1, <1>2, <1>3, <1>6, <2>1, PhaseChanges
  <2> QED BY <1>2, <2>2, LeaverKeeps
<1> QED BY <1>1, <1>4, <1>5, <1>6 DEF Finish, Retry

LEMMA FaultKeeps ==
  ASSUME LedgerInv, (\E p \in Runners : Fails(p) \/ Cancel(p)) \/ Restart
  PROVE  LedgerInv' /\ Grows
<1>1. /\ UNCHANGED <<now, people, rounds, segment, job>> /\ total' = total
      /\ planned' \subseteq planned
  BY DEF Fails, Cancel, Restart, books, world
<1>2. BooksInv' /\ Grows /\ CompletesCounted
  BY <1>1, JobsStay DEF LedgerInv
<1>3. ASSUME NEW p \in Runners, Fails(p)
      PROVE  LedgerInv' /\ Grows
  BY <1>2, <1>3, SettleKeeps DEF Fails
<1>4. ASSUME NEW p \in Runners, Cancel(p)
      PROVE  LedgerInv' /\ Grows
  BY <1>2, <1>4, LeaverKeeps DEF Cancel
<1>5. CASE Restart
  <2>1. runner' = [p \in Runners |-> Idle]
    BY <1>5 DEF Restart
  <2>2. Idle \in RunnerType /\ Idle.step = "idle"
    BY DEF Idle, RunnerType, RunnerSteps
  <2>3. runner' \in [Runners -> RunnerType] /\ \A p \in Runners : runner'[p].step = "idle"
    BY <2>1, <2>2
  <2>4. \A p \in Runners : Placed(p)' /\ LeavesOutNothing(p)'
    BY <2>3, RunnerGivesUp
  <2> QED BY <1>2, <2>3, <2>4, StepKeeps
<1> QED BY <1>3, <1>4, <1>5

LEMMA ClaimKeeps ==
  ASSUME LedgerInv, NEW p \in Runners, NEW a \in AssociationIds, NEW s \in Sequences,
         Claim(p, a, s)
  PROVE  LedgerInv' /\ Grows
<1>1. /\ UNCHANGED <<now, people, rounds, segment>> /\ total' = total /\ planned' \subseteq planned
      /\ job[a][s].phase \in {"due", "leased"} /\ job' = [job EXCEPT ![a][s].phase = "leased"]
  BY DEF Claim, books, world
<1>2. BooksInv /\ runner \in [Runners -> RunnerType]
  BY DEF LedgerInv, RunnersInv
<1>3. a < nextAssociation /\ job[a][s].phase # "completed" /\ "leased" \in Pending
  BY <1>1, <1>2 DEF BooksInv, JobsInv, Pending
<1>4. BooksInv' /\ Grows /\ CompletesCounted
  BY <1>1, <1>2, <1>3, PhaseChanges
<1>5. PICK new : new = [Idle EXCEPT !.assoc = a, !.seq = s, !.step = "plan",
                                    !.latest = TRUE, !.claimed = now]
  OBVIOUS
<1>6. /\ new \in RunnerType /\ new.assoc = a /\ new.seq = s /\ new.step = "plan"
      /\ new.ended = None
  BY <1>2, <1>5, Numbers DEF Idle, RunnerType, RunnerSteps
<1>7. runner' = [q \in Runners |->
                   IF q = p THEN new
                   ELSE IF runner[q].assoc = a /\ runner[q].seq = s
                   THEN [runner[q] EXCEPT !.latest = FALSE]
                   ELSE runner[q]]
  BY <1>5 DEF Claim
<1>8. ASSUME NEW q \in Runners, q # p
      PROVE  runner'[q] \in RunnerType /\ RunnerGoesOn(q)
  <2>1. runner[q] \in RunnerType
    BY <1>2
  <2>2. runner'[q] \in {runner[q], [runner[q] EXCEPT !.latest = FALSE]}
    BY <1>7, <1>8
  <2>3. PICK row : row = runner'[q]
    OBVIOUS
  <2>4. /\ row \in RunnerType
        /\ row.assoc = runner[q].assoc /\ row.seq = runner[q].seq /\ row.step = runner[q].step
        /\ row.claimed = runner[q].claimed /\ row.total = runner[q].total
        /\ row.ended = runner[q].ended
        /\ row.plan = runner[q].plan /\ row.todo = runner[q].todo
        /\ row.unresolved = runner[q].unresolved
    BY <2>1, <2>2, <2>3 DEF RunnerType
  <2> QED BY <2>3, <2>4 DEF RunnerGoesOn
<1>9. runner'[p] = new
  BY <1>7
<1>10. runner' \in [Runners -> RunnerType]
  BY <1>6, <1>7, <1>8, <1>9
<1>11. Placed(p)' /\ LeavesOutNothing(p)'
  <2>1. a < nextAssociation'
    BY <1>1, <1>3 DEF people
  <2> QED BY <1>6, <1>9, <2>1, RunnerGivesUp
<1> QED BY <1>4, <1>8, <1>10, <1>11, StepKeeps

-----------------------------------------------------------------------------
(* Segments.                                                               *)

LEMMA RowGrowsTwice ==
  ASSUME NEW x \in SegmentType, NEW y \in SegmentType, NEW z \in SegmentType,
         RowGrows(x, y), RowGrows(y, z)
  PROVE  RowGrows(x, z)
<1>1. \A row \in SegmentType : row.used \in Nat \cup {None} /\ row.at \in Nat \cup {None}
  BY DEF SegmentType
<1> QED BY <1>1 DEF RowGrows

\* A segment is opened without taking anything back.
LEMMA OpensSegment ==
  ASSUME BooksInv, NEW a \in AssociationIds, NEW c \in CycleIds
  PROVE  /\ SegmentOf(a, c) \in SegmentType
         /\ SegmentOf(a, c).baseline = None => SegmentOf(a, c).used = None
         /\ RowGrows(segment[a][c], SegmentOf(a, c))
<1>1. segment[a][c] \in SegmentType
  BY DEF BooksInv, SegmentsInv
<1>2. CASE segment[a][c] # NoSegment
  BY <1>1, <1>2, RowStays DEF SegmentOf, BooksInv, SegmentsInv
<1>3. CASE segment[a][c] = NoSegment
  <2>1. PICK baseline : baseline = IF ZeroOrigin(a, c) THEN 0 ELSE None
    OBVIOUS
  <2>2. baseline \in Nat \cup {None}
    BY <2>1
  <2>3. SegmentOf(a, c) = [baseline |-> baseline, at |-> None, used |-> None, imported |-> None,
                           quality |-> "UNKNOWN"]
    BY <1>3, <2>1 DEF SegmentOf, NoSegment
  <2> QED BY <1>3, <2>2, <2>3 DEF SegmentType, Qualities, RowGrows, NoSegment
<1> QED BY <1>2, <1>3

\* A sample is accounted for in the row it is applied to, and takes nothing back.
LEMMA AppliedGrows ==
  ASSUME NEW row \in SegmentType, row.baseline = None => row.used = None,
         NEW at \in Nat, NEW amount \in Nat, NEW zero
  PROVE  LET new == applied(row, at, amount, zero) IN
         /\ new \in SegmentType /\ RowGrows(row, new)
         /\ new.baseline = None => new.used = None
         /\ new.at # None /\ new.at >= at
<1>1. /\ row.baseline \in Nat \cup {None} /\ row.at \in Nat \cup {None}
      /\ row.used \in Nat \cup {None} /\ row.imported \in Nat \cup {None}
      /\ row.quality \in Qualities \cup {"NONE"}
  BY DEF SegmentType
<1>2. PICK new : new = applied(row, at, amount, zero)
  OBVIOUS
<1>3. CASE row.at # None /\ at <= row.at
  <2>1. ~(row.baseline = None /\ (row.at = None \/ at > row.at))
    BY <1>1, <1>3
  <2>2. new = row
    BY <1>2, <1>3, <2>1 DEF applied
  <2> QED BY <1>1, <1>2, <1>3, <2>2, RowStays
<1>4. CASE ~(row.at # None /\ at <= row.at) /\ row.baseline = None
  <2>1. row.at = None \/ at > row.at
    BY <1>1, <1>4
  <2>2. new = [row EXCEPT !.baseline = amount, !.at = at, !.used = 0, !.quality = "NEEDS_REVIEW"]
    BY <1>2, <1>4, <2>1 DEF applied
  <2>3. /\ new \in SegmentType /\ new.at = at /\ new.baseline = amount
        /\ new.quality = "NEEDS_REVIEW"
    BY <2>2 DEF SegmentType, Qualities
  <2>4. RowGrows(row, new)
    BY <1>1, <1>4, <2>1, <2>3, NoneAssumption DEF RowGrows
  <2> QED BY <1>2, <2>3, <2>4, NoneAssumption
<1>5. CASE ~(row.at # None /\ at <= row.at) /\ row.baseline # None
  <2>1. PICK candidate \in Int :
          candidate = (IF row.imported = None THEN 0 ELSE row.imported) + amount - row.baseline
    BY <1>1, <1>5
  <2>2. PICK origin : origin = (row.imported # None \/ (row.baseline = 0 /\ zero))
    OBVIOUS
  <2>3. new = IF candidate < 0 \/ (row.used # None /\ candidate < row.used)
              THEN [row EXCEPT !.at = at, !.quality = "NEEDS_REVIEW"]
              ELSE [row EXCEPT !.at = at, !.used = candidate,
                               !.quality = IF @ # "NEEDS_REVIEW" /\ origin THEN "VERIFIED"
                                           ELSE "NEEDS_REVIEW"]
    BY <1>2, <1>5, <2>1, <2>2 DEF applied
  <2>4. CASE candidate < 0 \/ (row.used # None /\ candidate < row.used)
    <3>1. new = [row EXCEPT !.at = at, !.quality = "NEEDS_REVIEW"]
      BY <2>3, <2>4
    <3>2. /\ new \in SegmentType /\ new.at = at /\ new.baseline = row.baseline
          /\ new.used = row.used /\ new.quality = "NEEDS_REVIEW"
      BY <3>1 DEF SegmentType, Qualities
    <3>3. RowGrows(row, new)
      BY <1>1, <1>5, <3>2, NoneAssumption DEF RowGrows
    <3> QED BY <1>2, <1>5, <3>2, <3>3, NoneAssumption
  <2>5. CASE ~(candidate < 0 \/ (row.used # None /\ candidate < row.used))
    <3>1. PICK quality : quality = IF row.quality # "NEEDS_REVIEW" /\ origin THEN "VERIFIED"
                                   ELSE "NEEDS_REVIEW"
      OBVIOUS
    <3>2. new = [row EXCEPT !.at = at, !.used = candidate, !.quality = quality]
      BY <2>3, <2>5, <3>1
    <3>3. candidate \in Nat /\ quality \in Qualities
      BY <2>5, <3>1 DEF Qualities
    <3>4. /\ new \in SegmentType /\ new.at = at /\ new.baseline = row.baseline
          /\ new.used = candidate /\ new.quality = quality
      BY <3>2, <3>3 DEF SegmentType
    <3>5. RowGrows(row, new)
      BY <1>1, <1>5, <2>5, <3>1, <3>3, <3>4, NoneAssumption DEF RowGrows
    <3> QED BY <1>2, <1>5, <3>4, <3>5, NoneAssumption
  <2> QED BY <2>4, <2>5
<1> QED BY <1>3, <1>4, <1>5

LEMMA ChargeGrows ==
  ASSUME BooksInv, NEW a \in AssociationIds, NEW c \in CycleIds, NEW at \in Nat, NEW amount \in Nat
  PROVE  LET new == Charge(a, c, at, amount) IN
         /\ new \in SegmentType /\ RowGrows(segment[a][c], new)
         /\ new.baseline = None => new.used = None
         /\ (new.at # None /\ new.at >= at) \/ new.quality = "NEEDS_REVIEW"
<1>1. PICK row \in SegmentType : row = SegmentOf(a, c)
  BY OpensSegment
<1>2. (row.baseline = None => row.used = None) /\ RowGrows(segment[a][c], row)
  BY <1>1, OpensSegment
<1>3. PICK new : new = Charge(a, c, at, amount)
  OBVIOUS
<1>4. /\ new \in SegmentType /\ RowGrows(row, new)
      /\ new.baseline = None => new.used = None
      /\ (new.at # None /\ new.at >= at) \/ new.quality = "NEEDS_REVIEW"
  <2>1. CASE InWindow(a, c, at)
    <3>1. new = applied(row, at, amount, ZeroOrigin(a, c))
      BY <1>1, <1>3, <2>1 DEF Charge
    <3> QED BY <1>2, <3>1, AppliedGrows
  <2>2. CASE ~InWindow(a, c, at)
    <3>1. new = [row EXCEPT !.quality = "NEEDS_REVIEW"]
      BY <1>1, <1>3, <2>2 DEF Charge
    <3>2. /\ new \in SegmentType /\ new.quality = "NEEDS_REVIEW" /\ new.used = row.used
          /\ new.at = row.at /\ new.baseline = row.baseline
      BY <3>1 DEF SegmentType, Qualities
    <3>3. row.used \in Nat \cup {None} /\ row.at \in Nat \cup {None}
      BY DEF SegmentType
    <3> QED BY <1>2, <3>2, <3>3 DEF RowGrows
  <2> QED BY <2>1, <2>2
<1>5. RowGrows(segment[a][c], new)
  <2>1. segment[a][c] \in SegmentType
    BY DEF BooksInv, SegmentsInv
  <2> QED BY <1>2, <1>4, <2>1, RowGrowsTwice
<1> QED BY <1>3, <1>4, <1>5

\* A row of the books is replaced by one that has grown.
LEMMA BookKeeps ==
  ASSUME BooksInv, NEW a \in AssociationIds, a < nextAssociation, NEW c, NEW row,
         c \in CycleIds => /\ row \in SegmentType /\ RowGrows(segment[a][c], row)
                           /\ row.baseline = None => row.used = None,
         segment' = [segment EXCEPT ![a][c] = row],
         UNCHANGED <<now, people, rounds, job>>, total' = total, planned' \subseteq planned
  PROVE  BooksInv' /\ Grows /\ CompletesCounted
<1>1. segment \in [AssociationIds -> [CycleIds -> SegmentType]] /\ total \in [Devices -> Nat]
  BY DEF BooksInv, SegmentsInv
<1>2. \A b \in AssociationIds, e \in CycleIds :
        segment'[b][e] = IF b = a /\ e = c THEN row ELSE segment[b][e]
  BY <1>1
<1>3. segment' \in [AssociationIds -> [CycleIds -> SegmentType]]
  <2>1. [segment[a] EXCEPT ![c] = row] \in [CycleIds -> SegmentType]
    BY <1>1
  <2>2. segment' = [segment EXCEPT ![a] = [segment[a] EXCEPT ![c] = row]]
    BY <1>1
  <2> QED BY <1>1, <2>1, <2>2
<1>4. nextAssociation' = nextAssociation
  BY DEF people
<1>5. nextAssociation \in Nat /\ a \in Nat
  BY Numbers
<1>6. SegmentsInv'
  <2>1. ASSUME NEW b \in AssociationIds, NEW e \in CycleIds
        PROVE  /\ segment'[b][e].baseline = None => segment'[b][e].used = None
               /\ b >= nextAssociation => segment'[b][e] = NoSegment
    <3>1. CASE b = a /\ e = c
      BY <1>2, <1>5, <3>1
    <3>2. CASE ~(b = a /\ e = c)
      BY <1>2, <3>2 DEF BooksInv, SegmentsInv
    <3> QED BY <3>1, <3>2
  <2> QED BY <1>1, <1>3, <1>4, <2>1 DEF SegmentsInv
<1>7. SegmentsGrow
  <2>1. \A b \in AssociationIds, e \in CycleIds : segment[b][e] \in SegmentType
    BY <1>1
  <2> QED BY <1>2, <2>1, RowStays DEF SegmentsGrow
<1>8. JobsInv' /\ JobsGrow /\ CompletesCounted
  BY <1>4, JobsSame, Numbers DEF BooksInv
<1>9. RoundsInv' /\ RoundsGrow
  BY RoundsSame, Numbers DEF BooksInv
<1>10. PeopleInv' /\ PeopleGrow
  BY PeopleSame DEF BooksInv
<1> QED BY <1>6, <1>7, <1>8, <1>9, <1>10 DEF BooksInv, Grows

\* The runner has dealt with round c and goes on with the rest of its list.
LEMMA ListKeeps ==
  ASSUME LedgerInv, BooksInv', Grows, CompletesCounted, NEW p \in Runners,
         runner[p].step \in {"ensure", "ensureSample", "apply"},
         NEW a \in AssociationIds, NEW s \in Sequences, a = runner[p].assoc, s = runner[p].seq,
         NEW c, runner' = [runner EXCEPT ![p].todo = runner[p].todo \ {c}],
         runner[p].step = "apply" => \A e \in Due(a, s) : e = c => Counted(a, s, e)'
  PROVE  LedgerInv' /\ Grows
<1>1. runner \in [Runners -> RunnerType] /\ runner[p] \in RunnerType /\ a < nextAssociation
      /\ Placed(p) /\ LeavesOutNothing(p) /\ BooksInv
  BY Place DEF LedgerInv, RunnersInv
<1>2. PICK new : new = [runner[p] EXCEPT !.todo = runner[p].todo \ {c}]
  OBVIOUS
<1>3. /\ new \in RunnerType /\ new.assoc = a /\ new.seq = s /\ new.step = runner[p].step
      /\ new.ended = runner[p].ended /\ new.plan = runner[p].plan
      /\ new.unresolved = runner[p].unresolved /\ new.todo = runner[p].todo \ {c}
  BY <1>1, <1>2 DEF RunnerType
<1>4. runner' = [runner EXCEPT ![p] = new]
  BY <1>1, <1>2 DEF RunnerType
<1>5. /\ runner[p].step \in {"ensureSample", "apply"} => job[a][s].sampled # None
      /\ runner[p].ended # None => association[a].ended = runner[p].ended
      /\ runner[p].step \in {"ensureSample", "apply"} => Reached(a)
  BY <1>1 DEF Placed, LeavesOutNothing
<1>6. runner[p].step = "apply" /\ ~runner[p].unresolved =>
        \A e \in Due(a, s) : e \in new.todo \/ Counted(a, s, e)'
  <2>1. SUFFICES ASSUME runner[p].step = "apply", ~runner[p].unresolved, NEW e \in Due(a, s),
                        e # c
                 PROVE  e \in new.todo \/ Counted(a, s, e)'
    OBVIOUS
  <2>2. e \in runner[p].todo \/ Counted(a, s, e)
    BY <1>1, <2>1 DEF LeavesOutNothing
  <2>3. e \in CycleIds
    BY DEF Due
  <2>4. Counted(a, s, e) => Counted(a, s, e)'
    BY <1>1, <1>5, <2>1, <2>3, CountedStays
  <2> QED BY <1>3, <2>1, <2>2, <2>4
<1>7. runner[p].step = "ensureSample" /\ ~runner[p].unresolved => Due(a, s) \subseteq new.plan
  BY <1>1, <1>3 DEF LeavesOutNothing
<1>8. /\ new.step \notin {"request", "save", "planSample", "finish"}
      /\ new.step \in {"ensureSample", "apply", "finish"} => Reached(a)
      /\ new.step \in {"ensureSample", "apply", "finish"} => job[a][s].sampled # None
      /\ new.ended # None => association[a].ended = new.ended
  BY <1>3, <1>5
<1> QED BY <1>1, <1>3, <1>4, <1>6, <1>7, <1>8, MoverKeeps

LEMMA EnsureKeeps ==
  ASSUME LedgerInv, NEW p \in Runners, Ensure(p)
  PROVE  LedgerInv' /\ Grows
<1>1. PICK a \in AssociationIds, s \in Sequences :
        a = runner[p].assoc /\ s = runner[p].seq /\ a < nextAssociation
  BY Place DEF Ensure
<1>2. PICK c : c = First(runner[p].todo)
  OBVIOUS
<1>3. UNCHANGED <<now, people, rounds, job>> /\ total' = total /\ planned' \subseteq planned
  BY DEF Ensure, world
<1>4. /\ BooksInv /\ runner[p] \in RunnerType /\ runner \in [Runners -> RunnerType]
      /\ Placed(p) /\ LeavesOutNothing(p)
  BY DEF LedgerInv, RunnersInv
<1>5. runner[p].step \in {"ensure", "ensureSample"}
  BY DEF Ensure
<1>6. CASE InContext(a, c)
  <2>1. /\ segment' = [segment EXCEPT ![a][c] = SegmentOf(a, c)]
        /\ Advance(p, IF runner[p].step = "ensure" THEN "collect" ELSE "apply")
    BY <1>1, <1>2, <1>6 DEF Ensure, Book
  <2>2. BooksInv' /\ Grows /\ CompletesCounted
    <3>1. c \in CycleIds => /\ SegmentOf(a, c) \in SegmentType
                            /\ RowGrows(segment[a][c], SegmentOf(a, c))
                            /\ SegmentOf(a, c).baseline = None => SegmentOf(a, c).used = None
      BY <1>4, OpensSegment
    <3> QED BY <1>1, <1>3, <1>4, <2>1, <3>1, BookKeeps
  <2>3. CASE runner' = [runner EXCEPT ![p].todo = runner[p].todo \ {c}]
    BY <1>1, <1>5, <2>2, <2>3, ListKeeps
  <2>4. CASE Settle(p, "retry")
    BY <1>5, <2>2, <2>4, SettleKeeps
  <2>5. CASE runner[p].step = "ensureSample"
             /\ runner' = [runner EXCEPT ![p].step = "apply", ![p].todo = runner[p].plan,
                                         ![p].plan = {}]
    <3>1. PICK new : new = [runner[p] EXCEPT !.step = "apply", !.todo = runner[p].plan, !.plan = {}]
      OBVIOUS
    <3>2. /\ new \in RunnerType /\ new.assoc = a /\ new.seq = s /\ new.step = "apply"
          /\ new.ended = runner[p].ended /\ new.unresolved = runner[p].unresolved
          /\ new.todo = runner[p].plan
      BY <1>1, <1>4, <3>1 DEF RunnerType, RunnerSteps
    <3>3. runner' = [runner EXCEPT ![p] = new]
      BY <1>4, <2>5, <3>1 DEF RunnerType
    <3>4. /\ job[a][s].sampled # None /\ Reached(a)
          /\ new.ended # None => association[a].ended = new.ended
          /\ ~new.unresolved => Due(a, s) \subseteq new.todo
      BY <1>1, <1>4, <2>5, <3>2 DEF Placed, LeavesOutNothing
    <3> QED BY <1>1, <2>2, <3>2, <3>3, <3>4, MoverKeeps
  <2>6. CASE runner' = [runner EXCEPT ![p].step = "collect", ![p].todo = {}, ![p].plan = {}]
    <3>1. PICK new : new = [runner[p] EXCEPT !.step = "collect", !.todo = {}, !.plan = {}]
      OBVIOUS
    <3>2. /\ new \in RunnerType /\ new.assoc = a /\ new.seq = s /\ new.step = "collect"
          /\ new.ended = runner[p].ended
      BY <1>1, <1>4, <3>1 DEF RunnerType, RunnerSteps
    <3>3. runner' = [runner EXCEPT ![p] = new]
      BY <1>4, <2>6, <3>1 DEF RunnerType
    <3>4. new.ended # None => association[a].ended = new.ended
      BY <1>1, <1>4, <1>5, <3>2 DEF Placed
    <3> QED BY <1>1, <2>2, <3>2, <3>3, <3>4, MoverKeeps
  <2> QED BY <1>2, <1>5, <2>1, <2>3, <2>4, <2>5, <2>6 DEF Advance
<1>7. CASE ~InContext(a, c)
  <2>1. Settle(p, "retry") /\ segment' = segment
    BY <1>1, <1>2, <1>7 DEF Ensure, books
  <2>2. BooksInv' /\ Grows /\ CompletesCounted
    BY <1>3, <1>4, <2>1, JobsStay
  <2> QED BY <1>5, <2>1, <2>2, SettleKeeps
<1> QED BY <1>6, <1>7

LEMMA ApplyKeeps ==
  ASSUME LedgerInv, NEW p \in Runners, Apply(p)
  PROVE  LedgerInv' /\ Grows
<1>1. PICK a \in AssociationIds, s \in Sequences :
        a = runner[p].assoc /\ s = runner[p].seq /\ a < nextAssociation
  BY Place DEF Apply
<1>2. PICK c : c = First(runner[p].todo)
  OBVIOUS
<1>3. UNCHANGED <<now, people, rounds, job>> /\ total' = total /\ planned' \subseteq planned
  BY DEF Apply, world
<1>4. /\ BooksInv /\ runner[p] \in RunnerType /\ runner \in [Runners -> RunnerType]
      /\ Placed(p) /\ LeavesOutNothing(p) /\ runner[p].step = "apply"
  BY DEF LedgerInv, RunnersInv, Apply
<1>5. PICK at \in Nat, amount \in Nat : at = job[a][s].sampled /\ amount = job[a][s].total
  <2>1. job[a][s] \in JobType /\ job[a][s].sampled # None /\ job[a][s].total # None
    BY <1>1, <1>4, JobTyped DEF Placed, BooksInv, JobsInv
  <2> QED BY <2>1 DEF JobType
<1>6. CASE /\ segment' = [segment EXCEPT ![a][c] = Charge(a, c, at, amount)]
           /\ Advance(p, "finish")
  <2>1. PICK row : row = Charge(a, c, at, amount)
    OBVIOUS
  <2>2. c \in CycleIds => /\ row \in SegmentType /\ RowGrows(segment[a][c], row)
                          /\ row.baseline = None => row.used = None
                          /\ (row.at # None /\ row.at >= at) \/ row.quality = "NEEDS_REVIEW"
    BY <1>4, <2>1, ChargeGrows
  <2>3. BooksInv' /\ Grows /\ CompletesCounted
    BY <1>1, <1>3, <1>4, <1>6, <2>1, <2>2, BookKeeps
  <2>4. \A e \in Due(a, s) : e = c => Counted(a, s, e)'
    <3>1. SUFFICES ASSUME c \in Due(a, s) PROVE Counted(a, s, c)'
      OBVIOUS
    <3>2. c \in CycleIds
      BY <3>1 DEF Due
    <3>3. segment'[a][c] = row
      BY <1>4, <1>6, <2>1, <3>2 DEF BooksInv, SegmentsInv
    <3>4. job'[a][s].sampled = at
      BY <1>3, <1>5
    <3> QED BY <2>2, <3>2, <3>3, <3>4 DEF Counted
  <2>5. CASE runner' = [runner EXCEPT ![p].todo = runner[p].todo \ {c}]
    BY <1>1, <1>4, <2>3, <2>4, <2>5, ListKeeps
  <2>6. CASE Settle(p, "retry")
    BY <1>4, <2>3, <2>6, SettleKeeps
  <2>7. CASE Settle(p, "finish") /\ ~runner[p].unresolved /\ runner[p].todo \ {c} = {}
    <3>1. ASSUME NEW e \in Due(a, s)
          PROVE  Counted(a, s, e)'
      <4>1. e \in CycleIds /\ job[a][s].sampled # None
        BY <1>5, NoneAssumption DEF Due
      <4>2. e = c \/ Counted(a, s, e)
        BY <1>1, <1>4, <2>7, <3>1 DEF LeavesOutNothing
      <4>3. Counted(a, s, e) => Counted(a, s, e)'
        BY <1>4, <2>3, <4>1, CountedStays
      <4> QED BY <2>4, <4>2, <4>3
    <3>2. job[a][s].sampled # None /\ Reached(a)
      BY <1>1, <1>4, <1>5, NoneAssumption DEF LeavesOutNothing
    <3> QED BY <1>1, <1>4, <2>3, <2>7, <3>1, <3>2, SettleKeeps
  <2> QED BY <1>2, <1>6, <2>5, <2>6, <2>7 DEF Advance
<1>7. CASE Settle(p, "retry") /\ UNCHANGED books
  <2>1. BooksInv' /\ Grows /\ CompletesCounted
    BY <1>3, <1>4, <1>7, JobsStay DEF books
  <2> QED BY <1>4, <1>7, <2>1, SettleKeeps
<1> QED BY <1>1, <1>2, <1>5, <1>6, <1>7 DEF Apply, Book

-----------------------------------------------------------------------------
(* Every step keeps the invariant, and adds to the books.                  *)

LEMMA EnvironmentBooks ==
  ASSUME BooksInv, Environment
  PROVE  BooksInv' /\ Grows /\ CompletesCounted
<1>1. CASE (\E a \in AssociationIds : Report(a)) \/ (\E d \in Devices : Regress(d))
  BY <1>1, WorldBooks
<1>2. ASSUME NEW u \in Users, NEW d \in Devices,
             (\E fresh \in BOOLEAN : Associate(u, d, fresh)) \/ import_initial_usage(u, d, 1)
      PROVE  BooksInv' /\ Grows /\ CompletesCounted
  BY <1>2, AssociateBooks, ImportBooks
<1>3. ASSUME NEW a \in AssociationIds, End(a)
      PROVE  BooksInv' /\ Grows /\ CompletesCounted
  BY <1>3, EndBooks
<1>4. ASSUME NEW status \in {"VERIFIED", "NEEDS_REVIEW"}, SyncRollover(status) \/ SyncCurrent(status)
      PROVE  BooksInv' /\ Grows /\ CompletesCounted
  BY <1>4, RolloverBooks, EvidenceBooks
<1>5. CASE Pass
  BY <1>5, WorldBooks
<1> QED BY <1>1, <1>2, <1>3, <1>4, <1>5 DEF Environment

LEMMA RunnersRest ==
  ASSUME LedgerInv, BooksInv', Grows, CompletesCounted, runner' = runner
  PROVE  LedgerInv' /\ Grows
<1>1. runner' \in [Runners -> RunnerType] /\ \A p \in Runners : RunnerGoesOn(p)
  BY DEF LedgerInv, RunnersInv, RunnerGoesOn
<1> QED BY <1>1, StepKeeps

LEMMA LedgerStep ==
  ASSUME LedgerInv, Next
  PROVE  LedgerInv' /\ Grows
<1> BooksInv
  BY DEF LedgerInv
<1>1. CASE Environment
  <2>1. runner' = runner
    BY <1>1 DEF Environment, Report, Regress, Associate, import_initial_usage, End, SyncRollover,
                SyncCurrent, Pass
  <2> QED BY <1>1, <2>1, EnvironmentBooks, RunnersRest
<1>2. ASSUME NEW a \in AssociationIds,
             \/ after_authorized(a) \/ before_revoke(a) \/ schedule_after_revoke(a)
             \/ TickRead(a) \/ BecomesDue(a)
             \/ \E s \in Sequences : TickEnqueue(a, s)
      PROVE  LedgerInv' /\ Grows
  <2>1. runner' = runner
    BY <1>2 DEF after_authorized, before_revoke, schedule_after_revoke, TickRead, BecomesDue,
                TickEnqueue
  <2>2. BooksInv' /\ Grows /\ CompletesCounted
    BY <1>2, SchedulingBooks, TickReadBooks
  <2> QED BY <2>1, <2>2, RunnersRest
<1>3. ASSUME NEW p \in Runners, NEW a \in AssociationIds, NEW s \in Sequences, Claim(p, a, s)
      PROVE  LedgerInv' /\ Grows
  BY <1>3, ClaimKeeps
<1>4. ASSUME NEW p \in Runners, Steps(p)
      PROVE  LedgerInv' /\ Grows
  BY <1>4, PlanKeeps, EnsureKeeps, CollectKeeps, AnswerKeeps, SaveKeeps, ApplyKeeps,
     CompletionKeeps DEF Steps
<1>5. CASE (\E p \in Runners : Fails(p) \/ Cancel(p)) \/ Restart
  BY <1>5, FaultKeeps
<1> QED BY <1>1, <1>2, <1>3, <1>4, <1>5 DEF Next, Sampling

LEMMA LedgerNext ==
  ASSUME LedgerInv, [Next]_vars
  PROVE  LedgerInv' /\ Grows
<1>1. CASE UNCHANGED vars
  <2>1. /\ UNCHANGED <<now, people, rounds, segment, job>> /\ total' = total
        /\ planned' \subseteq planned /\ runner' = runner
    BY <1>1 DEF vars, world, books
  <2>2. BooksInv' /\ Grows /\ CompletesCounted
    BY <2>1, JobsStay DEF LedgerInv
  <2> QED BY <2>1, <2>2, RunnersRest
<1> QED BY <1>1, LedgerStep

LEMMA LedgerInvariant == Spec => []LedgerInv
<1>1. LedgerInv /\ [Next]_vars => LedgerInv'
  BY LedgerNext
<1> QED BY <1>1, InitLedger, PTL DEF Spec

-----------------------------------------------------------------------------
(* Whom the difference of two totals is charged to.                        *)

WeekOf(n) == n \div Week

\* The instant use of a is charged to, and what a used in the week of that instant.
When(a) == IF association[a].ended = None THEN now ELSE association[a].ended
Spending(a) == spent[a][WeekOf(When(a))]

Alone(a) == Successors(a) = {}
TotalOf(a) == total[association[a].device]

\* The total x was read for a by a request of instant t.
Read(a, t, x) ==
  \/ \E s \in Sequences : job[a][s].sampled = t /\ job[a][s].total = x
  \/ \E p \in Runners : /\ runner[p].step = "save" /\ runner[p].assoc = a
                        /\ runner[p].claimed = t /\ runner[p].total = x

\* What was read of a after instant from (ever, if it is NULL) exceeds base by no more
\* than what a used in this week, and so does the total until somebody else has it.
Sound(a, base, from) ==
  /\ Alone(a) => TotalOf(a) - base <= Spending(a)
  /\ \A t, x \in Nat : Read(a, t, x) /\ (from = None \/ t > from) /\ ~Superseded(a, t) =>
       x - base <= Spending(a)

\* A device that had no total before the association.
FromZero(a) ==
  association[a].fresh /\ \A b \in AssociationIds : Has(b, association[a].device) => b >= a

Imported(row) == IF row.imported = None THEN 0 ELSE row.imported

\* The row charges a no more than its use of the week of c, now or by a later sample.
RowSound(a, c, row) ==
  /\ row.baseline # None /\ WeekOf(cycle[c].started) = WeekOf(When(a)) =>
       Sound(a, row.baseline, row.at)
  /\ row.used # None => row.used - Imported(row) <= spent[a][WeekOf(cycle[c].started)]

\* Instants: an association's are odd and of the past.
ClockInv ==
  /\ now <= LastTime /\ now % 2 = 1
  /\ spent \in [AssociationIds -> [Weeks -> Nat]]
  /\ \A a \in AssociationIds : a < nextAssociation =>
       /\ association[a].user # None /\ association[a].started < now
       /\ association[a].ended # None => association[a].ended < now /\ association[a].ended % 2 = 1

\* Rounds are whole weeks; one that is not stored has no rows.
WeeksInv ==
  \A c \in CycleIds :
    IF c < nextCycle
    THEN /\ cycle[c].started = Week * WeekOf(cycle[c].started)
         /\ cycle[c].reset = cycle[c].started + Week
    ELSE cycle[c].status = "NONE" /\ \A a \in AssociationIds : segment[a][c] = NoSegment

\* No answer, and no successor on the device, is later than a request in flight.
FlightInv ==
  \A p \in Runners : runner[p].step = "request" =>
    /\ \A a \in AssociationIds, t, x \in Nat : Read(a, t, x) => t <= runner[p].claimed
    /\ \A a \in AssociationIds : a = runner[p].assoc =>
         \A b \in Successors(a) : association[b].started <= runner[p].claimed

\* What is read after a read exceeds it by no more than the use of that week.
ReadsSound ==
  \A a \in AssociationIds, t, x \in Nat :
    Read(a, t, x) /\ WeekOf(t) >= WeekOf(When(a)) => Sound(a, x, t)

\* Neither does what is read of a device that began at zero exceed zero by more.
ZeroSound ==
  \A a \in AssociationIds :
    a < nextAssociation /\ FromZero(a) /\ WeekOf(association[a].started) = WeekOf(When(a)) =>
      Sound(a, 0, None)

\* A segment charges its holder's use only, and what is read after it was last counted
\* exceeds its baseline by no more than that.
SegmentsSound == \A a \in AssociationIds, c \in CycleIds : RowSound(a, c, segment[a][c])

MeterInv == ClockInv /\ WeeksInv /\ FlightInv /\ ReadsSound /\ ZeroSound /\ SegmentsSound

-----------------------------------------------------------------------------
(* Weeks.                                                                  *)

LEMMA WeekIsEven == Week \in Nat /\ Week > 0 /\ Week % 2 = 0 /\ LastTime \in Nat /\ LastTime > 0
BY WeekAssumption, BoundAssumption

LEMMA Multiples ==
  ASSUME NEW i \in Nat, NEW j \in Nat
  PROVE  Week * i \in Nat /\ (i > j => Week * i >= Week * j + Week)
<1>1. Week * i \in Nat /\ Week * j \in Nat
  BY WeekIsEven
<1>2. ASSUME i > j
      PROVE  Week * i >= Week * j + Week
  <2>1. PICK k \in Nat : i = j + 1 + k
    <3>1. i - j - 1 \in Nat /\ i = j + 1 + (i - j - 1)
      BY <1>2
    <3> QED BY <3>1
  <2>2. Week * (j + 1 + k) = Week * j + Week + Week * k
    BY WeekIsEven
  <2>3. Week * k \in Nat
    BY WeekIsEven
  <2> QED BY <1>1, <2>1, <2>2, <2>3, WeekIsEven
<1> QED BY <1>1, <1>2

LEMMA WeekBegins ==
  ASSUME NEW n \in Nat
  PROVE  WeekOf(n) \in Nat /\ Week * WeekOf(n) <= n /\ n < Week * WeekOf(n) + Week
<1>1. PICK q \in Int : q = n \div Week
  BY WeekIsEven
<1>2. n % Week \in 0 .. Week - 1
  BY WeekIsEven
<1>3. n = Week * q + (n % Week)
  BY <1>1, WeekIsEven
<1>4. PICK x \in Int : x = Week * q
  BY WeekIsEven
<1>5. x <= n /\ n < x + Week
  BY <1>2, <1>3, <1>4, WeekIsEven
<1>6. q >= 0
  BY <1>1, WeekIsEven
<1> QED BY <1>1, <1>4, <1>5, <1>6 DEF WeekOf

LEMMA WeekUnique ==
  ASSUME NEW n \in Nat, NEW k \in Nat, Week * k <= n, n < Week * k + Week
  PROVE  WeekOf(n) = k
<1>1. PICK q \in Nat : q = WeekOf(n)
  BY WeekBegins
<1>2. Week * q <= n /\ n < Week * q + Week
  BY <1>1, WeekBegins
<1>3. /\ Week * q \in Nat /\ Week * k \in Nat
      /\ q > k => Week * q >= Week * k + Week
      /\ k > q => Week * k >= Week * q + Week
  BY Multiples
<1>4. ~(q > k) /\ ~(k > q)
  BY <1>2, <1>3, WeekIsEven
<1> QED BY <1>1, <1>4

LEMMA WeekGrows ==
  ASSUME NEW m \in Nat, NEW n \in Nat, m <= n
  PROVE  WeekOf(m) <= WeekOf(n)
<1>1. PICK i \in Nat, j \in Nat : i = WeekOf(m) /\ j = WeekOf(n)
  BY WeekBegins
<1>2. Week * i <= m /\ n < Week * j + Week
  BY <1>1, WeekBegins
<1>3. /\ Week * i \in Nat /\ Week * j \in Nat
      /\ i > j => Week * i >= Week * j + Week
  BY Multiples
<1>4. ~(i > j)
  BY <1>2, <1>3, WeekIsEven
<1> QED BY <1>1, <1>4

LEMMA MultiplesAreEven ==
  ASSUME NEW k \in Nat
  PROVE  (Week * k) % 2 = 0
<1>1. PICK h \in Int : Week = 2 * h
  BY WeekIsEven
<1>2. Week * k = 2 * (h * k)
  BY <1>1
<1>3. PICK m \in Int : m = h * k
  BY <1>1
<1>4. (2 * m) % 2 = 0
  OBVIOUS
<1> QED BY <1>2, <1>3, <1>4

-----------------------------------------------------------------------------
(* What is read and used.                                                  *)

LEMMA Person ==
  ASSUME BooksInv, NEW a \in AssociationIds, a < nextAssociation
  PROVE  /\ association[a] \in PersonType /\ association[a].device \in Devices
         /\ association[a].started \in Nat /\ association[a].ended \in Nat \cup {None}
         /\ TotalOf(a) \in Nat
<1>1. association[a] \in PersonType /\ association[a].device \in Devices
      /\ association[a].started \in Nat
  BY DEF BooksInv, PeopleInv
<1> QED BY <1>1 DEF PersonType, TotalOf, BooksInv, SegmentsInv

LEMMA ReadPast ==
  ASSUME LedgerInv, NEW a \in AssociationIds, NEW t \in Nat, NEW x, Read(a, t, x)
  PROVE  t < now /\ x \in Nat /\ a < nextAssociation
<1>1. BooksInv /\ runner \in [Runners -> RunnerType] /\ \A p \in Runners : Placed(p)
  BY DEF LedgerInv, RunnersInv
<1>2. ASSUME NEW s \in Sequences, job[a][s].sampled = t, job[a][s].total = x
      PROVE  t < now /\ x \in Nat /\ a < nextAssociation
  <2>1. t # None
    BY NoneAssumption
  <2>2. job[a][s].total \in Nat \cup {None}
    BY <1>1, JobTyped DEF BooksInv, JobType
  <2> QED BY <1>1, <1>2, <2>1, <2>2 DEF BooksInv, JobsInv
<1>3. ASSUME NEW p \in Runners, runner[p].step = "save", runner[p].assoc = a,
             runner[p].claimed = t, runner[p].total = x
      PROVE  t < now /\ x \in Nat /\ a < nextAssociation
  <2>1. runner[p].total \in Nat \cup {None}
    BY <1>1 DEF RunnerType
  <2> QED BY <1>1, <1>3, <2>1 DEF Placed
<1> QED BY <1>2, <1>3 DEF Read

LEMMA PastWeek ==
  ASSUME BooksInv, ClockInv, NEW n \in Nat, n <= now
  PROVE  WeekOf(n) \in Weeks /\ WeekOf(n) <= WeekOf(now)
<1>1. now \in Nat /\ now <= LastTime
  BY Numbers DEF ClockInv
<1>2. WeekOf(n) \in Nat /\ WeekOf(n) <= WeekOf(now) /\ WeekOf(n) <= WeekOf(LastTime)
  BY <1>1, WeekBegins, WeekGrows, WeekIsEven
<1>3. WeekOf(LastTime) \in Nat
  BY WeekBegins, WeekIsEven
<1> QED BY <1>2, <1>3 DEF Weeks, WeekOf

LEMMA WhenTyped ==
  ASSUME BooksInv, ClockInv, NEW a \in AssociationIds, a < nextAssociation
  PROVE  /\ When(a) \in Nat /\ When(a) <= now /\ WeekOf(When(a)) \in Weeks
         /\ WeekOf(When(a)) \in Nat /\ Spending(a) \in Nat
<1>1. When(a) \in Nat /\ When(a) <= now
  BY Numbers, Person DEF When, ClockInv
<1>2. WeekOf(When(a)) \in Weeks
  BY <1>1, PastWeek
<1> QED BY <1>1, <1>2, WeekBegins DEF Spending, ClockInv

\* The same of the next state.
LEMMA NextTyped ==
  ASSUME BooksInv', ClockInv', NEW a \in AssociationIds, a < nextAssociation'
  PROVE  /\ When(a)' \in Nat /\ WeekOf(When(a))' \in Nat
         /\ Spending(a)' \in Nat /\ TotalOf(a)' \in Nat
<1>1. association'[a] \in PersonType /\ association'[a].device \in Devices
  BY DEF BooksInv, PeopleInv
<1>2. association'[a].ended \in Nat \cup {None} /\ TotalOf(a)' \in Nat
  BY <1>1 DEF PersonType, TotalOf, BooksInv, SegmentsInv
<1>3. PICK n \in Nat : n = now' /\ n <= LastTime
  BY DEF BooksInv, RoundsInv, ClockInv
<1>4. PICK m \in Nat : m = When(a)' /\ m <= n
  BY <1>2, <1>3 DEF When, ClockInv
<1>5. WeekOf(m) \in Nat /\ WeekOf(m) <= WeekOf(LastTime) /\ WeekOf(LastTime) \in Nat
  BY <1>3, <1>4, WeekBegins, WeekGrows, WeekIsEven
<1>6. WeekOf(m) \in Weeks
  BY <1>5 DEF Weeks, WeekOf
<1>7. spent'[a][WeekOf(m)] \in Nat
  BY <1>6 DEF ClockInv
<1> QED BY <1>2, <1>4, <1>5, <1>7 DEF Spending, WeekOf

LEMMA SoundLater ==
  ASSUME NEW a, NEW base, NEW from, from = None \/ from \in Nat, NEW later \in Nat,
         from # None => later >= from, Sound(a, base, from)
  PROVE  Sound(a, base, later)
<1>1. later # None
  BY NoneAssumption
<1>2. ASSUME NEW t \in Nat, t > later
      PROVE  from = None \/ t > from
  BY <1>2
<1> QED BY <1>1, <1>2 DEF Sound

-----------------------------------------------------------------------------
(* What a step does to what was read and used.                             *)

PersonStays(a) ==
  /\ association'[a].user = association[a].user /\ association'[a].device = association[a].device
  /\ association'[a].started = association[a].started
  /\ association'[a].fresh = association[a].fresh

\* A total that was read in this step.
Answered(a, t, x) ==
  /\ x = TotalOf(a) /\ total' = total /\ t < now /\ When(a)' = When(a)
  /\ Alone(a) \/ Superseded(a, t)
  /\ \A u, y \in Nat : Read(a, u, y)' => u <= t

ReadsGo(a) == \A t, x \in Nat : Read(a, t, x)' => Read(a, t, x) \/ Answered(a, t, x)

\* Use is charged to the same week, or the next one has begun.
WeekGoes(a) ==
  \/ WeekOf(When(a))' = WeekOf(When(a))
  \/ WeekOf(When(a))' > WeekOf(now) /\ \A t, x \in Nat : Read(a, t, x)' => Read(a, t, x)

UseGoes(a) ==
  /\ \A w \in Weeks : spent'[a][w] >= spent[a][w]
  /\ Alone(a) /\ WeekOf(When(a))' = WeekOf(When(a)) =>
       total'[association[a].device] - TotalOf(a) <= Spending(a)' - Spending(a)

MeterGoes ==
  \A a \in AssociationIds : a < nextAssociation =>
    PersonStays(a) /\ ReadsGo(a) /\ WeekGoes(a) /\ UseGoes(a)

LEMMA HoldersStay ==
  ASSUME BooksInv, MeterGoes, NEW a \in AssociationIds, a < nextAssociation
  PROVE  /\ Successors(a) \subseteq Successors(a)'
         /\ \A t \in Nat : Superseded(a, t) => Superseded(a, t)'
         /\ FromZero(a)' => FromZero(a)
<1>1. ASSUME NEW b \in AssociationIds, NEW d, Has(b, d)
      PROVE  /\ Has(b, d)' /\ association'[b].started = association[b].started
  <2>1. b < nextAssociation
    BY <1>1, Exists DEF Has, Made
  <2> QED BY <1>1, <2>1 DEF Has, Made, MeterGoes, PersonStays
<1>2. PersonStays(a)
  BY DEF MeterGoes
<1>3. \A b \in Successors(a) : b \in Successors(a)' /\ association'[b].started = association[b].started
  BY <1>1, <1>2 DEF Successors, PersonStays
<1>4. \A t \in Nat : Superseded(a, t) => Superseded(a, t)'
  BY <1>3 DEF Superseded
<1>5. FromZero(a)' => FromZero(a)
  BY <1>1, <1>2 DEF FromZero, PersonStays
<1> QED BY <1>3, <1>4, <1>5

LEMMA SoundStays ==
  ASSUME BooksInv, BooksInv', ClockInv, ClockInv', MeterGoes, NEW a \in AssociationIds,
         a < nextAssociation, a < nextAssociation', WeekOf(When(a))' = WeekOf(When(a)),
         NEW base \in Nat, NEW from, Sound(a, base, from)
  PROVE  Sound(a, base, from)'
<1>1. /\ Alone(a)' => Alone(a)
      /\ \A t \in Nat : Superseded(a, t) => Superseded(a, t)'
  BY HoldersStay DEF Alone
<1>2. PersonStays(a) /\ ReadsGo(a) /\ UseGoes(a)
  BY DEF MeterGoes
<1>3. /\ TotalOf(a) \in Nat /\ TotalOf(a)' \in Nat /\ Spending(a) \in Nat /\ Spending(a)' \in Nat
      /\ WeekOf(When(a)) \in Weeks
  BY Person, WhenTyped, NextTyped
<1>4. Spending(a) <= Spending(a)'
  BY <1>2, <1>3 DEF Spending, UseGoes
<1>5. Alone(a)' => TotalOf(a)' - base <= Spending(a)'
  <2>1. SUFFICES ASSUME Alone(a)'
                 PROVE  TotalOf(a)' - base <= Spending(a)'
    OBVIOUS
  <2>2. TotalOf(a) - base <= Spending(a)
    BY <1>1, <2>1 DEF Sound
  <2>3. TotalOf(a)' - TotalOf(a) <= Spending(a)' - Spending(a)
    <3>1. TotalOf(a)' = total'[association[a].device]
      BY <1>2 DEF TotalOf, PersonStays
    <3> QED BY <1>1, <1>2, <2>1, <3>1 DEF UseGoes
  <2> QED BY <1>3, <2>2, <2>3
<1>6. ASSUME NEW t \in Nat, NEW x \in Nat, Read(a, t, x)', from = None \/ t > from,
             ~Superseded(a, t)'
      PROVE  x - base <= Spending(a)'
  <2>1. ~Superseded(a, t)
    BY <1>1, <1>6
  <2>2. CASE Read(a, t, x)
    <3>1. x - base <= Spending(a)
      BY <1>6, <2>1, <2>2 DEF Sound
    <3> QED BY <1>3, <1>4, <3>1
  <2>3. CASE Answered(a, t, x)
    <3>1. x = TotalOf(a) /\ TotalOf(a) - base <= Spending(a)
      BY <2>1, <2>3 DEF Answered, Sound
    <3> QED BY <1>3, <1>4, <3>1
  <2> QED BY <1>2, <1>6, <2>2, <2>3 DEF ReadsGo
<1> QED BY <1>5, <1>6 DEF Sound

\* Nothing that was asked for before is of the week that has begun.
LEMMA NewWeek ==
  ASSUME BooksInv, ClockInv, NEW a \in AssociationIds, WeekOf(When(a))' > WeekOf(now),
         NEW n \in Nat, n <= now, WeekOf(When(a))' \in Nat
  PROVE  WeekOf(n) < WeekOf(When(a))'
<1>1. WeekOf(n) <= WeekOf(now) /\ WeekOf(n) \in Nat /\ WeekOf(now) \in Nat
  BY PastWeek, WeekBegins, Numbers
<1> QED BY <1>1

LEMMA ReadsStaySound ==
  ASSUME LedgerInv, LedgerInv', ClockInv, ClockInv', MeterGoes, ReadsSound,
         NEW a \in AssociationIds, a < nextAssociation, a < nextAssociation',
         NEW t \in Nat, NEW x \in Nat, Read(a, t, x)', WeekOf(t) >= WeekOf(When(a))'
  PROVE  Sound(a, x, t)'
<1>1. BooksInv /\ BooksInv'
  BY DEF LedgerInv
<1>2. PersonStays(a) /\ ReadsGo(a) /\ UseGoes(a) /\ WeekGoes(a)
  BY DEF MeterGoes
<1>3. /\ TotalOf(a) \in Nat /\ TotalOf(a)' \in Nat /\ Spending(a) \in Nat /\ Spending(a)' \in Nat
      /\ WeekOf(When(a)) \in Weeks /\ WeekOf(When(a))' \in Nat
  BY <1>1, Person, WhenTyped, NextTyped
<1>4. CASE Answered(a, t, x)
  <2>1. TotalOf(a)' = x
    BY <1>2, <1>4 DEF Answered, TotalOf, PersonStays
  <2>2. \A u, y \in Nat : Read(a, u, y)' => ~(u > t)
    BY <1>4 DEF Answered
  <2>3. t # None
    BY NoneAssumption
  <2> QED BY <1>3, <2>1, <2>2, <2>3 DEF Sound
<1>5. CASE Read(a, t, x) /\ WeekOf(When(a))' = WeekOf(When(a))
  <2>1. Sound(a, x, t)
    BY <1>5 DEF ReadsSound
  <2> QED BY <1>1, <1>5, <2>1, SoundStays
<1>6. CASE Read(a, t, x) /\ WeekOf(When(a))' > WeekOf(now)
  <2>1. t < now /\ now \in Nat
    BY <1>1, <1>6, ReadPast, Numbers
  <2>2. WeekOf(t) < WeekOf(When(a))' /\ WeekOf(t) \in Nat
    BY <1>1, <1>3, <1>6, <2>1, NewWeek, WeekBegins
  <2> QED BY <1>3, <2>2
<1> QED BY <1>2, <1>4, <1>5, <1>6 DEF ReadsGo, WeekGoes

LEMMA ZeroStaysSound ==
  ASSUME LedgerInv, LedgerInv', ClockInv, ClockInv', MeterGoes, ZeroSound,
         NEW a \in AssociationIds, a < nextAssociation, a < nextAssociation', FromZero(a)',
         WeekOf(association'[a].started) = WeekOf(When(a))'
  PROVE  Sound(a, 0, None)'
<1>1. BooksInv /\ BooksInv'
  BY DEF LedgerInv
<1>2. PersonStays(a) /\ WeekGoes(a) /\ FromZero(a)
  BY <1>1, HoldersStay DEF MeterGoes
<1>3. WeekOf(When(a))' \in Nat /\ association[a].started \in Nat /\ association[a].started < now
      /\ now \in Nat
  BY <1>1, Person, NextTyped, Numbers DEF ClockInv
<1>4. CASE WeekOf(When(a))' = WeekOf(When(a))
  <2>1. Sound(a, 0, None)
    BY <1>2, <1>4 DEF ZeroSound, PersonStays
  <2> QED BY <1>1, <1>4, <2>1, SoundStays
<1>5. CASE WeekOf(When(a))' > WeekOf(now)
  <2>1. WeekOf(association[a].started) < WeekOf(When(a))'
    BY <1>1, <1>3, <1>5, NewWeek
  <2> QED BY <1>2, <1>3, <2>1 DEF PersonStays
<1> QED BY <1>2, <1>4, <1>5 DEF WeekGoes

LEMMA RowStaysSound ==
  ASSUME LedgerInv, LedgerInv', Grows, ClockInv, ClockInv', MeterGoes,
         NEW a \in AssociationIds, a < nextAssociation, a < nextAssociation',
         NEW c \in CycleIds, c < nextCycle, NEW row \in SegmentType, RowSound(a, c, row)
  PROVE  RowSound(a, c, row)'
<1>1. BooksInv /\ BooksInv'
  BY DEF LedgerInv
<1>2. WeekGoes(a) /\ UseGoes(a)
  BY DEF MeterGoes
<1>3. PICK n \in Nat : n = cycle[c].started /\ n = cycle'[c].started /\ n <= now
  <2>1. cycle[c] \in RoundType /\ cycle[c].started <= cycle[c].created /\ cycle[c].created <= now
    BY <1>1 DEF BooksInv, RoundsInv
  <2>2. cycle[c].started \in Nat /\ cycle[c].created \in Nat
    BY <2>1 DEF RoundType
  <2> QED BY <1>1, <2>1, <2>2, Numbers DEF Grows, RoundsGrow
<1>4. WeekOf(n) \in Weeks /\ WeekOf(n) \in Nat
  BY <1>1, <1>3, PastWeek, WeekBegins
<1>5. spent[a][WeekOf(n)] \in Nat /\ spent'[a][WeekOf(n)] \in Nat
      /\ spent'[a][WeekOf(n)] >= spent[a][WeekOf(n)]
  BY <1>2, <1>4 DEF ClockInv, UseGoes
<1>6. row.used # None => row.used - Imported(row) <= spent'[a][WeekOf(n)]
  <2>1. /\ row.used \in Nat \cup {None} /\ row.imported \in Nat \cup {None}
    BY DEF SegmentType
  <2>2. Imported(row) \in Nat
    BY <2>1 DEF Imported
  <2>3. row.used # None => row.used - Imported(row) <= spent[a][WeekOf(n)]
    BY <1>3 DEF RowSound
  <2> QED BY <1>5, <2>1, <2>2, <2>3
<1>7. ASSUME row.baseline # None, WeekOf(n) = WeekOf(When(a))'
      PROVE  Sound(a, row.baseline, row.at)'
  <2>1. PICK base \in Nat : base = row.baseline
    BY <1>7 DEF SegmentType
  <2>2. CASE WeekOf(When(a))' = WeekOf(When(a))
    <3>1. Sound(a, base, row.at)
      BY <1>3, <1>7, <2>1, <2>2 DEF RowSound
    <3>2. Sound(a, base, row.at)'
      BY <1>1, <2>2, <3>1, SoundStays
    <3> QED BY <2>1, <3>2
  <2>3. CASE WeekOf(When(a))' > WeekOf(now)
    <3>1. WeekOf(n) < WeekOf(When(a))'
      BY <1>1, <1>3, <1>4, <1>7, <2>3, NewWeek
    <3> QED BY <1>4, <1>7, <3>1
  <2> QED BY <1>2, <2>2, <2>3 DEF WeekGoes
<1>8. row.used # None =>
        row.used - Imported(row) <= spent'[a][WeekOf(cycle'[c].started)]
  BY <1>3, <1>6
<1>9. row.baseline # None /\ WeekOf(cycle'[c].started) = WeekOf(When(a))' =>
        Sound(a, row.baseline, row.at)'
  BY <1>3, <1>7
<1> QED BY <1>8, <1>9 DEF RowSound, Imported

LEMMA ReadNext ==
  ASSUME LedgerInv', NEW a \in AssociationIds, NEW t \in Nat, NEW x \in Nat, Read(a, t, x)'
  PROVE  a < nextAssociation'
<1>1. BooksInv' /\ \A p \in Runners : Placed(p)'
  BY DEF LedgerInv, RunnersInv
<1>2. ASSUME NEW s \in Sequences, job'[a][s].sampled = t
      PROVE  a < nextAssociation'
  <2>1. job'[a][s].sampled # None
    BY <1>2, NoneAssumption
  <2>2. JobsInv'
    BY <1>1 DEF BooksInv
  <2> QED BY <2>1, <2>2 DEF JobsInv
<1>3. ASSUME NEW p \in Runners, runner'[p].step = "save", runner'[p].assoc = a
      PROVE  a < nextAssociation'
  BY <1>1, <1>3 DEF Placed
<1> QED BY <1>2, <1>3 DEF Read

\* What has to be shown of a step: what it adds to the rows, and what it knows of the
\* association it makes.
RowsGo ==
  \A a \in AssociationIds, c \in CycleIds : a < nextAssociation =>
    \/ segment'[a][c] = segment[a][c]
    \/ c < nextCycle /\ \A row : row = segment'[a][c] => RowSound(a, c, row)

NewcomerSound ==
  \A a \in AssociationIds : a >= nextAssociation /\ a < nextAssociation' =>
    /\ \A t, x \in Nat : ~Read(a, t, x)'
    /\ FromZero(a)' => Sound(a, 0, None)'
    /\ \A c \in CycleIds : RowSound(a, c, segment[a][c])'

LEMMA EmptyRowSound ==
  ASSUME NEW a, NEW c
  PROVE  RowSound(a, c, NoSegment)'
BY DEF RowSound, NoSegment

LEMMA MeterKeeps ==
  ASSUME LedgerInv, LedgerInv', Grows, MeterInv, ClockInv', WeeksInv', FlightInv',
         MeterGoes, RowsGo, NewcomerSound
  PROVE  MeterInv'
<1>1. BooksInv /\ BooksInv' /\ ClockInv /\ WeeksInv
  BY DEF LedgerInv, MeterInv
<1>2. /\ nextAssociation \in Nat /\ nextAssociation' \in Nat /\ nextAssociation' >= nextAssociation
      /\ AssociationIds \subseteq Nat
  BY <1>1, Numbers DEF BooksInv, PeopleInv, Grows, PeopleGrow
<1>3. \A a \in AssociationIds : a < nextAssociation => a < nextAssociation'
  BY <1>2
<1>4. ReadsSound'
  <2>1. SUFFICES ASSUME NEW a \in AssociationIds, NEW t \in Nat, NEW x \in Nat,
                        Read(a, t, x)', WeekOf(t) >= WeekOf(When(a))'
                 PROVE  Sound(a, x, t)'
    BY DEF ReadsSound, WeekOf
  <2>2. a < nextAssociation'
    BY <2>1, ReadNext
  <2>3. a < nextAssociation
    BY <1>2, <2>1, <2>2 DEF NewcomerSound
  <2> QED BY <1>1, <2>1, <2>2, <2>3, ReadsStaySound DEF MeterInv
<1>5. ZeroSound'
  <2>1. SUFFICES ASSUME NEW a \in AssociationIds, a < nextAssociation', FromZero(a)',
                        WeekOf(association'[a].started) = WeekOf(When(a))'
                 PROVE  Sound(a, 0, None)'
    BY DEF ZeroSound, WeekOf
  <2>2. CASE a < nextAssociation
    BY <1>1, <2>1, <2>2, ZeroStaysSound DEF MeterInv
  <2>3. CASE ~(a < nextAssociation)
    BY <1>2, <2>1, <2>3 DEF NewcomerSound
  <2> QED BY <2>2, <2>3
<1>6. SegmentsSound'
  <2>1. SUFFICES ASSUME NEW a \in AssociationIds, NEW c \in CycleIds
                 PROVE  RowSound(a, c, segment[a][c])'
    BY DEF SegmentsSound
  <2>2. CASE ~(a < nextAssociation')
    <3>1. segment'[a][c] = NoSegment
      BY <1>1, <1>2, <2>2 DEF BooksInv, SegmentsInv
    <3>2. RowSound(a, c, NoSegment)'
      BY EmptyRowSound
    <3> QED BY <3>1, <3>2
  <2>3. CASE a < nextAssociation' /\ ~(a < nextAssociation)
    BY <1>2, <2>3 DEF NewcomerSound
  <2>4. CASE a < nextAssociation
    <3>1. PICK row : row = segment'[a][c]
      OBVIOUS
    <3>2. row \in SegmentType
      BY <1>1, <3>1 DEF BooksInv, SegmentsInv
    <3>3. CASE c < nextCycle
      <4>1. RowSound(a, c, row)
        BY <2>4, <3>1 DEF RowsGo, MeterInv, SegmentsSound
      <4>2. RowSound(a, c, row)'
        BY <1>1, <1>3, <2>4, <3>2, <3>3, <4>1, RowStaysSound
      <4> QED BY <3>1, <4>2
    <3>4. CASE ~(c < nextCycle)
      <4>1. row = NoSegment
        BY <1>1, <2>4, <3>1, <3>4 DEF RowsGo, WeeksInv
      <4>2. RowSound(a, c, NoSegment)'
        BY EmptyRowSound
      <4> QED BY <3>1, <4>1, <4>2
    <3> QED BY <3>3, <3>4
  <2> QED BY <2>2, <2>3, <2>4
<1> QED BY <1>4, <1>5, <1>6 DEF MeterInv

-----------------------------------------------------------------------------
(* Steps that read nothing new.                                            *)

NothingRead == \A a \in AssociationIds, t, x \in Nat : Read(a, t, x)' => Read(a, t, x)

\* An association goes on, or ends now.
GoesOnOrEnds(a) ==
  /\ PersonStays(a)
  /\ \/ association'[a].ended = association[a].ended
     \/ association[a].ended = None /\ association'[a].ended = now

LEMMA TimeGoes ==
  ASSUME BooksInv, ClockInv, ClockInv', BooksInv', total' = total, spent' = spent,
         now' \in {now, now + 2}, NothingRead,
         \A a \in AssociationIds : a < nextAssociation => GoesOnOrEnds(a)
  PROVE  MeterGoes
<1> SUFFICES ASSUME NEW a \in AssociationIds, a < nextAssociation
             PROVE  PersonStays(a) /\ ReadsGo(a) /\ WeekGoes(a) /\ UseGoes(a)
  BY DEF MeterGoes
<1>1. GoesOnOrEnds(a)
  OBVIOUS
<1>2. now \in Nat /\ now' \in Nat /\ now <= now'
  BY Numbers
<1>3. WeekOf(now) <= WeekOf(now') /\ WeekOf(now) \in Nat /\ WeekOf(now') \in Nat
  BY <1>2, WeekGrows, WeekBegins
<1>4. association[a].ended \in Nat \cup {None}
  BY Person
<1>5. When(a)' = When(a) \/ (When(a) = now /\ When(a)' = now')
  BY <1>1, <1>2, <1>4, NoneAssumption DEF GoesOnOrEnds, When
<1>6. WeekOf(When(a))' = WeekOf(When(a)) \/ WeekOf(When(a))' > WeekOf(now)
  <2>1. CASE When(a)' = When(a)
    BY <2>1 DEF WeekOf
  <2>2. CASE When(a) = now /\ When(a)' = now'
    <3>1. WeekOf(When(a))' = WeekOf(now') /\ WeekOf(When(a)) = WeekOf(now)
      BY <2>2 DEF WeekOf
    <3> QED BY <1>3, <3>1
  <2> QED BY <1>5, <2>1, <2>2
<1>7. WeekGoes(a)
  BY <1>6 DEF WeekGoes, NothingRead
<1>8. UseGoes(a)
  <2>1. \A w \in Weeks : spent[a][w] \in Nat /\ spent'[a][w] = spent[a][w]
    BY DEF ClockInv
  <2>2. TotalOf(a) \in Nat /\ Spending(a) \in Nat
    BY Person, WhenTyped
  <2>3. WeekOf(When(a))' = WeekOf(When(a)) => Spending(a)' = Spending(a)
    BY DEF Spending
  <2>4. total'[association[a].device] = TotalOf(a)
    BY DEF TotalOf
  <2> QED BY <2>1, <2>2, <2>3, <2>4 DEF UseGoes
<1> QED BY <1>1, <1>7, <1>8 DEF NothingRead, ReadsGo, GoesOnOrEnds

\* Requests in flight are those of before.
NothingAsked ==
  \A p \in Runners : runner'[p].step = "request" =>
    /\ runner[p].step = "request" /\ runner'[p].assoc = runner[p].assoc
    /\ runner'[p].claimed = runner[p].claimed

LEMMA FlightStays ==
  ASSUME FlightInv, NothingRead, NothingAsked,
         \A p \in Runners, a \in AssociationIds :
           runner[p].step = "request" /\ a = runner[p].assoc =>
             \A b \in Successors(a)' :
               b \in Successors(a) /\ association'[b].started = association[b].started
  PROVE  FlightInv'
<1> SUFFICES ASSUME NEW p \in Runners, runner'[p].step = "request"
             PROVE  /\ \A a \in AssociationIds, t, x \in Nat :
                         Read(a, t, x)' => t <= runner'[p].claimed
                    /\ \A a \in AssociationIds : a = runner'[p].assoc =>
                         \A b \in Successors(a)' : association'[b].started <= runner'[p].claimed
  BY DEF FlightInv
<1>1. /\ runner[p].step = "request" /\ runner'[p].assoc = runner[p].assoc
      /\ runner'[p].claimed = runner[p].claimed
  BY DEF NothingAsked
<1>2. ASSUME NEW a \in AssociationIds, NEW t \in Nat, NEW x \in Nat, Read(a, t, x)'
      PROVE  t <= runner'[p].claimed
  BY <1>1, <1>2 DEF FlightInv, NothingRead
<1>3. ASSUME NEW a \in AssociationIds, a = runner'[p].assoc, NEW b \in Successors(a)'
      PROVE  association'[b].started <= runner'[p].claimed
  BY <1>1, <1>3 DEF FlightInv
<1> QED BY <1>2, <1>3

LEMMA WeeksStay ==
  ASSUME LedgerInv', WeeksInv, RowsGo, UNCHANGED <<nextCycle, nextAssociation>>,
         \A c \in CycleIds :
           IF c < nextCycle THEN /\ cycle'[c].started = cycle[c].started
                                 /\ cycle'[c].reset = cycle[c].reset
           ELSE cycle'[c] = cycle[c]
  PROVE  WeeksInv'
<1> SUFFICES ASSUME NEW c \in CycleIds
             PROVE  IF c < nextCycle
                    THEN /\ cycle'[c].started = Week * WeekOf(cycle'[c].started)
                         /\ cycle'[c].reset = cycle'[c].started + Week
                    ELSE /\ cycle'[c].status = "NONE"
                         /\ \A a \in AssociationIds : segment'[a][c] = NoSegment
  BY DEF WeeksInv, WeekOf
<1>1. CASE c < nextCycle
  BY <1>1 DEF WeeksInv
<1>2. CASE ~(c < nextCycle)
  <2>1. ASSUME NEW a \in AssociationIds
        PROVE  segment'[a][c] = NoSegment
    <3>1. CASE a < nextAssociation
      BY <1>2, <3>1 DEF RowsGo, WeeksInv
    <3>2. CASE ~(a < nextAssociation)
      <4>1. /\ a \in Nat /\ nextAssociation' \in Nat /\ BooksInv'
        BY BoundsTyped DEF AssociationIds, LedgerInv, BooksInv, PeopleInv
      <4> QED BY <3>2, <4>1 DEF BooksInv, SegmentsInv
    <3> QED BY <3>1, <3>2
  <2> QED BY <1>2, <2>1 DEF WeeksInv
<1> QED BY <1>1, <1>2

LEMMA QuietKeeps ==
  ASSUME LedgerInv, LedgerInv', Grows, MeterInv,
         UNCHANGED <<now, total, spent, people, cycle, nextCycle>>,
         RowsGo, NothingRead, NothingAsked
  PROVE  MeterInv'
<1>1. BooksInv /\ BooksInv' /\ ClockInv /\ WeeksInv /\ FlightInv
  BY DEF LedgerInv, MeterInv
<1>2. association' = association /\ nextAssociation' = nextAssociation
  BY DEF people
<1>3. ClockInv'
  BY <1>1, <1>2 DEF ClockInv
<1>4. \A a \in AssociationIds : GoesOnOrEnds(a)
  BY <1>2 DEF GoesOnOrEnds, PersonStays
<1>5. MeterGoes
  BY <1>1, <1>3, <1>4, TimeGoes
<1>6. FlightInv'
  <2>1. \A a \in AssociationIds : Successors(a)' = Successors(a)
    BY <1>2 DEF Successors, Has, Made
  <2> QED BY <1>1, <1>2, <2>1, FlightStays
<1>7. WeeksInv'
  BY <1>1, <1>2, WeeksStay
<1>8. NewcomerSound
  <2>1. nextAssociation \in Nat /\ AssociationIds \subseteq Nat
    BY <1>1, Numbers
  <2> QED BY <1>2, <2>1 DEF NewcomerSound
<1> QED BY <1>3, <1>5, <1>6, <1>7, <1>8, MeterKeeps

-----------------------------------------------------------------------------
(* Steps that read nothing, ask nothing or only let time pass.             *)

LEMMA NoNewcomer ==
  ASSUME BooksInv, nextAssociation' = nextAssociation
  PROVE  NewcomerSound
<1>1. nextAssociation \in Nat /\ AssociationIds \subseteq Nat
  BY Numbers
<1> QED BY <1>1 DEF NewcomerSound

LEMMA ClockMoves ==
  ASSUME BooksInv, ClockInv, spent' = spent, nextAssociation' = nextAssociation,
         (now' = now /\ association' = association) \/ (now' = now + 2 /\ now + 2 <= LastTime),
         \A a \in AssociationIds : a < nextAssociation => GoesOnOrEnds(a)
  PROVE  ClockInv'
<1>1. now \in Nat /\ now % 2 = 1 /\ now <= LastTime
  BY Numbers DEF ClockInv
<1>2. now' <= LastTime /\ now' % 2 = 1
  <2>1. (now + 2) % 2 = 1
    BY <1>1
  <2> QED BY <1>1, <2>1
<1>3. ASSUME NEW a \in AssociationIds, a < nextAssociation'
      PROVE  /\ association'[a].user # None /\ association'[a].started < now'
             /\ association'[a].ended # None =>
                  association'[a].ended < now' /\ association'[a].ended % 2 = 1
  <2>1. /\ a < nextAssociation /\ association[a].user # None /\ association[a].started < now
        /\ association[a].ended # None => association[a].ended < now /\ association[a].ended % 2 = 1
    BY <1>3 DEF ClockInv
  <2>2. association[a].started \in Nat /\ association[a].ended \in Nat \cup {None}
    BY <2>1, Person
  <2>3. CASE now' = now /\ association' = association
    BY <2>1, <2>3
  <2>4. CASE now' = now + 2
    <3>1. GoesOnOrEnds(a)
      BY <2>1
    <3>2. association'[a].started = association[a].started /\ association'[a].user = association[a].user
      BY <3>1 DEF GoesOnOrEnds, PersonStays
    <3>3. association'[a].ended = association[a].ended \/ association'[a].ended = now
      BY <3>1 DEF GoesOnOrEnds
    <3> QED BY <1>1, <2>1, <2>2, <2>4, <3>2, <3>3
  <2> QED BY <2>3, <2>4
<1> QED BY <1>2, <1>3 DEF ClockInv

LEMMA TimeKeeps ==
  ASSUME LedgerInv, LedgerInv', Grows, MeterInv, total' = total, spent' = spent,
         nextAssociation' = nextAssociation,
         (now' = now /\ association' = association) \/ (now' = now + 2 /\ now + 2 <= LastTime),
         \A a \in AssociationIds : a < nextAssociation => GoesOnOrEnds(a),
         NothingRead, RowsGo, WeeksInv', FlightInv'
  PROVE  MeterInv'
<1>1. BooksInv /\ BooksInv' /\ ClockInv
  BY DEF LedgerInv, MeterInv
<1>2. ClockInv'
  BY <1>1, ClockMoves
<1>3. MeterGoes
  BY <1>1, <1>2, TimeGoes
<1>4. NewcomerSound
  BY <1>1, NoNewcomer
<1> QED BY <1>2, <1>3, <1>4, MeterKeeps

SamplesStay ==
  \A a \in AssociationIds, s \in Sequences : /\ job'[a][s].sampled = job[a][s].sampled
                                             /\ job'[a][s].total = job[a][s].total

\* A runner that asks or has an answer did so before.
RunnerWaits(p) ==
  runner'[p].step \in {"request", "save"} =>
    /\ runner'[p].step = runner[p].step /\ runner'[p].assoc = runner[p].assoc
    /\ runner'[p].claimed = runner[p].claimed /\ runner'[p].total = runner[p].total

LEMMA ReadsNothing ==
  ASSUME SamplesStay, \A p \in Runners : RunnerWaits(p)
  PROVE  NothingRead /\ NothingAsked
<1>1. ASSUME NEW a \in AssociationIds, NEW t \in Nat, NEW x \in Nat, Read(a, t, x)'
      PROVE  Read(a, t, x)
  <2>1. ASSUME NEW s \in Sequences, job'[a][s].sampled = t, job'[a][s].total = x
        PROVE  Read(a, t, x)
    BY <2>1 DEF SamplesStay, Read
  <2>2. ASSUME NEW p \in Runners, runner'[p].step = "save", runner'[p].assoc = a,
               runner'[p].claimed = t, runner'[p].total = x
        PROVE  Read(a, t, x)
    BY <2>2 DEF RunnerWaits, Read
  <2> QED BY <1>1, <2>1, <2>2 DEF Read
<1>2. NothingAsked
  BY DEF RunnerWaits, NothingAsked
<1> QED BY <1>1, <1>2 DEF NothingRead

LEMMA NoRows ==
  ASSUME segment' = segment
  PROVE  RowsGo
BY DEF RowsGo

LEMMA MoverWaits ==
  ASSUME NEW p \in Runners, runner'[p].step \notin {"request", "save"},
         \A q \in Runners : q # p => runner'[q] = runner[q]
  PROVE  \A q \in Runners : RunnerWaits(q)
BY DEF RunnerWaits

\* Jobs are enqueued, claimed, settled; runners plan, fail and give up.
LEMMA JobsAndRunners ==
  ASSUME LedgerInv, LedgerInv', Grows, MeterInv,
         UNCHANGED <<now, total, spent, people, cycle, nextCycle, segment>>,
         SamplesStay, \A p \in Runners : RunnerWaits(p)
  PROVE  MeterInv'
BY NoRows, ReadsNothing, QuietKeeps

LEMMA PassKeepsMeter ==
  ASSUME LedgerInv, LedgerInv', Grows, MeterInv, Pass
  PROVE  MeterInv'
<1>1. /\ now' = now + 2 /\ now + 2 <= LastTime /\ total' = total /\ spent' = spent
      /\ association' = association /\ nextAssociation' = nextAssociation
      /\ cycle' = cycle /\ nextCycle' = nextCycle /\ segment' = segment /\ job' = job
      /\ runner' = runner
  BY DEF Pass, TimePasses, world, people, rounds, books
<1>2. NothingRead /\ NothingAsked /\ RowsGo
  BY <1>1, ReadsNothing, NoRows DEF SamplesStay, RunnerWaits
<1>3. WeeksInv'
  BY <1>1, <1>2, WeeksStay DEF MeterInv
<1>4. \A a \in AssociationIds : GoesOnOrEnds(a) /\ Successors(a)' = Successors(a)
  BY <1>1 DEF GoesOnOrEnds, PersonStays, Successors, Has, Made
<1>5. FlightInv'
  BY <1>1, <1>2, <1>4, FlightStays DEF MeterInv
<1> QED BY <1>1, <1>2, <1>3, <1>4, <1>5, TimeKeeps

LEMMA EndKeepsMeter ==
  ASSUME LedgerInv, LedgerInv', Grows, MeterInv, NEW a \in AssociationIds, End(a)
  PROVE  MeterInv'
<1>1. /\ now' = now + 2 /\ now + 2 <= LastTime /\ total' = total /\ spent' = spent
      /\ nextAssociation' = nextAssociation
      /\ cycle' = cycle /\ nextCycle' = nextCycle /\ segment' = segment /\ job' = job
      /\ runner' = runner
  BY DEF End, TimePasses, world, rounds, books
<1>2. NothingRead /\ NothingAsked /\ RowsGo
  BY <1>1, ReadsNothing, NoRows DEF SamplesStay, RunnerWaits
<1>3. WeeksInv'
  BY <1>1, <1>2, WeeksStay DEF MeterInv
<1>4. \A b \in AssociationIds : GoesOnOrEnds(b)
  <2>1. association[a].ended = None /\ association' = [association EXCEPT ![a].ended = now]
    BY DEF End, Held
  <2>2. association \in [AssociationIds -> PersonType]
    BY DEF LedgerInv, BooksInv, PeopleInv
  <2>3. association[a] \in PersonType /\ association'[a] = [association[a] EXCEPT !.ended = now]
    BY <2>1, <2>2
  <2>4. GoesOnOrEnds(a)
    BY <2>1, <2>3 DEF GoesOnOrEnds, PersonStays, PersonType
  <2>5. \A b \in AssociationIds : b # a => association'[b] = association[b]
    BY <2>1, <2>2
  <2> QED BY <2>4, <2>5 DEF GoesOnOrEnds, PersonStays
<1>5. \A b \in AssociationIds : /\ association'[b].started = association[b].started
                                /\ Successors(b)' = Successors(b)
  BY <1>4 DEF GoesOnOrEnds, PersonStays, Successors, Has, Made
<1>6. FlightInv'
  BY <1>2, <1>5, FlightStays DEF MeterInv, Successors
<1> QED BY <1>1, <1>2, <1>3, <1>4, <1>6, TimeKeeps

LEMMA EvidenceKeepsMeter ==
  ASSUME LedgerInv, LedgerInv', Grows, MeterInv, NEW status, SyncCurrent(status)
  PROVE  MeterInv'
<1>1. /\ now' = now /\ total' = total /\ spent' = spent
      /\ association' = association /\ nextAssociation' = nextAssociation
      /\ nextCycle' = nextCycle /\ segment' = segment /\ job' = job /\ runner' = runner
  BY DEF SyncCurrent, world, people, books
<1>2. NothingRead /\ NothingAsked /\ RowsGo
  BY <1>1, ReadsNothing, NoRows DEF SamplesStay, RunnerWaits
<1>3. WeeksInv'
  <2>1. cycle' = [cycle EXCEPT ![Latest].status = status] /\ Latest = nextCycle - 1
    BY DEF SyncCurrent, Latest
  <2>2. cycle \in [CycleIds -> RoundType] /\ nextCycle \in Nat /\ CycleIds \subseteq Nat
    BY BoundsTyped DEF LedgerInv, BooksInv, RoundsInv, CycleIds
  <2>3. ASSUME NEW c \in CycleIds
        PROVE  IF c < nextCycle THEN /\ cycle'[c].started = cycle[c].started
                                     /\ cycle'[c].reset = cycle[c].reset
               ELSE cycle'[c] = cycle[c]
    <3>1. CASE c = Latest
      <4>1. cycle'[c] = [cycle[c] EXCEPT !.status = status] /\ cycle[c] \in RoundType
        BY <2>1, <2>2, <3>1
      <4>2. cycle'[c].started = cycle[c].started /\ cycle'[c].reset = cycle[c].reset
        BY <4>1 DEF RoundType
      <4>3. c < nextCycle
        BY <2>1, <2>2, <3>1
      <4> QED BY <4>2, <4>3
    <3>2. CASE c # Latest
      BY <2>1, <2>2, <3>2
    <3> QED BY <3>1, <3>2
  <2> QED BY <1>1, <1>2, <2>3, WeeksStay DEF MeterInv
<1>4. \A a \in AssociationIds : GoesOnOrEnds(a) /\ Successors(a)' = Successors(a)
  BY <1>1 DEF GoesOnOrEnds, PersonStays, Successors, Has, Made
<1>5. FlightInv'
  BY <1>1, <1>2, <1>4, FlightStays DEF MeterInv
<1> QED BY <1>1, <1>2, <1>3, <1>4, <1>5, TimeKeeps

-----------------------------------------------------------------------------
(* Jobs that are scheduled and settled, runners that plan and give up.     *)

LEMMA PhaseOnly ==
  ASSUME BooksInv, NEW a \in AssociationIds, NEW s \in Sequences, NEW phase,
         job' = [job EXCEPT ![a][s].phase = phase]
  PROVE  SamplesStay
<1>1. job \in [AssociationIds -> [Sequences -> JobType]]
  BY DEF BooksInv, JobsInv
<1>2. \A b \in AssociationIds, q \in Sequences : job[b][q] \in JobType
  BY <1>1
<1>3. job[a] \in [Sequences -> JobType]
  BY <1>1
<1>4. job' = [job EXCEPT ![a] = [job[a] EXCEPT ![s] = [job[a][s] EXCEPT !.phase = phase]]]
  OBVIOUS
<1>5. job'[a] = [job[a] EXCEPT ![s] = [job[a][s] EXCEPT !.phase = phase]]
  BY <1>1, <1>4
<1>6. job'[a][s] = [job[a][s] EXCEPT !.phase = phase]
  BY <1>3, <1>5
<1>7. job'[a][s].sampled = job[a][s].sampled /\ job'[a][s].total = job[a][s].total
  BY <1>2, <1>6 DEF JobType
<1>8. \A q \in Sequences : q # s => job'[a][q] = job[a][q]
  BY <1>3, <1>5
<1>9. \A b \in AssociationIds : b # a => job'[b] = job[b]
  BY <1>1, <1>4
<1> QED BY <1>7, <1>8, <1>9 DEF SamplesStay

LEMMA SchedulingKeepsMeter ==
  ASSUME LedgerInv, LedgerInv', Grows, MeterInv, NEW a \in AssociationIds,
         \/ after_authorized(a) \/ before_revoke(a) \/ schedule_after_revoke(a)
         \/ TickRead(a) \/ BecomesDue(a)
         \/ \E s \in Sequences : TickEnqueue(a, s)
  PROVE  MeterInv'
<1>1. UNCHANGED <<now, total, spent, people, cycle, nextCycle, segment>> /\ runner' = runner
  BY DEF after_authorized, before_revoke, schedule_after_revoke, TickRead, BecomesDue,
         TickEnqueue, world, rounds, books
<1>2. BooksInv
  BY DEF LedgerInv
<1>3. ASSUME NEW s \in Sequences, NEW phase, Enqueue(a, s, phase)
      PROVE  SamplesStay
  <2>1. CASE job' = job
    BY <2>1 DEF SamplesStay
  <2>2. CASE job' = [job EXCEPT ![a][s].phase = phase]
    BY <1>2, <2>2, PhaseOnly
  <2> QED BY <1>3, <2>1, <2>2 DEF Enqueue
<1>4. SamplesStay
  <2>1. CASE after_authorized(a) \/ before_revoke(a) \/ schedule_after_revoke(a)
    BY <1>3, <2>1, JobSequences DEF after_authorized, before_revoke, schedule_after_revoke
  <2>2. CASE TickRead(a)
    BY <2>2 DEF TickRead, SamplesStay
  <2>3. CASE BecomesDue(a)
    BY <1>2, <2>3, PhaseOnly, JobSequences DEF BecomesDue
  <2>4. CASE \E s \in Sequences : TickEnqueue(a, s)
    BY <1>3, <2>4 DEF TickEnqueue
  <2> QED BY <2>1, <2>2, <2>3, <2>4
<1>5. \A p \in Runners : RunnerWaits(p)
  BY <1>1 DEF RunnerWaits
<1> QED BY <1>1, <1>4, <1>5, JobsAndRunners

LEMMA ClaimKeepsMeter ==
  ASSUME LedgerInv, LedgerInv', Grows, MeterInv, NEW p \in Runners, NEW a \in AssociationIds,
         NEW s \in Sequences, Claim(p, a, s)
  PROVE  MeterInv'
<1>1. UNCHANGED <<now, total, spent, people, cycle, nextCycle, segment>>
  BY DEF Claim, world, rounds, books
<1>2. SamplesStay
  BY PhaseOnly DEF Claim, LedgerInv
<1>3. runner \in [Runners -> RunnerType]
  BY DEF LedgerInv, RunnersInv
<1>4. ASSUME NEW q \in Runners
      PROVE  RunnerWaits(q)
  <2>1. CASE q = p
    <3>1. runner'[q].step = "plan"
      BY <2>1 DEF Claim, Idle
    <3> QED BY <3>1 DEF RunnerWaits
  <2>2. CASE q # p
    <3>1. runner'[q] = runner[q] \/ runner'[q] = [runner[q] EXCEPT !.latest = FALSE]
      BY <2>2 DEF Claim
    <3>2. runner[q] \in RunnerType
      BY <1>3
    <3> QED BY <3>1, <3>2 DEF RunnerWaits, RunnerType
  <2> QED BY <2>1, <2>2
<1> QED BY <1>1, <1>2, <1>4, JobsAndRunners

LEMMA SettleWaits ==
  ASSUME LedgerInv, NEW p \in Runners, NEW step, step \notin {"request", "save"},
         Settle(p, step)
  PROVE  \A q \in Runners : RunnerWaits(q)
<1>1. runner \in [Runners -> RunnerType]
  BY DEF LedgerInv, RunnersInv
<1>2. runner'[p].step = step
  BY <1>1 DEF Settle, Idle
<1>3. \A q \in Runners : q # p => runner'[q] = runner[q]
  BY <1>1 DEF Settle
<1> QED BY <1>2, <1>3, MoverWaits

LEMMA PlanAsWaits ==
  ASSUME LedgerInv, NEW p \in Runners, NEW ended, NEW cutoff, NEW next,
         next \notin {"request", "save"}, PlanAs(p, ended, cutoff, next)
  PROVE  \A q \in Runners : RunnerWaits(q)
<1>1. runner \in [Runners -> RunnerType]
  BY DEF LedgerInv, RunnersInv
<1>2. CASE Settle(p, "retry")
  BY <1>2, SettleWaits
<1>3. ASSUME NEW plan, NEW unresolved, NEW end,
             runner' = [runner EXCEPT ![p].plan = plan, ![p].todo = plan, ![p].step = next,
                          ![p].unresolved = unresolved, ![p].claimed = 0, ![p].ended = end]
      PROVE  \A q \in Runners : RunnerWaits(q)
  <2>1. \A q \in Runners : q # p => runner'[q] = runner[q]
    BY <1>1, <1>3
  <2>2. runner'[p].step = next
    BY <1>1, <1>3 DEF RunnerType
  <2> QED BY <2>1, <2>2, MoverWaits
<1>4. PICK overlapping : overlapping = Planned(runner[p].assoc, ended, cutoff)
  OBVIOUS
<1>5. PICK usable : usable = {c \in overlapping : cycle[c].status \in Usable}
  OBVIOUS
<1>6. PICK end : end = IF next = "ensure" THEN ended ELSE None
  OBVIOUS
<1>7. \/ Settle(p, "retry")
      \/ runner' = [runner EXCEPT ![p].plan = usable, ![p].todo = usable, ![p].step = next,
                      ![p].unresolved = (usable # overlapping), ![p].claimed = 0, ![p].ended = end]
  BY <1>4, <1>5, <1>6 DEF PlanAs
<1> QED BY <1>2, <1>3, <1>7

LEMMA AdvanceWaits ==
  ASSUME LedgerInv, NEW p \in Runners, NEW next, {runner[p].step, next} \cap {"request", "save"} = {},
         Advance(p, next)
  PROVE  \A q \in Runners : RunnerWaits(q)
<1>1. runner \in [Runners -> RunnerType]
  BY DEF LedgerInv, RunnersInv
<1>2. CASE Settle(p, "retry") \/ Settle(p, "finish")
  BY <1>2, SettleWaits
<1>3. ASSUME NEW todo, runner' = [runner EXCEPT ![p].todo = todo]
      PROVE  \A q \in Runners : RunnerWaits(q)
  <2>1. \A q \in Runners : q # p => runner'[q] = runner[q]
    BY <1>1, <1>3
  <2>2. runner'[p].step = runner[p].step
    BY <1>1, <1>3 DEF RunnerType
  <2> QED BY <2>1, <2>2, MoverWaits
<1>4. ASSUME NEW todo, NEW step, step \notin {"request", "save"},
             runner' = [runner EXCEPT ![p].step = step, ![p].todo = todo, ![p].plan = {}]
      PROVE  \A q \in Runners : RunnerWaits(q)
  <2>1. \A q \in Runners : q # p => runner'[q] = runner[q]
    BY <1>1, <1>4
  <2>2. runner'[p].step = step
    BY <1>1, <1>4 DEF RunnerType
  <2> QED BY <1>4, <2>1, <2>2, MoverWaits
<1> QED BY <1>2, <1>3, <1>4 DEF Advance

LEMMA PlanKeepsMeter ==
  ASSUME LedgerInv, LedgerInv', Grows, MeterInv, NEW p \in Runners, Plan(p) \/ PlanSample(p)
  PROVE  MeterInv'
<1>1. UNCHANGED <<now, total, spent, people, cycle, nextCycle, segment>> /\ job' = job
  BY DEF Plan, PlanSample, world, rounds, books
<1>2. \A q \in Runners : RunnerWaits(q)
  BY PlanAsWaits DEF Plan, PlanSample
<1> QED BY <1>1, <1>2, JobsAndRunners DEF SamplesStay

LEMMA CompletionKeepsMeter ==
  ASSUME LedgerInv, LedgerInv', Grows, MeterInv, NEW p \in Runners, Finish(p) \/ Retry(p)
  PROVE  MeterInv'
<1>1. UNCHANGED <<now, total, spent, people, cycle, nextCycle, segment>>
  BY DEF Finish, Retry, world, rounds, books
<1>2. runner' = [runner EXCEPT ![p] = Idle] /\ runner \in [Runners -> RunnerType]
  BY DEF Finish, Retry, LedgerInv, RunnersInv
<1>3. \A q \in Runners : RunnerWaits(q)
  BY <1>2, MoverWaits DEF Idle
<1>4. PICK a \in AssociationIds, s \in Sequences : a = runner[p].assoc /\ s = runner[p].seq
  BY Place DEF Finish, Retry
<1>5. \/ job' = job \/ job' = [job EXCEPT ![a][s].phase = "completed"]
      \/ job' = [job EXCEPT ![a][s].phase = "due"]
  BY <1>4 DEF Finish, Retry
<1>6. SamplesStay
  <2>1. CASE job' = job
    BY <2>1 DEF SamplesStay
  <2> QED BY <1>5, <2>1, PhaseOnly DEF LedgerInv
<1> QED BY <1>1, <1>3, <1>6, JobsAndRunners

LEMMA FaultKeepsMeter ==
  ASSUME LedgerInv, LedgerInv', Grows, MeterInv,
         (\E p \in Runners : Fails(p) \/ Cancel(p)) \/ Restart \/ UNCHANGED vars
  PROVE  MeterInv'
<1>1. UNCHANGED <<now, total, spent, people, cycle, nextCycle, segment>> /\ job' = job
  BY DEF Fails, Cancel, Restart, vars, world, rounds, books
<1>2. \A q \in Runners : RunnerWaits(q)
  <2>1. runner \in [Runners -> RunnerType]
    BY DEF LedgerInv, RunnersInv
  <2>2. ASSUME NEW p \in Runners, Fails(p)
        PROVE  \A q \in Runners : RunnerWaits(q)
    BY <2>2, SettleWaits DEF Fails
  <2>3. ASSUME NEW p \in Runners, Cancel(p)
        PROVE  \A q \in Runners : RunnerWaits(q)
    <3>1. runner' = [runner EXCEPT ![p] = Idle]
      BY <2>3 DEF Cancel
    <3> QED BY <2>1, <3>1, MoverWaits DEF Idle
  <2>4. CASE Restart
    BY <2>4 DEF Restart, Idle, RunnerWaits
  <2>5. CASE UNCHANGED vars
    BY <2>5 DEF vars, RunnerWaits
  <2> QED BY <2>2, <2>3, <2>4, <2>5
<1> QED BY <1>1, <1>2, JobsAndRunners DEF SamplesStay

-----------------------------------------------------------------------------
(* Requests for a total, their answers, and what is saved of them.         *)

LEMMA CollectKeepsMeter ==
  ASSUME LedgerInv, LedgerInv', Grows, MeterInv, NEW p \in Runners, Collect(p)
  PROVE  MeterInv'
<1>1. PICK a \in AssociationIds, s \in Sequences : a = runner[p].assoc /\ s = runner[p].seq
  BY Place DEF Collect
<1>2. /\ total' = total /\ spent' = spent /\ association' = association
      /\ nextAssociation' = nextAssociation /\ cycle' = cycle /\ nextCycle' = nextCycle
      /\ segment' = segment /\ job' = job
  BY DEF Collect, world, people, rounds, books
<1>3. runner \in [Runners -> RunnerType] /\ runner[p] \in RunnerType /\ BooksInv
  BY DEF LedgerInv, RunnersInv
<1>4. CASE job[a][s].sampled # None
  <2>1. now' = now /\ runner' = [runner EXCEPT ![p].step = "planSample"]
    BY <1>1, <1>4 DEF Collect, Goto
  <2>2. runner'[p].step = "planSample" /\ \A q \in Runners : q # p => runner'[q] = runner[q]
    BY <1>3, <2>1 DEF RunnerType
  <2>3. \A q \in Runners : RunnerWaits(q)
    BY <2>2, MoverWaits
  <2> QED BY <1>2, <2>1, <2>3, JobsAndRunners DEF SamplesStay, people
<1>5. CASE job[a][s].sampled = None
  <2>1. /\ now' = now + 2 /\ now + 2 <= LastTime
        /\ runner' = [runner EXCEPT ![p].step = "request", ![p].claimed = now]
    BY <1>1, <1>5 DEF Collect, TimePasses
  <2>2. /\ runner'[p].step = "request" /\ runner'[p].claimed = now /\ runner'[p].assoc = a
        /\ \A q \in Runners : q # p => runner'[q] = runner[q]
    BY <1>1, <1>3, <2>1 DEF RunnerType
  <2>3. ASSUME NEW b \in AssociationIds, NEW t \in Nat, NEW x \in Nat, Read(b, t, x)'
        PROVE  Read(b, t, x)
    <3>1. ASSUME NEW q \in Runners, runner'[q].step = "save"
          PROVE  runner'[q] = runner[q]
      BY <2>2, <3>1
    <3> QED BY <1>2, <2>3, <3>1 DEF Read
  <2>4. NothingRead
    BY <2>3 DEF NothingRead
  <2>5. RowsGo
    BY <1>2, NoRows
  <2>6. WeeksInv'
    BY <1>2, <2>5, WeeksStay DEF MeterInv
  <2>7. \A b \in AssociationIds : GoesOnOrEnds(b) /\ Successors(b)' = Successors(b)
    BY <1>2 DEF GoesOnOrEnds, PersonStays, Successors, Has, Made
  <2>8. FlightInv'
    <3>1. SUFFICES ASSUME NEW q \in Runners, runner'[q].step = "request"
                   PROVE  /\ \A b \in AssociationIds, t, x \in Nat :
                               Read(b, t, x)' => t <= runner'[q].claimed
                          /\ \A b \in AssociationIds : b = runner'[q].assoc =>
                               \A e \in Successors(b)' : association'[e].started <= runner'[q].claimed
      BY DEF FlightInv
    <3>2. CASE q # p
      <4>1. runner'[q] = runner[q]
        BY <2>2, <3>2
      <4> QED BY <1>2, <2>3, <2>7, <3>1, <4>1 DEF MeterInv, FlightInv
    <3>3. CASE q = p
      <4>1. now \in Nat /\ runner'[q].claimed = now
        BY <1>3, <2>2, <3>3, Numbers
      <4>2. ASSUME NEW b \in AssociationIds, NEW t \in Nat, NEW x \in Nat, Read(b, t, x)'
            PROVE  t <= now
        <5>1. t < now
          BY <2>3, <4>2, ReadPast
        <5> QED BY <4>1, <5>1
      <4>3. ASSUME NEW b \in AssociationIds, NEW e \in Successors(b)
            PROVE  association[e].started <= now
        <5>1. e \in AssociationIds /\ e < nextAssociation
          BY <1>3, Exists DEF Successors, Has, Made
        <5>2. association[e].started < now /\ association[e].started \in Nat
          BY <1>3, <5>1, Person DEF MeterInv, ClockInv
        <5> QED BY <4>1, <5>2
      <4> QED BY <1>2, <2>7, <4>1, <4>2, <4>3
    <3> QED BY <3>2, <3>3
  <2> QED BY <1>2, <2>1, <2>4, <2>5, <2>6, <2>7, <2>8, TimeKeeps
<1> QED BY <1>4, <1>5

LEMMA AnswerKeepsMeter ==
  ASSUME LedgerInv, LedgerInv', Grows, MeterInv, NEW p \in Runners, Answer(p)
  PROVE  MeterInv'
<1>1. PICK a \in AssociationIds : a = runner[p].assoc /\ a < nextAssociation
  BY Place DEF Answer
<1>2. /\ now' = now /\ total' = total /\ spent' = spent /\ association' = association
      /\ nextAssociation' = nextAssociation /\ cycle' = cycle /\ nextCycle' = nextCycle
      /\ segment' = segment /\ job' = job
  BY DEF Answer, world, people, rounds, books
<1>3. /\ runner \in [Runners -> RunnerType] /\ runner[p] \in RunnerType /\ Placed(p)
      /\ BooksInv /\ ClockInv /\ WeeksInv /\ FlightInv
  BY DEF LedgerInv, RunnersInv, MeterInv
<1>4. PICK at \in Nat : at = runner[p].claimed /\ at < now
  BY <1>3 DEF RunnerType, Placed, Answer
<1>5. PICK amount \in Nat : amount = TotalOf(a)
  BY <1>1, <1>3, Person
<1>6. /\ runner'[p].step = "save" /\ runner'[p].assoc = a /\ runner'[p].claimed = at
      /\ runner'[p].total = amount
      /\ \A q \in Runners : q # p => runner'[q] = runner[q]
  <2>1. runner' = [runner EXCEPT ![p].step = "save", ![p].total = amount]
    BY <1>1, <1>5 DEF Answer, TotalOf
  <2> QED BY <1>1, <1>3, <1>4, <2>1 DEF RunnerType
<1>7. ASSUME NEW b \in AssociationIds, NEW t \in Nat, NEW x \in Nat, Read(b, t, x)'
      PROVE  Read(b, t, x) \/ (b = a /\ t = at /\ x = amount)
  <2>1. ASSUME NEW q \in Runners, runner'[q].step = "save", runner'[q].assoc = b,
               runner'[q].claimed = t, runner'[q].total = x
        PROVE  Read(b, t, x) \/ (b = a /\ t = at /\ x = amount)
    <3>1. CASE q = p
      BY <1>6, <2>1, <3>1
    <3>2. CASE q # p
      <4>1. runner'[q] = runner[q]
        BY <1>6, <3>2
      <4> QED BY <2>1, <4>1 DEF Read
    <3> QED BY <3>1, <3>2
  <2> QED BY <1>2, <1>7, <2>1 DEF Read
<1>8. \A b \in AssociationIds : When(b)' = When(b) /\ Successors(b)' = Successors(b)
  BY <1>2 DEF When, Successors, Has, Made
<1>9. /\ \A b \in AssociationIds, t, x \in Nat : Read(b, t, x) => t <= at
      /\ \A b \in Successors(a) : association[b].started <= at
  BY <1>1, <1>3, <1>4 DEF FlightInv, Answer
<1>10. Answered(a, at, amount)
  <2>1. Alone(a) \/ Superseded(a, at)
    BY <1>9 DEF Alone, Superseded
  <2>2. \A u, y \in Nat : Read(a, u, y)' => u <= at
    BY <1>7, <1>9
  <2> QED BY <1>2, <1>4, <1>5, <1>8, <2>1, <2>2 DEF Answered
<1>11. MeterGoes
  <2>1. SUFFICES ASSUME NEW b \in AssociationIds, b < nextAssociation
                 PROVE  PersonStays(b) /\ ReadsGo(b) /\ WeekGoes(b) /\ UseGoes(b)
    BY DEF MeterGoes
  <2>2. PersonStays(b) /\ WeekGoes(b)
    BY <1>2, <1>8 DEF PersonStays, WeekGoes, WeekOf
  <2>3. ReadsGo(b)
    BY <1>7, <1>10 DEF ReadsGo
  <2>4. UseGoes(b)
    <3>1. \A w \in Weeks : spent[b][w] \in Nat /\ spent'[b][w] = spent[b][w]
      BY <1>2, <1>3 DEF ClockInv
    <3>2. TotalOf(b) \in Nat /\ Spending(b) \in Nat
      BY <1>3, <2>1, Person, WhenTyped
    <3>3. Spending(b)' = Spending(b) /\ total'[association[b].device] = TotalOf(b)
      BY <1>2, <1>8 DEF Spending, TotalOf, WeekOf
    <3> QED BY <3>1, <3>2, <3>3 DEF UseGoes
  <2> QED BY <2>2, <2>3, <2>4
<1>12. ClockInv'
  BY <1>2, <1>3 DEF ClockInv
<1>13. WeeksInv'
  BY <1>2, <1>3 DEF WeeksInv, WeekOf
<1>14. FlightInv'
  <2>1. SUFFICES ASSUME NEW q \in Runners, runner'[q].step = "request"
                 PROVE  /\ \A b \in AssociationIds, t, x \in Nat :
                             Read(b, t, x)' => t <= runner'[q].claimed
                        /\ \A b \in AssociationIds : b = runner'[q].assoc =>
                             \A e \in Successors(b)' : association'[e].started <= runner'[q].claimed
    BY DEF FlightInv
  <2>2. runner'[q] = runner[q]
    BY <1>6, <2>1
  <2>3. at <= runner[q].claimed
    BY <1>4, <2>1, <2>2 DEF Answer
  <2>4. ASSUME NEW b \in AssociationIds, NEW t \in Nat, NEW x \in Nat, Read(b, t, x)'
        PROVE  t <= runner[q].claimed
    <3>1. Read(b, t, x) => t <= runner[q].claimed
      BY <1>3, <2>1, <2>2 DEF FlightInv
    <3> QED BY <1>7, <2>3, <2>4, <3>1
  <2>5. ASSUME NEW b \in AssociationIds, b = runner[q].assoc, NEW e \in Successors(b)
        PROVE  association[e].started <= runner[q].claimed
    BY <1>3, <2>1, <2>2, <2>5 DEF FlightInv
  <2> QED BY <1>2, <1>8, <2>2, <2>4, <2>5
<1> QED BY <1>2, <1>3, <1>11, <1>12, <1>13, <1>14, NoRows, NoNewcomer, MeterKeeps

LEMMA SaveKeepsMeter ==
  ASSUME LedgerInv, LedgerInv', Grows, MeterInv, NEW p \in Runners, Save(p)
  PROVE  MeterInv'
<1>1. PICK a \in AssociationIds, s \in Sequences : a = runner[p].assoc /\ s = runner[p].seq
  BY Place DEF Save
<1>2. UNCHANGED <<now, total, spent, people, cycle, nextCycle, segment>>
  BY DEF Save, world, rounds, books
<1>3. /\ runner \in [Runners -> RunnerType] /\ runner[p] \in RunnerType
      /\ job \in [AssociationIds -> [Sequences -> JobType]]
  BY DEF LedgerInv, RunnersInv, BooksInv, JobsInv
<1>4. runner'[p].step = "planSample" /\ \A q \in Runners : q # p => runner'[q] = runner[q]
  <2>1. runner' = [runner EXCEPT ![p].step = "planSample", ![p].claimed = 0, ![p].total = None]
    BY DEF Save
  <2> QED BY <1>3, <2>1 DEF RunnerType
<1>5. ASSUME NEW b \in AssociationIds, NEW q \in Sequences
      PROVE  \/ job'[b][q].sampled = job[b][q].sampled /\ job'[b][q].total = job[b][q].total
             \/ b = a /\ job'[b][q].sampled = runner[p].claimed /\ job'[b][q].total = runner[p].total
  <2>1. CASE job' = job
    BY <2>1
  <2>2. CASE job' = [job EXCEPT ![a][s].sampled = runner[p].claimed,
                                ![a][s].total = runner[p].total]
    <3>1. job[b] \in [Sequences -> JobType] /\ job[b][q] \in JobType
      BY <1>3
    <3> QED BY <1>3, <2>2, <3>1 DEF JobType
  <2> QED BY <1>1, <2>1, <2>2 DEF Save
<1>6. ASSUME NEW b \in AssociationIds, NEW t \in Nat, NEW x \in Nat, Read(b, t, x)'
      PROVE  Read(b, t, x)
  <2>1. ASSUME NEW q \in Sequences, job'[b][q].sampled = t, job'[b][q].total = x
        PROVE  Read(b, t, x)
    <3>1. CASE job[b][q].sampled = t /\ job[b][q].total = x
      BY <3>1 DEF Read
    <3>2. CASE b = a /\ runner[p].claimed = t /\ runner[p].total = x
      BY <1>1, <3>2 DEF Read, Save
    <3> QED BY <1>5, <2>1, <3>1, <3>2
  <2>2. ASSUME NEW q \in Runners, runner'[q].step = "save", runner'[q].assoc = b,
               runner'[q].claimed = t, runner'[q].total = x
        PROVE  Read(b, t, x)
    <3>1. runner'[q] = runner[q]
      BY <1>4, <2>2
    <3> QED BY <2>2, <3>1 DEF Read
  <2> QED BY <1>6, <2>1, <2>2 DEF Read
<1>7. NothingRead
  BY <1>6 DEF NothingRead
<1>8. NothingAsked
  BY <1>4 DEF NothingAsked
<1>9. RowsGo
  BY <1>2, NoRows
<1> QED BY <1>2, <1>7, <1>8, <1>9, QuietKeeps

-----------------------------------------------------------------------------
(* The platform counts, and rounds follow each other.                      *)

LEMMA WorldKeeps ==
  ASSUME LedgerInv, LedgerInv', Grows, MeterInv,
         UNCHANGED <<now, association, nextAssociation, cycle, nextCycle, segment, job, runner>>,
         spent' \in [AssociationIds -> [Weeks -> Nat]],
         \A a \in AssociationIds : a < nextAssociation => UseGoes(a)
  PROVE  MeterInv'
<1>1. BooksInv /\ ClockInv /\ WeeksInv /\ FlightInv
  BY DEF LedgerInv, MeterInv
<1>2. NothingRead /\ NothingAsked /\ RowsGo
  BY ReadsNothing, NoRows DEF SamplesStay, RunnerWaits
<1>3. MeterGoes
  <2>1. \A a \in AssociationIds : When(a)' = When(a)
    BY DEF When
  <2> QED BY <1>2, <2>1 DEF MeterGoes, PersonStays, ReadsGo, NothingRead, WeekGoes, WeekOf
<1>4. ClockInv'
  BY <1>1 DEF ClockInv
<1>5. WeeksInv'
  BY <1>1 DEF WeeksInv, WeekOf
<1>6. \A a \in AssociationIds : Successors(a)' = Successors(a)
  BY DEF Successors, Has, Made
<1>7. FlightInv'
  BY <1>1, <1>2, <1>6, FlightStays
<1> QED BY <1>1, <1>2, <1>3, <1>4, <1>5, <1>7, NoNewcomer, MeterKeeps

LEMMA ReportKeepsMeter ==
  ASSUME LedgerInv, LedgerInv', Grows, MeterInv, NEW a \in AssociationIds, Report(a)
  PROVE  MeterInv'
<1>1. /\ UNCHANGED <<now, association, nextAssociation, cycle, nextCycle, segment, job, runner>>
      /\ Made(a) /\ Successors(a) = {}
  BY DEF Report, people, rounds, books
<1>2. BooksInv /\ ClockInv
  BY DEF LedgerInv, MeterInv
<1>3. a < nextAssociation
  BY <1>1, <1>2, Exists DEF Made
<1>4. PICK d \in Devices : d = association[a].device
  BY <1>2, <1>3, Person
<1>5. PICK w \in Weeks : w = WeekOf(When(a))
  BY <1>2, <1>3, WhenTyped
<1>6. total' = [total EXCEPT ![d] = @ + 1] /\ spent' = [spent EXCEPT ![a][w] = @ + 1]
  BY <1>1, <1>4, <1>5 DEF Report, When, WeekOf, Held
<1>7. total \in [Devices -> Nat] /\ spent \in [AssociationIds -> [Weeks -> Nat]]
  BY <1>2 DEF BooksInv, SegmentsInv, ClockInv
<1>8. /\ spent' \in [AssociationIds -> [Weeks -> Nat]] /\ spent'[a][w] = spent[a][w] + 1
      /\ \A b \in AssociationIds, v \in Weeks : b # a \/ v # w => spent'[b][v] = spent[b][v]
  <2>1. spent[a] \in [Weeks -> Nat] /\ spent[a][w] + 1 \in Nat
    BY <1>7
  <2>2. [spent[a] EXCEPT ![w] = @ + 1] \in [Weeks -> Nat]
    BY <2>1
  <2> QED BY <1>6, <1>7, <2>1, <2>2
<1>9. total'[d] = total[d] + 1 /\ \A e \in Devices : e # d => total'[e] = total[e]
  BY <1>6, <1>7
<1>10. ASSUME NEW b \in AssociationIds, b < nextAssociation
       PROVE  UseGoes(b)
  <2>1. \A v \in Weeks : spent[b][v] \in Nat /\ spent'[b][v] >= spent[b][v]
    <3>1. \A v \in Weeks : spent[b][v] \in Nat
      BY <1>7
    <3> QED BY <1>8, <3>1
  <2>2. PICK v \in Weeks : v = WeekOf(When(b))
    BY <1>2, <1>10, WhenTyped
  <2>3. Spending(b) = spent[b][v] /\ Spending(b)' = spent'[b][v] /\ spent[b][v] \in Nat
    BY <1>1, <1>7, <2>2 DEF Spending, When, WeekOf
  <2>4. association[b].device \in Devices /\ TotalOf(b) = total[association[b].device]
        /\ TotalOf(b) \in Nat
    BY <1>2, <1>10, Person DEF TotalOf
  <2>5. ASSUME Alone(b)
        PROVE  total'[association[b].device] - TotalOf(b) <= Spending(b)' - Spending(b)
    <3>1. CASE b = a
      BY <1>4, <1>5, <1>8, <1>9, <2>2, <2>3, <2>4, <3>1
    <3>2. CASE b # a
      <4>1. association[b].device # d
        <5>1. SUFFICES ASSUME association[b].device = d PROVE FALSE
          OBVIOUS
        <5>2. a \in Nat /\ b \in Nat
          BY <1>2, Numbers
        <5>3. CASE b > a
          <6>1. Made(b)
            BY <1>2, <1>10 DEF Made, ClockInv
          <6>2. b \in Successors(a)
            BY <1>4, <5>1, <5>3, <6>1 DEF Successors, Has
          <6> QED BY <1>1, <6>2
        <5>4. CASE a > b
          <6>1. a \in Successors(b)
            BY <1>1, <1>4, <5>1, <5>4 DEF Successors, Has
          <6> QED BY <2>5, <6>1 DEF Alone
        <5> QED BY <3>2, <5>2, <5>3, <5>4
      <4> QED BY <1>8, <1>9, <2>3, <2>4, <3>2, <4>1
    <3> QED BY <3>1, <3>2
  <2> QED BY <2>1, <2>5 DEF UseGoes
<1> QED BY <1>1, <1>8, <1>10, WorldKeeps

LEMMA RegressKeepsMeter ==
  ASSUME LedgerInv, LedgerInv', Grows, MeterInv, NEW d \in Devices, Regress(d)
  PROVE  MeterInv'
<1>1. /\ UNCHANGED <<now, association, nextAssociation, cycle, nextCycle, segment, job, runner>>
      /\ total' = [total EXCEPT ![d] = @ - 1] /\ spent' = spent
  BY DEF Regress, people, rounds, books
<1>2. BooksInv /\ ClockInv
  BY DEF LedgerInv, MeterInv
<1>3. total \in [Devices -> Nat] /\ spent \in [AssociationIds -> [Weeks -> Nat]]
  BY <1>2 DEF BooksInv, SegmentsInv, ClockInv
<1>4. \A e \in Devices : total[e] \in Nat /\ total'[e] \in Int /\ total'[e] <= total[e]
  BY <1>1, <1>3
<1>5. ASSUME NEW b \in AssociationIds, b < nextAssociation
      PROVE  UseGoes(b)
  <2>1. \A v \in Weeks : spent[b][v] \in Nat /\ spent'[b][v] = spent[b][v]
    BY <1>1, <1>3
  <2>2. Spending(b)' = Spending(b) /\ Spending(b) \in Nat
    BY <1>1, <1>2, <1>5, WhenTyped DEF Spending, When, WeekOf
  <2>3. association[b].device \in Devices /\ TotalOf(b) = total[association[b].device]
    BY <1>2, <1>5, Person DEF TotalOf
  <2>4. total'[association[b].device] - TotalOf(b) <= Spending(b)' - Spending(b)
    BY <1>4, <2>2, <2>3
  <2> QED BY <2>1, <2>4 DEF UseGoes
<1> QED BY <1>1, <1>3, <1>5, WorldKeeps

\* A round begins where a week does.
LEMMA RolloverWeeks ==
  ASSUME LedgerInv, WeeksInv, NEW status, SyncRollover(status)
  PROVE  WeeksInv'
<1>1. BooksInv
  BY DEF LedgerInv
<1>2. PICK n \in CycleIds : n = nextCycle /\ n \in Nat /\ n >= 1
  BY <1>1, BoundsTyped DEF SyncRollover, BooksInv, RoundsInv, CycleIds
<1>3. PICK k \in Nat : k = WeekOf(now) /\ Week * k <= now /\ now < Week * k + Week
  BY <1>1, Numbers, WeekBegins
<1>4. PICK begin \in Nat : begin = Week * k
  BY Multiples
<1>5. Week * (now \div Week + 1) = begin + Week
  <2>1. now \div Week = k
    BY <1>3 DEF WeekOf
  <2>2. Week * (k + 1) = Week * k + Week
    BY WeekIsEven
  <2> QED BY <1>4, <2>1, <2>2
<1>6. cycle \in [CycleIds -> RoundType] /\ now \in Nat
  BY <1>1 DEF BooksInv, RoundsInv
<1>7. ASSUME Latest # 0
      PROVE  cycle[Latest].reset \in Nat /\ cycle[Latest].reset <= begin
  <2>1. Latest \in CycleIds /\ Latest < nextCycle /\ Latest > 0
    BY <1>2, <1>7, BoundsTyped DEF Latest, CycleIds
  <2>2. PICK started \in Nat, reset \in Nat : started = cycle[Latest].started /\ reset = cycle[Latest].reset
    BY <1>6, <2>1 DEF RoundType
  <2>3. PICK i \in Nat : i = WeekOf(started)
    BY WeekBegins
  <2>4. reset = Week * i + Week
    BY <2>1, <2>2, <2>3 DEF WeeksInv
  <2>5. Week * (i + 1) = Week * i + Week
    BY WeekIsEven
  <2>6. reset <= now
    BY <2>1, <2>2 DEF SyncRollover
  <2>7. PICK j \in Nat : j = i + 1
    OBVIOUS
  <2>8. reset = Week * j
    BY <2>4, <2>5, <2>7
  <2>9. (j > k => Week * j >= Week * k + Week) /\ (k > j => Week * k >= Week * j + Week)
    BY Multiples
  <2>10. ~(j > k)
    BY <1>3, <1>4, <1>6, <2>6, <2>8, <2>9, WeekIsEven
  <2>11. j = k \/ k > j
    BY <2>10
  <2>12. reset <= begin
    BY <1>4, <2>8, <2>9, <2>11, WeekIsEven
  <2> QED BY <2>2, <2>12
<1>8. PICK reset : reset = Week * (now \div Week + 1) /\ reset = begin + Week /\ reset - Week = begin
  BY <1>5, WeekIsEven
<1>9. (IF Latest = 0 THEN reset - Week ELSE Later(reset - Week, cycle[Latest].reset)) = begin
  BY <1>7, <1>8 DEF Later
<1>10. PICK row : row = [started |-> begin, reset |-> begin + Week, created |-> now, status |-> status]
  OBVIOUS
<1>11. cycle' = [c \in CycleIds |->
                  IF c = n THEN row
                  ELSE IF c < n THEN [cycle[c] EXCEPT !.status = "EXPIRED"] ELSE cycle[c]]
  BY <1>2, <1>8, <1>10, <1>9 DEF SyncRollover
<1>12. nextCycle' = n + 1 /\ segment' = segment
  BY <1>2 DEF SyncRollover, books
<1>13. WeekOf(begin) = k
  BY <1>4, WeekUnique, WeekIsEven
<1>14. ASSUME NEW c \in CycleIds
       PROVE  IF c < nextCycle'
              THEN /\ cycle'[c].started = Week * WeekOf(cycle'[c].started)
                   /\ cycle'[c].reset = cycle'[c].started + Week
              ELSE /\ cycle'[c].status = "NONE"
                   /\ \A a \in AssociationIds : segment'[a][c] = NoSegment
  <2>1. c \in Nat
    BY <1>1, Numbers
  <2>2. CASE c = n
    <3>1. cycle'[c] = row /\ c < nextCycle'
      BY <1>2, <1>11, <1>12, <2>2
    <3>2. row.started = begin /\ row.reset = begin + Week
      BY <1>10
    <3> QED BY <1>4, <1>13, <3>1, <3>2
  <2>3. CASE c < n
    <3>1. cycle'[c] = [cycle[c] EXCEPT !.status = "EXPIRED"] /\ c < nextCycle' /\ c < nextCycle
      BY <1>2, <1>11, <1>12, <2>1, <2>3
    <3>2. cycle'[c].started = cycle[c].started /\ cycle'[c].reset = cycle[c].reset
      BY <1>6, <3>1 DEF RoundType
    <3> QED BY <3>1, <3>2 DEF WeeksInv
  <2>4. CASE c > n
    <3>1. cycle'[c] = cycle[c] /\ ~(c < nextCycle') /\ ~(c < nextCycle)
      BY <1>2, <1>11, <1>12, <2>1, <2>4
    <3> QED BY <1>12, <3>1 DEF WeeksInv
  <2> QED BY <1>2, <2>1, <2>2, <2>3, <2>4
<1> QED BY <1>14 DEF WeeksInv, WeekOf

LEMMA RolloverKeepsMeter ==
  ASSUME LedgerInv, LedgerInv', Grows, MeterInv, NEW status, SyncRollover(status)
  PROVE  MeterInv'
<1>1. /\ now' = now /\ total' = total /\ spent' = spent
      /\ association' = association /\ nextAssociation' = nextAssociation
      /\ segment' = segment /\ job' = job /\ runner' = runner
  BY DEF SyncRollover, world, people, books
<1>2. NothingRead /\ NothingAsked /\ RowsGo
  BY <1>1, ReadsNothing, NoRows DEF SamplesStay, RunnerWaits
<1>3. WeeksInv'
  BY RolloverWeeks DEF MeterInv
<1>4. \A a \in AssociationIds : GoesOnOrEnds(a) /\ Successors(a)' = Successors(a)
  BY <1>1 DEF GoesOnOrEnds, PersonStays, Successors, Has, Made
<1>5. FlightInv'
  BY <1>1, <1>2, <1>4, FlightStays DEF MeterInv
<1> QED BY <1>1, <1>2, <1>3, <1>4, <1>5, TimeKeeps

-----------------------------------------------------------------------------
(* A new association: nothing was read of it, and its device is free.      *)

LEMMA NewcomerKeeps ==
  ASSUME LedgerInv, LedgerInv', Grows, MeterInv, NEW u \in Users, NEW d \in Devices,
         NEW fresh \in BOOLEAN, NewAssociation(u, d, fresh),
         fresh => total[d] = 0 \/ \E b \in AssociationIds : Has(b, d),
         UNCHANGED <<total, spent, cycle, nextCycle, job, runner>>,
         \A b \in AssociationIds, c \in CycleIds :
           \/ segment'[b][c] = segment[b][c]
           \/ /\ b = nextAssociation /\ c < nextCycle
              /\ segment'[b][c].baseline = total[d]
              /\ segment'[b][c].used = segment'[b][c].imported
  PROVE  MeterInv'
<1>1. BooksInv /\ BooksInv' /\ ClockInv /\ WeeksInv /\ FlightInv /\ \A p \in Runners : Placed(p)
  BY DEF LedgerInv, RunnersInv, MeterInv
<1>2. PICK n \in AssociationIds : n = nextAssociation /\ n \in Nat /\ nextAssociation' = n + 1
  BY <1>1, NewPerson, Numbers
<1>3. now \in Nat /\ now' = now + 2 /\ now + 2 <= LastTime /\ now % 2 = 1
  BY <1>1, Numbers DEF NewAssociation, TimePasses, ClockInv
<1>4. PICK row : row = [user |-> u, device |-> d, started |-> now, ended |-> None, fresh |-> fresh]
  OBVIOUS
<1>5. association' = [association EXCEPT ![n] = row]
  BY <1>2, <1>4 DEF NewAssociation
<1>6. association'[n] = row /\ \A b \in AssociationIds : b # n => association'[b] = association[b]
  BY <1>1, <1>5 DEF BooksInv, PeopleInv
<1>7. \A b \in AssociationIds : /\ b \in Nat /\ (b < n => b # n)
                                /\ b < n + 1 => b < n \/ b = n
                                /\ b >= n /\ b < n + 1 => b = n
  <2>1. n \in Nat /\ AssociationIds \subseteq Nat
    BY <1>1, <1>2, Numbers
  <2>2. ASSUME NEW b \in Nat
        PROVE  (b < n => b # n) /\ (b < n + 1 => b < n \/ b = n) /\ (b >= n /\ b < n + 1 => b = n)
    BY <2>1
  <2> QED BY <2>1, <2>2
<1>8. ClockInv'
  <2>1. now' <= LastTime /\ now' % 2 = 1
    BY <1>3
  <2>2. ASSUME NEW b \in AssociationIds, b < nextAssociation'
        PROVE  /\ association'[b].user # None /\ association'[b].started < now'
               /\ association'[b].ended # None =>
                    association'[b].ended < now' /\ association'[b].ended % 2 = 1
    <3>1. CASE b = n
      <4>1. row.user = u /\ row.started = now /\ row.ended = None /\ u # None
        BY <1>4, NoneAssumption
      <4> QED BY <1>3, <1>6, <3>1, <4>1
    <3>2. CASE b < n
      <4>1. association'[b] = association[b]
        BY <1>6, <1>7, <3>2
      <4>2. /\ association[b].user # None /\ association[b].started < now
            /\ association[b].ended # None =>
                 association[b].ended < now /\ association[b].ended % 2 = 1
        BY <1>1, <1>2, <3>2 DEF ClockInv
      <4>3. association[b].started \in Nat /\ association[b].ended \in Nat \cup {None}
        BY <1>1, <1>2, <3>2, Person
      <4> QED BY <1>3, <4>1, <4>2, <4>3
    <3> QED BY <1>2, <1>7, <2>2, <3>1, <3>2
  <2>3. spent' \in [AssociationIds -> [Weeks -> Nat]]
    BY <1>1 DEF ClockInv
  <2> QED BY <2>1, <2>2, <2>3 DEF ClockInv
<1>9. NothingRead
  BY ReadsNothing DEF SamplesStay, RunnerWaits
<1>10. \A b \in AssociationIds : b < nextAssociation => GoesOnOrEnds(b)
  BY <1>2, <1>6, <1>7 DEF GoesOnOrEnds, PersonStays
<1>11. MeterGoes
  BY <1>1, <1>3, <1>8, <1>9, <1>10, TimeGoes
<1>12. RowsGo
  BY <1>2, <1>7 DEF RowsGo
<1>13. WeeksInv'
  <2>1. SUFFICES ASSUME NEW c \in CycleIds
                 PROVE  IF c < nextCycle
                        THEN /\ cycle[c].started = Week * WeekOf(cycle[c].started)
                             /\ cycle[c].reset = cycle[c].started + Week
                        ELSE /\ cycle[c].status = "NONE"
                             /\ \A b \in AssociationIds : segment'[b][c] = NoSegment
    BY DEF WeeksInv, WeekOf
  <2> QED BY <1>1 DEF WeeksInv
<1>14. FlightInv'
  <2>1. SUFFICES ASSUME NEW q \in Runners, runner[q].step = "request"
                 PROVE  /\ \A b \in AssociationIds, t, x \in Nat :
                             Read(b, t, x)' => t <= runner[q].claimed
                        /\ \A b \in AssociationIds : b = runner[q].assoc =>
                             \A e \in Successors(b)' : association'[e].started <= runner[q].claimed
    BY DEF FlightInv
  <2>2. \A b \in AssociationIds, t, x \in Nat : Read(b, t, x)' => t <= runner[q].claimed
    BY <1>1, <1>9, <2>1 DEF NothingRead, FlightInv
  <2>3. ASSUME NEW b \in AssociationIds, b = runner[q].assoc, NEW e \in Successors(b)'
        PROVE  association'[e].started <= runner[q].claimed
    <3>1. b < n /\ association[b].device # d
      BY <1>1, <1>2, <2>1, <2>3 DEF Placed, NewAssociation
    <3>2. association'[b] = association[b]
      BY <1>6, <1>7, <3>1
    <3>3. e \in AssociationIds /\ e > b /\ association'[e].device = association[b].device
          /\ association'[e].user # None
      BY <3>2 DEF Successors, Has, Made
    <3>4. row.device = d
      BY <1>4
    <3>5. e # n
      BY <1>6, <3>1, <3>3, <3>4
    <3>6. association'[e] = association[e]
      BY <1>6, <3>3, <3>5
    <3>7. e \in Successors(b)
      BY <3>3, <3>6 DEF Successors, Has, Made
    <3> QED BY <1>1, <2>1, <2>3, <3>6, <3>7 DEF FlightInv
  <2> QED BY <2>2, <2>3
<1>15. NewcomerSound
  <2>1. \A t, x \in Nat : ~Read(n, t, x)'
    <3>1. SUFFICES ASSUME NEW t \in Nat, NEW x \in Nat, Read(n, t, x)' PROVE FALSE
      OBVIOUS
    <3>2. Read(n, t, x)
      BY <1>9, <3>1 DEF NothingRead
    <3>3. n < nextAssociation
      BY <3>2, ReadPast
    <3> QED BY <1>2, <3>3
  <2>2. TotalOf(n)' = total[d] /\ total[d] \in Nat /\ Spending(n)' \in Nat
    <3>1. row.device = d
      BY <1>4
    <3>2. n < nextAssociation'
      BY <1>2
    <3>3. Spending(n)' \in Nat
      BY <1>1, <1>8, <3>2, NextTyped
    <3>4. TotalOf(n)' = total[d]
      BY <1>6, <3>1 DEF TotalOf
    <3>5. total[d] \in Nat
      BY <1>1 DEF BooksInv, SegmentsInv
    <3> QED BY <3>3, <3>4, <3>5
  <2>3. ASSUME NEW base, base = total[d], NEW from
        PROVE  Sound(n, base, from)'
    BY <2>1, <2>2, <2>3 DEF Sound
  <2>4. FromZero(n)' => total[d] = 0
    <3>1. SUFFICES ASSUME FromZero(n)' PROVE total[d] = 0
      OBVIOUS
    <3>2. row.fresh = fresh /\ row.device = d
      BY <1>4
    <3>3. fresh /\ \A b \in AssociationIds : Has(b, d)' => b >= n
      BY <1>6, <3>1, <3>2 DEF FromZero
    <3>4. ASSUME NEW b \in AssociationIds, Has(b, d)
          PROVE  FALSE
      <4>1. b < n
        BY <1>1, <1>2, <3>4, Exists DEF Has, Made
      <4>2. Has(b, d)'
        BY <1>6, <1>7, <3>4, <4>1 DEF Has, Made
      <4> QED BY <1>7, <3>3, <4>1, <4>2
    <3> QED BY <3>3, <3>4
  <2>5. FromZero(n)' => Sound(n, 0, None)'
    BY <2>3, <2>4
  <2>6. ASSUME NEW c \in CycleIds
        PROVE  RowSound(n, c, segment[n][c])'
    <3>1. CASE segment'[n][c] = segment[n][c]
      <4>1. segment'[n][c] = NoSegment
        BY <1>1, <1>2, <3>1 DEF BooksInv, SegmentsInv
      <4>2. RowSound(n, c, NoSegment)'
        BY EmptyRowSound
      <4> QED BY <4>1, <4>2
    <3>2. CASE c < nextCycle /\ segment'[n][c].baseline = total[d]
               /\ segment'[n][c].used = segment'[n][c].imported
      <4>1. PICK r : r = segment'[n][c]
        OBVIOUS
      <4>2. r \in SegmentType
        BY <1>1, <4>1 DEF BooksInv, SegmentsInv
      <4>3. Sound(n, r.baseline, r.at)'
        BY <2>3, <3>2, <4>1
      <4>4. spent'[n][WeekOf(cycle'[c].started)] \in Nat
        <5>1. cycle[c] \in RoundType /\ cycle[c].started <= cycle[c].created /\ cycle[c].created <= now
          BY <1>1, <3>2 DEF BooksInv, RoundsInv
        <5>2. cycle[c].started \in Nat /\ cycle[c].started <= now
          BY <1>3, <5>1 DEF RoundType
        <5>3. WeekOf(cycle[c].started) \in Weeks
          BY <1>1, <5>2, PastWeek
        <5> QED BY <1>1, <5>3 DEF ClockInv
      <4>5. r.used # None => r.used - Imported(r) = 0
        BY <3>2, <4>1, <4>2 DEF SegmentType, Imported
      <4>6. RowSound(n, c, r)'
        BY <4>3, <4>4, <4>5 DEF RowSound, Imported
      <4> QED BY <4>1, <4>6
    <3> QED BY <1>2, <3>1, <3>2
  <2> QED BY <1>2, <1>7, <2>1, <2>5, <2>6 DEF NewcomerSound
<1> QED BY <1>8, <1>11, <1>12, <1>13, <1>14, <1>15, MeterKeeps

LEMMA AssociateKeepsMeter ==
  ASSUME LedgerInv, LedgerInv', Grows, MeterInv, NEW u \in Users, NEW d \in Devices,
         NEW fresh \in BOOLEAN, Associate(u, d, fresh)
  PROVE  MeterInv'
<1>1. /\ NewAssociation(u, d, fresh)
      /\ fresh => total[d] = 0 \/ \E b \in AssociationIds : Has(b, d)
      /\ UNCHANGED <<total, spent, cycle, nextCycle, job, runner>> /\ segment' = segment
  BY DEF Associate, world, rounds, books
<1> QED BY <1>1, NewcomerKeeps

LEMMA ImportKeepsMeter ==
  ASSUME LedgerInv, LedgerInv', Grows, MeterInv, NEW u \in Users, NEW d \in Devices,
         NEW amount \in Nat, import_initial_usage(u, d, amount)
  PROVE  MeterInv'
<1>1. /\ NewAssociation(u, d, FALSE)
      /\ UNCHANGED <<total, spent, cycle, nextCycle, job, runner>>
  BY DEF import_initial_usage, world, rounds
<1>2. BooksInv
  BY DEF LedgerInv
<1>3. nextAssociation \in AssociationIds /\ segment \in [AssociationIds -> [CycleIds -> SegmentType]]
  BY <1>1, <1>2, NewPerson DEF BooksInv, SegmentsInv
<1>4. PICK n \in AssociationIds : n = nextAssociation
  BY <1>3
<1>5. PICK e : e = Latest
  OBVIOUS
<1>6. PICK row : row = [baseline |-> total[d], at |-> now, used |-> amount,
                        imported |-> amount, quality |-> "VERIFIED"]
  OBVIOUS
<1>7. segment' = [segment EXCEPT ![n][e] = row]
  BY <1>4, <1>5, <1>6 DEF import_initial_usage
<1>8. e < nextCycle
  BY <1>2, <1>5, BoundsTyped DEF Latest, BooksInv, RoundsInv
<1>9. row.baseline = total[d] /\ row.used = row.imported
  BY <1>6
<1>10. ASSUME NEW b \in AssociationIds, NEW c \in CycleIds
       PROVE  segment'[b][c] = segment[b][c] \/ (b = n /\ c = e /\ segment'[b][c] = row)
  <2>1. segment[n] \in [CycleIds -> SegmentType]
    BY <1>3
  <2> QED BY <1>3, <1>7, <2>1
<1>11. \A b \in AssociationIds, c \in CycleIds :
         \/ segment'[b][c] = segment[b][c]
         \/ /\ b = nextAssociation /\ c < nextCycle
            /\ segment'[b][c].baseline = total[d]
            /\ segment'[b][c].used = segment'[b][c].imported
  BY <1>4, <1>8, <1>9, <1>10
<1> QED BY <1>1, <1>11, NewcomerKeeps

-----------------------------------------------------------------------------
(* Samples are applied to the row of their round.                          *)

\* A segment is opened with a known origin only where the total began at zero.
LEMMA OpenSound ==
  ASSUME LedgerInv, MeterInv, NEW a \in AssociationIds, a < nextAssociation,
         NEW c \in CycleIds, c < nextCycle
  PROVE  RowSound(a, c, SegmentOf(a, c))
<1>1. BooksInv
  BY DEF LedgerInv
<1>2. CASE segment[a][c] # NoSegment
  BY <1>2 DEF SegmentOf, MeterInv, SegmentsSound
<1>3. CASE segment[a][c] = NoSegment
  <2>1. PICK baseline : baseline = IF ZeroOrigin(a, c) THEN 0 ELSE None
    OBVIOUS
  <2>2. PICK row : row = [baseline |-> baseline, at |-> None, used |-> None, imported |-> None,
                          quality |-> "UNKNOWN"]
    OBVIOUS
  <2>3. SegmentOf(a, c) = row
    <3>1. SegmentOf(a, c) = [baseline |-> baseline, at |-> None, used |-> None,
                             imported |-> None, quality |-> "UNKNOWN"]
      BY <1>3, <2>1 DEF SegmentOf, NoSegment
    <3> QED BY <2>2, <3>1
  <2>4. row.baseline = baseline /\ row.at = None /\ row.used = None
    BY <2>2
  <2>5. ASSUME baseline # None, WeekOf(cycle[c].started) = WeekOf(When(a))
        PROVE  Sound(a, baseline, None)
    <3>1. ZeroOrigin(a, c) /\ baseline = 0
      BY <2>1, <2>5
    <3>2. FromZero(a)
      BY <3>1 DEF ZeroOrigin, FromZero
    <3>3. PICK k \in Nat : k = WeekOf(cycle[c].started)
      <4>1. cycle[c].started \in Nat
        BY <1>1 DEF BooksInv, RoundsInv, RoundType
      <4> QED BY <4>1, WeekBegins
    <3>4. cycle[c].started = Week * k /\ cycle[c].reset = Week * k + Week
      BY <3>3 DEF MeterInv, WeeksInv
    <3>5. PICK n \in Nat : n = association[a].started
      BY <1>1, Person
    <3>6. Week * k <= n /\ n < Week * k + Week
      BY <3>1, <3>4, <3>5 DEF ZeroOrigin
    <3>7. WeekOf(n) = k
      BY <3>6, WeekUnique
    <3> QED BY <2>5, <3>1, <3>2, <3>3, <3>5, <3>7 DEF MeterInv, ZeroSound
  <2>6. RowSound(a, c, row)
    BY <2>4, <2>5 DEF RowSound
  <2> QED BY <2>3, <2>6
<1> QED BY <1>2, <1>3

\* What is charged in the window of a round was used in its week.
LEMMA WindowWeek ==
  ASSUME LedgerInv, MeterInv, NEW a \in AssociationIds, a < nextAssociation,
         NEW c \in CycleIds, c < nextCycle, Overlaps(a, c), NEW at, InWindow(a, c, at)
  PROVE  WeekOf(cycle[c].started) = WeekOf(When(a))
<1>1. BooksInv /\ ClockInv
  BY DEF LedgerInv, MeterInv
<1>2. PICK started \in Nat : started = cycle[c].started /\ started <= now
  <2>1. cycle[c] \in RoundType /\ cycle[c].started <= cycle[c].created /\ cycle[c].created <= now
    BY <1>1 DEF BooksInv, RoundsInv
  <2>2. cycle[c].started \in Nat /\ cycle[c].created \in Nat
    BY <2>1 DEF RoundType
  <2> QED BY <1>1, <2>1, <2>2, Numbers
<1>3. PICK k \in Nat : k = WeekOf(started)
  BY WeekBegins
<1>4. started = Week * k /\ cycle[c].reset = started + Week
  BY <1>2, <1>3 DEF MeterInv, WeeksInv
<1>5. PICK n \in Nat : n = When(a) /\ n <= now
  BY <1>1, WhenTyped
<1>6. started <= n /\ n < started + Week
  <2>1. CASE association[a].ended = None
    <3>1. n = now
      BY <1>5, <2>1 DEF When
    <3>2. now < cycle[c].reset
      BY <2>1 DEF InWindow
    <3> QED BY <1>2, <1>4, <3>1, <3>2
  <2>2. CASE association[a].ended # None
    <3>1. n = association[a].ended /\ n % 2 = 1 /\ n < now
      BY <1>1, <1>5, <2>2 DEF When, ClockInv
    <3>2. n > started
      BY <1>2, <2>2, <3>1 DEF Overlaps
    <3>3. PICK even \in Nat : even = started
      OBVIOUS
    <3>4. even % 2 = 0
      BY <1>4, <3>3, MultiplesAreEven
    <3>5. (even + Week) % 2 = 0
      BY <3>4, WeekIsEven
    <3>6. n # even + Week
      BY <3>1, <3>5
    <3>7. n <= even + Week
      <4>1. CASE now < cycle[c].reset
        BY <1>1, <1>4, <3>1, <3>3, <4>1, WeekIsEven, Numbers
      <4>2. CASE association[a].ended <= cycle[c].reset
        BY <1>4, <3>1, <3>3, <4>2
      <4> QED BY <4>1, <4>2 DEF InWindow
    <3> QED BY <3>2, <3>3, <3>6, <3>7, WeekIsEven
  <2> QED BY <2>1, <2>2
<1>7. WeekOf(n) = k
  BY <1>4, <1>6, WeekUnique
<1> QED BY <1>2, <1>3, <1>5, <1>7

LEMMA AppliedSound ==
  ASSUME LedgerInv, MeterInv, NEW a \in AssociationIds, a < nextAssociation,
         NEW c \in CycleIds, NEW row \in SegmentType, RowSound(a, c, row),
         row.baseline = None => row.used = None,
         NEW at \in Nat, NEW amount \in Nat, Read(a, at, amount), ~Superseded(a, at),
         WeekOf(cycle[c].started) = WeekOf(When(a)), WeekOf(at) >= WeekOf(When(a)), NEW zero
  PROVE  RowSound(a, c, applied(row, at, amount, zero))
<1>1. /\ row.baseline \in Nat \cup {None} /\ row.at \in Nat \cup {None}
      /\ row.used \in Nat \cup {None} /\ row.imported \in Nat \cup {None}
  BY DEF SegmentType
<1>2. PICK new : new = applied(row, at, amount, zero)
  OBVIOUS
<1>3. PICK used \in Nat : used = Spending(a) /\ used = spent[a][WeekOf(cycle[c].started)]
  BY WhenTyped DEF LedgerInv, MeterInv, Spending
<1>4. PICK import \in Nat : import = Imported(row)
  BY <1>1 DEF Imported
<1>5. Sound(a, amount, at)
  BY DEF MeterInv, ReadsSound
<1>6. CASE row.at # None /\ at <= row.at
  <2>1. ~(row.baseline = None /\ (row.at = None \/ at > row.at))
    BY <1>1, <1>6
  <2>2. new = row
    BY <1>2, <1>6, <2>1 DEF applied
  <2> QED BY <1>2, <2>2
<1>7. CASE ~(row.at # None /\ at <= row.at) /\ row.baseline = None
  <2>1. row.at = None \/ at > row.at
    BY <1>1, <1>7
  <2>2. new = [row EXCEPT !.baseline = amount, !.at = at, !.used = 0, !.quality = "NEEDS_REVIEW"]
    BY <1>2, <1>7, <2>1 DEF applied
  <2>3. new.at = at /\ new.baseline = amount /\ new.used = 0 /\ new.imported = row.imported
    BY <2>2 DEF SegmentType
  <2>4. Imported(new) = import
    BY <1>4, <2>3 DEF Imported
  <2>5. new.used - Imported(new) <= spent[a][WeekOf(cycle[c].started)]
    BY <1>3, <2>3, <2>4
  <2>6. RowSound(a, c, new)
    BY <1>5, <2>3, <2>5 DEF RowSound
  <2> QED BY <1>2, <2>6
<1>8. CASE ~(row.at # None /\ at <= row.at) /\ row.baseline # None
  <2>1. PICK base \in Nat : base = row.baseline
    BY <1>1, <1>8
  <2>2. Sound(a, base, row.at) /\ (row.at = None \/ at > row.at)
    BY <1>1, <1>8, <2>1 DEF RowSound
  <2>3. amount - base <= used
    BY <1>3, <2>2 DEF Sound
  <2>4. Sound(a, base, at)
    BY <1>1, <2>2, SoundLater
  <2>5. PICK candidate \in Int : candidate = import + amount - base
    OBVIOUS
  <2>6. PICK origin : origin = (row.imported # None \/ (row.baseline = 0 /\ zero))
    OBVIOUS
  <2>7. new = IF candidate < 0 \/ (row.used # None /\ candidate < row.used)
              THEN [row EXCEPT !.at = at, !.quality = "NEEDS_REVIEW"]
              ELSE [row EXCEPT !.at = at, !.used = candidate,
                               !.quality = IF @ # "NEEDS_REVIEW" /\ origin THEN "VERIFIED"
                                           ELSE "NEEDS_REVIEW"]
    BY <1>2, <1>4, <1>8, <2>1, <2>5, <2>6 DEF applied, Imported
  <2>8. /\ new.at = at /\ new.baseline = base /\ new.imported = row.imported
        /\ new.used = row.used \/ new.used = candidate
    BY <2>1, <2>7 DEF SegmentType
  <2>9. Imported(new) = import
    BY <1>4, <2>8 DEF Imported
  <2>10. row.used # None => row.used - import <= used
    BY <1>3, <1>4 DEF RowSound
  <2>11. new.used # None => new.used - Imported(new) <= spent[a][WeekOf(cycle[c].started)]
    BY <1>3, <2>3, <2>5, <2>8, <2>9, <2>10
  <2>12. RowSound(a, c, new)
    BY <2>4, <2>8, <2>11 DEF RowSound
  <2> QED BY <1>2, <2>12
<1> QED BY <1>6, <1>7, <1>8

LEMMA ChargeSound ==
  ASSUME LedgerInv, MeterInv, NEW a \in AssociationIds, a < nextAssociation,
         NEW c \in CycleIds, c < nextCycle, Overlaps(a, c),
         NEW at \in Nat, NEW amount \in Nat, Read(a, at, amount), ~Superseded(a, at),
         at >= Starts(a, c)
  PROVE  RowSound(a, c, Charge(a, c, at, amount))
<1>1. BooksInv
  BY DEF LedgerInv
<1>2. PICK row \in SegmentType : row = SegmentOf(a, c)
  BY <1>1, OpensSegment
<1>3. RowSound(a, c, row) /\ (row.baseline = None => row.used = None)
  BY <1>1, <1>2, OpensSegment, OpenSound
<1>4. CASE InWindow(a, c, at)
  <2>1. WeekOf(cycle[c].started) = WeekOf(When(a))
    BY <1>4, WindowWeek
  <2>2. cycle[c].started \in Nat /\ association[a].started \in Nat
    BY <1>1, Person DEF BooksInv, RoundsInv, RoundType
  <2>3. cycle[c].started <= at
    BY <2>2 DEF Starts, Later
  <2>4. WeekOf(cycle[c].started) <= WeekOf(at)
    BY <2>2, <2>3, WeekGrows
  <2>5. WeekOf(at) \in Nat /\ WeekOf(cycle[c].started) \in Nat
    BY <2>2, WeekBegins
  <2>6. WeekOf(at) >= WeekOf(When(a))
    BY <2>1, <2>4, <2>5
  <2>7. Charge(a, c, at, amount) = applied(row, at, amount, ZeroOrigin(a, c))
    BY <1>2, <1>4 DEF Charge
  <2> QED BY <1>3, <2>1, <2>6, <2>7, AppliedSound
<1>5. CASE ~InWindow(a, c, at)
  <2>1. PICK new : new = [row EXCEPT !.quality = "NEEDS_REVIEW"]
    OBVIOUS
  <2>2. Charge(a, c, at, amount) = new
    BY <1>2, <1>5, <2>1 DEF Charge
  <2>3. new.baseline = row.baseline /\ new.at = row.at /\ new.used = row.used
        /\ new.imported = row.imported
    BY <2>1 DEF SegmentType
  <2>4. RowSound(a, c, new)
    BY <1>3, <2>3 DEF RowSound, Imported
  <2> QED BY <2>2, <2>4
<1> QED BY <1>4, <1>5

LEMMA BookRows ==
  ASSUME LedgerInv, NEW a \in AssociationIds, NEW c, NEW row,
         segment' = [segment EXCEPT ![a][c] = row],
         c \in CycleIds => c < nextCycle /\ RowSound(a, c, row)
  PROVE  RowsGo
<1>1. segment \in [AssociationIds -> [CycleIds -> SegmentType]]
  BY DEF LedgerInv, BooksInv, SegmentsInv
<1>2. \A b \in AssociationIds, e \in CycleIds :
        segment'[b][e] = IF b = a /\ e = c THEN row ELSE segment[b][e]
  BY <1>1
<1> QED BY <1>2 DEF RowsGo

LEMMA ContextStored ==
  ASSUME MeterInv, LedgerInv, NEW a, NEW c \in CycleIds, InContext(a, c)
  PROVE  c < nextCycle /\ Overlaps(a, c)
BY DEF MeterInv, WeeksInv, InContext, Usable

LEMMA EnsureKeepsMeter ==
  ASSUME LedgerInv, LedgerInv', Grows, MeterInv, NEW p \in Runners, Ensure(p)
  PROVE  MeterInv'
<1>1. PICK a \in AssociationIds, s \in Sequences :
        a = runner[p].assoc /\ s = runner[p].seq /\ a < nextAssociation
  BY Place DEF Ensure
<1>2. PICK c : c = First(runner[p].todo)
  OBVIOUS
<1>3. UNCHANGED <<now, total, spent, people, cycle, nextCycle>> /\ job' = job
  BY DEF Ensure, world, rounds
<1>4. RowsGo /\ \A q \in Runners : RunnerWaits(q)
  <2>1. CASE InContext(a, c)
    <3>1. /\ segment' = [segment EXCEPT ![a][c] = SegmentOf(a, c)]
          /\ Advance(p, IF runner[p].step = "ensure" THEN "collect" ELSE "apply")
      BY <1>1, <1>2, <2>1 DEF Ensure, Book
    <3>2. c \in CycleIds => c < nextCycle /\ RowSound(a, c, SegmentOf(a, c))
      BY <1>1, <2>1, ContextStored, OpenSound
    <3>3. PICK next : next = IF runner[p].step = "ensure" THEN "collect" ELSE "apply"
      OBVIOUS
    <3>4. {runner[p].step, next} \cap {"request", "save"} = {}
      BY <3>3 DEF Ensure
    <3>5. Advance(p, next)
      BY <3>1, <3>3
    <3> QED BY <3>1, <3>2, <3>4, <3>5, BookRows, AdvanceWaits
  <2>2. CASE ~InContext(a, c)
    <3>1. Settle(p, "retry") /\ segment' = segment
      BY <1>1, <1>2, <2>2 DEF Ensure, books
    <3> QED BY <3>1, NoRows, SettleWaits
  <2> QED BY <2>1, <2>2
<1>5. NothingRead /\ NothingAsked
  BY <1>3, <1>4, ReadsNothing DEF SamplesStay
<1> QED BY <1>3, <1>4, <1>5, QuietKeeps

LEMMA ApplyKeepsMeter ==
  ASSUME LedgerInv, LedgerInv', Grows, MeterInv, NEW p \in Runners, Apply(p)
  PROVE  MeterInv'
<1>1. PICK a \in AssociationIds, s \in Sequences :
        a = runner[p].assoc /\ s = runner[p].seq /\ a < nextAssociation
  BY Place DEF Apply
<1>2. PICK c : c = First(runner[p].todo)
  OBVIOUS
<1>3. UNCHANGED <<now, total, spent, people, cycle, nextCycle>> /\ job' = job
      /\ runner[p].step = "apply"
  BY DEF Apply, world, rounds
<1>4. PICK at \in Nat, amount \in Nat : at = job[a][s].sampled /\ amount = job[a][s].total
  <2>1. BooksInv /\ Placed(p)
    BY DEF LedgerInv, RunnersInv
  <2>2. job[a][s] \in JobType /\ job[a][s].sampled # None /\ job[a][s].total # None
    BY <1>1, <1>3, <2>1, JobTyped DEF Placed, BooksInv, JobsInv
  <2> QED BY <2>2 DEF JobType
<1>5. RowsGo /\ \A q \in Runners : RunnerWaits(q)
  <2>1. CASE InContext(a, c) /\ at >= Starts(a, c) /\ ~Superseded(a, at)
    <3>1. /\ segment' = [segment EXCEPT ![a][c] = Charge(a, c, at, amount)]
          /\ Advance(p, "finish")
      BY <1>1, <1>2, <1>4, <2>1 DEF Apply, Book
    <3>2. Read(a, at, amount)
      BY <1>4 DEF Read
    <3>3. c \in CycleIds => c < nextCycle /\ RowSound(a, c, Charge(a, c, at, amount))
      BY <1>1, <2>1, <3>2, ContextStored, ChargeSound
    <3>4. {runner[p].step, "finish"} \cap {"request", "save"} = {}
      BY <1>3
    <3> QED BY <3>1, <3>3, <3>4, BookRows, AdvanceWaits
  <2>2. CASE ~(InContext(a, c) /\ at >= Starts(a, c) /\ ~Superseded(a, at))
    <3>1. Settle(p, "retry") /\ segment' = segment
      BY <1>1, <1>2, <1>4, <2>2 DEF Apply, books
    <3> QED BY <3>1, NoRows, SettleWaits
  <2> QED BY <2>1, <2>2
<1>6. NothingRead /\ NothingAsked
  BY <1>3, <1>5, ReadsNothing DEF SamplesStay
<1> QED BY <1>3, <1>5, <1>6, QuietKeeps

-----------------------------------------------------------------------------
(* The initial states, and every step.                                     *)

LEMMA InitMeter == Init => MeterInv
<1> SUFFICES ASSUME Init PROVE MeterInv
  OBVIOUS
<1>1. ~\E a \in AssociationIds, t, x \in Nat : Read(a, t, x)
  <2>1. SUFFICES ASSUME NEW a \in AssociationIds, NEW t \in Nat, NEW x \in Nat, Read(a, t, x)
                 PROVE  FALSE
    OBVIOUS
  <2>2. t # None
    BY NoneAssumption
  <2> QED BY <2>1, <2>2 DEF Read, Init, NoJob, Idle
<1>2. nextAssociation = 1 /\ nextCycle = 1 /\ AssociationIds \subseteq Nat \ {0} /\ CycleIds \subseteq Nat \ {0}
  BY BoundsTyped DEF Init, AssociationIds, CycleIds
<1>3. \A a \in AssociationIds : ~(a < nextAssociation)
  BY <1>2
<1>4. ClockInv
  <2>1. now <= LastTime /\ now % 2 = 1
    BY WeekIsEven DEF Init
  <2>2. spent \in [AssociationIds -> [Weeks -> Nat]]
    BY DEF Init
  <2> QED BY <1>3, <2>1, <2>2 DEF ClockInv
<1>5. WeeksInv
  <2>1. \A c \in CycleIds : ~(c < nextCycle)
    BY <1>2
  <2> QED BY <2>1 DEF WeeksInv, Init, NoCycle
<1>6. FlightInv
  BY DEF FlightInv, Init, Idle
<1>7. ReadsSound
  BY <1>1 DEF ReadsSound
<1>8. ZeroSound
  BY <1>3 DEF ZeroSound
<1>9. SegmentsSound
  BY DEF SegmentsSound, RowSound, Init, NoSegment
<1> QED BY <1>4, <1>5, <1>6, <1>7, <1>8, <1>9 DEF MeterInv

LEMMA MeterNext ==
  ASSUME LedgerInv, LedgerInv', Grows, MeterInv, [Next]_vars
  PROVE  MeterInv'
<1>1. CASE Environment
  <2>1. ASSUME NEW d \in Devices, Regress(d) PROVE MeterInv'
    BY <2>1, RegressKeepsMeter
  <2>2. ASSUME NEW u \in Users, NEW d \in Devices,
               (\E fresh \in BOOLEAN : Associate(u, d, fresh)) \/ import_initial_usage(u, d, 1)
        PROVE  MeterInv'
    BY <2>2, AssociateKeepsMeter, ImportKeepsMeter
  <2>3. ASSUME NEW a \in AssociationIds, Report(a) \/ End(a) PROVE MeterInv'
    BY <2>3, ReportKeepsMeter, EndKeepsMeter
  <2>4. ASSUME NEW status, SyncRollover(status) \/ SyncCurrent(status) PROVE MeterInv'
    BY <2>4, RolloverKeepsMeter, EvidenceKeepsMeter
  <2>5. CASE Pass
    BY <2>5, PassKeepsMeter
  <2> QED BY <1>1, <2>1, <2>2, <2>3, <2>4, <2>5 DEF Environment
<1>2. CASE Sampling
  BY <1>2, SchedulingKeepsMeter, ClaimKeepsMeter DEF Sampling
<1>3. ASSUME NEW p \in Runners, Steps(p)
      PROVE  MeterInv'
  BY <1>3, PlanKeepsMeter, EnsureKeepsMeter, CollectKeepsMeter, AnswerKeepsMeter, SaveKeepsMeter,
     ApplyKeepsMeter, CompletionKeepsMeter DEF Steps
<1>4. CASE (\E p \in Runners : Fails(p) \/ Cancel(p)) \/ Restart \/ UNCHANGED vars
  BY <1>4, FaultKeepsMeter
<1> QED BY <1>1, <1>2, <1>3, <1>4 DEF Next

LEMMA MeterInvariant == Spec => [](LedgerInv /\ MeterInv)
<1>1. LedgerInv /\ MeterInv /\ [Next]_vars => LedgerInv' /\ MeterInv'
  BY LedgerNext, MeterNext
<1> QED BY <1>1, InitLedger, InitMeter, PTL DEF Spec

-----------------------------------------------------------------------------
(* Type correctness: on top of the two invariants, the bounds.             *)

\* No association number is beyond the bound.
PeopleWithin == nextAssociation <= MaxAssociations + 1

\* A round has a status once its number was given out, and not before.
RoundsWithin ==
  \A c \in CycleIds : IF c < nextCycle THEN cycle[c].status # "NONE" ELSE cycle[c] = NoCycle

\* The platform counts within its bound.
WorldWithin == total \in [Devices -> Amount] /\ regressed \subseteq Devices

\* A baseline is a total the platform reported; a row without a quality is none.
RowWithin(row, t) ==
  /\ row.baseline \in Amount \cup {None}
  /\ row.at # None => row.at < t
  /\ row.quality = "NONE" => row = NoSegment

\* Every row and every ledger is one.
BooksWithin ==
  /\ \A a \in AssociationIds, c \in CycleIds : RowWithin(segment[a][c], now)
  /\ ledger \in [Users -> [CycleIds -> LedgerRow]]

\* A saved total is one that was reported, and a sample that is planned is one.
JobsWithin ==
  /\ \A a \in AssociationIds, s \in Sequences : job[a][s].total \in Amount \cup {None}
  /\ planned \subseteq AssociationIds \X Sequences

\* What a runner carries was read: a lease, a total and an end of the past.
RunnersWithin ==
  \A p \in Runners : /\ runner[p].claimed <= now
                     /\ runner[p].total \in Amount \cup {None}
                     /\ runner[p].ended \in Times \cup {None}

\* The events that were counted are within one of the bounds.
EventsWithin ==
  /\ events \in [faults : Nat, callbacks : Nat]
  /\ \E b \in Bounds : \A k \in DOMAIN b : events[k] <= b[k]

Within == /\ PeopleWithin /\ RoundsWithin /\ WorldWithin /\ BooksWithin
          /\ JobsWithin /\ RunnersWithin /\ EventsWithin

LEMMA WithinTyped ==
  ASSUME LedgerInv, MeterInv, Within
  PROVE  TypeOK
<1>1. BooksInv /\ RunnersInv
  BY DEF LedgerInv
<1>2. /\ now \in Nat /\ LastTime \in Nat /\ MaxAssociations \in Nat /\ nextAssociation \in Nat \ {0}
      /\ nextAssociation <= MaxAssociations + 1 /\ now <= LastTime
  BY <1>1, WeekIsEven, BoundAssumption DEF BooksInv, PeopleInv, RoundsInv, MeterInv, ClockInv, Within, PeopleWithin
<1>3. now \in Times /\ nextAssociation \in 1 .. MaxAssociations + 1
  BY <1>2 DEF Times
<1>4. ASSUME NEW t \in Nat, t < now \/ t <= now PROVE t \in Times
  BY <1>2, <1>4 DEF Times
<1>5. association \in [AssociationIds -> AssociationRow \cup {NoAssociation}]
  <2>1. association \in [AssociationIds -> PersonType]
    BY <1>1 DEF BooksInv, PeopleInv
  <2>2. ASSUME NEW a \in AssociationIds PROVE association[a] \in AssociationRow \cup {NoAssociation}
    <3>1. CASE a < nextAssociation
      <4>1. association[a] \in PersonType /\ association[a].device \in Devices /\ association[a].started \in Nat
        BY <1>1, <2>1, <3>1 DEF BooksInv, PeopleInv
      <4>2. /\ association[a].user # None /\ association[a].started < now
            /\ association[a].ended # None => association[a].ended < now
        BY <3>1 DEF MeterInv, ClockInv
      <4>3. association[a].started \in Times
        BY <1>4, <4>1, <4>2
      <4>4. association[a].ended \in Times \cup {None}
        BY <1>4, <4>1, <4>2 DEF PersonType
      <4>5. association[a].user \in Users /\ association[a].fresh \in BOOLEAN
        BY <4>1, <4>2 DEF PersonType
      <4> QED BY <4>1, <4>3, <4>4, <4>5 DEF PersonType, AssociationRow
    <3>2. CASE ~(a < nextAssociation)
      BY <1>1, <3>2 DEF BooksInv, PeopleInv
    <3> QED BY <3>1, <3>2
  <2> QED BY <2>1, <2>2
<1>6. cycle \in [CycleIds -> CycleRow \cup {NoCycle}] /\ nextCycle \in 1 .. MaxCycles + 1
  <2>1. cycle \in [CycleIds -> RoundType] /\ nextCycle \in 1 .. MaxCycles + 1
    BY <1>1 DEF BooksInv, RoundsInv
  <2>2. ASSUME NEW c \in CycleIds PROVE cycle[c] \in CycleRow \cup {NoCycle}
    <3>1. CASE c < nextCycle
      <4>1. cycle[c] \in RoundType /\ cycle[c].created <= now /\ cycle[c].status # "NONE"
        BY <1>1, <2>1, <3>1 DEF BooksInv, RoundsInv, Within, RoundsWithin
      <4>2. cycle[c].created \in Times
        BY <1>4, <4>1 DEF RoundType
      <4> QED BY <4>1, <4>2 DEF RoundType, CycleRow
    <3>2. CASE ~(c < nextCycle)
      BY <3>2 DEF Within, RoundsWithin
    <3> QED BY <3>1, <3>2
  <2> QED BY <2>1, <2>2
<1>7. segment \in [AssociationIds -> [CycleIds -> SegmentRow \cup {NoSegment}]]
  <2>1. segment \in [AssociationIds -> [CycleIds -> SegmentType]]
    BY <1>1 DEF BooksInv, SegmentsInv
  <2>2. ASSUME NEW a \in AssociationIds, NEW c \in CycleIds
        PROVE  segment[a][c] \in SegmentRow \cup {NoSegment}
    <3>1. segment[a][c] \in SegmentType /\ RowWithin(segment[a][c], now)
      BY <2>1 DEF Within, BooksWithin
    <3>2. segment[a][c].at \in Times \cup {None}
      BY <1>4, <3>1 DEF SegmentType, RowWithin
    <3> QED BY <3>1, <3>2 DEF SegmentType, SegmentRow, RowWithin
  <2>3. ASSUME NEW a \in AssociationIds
        PROVE  segment[a] \in [CycleIds -> SegmentRow \cup {NoSegment}]
    BY <2>1, <2>2
  <2> QED BY <2>1, <2>3
<1>8. job \in [AssociationIds -> [Sequences -> JobRow \cup CompletedJob]]
  <2>1. job \in [AssociationIds -> [Sequences -> JobType]]
    BY <1>1 DEF BooksInv, JobsInv
  <2>2. ASSUME NEW a \in AssociationIds, NEW s \in Sequences
        PROVE  job[a][s] \in JobRow \cup CompletedJob
    <3>1. /\ job[a][s] \in JobType
          /\ job[a][s].sampled # None => job[a][s].sampled < now /\ job[a][s].total # None
          /\ job[a][s].phase = "completed" => job[a][s].sampled # None
          /\ job[a][s].total \in Amount \cup {None}
      BY <1>1, <2>1 DEF BooksInv, JobsInv, Within, JobsWithin
    <3>2. job[a][s].sampled \in Times \cup {None}
      BY <1>4, <3>1 DEF JobType
    <3> QED BY <3>1, <3>2 DEF JobType, JobRow, CompletedJob, Phases
  <2>3. ASSUME NEW a \in AssociationIds
        PROVE  job[a] \in [Sequences -> JobRow \cup CompletedJob]
    BY <2>1, <2>2
  <2> QED BY <2>1, <2>3
<1>9. runner \in [Runners -> RunnerState]
  <2>1. runner \in [Runners -> RunnerType]
    BY <1>1 DEF RunnersInv
  <2>2. ASSUME NEW p \in Runners PROVE runner[p] \in RunnerState
    <3>1. /\ runner[p] \in RunnerType /\ runner[p].claimed <= now
          /\ runner[p].total \in Amount \cup {None} /\ runner[p].ended \in Times \cup {None}
      BY <2>1 DEF Within, RunnersWithin
    <3>2. runner[p].claimed \in Times
      BY <1>4, <3>1 DEF RunnerType
    <3> QED BY <3>1, <3>2 DEF RunnerType, RunnerState, RunnerSteps
  <2> QED BY <2>1, <2>2
<1>10. \E b \in Bounds : \A k \in DOMAIN b : events[k] \in 0 .. b[k]
  <2>1. PICK b \in Bounds : \A k \in DOMAIN b : events[k] <= b[k]
    BY DEF Within, EventsWithin
  <2>2. b \in [faults : Nat, callbacks : Nat] /\ events \in [faults : Nat, callbacks : Nat]
    BY <2>1, BoundAssumption DEF Within, EventsWithin
  <2>3. ASSUME NEW k \in DOMAIN b PROVE events[k] \in Nat /\ b[k] \in Nat
    BY <2>2, <2>3
  <2> QED BY <2>1, <2>3
<1> QED BY <1>3, <1>5, <1>6, <1>7, <1>8, <1>9, <1>10
       DEF TypeOK, Within, WorldWithin, BooksWithin, JobsWithin, MeterInv, ClockInv

LEMMA InitWithin == Init => Within
<1> SUFFICES ASSUME Init PROVE Within
  OBVIOUS
<1>1. PeopleWithin /\ RoundsWithin /\ WorldWithin
  BY BoundAssumption DEF Init, PeopleWithin, RoundsWithin, WorldWithin, NoCycle, CycleIds
<1>2. BooksWithin
  BY DEF Init, BooksWithin, RowWithin, NoSegment, NoLedger, LedgerRow
<1>3. JobsWithin
  BY DEF Init, JobsWithin, NoJob
<1>4. RunnersWithin
  BY DEF Init, RunnersWithin, Idle
<1>5. EventsWithin
  <2>1. PICK b \in Bounds : b \in [faults : Nat, callbacks : Nat]
    BY BoundAssumption
  <2>2. events = [faults |-> 0, callbacks |-> 0]
    BY DEF Init
  <2>3. ASSUME NEW k \in DOMAIN b PROVE events[k] <= b[k]
    BY <2>1, <2>2, <2>3
  <2> QED BY <2>1, <2>2, <2>3 DEF EventsWithin
<1> QED BY <1>1, <1>2, <1>3, <1>4, <1>5 DEF Within

LEMMA FirstIn ==
  ASSUME NEW S \in SUBSET Nat, S # {}
  PROVE  First(S) \in S
<1>1. PICK n \in S : \A m \in S : ~(m < n)
  BY SmallestNumber
<1>2. \A m \in S : n <= m
  BY <1>1
<1> QED BY <1>2 DEF First

LEMMA PlannedNext ==
  ASSUME NEW S \in SUBSET Periodic, S # {}
  PROVE  First(S) \in Sequences
<1>1. Periodic \subseteq Nat
  BY BoundAssumption DEF Periodic
<1> QED BY <1>1, FirstIn DEF Sequences

\* A runner's time is the present or its own, its total one that was reported.
RunnerWithin(p) ==
  /\ runner'[p].claimed \in {0, now, runner[p].claimed}
  /\ runner'[p].total \in Amount \cup {None, runner[p].total}
  /\ runner'[p].ended \in Times \cup {None, runner[p].ended}

LEMMA PartsStay ==
  ASSUME LedgerInv, LedgerInv', Grows, Within
  PROVE  /\ UNCHANGED people => PeopleWithin'
         /\ UNCHANGED rounds => RoundsWithin'
         /\ UNCHANGED world => WorldWithin'
         /\ UNCHANGED books => BooksWithin'
         /\ job' = job /\ planned' \subseteq planned => JobsWithin'
         /\ (\A p \in Runners : RunnerWithin(p)) => RunnersWithin'
         /\ UNCHANGED events => EventsWithin'
<1>1. now \in Nat /\ now' \in Nat /\ now' >= now
  BY RoundTyped DEF LedgerInv, BooksInv, Grows, RoundsGrow
<1>2. UNCHANGED people => PeopleWithin'
  BY DEF Within, PeopleWithin, people
<1>3. UNCHANGED rounds => RoundsWithin'
  BY DEF Within, RoundsWithin, rounds
<1>4. UNCHANGED world => WorldWithin'
  BY DEF Within, WorldWithin, world
<1>5. ASSUME UNCHANGED books PROVE BooksWithin'
  <2>1. segment' = segment /\ ledger' = ledger
    BY <1>5 DEF books
  <2>2. ASSUME NEW a \in AssociationIds, NEW c \in CycleIds
        PROVE  RowWithin(segment'[a][c], now')
    <3>1. segment[a][c] \in SegmentType /\ RowWithin(segment[a][c], now)
      BY DEF LedgerInv, BooksInv, SegmentsInv, Within, BooksWithin
    <3>2. PICK row : row = segment[a][c] /\ row = segment'[a][c]
      BY <2>1
    <3>3. row.at # None => row.at < now'
      BY <1>1, <3>1, <3>2 DEF RowWithin, SegmentType
    <3> QED BY <3>1, <3>2, <3>3 DEF RowWithin
  <2> QED BY <2>1, <2>2 DEF BooksWithin, Within
<1>6. job' = job /\ planned' \subseteq planned => JobsWithin'
  BY DEF Within, JobsWithin
<1>7. ASSUME \A p \in Runners : RunnerWithin(p) PROVE RunnersWithin'
  <2>1. ASSUME NEW p \in Runners
        PROVE  /\ runner'[p].claimed <= now' /\ runner'[p].total \in Amount \cup {None}
               /\ runner'[p].ended \in Times \cup {None}
    <3>1. /\ runner[p].claimed <= now /\ runner[p].total \in Amount \cup {None}
          /\ runner[p].ended \in Times \cup {None} /\ runner[p].claimed \in Nat
      BY DEF Within, RunnersWithin, LedgerInv, RunnersInv, RunnerType
    <3> QED BY <1>1, <1>7, <3>1 DEF RunnerWithin
  <2> QED BY <2>1 DEF RunnersWithin
<1>8. UNCHANGED events => EventsWithin'
  BY DEF Within, EventsWithin
<1> QED BY <1>2, <1>3, <1>4, <1>5, <1>6, <1>7, <1>8

LEMMA RunnersRestWithin ==
  ASSUME runner' = runner
  PROVE  \A p \in Runners : RunnerWithin(p)
BY DEF RunnerWithin

LEMMA HappensWithin ==
  ASSUME EventsWithin, NEW kind \in {"faults", "callbacks"}, Happens(kind)
  PROVE  EventsWithin'
<1>1. PICK next : next = [events EXCEPT ![kind] = @ + 1]
  OBVIOUS
<1>2. PICK b \in Bounds : \A k \in DOMAIN b : next[k] <= b[k]
  BY <1>1 DEF Happens
<1>3. events' = next
  BY <1>1 DEF Happens
<1>4. next \in [faults : Nat, callbacks : Nat]
  BY <1>1 DEF EventsWithin
<1> QED BY <1>2, <1>3, <1>4 DEF EventsWithin

LEMMA EvidenceWithin ==
  ASSUME LedgerInv, LedgerInv', Grows, Within, NEW status, Evidence(status)
  PROVE  EventsWithin'
BY PartsStay, HappensWithin DEF Evidence, Fault, Within

-----------------------------------------------------------------------------
(* Rounds, rows and ledgers within their bounds.                           *)

LEMMA NewAssociationWithin ==
  ASSUME Within, LedgerInv, NEW u, NEW d, NEW fresh, NewAssociation(u, d, fresh)
  PROVE  PeopleWithin' /\ nextAssociation \in AssociationIds /\ now' = now + 2 /\ now < now'
<1>1. nextAssociation \in Nat \ {0} /\ now \in Nat
  BY DEF LedgerInv, BooksInv, PeopleInv, RoundsInv
<1> QED BY <1>1, BoundsTyped DEF NewAssociation, PeopleWithin, AssociationIds, TimePasses

LEMMA AssociateWithin ==
  ASSUME LedgerInv, LedgerInv', Grows, Within, NEW u, NEW d, NEW fresh, Associate(u, d, fresh)
  PROVE  Within'
<1>1. /\ UNCHANGED <<world, rounds, books, job, planned, runner, events>>
      /\ NewAssociation(u, d, fresh)
  BY DEF Associate
<1> QED BY <1>1, NewAssociationWithin, PartsStay, RunnersRestWithin DEF Within

LEMMA ImportWithin ==
  ASSUME LedgerInv, LedgerInv', Grows, Within, NEW u \in Users, NEW d \in Devices,
         import_initial_usage(u, d, 1)
  PROVE  Within'
<1>1. /\ UNCHANGED <<world, rounds, job, planned, runner, events>>
      /\ NewAssociation(u, d, FALSE)
  BY DEF import_initial_usage
<1>2. PICK n \in AssociationIds : n = nextAssociation
  BY <1>1, NewAssociationWithin
<1>3. PICK c \in CycleIds : c = Latest
  BY BoundsTyped DEF import_initial_usage, Latest, CycleIds, LedgerInv, BooksInv, RoundsInv
<1>4. now \in Nat /\ now' \in Nat /\ now < now'
  BY <1>1, NewAssociationWithin DEF LedgerInv, BooksInv, RoundsInv
<1>5. PICK row : row = [baseline |-> total[d], at |-> now, used |-> 1, imported |-> 1,
                        quality |-> "VERIFIED"]
  OBVIOUS
<1>6. RowWithin(row, now')
  <2>1. total[d] \in Amount
    BY DEF Within, WorldWithin
  <2> QED BY <1>4, <1>5, <2>1 DEF RowWithin
<1>7. segment' = [segment EXCEPT ![n][c] = row]
  BY <1>2, <1>3, <1>5 DEF import_initial_usage
<1>8. segment \in [AssociationIds -> [CycleIds -> SegmentType]]
  BY DEF LedgerInv, BooksInv, SegmentsInv
<1>9. ASSUME NEW b \in AssociationIds, NEW e \in CycleIds
      PROVE  RowWithin(segment'[b][e], now')
  <2>1. CASE b = n /\ e = c
    <3>1. segment'[b][e] = row
      BY <1>7, <1>8, <2>1
    <3> QED BY <1>6, <3>1 DEF RowWithin
  <2>2. CASE ~(b = n /\ e = c)
    <3>1. segment'[b][e] = segment[b][e]
      BY <1>7, <1>8, <2>2
    <3>2. segment[b][e] \in SegmentType /\ RowWithin(segment[b][e], now)
      BY <1>8 DEF Within, BooksWithin
    <3>3. segment[b][e].at \in Nat \cup {None}
      BY <3>2 DEF SegmentType
    <3>4. segment[b][e].at # None => segment[b][e].at < now'
      BY <1>4, <3>2, <3>3 DEF RowWithin
    <3> QED BY <3>1, <3>2, <3>4 DEF RowWithin
  <2> QED BY <2>1, <2>2
<1>10. ledger' \in [Users -> [CycleIds -> LedgerRow]]
  <2>1. ledger \in [Users -> [CycleIds -> LedgerRow]]
    BY DEF Within, BooksWithin
  <2>2. ledger' = [ledger EXCEPT ![u][c] = [used |-> 1, quality |-> "VERIFIED"]]
    BY <1>3 DEF import_initial_usage
  <2>3. [used |-> 1, quality |-> "VERIFIED"] \in LedgerRow
    BY DEF LedgerRow, Qualities
  <2> HIDE DEF LedgerRow
  <2> QED BY <2>1, <2>2, <2>3
<1>11. BooksWithin'
  BY <1>9, <1>10 DEF BooksWithin
<1> QED BY <1>1, <1>11, NewAssociationWithin, PartsStay, RunnersRestWithin DEF Within

LEMMA EndWithin ==
  ASSUME LedgerInv, LedgerInv', Grows, Within, NEW a \in AssociationIds, End(a)
  PROVE  Within'
<1>1. UNCHANGED <<nextAssociation, world, rounds, books, job, planned, runner, events>>
  BY DEF End
<1>2. PeopleWithin'
  BY <1>1 DEF Within, PeopleWithin
<1> QED BY <1>1, <1>2, PartsStay, RunnersRestWithin DEF Within

LEMMA ReportWithin ==
  ASSUME LedgerInv, LedgerInv', Grows, Within, NEW a \in AssociationIds, Report(a)
  PROVE  Within'
<1>1. UNCHANGED <<now, regressed, people, rounds, books, job, planned, runner, events>>
  BY DEF Report
<1>2. PICK d : d = association[a].device
  OBVIOUS
<1>3. total[d] < MaxTotal /\ total' = [total EXCEPT ![d] = @ + 1]
  BY <1>2 DEF Report
<1>4. total \in [Devices -> Amount] /\ MaxTotal \in Nat
  BY BoundAssumption DEF Within, WorldWithin
<1>5. total' \in [Devices -> Amount]
  <2>1. ASSUME NEW e \in Devices PROVE total'[e] \in Amount
    <3>1. total[e] \in Amount
      BY <1>4
    <3>2. total'[e] = IF e = d THEN total[e] + 1 ELSE total[e]
      BY <1>3, <1>4
    <3> QED BY <1>3, <1>4, <3>1, <3>2 DEF Amount
  <2>2. total' = [e \in Devices |-> total'[e]]
    BY <1>3, <1>4
  <2> QED BY <2>1, <2>2
<1>6. WorldWithin'
  BY <1>1, <1>5 DEF Within, WorldWithin
<1> QED BY <1>1, <1>6, PartsStay, RunnersRestWithin DEF Within

LEMMA RegressWithin ==
  ASSUME LedgerInv, LedgerInv', Grows, Within, NEW d \in Devices, Regress(d)
  PROVE  Within'
<1>1. UNCHANGED <<now, spent, people, rounds, books, job, planned, runner>>
  BY DEF Regress
<1>2. total[d] > 0 /\ total' = [total EXCEPT ![d] = @ - 1] /\ regressed' = regressed \cup {d}
  BY DEF Regress
<1>3. total \in [Devices -> Amount] /\ MaxTotal \in Nat /\ regressed \subseteq Devices
  BY BoundAssumption DEF Within, WorldWithin
<1>4. total' \in [Devices -> Amount]
  BY <1>2, <1>3 DEF Amount
<1>5. WorldWithin'
  BY <1>2, <1>3, <1>4 DEF WorldWithin
<1>6. EventsWithin'
  BY HappensWithin DEF Regress, Fault, Within
<1> QED BY <1>1, <1>5, <1>6, PartsStay, RunnersRestWithin DEF Within

LEMMA RolloverWithin ==
  ASSUME LedgerInv, LedgerInv', Grows, Within, NEW status \in {"VERIFIED", "NEEDS_REVIEW"},
         SyncRollover(status)
  PROVE  Within'
<1>1. UNCHANGED <<now, world, people, books, job, planned, runner>> /\ Evidence(status)
  BY DEF SyncRollover
<1>2. PICK n \in CycleIds : n = nextCycle
  BY BoundsTyped DEF SyncRollover, LedgerInv, BooksInv, RoundsInv, CycleIds
<1>3. nextCycle' = n + 1 /\ CycleIds \subseteq Nat
  BY <1>2, BoundsTyped DEF SyncRollover, CycleIds
<1>4. PICK started, reset :
        cycle' = [c \in CycleIds |->
                    IF c = n THEN [started |-> started, reset |-> reset, created |-> now, status |-> status]
                    ELSE IF c < n THEN [cycle[c] EXCEPT !.status = "EXPIRED"] ELSE cycle[c]]
  BY <1>2 DEF SyncRollover
<1>5. ASSUME NEW c \in CycleIds
      PROVE  IF c < nextCycle' THEN cycle'[c].status # "NONE" ELSE cycle'[c] = NoCycle
  <2>1. cycle[c] \in RoundType
    BY DEF LedgerInv, BooksInv, RoundsInv
  <2>2. CASE c = n
    BY <1>3, <1>4, <2>2
  <2>3. CASE c < n
    <3>1. cycle'[c] = [cycle[c] EXCEPT !.status = "EXPIRED"]
      BY <1>3, <1>4, <2>3
    <3> QED BY <1>3, <2>1, <2>3, <3>1 DEF RoundType
  <2>4. CASE c > n
    BY <1>2, <1>3, <1>4, <2>4 DEF Within, RoundsWithin
  <2>5. c \in Nat /\ n \in Nat
    BY <1>3
  <2> QED BY <2>2, <2>3, <2>4, <2>5
<1>6. RoundsWithin'
  BY <1>5 DEF RoundsWithin
<1> QED BY <1>1, <1>6, EvidenceWithin, PartsStay, RunnersRestWithin DEF Within

LEMMA CurrentWithin ==
  ASSUME LedgerInv, LedgerInv', Grows, Within, NEW status \in {"VERIFIED", "NEEDS_REVIEW"},
         SyncCurrent(status)
  PROVE  Within'
<1>1. UNCHANGED <<now, nextCycle, world, people, books, job, planned, runner>> /\ Evidence(status)
  BY DEF SyncCurrent
<1>2. cycle' = [cycle EXCEPT ![Latest].status = status] /\ Latest = nextCycle - 1
  BY DEF SyncCurrent, Latest
<1>3. cycle \in [CycleIds -> RoundType] /\ nextCycle \in Nat /\ CycleIds \subseteq Nat
  BY BoundsTyped DEF LedgerInv, BooksInv, RoundsInv, CycleIds
<1>4. ASSUME NEW c \in CycleIds
      PROVE  IF c < nextCycle' THEN cycle'[c].status # "NONE" ELSE cycle'[c] = NoCycle
  <2>1. CASE c = Latest
    <3>1. cycle'[c].status = status /\ c < nextCycle'
      BY <1>1, <1>2, <1>3, <2>1 DEF RoundType
    <3> QED BY <3>1
  <2>2. CASE c # Latest
    <3>1. cycle'[c] = cycle[c]
      BY <1>2, <1>3, <2>2
    <3> QED BY <1>1, <3>1 DEF Within, RoundsWithin
  <2> QED BY <2>1, <2>2
<1>5. RoundsWithin'
  BY <1>4 DEF RoundsWithin
<1> QED BY <1>1, <1>5, EvidenceWithin, PartsStay, RunnersRestWithin DEF Within

LEMMA PassWithin ==
  ASSUME LedgerInv, LedgerInv', Grows, Within,
         Pass \/ UNCHANGED vars
  PROVE  Within'
<1>1. UNCHANGED <<world, people, rounds, books, job, planned, runner, events>>
  BY DEF Pass, vars
<1> QED BY <1>1, PartsStay, RunnersRestWithin DEF Within

LEMMA SchedulingWithin ==
  ASSUME LedgerInv, LedgerInv', Grows, Within, NEW a \in AssociationIds,
         \/ after_authorized(a) \/ before_revoke(a) \/ schedule_after_revoke(a) \/ TickRead(a)
         \/ BecomesDue(a)
         \/ \E s \in Sequences : TickEnqueue(a, s)
  PROVE  Within'
<1>1. UNCHANGED <<world, people, rounds, books, runner>>
  BY DEF after_authorized, before_revoke, schedule_after_revoke, TickRead, BecomesDue, TickEnqueue
<1>2. EventsWithin'
  <2>1. UNCHANGED events \/ Happens("callbacks")
    BY DEF after_authorized, before_revoke, schedule_after_revoke, TickRead, BecomesDue, TickEnqueue
  <2> QED BY <2>1, PartsStay, HappensWithin DEF Within
<1>3. job' = job \/ \E s \in Sequences : \E phase : job' = [job EXCEPT ![a][s].phase = phase]
  BY JobSequences DEF after_authorized, before_revoke, schedule_after_revoke, TickRead, BecomesDue, TickEnqueue, Enqueue
<1>4. planned' \subseteq planned \cup {<<a, s>> : s \in Sequences}
  <2>1. CASE TickRead(a)
    <3>1. CASE job[a][Initial].phase = "none"
      BY <2>1, <3>1, JobSequences DEF TickRead
    <3>2. CASE job[a][Initial].phase # "none"
      <4>1. PICK S : S = {s \in Periodic : job[a][s].phase = "none"}
        OBVIOUS
      <4>2. S \subseteq Periodic /\ S # {} /\ planned' = planned \cup {<<a, First(S)>>}
        BY <2>1, <3>2, <4>1 DEF TickRead
      <4>3. First(S) \in Sequences
        BY <4>2, PlannedNext
      <4> QED BY <4>2, <4>3
    <3> QED BY <3>1, <3>2
  <2>2. CASE ~TickRead(a)
    BY <2>2 DEF after_authorized, before_revoke, schedule_after_revoke, BecomesDue, TickEnqueue
  <2> QED BY <2>1, <2>2
<1>5. JobsWithin'
  <2>1. ASSUME NEW b \in AssociationIds, NEW s \in Sequences PROVE job'[b][s].total = job[b][s].total
    <3>1. job \in [AssociationIds -> [Sequences -> JobType]]
      BY DEF LedgerInv, BooksInv, JobsInv
    <3>2. CASE job' = job
      BY <3>2
    <3>3. ASSUME NEW e \in Sequences, NEW phase, job' = [job EXCEPT ![a][e].phase = phase]
          PROVE  job'[b][s].total = job[b][s].total
      <4>1. job[b][s] \in JobType
        BY <3>1
      <4>2. job'[b][s] = IF b = a /\ s = e THEN [job[b][s] EXCEPT !.phase = phase] ELSE job[b][s]
        BY <3>1, <3>3
      <4> QED BY <4>1, <4>2 DEF JobType
    <3> QED BY <1>3, <3>2, <3>3
  <2> QED BY <1>4, <2>1 DEF Within, JobsWithin
<1> QED BY <1>1, <1>2, <1>5, PartsStay, RunnersRestWithin DEF Within

LEMMA AssociationsFinite ==
  ASSUME NEW S \in SUBSET AssociationIds
  PROVE  IsFiniteSet(S)
<1>1. IsFiniteSet(AssociationIds)
  BY BoundsTyped, FS_Interval DEF AssociationIds
<1> QED BY <1>1, FS_Subset

LEMMA RefreshedTyped ==
  ASSUME NEW u, NEW c \in CycleIds, NEW seg \in [AssociationIds -> [CycleIds -> SegmentType]],
         ledger[u][c] \in LedgerRow
  PROVE  refreshed(u, c, seg) \in LedgerRow
<1>1. PICK rows : rows = {a \in AssociationIds : association[a].user = u /\ seg[a][c] # NoSegment}
  OBVIOUS
<1>2. PICK known : known = {a \in rows : seg[a][c].used # None}
  OBVIOUS
<1>3. PICK charges : charges = [a \in rows |-> seg[a][c].used]
  OBVIOUS
<1>4. PICK sum : sum = IF known = {} THEN None ELSE SumFunctionOnSet(charges, known)
  OBVIOUS
<1>5. sum \in Nat \cup {None}
  <2>1. ASSUME NEW a \in known PROVE charges[a] \in Nat
    <3>1. a \in rows /\ a \in AssociationIds /\ seg[a][c].used # None
      BY <1>1, <1>2
    <3>2. seg[a][c] \in SegmentType
      BY <3>1
    <3> QED BY <1>3, <3>1, <3>2 DEF SegmentType
  <2>2. known \in SUBSET AssociationIds
    BY <1>1, <1>2
  <2>3. SumFunctionOnSet(charges, known) \in Nat
    BY <2>1, <2>2, AssociationsFinite, SumIsNat
  <2> QED BY <1>4, <2>3
<1>6. PICK falls : falls = (ledger[u][c].used # None /\ (sum = None \/ sum < ledger[u][c].used))
  OBVIOUS
<1>7. PICK review : review =
        (\/ \E a \in AssociationIds \ rows : association[a].user = u /\ Overlaps(a, c)
         \/ falls
         \/ \E a \in rows : seg[a][c].quality = "NEEDS_REVIEW"
         \/ known # {} /\ known # rows)
  OBVIOUS
<1>8. PICK verified : verified = (known = rows /\ \A a \in rows : seg[a][c].quality = "VERIFIED")
  OBVIOUS
<1>9. refreshed(u, c, seg) =
        [used |-> IF falls THEN ledger[u][c].used ELSE sum,
         quality |-> CASE review -> "NEEDS_REVIEW"
                       [] ~review /\ verified -> "VERIFIED"
                       [] ~review /\ known = {} -> "UNKNOWN"
                       [] OTHER -> "NEEDS_REVIEW"]
  BY <1>1, <1>2, <1>3, <1>4, <1>6, <1>7, <1>8 DEF refreshed
<1>10. (IF falls THEN ledger[u][c].used ELSE sum) \in Nat \cup {None}
  BY <1>5 DEF LedgerRow
<1>11. (CASE review -> "NEEDS_REVIEW"
          [] ~review /\ verified -> "VERIFIED"
          [] ~review /\ known = {} -> "UNKNOWN"
          [] OTHER -> "NEEDS_REVIEW") \in Qualities
  BY DEF Qualities
<1> QED BY <1>9, <1>10, <1>11 DEF LedgerRow

LEMMA BookWithin ==
  ASSUME LedgerInv, LedgerInv', Grows, Within, NEW a \in AssociationIds, a < nextAssociation,
         NEW c, NEW row, Book(a, c, row), c \in CycleIds => RowWithin(row, now), MeterInv
  PROVE  BooksWithin'
<1>1. now \in Nat /\ now' \in Nat /\ now' >= now
  BY RoundTyped DEF LedgerInv, BooksInv, Grows, RoundsGrow
<1>2. PICK u \in Users : u = association[a].user
  BY DEF MeterInv, ClockInv, LedgerInv, BooksInv, PeopleInv, PersonType
<1>3. PICK seg : seg = segment'
  OBVIOUS
<1>4. /\ seg \in [AssociationIds -> [CycleIds -> SegmentType]]
      /\ segment \in [AssociationIds -> [CycleIds -> SegmentType]]
  BY <1>3 DEF LedgerInv, BooksInv, SegmentsInv
<1>5. seg = [segment EXCEPT ![a][c] = row] /\ ledger' = [ledger EXCEPT ![u][c] = refreshed(u, c, seg)]
  BY <1>2, <1>3 DEF Book
<1>6. ASSUME NEW b \in AssociationIds, NEW e \in CycleIds
      PROVE  RowWithin(segment'[b][e], now')
  <2>1. PICK old, new : old = segment[b][e] /\ new = segment'[b][e]
    OBVIOUS
  <2>2. RowWithin(old, now) /\ new \in SegmentType
    BY <1>3, <1>4, <2>1 DEF Within, BooksWithin
  <2>3. (c \in CycleIds /\ new = row) \/ new = old
    <3>1. PICK page : page = segment[a]
      OBVIOUS
    <3>2. page \in [CycleIds -> SegmentType] /\ seg[a] = [page EXCEPT ![c] = row]
      BY <1>4, <1>5, <3>1
    <3>3. CASE b # a
      BY <1>3, <1>4, <1>5, <2>1, <3>3
    <3>4. CASE b = a
      BY <1>3, <2>1, <3>1, <3>2, <3>4
    <3> QED BY <3>3, <3>4
  <2>4. RowWithin(new, now)
    BY <2>2, <2>3
  <2>5. new.at \in Nat \cup {None}
    BY <2>2 DEF SegmentType
  <2>6. new.at # None => new.at < now'
    BY <1>1, <2>4, <2>5 DEF RowWithin
  <2>7. RowWithin(new, now')
    BY <2>4, <2>6 DEF RowWithin
  <2> QED BY <2>1, <2>7
<1>7. ledger' \in [Users -> [CycleIds -> LedgerRow]]
  <2>1. ledger \in [Users -> [CycleIds -> LedgerRow]]
    BY DEF Within, BooksWithin
  <2>2. PICK new : new = refreshed(u, c, seg)
    OBVIOUS
  <2>3. c \in CycleIds => new \in LedgerRow
    BY <1>4, <2>1, <2>2, RefreshedTyped
  <2>4. ledger' = [ledger EXCEPT ![u][c] = new]
    BY <1>5, <2>2
  <2>5. ASSUME NEW v \in Users, NEW e \in CycleIds PROVE ledger'[v][e] \in LedgerRow
    <3>1. ledger'[v][e] = IF v = u /\ e = c THEN new ELSE ledger[v][e]
      BY <2>1, <2>4
    <3> QED BY <2>1, <2>3, <3>1
  <2>6. /\ ledger' = [v \in Users |-> ledger'[v]]
        /\ \A v \in Users : ledger'[v] = [e \in CycleIds |-> ledger'[v][e]]
    BY <2>1, <2>4
  <2>7. ASSUME NEW v \in Users PROVE ledger'[v] \in [CycleIds -> LedgerRow]
    BY <2>5, <2>6
  <2> QED BY <2>6, <2>7
<1> QED BY <1>6, <1>7 DEF BooksWithin

-----------------------------------------------------------------------------
(* Rows that are opened and charged, and every step.                       *)

LEMMA MoverWithin ==
  ASSUME NEW p \in Runners, \A q \in Runners : q # p => runner'[q] = runner[q], RunnerWithin(p)
  PROVE  \A q \in Runners : RunnerWithin(q)
BY DEF RunnerWithin

LEMMA SettleWithin ==
  ASSUME LedgerInv, NEW p \in Runners, NEW step, Settle(p, step)
  PROVE  \A q \in Runners : RunnerWithin(q)
<1>1. runner \in [Runners -> RunnerType]
  BY DEF LedgerInv, RunnersInv
<1>2. \A q \in Runners : q # p => runner'[q] = runner[q]
  BY <1>1 DEF Settle
<1>3. runner'[p] = [Idle EXCEPT !.assoc = runner[p].assoc, !.seq = runner[p].seq,
                                !.latest = runner[p].latest, !.step = step]
  BY <1>1 DEF Settle
<1>4. runner'[p].claimed = 0 /\ runner'[p].total = None /\ runner'[p].ended = None
  BY <1>3 DEF Idle
<1> QED BY <1>2, <1>4, MoverWithin DEF RunnerWithin

LEMMA PlanAsWithin ==
  ASSUME LedgerInv, NEW p \in Runners, NEW ended \in Times \cup {None, runner[p].ended},
         NEW cutoff, NEW next, PlanAs(p, ended, cutoff, next)
  PROVE  \A q \in Runners : RunnerWithin(q)
<1>1. runner \in [Runners -> RunnerType]
  BY DEF LedgerInv, RunnersInv
<1>2. CASE Settle(p, "retry")
  BY <1>2, SettleWithin
<1>3. ASSUME NEW plan, NEW unresolved, NEW end \in {ended, None},
             runner' = [runner EXCEPT ![p].plan = plan, ![p].todo = plan, ![p].step = next,
                          ![p].unresolved = unresolved, ![p].claimed = 0, ![p].ended = end]
      PROVE  \A q \in Runners : RunnerWithin(q)
  <2>1. \A q \in Runners : q # p => runner'[q] = runner[q]
    BY <1>1, <1>3
  <2>2. runner[p] \in RunnerType
    BY <1>1
  <2>3. runner'[p].claimed = 0 /\ runner'[p].total = runner[p].total /\ runner'[p].ended = end
    BY <1>1, <1>3, <2>2 DEF RunnerType
  <2> QED BY <1>3, <2>1, <2>3, MoverWithin DEF RunnerWithin
<1> QED BY <1>2, <1>3 DEF PlanAs

LEMMA AdvanceWithin ==
  ASSUME LedgerInv, NEW p \in Runners, NEW next, Advance(p, next)
  PROVE  \A q \in Runners : RunnerWithin(q)
<1>1. runner \in [Runners -> RunnerType]
  BY DEF LedgerInv, RunnersInv
<1>2. ASSUME NEW step, Settle(p, step)
      PROVE  \A q \in Runners : RunnerWithin(q)
  BY <1>2, SettleWithin
<1>3. ASSUME NEW todo, runner' = [runner EXCEPT ![p].todo = todo]
      PROVE  \A q \in Runners : RunnerWithin(q)
  <2>1. \A q \in Runners : q # p => runner'[q] = runner[q]
    BY <1>1, <1>3
  <2>2. runner[p] \in RunnerType
    BY <1>1
  <2>3. /\ runner'[p].claimed = runner[p].claimed /\ runner'[p].total = runner[p].total
        /\ runner'[p].ended = runner[p].ended
    BY <1>1, <1>3, <2>2 DEF RunnerType
  <2> QED BY <2>1, <2>3, MoverWithin DEF RunnerWithin
<1>4. ASSUME NEW step, NEW todo,
             runner' = [runner EXCEPT ![p].step = step, ![p].todo = todo, ![p].plan = {}]
      PROVE  \A q \in Runners : RunnerWithin(q)
  <2>1. \A q \in Runners : q # p => runner'[q] = runner[q]
    BY <1>1, <1>4
  <2>2. runner[p] \in RunnerType
    BY <1>1
  <2>3. /\ runner'[p].claimed = runner[p].claimed /\ runner'[p].total = runner[p].total
        /\ runner'[p].ended = runner[p].ended
    BY <1>1, <1>4, <2>2 DEF RunnerType
  <2> QED BY <2>1, <2>3, MoverWithin DEF RunnerWithin
<1> QED BY <1>2, <1>3, <1>4 DEF Advance

LEMMA PhaseWithin ==
  ASSUME LedgerInv, Within, NEW a \in AssociationIds, NEW s \in Sequences, NEW phase,
         job' = [job EXCEPT ![a][s].phase = phase] \/ job' = job,
         planned' \subseteq planned
  PROVE  JobsWithin'
<1>1. job \in [AssociationIds -> [Sequences -> JobType]]
  BY DEF LedgerInv, BooksInv, JobsInv
<1>2. ASSUME NEW b \in AssociationIds, NEW e \in Sequences PROVE job'[b][e].total = job[b][e].total
  <2>1. CASE job' = job
    BY <2>1
  <2>2. CASE job' = [job EXCEPT ![a][s].phase = phase]
    <3>1. job[b][e] \in JobType
      BY <1>1
    <3>2. job'[b][e] = IF b = a /\ e = s THEN [job[b][e] EXCEPT !.phase = phase] ELSE job[b][e]
      BY <1>1, <2>2
    <3> QED BY <3>1, <3>2 DEF JobType
  <2> QED BY <2>1, <2>2
<1> QED BY <1>2 DEF Within, JobsWithin

LEMMA ClaimWithin ==
  ASSUME LedgerInv, LedgerInv', Grows, Within, NEW p \in Runners, NEW a \in AssociationIds,
         NEW s \in Sequences, Claim(p, a, s)
  PROVE  Within'
<1>1. UNCHANGED <<now, world, people, rounds, books, planned>>
  BY DEF Claim
<1>2. EventsWithin'
  BY PartsStay, HappensWithin DEF Claim, Fault, Within
<1>3. JobsWithin'
  BY <1>1, PhaseWithin DEF Claim
<1>4. \A q \in Runners : RunnerWithin(q)
  <2>1. SUFFICES ASSUME NEW q \in Runners PROVE RunnerWithin(q)
    OBVIOUS
  <2>2. runner[q] \in RunnerType
    BY DEF LedgerInv, RunnersInv
  <2>3. CASE q = p
    <3>1. runner'[q] = [Idle EXCEPT !.assoc = a, !.seq = s, !.step = "plan", !.latest = TRUE, !.claimed = now]
      BY <2>3 DEF Claim
    <3>2. runner'[q].claimed = now /\ runner'[q].total = None /\ runner'[q].ended = None
      BY <3>1 DEF Idle
    <3> QED BY <3>2 DEF RunnerWithin
  <2>4. CASE q # p
    <3>1. runner'[q] = [runner[q] EXCEPT !.latest = FALSE] \/ runner'[q] = runner[q]
      BY <2>4 DEF Claim
    <3>2. /\ runner'[q].claimed = runner[q].claimed /\ runner'[q].total = runner[q].total
          /\ runner'[q].ended = runner[q].ended
      BY <2>2, <3>1 DEF RunnerType
    <3> QED BY <3>2 DEF RunnerWithin
  <2> QED BY <2>3, <2>4
<1> QED BY <1>1, <1>2, <1>3, <1>4, PartsStay DEF Within

LEMMA EndTyped ==
  ASSUME LedgerInv, MeterInv, NEW a \in AssociationIds, a < nextAssociation
  PROVE  association[a].ended \in Times \cup {None}
<1>1. association[a] \in PersonType /\ now \in Nat
  BY DEF LedgerInv, BooksInv, PeopleInv, RoundsInv
<1>2. (association[a].ended # None => association[a].ended < now) /\ now <= LastTime
  BY DEF MeterInv, ClockInv
<1> QED BY <1>1, <1>2, WeekIsEven DEF PersonType, Times

LEMMA PlanWithin ==
  ASSUME LedgerInv, LedgerInv', Grows, Within, MeterInv, NEW p \in Runners, Plan(p) \/ PlanSample(p)
  PROVE  Within'
<1>1. UNCHANGED <<now, world, people, rounds, books, job, planned, events>>
  BY DEF Plan, PlanSample
<1>2. \A q \in Runners : RunnerWithin(q)
  <2>1. CASE Plan(p)
    <3>1. PICK a \in AssociationIds, s \in Sequences :
            a = runner[p].assoc /\ s = runner[p].seq /\ a < nextAssociation
      BY <2>1, Place DEF Plan
    <3>2. association[a].ended \in Times \cup {None}
      BY <3>1, EndTyped
    <3>3. \E cutoff, next : PlanAs(p, association[a].ended, cutoff, next)
      BY <2>1, <3>1 DEF Plan
    <3> QED BY <3>2, <3>3, PlanAsWithin
  <2>2. CASE PlanSample(p)
    <3>1. \E cutoff, next : PlanAs(p, runner[p].ended, cutoff, next)
      BY <2>2 DEF PlanSample
    <3> QED BY <3>1, PlanAsWithin
  <2> QED BY <2>1, <2>2
<1> QED BY <1>1, <1>2, PartsStay DEF Within

LEMMA CollectWithin ==
  ASSUME LedgerInv, LedgerInv', Grows, Within, NEW p \in Runners, Collect(p) \/ Answer(p)
  PROVE  Within'
<1>1. UNCHANGED <<world, people, rounds, books, job, planned, events>>
  BY DEF Collect, Answer
<1>2. runner \in [Runners -> RunnerType] /\ runner[p] \in RunnerType
  BY DEF LedgerInv, RunnersInv
<1>3. \A q \in Runners : q # p => runner'[q] = runner[q]
  BY <1>2 DEF Collect, Answer, Goto
<1>4. RunnerWithin(p)
  <2>1. CASE runner' = [runner EXCEPT ![p].step = "request", ![p].claimed = now]
    <3>1. runner'[p] = [runner[p] EXCEPT !.step = "request", !.claimed = now]
      BY <1>2, <2>1
    <3> QED BY <1>2, <3>1 DEF RunnerWithin, RunnerType
  <2>2. CASE Goto(p, "planSample")
    <3>1. runner'[p] = [runner[p] EXCEPT !.step = "planSample"]
      BY <1>2, <2>2 DEF Goto
    <3> QED BY <1>2, <3>1 DEF RunnerWithin, RunnerType
  <2>3. CASE Answer(p)
    <3>1. PICK a \in AssociationIds, s \in Sequences :
            a = runner[p].assoc /\ s = runner[p].seq /\ a < nextAssociation
      BY <2>3, Place DEF Answer
    <3>2. PICK x : x = total[association[a].device]
      OBVIOUS
    <3>3. x \in Amount
      BY <3>1, <3>2 DEF LedgerInv, BooksInv, PeopleInv, Within, WorldWithin
    <3>4. runner'[p] = [runner[p] EXCEPT !.step = "save", !.total = x]
      BY <1>2, <2>3, <3>1, <3>2 DEF Answer
    <3>5. runner'[p].claimed = runner[p].claimed /\ runner'[p].total = x /\ runner'[p].ended = runner[p].ended
      BY <1>2, <3>4 DEF RunnerType
    <3> QED BY <3>3, <3>5 DEF RunnerWithin
  <2> QED BY <2>1, <2>2, <2>3 DEF Collect
<1> QED BY <1>1, <1>3, <1>4, MoverWithin, PartsStay DEF Within

LEMMA SaveWithin ==
  ASSUME LedgerInv, LedgerInv', Grows, Within, NEW p \in Runners, Save(p)
  PROVE  Within'
<1>1. UNCHANGED <<now, world, people, rounds, books, planned, events>>
  BY DEF Save
<1>2. runner \in [Runners -> RunnerType] /\ runner[p] \in RunnerType
  BY DEF LedgerInv, RunnersInv
<1>3. \A q \in Runners : q # p => runner'[q] = runner[q]
  BY <1>2 DEF Save
<1>4. RunnerWithin(p)
  <2>1. runner'[p] = [runner[p] EXCEPT !.step = "planSample", !.claimed = 0, !.total = None]
    BY <1>2 DEF Save
  <2> QED BY <1>2, <2>1 DEF RunnerWithin, RunnerType
<1>5. JobsWithin'
  <2>1. PICK a \in AssociationIds, s \in Sequences :
          a = runner[p].assoc /\ s = runner[p].seq /\ a < nextAssociation
    BY Place DEF Save
  <2>2. PICK t, x : t = runner[p].claimed /\ x = runner[p].total
    OBVIOUS
  <2>3. x \in Amount \cup {None}
    BY <2>2 DEF Within, RunnersWithin
  <2>4. job' = job \/ job' = [job EXCEPT ![a][s].sampled = t, ![a][s].total = x]
    BY <2>1, <2>2 DEF Save
  <2>5. job \in [AssociationIds -> [Sequences -> JobType]]
    BY DEF LedgerInv, BooksInv, JobsInv
  <2>6. ASSUME NEW b \in AssociationIds, NEW e \in Sequences
        PROVE  job'[b][e].total \in {job[b][e].total, x}
    <3>1. CASE job' = job
      BY <3>1
    <3>2. CASE job' = [job EXCEPT ![a][s].sampled = t, ![a][s].total = x]
      <4>1. job[b][e] \in JobType
        BY <2>5
      <4>2. job'[b][e] = IF b = a /\ e = s THEN [job[b][e] EXCEPT !.sampled = t, !.total = x]
                         ELSE job[b][e]
        BY <2>5, <3>2
      <4> QED BY <4>1, <4>2 DEF JobType
    <3> QED BY <2>4, <3>1, <3>2
  <2> QED BY <1>1, <2>3, <2>6 DEF Within, JobsWithin
<1> QED BY <1>1, <1>3, <1>4, <1>5, MoverWithin, PartsStay DEF Within

LEMMA CompletionWithin ==
  ASSUME LedgerInv, LedgerInv', Grows, Within, NEW p \in Runners, Finish(p) \/ Retry(p)
  PROVE  Within'
<1>1. UNCHANGED <<now, world, people, rounds, books, planned, events>>
  BY DEF Finish, Retry
<1>2. runner' = [runner EXCEPT ![p] = Idle] /\ runner \in [Runners -> RunnerType]
  BY DEF Finish, Retry, LedgerInv, RunnersInv
<1>3. runner'[p] = Idle /\ \A q \in Runners : q # p => runner'[q] = runner[q]
  BY <1>2
<1>4. RunnerWithin(p)
  BY <1>3 DEF RunnerWithin, Idle
<1>5. PICK a \in AssociationIds, s \in Sequences : a = runner[p].assoc /\ s = runner[p].seq
  BY Place DEF Finish, Retry
<1>6. JobsWithin'
  <2>1. \E phase : job' = [job EXCEPT ![a][s].phase = phase] \/ job' = job
    BY <1>5 DEF Finish, Retry
  <2> QED BY <1>1, <2>1, PhaseWithin
<1> QED BY <1>1, <1>3, <1>4, <1>6, MoverWithin, PartsStay DEF Within

LEMMA FaultWithin ==
  ASSUME LedgerInv, LedgerInv', Grows, Within,
         (\E p \in Runners : Fails(p) \/ Cancel(p)) \/ Restart
  PROVE  Within'
<1>1. UNCHANGED <<now, world, people, rounds, books, job>> /\ planned' \subseteq planned /\ Fault
  BY DEF Fails, Cancel, Restart
<1>2. runner \in [Runners -> RunnerType]
  BY DEF LedgerInv, RunnersInv
<1>3. \A q \in Runners : RunnerWithin(q)
  <2>1. CASE Restart
    <3>1. \A q \in Runners : runner'[q] = Idle
      BY <2>1 DEF Restart
    <3> QED BY <3>1 DEF RunnerWithin, Idle
  <2>2. ASSUME NEW p \in Runners, Cancel(p) PROVE \A q \in Runners : RunnerWithin(q)
    <3>1. runner'[p] = Idle /\ \A q \in Runners : q # p => runner'[q] = runner[q]
      BY <1>2, <2>2 DEF Cancel
    <3> QED BY <3>1, MoverWithin DEF RunnerWithin, Idle
  <2>3. ASSUME NEW p \in Runners, Fails(p) PROVE \A q \in Runners : RunnerWithin(q)
    BY <2>3, SettleWithin DEF Fails
  <2> QED BY <2>1, <2>2, <2>3
<1>4. EventsWithin'
  BY <1>1, HappensWithin DEF Fault, Within
<1> QED BY <1>1, <1>3, <1>4, PartsStay DEF Within
LEMMA OpenWithin ==
  ASSUME Within, NEW a \in AssociationIds, NEW c \in CycleIds
  PROVE  RowWithin(SegmentOf(a, c), now) /\ SegmentOf(a, c).quality # "NONE"
<1>1. RowWithin(segment[a][c], now)
  BY DEF Within, BooksWithin
<1>2. CASE segment[a][c] # NoSegment
  BY <1>1, <1>2 DEF SegmentOf, RowWithin
<1>3. CASE segment[a][c] = NoSegment
  <2>1. PICK baseline \in {0, None} :
          SegmentOf(a, c) = [NoSegment EXCEPT !.baseline = baseline, !.quality = "UNKNOWN"]
    BY <1>3 DEF SegmentOf
  <2>2. 0 \in Amount
    BY BoundAssumption DEF Amount
  <2> QED BY <2>1, <2>2 DEF RowWithin, NoSegment
<1> QED BY <1>2, <1>3

LEMMA ChargeWithin ==
  ASSUME LedgerInv, Within, NEW a \in AssociationIds, NEW c \in CycleIds, NEW t \in Nat, t < now, NEW x \in Amount
  PROVE  RowWithin(Charge(a, c, t, x), now)
<1>1. PICK row : row = SegmentOf(a, c)
  OBVIOUS
<1>2. RowWithin(row, now) /\ row.quality # "NONE"
  BY <1>1, OpenWithin
<1>3. row \in SegmentType
  <2>1. segment[a][c] \in SegmentType
    BY DEF LedgerInv, BooksInv, SegmentsInv
  <2> QED BY <1>1, <2>1, OpensSegment DEF LedgerInv, BooksInv
<1>4. ASSUME NEW zeroOrigin PROVE RowWithin(applied(row, t, x, zeroOrigin), now)
  <2>1. PICK new : new = applied(row, t, x, zeroOrigin)
    OBVIOUS
  <2>2. CASE row.at # None /\ t <= row.at
    <3>1. new = row
      <4>1. row.at \in Nat /\ ~(t > row.at)
        BY <1>3, <2>2 DEF SegmentType
      <4> QED BY <2>1, <2>2, <4>1 DEF applied
    <3> QED BY <1>2, <2>1, <3>1
  <2>3. CASE row.baseline = None /\ (row.at = None \/ t > row.at) /\ ~(row.at # None /\ t <= row.at)
    <3>1. new = [row EXCEPT !.baseline = x, !.at = t, !.used = 0, !.quality = "NEEDS_REVIEW"]
      BY <2>1, <2>3 DEF applied
    <3>2. new.baseline = x /\ new.at = t /\ new.quality = "NEEDS_REVIEW"
      BY <1>3, <3>1 DEF SegmentType
    <3> QED BY <2>1, <3>2 DEF RowWithin
  <2>4. CASE /\ ~(row.at # None /\ t <= row.at)
             /\ ~(row.baseline = None /\ (row.at = None \/ t > row.at))
    <3>1. PICK carried : carried = IF row.imported = None THEN 0 ELSE row.imported
      OBVIOUS
    <3>2. PICK candidate : candidate = carried + x - row.baseline
      OBVIOUS
    <3>3. PICK origin :
            origin = (row.imported # None \/ (row.baseline = 0 /\ zeroOrigin))
      OBVIOUS
    <3>4. new = IF candidate < 0 \/ (row.used # None /\ candidate < row.used)
                THEN [row EXCEPT !.at = t, !.quality = "NEEDS_REVIEW"]
                ELSE [row EXCEPT !.at = t, !.used = candidate,
                                 !.quality = IF @ # "NEEDS_REVIEW" /\ origin THEN "VERIFIED" ELSE "NEEDS_REVIEW"]
      BY <2>1, <2>4, <3>1, <3>2, <3>3 DEF applied
    <3>5. new.baseline = row.baseline /\ new.at = t /\ new.quality \in {"VERIFIED", "NEEDS_REVIEW"}
      BY <1>3, <3>4 DEF SegmentType
    <3> QED BY <1>2, <2>1, <3>5 DEF RowWithin
  <2> QED BY <2>2, <2>3, <2>4
<1>5. RowWithin([row EXCEPT !.quality = "NEEDS_REVIEW"], now)
  BY <1>2, <1>3 DEF RowWithin, SegmentType
<1> QED BY <1>1, <1>4, <1>5 DEF Charge

LEMMA EnsureWithin ==
  ASSUME LedgerInv, LedgerInv', Grows, Within, MeterInv, NEW p \in Runners, Ensure(p)
  PROVE  Within'
<1>1. UNCHANGED <<now, world, people, rounds, job, planned, events>>
  BY DEF Ensure
<1>2. PICK a \in AssociationIds, s \in Sequences :
        a = runner[p].assoc /\ s = runner[p].seq /\ a < nextAssociation
  BY Place DEF Ensure
<1>3. PICK c : c = First(runner[p].todo)
  OBVIOUS
<1>4. CASE InContext(a, c)
  <2>1. Book(a, c, SegmentOf(a, c)) /\ \E next : Advance(p, next)
    BY <1>2, <1>3, <1>4 DEF Ensure
  <2>2. c \in CycleIds => RowWithin(SegmentOf(a, c), now)
    BY OpenWithin
  <2> QED BY <1>1, <1>2, <2>1, <2>2, BookWithin, AdvanceWithin, PartsStay DEF Within
<1>5. CASE ~InContext(a, c)
  <2>1. UNCHANGED books /\ Settle(p, "retry")
    BY <1>2, <1>3, <1>5 DEF Ensure
  <2> QED BY <1>1, <2>1, SettleWithin, PartsStay DEF Within
<1> QED BY <1>4, <1>5

LEMMA ApplyWithin ==
  ASSUME LedgerInv, LedgerInv', Grows, Within, MeterInv, NEW p \in Runners, Apply(p)
  PROVE  Within'
<1>1. UNCHANGED <<now, world, people, rounds, job, planned, events>>
  BY DEF Apply
<1>2. PICK a \in AssociationIds, s \in Sequences :
        a = runner[p].assoc /\ s = runner[p].seq /\ a < nextAssociation
  BY Place DEF Apply
<1>3. PICK c, t, x : c = First(runner[p].todo) /\ t = job[a][s].sampled /\ x = job[a][s].total
  OBVIOUS
<1>4. CASE /\ InContext(a, c) /\ t >= Starts(a, c) /\ ~Superseded(a, t)
  <2>1. Book(a, c, Charge(a, c, t, x)) /\ Advance(p, "finish")
    BY <1>2, <1>3, <1>4 DEF Apply
  <2>2. t \in Nat /\ t < now /\ x \in Amount
    <3>1. t # None
      BY <1>2, <1>3 DEF LedgerInv, RunnersInv, Placed, Apply
    <3>2. job[a][s] \in JobType
      BY <1>2 DEF LedgerInv, BooksInv, JobsInv
    <3> QED BY <1>2, <1>3, <3>1, <3>2 DEF LedgerInv, BooksInv, JobsInv, JobType, Within, JobsWithin
  <2>3. c \in CycleIds => RowWithin(Charge(a, c, t, x), now)
    BY <2>2, ChargeWithin
  <2> QED BY <1>1, <1>2, <2>1, <2>3, BookWithin, AdvanceWithin, PartsStay DEF Within
<1>5. CASE ~(/\ InContext(a, c) /\ t >= Starts(a, c) /\ ~Superseded(a, t))
  <2>1. UNCHANGED books /\ Settle(p, "retry")
    BY <1>2, <1>3, <1>5 DEF Apply
  <2> QED BY <1>1, <2>1, SettleWithin, PartsStay DEF Within
<1> QED BY <1>4, <1>5

LEMMA WithinNext ==
  ASSUME LedgerInv, LedgerInv', Grows, Within, MeterInv, [Next]_vars
  PROVE  Within'
<1>1. CASE Environment
  <2>1. ASSUME NEW d \in Devices, Regress(d) PROVE Within'
    BY <2>1, RegressWithin
  <2>2. ASSUME NEW u \in Users, NEW d \in Devices,
               (\E fresh \in BOOLEAN : Associate(u, d, fresh)) \/ import_initial_usage(u, d, 1)
        PROVE  Within'
    BY <2>2, AssociateWithin, ImportWithin
  <2>3. ASSUME NEW a \in AssociationIds, Report(a) \/ End(a) PROVE Within'
    BY <2>3, ReportWithin, EndWithin
  <2>4. ASSUME NEW status \in {"VERIFIED", "NEEDS_REVIEW"}, SyncRollover(status) \/ SyncCurrent(status)
        PROVE  Within'
    BY <2>4, RolloverWithin, CurrentWithin
  <2>5. CASE Pass
    BY <2>5, PassWithin
  <2> QED BY <1>1, <2>1, <2>2, <2>3, <2>4, <2>5 DEF Environment
<1>2. CASE Sampling
  BY <1>2, SchedulingWithin, ClaimWithin DEF Sampling
<1>3. ASSUME NEW p \in Runners, Steps(p)
      PROVE  Within'
  BY <1>3, PlanWithin, EnsureWithin, CollectWithin, SaveWithin, ApplyWithin, CompletionWithin DEF Steps
<1>4. CASE (\E p \in Runners : Fails(p) \/ Cancel(p)) \/ Restart
  BY <1>4, FaultWithin
<1>5. CASE UNCHANGED vars
  BY <1>5, PassWithin
<1> QED BY <1>1, <1>2, <1>3, <1>4, <1>5 DEF Next

-----------------------------------------------------------------------------
(* What a ledger without a mark leaves out: nothing.                       *)

\* The delay after the revocation is over: nothing is added to the total any more.
Closed(a) == job[a][AfterRevokeJob].phase \notin {"none", "waiting"}

\* The final sample of a is of instant f, or may be.
Final(a, f) ==
  \/ job[a][AfterRevokeJob].sampled = f
  \/ \E p \in Runners : /\ runner[p].step \in {"request", "save"} /\ runner[p].assoc = a
                        /\ runner[p].seq = AfterRevokeJob /\ runner[p].claimed = f

Attends(p) ==
  /\ runner[p].step \in {"request", "save"} =>
       association[runner[p].assoc].started < runner[p].claimed
  /\ runner[p].step # "idle" /\ runner[p].seq = AfterRevokeJob => Closed(runner[p].assoc)

\* A sample is asked for after the association began, the final one after it ended and
\* the delay is over.
SampledInv ==
  /\ \A a \in AssociationIds, s \in Sequences :
       job[a][s].sampled # None => association[a].started < job[a][s].sampled
  /\ \A a \in AssociationIds :
       /\ job[a][AfterRevokeJob].phase # "none" => association[a].ended # None
       /\ job[a][AfterRevokeJob].sampled # None => Closed(a)
       /\ <<a, AfterRevokeJob>> \notin planned
  /\ \A p \in Runners : Attends(p)

\* A sample that is saved is the answer a runner had.
SamplesFollow ==
  \A a \in AssociationIds, s \in Sequences :
    \/ job'[a][s].sampled = job[a][s].sampled /\ job'[a][s].total = job[a][s].total
    \/ \E p \in Runners : /\ runner[p].step = "save" /\ runner[p].assoc = a /\ runner[p].seq = s
                          /\ job'[a][s].sampled = runner[p].claimed
                          /\ job'[a][s].total = runner[p].total

\* The final job comes after the end, and the delay is over once.
FinalJobsFollow ==
  \A a \in AssociationIds :
    /\ Closed(a) => Closed(a)'
    /\ job'[a][AfterRevokeJob].phase # "none" =>
         \/ job[a][AfterRevokeJob].phase # "none"
         \/ association[a].ended # None /\ a < nextAssociation
    /\ <<a, AfterRevokeJob>> \notin planned'

\* A runner stops, takes a job, or goes on with it: it asks now, and the answer is to
\* what it asked.
RunnerFollows(p) ==
  \/ runner'[p].step = "idle"
  \/ /\ runner'[p].step = "plan"
     /\ \A a \in AssociationIds :
          runner'[p].assoc = a /\ runner'[p].seq = AfterRevokeJob => Closed(a)'
  \/ /\ runner[p].step # "idle"
     /\ runner'[p].assoc = runner[p].assoc /\ runner'[p].seq = runner[p].seq
     /\ runner'[p].step = "request" =>
          \/ runner'[p].claimed = now
          \/ runner[p].step = "request" /\ runner'[p].claimed = runner[p].claimed
     /\ runner'[p].step = "save" =>
          /\ runner'[p].claimed = runner[p].claimed
          /\ \/ runner[p].step = "save" /\ runner'[p].total = runner[p].total
             \/ runner[p].step = "request" /\ runner'[p].total = TotalOf(runner[p].assoc)

LEMMA SampledKeeps ==
  ASSUME LedgerInv, LedgerInv', Grows, MeterInv, SampledInv, SamplesFollow, FinalJobsFollow,
         \A p \in Runners : RunnerFollows(p)
  PROVE  SampledInv'
<1>1. /\ BooksInv /\ ClockInv /\ runner \in [Runners -> RunnerType]
      /\ \A p \in Runners : Placed(p) /\ Placed(p)'
  BY DEF LedgerInv, RunnersInv, MeterInv
<1>2. ASSUME NEW a \in AssociationIds, a < nextAssociation
      PROVE  /\ association'[a].started = association[a].started
             /\ association[a].started < now
             /\ association[a].ended # None => association'[a].ended # None
  BY <1>1, <1>2 DEF Grows, PeopleGrow, ClockInv
<1>3. ASSUME NEW p \in Runners, runner[p].step # "idle"
      PROVE  runner[p].assoc \in AssociationIds /\ runner[p].assoc < nextAssociation
  BY <1>1, <1>3 DEF Placed
<1>4. ASSUME NEW a \in AssociationIds, NEW s \in Sequences, job'[a][s].sampled # None
      PROVE  association'[a].started < job'[a][s].sampled
  <2>1. CASE job'[a][s].sampled = job[a][s].sampled
    <3>1. a < nextAssociation
      BY <1>1, <1>4, <2>1 DEF BooksInv, JobsInv
    <3> QED BY <1>2, <1>4, <2>1, <3>1 DEF SampledInv
  <2>2. ASSUME NEW p \in Runners, runner[p].step = "save", runner[p].assoc = a,
               job'[a][s].sampled = runner[p].claimed
        PROVE  association'[a].started < job'[a][s].sampled
    BY <1>2, <1>3, <2>2 DEF SampledInv, Attends
  <2> QED BY <2>1, <2>2 DEF SamplesFollow
<1>5. ASSUME NEW a \in AssociationIds
      PROVE  /\ job'[a][AfterRevokeJob].phase # "none" => association'[a].ended # None
             /\ job'[a][AfterRevokeJob].sampled # None => Closed(a)'
             /\ <<a, AfterRevokeJob>> \notin planned'
  <2>1. AfterRevokeJob \in Sequences
    BY JobSequences
  <2>2. job'[a][AfterRevokeJob].phase # "none" => association'[a].ended # None
    <3>1. job[a][AfterRevokeJob].phase # "none" =>
            a < nextAssociation /\ association[a].ended # None
      BY <1>1, <2>1 DEF BooksInv, JobsInv, SampledInv
    <3> QED BY <1>2, <3>1 DEF FinalJobsFollow
  <2>3. job'[a][AfterRevokeJob].sampled # None => Closed(a)'
    <3>1. Closed(a) => Closed(a)'
      BY DEF FinalJobsFollow
    <3>2. CASE job'[a][AfterRevokeJob].sampled = job[a][AfterRevokeJob].sampled
      BY <3>1, <3>2 DEF SampledInv
    <3>3. ASSUME NEW p \in Runners, runner[p].step = "save", runner[p].assoc = a,
                 runner[p].seq = AfterRevokeJob
          PROVE  Closed(a)
      BY <3>3 DEF SampledInv, Attends
    <3> QED BY <2>1, <3>1, <3>2, <3>3 DEF SamplesFollow
  <2> QED BY <2>2, <2>3 DEF FinalJobsFollow
<1>6. ASSUME NEW p \in Runners
      PROVE  Attends(p)'
  <2>1. CASE runner'[p].step = "idle"
    BY <2>1 DEF Attends
  <2>2. CASE /\ runner'[p].step = "plan"
             /\ \A a \in AssociationIds :
                  runner'[p].assoc = a /\ runner'[p].seq = AfterRevokeJob => Closed(a)'
    <3>1. runner'[p].assoc \in AssociationIds
      BY <1>1, <2>2 DEF Placed
    <3> QED BY <2>2, <3>1 DEF Attends, Closed
  <2>3. CASE /\ runner[p].step # "idle"
             /\ runner'[p].assoc = runner[p].assoc /\ runner'[p].seq = runner[p].seq
             /\ runner'[p].step = "request" =>
                  \/ runner'[p].claimed = now
                  \/ runner[p].step = "request" /\ runner'[p].claimed = runner[p].claimed
             /\ runner'[p].step = "save" =>
                  /\ runner'[p].claimed = runner[p].claimed
                  /\ runner[p].step \in {"request", "save"}
    <3>1. PICK a \in AssociationIds : a = runner[p].assoc /\ a < nextAssociation
      BY <1>3, <2>3
    <3>2. Attends(p)
      BY DEF SampledInv
    <3>3. runner[p].seq = AfterRevokeJob => Closed(a)'
      BY <2>3, <3>1, <3>2 DEF Attends, FinalJobsFollow
    <3>4. runner'[p].step \in {"request", "save"} => association'[a].started < runner'[p].claimed
      BY <1>2, <2>3, <3>1, <3>2 DEF Attends
    <3> QED BY <2>3, <3>1, <3>3, <3>4 DEF Attends, Closed
  <2> QED BY <2>1, <2>2, <2>3 DEF RunnerFollows
<1> QED BY <1>4, <1>5, <1>6 DEF SampledInv, Closed

\* A final sample is that of before, or asked for now.
LEMMA FinalsGo ==
  ASSUME LedgerInv, SamplesFollow, \A p \in Runners : RunnerFollows(p),
         NEW a \in AssociationIds, NEW f \in Nat, Final(a, f)'
  PROVE  Final(a, f) \/ (f = now /\ a < nextAssociation)
<1>1. CASE job'[a][AfterRevokeJob].sampled = f
  <2>1. AfterRevokeJob \in Sequences
    BY JobSequences
  <2> QED BY <1>1, <2>1 DEF SamplesFollow, Final
<1>2. ASSUME NEW p \in Runners, runner'[p].step \in {"request", "save"}, runner'[p].assoc = a,
             runner'[p].seq = AfterRevokeJob, runner'[p].claimed = f
      PROVE  Final(a, f) \/ (f = now /\ a < nextAssociation)
  <2>1. RunnerFollows(p) /\ Placed(p)
    BY DEF LedgerInv, RunnersInv
  <2>2. /\ runner[p].step # "idle" /\ runner[p].assoc = a /\ runner[p].seq = AfterRevokeJob
        /\ \/ f = now
           \/ runner[p].step \in {"request", "save"} /\ runner[p].claimed = f
    BY <1>2, <2>1 DEF RunnerFollows
  <2> QED BY <2>1, <2>2 DEF Final, Placed
<1> QED BY <1>1, <1>2 DEF Final

\* What is read is what was read, or the total.
LEMMA ReadsFollow ==
  ASSUME SamplesFollow, \A p \in Runners : RunnerFollows(p), NEW a \in AssociationIds,
         NEW t \in Nat, NEW x \in Nat, Read(a, t, x)'
  PROVE  Read(a, t, x) \/ x = TotalOf(a)
<1>1. ASSUME NEW s \in Sequences, job'[a][s].sampled = t, job'[a][s].total = x
      PROVE  Read(a, t, x)
  BY <1>1 DEF SamplesFollow, Read
<1>2. ASSUME NEW p \in Runners, runner'[p].step = "save", runner'[p].assoc = a,
             runner'[p].claimed = t, runner'[p].total = x
      PROVE  Read(a, t, x) \/ x = TotalOf(a)
  <2>1. RunnerFollows(p)
    OBVIOUS
  <2> QED BY <1>2, <2>1 DEF RunnerFollows, Read
<1> QED BY <1>1, <1>2 DEF Read

-----------------------------------------------------------------------------
(* What a used is in its total, in what was read of it and in its rows.    *)

Steady(a) == association[a].device \notin regressed

\* A total of x, less the baseline of an import, is no less than the use of any week.
AtLeast(a, x) ==
  \A w \in Weeks :
    /\ spent[a][w] <= x
    /\ \A c \in CycleIds :
         segment[a][c].imported # None => spent[a][w] <= x - segment[a][c].baseline

UnusedInv == \A a \in AssociationIds : a >= nextAssociation => \A w \in Weeks : spent[a][w] = 0

TotalsComplete ==
  \A a \in AssociationIds : a < nextAssociation /\ Steady(a) => AtLeast(a, TotalOf(a))

\* What is read with the final sample, or later.
ReadsComplete ==
  \A a \in AssociationIds, f, t, x \in Nat :
    Final(a, f) /\ t >= f /\ Read(a, t, x) /\ Steady(a) => AtLeast(a, x)

\* A row is of a round its association overlaps; one without a mark has an exact origin,
\* in a round that was stored when the association began or in which it began.
RowFits(a, c, row) ==
  /\ row # NoSegment => Overlaps(a, c)
  /\ row.imported # None => row.baseline # None /\ cycle[c].created <= association[a].started
  /\ row.quality = "VERIFIED" =>
       /\ row.used # None /\ row.at # None /\ row.baseline # None
       /\ \/ row.imported # None
          \/ row.baseline = 0 /\ cycle[c].started <= association[a].started

\* Without a mark and with the final sample, the row is charged for every use.
RowComplete(a, c, row) ==
  \A f \in Nat :
    row.quality = "VERIFIED" /\ Final(a, f) /\ row.at >= f /\ Steady(a) =>
      \A w \in Weeks : spent[a][w] <= row.used - Imported(row)

RowsFit == \A a \in AssociationIds, c \in CycleIds : RowFits(a, c, segment[a][c])
RowsComplete == \A a \in AssociationIds, c \in CycleIds : RowComplete(a, c, segment[a][c])

FloorInv == UnusedInv /\ TotalsComplete /\ ReadsComplete /\ RowsFit /\ RowsComplete

\* What a step does to use and totals: a device that is steady counts what is used, and
\* once there is a final sample nothing is used.
UseFollows ==
  /\ regressed \subseteq regressed'
  /\ \A a \in AssociationIds :
       IF a < nextAssociation
       THEN /\ GoesOnOrEnds(a)
            /\ spent'[a] = spent[a] \/ \A f \in Nat : ~Final(a, f)'
            /\ Steady(a)' =>
                 \A w \in Weeks : spent'[a][w] - spent[a][w] <= TotalOf(a)' - TotalOf(a)
       ELSE spent'[a] = spent[a]

\* What it does to the rows, and to the association it makes.
RowsFollow ==
  \A a \in AssociationIds, c \in CycleIds : a < nextAssociation =>
    \/ segment'[a][c] = segment[a][c]
    \/ /\ c < nextCycle
       /\ \A row : row = segment'[a][c] =>
            /\ RowFits(a, c, row) /\ RowComplete(a, c, row)
            /\ row.at # None => row.at < now
            /\ row.imported = segment[a][c].imported
            /\ row.imported # None => row.baseline = segment[a][c].baseline

NewcomerFits ==
  \A a \in AssociationIds : a >= nextAssociation /\ a < nextAssociation' =>
    /\ AtLeast(a, TotalOf(a))'
    /\ \A c \in CycleIds : RowFits(a, c, segment[a][c])'

LEMMA NoFinalYet ==
  ASSUME LedgerInv, NEW a \in AssociationIds, ~(a < nextAssociation), NEW f \in Nat
  PROVE  ~Final(a, f)
<1>1. BooksInv /\ \A p \in Runners : Placed(p)
  BY DEF LedgerInv, RunnersInv
<1>2. AfterRevokeJob \in Sequences /\ f # None
  BY JobSequences, NoneAssumption
<1>3. job[a][AfterRevokeJob].sampled # f
  BY <1>1, <1>2 DEF BooksInv, JobsInv
<1> QED BY <1>1, <1>3 DEF Final, Placed

\* Rounds are stored with even bounds, associations end at odd instants.
LEMMA RoundsBegan ==
  ASSUME LedgerInv, MeterInv, NEW c \in CycleIds, c < nextCycle
  PROVE  /\ cycle[c].started \in Nat /\ cycle[c].created \in Nat /\ cycle[c].reset \in Nat
         /\ cycle[c].started < now /\ cycle[c].created <= now
<1>1. /\ cycle[c] \in RoundType /\ cycle[c].started <= cycle[c].created
      /\ cycle[c].created <= now /\ now \in Nat /\ now % 2 = 1
  BY DEF LedgerInv, BooksInv, RoundsInv, MeterInv, ClockInv
<1>2. PICK n \in Nat : n = cycle[c].started
  BY <1>1 DEF RoundType
<1>3. PICK k \in Nat : k = WeekOf(n)
  BY WeekBegins
<1>4. n = Week * k
  BY <1>2, <1>3 DEF MeterInv, WeeksInv
<1>5. n % 2 = 0
  BY <1>4, MultiplesAreEven
<1>6. cycle[c].created \in Nat /\ cycle[c].reset \in Nat
  BY <1>1 DEF RoundType
<1> QED BY <1>1, <1>2, <1>5, <1>6

LEMMA OverlapStays ==
  ASSUME LedgerInv, Grows, MeterInv, NEW a \in AssociationIds, a < nextAssociation,
         GoesOnOrEnds(a), NEW c \in CycleIds, c < nextCycle
  PROVE  /\ Overlaps(a, c)' <=> Overlaps(a, c)
         /\ cycle'[c].started = cycle[c].started /\ cycle'[c].created = cycle[c].created
         /\ association'[a].started = association[a].started
<1>1. /\ cycle'[c].started = cycle[c].started /\ cycle'[c].reset = cycle[c].reset
      /\ cycle'[c].created = cycle[c].created
  BY DEF Grows, RoundsGrow
<1>2. association'[a].started = association[a].started
  BY DEF GoesOnOrEnds, PersonStays
<1>3. cycle[c].started < now /\ cycle[c].started \in Nat
  BY RoundsBegan
<1>4. now # None /\ now \in Nat
  BY Numbers, NoneAssumption DEF LedgerInv
<1>5. \/ association'[a].ended = association[a].ended
      \/ association[a].ended = None /\ association'[a].ended = now
  BY DEF GoesOnOrEnds
<1>6. Overlaps(a, c)' <=> Overlaps(a, c)
  BY <1>1, <1>2, <1>3, <1>4, <1>5 DEF Overlaps
<1> QED BY <1>1, <1>2, <1>6

LEMMA SpentTyped ==
  ASSUME LedgerInv, MeterInv, NEW a \in AssociationIds, NEW w \in Weeks
  PROVE  spent[a][w] \in Nat
BY DEF MeterInv, ClockInv

\* Rows are of associations and rounds that are stored.
LEMMA RowsStored ==
  ASSUME LedgerInv, MeterInv, NEW a \in AssociationIds, NEW c \in CycleIds,
         ~(a < nextAssociation) \/ ~(c < nextCycle)
  PROVE  segment[a][c] = NoSegment
<1>1. a \in Nat /\ nextAssociation \in Nat /\ BooksInv
  BY Numbers DEF LedgerInv
<1>2. CASE ~(a < nextAssociation)
  <2>1. a >= nextAssociation
    BY <1>1, <1>2
  <2> QED BY <1>1, <2>1 DEF BooksInv, SegmentsInv
<1>3. CASE ~(c < nextCycle)
  BY <1>3 DEF MeterInv, WeeksInv
<1> QED BY <1>2, <1>3

LEMMA NoSegmentFits ==
  ASSUME NEW a, NEW c
  PROVE  RowFits(a, c, NoSegment) /\ RowFits(a, c, NoSegment)' /\ NoSegment.imported = None
BY DEF RowFits, NoSegment

\* What was imported for an association is what it began with.
LEMMA ImportsStay ==
  ASSUME LedgerInv, LedgerInv', MeterInv, MeterInv', RowsFollow, RowsFit,
         NEW a \in AssociationIds, a < nextAssociation, NEW c \in CycleIds,
         segment'[a][c].imported # None
  PROVE  /\ segment[a][c].imported # None /\ segment'[a][c].baseline = segment[a][c].baseline
         /\ segment[a][c].baseline \in Nat
<1>1. segment[a][c].imported # None /\ segment'[a][c].baseline = segment[a][c].baseline
  BY DEF RowsFollow
<1>2. segment[a][c].baseline # None
  BY <1>1 DEF RowsFit, RowFits
<1>3. segment[a][c] \in SegmentType
  BY DEF LedgerInv, BooksInv, SegmentsInv
<1> QED BY <1>1, <1>2, <1>3 DEF SegmentType

\* A bound on what a used stays one while a uses nothing.
LEMMA BoundStays ==
  ASSUME LedgerInv, LedgerInv', MeterInv, MeterInv', RowsFollow, RowsFit,
         NEW a \in AssociationIds, a < nextAssociation, spent'[a] = spent[a],
         NEW x, AtLeast(a, x)
  PROVE  \A w \in Weeks :
           /\ spent'[a][w] <= x
           /\ \A c \in CycleIds :
                segment'[a][c].imported # None => spent'[a][w] <= x - segment'[a][c].baseline
<1>1. ASSUME NEW w \in Weeks, NEW c \in CycleIds, segment'[a][c].imported # None
      PROVE  spent'[a][w] <= x - segment'[a][c].baseline
  <2>1. segment[a][c].imported # None /\ segment'[a][c].baseline = segment[a][c].baseline
    BY <1>1, ImportsStay
  <2> QED BY <2>1 DEF AtLeast
<1> QED BY <1>1 DEF AtLeast

LEMMA UnusedStays ==
  ASSUME LedgerInv, LedgerInv', Grows, UnusedInv, UseFollows
  PROVE  UnusedInv'
<1>1. /\ nextAssociation \in Nat /\ nextAssociation' \in Nat /\ AssociationIds \subseteq Nat
      /\ nextAssociation' >= nextAssociation
  BY Numbers DEF LedgerInv, BooksInv, PeopleInv, Grows, PeopleGrow
<1>2. ASSUME NEW a \in AssociationIds, a >= nextAssociation'
      PROVE  a >= nextAssociation /\ ~(a < nextAssociation)
  BY <1>1, <1>2
<1> QED BY <1>2 DEF UnusedInv, UseFollows

LEMMA TotalsStayComplete ==
  ASSUME LedgerInv, LedgerInv', Grows, MeterInv, MeterInv', TotalsComplete, RowsFit,
         UseFollows, RowsFollow, NewcomerFits
  PROVE  TotalsComplete'
<1> SUFFICES ASSUME NEW a \in AssociationIds, a < nextAssociation', Steady(a)'
             PROVE  AtLeast(a, TotalOf(a))'
  BY DEF TotalsComplete, TotalOf
<1>1. a \in Nat /\ nextAssociation \in Nat /\ BooksInv /\ BooksInv' /\ ClockInv'
  BY Numbers DEF LedgerInv, MeterInv
<1>2. CASE ~(a < nextAssociation)
  <2>1. a >= nextAssociation
    BY <1>1, <1>2
  <2> QED BY <2>1 DEF NewcomerFits
<1>3. CASE a < nextAssociation
  <2>1. PICK x \in Nat, y \in Nat : x = TotalOf(a) /\ y = TotalOf(a)'
    BY <1>1, <1>3, Person, NextTyped
  <2>2. GoesOnOrEnds(a) /\ \A w \in Weeks : spent'[a][w] - spent[a][w] <= y - x
    BY <1>3, <2>1 DEF UseFollows
  <2>3. AtLeast(a, x)
    <3>1. Steady(a)
      BY <2>2 DEF Steady, GoesOnOrEnds, PersonStays, UseFollows
    <3> QED BY <1>3, <2>1, <3>1 DEF TotalsComplete
  <2>4. ASSUME NEW w \in Weeks
        PROVE  spent'[a][w] <= y
    <3>1. spent[a][w] \in Nat /\ spent'[a][w] \in Nat
      BY DEF MeterInv, ClockInv
    <3>2. spent[a][w] <= x /\ spent'[a][w] - spent[a][w] <= y - x
      BY <2>2, <2>3 DEF AtLeast
    <3> QED BY <2>1, <3>1, <3>2
  <2>5. ASSUME NEW w \in Weeks, NEW c \in CycleIds, segment'[a][c].imported # None
        PROVE  spent'[a][w] <= y - segment'[a][c].baseline
    <3>1. spent[a][w] \in Nat /\ spent'[a][w] \in Nat
      BY DEF MeterInv, ClockInv
    <3>2. PICK base \in Nat : base = segment[a][c].baseline /\ base = segment'[a][c].baseline
      BY <1>3, <2>5, ImportsStay
    <3>3. spent[a][w] <= x - base
      BY <1>3, <2>3, <2>5, <3>2, ImportsStay DEF AtLeast
    <3>4. spent'[a][w] - spent[a][w] <= y - x
      BY <2>2
    <3> QED BY <2>1, <3>1, <3>2, <3>3, <3>4
  <2> QED BY <2>1, <2>4, <2>5 DEF AtLeast
<1> QED BY <1>2, <1>3

LEMMA ReadsStayComplete ==
  ASSUME LedgerInv, LedgerInv', Grows, MeterInv, MeterInv', FloorInv, SamplesFollow,
         \A p \in Runners : RunnerFollows(p), UseFollows, RowsFollow
  PROVE  ReadsComplete'
<1> SUFFICES ASSUME NEW a \in AssociationIds, NEW f \in Nat, NEW t \in Nat, NEW x \in Nat,
                    Final(a, f)', t >= f, Read(a, t, x)', Steady(a)'
             PROVE  AtLeast(a, x)'
  BY DEF ReadsComplete
<1>1. a \in Nat /\ nextAssociation \in Nat /\ BooksInv /\ now \in Nat
  BY Numbers DEF LedgerInv
<1>2. CASE ~(a < nextAssociation)
  BY <1>2, NoFinalYet, FinalsGo
<1>3. CASE a < nextAssociation
  <2>1. GoesOnOrEnds(a) /\ spent'[a] = spent[a] /\ Steady(a)
    BY <1>3 DEF UseFollows, Steady, GoesOnOrEnds, PersonStays
  <2>2. AtLeast(a, x)
    <3>1. CASE x = TotalOf(a)
      BY <1>3, <2>1, <3>1 DEF FloorInv, TotalsComplete
    <3>2. CASE Read(a, t, x)
      <4>1. t < now
        BY <3>2, ReadPast
      <4>2. Final(a, f)
        BY <1>1, <4>1, FinalsGo
      <4> QED BY <2>1, <3>2, <4>2 DEF FloorInv, ReadsComplete
    <3> QED BY <3>1, <3>2, ReadsFollow
  <2>3. \A w \in Weeks :
          /\ spent'[a][w] <= x
          /\ \A c \in CycleIds :
               segment'[a][c].imported # None => spent'[a][w] <= x - segment'[a][c].baseline
    BY <1>3, <2>1, <2>2, BoundStays DEF FloorInv
  <2> QED BY <2>3 DEF AtLeast
<1> QED BY <1>2, <1>3

LEMMA RowsStayFitting ==
  ASSUME LedgerInv, LedgerInv', Grows, MeterInv, RowsFit, UseFollows, RowsFollow, NewcomerFits
  PROVE  RowsFit'
<1> SUFFICES ASSUME NEW a \in AssociationIds, NEW c \in CycleIds
             PROVE  RowFits(a, c, segment[a][c])'
  BY DEF RowsFit, RowFits, Overlaps
<1>1. a \in Nat /\ nextAssociation \in Nat /\ nextAssociation' \in Nat /\ BooksInv'
  BY Numbers DEF LedgerInv, BooksInv, PeopleInv
<1>2. CASE ~(a < nextAssociation')
  <2>1. segment'[a][c] = NoSegment
    BY <1>1, <1>2 DEF BooksInv, SegmentsInv
  <2>2. RowFits(a, c, NoSegment)'
    BY NoSegmentFits
  <2> QED BY <2>1, <2>2 DEF RowFits
<1>3. CASE a < nextAssociation' /\ ~(a < nextAssociation)
  BY <1>1, <1>3 DEF NewcomerFits
<1>4. CASE a < nextAssociation /\ ~(c < nextCycle)
  <2>1. segment'[a][c] = NoSegment
    BY <1>4, RowsStored DEF RowsFollow
  <2>2. RowFits(a, c, NoSegment)'
    BY NoSegmentFits
  <2> QED BY <2>1, <2>2 DEF RowFits
<1>5. CASE a < nextAssociation /\ c < nextCycle
  <2>1. PICK row : row = segment'[a][c]
    OBVIOUS
  <2>2. RowFits(a, c, row)
    BY <1>5, <2>1 DEF RowsFollow, RowsFit
  <2>3. /\ Overlaps(a, c)' <=> Overlaps(a, c)
        /\ cycle'[c].started = cycle[c].started /\ cycle'[c].created = cycle[c].created
        /\ association'[a].started = association[a].started
    BY <1>5, OverlapStays DEF UseFollows
  <2> QED BY <2>1, <2>2, <2>3 DEF RowFits
<1> QED BY <1>2, <1>3, <1>4, <1>5

LEMMA RowsStayComplete ==
  ASSUME LedgerInv, LedgerInv', Grows, MeterInv, Within, FloorInv, SamplesFollow,
         \A p \in Runners : RunnerFollows(p), UseFollows, RowsFollow, RowsFit'
  PROVE  RowsComplete'
<1> SUFFICES ASSUME NEW a \in AssociationIds, NEW c \in CycleIds, NEW f \in Nat,
                    segment'[a][c].quality = "VERIFIED", Final(a, f)', segment'[a][c].at >= f,
                    Steady(a)', NEW w \in Weeks
             PROVE  spent'[a][w] <= segment'[a][c].used - Imported(segment'[a][c])
  BY DEF RowsComplete, RowComplete, Imported
<1>1. CASE ~(a < nextAssociation)
  BY <1>1, NoFinalYet, FinalsGo
<1>2. CASE a < nextAssociation
  <2>1. PICK row \in SegmentType : row = segment'[a][c]
    BY DEF LedgerInv, BooksInv, SegmentsInv
  <2>2. GoesOnOrEnds(a) /\ spent'[a] = spent[a] /\ Steady(a)
    BY <1>2 DEF UseFollows, Steady, GoesOnOrEnds, PersonStays
  <2>3. row.at # None
    <3>1. RowFits(a, c, segment[a][c])'
      BY DEF RowsFit, RowFits, Overlaps
    <3> QED BY <2>1, <3>1 DEF RowFits
  <2>4. row.at < now /\ now \in Nat /\ row.at \in Nat
    <3>1. RowWithin(segment[a][c], now)
      BY DEF Within, BooksWithin
    <3>2. now \in Nat /\ row.at \in Nat
      BY <2>1, <2>3, Numbers DEF LedgerInv, SegmentType
    <3>3. row = segment[a][c] \/ row.at < now
      BY <1>2, <2>1, <2>3 DEF RowsFollow
    <3> QED BY <2>3, <3>1, <3>2, <3>3 DEF RowWithin
  <2>5. Final(a, f)
    BY <2>1, <2>4, FinalsGo
  <2>6. RowComplete(a, c, row)
    BY <1>2, <2>1 DEF RowsFollow, FloorInv, RowsComplete
  <2>7. spent[a][w] <= row.used - Imported(row)
    BY <2>1, <2>2, <2>5, <2>6 DEF RowComplete
  <2> QED BY <2>1, <2>2, <2>7
<1> QED BY <1>1, <1>2

LEMMA FloorKeeps ==
  ASSUME LedgerInv, LedgerInv', Grows, MeterInv, MeterInv', Within, FloorInv, SamplesFollow,
         \A p \in Runners : RunnerFollows(p), UseFollows, RowsFollow, NewcomerFits
  PROVE  FloorInv'
<1>1. UnusedInv'
  BY UnusedStays DEF FloorInv
<1>2. TotalsComplete'
  BY TotalsStayComplete DEF FloorInv
<1>3. ReadsComplete'
  BY ReadsStayComplete
<1>4. RowsFit'
  BY RowsStayFitting DEF FloorInv
<1>5. RowsComplete'
  BY <1>4, RowsStayComplete
<1> QED BY <1>1, <1>2, <1>3, <1>4, <1>5 DEF FloorInv

-----------------------------------------------------------------------------
(* Steps that leave the jobs, or the world, alone.                         *)

LEMMA JobsRest ==
  ASSUME SampledInv, UNCHANGED <<job, planned>>
  PROVE  SamplesFollow /\ FinalJobsFollow
BY DEF SampledInv, SamplesFollow, FinalJobsFollow, Closed

LEMMA RunnersStand ==
  ASSUME UNCHANGED runner
  PROVE  \A p \in Runners : RunnerFollows(p)
BY DEF RunnerFollows

LEMMA RowsRest ==
  ASSUME UNCHANGED segment
  PROVE  RowsFollow
BY DEF RowsFollow

LEMMA NobodyNew ==
  ASSUME BooksInv, nextAssociation' = nextAssociation
  PROVE  NewcomerFits
<1>1. nextAssociation \in Nat /\ AssociationIds \subseteq Nat
  BY Numbers
<1> QED BY <1>1 DEF NewcomerFits

LEMMA WorldRests ==
  ASSUME BooksInv, ClockInv, UNCHANGED <<total, spent, regressed>>,
         \A a \in AssociationIds : a < nextAssociation => GoesOnOrEnds(a)
  PROVE  UseFollows
<1> SUFFICES ASSUME NEW a \in AssociationIds, a < nextAssociation, NEW w \in Weeks
             PROVE  spent'[a][w] - spent[a][w] <= TotalOf(a)' - TotalOf(a)
  BY DEF UseFollows
<1>1. TotalOf(a) \in Nat /\ TotalOf(a)' = TotalOf(a)
  BY Person DEF GoesOnOrEnds, PersonStays, TotalOf
<1>2. spent[a][w] \in Nat
  BY DEF ClockInv
<1> QED BY <1>1, <1>2

LEMMA FinalIsClosed ==
  ASSUME LedgerInv, SampledInv, NEW a \in AssociationIds, NEW f \in Nat, Final(a, f)
  PROVE  Closed(a) /\ association[a].ended # None
<1>1. Closed(a)
  <2>1. CASE job[a][AfterRevokeJob].sampled = f
    <3>1. f # None
      BY NoneAssumption
    <3>2. job[a][AfterRevokeJob].sampled # None => Closed(a)
      BY DEF SampledInv
    <3> QED BY <2>1, <3>1, <3>2
  <2>2. ASSUME NEW p \in Runners, runner[p].step \in {"request", "save"}, runner[p].assoc = a,
               runner[p].seq = AfterRevokeJob
        PROVE  Closed(a)
    BY <2>2 DEF SampledInv, Attends
  <2> QED BY <2>1, <2>2 DEF Final
<1> QED BY <1>1 DEF SampledInv, Closed

\* Associations end, rounds follow each other, time passes.
LEMMA StillKeeps ==
  ASSUME LedgerInv, LedgerInv', Grows, MeterInv, MeterInv', Within, SampledInv, FloorInv,
         UNCHANGED <<job, planned, runner, total, spent, regressed, segment>>,
         nextAssociation' = nextAssociation,
         \A a \in AssociationIds : a < nextAssociation => GoesOnOrEnds(a)
  PROVE  SampledInv' /\ FloorInv'
<1>1. BooksInv /\ ClockInv
  BY DEF LedgerInv, MeterInv
<1>2. SamplesFollow /\ FinalJobsFollow /\ (\A p \in Runners : RunnerFollows(p)) /\ RowsFollow
  BY JobsRest, RunnersStand, RowsRest
<1>3. UseFollows /\ NewcomerFits
  BY <1>1, WorldRests, NobodyNew
<1> QED BY <1>2, <1>3, SampledKeeps, FloorKeeps

\* Jobs and runners go on, rows are written.
LEMMA JobsKeep ==
  ASSUME LedgerInv, LedgerInv', Grows, MeterInv, MeterInv', Within, SampledInv, FloorInv,
         UNCHANGED <<total, spent, regressed, association, nextAssociation>>,
         SamplesFollow, FinalJobsFollow, \A p \in Runners : RunnerFollows(p), RowsFollow
  PROVE  SampledInv' /\ FloorInv'
<1>1. BooksInv /\ ClockInv
  BY DEF LedgerInv, MeterInv
<1>2. \A a \in AssociationIds : GoesOnOrEnds(a)
  BY DEF GoesOnOrEnds, PersonStays
<1>3. UseFollows /\ NewcomerFits
  BY <1>1, <1>2, WorldRests, NobodyNew
<1> QED BY <1>3, SampledKeeps, FloorKeeps

LEMMA StillSteps ==
  ASSUME LedgerInv, LedgerInv', Grows, MeterInv, MeterInv', Within, SampledInv, FloorInv,
         Pass \/ (\E status : SyncRollover(status) \/ SyncCurrent(status))
  PROVE  SampledInv' /\ FloorInv'
<1>1. /\ UNCHANGED <<job, planned, runner, total, spent, regressed, segment>>
      /\ nextAssociation' = nextAssociation /\ association' = association
  BY DEF Pass, SyncRollover, SyncCurrent, world, people, rounds, books
<1>2. \A a \in AssociationIds : GoesOnOrEnds(a)
  BY <1>1 DEF GoesOnOrEnds, PersonStays
<1> QED BY <1>1, <1>2, StillKeeps

LEMMA EndFloor ==
  ASSUME LedgerInv, LedgerInv', Grows, MeterInv, MeterInv', Within, SampledInv, FloorInv,
         NEW a \in AssociationIds, End(a)
  PROVE  SampledInv' /\ FloorInv'
<1>1. /\ UNCHANGED <<job, planned, runner, total, spent, regressed, segment>>
      /\ nextAssociation' = nextAssociation
  BY DEF End, world, rounds, books
<1>2. \A b \in AssociationIds : GoesOnOrEnds(b)
  <2>1. association[a].ended = None /\ association' = [association EXCEPT ![a].ended = now]
    BY DEF End, Held
  <2>2. association \in [AssociationIds -> PersonType]
    BY DEF LedgerInv, BooksInv, PeopleInv
  <2>3. association[a] \in PersonType /\ association'[a] = [association[a] EXCEPT !.ended = now]
    BY <2>1, <2>2
  <2>4. GoesOnOrEnds(a)
    BY <2>1, <2>3 DEF GoesOnOrEnds, PersonStays, PersonType
  <2>5. \A b \in AssociationIds : b # a => association'[b] = association[b]
    BY <2>1, <2>2
  <2> QED BY <2>4, <2>5 DEF GoesOnOrEnds, PersonStays
<1> QED BY <1>1, <1>2, StillKeeps

\* The platform counts or corrects: nothing is counted for a closed association.
LEMMA WorldFloor ==
  ASSUME LedgerInv, LedgerInv', Grows, MeterInv, MeterInv', Within, SampledInv, FloorInv,
         UNCHANGED <<association, nextAssociation, job, planned, runner, segment>>,
         regressed \subseteq regressed',
         \A a \in AssociationIds : a >= nextAssociation => spent'[a] = spent[a],
         \A a \in AssociationIds : a < nextAssociation =>
            /\ spent'[a] = spent[a] \/ ~Closed(a) \/ association[a].ended = None
            /\ Steady(a)' =>
                 \A w \in Weeks : spent'[a][w] - spent[a][w] <= TotalOf(a)' - TotalOf(a)
  PROVE  SampledInv' /\ FloorInv'
<1>1. BooksInv /\ ClockInv
  BY DEF LedgerInv, MeterInv
<1>2. SamplesFollow /\ FinalJobsFollow /\ (\A p \in Runners : RunnerFollows(p)) /\ RowsFollow
      /\ NewcomerFits
  BY <1>1, JobsRest, RunnersStand, RowsRest, NobodyNew
<1>3. UseFollows
  <2>1. ASSUME NEW a \in AssociationIds, ~Closed(a) \/ association[a].ended = None, NEW f \in Nat
        PROVE  ~Final(a, f)'
    <3>1. ~Final(a, f)
      BY <2>1, FinalIsClosed
    <3> QED BY <3>1 DEF Final
  <2>2. \A a \in AssociationIds : GoesOnOrEnds(a)
    BY DEF GoesOnOrEnds, PersonStays
  <2>3. \A a \in AssociationIds : a < nextAssociation \/ a >= nextAssociation
    BY <1>1, Numbers
  <2> QED BY <2>1, <2>2, <2>3 DEF UseFollows
<1> QED BY <1>2, <1>3, SampledKeeps, FloorKeeps

LEMMA ReportFloor ==
  ASSUME LedgerInv, LedgerInv', Grows, MeterInv, MeterInv', Within, SampledInv, FloorInv,
         NEW a \in AssociationIds, Report(a)
  PROVE  SampledInv' /\ FloorInv'
<1>1. /\ UNCHANGED <<association, nextAssociation, job, planned, runner, segment>>
      /\ regressed' = regressed /\ Made(a)
      /\ association[a].ended = None \/ ~Closed(a)
  BY DEF Report, people, books, Held, Closed
<1>2. BooksInv /\ ClockInv
  BY DEF LedgerInv, MeterInv
<1>3. a < nextAssociation
  BY <1>1, <1>2, Exists DEF Made
<1>4. PICK d \in Devices : d = association[a].device
  BY <1>2, <1>3, Person
<1>5. PICK w \in Weeks : w = WeekOf(When(a))
  BY <1>2, <1>3, WhenTyped
<1>6. total' = [total EXCEPT ![d] = @ + 1] /\ spent' = [spent EXCEPT ![a][w] = @ + 1]
  BY <1>1, <1>4, <1>5 DEF Report, When, WeekOf, Held
<1>7. total \in [Devices -> Nat] /\ spent \in [AssociationIds -> [Weeks -> Nat]]
  BY <1>2 DEF BooksInv, SegmentsInv, ClockInv
<1>8. /\ \A b \in AssociationIds : b # a => spent'[b] = spent[b]
      /\ spent'[a][w] = spent[a][w] + 1 /\ \A v \in Weeks : v # w => spent'[a][v] = spent[a][v]
  <2>1. spent[a] \in [Weeks -> Nat] /\ spent' = [spent EXCEPT ![a] = [spent[a] EXCEPT ![w] = @ + 1]]
    BY <1>6, <1>7
  <2>2. spent'[a] = [spent[a] EXCEPT ![w] = @ + 1]
    BY <1>7, <2>1
  <2> QED BY <1>7, <2>1, <2>2
<1>9. total'[d] = total[d] + 1 /\ \A e \in Devices : e # d => total'[e] = total[e]
  BY <1>6, <1>7
<1>10. ASSUME NEW b \in AssociationIds, b < nextAssociation, NEW v \in Weeks
       PROVE  spent'[b][v] - spent[b][v] <= TotalOf(b)' - TotalOf(b)
  <2>1. spent[b][v] \in Nat
    BY <1>7
  <2>2. PICK e \in Devices : e = association[b].device
    BY <1>2, <1>10, Person
  <2>3. TotalOf(b) = total[e] /\ TotalOf(b)' = total'[e] /\ total[e] \in Nat
    BY <1>1, <1>7, <2>2 DEF TotalOf
  <2>4. CASE b = a
    <3>1. e = d
      BY <1>4, <2>2, <2>4
    <3>2. spent'[b][v] = spent[b][v] + 1 \/ spent'[b][v] = spent[b][v]
      BY <1>8, <2>4
    <3> QED BY <1>9, <2>1, <2>3, <3>1, <3>2
  <2>5. CASE b # a
    <3>1. spent'[b][v] = spent[b][v]
      BY <1>8, <2>5
    <3> QED BY <1>9, <2>1, <2>3, <3>1
  <2> QED BY <2>4, <2>5
<1>11. \A b \in AssociationIds : b >= nextAssociation => spent'[b] = spent[b]
  <2>1. \A b \in AssociationIds : b >= nextAssociation => b # a
    BY <1>2, <1>3, Numbers
  <2> QED BY <1>8, <2>1
<1> QED BY <1>1, <1>8, <1>10, <1>11, WorldFloor

LEMMA RegressFloor ==
  ASSUME LedgerInv, LedgerInv', Grows, MeterInv, MeterInv', Within, SampledInv, FloorInv,
         NEW d \in Devices, Regress(d)
  PROVE  SampledInv' /\ FloorInv'
<1>1. /\ UNCHANGED <<association, nextAssociation, job, planned, runner, segment>>
      /\ spent' = spent /\ regressed' = regressed \cup {d}
      /\ total' = [total EXCEPT ![d] = @ - 1]
  BY DEF Regress, people, books
<1>2. BooksInv /\ ClockInv
  BY DEF LedgerInv, MeterInv
<1>3. total \in [Devices -> Nat] /\ spent \in [AssociationIds -> [Weeks -> Nat]]
  BY <1>2 DEF BooksInv, SegmentsInv, ClockInv
<1>4. ASSUME NEW b \in AssociationIds, b < nextAssociation, Steady(b)', NEW w \in Weeks
      PROVE  spent'[b][w] - spent[b][w] <= TotalOf(b)' - TotalOf(b)
  <2>1. spent[b][w] \in Nat /\ spent'[b][w] = spent[b][w]
    BY <1>1, <1>3
  <2>2. association[b].device \in Devices /\ association[b].device # d
    BY <1>1, <1>2, <1>4, Person DEF Steady
  <2>3. TotalOf(b) \in Nat /\ TotalOf(b)' = TotalOf(b)
    BY <1>1, <1>3, <2>2 DEF TotalOf
  <2> QED BY <2>1, <2>3
<1> QED BY <1>1, <1>4, WorldFloor

\* A new association has used nothing; what is imported is its baseline.
LEMMA NewcomerFloor ==
  ASSUME LedgerInv, LedgerInv', Grows, MeterInv, MeterInv', Within, SampledInv, FloorInv,
         NEW u \in Users, NEW d \in Devices, NEW fresh \in BOOLEAN, NewAssociation(u, d, fresh),
         UNCHANGED <<total, spent, regressed, cycle, nextCycle, job, planned, runner>>,
         \A b \in AssociationIds, c \in CycleIds :
           \/ segment'[b][c] = segment[b][c]
           \/ /\ b = nextAssociation /\ c < nextCycle /\ now < cycle[c].reset
              /\ segment'[b][c].baseline = total[d]
              /\ segment'[b][c].used # None /\ segment'[b][c].at # None
              /\ segment'[b][c].imported # None
  PROVE  SampledInv' /\ FloorInv'
<1>1. BooksInv /\ BooksInv' /\ ClockInv
  BY DEF LedgerInv, MeterInv
<1>2. PICK n \in AssociationIds : n = nextAssociation /\ n \in Nat /\ nextAssociation' = n + 1
  BY <1>1, NewPerson, Numbers
<1>3. PICK row : row = [user |-> u, device |-> d, started |-> now, ended |-> None, fresh |-> fresh]
  OBVIOUS
<1>4. association' = [association EXCEPT ![n] = row]
  BY <1>2, <1>3 DEF NewAssociation
<1>5. association'[n] = row /\ \A b \in AssociationIds : b # n => association'[b] = association[b]
  BY <1>1, <1>4 DEF BooksInv, PeopleInv
<1>6. \A b \in AssociationIds : /\ b < nextAssociation => b # n
                                /\ b >= nextAssociation /\ b < nextAssociation' => b = n
  <2>1. \A b \in AssociationIds : b \in Nat
    BY <1>1, Numbers
  <2> QED BY <1>2, <2>1
<1>7. \A b \in AssociationIds : b < nextAssociation => GoesOnOrEnds(b)
  BY <1>5, <1>6 DEF GoesOnOrEnds, PersonStays
<1>8. SamplesFollow /\ FinalJobsFollow /\ (\A p \in Runners : RunnerFollows(p)) /\ UseFollows
  BY <1>1, <1>7, JobsRest, RunnersStand, WorldRests
<1>9. RowsFollow
  BY <1>2, <1>6 DEF RowsFollow
<1>10. /\ association'[n].device = d /\ association'[n].started = now
       /\ association'[n].ended = None
  BY <1>3, <1>5
<1>11. total[d] \in Nat /\ TotalOf(n)' = total[d]
  BY <1>1, <1>10 DEF BooksInv, SegmentsInv, TotalOf
<1>12. ASSUME NEW c \in CycleIds
       PROVE  /\ segment'[n][c].imported # None => segment'[n][c].baseline = total[d]
              /\ RowFits(n, c, segment[n][c])'
  <2>1. CASE segment'[n][c] = segment[n][c]
    <3>1. segment[n][c] = NoSegment
      BY <1>1, <1>2, <2>1 DEF BooksInv, SegmentsInv
    <3>2. RowFits(n, c, NoSegment)' /\ NoSegment.imported = None
      BY NoSegmentFits
    <3> QED BY <2>1, <3>1, <3>2 DEF RowFits
  <2>2. CASE /\ c < nextCycle /\ now < cycle[c].reset
             /\ segment'[n][c].baseline = total[d]
             /\ segment'[n][c].used # None /\ segment'[n][c].at # None
             /\ segment'[n][c].imported # None
    <3>1. cycle[c].created <= now
      BY <2>2, RoundsBegan
    <3>2. Overlaps(n, c)'
      BY <1>10, <2>2 DEF Overlaps
    <3>3. total[d] # None
      BY <1>11, NoneAssumption
    <3> QED BY <1>10, <2>2, <3>1, <3>2, <3>3 DEF RowFits
  <2> QED BY <1>2, <2>1, <2>2
<1>13. ASSUME NEW w \in Weeks
       PROVE  spent'[n][w] = 0
  BY <1>2 DEF FloorInv, UnusedInv
<1>14. AtLeast(n, TotalOf(n))'
  BY <1>11, <1>12, <1>13 DEF AtLeast
<1>15. NewcomerFits
  BY <1>6, <1>12, <1>14 DEF NewcomerFits
<1> QED BY <1>8, <1>9, <1>15, SampledKeeps, FloorKeeps

LEMMA AssociateFloor ==
  ASSUME LedgerInv, LedgerInv', Grows, MeterInv, MeterInv', Within, SampledInv, FloorInv,
         NEW u \in Users, NEW d \in Devices, NEW fresh \in BOOLEAN, Associate(u, d, fresh)
  PROVE  SampledInv' /\ FloorInv'
<1>1. /\ NewAssociation(u, d, fresh) /\ segment' = segment
      /\ UNCHANGED <<total, spent, regressed, cycle, nextCycle, job, planned, runner>>
  BY DEF Associate, world, rounds, books
<1> QED BY <1>1, NewcomerFloor

\* What an import does to the books.
LEMMA ImportRows ==
  ASSUME LedgerInv, NEW u \in Users, NEW d \in Devices,
         NEW amount \in Nat, import_initial_usage(u, d, amount)
  PROVE  \E n \in AssociationIds, e \in CycleIds :
           /\ n = nextAssociation /\ e = Latest /\ e < nextCycle /\ now < cycle[e].reset
           /\ segment'[n][e] = [baseline |-> total[d], at |-> now, used |-> amount,
                                imported |-> amount, quality |-> "VERIFIED"]
           /\ \A b \in AssociationIds, c \in CycleIds :
                b # n \/ c # e => segment'[b][c] = segment[b][c]
<1>1. BooksInv /\ NewAssociation(u, d, FALSE)
  BY DEF LedgerInv, import_initial_usage
<1>2. nextAssociation \in AssociationIds /\ segment \in [AssociationIds -> [CycleIds -> SegmentType]]
  BY <1>1, NewPerson DEF BooksInv, SegmentsInv
<1>3. PICK n \in AssociationIds : n = nextAssociation
  BY <1>2
<1>4. Latest \in CycleIds /\ Latest < nextCycle
  BY <1>1, BoundsTyped DEF Latest, BooksInv, RoundsInv, CycleIds, import_initial_usage
<1>5. PICK e \in CycleIds : e = Latest
  BY <1>4
<1>6. PICK row : row = [baseline |-> total[d], at |-> now, used |-> amount,
                        imported |-> amount, quality |-> "VERIFIED"]
  OBVIOUS
<1>7. segment' = [segment EXCEPT ![n] = [segment[n] EXCEPT ![e] = row]]
  BY <1>3, <1>5, <1>6 DEF import_initial_usage
<1>8. segment'[n] = [segment[n] EXCEPT ![e] = row] /\ segment[n] \in [CycleIds -> SegmentType]
  BY <1>2, <1>7
<1>9. segment'[n][e] = row /\ \A c \in CycleIds : c # e => segment'[n][c] = segment[n][c]
  BY <1>8
<1>10. \A b \in AssociationIds : b # n => segment'[b] = segment[b]
  BY <1>2, <1>7
<1>11. now < cycle[e].reset
  BY <1>5 DEF import_initial_usage
<1>12. \A b \in AssociationIds, c \in CycleIds : b # n \/ c # e => segment'[b][c] = segment[b][c]
  BY <1>9, <1>10
<1> QED BY <1>3, <1>4, <1>5, <1>6, <1>9, <1>11, <1>12

LEMMA ImportFloor ==
  ASSUME LedgerInv, LedgerInv', Grows, MeterInv, MeterInv', Within, SampledInv, FloorInv,
         NEW u \in Users, NEW d \in Devices, NEW amount \in Nat,
         import_initial_usage(u, d, amount)
  PROVE  SampledInv' /\ FloorInv'
<1>1. /\ NewAssociation(u, d, FALSE)
      /\ UNCHANGED <<total, spent, regressed, cycle, nextCycle, job, planned, runner>>
  BY DEF import_initial_usage, world, rounds
<1>2. PICK n \in AssociationIds, e \in CycleIds :
        /\ n = nextAssociation /\ e = Latest /\ e < nextCycle /\ now < cycle[e].reset
        /\ segment'[n][e] = [baseline |-> total[d], at |-> now, used |-> amount,
                             imported |-> amount, quality |-> "VERIFIED"]
        /\ \A b \in AssociationIds, c \in CycleIds :
             b # n \/ c # e => segment'[b][c] = segment[b][c]
  BY ImportRows
<1>3. amount # None /\ now # None
  BY NoneAssumption, Numbers DEF LedgerInv
<1>4. /\ segment'[n][e].baseline = total[d] /\ segment'[n][e].used # None
      /\ segment'[n][e].at # None /\ segment'[n][e].imported # None
  BY <1>2, <1>3
<1>5. \A b \in AssociationIds, c \in CycleIds :
         \/ segment'[b][c] = segment[b][c]
         \/ /\ b = nextAssociation /\ c < nextCycle /\ now < cycle[c].reset
            /\ segment'[b][c].baseline = total[d]
            /\ segment'[b][c].used # None /\ segment'[b][c].at # None
            /\ segment'[b][c].imported # None
  BY <1>2, <1>4
<1> QED BY <1>1, <1>5, NewcomerFloor

-----------------------------------------------------------------------------
(* Jobs are scheduled and claimed.                                         *)

LEMMA PhaseFollows ==
  ASSUME BooksInv, NEW a \in AssociationIds, NEW s \in Sequences, NEW phase,
         job' = [job EXCEPT ![a][s].phase = phase],
         \A b \in AssociationIds : <<b, AfterRevokeJob>> \notin planned',
         s = AfterRevokeJob =>
           /\ Closed(a) => phase \notin {"none", "waiting"}
           /\ \/ job[a][s].phase # "none"
              \/ association[a].ended # None /\ a < nextAssociation
  PROVE  SamplesFollow /\ FinalJobsFollow
<1>1. job \in [AssociationIds -> [Sequences -> JobType]] /\ job[a] \in [Sequences -> JobType]
  BY DEF BooksInv, JobsInv
<1>2. job' = [job EXCEPT ![a] = [job[a] EXCEPT ![s] = [job[a][s] EXCEPT !.phase = phase]]]
  OBVIOUS
<1>3. job'[a] = [job[a] EXCEPT ![s] = [job[a][s] EXCEPT !.phase = phase]]
  BY <1>1, <1>2
<1>4. job'[a][s] = [job[a][s] EXCEPT !.phase = phase] /\ job[a][s] \in JobType
  BY <1>1, <1>3
<1>5. job'[a][s].phase = phase
  BY <1>4 DEF JobType
<1>6. \A b \in AssociationIds, q \in Sequences : b # a \/ q # s => job'[b][q] = job[b][q]
  BY <1>1, <1>2, <1>3
<1>7. SamplesFollow
  BY PhaseOnly DEF SamplesStay, SamplesFollow
<1>8. AfterRevokeJob \in Sequences
  BY JobSequences
<1>9. ASSUME NEW b \in AssociationIds
      PROVE  /\ Closed(b) => Closed(b)'
             /\ job'[b][AfterRevokeJob].phase # "none" =>
                  \/ job[b][AfterRevokeJob].phase # "none"
                  \/ association[b].ended # None /\ b < nextAssociation
  <2>1. CASE b = a /\ s = AfterRevokeJob
    BY <1>5, <2>1 DEF Closed
  <2>2. CASE ~(b = a /\ s = AfterRevokeJob)
    <3>1. job'[b][AfterRevokeJob] = job[b][AfterRevokeJob]
      BY <1>6, <1>8, <2>2
    <3> QED BY <3>1 DEF Closed
  <2> QED BY <2>1, <2>2
<1> QED BY <1>7, <1>9 DEF FinalJobsFollow

LEMMA SchedulingFloor ==
  ASSUME LedgerInv, LedgerInv', Grows, MeterInv, MeterInv', Within, SampledInv, FloorInv,
         NEW a \in AssociationIds,
         \/ after_authorized(a) \/ before_revoke(a) \/ schedule_after_revoke(a)
         \/ TickRead(a) \/ BecomesDue(a)
         \/ \E s \in Sequences : TickEnqueue(a, s)
  PROVE  SampledInv' /\ FloorInv'
<1>1. UNCHANGED <<total, spent, regressed, association, nextAssociation, segment>> /\ runner' = runner
  BY DEF after_authorized, before_revoke, schedule_after_revoke, TickRead, BecomesDue,
         TickEnqueue, world, people, books
<1>2. BooksInv
  BY DEF LedgerInv
<1>3. \A b \in AssociationIds : <<b, AfterRevokeJob>> \notin planned
  BY DEF SampledInv
<1>4. \A b \in AssociationIds : <<b, AfterRevokeJob>> \notin planned'
  <2>1. CASE TickRead(a)
    <3>1. PICK s : planned' = planned \cup {<<a, s>>} /\ s # AfterRevokeJob
      <4>1. CASE job[a][Initial].phase = "none"
        <5>1. planned' = planned \cup {<<a, Initial>>} /\ Initial # AfterRevokeJob
          BY <2>1, <4>1 DEF TickRead, Initial, AfterRevokeJob
        <5> QED BY <5>1
      <4>2. CASE job[a][Initial].phase # "none"
        <5>1. PICK free : free = {s \in Periodic : job[a][s].phase = "none"}
          OBVIOUS
        <5>2. free # {} /\ planned' = planned \cup {<<a, First(free)>>}
          BY <2>1, <4>2, <5>1 DEF TickRead
        <5>3. free \subseteq Nat
          BY <5>1, BoundAssumption DEF Periodic
        <5>4. First(free) \in free
          BY <5>2, <5>3, FirstIn
        <5>5. First(free) # AfterRevokeJob
          BY <5>1, <5>4 DEF Periodic, AfterRevokeJob
        <5> QED BY <5>2, <5>5
      <4> QED BY <4>1, <4>2
    <3> QED BY <1>3, <3>1
  <2>2. CASE after_authorized(a) \/ before_revoke(a) \/ schedule_after_revoke(a) \/ BecomesDue(a)
             \/ \E s \in Sequences : TickEnqueue(a, s)
    <3>1. planned' \subseteq planned
      BY <2>2 DEF after_authorized, before_revoke, schedule_after_revoke, BecomesDue, TickEnqueue
    <3> QED BY <1>3, <3>1
  <2> QED BY <2>1, <2>2
<1>5. ASSUME job' = job PROVE SamplesFollow /\ FinalJobsFollow
  BY <1>4, <1>5 DEF SamplesFollow, FinalJobsFollow, Closed
<1>6. ASSUME NEW s \in Sequences, NEW phase, Enqueue(a, s, phase),
             s = AfterRevokeJob => a < nextAssociation /\ association[a].ended # None
      PROVE  SamplesFollow /\ FinalJobsFollow
  <2>1. CASE job[a][s].phase = "none"
    <3>1. job' = [job EXCEPT ![a][s].phase = phase]
      BY <1>6, <2>1 DEF Enqueue
    <3> QED BY <1>2, <1>4, <1>6, <2>1, <3>1, PhaseFollows DEF Closed
  <2>2. CASE job[a][s].phase # "none"
    BY <1>5, <1>6, <2>2 DEF Enqueue
  <2> QED BY <2>1, <2>2
<1>7. SamplesFollow /\ FinalJobsFollow
  <2>1. CASE after_authorized(a)
    <3>1. Enqueue(a, Initial, "due") /\ Initial # AfterRevokeJob
      BY <2>1 DEF after_authorized, Initial, AfterRevokeJob
    <3> QED BY <1>6, <3>1, JobSequences
  <2>2. CASE before_revoke(a)
    <3>1. Enqueue(a, BeforeRevokeJob, "due") /\ BeforeRevokeJob # AfterRevokeJob
      BY <2>2 DEF before_revoke, BeforeRevokeJob, AfterRevokeJob
    <3> QED BY <1>6, <3>1, JobSequences
  <2>3. CASE schedule_after_revoke(a)
    <3>1. Enqueue(a, AfterRevokeJob, "waiting") /\ Made(a) /\ association[a].ended # None
      BY <2>3 DEF schedule_after_revoke, Held
    <3>2. a < nextAssociation
      BY <1>2, <3>1, Exists DEF Made
    <3> QED BY <1>6, <3>1, <3>2, JobSequences
  <2>4. CASE TickRead(a)
    BY <1>5, <2>4 DEF TickRead
  <2>5. CASE BecomesDue(a)
    <3>1. job' = [job EXCEPT ![a][AfterRevokeJob].phase = "due"]
          /\ job[a][AfterRevokeJob].phase = "waiting"
      BY <2>5 DEF BecomesDue
    <3> QED BY <1>2, <1>4, <3>1, PhaseFollows, JobSequences
  <2>6. ASSUME NEW s \in Sequences, TickEnqueue(a, s)
        PROVE  SamplesFollow /\ FinalJobsFollow
    <3>1. Enqueue(a, s, "due") /\ s # AfterRevokeJob
      BY <1>3, <2>6 DEF TickEnqueue
    <3> QED BY <1>6, <3>1
  <2> QED BY <2>1, <2>2, <2>3, <2>4, <2>5, <2>6
<1> QED BY <1>1, <1>7, JobsKeep, RunnersStand, RowsRest

LEMMA ClaimFloor ==
  ASSUME LedgerInv, LedgerInv', Grows, MeterInv, MeterInv', Within, SampledInv, FloorInv,
         NEW p \in Runners, NEW a \in AssociationIds, NEW s \in Sequences, Claim(p, a, s)
  PROVE  SampledInv' /\ FloorInv'
<1>1. /\ UNCHANGED <<total, spent, regressed, association, nextAssociation, segment>>
      /\ planned' = planned /\ job[a][s].phase \in {"due", "leased"}
      /\ job' = [job EXCEPT ![a][s].phase = "leased"]
  BY DEF Claim, world, people, books
<1>2. BooksInv /\ runner \in [Runners -> RunnerType]
  BY DEF LedgerInv, RunnersInv
<1>3. SamplesFollow /\ FinalJobsFollow
  BY <1>1, <1>2, PhaseFollows DEF SampledInv
<1>4. ASSUME NEW q \in Runners
      PROVE  RunnerFollows(q)
  <2>1. CASE q = p
    <3>1. runner'[q].step = "plan" /\ runner'[q].assoc = a /\ runner'[q].seq = s
      BY <2>1 DEF Claim, Idle
    <3>2. s = AfterRevokeJob => Closed(a)
      BY <1>1 DEF Closed
    <3>3. s = AfterRevokeJob => Closed(a)'
      BY <1>3, <3>2 DEF FinalJobsFollow
    <3> QED BY <3>1, <3>3 DEF RunnerFollows
  <2>2. CASE q # p
    <3>1. runner'[q] = runner[q] \/ runner'[q] = [runner[q] EXCEPT !.latest = FALSE]
      BY <2>2 DEF Claim
    <3>2. runner[q] \in RunnerType
      BY <1>2
    <3>3. /\ runner'[q].step = runner[q].step /\ runner'[q].assoc = runner[q].assoc
          /\ runner'[q].seq = runner[q].seq /\ runner'[q].claimed = runner[q].claimed
          /\ runner'[q].total = runner[q].total
      BY <3>1, <3>2 DEF RunnerType
    <3> QED BY <3>3 DEF RunnerFollows
  <2> QED BY <2>1, <2>2
<1> QED BY <1>1, <1>3, <1>4, JobsKeep, RowsRest

-----------------------------------------------------------------------------
(* The steps of a runner that leave the rows alone.                        *)

LEMMA MoverFollows ==
  ASSUME LedgerInv, NEW p \in Runners, runner[p].step # "idle",
         \A q \in Runners : q # p => runner'[q] = runner[q],
         runner'[p].assoc = runner[p].assoc, runner'[p].seq = runner[p].seq,
         runner'[p].step \notin {"request", "save"}
  PROVE  \A q \in Runners : RunnerFollows(q)
BY DEF RunnerFollows

LEMMA SettleFollows ==
  ASSUME LedgerInv, NEW p \in Runners, runner[p].step # "idle",
         NEW step, step \notin {"request", "save"}, Settle(p, step)
  PROVE  \A q \in Runners : RunnerFollows(q)
<1>1. runner \in [Runners -> RunnerType]
  BY DEF LedgerInv, RunnersInv
<1>2. /\ runner'[p].step = step /\ runner'[p].assoc = runner[p].assoc
      /\ runner'[p].seq = runner[p].seq
  BY <1>1 DEF Settle, Idle
<1>3. \A q \in Runners : q # p => runner'[q] = runner[q]
  BY <1>1 DEF Settle
<1> QED BY <1>2, <1>3, MoverFollows

LEMMA PlanAsFollows ==
  ASSUME LedgerInv, NEW p \in Runners, runner[p].step # "idle", NEW ended, NEW cutoff, NEW next,
         next \notin {"request", "save"}, PlanAs(p, ended, cutoff, next)
  PROVE  \A q \in Runners : RunnerFollows(q)
<1>1. runner \in [Runners -> RunnerType]
  BY DEF LedgerInv, RunnersInv
<1>2. CASE Settle(p, "retry")
  BY <1>2, SettleFollows
<1>3. ASSUME NEW plan, NEW unresolved, NEW end,
             runner' = [runner EXCEPT ![p].plan = plan, ![p].todo = plan, ![p].step = next,
                          ![p].unresolved = unresolved, ![p].claimed = 0, ![p].ended = end]
      PROVE  \A q \in Runners : RunnerFollows(q)
  <2>1. \A q \in Runners : q # p => runner'[q] = runner[q]
    BY <1>1, <1>3
  <2>2. /\ runner'[p].step = next /\ runner'[p].assoc = runner[p].assoc
        /\ runner'[p].seq = runner[p].seq
    BY <1>1, <1>3 DEF RunnerType
  <2> QED BY <2>1, <2>2, MoverFollows
<1>4. PICK overlapping : overlapping = Planned(runner[p].assoc, ended, cutoff)
  OBVIOUS
<1>5. PICK usable : usable = {c \in overlapping : cycle[c].status \in Usable}
  OBVIOUS
<1>6. PICK end : end = IF next = "ensure" THEN ended ELSE None
  OBVIOUS
<1>7. \/ Settle(p, "retry")
      \/ runner' = [runner EXCEPT ![p].plan = usable, ![p].todo = usable, ![p].step = next,
                      ![p].unresolved = (usable # overlapping), ![p].claimed = 0, ![p].ended = end]
  BY <1>4, <1>5, <1>6 DEF PlanAs
<1> QED BY <1>2, <1>3, <1>7

LEMMA AdvanceFollows ==
  ASSUME LedgerInv, NEW p \in Runners, runner[p].step \notin {"idle", "request", "save"},
         NEW next, next \notin {"request", "save"}, Advance(p, next)
  PROVE  \A q \in Runners : RunnerFollows(q)
<1>1. runner \in [Runners -> RunnerType]
  BY DEF LedgerInv, RunnersInv
<1>2. CASE Settle(p, "retry") \/ Settle(p, "finish")
  BY <1>2, SettleFollows
<1>3. ASSUME NEW todo, runner' = [runner EXCEPT ![p].todo = todo]
      PROVE  \A q \in Runners : RunnerFollows(q)
  <2>1. \A q \in Runners : q # p => runner'[q] = runner[q]
    BY <1>1, <1>3
  <2>2. /\ runner'[p].step = runner[p].step /\ runner'[p].assoc = runner[p].assoc
        /\ runner'[p].seq = runner[p].seq
    BY <1>1, <1>3 DEF RunnerType
  <2> QED BY <2>1, <2>2, MoverFollows
<1>4. ASSUME NEW todo, NEW step, step \notin {"request", "save"},
             runner' = [runner EXCEPT ![p].step = step, ![p].todo = todo, ![p].plan = {}]
      PROVE  \A q \in Runners : RunnerFollows(q)
  <2>1. \A q \in Runners : q # p => runner'[q] = runner[q]
    BY <1>1, <1>4
  <2>2. /\ runner'[p].step = step /\ runner'[p].assoc = runner[p].assoc
        /\ runner'[p].seq = runner[p].seq
    BY <1>1, <1>4 DEF RunnerType
  <2> QED BY <1>4, <2>1, <2>2, MoverFollows
<1> QED BY <1>2, <1>3, <1>4 DEF Advance

LEMMA PlanFloor ==
  ASSUME LedgerInv, LedgerInv', Grows, MeterInv, MeterInv', Within, SampledInv, FloorInv,
         NEW p \in Runners, Plan(p) \/ PlanSample(p)
  PROVE  SampledInv' /\ FloorInv'
<1>1. UNCHANGED <<total, spent, regressed, association, nextAssociation, segment, job, planned>>
  BY DEF Plan, PlanSample, world, people, books
<1>2. \A q \in Runners : RunnerFollows(q)
  BY PlanAsFollows DEF Plan, PlanSample
<1> QED BY <1>1, <1>2, JobsRest, RowsRest, JobsKeep

LEMMA CollectFloor ==
  ASSUME LedgerInv, LedgerInv', Grows, MeterInv, MeterInv', Within, SampledInv, FloorInv,
         NEW p \in Runners, Collect(p)
  PROVE  SampledInv' /\ FloorInv'
<1>1. UNCHANGED <<total, spent, regressed, association, nextAssociation, segment, job, planned>>
  BY DEF Collect, world, people, books
<1>2. runner \in [Runners -> RunnerType]
  BY DEF LedgerInv, RunnersInv
<1>3. \/ runner' = [runner EXCEPT ![p].step = "planSample"]
      \/ runner' = [runner EXCEPT ![p].step = "request", ![p].claimed = now]
  BY DEF Collect, Goto
<1>4. /\ runner'[p].assoc = runner[p].assoc /\ runner'[p].seq = runner[p].seq
      /\ \/ runner'[p].step = "planSample"
         \/ runner'[p].step = "request" /\ runner'[p].claimed = now
      /\ \A q \in Runners : q # p => runner'[q] = runner[q]
  BY <1>2, <1>3 DEF RunnerType
<1>5. \A q \in Runners : RunnerFollows(q)
  BY <1>4 DEF RunnerFollows, Collect
<1> QED BY <1>1, <1>5, JobsRest, RowsRest, JobsKeep

LEMMA AnswerFloor ==
  ASSUME LedgerInv, LedgerInv', Grows, MeterInv, MeterInv', Within, SampledInv, FloorInv,
         NEW p \in Runners, Answer(p)
  PROVE  SampledInv' /\ FloorInv'
<1>1. UNCHANGED <<total, spent, regressed, association, nextAssociation, segment, job, planned>>
  BY DEF Answer, world, people, books
<1>2. runner \in [Runners -> RunnerType]
  BY DEF LedgerInv, RunnersInv
<1>3. PICK amount : amount = TotalOf(runner[p].assoc)
  OBVIOUS
<1>4. runner' = [runner EXCEPT ![p].step = "save", ![p].total = amount]
  BY <1>3 DEF Answer, TotalOf
<1>5. /\ runner'[p].assoc = runner[p].assoc /\ runner'[p].seq = runner[p].seq
      /\ runner'[p].step = "save" /\ runner'[p].claimed = runner[p].claimed
      /\ runner'[p].total = amount
      /\ \A q \in Runners : q # p => runner'[q] = runner[q]
  BY <1>2, <1>4 DEF RunnerType
<1>6. \A q \in Runners : RunnerFollows(q)
  BY <1>3, <1>5 DEF RunnerFollows, Answer
<1> QED BY <1>1, <1>6, JobsRest, RowsRest, JobsKeep

LEMMA SaveFloor ==
  ASSUME LedgerInv, LedgerInv', Grows, MeterInv, MeterInv', Within, SampledInv, FloorInv,
         NEW p \in Runners, Save(p)
  PROVE  SampledInv' /\ FloorInv'
<1>1. PICK a \in AssociationIds, s \in Sequences : a = runner[p].assoc /\ s = runner[p].seq
  BY Place DEF Save
<1>2. UNCHANGED <<total, spent, regressed, association, nextAssociation, segment, planned>>
  BY DEF Save, world, people, books
<1>3. /\ runner \in [Runners -> RunnerType] /\ runner[p] \in RunnerType
      /\ job \in [AssociationIds -> [Sequences -> JobType]]
  BY DEF LedgerInv, RunnersInv, BooksInv, JobsInv
<1>4. /\ runner'[p].step = "planSample" /\ runner'[p].assoc = runner[p].assoc
      /\ runner'[p].seq = runner[p].seq
      /\ \A q \in Runners : q # p => runner'[q] = runner[q]
  <2>1. runner' = [runner EXCEPT ![p].step = "planSample", ![p].claimed = 0, ![p].total = None]
    BY DEF Save
  <2> QED BY <1>3, <2>1 DEF RunnerType
<1>5. \A q \in Runners : RunnerFollows(q)
  BY <1>4, MoverFollows DEF Save
<1>6. ASSUME NEW b \in AssociationIds, NEW q \in Sequences
      PROVE  /\ \/ job'[b][q].sampled = job[b][q].sampled /\ job'[b][q].total = job[b][q].total
                \/ /\ b = a /\ q = s
                   /\ job'[b][q].sampled = runner[p].claimed
                   /\ job'[b][q].total = runner[p].total
             /\ job'[b][q].phase = job[b][q].phase
  <2>1. CASE job' = job
    BY <2>1
  <2>2. CASE job' = [job EXCEPT ![a][s].sampled = runner[p].claimed,
                                ![a][s].total = runner[p].total]
    <3>1. job[b] \in [Sequences -> JobType] /\ job[b][q] \in JobType
      BY <1>3
    <3> QED BY <1>3, <2>2, <3>1 DEF JobType
  <2> QED BY <1>1, <2>1, <2>2 DEF Save
<1>7. SamplesFollow
  <2>1. runner[p].step = "save"
    BY DEF Save
  <2> QED BY <1>1, <1>6, <2>1 DEF SamplesFollow
<1>8. FinalJobsFollow
  <2>1. \A b \in AssociationIds : job'[b][AfterRevokeJob].phase = job[b][AfterRevokeJob].phase
    BY <1>6, JobSequences
  <2>2. \A b \in AssociationIds : <<b, AfterRevokeJob>> \notin planned'
    BY <1>2 DEF SampledInv
  <2> QED BY <2>1, <2>2 DEF FinalJobsFollow, Closed
<1> QED BY <1>2, <1>5, <1>7, <1>8, RowsRest, JobsKeep

LEMMA CompletionFloor ==
  ASSUME LedgerInv, LedgerInv', Grows, MeterInv, MeterInv', Within, SampledInv, FloorInv,
         NEW p \in Runners, Finish(p) \/ Retry(p)
  PROVE  SampledInv' /\ FloorInv'
<1>1. UNCHANGED <<total, spent, regressed, association, nextAssociation, segment, planned>>
  BY DEF Finish, Retry, world, people, books
<1>2. runner' = [runner EXCEPT ![p] = Idle] /\ runner \in [Runners -> RunnerType] /\ BooksInv
  BY DEF Finish, Retry, LedgerInv, RunnersInv
<1>3. \A q \in Runners : RunnerFollows(q)
  BY <1>2 DEF RunnerFollows, Idle
<1>4. PICK a \in AssociationIds, s \in Sequences : a = runner[p].assoc /\ s = runner[p].seq
  BY Place DEF Finish, Retry
<1>5. \/ job' = job
      \/ /\ job[a][s].phase \in Pending
         /\ \/ job' = [job EXCEPT ![a][s].phase = "completed"]
            \/ job' = [job EXCEPT ![a][s].phase = "due"]
  BY <1>4 DEF Finish, Retry
<1>6. \A b \in AssociationIds : <<b, AfterRevokeJob>> \notin planned'
  BY <1>1 DEF SampledInv
<1>7. ASSUME NEW phase, phase \in {"completed", "due"}, job[a][s].phase \in Pending,
             job' = [job EXCEPT ![a][s].phase = phase]
      PROVE  SamplesFollow /\ FinalJobsFollow
  <2>1. job[a][s].phase # "none" /\ phase \notin {"none", "waiting"}
    BY <1>7 DEF Pending
  <2> QED BY <1>2, <1>6, <1>7, <2>1, PhaseFollows
<1>8. SamplesFollow /\ FinalJobsFollow
  <2>1. CASE job' = job
    BY <1>1, <2>1, JobsRest
  <2>2. CASE job[a][s].phase \in Pending /\ job' = [job EXCEPT ![a][s].phase = "completed"]
    BY <1>7, <2>2
  <2>3. CASE job[a][s].phase \in Pending /\ job' = [job EXCEPT ![a][s].phase = "due"]
    BY <1>7, <2>3
  <2> QED BY <1>5, <2>1, <2>2, <2>3
<1> QED BY <1>1, <1>3, <1>8, RowsRest, JobsKeep

LEMMA FaultFloor ==
  ASSUME LedgerInv, LedgerInv', Grows, MeterInv, MeterInv', Within, SampledInv, FloorInv,
         (\E p \in Runners : Fails(p) \/ Cancel(p)) \/ Restart \/ UNCHANGED vars
  PROVE  SampledInv' /\ FloorInv'
<1>1. UNCHANGED <<total, spent, regressed, association, nextAssociation, segment, job>>
      /\ planned' \subseteq planned
  BY DEF Fails, Cancel, Restart, vars, world, people, books
<1>2. SamplesFollow /\ FinalJobsFollow
  BY <1>1 DEF SampledInv, SamplesFollow, FinalJobsFollow, Closed
<1>3. \A q \in Runners : RunnerFollows(q)
  <2>1. runner \in [Runners -> RunnerType]
    BY DEF LedgerInv, RunnersInv
  <2>2. ASSUME NEW p \in Runners, Fails(p)
        PROVE  \A q \in Runners : RunnerFollows(q)
    BY <2>2, SettleFollows DEF Fails
  <2>3. ASSUME NEW p \in Runners, Cancel(p)
        PROVE  \A q \in Runners : RunnerFollows(q)
    <3>1. runner' = [runner EXCEPT ![p] = Idle]
      BY <2>3 DEF Cancel
    <3> QED BY <2>1, <3>1 DEF Idle, RunnerFollows
  <2>4. CASE Restart
    BY <2>4 DEF Restart, Idle, RunnerFollows
  <2>5. CASE UNCHANGED vars
    BY <2>5 DEF vars, RunnerFollows
  <2> QED BY <2>2, <2>3, <2>4, <2>5
<1> QED BY <1>1, <1>2, <1>3, RowsRest, JobsKeep

-----------------------------------------------------------------------------
(* Rows that are opened and charged leave out no use.                      *)

\* What may be written of a in round c.
RowFollows(a, c, row) ==
  /\ RowFits(a, c, row) /\ RowComplete(a, c, row)
  /\ row.at # None => row.at < now
  /\ row.imported = segment[a][c].imported
  /\ row.imported # None => row.baseline = segment[a][c].baseline

LEMMA OpenFits ==
  ASSUME LedgerInv, Within, FloorInv, NEW a \in AssociationIds, NEW c \in CycleIds, Overlaps(a, c)
  PROVE  RowFollows(a, c, SegmentOf(a, c))
<1>1. PICK row : row = SegmentOf(a, c)
  OBVIOUS
<1>2. row.at # None => row.at < now
  BY <1>1, OpenWithin DEF RowWithin
<1>3. CASE segment[a][c] # NoSegment
  <2>1. row = segment[a][c]
    BY <1>1, <1>3 DEF SegmentOf
  <2>2. RowFits(a, c, row) /\ RowComplete(a, c, row)
    BY <2>1 DEF FloorInv, RowsFit, RowsComplete
  <2> QED BY <1>1, <1>2, <2>1, <2>2 DEF RowFollows
<1>4. CASE segment[a][c] = NoSegment
  <2>1. PICK baseline : row = [NoSegment EXCEPT !.baseline = baseline, !.quality = "UNKNOWN"]
    BY <1>1, <1>4 DEF SegmentOf
  <2>2. row.quality = "UNKNOWN" /\ row.imported = None /\ NoSegment.imported = None
    BY <2>1 DEF NoSegment
  <2>3. RowFits(a, c, row) /\ RowComplete(a, c, row)
    BY <2>2 DEF RowFits, RowComplete
  <2> QED BY <1>1, <1>2, <1>4, <2>2, <2>3 DEF RowFollows
<1> QED BY <1>3, <1>4

\* A sample is charged without a mark only on an exact origin; charged with the final
\* sample, or a later one, the row is complete.
LEMMA AppliedFits ==
  ASSUME LedgerInv, MeterInv, FloorInv, NEW a \in AssociationIds, NEW c \in CycleIds,
         Overlaps(a, c), NEW row \in SegmentType, RowFollows(a, c, row),
         NEW at \in Nat, NEW amount \in Nat, at < now, Read(a, at, amount),
         NEW zero, zero => cycle[c].started <= association[a].started
  PROVE  RowFollows(a, c, applied(row, at, amount, zero))
<1>1. /\ row.baseline \in Nat \cup {None} /\ row.at \in Nat \cup {None}
      /\ row.used \in Nat \cup {None} /\ row.imported \in Nat \cup {None}
  BY DEF SegmentType
<1>2. PICK new : new = applied(row, at, amount, zero)
  OBVIOUS
<1>3. PICK import \in Nat : import = Imported(row)
  BY <1>1 DEF Imported
<1>4. at # None /\ amount # None
  BY NoneAssumption
<1>5. /\ RowFits(a, c, row) /\ row.imported = segment[a][c].imported
      /\ row.imported # None => row.baseline = segment[a][c].baseline
  BY DEF RowFollows
<1>6. CASE row.at # None /\ at <= row.at
  <2>1. ~(row.baseline = None /\ (row.at = None \/ at > row.at))
    BY <1>1, <1>6
  <2>2. new = row
    BY <1>2, <1>6, <2>1 DEF applied
  <2> QED BY <1>2, <2>2
<1>7. CASE ~(row.at # None /\ at <= row.at) /\ row.baseline = None
  <2>1. row.at = None \/ at > row.at
    BY <1>1, <1>7
  <2>2. new = [row EXCEPT !.baseline = amount, !.at = at, !.used = 0, !.quality = "NEEDS_REVIEW"]
    BY <1>2, <1>7, <2>1 DEF applied
  <2>3. new.at = at /\ new.quality = "NEEDS_REVIEW" /\ new.imported = row.imported
    BY <2>2 DEF SegmentType
  <2>4. row.imported = None
    BY <1>5, <1>7 DEF RowFits
  <2>5. RowFits(a, c, new) /\ RowComplete(a, c, new)
    BY <2>3, <2>4 DEF RowFits, RowComplete
  <2>6. RowFollows(a, c, new)
    BY <1>5, <2>3, <2>4, <2>5 DEF RowFollows
  <2> QED BY <1>2, <2>6
<1>8. CASE ~(row.at # None /\ at <= row.at) /\ row.baseline # None
  <2>1. PICK base \in Nat : base = row.baseline
    BY <1>1, <1>8
  <2>2. PICK candidate \in Int : candidate = import + amount - base
    OBVIOUS
  <2>3. PICK origin : origin = (row.imported # None \/ (row.baseline = 0 /\ zero))
    OBVIOUS
  <2>4. new = IF candidate < 0 \/ (row.used # None /\ candidate < row.used)
              THEN [row EXCEPT !.at = at, !.quality = "NEEDS_REVIEW"]
              ELSE [row EXCEPT !.at = at, !.used = candidate,
                               !.quality = IF @ # "NEEDS_REVIEW" /\ origin THEN "VERIFIED"
                                           ELSE "NEEDS_REVIEW"]
    BY <1>2, <1>3, <1>8, <2>1, <2>2, <2>3 DEF applied, Imported
  <2>5. /\ new.at = at /\ new.baseline = base /\ new.imported = row.imported
        /\ new.quality = "VERIFIED" => new.used = candidate /\ origin
    BY <2>1, <2>4 DEF SegmentType
  <2>6. Imported(new) = import
    BY <1>3, <2>5 DEF Imported
  <2>7. base # None /\ candidate # None
    BY NoneAssumption
  <2>8. RowFits(a, c, new)
    <3>1. new.quality = "VERIFIED" =>
            \/ new.imported # None
            \/ new.baseline = 0 /\ cycle[c].started <= association[a].started
      BY <2>1, <2>3, <2>5
    <3>2. new.imported # None => new.baseline # None /\ cycle[c].created <= association[a].started
      BY <1>5, <2>5, <2>7 DEF RowFits
    <3> QED BY <1>4, <2>5, <2>7, <3>1, <3>2 DEF RowFits
  <2>9. RowComplete(a, c, new)
    <3>1. SUFFICES ASSUME NEW f \in Nat, new.quality = "VERIFIED", Final(a, f), new.at >= f,
                          Steady(a), NEW w \in Weeks
                   PROVE  spent[a][w] <= new.used - Imported(new)
      BY DEF RowComplete
    <3>2. AtLeast(a, amount)
      BY <2>5, <3>1 DEF FloorInv, ReadsComplete
    <3>3. spent[a][w] <= amount - base
      <4>1. CASE row.imported # None
        BY <1>5, <2>1, <3>2, <4>1 DEF AtLeast
      <4>2. CASE base = 0
        BY <3>2, <4>2 DEF AtLeast
      <4> QED BY <2>1, <2>3, <2>5, <3>1, <4>1, <4>2
    <3>4. new.used = import + amount - base
      BY <2>2, <2>5, <3>1
    <3>5. spent[a][w] \in Nat
      BY SpentTyped
    <3> QED BY <2>6, <3>3, <3>4, <3>5
  <2>10. RowFollows(a, c, new)
    BY <1>5, <2>1, <2>5, <2>8, <2>9 DEF RowFollows
  <2> QED BY <1>2, <2>10
<1> QED BY <1>6, <1>7, <1>8

LEMMA ChargeFits ==
  ASSUME LedgerInv, MeterInv, Within, FloorInv, NEW a \in AssociationIds, NEW c \in CycleIds,
         Overlaps(a, c), NEW at \in Nat, NEW amount \in Nat, at < now, Read(a, at, amount)
  PROVE  RowFollows(a, c, Charge(a, c, at, amount))
<1>1. BooksInv
  BY DEF LedgerInv
<1>2. PICK row \in SegmentType : row = SegmentOf(a, c)
  BY <1>1, OpensSegment
<1>3. RowFollows(a, c, row)
  BY <1>2, OpenFits
<1>4. CASE InWindow(a, c, at)
  <2>1. Charge(a, c, at, amount) = applied(row, at, amount, ZeroOrigin(a, c))
    BY <1>2, <1>4 DEF Charge
  <2>2. ZeroOrigin(a, c) => cycle[c].started <= association[a].started
    BY DEF ZeroOrigin
  <2> QED BY <1>3, <2>1, <2>2, AppliedFits
<1>5. CASE ~InWindow(a, c, at)
  <2>1. PICK new : new = [row EXCEPT !.quality = "NEEDS_REVIEW"]
    OBVIOUS
  <2>2. Charge(a, c, at, amount) = new
    BY <1>2, <1>5, <2>1 DEF Charge
  <2>3. /\ new.baseline = row.baseline /\ new.at = row.at /\ new.imported = row.imported
        /\ new.quality = "NEEDS_REVIEW"
    BY <2>1 DEF SegmentType
  <2>4. RowFits(a, c, new) /\ RowComplete(a, c, new)
    BY <1>3, <2>3 DEF RowFollows, RowFits, RowComplete
  <2>5. RowFollows(a, c, new)
    BY <1>3, <2>3, <2>4 DEF RowFollows
  <2> QED BY <2>2, <2>5
<1> QED BY <1>4, <1>5

LEMMA BookFollows ==
  ASSUME LedgerInv, NEW a \in AssociationIds, NEW c, NEW row,
         segment' = [segment EXCEPT ![a][c] = row],
         c \in CycleIds => c < nextCycle /\ RowFollows(a, c, row)
  PROVE  RowsFollow
<1>1. segment \in [AssociationIds -> [CycleIds -> SegmentType]]
  BY DEF LedgerInv, BooksInv, SegmentsInv
<1>2. \A b \in AssociationIds, e \in CycleIds :
        segment'[b][e] = IF b = a /\ e = c THEN row ELSE segment[b][e]
  BY <1>1
<1>3. ASSUME NEW b \in AssociationIds, NEW e \in CycleIds, b < nextAssociation
      PROVE  \/ segment'[b][e] = segment[b][e]
             \/ e < nextCycle /\ RowFollows(b, e, segment'[b][e])
  BY <1>2
<1> QED BY <1>3 DEF RowsFollow, RowFollows

LEMMA EnsureFloor ==
  ASSUME LedgerInv, LedgerInv', Grows, MeterInv, MeterInv', Within, SampledInv, FloorInv,
         NEW p \in Runners, Ensure(p)
  PROVE  SampledInv' /\ FloorInv'
<1>1. PICK a \in AssociationIds, s \in Sequences :
        a = runner[p].assoc /\ s = runner[p].seq /\ a < nextAssociation
  BY Place DEF Ensure
<1>2. PICK c : c = First(runner[p].todo)
  OBVIOUS
<1>3. UNCHANGED <<total, spent, regressed, association, nextAssociation, job, planned>>
      /\ runner[p].step \in {"ensure", "ensureSample"}
  BY DEF Ensure, world, people
<1>4. RowsFollow /\ \A q \in Runners : RunnerFollows(q)
  <2>1. CASE InContext(a, c)
    <3>1. /\ segment' = [segment EXCEPT ![a][c] = SegmentOf(a, c)]
          /\ Advance(p, IF runner[p].step = "ensure" THEN "collect" ELSE "apply")
      BY <1>1, <1>2, <2>1 DEF Ensure, Book
    <3>2. c \in CycleIds => c < nextCycle /\ RowFollows(a, c, SegmentOf(a, c))
      BY <2>1, ContextStored, OpenFits
    <3>3. PICK next : next = IF runner[p].step = "ensure" THEN "collect" ELSE "apply"
      OBVIOUS
    <3>4. next \notin {"request", "save"} /\ runner[p].step \notin {"idle", "request", "save"}
      BY <1>3, <3>3
    <3>5. Advance(p, next)
      BY <3>1, <3>3
    <3> QED BY <3>1, <3>2, <3>4, <3>5, BookFollows, AdvanceFollows
  <2>2. CASE ~InContext(a, c)
    <3>1. Settle(p, "retry") /\ segment' = segment
      BY <1>1, <1>2, <2>2 DEF Ensure, books
    <3> QED BY <1>3, <3>1, RowsRest, SettleFollows
  <2> QED BY <2>1, <2>2
<1> QED BY <1>3, <1>4, JobsRest, JobsKeep

LEMMA ApplyFloor ==
  ASSUME LedgerInv, LedgerInv', Grows, MeterInv, MeterInv', Within, SampledInv, FloorInv,
         NEW p \in Runners, Apply(p)
  PROVE  SampledInv' /\ FloorInv'
<1>1. PICK a \in AssociationIds, s \in Sequences :
        a = runner[p].assoc /\ s = runner[p].seq /\ a < nextAssociation
  BY Place DEF Apply
<1>2. PICK c : c = First(runner[p].todo)
  OBVIOUS
<1>3. UNCHANGED <<total, spent, regressed, association, nextAssociation, job, planned>>
      /\ runner[p].step = "apply"
  BY DEF Apply, world, people
<1>4. PICK at \in Nat, amount \in Nat :
        at = job[a][s].sampled /\ amount = job[a][s].total /\ at < now
  <2>1. BooksInv /\ Placed(p)
    BY DEF LedgerInv, RunnersInv
  <2>2. /\ job[a][s] \in JobType /\ job[a][s].sampled # None /\ job[a][s].total # None
        /\ job[a][s].sampled < now
    BY <1>1, <1>3, <2>1, JobTyped DEF Placed, BooksInv, JobsInv
  <2> QED BY <2>2 DEF JobType
<1>5. RowsFollow /\ \A q \in Runners : RunnerFollows(q)
  <2>1. CASE InContext(a, c) /\ at >= Starts(a, c) /\ ~Superseded(a, at)
    <3>1. /\ segment' = [segment EXCEPT ![a][c] = Charge(a, c, at, amount)]
          /\ Advance(p, "finish")
      BY <1>1, <1>2, <1>4, <2>1 DEF Apply, Book
    <3>2. Read(a, at, amount)
      BY <1>4 DEF Read
    <3>3. c \in CycleIds => c < nextCycle /\ RowFollows(a, c, Charge(a, c, at, amount))
      BY <1>4, <2>1, <3>2, ContextStored, ChargeFits
    <3> QED BY <1>3, <3>1, <3>3, BookFollows, AdvanceFollows
  <2>2. CASE ~(InContext(a, c) /\ at >= Starts(a, c) /\ ~Superseded(a, at))
    <3>1. Settle(p, "retry") /\ segment' = segment
      BY <1>1, <1>2, <1>4, <2>2 DEF Apply, books
    <3> QED BY <1>3, <3>1, RowsRest, SettleFollows
  <2> QED BY <2>1, <2>2
<1> QED BY <1>3, <1>5, JobsRest, JobsKeep

-----------------------------------------------------------------------------
(* A ledger without a mark is the sum of its rows.                         *)

Rows(u, c) == {a \in AssociationIds : association[a].user = u /\ segment[a][c] # NoSegment}
Charges(u, c) == [a \in Rows(u, c) |-> segment[a][c].used]

\* No row of it has a mark, and an association without a row began after the round was
\* stored.
LedgerExact(u, c) ==
  ledger[u][c].quality = "VERIFIED" =>
    /\ c < nextCycle
    /\ \A a \in Rows(u, c) : segment[a][c].quality = "VERIFIED"
    /\ ledger[u][c].used = SumFunctionOnSet(Charges(u, c), Rows(u, c))
    /\ \A a \in AssociationIds : association[a].user = u /\ Overlaps(a, c) /\ a \notin Rows(u, c) =>
         cycle[c].created <= association[a].started

LedgersExact == \A u \in Users, c \in CycleIds : LedgerExact(u, c)

\* The associations go on, end or begin.
PeopleFollow ==
  \A a \in AssociationIds : /\ a < nextAssociation => GoesOnOrEnds(a)
                            /\ a >= nextAssociation /\ a < nextAssociation' =>
                                 association'[a].started = now

LEMMA LedgerRests ==
  ASSUME LedgerInv, LedgerInv', Grows, MeterInv, PeopleFollow,
         NEW u \in Users, NEW c \in CycleIds, LedgerExact(u, c), ledger'[u][c] = ledger[u][c],
         \A a \in AssociationIds : association'[a].user = u => segment'[a][c] = segment[a][c]
  PROVE  LedgerExact(u, c)'
<1>1. BooksInv /\ BooksInv' /\ u # None
  BY NoneAssumption DEF LedgerInv
<1>2. SUFFICES ASSUME ledger[u][c].quality = "VERIFIED"
               PROVE  /\ c < nextCycle'
                      /\ \A a \in Rows(u, c)' : segment'[a][c].quality = "VERIFIED"
                      /\ ledger[u][c].used = SumFunctionOnSet(Charges(u, c), Rows(u, c))'
                      /\ \A a \in AssociationIds :
                           association'[a].user = u /\ Overlaps(a, c)' /\ a \notin Rows(u, c)' =>
                             cycle'[c].created <= association'[a].started
  BY DEF LedgerExact
<1>3. c < nextCycle
  BY <1>2 DEF LedgerExact
<1>4. ASSUME NEW a \in AssociationIds
      PROVE  a < nextAssociation => association'[a].user = association[a].user
  BY DEF PeopleFollow, GoesOnOrEnds, PersonStays
<1>5. ASSUME NEW a \in AssociationIds, segment[a][c] # NoSegment
      PROVE  a < nextAssociation
  BY <1>1, <1>5, Numbers DEF BooksInv, SegmentsInv
<1>6. Rows(u, c)' = Rows(u, c) /\ \A a \in Rows(u, c) : segment'[a][c] = segment[a][c]
  <2>1. \A a \in AssociationIds :
          association'[a].user = u /\ segment'[a][c] # NoSegment <=>
          association[a].user = u /\ segment[a][c] # NoSegment
    BY <1>4, <1>5
  <2>2. Rows(u, c)' = {a \in AssociationIds : association'[a].user = u /\ segment'[a][c] # NoSegment}
    BY DEF Rows
  <2> QED BY <2>1, <2>2 DEF Rows
<1>7. Charges(u, c)' = Charges(u, c)
  BY <1>6 DEF Charges
<1>8. SumFunctionOnSet(Charges(u, c), Rows(u, c))' = SumFunctionOnSet(Charges(u, c), Rows(u, c))
  BY <1>6, <1>7
<1>9. ASSUME NEW a \in AssociationIds, association'[a].user = u, Overlaps(a, c)',
             a \notin Rows(u, c)
      PROVE  cycle'[c].created <= association'[a].started
  <2>1. CASE a < nextAssociation
    <3>1. GoesOnOrEnds(a) /\ association[a].user = u
      BY <1>4, <1>9, <2>1 DEF PeopleFollow
    <3>2. /\ Overlaps(a, c) /\ cycle'[c].created = cycle[c].created
          /\ association'[a].started = association[a].started
      BY <1>3, <1>9, <2>1, <3>1, OverlapStays
    <3> QED BY <1>2, <1>9, <3>1, <3>2 DEF LedgerExact
  <2>2. CASE ~(a < nextAssociation)
    <3>1. a < nextAssociation'
      BY <1>1, <1>9 DEF BooksInv, PeopleInv, NoAssociation
    <3>2. a >= nextAssociation
      BY <1>1, <2>2, Numbers
    <3>3. association'[a].started = now
      BY <3>1, <3>2 DEF PeopleFollow
    <3>4. cycle[c].created <= now /\ cycle'[c].created = cycle[c].created
      BY <1>3, RoundsBegan DEF Grows, RoundsGrow
    <3> QED BY <3>3, <3>4
  <2> QED BY <2>1, <2>2
<1>10. c < nextCycle'
  <2>1. nextCycle \in Nat /\ nextCycle' \in Nat /\ nextCycle' >= nextCycle /\ c \in Nat
    BY <1>1, RoundTyped DEF BooksInv, Grows, RoundsGrow
  <2> QED BY <1>3, <2>1
<1> QED BY <1>2, <1>6, <1>8, <1>9, <1>10 DEF LedgerExact

\* The books are left alone.
LEMMA LedgersRest ==
  ASSUME LedgerInv, LedgerInv', Grows, MeterInv, PeopleFollow, LedgersExact, UNCHANGED books
  PROVE  LedgersExact'
<1> SUFFICES ASSUME NEW u \in Users, NEW c \in CycleIds
             PROVE  LedgerExact(u, c)'
  BY DEF LedgersExact
<1>1. segment' = segment /\ ledger' = ledger
  BY DEF books
<1>2. LedgerExact(u, c)
  BY DEF LedgersExact
<1> QED BY <1>1, <1>2, LedgerRests

\* What the rows of u in c become.
RowsIn(u, c, seg) == {a \in AssociationIds : association[a].user = u /\ seg[a][c] # NoSegment}
ChargesIn(u, c, seg) == [a \in RowsIn(u, c, seg) |-> seg[a][c].used]

\* A ledger that is refreshed without a mark has a row of every association.
LEMMA RefreshedExact ==
  ASSUME NEW u, NEW c, NEW seg, RowsIn(u, c, seg) # {}, refreshed(u, c, seg).quality = "VERIFIED"
  PROVE  /\ \A a \in RowsIn(u, c, seg) : seg[a][c].quality = "VERIFIED"
         /\ refreshed(u, c, seg).used = SumFunctionOnSet(ChargesIn(u, c, seg), RowsIn(u, c, seg))
         /\ \A a \in AssociationIds \ RowsIn(u, c, seg) :
              ~(association[a].user = u /\ Overlaps(a, c))
<1> PICK rows :
      rows = {a \in AssociationIds : association[a].user = u /\ seg[a][c] # NoSegment}
  OBVIOUS
<1>0. rows = RowsIn(u, c, seg)
  BY DEF RowsIn
<1>1. PICK known : known = {a \in rows : seg[a][c].used # None}
  OBVIOUS
<1>2. PICK charges : charges = [a \in rows |-> seg[a][c].used]
  OBVIOUS
<1>3. PICK sum : sum = IF known = {} THEN None ELSE SumFunctionOnSet(charges, known)
  OBVIOUS
<1>4. PICK falls : falls = (ledger[u][c].used # None /\ (sum = None \/ sum < ledger[u][c].used))
  OBVIOUS
<1>5. PICK review : review =
        (\/ \E a \in AssociationIds \ rows : association[a].user = u /\ Overlaps(a, c)
         \/ falls
         \/ \E a \in rows : seg[a][c].quality = "NEEDS_REVIEW"
         \/ known # {} /\ known # rows)
  OBVIOUS
<1>6. PICK verified : verified = (known = rows /\ \A a \in rows : seg[a][c].quality = "VERIFIED")
  OBVIOUS
<1>7. PICK used : used = IF falls THEN ledger[u][c].used ELSE sum
  OBVIOUS
<1>8. refreshed(u, c, seg) =
        [used |-> used,
         quality |-> CASE review -> "NEEDS_REVIEW"
                       [] ~review /\ verified -> "VERIFIED"
                       [] ~review /\ known = {} -> "UNKNOWN"
                       [] OTHER -> "NEEDS_REVIEW"]
  BY <1>1, <1>2, <1>3, <1>4, <1>5, <1>6, <1>7 DEF refreshed
<1>9. refreshed(u, c, seg).used = used /\ ~review /\ verified
  <2>1. (CASE review -> "NEEDS_REVIEW"
           [] ~review /\ verified -> "VERIFIED"
           [] ~review /\ known = {} -> "UNKNOWN"
           [] OTHER -> "NEEDS_REVIEW") = "VERIFIED"
    BY <1>8
  <2>2. ~review /\ verified
    BY <2>1
  <2> QED BY <1>8, <2>2
<1>10. known = rows /\ ~falls /\ rows # {}
  BY <1>0, <1>5, <1>6, <1>9
<1>11. used = SumFunctionOnSet(charges, rows)
  BY <1>3, <1>7, <1>10
<1>12. charges = ChargesIn(u, c, seg)
  BY <1>0, <1>2 DEF ChargesIn
<1> QED BY <1>0, <1>5, <1>6, <1>9, <1>11, <1>12

\* A row is written with its ledger.
LEMMA BookExact ==
  ASSUME LedgerInv, LedgerInv', Grows, MeterInv, Within, LedgersExact,
         UNCHANGED <<people, rounds>>, NEW a \in AssociationIds, a < nextAssociation, NEW c,
         NEW row, Book(a, c, row), c \in CycleIds => c < nextCycle /\ row # NoSegment
  PROVE  LedgersExact'
<1> SUFFICES ASSUME NEW v \in Users, NEW e \in CycleIds
             PROVE  LedgerExact(v, e)'
  BY DEF LedgersExact
<1>1. PICK u \in Users : u = association[a].user
  BY DEF MeterInv, ClockInv, LedgerInv, BooksInv, PeopleInv, PersonType
<1>2. PICK seg : seg = segment'
  OBVIOUS
<1>3. /\ segment \in [AssociationIds -> [CycleIds -> SegmentType]]
      /\ ledger \in [Users -> [CycleIds -> LedgerRow]]
      /\ association' = association /\ nextAssociation' = nextAssociation
      /\ cycle' = cycle /\ nextCycle' = nextCycle
  BY DEF LedgerInv, BooksInv, SegmentsInv, Within, BooksWithin, people, rounds
<1>4. PICK new : new = refreshed(u, c, seg)
  OBVIOUS
<1>5. seg = [segment EXCEPT ![a][c] = row] /\ ledger' = [ledger EXCEPT ![u][c] = new]
  BY <1>1, <1>2, <1>4 DEF Book
<1>6. /\ \A b \in AssociationIds : b # a \/ c # e => seg[b][e] = segment[b][e]
      /\ c = e => seg[a][e] = row
  BY <1>3, <1>5
<1>7. CASE v # u \/ e # c
  <2>1. ledger'[v][e] = ledger[v][e]
    BY <1>3, <1>5, <1>7
  <2>2. \A b \in AssociationIds : association'[b].user = v => segment'[b][e] = segment[b][e]
    BY <1>1, <1>2, <1>3, <1>6, <1>7
  <2>3. PeopleFollow
    <3>1. \A b \in AssociationIds : ~(b >= nextAssociation /\ b < nextAssociation')
      BY <1>3, Numbers DEF LedgerInv
    <3> QED BY <1>3, <3>1 DEF PeopleFollow, GoesOnOrEnds, PersonStays
  <2> QED BY <2>1, <2>2, <2>3, LedgerRests DEF LedgersExact
<1>8. CASE v = u /\ e = c
  <2>1. ledger'[v][e] = new
    BY <1>3, <1>5, <1>8
  <2>2. PICK rows, charges : rows = RowsIn(u, c, seg) /\ charges = ChargesIn(u, c, seg)
    OBVIOUS
  <2>3. Rows(v, e)' = rows /\ Charges(v, e)' = charges
    <3>1. Rows(v, e)' = rows
      BY <1>2, <1>3, <1>8, <2>2 DEF Rows, RowsIn
    <3> QED BY <1>2, <1>8, <2>2, <3>1 DEF Charges, ChargesIn
  <2>4. a \in rows
    BY <1>1, <1>6, <1>8, <2>2 DEF RowsIn
  <2>5. SUFFICES ASSUME new.quality = "VERIFIED"
                 PROVE  /\ e < nextCycle'
                        /\ \A b \in rows : seg[b][c].quality = "VERIFIED"
                        /\ new.used = SumFunctionOnSet(charges, rows)
                        /\ \A b \in AssociationIds : b \notin rows =>
                             ~(association[b].user = u /\ Overlaps(b, c))
    <3>1. SumFunctionOnSet(Charges(v, e), Rows(v, e))' =
            SumFunctionOnSet(charges, rows)
      BY <2>3
    <3>2. \A b \in AssociationIds : Overlaps(b, e)' <=> Overlaps(b, c)
      BY <1>3, <1>8 DEF Overlaps
    <3> QED BY <1>2, <1>3, <1>8, <2>1, <2>3, <3>1, <3>2 DEF LedgerExact
  <2>6. rows # {} /\ refreshed(u, c, seg).quality = "VERIFIED"
    BY <1>4, <2>4, <2>5
  <2>7. /\ \A b \in rows : seg[b][c].quality = "VERIFIED"
        /\ refreshed(u, c, seg).used = SumFunctionOnSet(charges, rows)
        /\ \A b \in AssociationIds \ rows : ~(association[b].user = u /\ Overlaps(b, c))
    BY <2>2, <2>6, RefreshedExact
  <2>8. e < nextCycle'
    BY <1>3, <1>8
  <2> QED BY <1>4, <2>7, <2>8
<1> QED BY <1>7, <1>8

LEMMA SumOfOne ==
  ASSUME NEW f, NEW y, f[y] \in Nat
  PROVE  SumFunctionOnSet(f, {y}) = f[y]
<1>1. IsFiniteSet({y})
  BY FS_Singleton
<1>2. SumFunctionOnSet(f, {y}) = f[y] + SumFunctionOnSet(f, {y} \ {y})
  BY <1>1, SumTakesAny
<1>3. {y} \ {y} = {}
  OBVIOUS
<1>4. SumFunctionOnSet(f, {}) = 0
  BY SumOfNothing
<1> QED BY <1>2, <1>3, <1>4

\* An import is the only row of its ledger.
LEMMA ImportExact ==
  ASSUME LedgerInv, LedgerInv', Grows, MeterInv, Within, LedgersExact,
         NEW u \in Users, NEW d \in Devices, NEW amount \in Nat,
         import_initial_usage(u, d, amount)
  PROVE  LedgersExact'
<1> SUFFICES ASSUME NEW v \in Users, NEW e \in CycleIds
             PROVE  LedgerExact(v, e)'
  BY DEF LedgersExact
<1>1. /\ BooksInv /\ NewAssociation(u, d, FALSE)
      /\ cycle' = cycle /\ nextCycle' = nextCycle
      /\ \A b \in AssociationIds : association[b].user # u
  BY DEF LedgerInv, import_initial_usage, rounds
<1>2. PICK n \in AssociationIds, c \in CycleIds :
        /\ n = nextAssociation /\ c = Latest /\ c < nextCycle /\ now < cycle[c].reset
        /\ segment'[n][c] = [baseline |-> total[d], at |-> now, used |-> amount,
                             imported |-> amount, quality |-> "VERIFIED"]
        /\ \A b \in AssociationIds, x \in CycleIds :
             b # n \/ x # c => segment'[b][x] = segment[b][x]
  BY ImportRows
<1>3. n \in Nat /\ nextAssociation' = n + 1 /\ \A b \in AssociationIds : b \in Nat
  BY <1>1, <1>2, NewPerson, Numbers
<1>4. PICK person : person = [user |-> u, device |-> d, started |-> now, ended |-> None,
                              fresh |-> FALSE]
  OBVIOUS
<1>5. association' = [association EXCEPT ![n] = person]
  BY <1>1, <1>2, <1>4 DEF NewAssociation
<1>6. /\ association'[n] = person
      /\ \A b \in AssociationIds : b # n => association'[b] = association[b]
  BY <1>1, <1>5 DEF BooksInv, PeopleInv
<1>7. ledger' = [ledger EXCEPT ![u][c] = [used |-> amount, quality |-> "VERIFIED"]]
      /\ ledger \in [Users -> [CycleIds -> LedgerRow]]
  BY <1>2 DEF import_initial_usage, Within, BooksWithin
<1>8. PeopleFollow
  <2>1. \A b \in AssociationIds : b < nextAssociation => b # n
    BY <1>2, <1>3
  <2>2. \A b \in AssociationIds : b >= nextAssociation /\ b < nextAssociation' => b = n
    BY <1>2, <1>3
  <2> QED BY <1>4, <1>6, <2>1, <2>2 DEF PeopleFollow, GoesOnOrEnds, PersonStays
<1>9. CASE v # u \/ e # c
  <2>1. ledger'[v][e] = ledger[v][e]
    BY <1>7, <1>9
  <2>2. \A b \in AssociationIds : association'[b].user = v => segment'[b][e] = segment[b][e]
    BY <1>2, <1>4, <1>6, <1>9
  <2> QED BY <1>8, <2>1, <2>2, LedgerRests DEF LedgersExact
<1>10. CASE v = u /\ e = c
  <2>1. ledger'[v][e] = [used |-> amount, quality |-> "VERIFIED"]
    BY <1>7, <1>10
  <2>2. segment'[n][e].quality = "VERIFIED" /\ segment'[n][e].used = amount
    BY <1>2, <1>10
  <2>3. segment'[n][e] # NoSegment
    BY <2>2 DEF NoSegment
  <2>4. \A b \in AssociationIds : association'[b].user = v <=> b = n
    BY <1>1, <1>4, <1>6, <1>10
  <2>5. Rows(v, e)' = {n}
    BY <2>3, <2>4 DEF Rows
  <2>6. PICK charges : charges = Charges(v, e)' /\ charges[n] = amount
    <3>1. Charges(v, e)' = [b \in {n} |-> segment'[b][e].used]
      BY <2>5 DEF Charges
    <3> QED BY <2>2, <3>1
  <2>7. SumFunctionOnSet(charges, {n}) = amount
    BY <2>6, SumOfOne
  <2>8. SumFunctionOnSet(Charges(v, e), Rows(v, e))' = amount
    BY <2>5, <2>6, <2>7
  <2>9. e < nextCycle'
    BY <1>1, <1>2, <1>10
  <2> QED BY <2>1, <2>2, <2>4, <2>5, <2>8, <2>9 DEF LedgerExact
<1> QED BY <1>9, <1>10

-----------------------------------------------------------------------------
(* Every step keeps the ledgers exact.                                     *)

LEMMA StandersFollow ==
  ASSUME BooksInv, UNCHANGED people
  PROVE  PeopleFollow
<1>1. association' = association /\ nextAssociation' = nextAssociation
  BY DEF people
<1>2. \A a \in AssociationIds : ~(a >= nextAssociation /\ a < nextAssociation')
  BY <1>1, Numbers
<1> QED BY <1>1, <1>2 DEF PeopleFollow, GoesOnOrEnds, PersonStays

LEMMA EndExact ==
  ASSUME LedgerInv, LedgerInv', Grows, MeterInv, LedgersExact, NEW a \in AssociationIds, End(a)
  PROVE  LedgersExact'
<1>1. /\ association[a].ended = None /\ association' = [association EXCEPT ![a].ended = now]
      /\ nextAssociation' = nextAssociation /\ UNCHANGED books
  BY DEF End, Held
<1>2. association \in [AssociationIds -> PersonType] /\ BooksInv
  BY DEF LedgerInv, BooksInv, PeopleInv
<1>3. association[a] \in PersonType /\ association'[a] = [association[a] EXCEPT !.ended = now]
  BY <1>1, <1>2
<1>4. GoesOnOrEnds(a)
  BY <1>1, <1>3 DEF GoesOnOrEnds, PersonStays, PersonType
<1>5. \A b \in AssociationIds : b # a => association'[b] = association[b]
  BY <1>1, <1>2
<1>6. \A b \in AssociationIds : ~(b >= nextAssociation /\ b < nextAssociation')
  BY <1>1, <1>2, Numbers
<1>7. PeopleFollow
  BY <1>4, <1>5, <1>6 DEF PeopleFollow, GoesOnOrEnds, PersonStays
<1> QED BY <1>1, <1>7, LedgersRest

LEMMA AssociateExact ==
  ASSUME LedgerInv, LedgerInv', Grows, MeterInv, LedgersExact,
         NEW u \in Users, NEW d \in Devices, NEW fresh \in BOOLEAN, Associate(u, d, fresh)
  PROVE  LedgersExact'
<1>1. BooksInv /\ NewAssociation(u, d, fresh) /\ UNCHANGED books
  BY DEF LedgerInv, Associate
<1>2. PICK n \in AssociationIds : n = nextAssociation /\ n \in Nat /\ nextAssociation' = n + 1
  BY <1>1, NewPerson, Numbers
<1>3. PICK person : person = [user |-> u, device |-> d, started |-> now, ended |-> None,
                              fresh |-> fresh]
  OBVIOUS
<1>4. association' = [association EXCEPT ![n] = person]
  BY <1>1, <1>2, <1>3 DEF NewAssociation
<1>5. /\ association'[n] = person
      /\ \A b \in AssociationIds : b # n => association'[b] = association[b]
  BY <1>1, <1>4 DEF BooksInv, PeopleInv
<1>6. \A b \in AssociationIds : /\ b < nextAssociation => b # n
                                /\ b >= nextAssociation /\ b < nextAssociation' => b = n
  <2>1. \A b \in AssociationIds : b \in Nat
    BY <1>1, Numbers
  <2> QED BY <1>2, <2>1
<1>7. PeopleFollow
  BY <1>3, <1>5, <1>6 DEF PeopleFollow, GoesOnOrEnds, PersonStays
<1> QED BY <1>1, <1>7, LedgersRest

\* What is charged is a row.
LEMMA ChargeIsRow ==
  ASSUME LedgerInv, Within, NEW a \in AssociationIds, NEW c \in CycleIds,
         NEW at \in Nat, NEW amount \in Nat
  PROVE  Charge(a, c, at, amount) # NoSegment
<1>1. PICK row \in SegmentType : row = SegmentOf(a, c)
  BY OpensSegment DEF LedgerInv
<1>2. row.quality # "NONE" /\ NoSegment.quality = "NONE"
  BY <1>1, OpenWithin DEF NoSegment
<1>3. ASSUME NEW zero PROVE applied(row, at, amount, zero).quality # "NONE"
  <2>1. PICK new : new = applied(row, at, amount, zero)
    OBVIOUS
  <2>2. row.at \in Nat \cup {None}
    BY DEF SegmentType
  <2>3. CASE row.at # None /\ at <= row.at
    <3>1. ~(row.baseline = None /\ (row.at = None \/ at > row.at))
      BY <2>2, <2>3
    <3>2. new = row
      BY <2>1, <2>3, <3>1 DEF applied
    <3> QED BY <1>2, <2>1, <3>2
  <2>4. CASE ~(row.at # None /\ at <= row.at) /\ row.baseline = None
    <3>1. row.at = None \/ at > row.at
      BY <2>2, <2>4
    <3>2. new = [row EXCEPT !.baseline = amount, !.at = at, !.used = 0, !.quality = "NEEDS_REVIEW"]
      BY <2>1, <2>4, <3>1 DEF applied
    <3> QED BY <2>1, <3>2 DEF SegmentType
  <2>5. CASE ~(row.at # None /\ at <= row.at) /\ row.baseline # None
    <3>1. PICK candidate : candidate = Imported(row) + amount - row.baseline
      OBVIOUS
    <3>2. PICK origin : origin = (row.imported # None \/ (row.baseline = 0 /\ zero))
      OBVIOUS
    <3>3. new = IF candidate < 0 \/ (row.used # None /\ candidate < row.used)
                THEN [row EXCEPT !.at = at, !.quality = "NEEDS_REVIEW"]
                ELSE [row EXCEPT !.at = at, !.used = candidate,
                                 !.quality = IF @ # "NEEDS_REVIEW" /\ origin THEN "VERIFIED"
                                             ELSE "NEEDS_REVIEW"]
      BY <2>1, <2>5, <3>1, <3>2 DEF applied, Imported
    <3>4. new.quality \in {"VERIFIED", "NEEDS_REVIEW"}
      BY <3>3 DEF SegmentType
    <3> QED BY <2>1, <3>4
  <2> QED BY <2>3, <2>4, <2>5
<1>4. [row EXCEPT !.quality = "NEEDS_REVIEW"].quality # "NONE"
  BY DEF SegmentType
<1>5. Charge(a, c, at, amount).quality # "NONE"
  <2>1. CASE InWindow(a, c, at)
    BY <1>1, <1>3, <2>1 DEF Charge
  <2>2. CASE ~InWindow(a, c, at)
    BY <1>1, <1>4, <2>2 DEF Charge
  <2> QED BY <2>1, <2>2
<1> QED BY <1>2, <1>5

LEMMA EnsureExact ==
  ASSUME LedgerInv, LedgerInv', Grows, MeterInv, Within, LedgersExact, NEW p \in Runners, Ensure(p)
  PROVE  LedgersExact'
<1>1. UNCHANGED <<people, rounds>> /\ UNCHANGED people
  BY DEF Ensure
<1>2. PICK a \in AssociationIds, s \in Sequences :
        a = runner[p].assoc /\ s = runner[p].seq /\ a < nextAssociation
  BY Place DEF Ensure
<1>3. PICK c : c = First(runner[p].todo)
  OBVIOUS
<1>4. CASE InContext(a, c)
  <2>1. Book(a, c, SegmentOf(a, c))
    BY <1>2, <1>3, <1>4 DEF Ensure
  <2>2. c \in CycleIds => c < nextCycle /\ SegmentOf(a, c) # NoSegment
    BY <1>4, ContextStored, OpenWithin DEF NoSegment
  <2> QED BY <1>1, <1>2, <2>1, <2>2, BookExact
<1>5. CASE ~InContext(a, c)
  <2>1. UNCHANGED books
    BY <1>2, <1>3, <1>5 DEF Ensure
  <2> QED BY <1>1, <2>1, StandersFollow, LedgersRest DEF LedgerInv
<1> QED BY <1>4, <1>5

LEMMA ApplyExact ==
  ASSUME LedgerInv, LedgerInv', Grows, MeterInv, Within, LedgersExact, NEW p \in Runners, Apply(p)
  PROVE  LedgersExact'
<1>1. UNCHANGED <<people, rounds>> /\ UNCHANGED people /\ runner[p].step = "apply"
  BY DEF Apply
<1>2. PICK a \in AssociationIds, s \in Sequences :
        a = runner[p].assoc /\ s = runner[p].seq /\ a < nextAssociation
  BY Place DEF Apply
<1>3. PICK c : c = First(runner[p].todo)
  OBVIOUS
<1>4. PICK at \in Nat, amount \in Nat : at = job[a][s].sampled /\ amount = job[a][s].total
  <2>1. BooksInv /\ Placed(p)
    BY DEF LedgerInv, RunnersInv
  <2>2. job[a][s] \in JobType /\ job[a][s].sampled # None /\ job[a][s].total # None
    BY <1>1, <1>2, <2>1, JobTyped DEF Placed, BooksInv, JobsInv
  <2> QED BY <2>2 DEF JobType
<1>5. CASE InContext(a, c) /\ at >= Starts(a, c) /\ ~Superseded(a, at)
  <2>1. Book(a, c, Charge(a, c, at, amount))
    BY <1>2, <1>3, <1>4, <1>5 DEF Apply
  <2>2. c \in CycleIds => c < nextCycle /\ Charge(a, c, at, amount) # NoSegment
    BY <1>5, ContextStored, ChargeIsRow
  <2> QED BY <1>1, <1>2, <2>1, <2>2, BookExact
<1>6. CASE ~(InContext(a, c) /\ at >= Starts(a, c) /\ ~Superseded(a, at))
  <2>1. UNCHANGED books
    BY <1>2, <1>3, <1>4, <1>6 DEF Apply
  <2> QED BY <1>1, <2>1, StandersFollow, LedgersRest DEF LedgerInv
<1> QED BY <1>5, <1>6

LEMMA ExactNext ==
  ASSUME LedgerInv, LedgerInv', Grows, MeterInv, Within, LedgersExact, [Next]_vars
  PROVE  LedgersExact'
<1>1. ASSUME UNCHANGED <<people, books>> PROVE LedgersExact'
  <2>1. UNCHANGED people /\ UNCHANGED books
    BY <1>1
  <2> QED BY <2>1, StandersFollow, LedgersRest DEF LedgerInv
<1>2. CASE Environment
  <2>1. ASSUME NEW d \in Devices, Regress(d) PROVE LedgersExact'
    BY <1>1, <2>1 DEF Regress
  <2>2. ASSUME NEW u \in Users, NEW d \in Devices,
               (\E fresh \in BOOLEAN : Associate(u, d, fresh)) \/ import_initial_usage(u, d, 1)
        PROVE  LedgersExact'
    BY <2>2, AssociateExact, ImportExact
  <2>3. ASSUME NEW a \in AssociationIds, Report(a) \/ End(a) PROVE LedgersExact'
    BY <1>1, <2>3, EndExact DEF Report
  <2>4. ASSUME NEW status, SyncRollover(status) \/ SyncCurrent(status) PROVE LedgersExact'
    BY <1>1, <2>4 DEF SyncRollover, SyncCurrent
  <2>5. CASE Pass
    BY <1>1, <2>5 DEF Pass
  <2> QED BY <1>2, <2>1, <2>2, <2>3, <2>4, <2>5 DEF Environment
<1>3. CASE Sampling
  BY <1>1, <1>3 DEF Sampling, after_authorized, before_revoke, schedule_after_revoke, TickRead,
     BecomesDue, TickEnqueue, Claim
<1>4. ASSUME NEW p \in Runners, Steps(p)
      PROVE  LedgersExact'
  <2>1. CASE Ensure(p) \/ Apply(p)
    BY <2>1, EnsureExact, ApplyExact
  <2>2. CASE Plan(p) \/ Collect(p) \/ Answer(p) \/ Save(p) \/ PlanSample(p) \/ Finish(p) \/ Retry(p)
    BY <1>1, <2>2 DEF Plan, Collect, Answer, Save, PlanSample, Finish, Retry
  <2> QED BY <1>4, <2>1, <2>2 DEF Steps
<1>5. CASE (\E p \in Runners : Fails(p) \/ Cancel(p)) \/ Restart \/ UNCHANGED vars
  BY <1>1, <1>5 DEF Fails, Cancel, Restart, vars
<1> QED BY <1>2, <1>3, <1>4, <1>5 DEF Next

LEMMA FloorNext ==
  ASSUME LedgerInv, LedgerInv', Grows, MeterInv, MeterInv', Within, SampledInv, FloorInv,
         [Next]_vars
  PROVE  SampledInv' /\ FloorInv'
<1>1. CASE Environment
  <2>1. ASSUME NEW d \in Devices, Regress(d) PROVE SampledInv' /\ FloorInv'
    BY <2>1, RegressFloor
  <2>2. ASSUME NEW u \in Users, NEW d \in Devices,
               (\E fresh \in BOOLEAN : Associate(u, d, fresh)) \/ import_initial_usage(u, d, 1)
        PROVE  SampledInv' /\ FloorInv'
    BY <2>2, AssociateFloor, ImportFloor
  <2>3. ASSUME NEW a \in AssociationIds, Report(a) \/ End(a) PROVE SampledInv' /\ FloorInv'
    BY <2>3, ReportFloor, EndFloor
  <2>4. ASSUME NEW status, SyncRollover(status) \/ SyncCurrent(status)
        PROVE  SampledInv' /\ FloorInv'
    BY <2>4, StillSteps
  <2>5. CASE Pass
    BY <2>5, StillSteps
  <2> QED BY <1>1, <2>1, <2>2, <2>3, <2>4, <2>5 DEF Environment
<1>2. CASE Sampling
  BY <1>2, SchedulingFloor, ClaimFloor DEF Sampling
<1>3. ASSUME NEW p \in Runners, Steps(p)
      PROVE  SampledInv' /\ FloorInv'
  BY <1>3, PlanFloor, EnsureFloor, CollectFloor, AnswerFloor, SaveFloor, ApplyFloor,
     CompletionFloor DEF Steps
<1>4. CASE (\E p \in Runners : Fails(p) \/ Cancel(p)) \/ Restart \/ UNCHANGED vars
  BY <1>4, FaultFloor
<1> QED BY <1>1, <1>2, <1>3, <1>4 DEF Next

WholeInv == SampledInv /\ FloorInv /\ LedgersExact

LEMMA InitWhole == Init => WholeInv
<1> SUFFICES ASSUME Init PROVE WholeInv
  OBVIOUS
<1>1. SampledInv
  BY JobSequences DEF Init, SampledInv, Attends, NoJob, Idle
<1>2. ASSUME NEW a \in AssociationIds, NEW f \in Nat PROVE ~Final(a, f)
  <2>1. f # None
    BY NoneAssumption
  <2> QED BY <2>1, JobSequences DEF Final, Init, NoJob, Idle
<1>3. \A a \in AssociationIds : ~(a < nextAssociation)
  BY BoundsTyped DEF Init, AssociationIds
<1>4. FloorInv
  <2>1. UnusedInv
    BY DEF UnusedInv, Init
  <2>2. TotalsComplete
    BY <1>3 DEF TotalsComplete
  <2>3. ReadsComplete
    BY <1>2 DEF ReadsComplete
  <2>4. RowsFit
    BY DEF RowsFit, RowFits, Init, NoSegment
  <2>5. RowsComplete
    BY <1>2 DEF RowsComplete, RowComplete
  <2> QED BY <2>1, <2>2, <2>3, <2>4, <2>5 DEF FloorInv
<1>5. LedgersExact
  <2>1. \A u \in Users, c \in CycleIds : ledger[u][c].quality = "NONE"
    BY DEF Init, NoLedger
  <2> QED BY <2>1 DEF LedgersExact, LedgerExact
<1> QED BY <1>1, <1>4, <1>5 DEF WholeInv

-----------------------------------------------------------------------------
(* A ledger without a mark whose associations are over is complete.        *)

\* The final sample of an association is counted in the rounds it began in or after.
LEMMA SettledCounts ==
  ASSUME LedgerInv, WholeInv, NEW a \in AssociationIds, NEW c \in CycleIds, c < nextCycle,
         a < nextAssociation, Overlaps(a, c), job[a][AfterRevokeJob].phase = "completed",
         \/ cycle[c].created <= association[a].started
         \/ cycle[c].started <= association[a].started
  PROVE  \E f \in Nat : /\ Final(a, f) /\ Counted(a, AfterRevokeJob, c)
                        /\ f = job[a][AfterRevokeJob].sampled
<1>1. BooksInv /\ AfterRevokeJob \in Sequences
  BY JobSequences DEF LedgerInv
<1>2. job[a][AfterRevokeJob] \in JobType /\ job[a][AfterRevokeJob].sampled # None
  BY <1>1 DEF BooksInv, JobsInv
<1>3. PICK f \in Nat : f = job[a][AfterRevokeJob].sampled
  BY <1>2 DEF JobType
<1>4. association[a].started < f /\ association[a].started \in Nat
  BY <1>1, <1>2, <1>3 DEF WholeInv, SampledInv, BooksInv, PeopleInv
<1>5. cycle[c].started \in Nat /\ cycle[c].created \in Nat
  BY <1>1 DEF BooksInv, RoundsInv, RoundType
<1>6. \/ cycle[c].created <= f
      \/ cycle[c].started <= association[a].started /\ cycle[c].started <= f
  BY <1>4, <1>5
<1>7. c \in Due(a, AfterRevokeJob)
  BY <1>3, <1>6 DEF Due, Belongs
<1>8. Counted(a, AfterRevokeJob, c)
  BY <1>1, <1>7 DEF LedgerInv, SamplesCounted
<1>9. Final(a, f)
  BY <1>3 DEF Final
<1> QED BY <1>3, <1>8, <1>9

\* A row of it without a mark is charged with everything.
LEMMA SettledRow ==
  ASSUME LedgerInv, MeterInv, WholeInv, NEW a \in AssociationIds, NEW c \in CycleIds,
         c < nextCycle, a < nextAssociation, Overlaps(a, c), Steady(a),
         job[a][AfterRevokeJob].phase = "completed", segment[a][c].quality = "VERIFIED"
  PROVE  segment[a][c].used = UsedIn(a, c) + Imported(segment[a][c])
<1>1. /\ BooksInv /\ RowFits(a, c, segment[a][c]) /\ RowComplete(a, c, segment[a][c])
      /\ RowSound(a, c, segment[a][c])
  BY DEF LedgerInv, WholeInv, FloorInv, RowsFit, RowsComplete, MeterInv, SegmentsSound
<1>2. PICK row : row = segment[a][c]
  OBVIOUS
<1>3. row.used # None /\ row.at # None /\ row \in SegmentType
  BY <1>1, <1>2 DEF RowFits, BooksInv, SegmentsInv
<1>4. row.used \in Nat /\ Imported(row) \in Nat /\ row.at \in Nat
  BY <1>3 DEF SegmentType, Imported
<1>5. \/ cycle[c].created <= association[a].started
      \/ cycle[c].started <= association[a].started
  BY <1>1 DEF RowFits
<1>6. PICK f \in Nat : Final(a, f) /\ row.at >= f
  <2>1. PICK f \in Nat : /\ Final(a, f) /\ Counted(a, AfterRevokeJob, c)
                         /\ f = job[a][AfterRevokeJob].sampled
    BY <1>5, SettledCounts
  <2>2. row.at >= f
    BY <1>2, <2>1 DEF Counted
  <2> QED BY <2>1, <2>2
<1>7. PICK w \in Weeks : w = WeekOf(cycle[c].started)
  <2>1. now \in Nat /\ ClockInv /\ cycle[c].started \in Nat /\ cycle[c].started < now
    BY <1>1, RoundsBegan, Numbers DEF MeterInv
  <2>2. cycle[c].started <= now
    BY <2>1
  <2> QED BY <1>1, <2>1, <2>2, PastWeek
<1>8. spent[a][w] <= row.used - Imported(row)
  BY <1>1, <1>2, <1>6, <1>7 DEF RowComplete
<1>9. row.used - Imported(row) <= spent[a][w]
  BY <1>1, <1>2, <1>3, <1>7 DEF RowSound
<1>10. spent[a][w] \in Nat
  BY SpentTyped
<1>11. row.used = spent[a][w] + Imported(row)
  BY <1>4, <1>8, <1>9, <1>10
<1> QED BY <1>2, <1>7, <1>11 DEF UsedIn, WeekOf

\* So the ledger is the sum of what they used.
LEMMA SettledSums ==
  ASSUME LedgerInv, MeterInv, WholeInv, NEW u \in Users, NEW c \in CycleIds,
         NEW mine, mine = {a \in AssociationIds : association[a].user = u /\ Overlaps(a, c)},
         ledger[u][c].quality = "VERIFIED",
         \A a \in mine : job[a][AfterRevokeJob].phase = "completed" /\ Steady(a),
         NEW use, \A a \in mine : use[a] = UsedIn(a, c) + Imported(segment[a][c])
  PROVE  ledger[u][c].used = SumFunctionOnSet(use, mine)
<1>1. /\ BooksInv /\ LedgerExact(u, c) /\ u # None
  BY NoneAssumption DEF LedgerInv, WholeInv, LedgersExact
<1>2. c < nextCycle
  BY <1>1 DEF LedgerExact
<1>3. ASSUME NEW a \in mine
      PROVE  /\ a \in AssociationIds /\ association[a].user = u /\ Overlaps(a, c)
             /\ a < nextAssociation
  <2>1. a \in AssociationIds /\ association[a].user = u /\ Overlaps(a, c)
    OBVIOUS
  <2>2. association[a] # NoAssociation
    BY <1>1, <2>1 DEF NoAssociation
  <2> QED BY <1>1, <2>1, <2>2 DEF BooksInv, PeopleInv
<1>4. Rows(u, c) = mine
  <2>1. ASSUME NEW a \in Rows(u, c) PROVE a \in mine
    <3>1. a \in AssociationIds /\ association[a].user = u /\ segment[a][c] # NoSegment
      BY DEF Rows
    <3>2. RowFits(a, c, segment[a][c])
      BY <3>1 DEF WholeInv, FloorInv, RowsFit
    <3> QED BY <3>1, <3>2 DEF RowFits
  <2>2. ASSUME NEW a \in mine, a \notin Rows(u, c) PROVE FALSE
    <3>1. cycle[c].created <= association[a].started
      BY <1>1, <1>3, <2>2 DEF LedgerExact
    <3>2. Counted(a, AfterRevokeJob, c)
      BY <1>2, <1>3, <2>2, <3>1, SettledCounts
    <3>3. segment[a][c] # NoSegment
      BY <3>2 DEF Counted, NoSegment
    <3> QED BY <1>3, <2>2, <3>3 DEF Rows
  <2> QED BY <2>1, <2>2
<1>5. \A a \in mine : segment[a][c].used = use[a]
  <2>1. ASSUME NEW a \in mine PROVE segment[a][c].used = use[a]
    <3>1. segment[a][c].quality = "VERIFIED"
      BY <1>1, <1>4 DEF LedgerExact
    <3>2. segment[a][c].used = UsedIn(a, c) + Imported(segment[a][c])
      BY <1>2, <1>3, <3>1, SettledRow
    <3> QED BY <3>2
  <2> QED BY <2>1
<1>6. PICK charges : charges = Charges(u, c) /\ \A a \in mine : charges[a] = use[a]
  <2>1. Charges(u, c) = [a \in mine |-> segment[a][c].used]
    BY <1>4 DEF Charges
  <2> QED BY <1>5, <2>1
<1>7. IsFiniteSet(mine)
  BY AssociationsFinite
<1>8. SumFunctionOnSet(charges, mine) = SumFunctionOnSet(use, mine)
  BY <1>6, <1>7, SumsAgree
<1> QED BY <1>1, <1>4, <1>6, <1>8 DEF LedgerExact

-----------------------------------------------------------------------------
(* The theorems.                                                           *)

\* A job is completed only after its sample was applied to every round that was
\* stored by then and overlaps the association, or that segment was put in doubt:
\* no runner that is overtaken, fails or is cancelled leaves a round out, and none
\* that plans from an association read earlier does.
THEOREM SamplesAreCounted == Spec => []CompletedSampleCounted
<1>1. LedgerInv => CompletedSampleCounted
  <2>1. SUFFICES ASSUME LedgerInv, NEW a \in AssociationIds, NEW s \in Sequences,
                        NEW c \in 1 .. Latest, job[a][s].phase = "completed", Overlaps(a, c),
                        cycle[c].created <= job[a][s].sampled
                 PROVE  \/ segment[a][c].at # None /\ segment[a][c].at >= job[a][s].sampled
                        \/ segment[a][c].quality = "NEEDS_REVIEW"
    BY DEF CompletedSampleCounted
  <2>2. nextCycle \in 1 .. MaxCycles + 1
    BY <2>1 DEF LedgerInv, BooksInv, RoundsInv
  <2>3. c \in CycleIds /\ c < nextCycle
    BY <2>2, BoundsTyped DEF CycleIds, Latest
  <2> QED BY <2>1, <2>3 DEF LedgerInv, SamplesCounted, Due, Belongs, Counted
<1> QED BY <1>1, LedgerInvariant, PTL

\* A job has one snapshot and completes once: a runner whose lease expired neither
\* replaces the sample another one saved nor reopens a completed job.
THEOREM SettledJobsAreFinal == Spec => SettledJobsStay
<1>1. LedgerInv /\ [Next]_vars =>
        [\A a \in AssociationIds, s \in Sequences :
           /\ job[a][s].sampled # None => /\ job'[a][s].sampled = job[a][s].sampled
                                          /\ job'[a][s].total = job[a][s].total
           /\ job[a][s].phase = "completed" => job'[a][s] = job[a][s]]_vars
  BY LedgerNext DEF Grows, JobsGrow
<1> QED BY <1>1, LedgerInvariant, PTL DEF Spec, SettledJobsStay

\* What a segment was charged with never decreases and a doubt is never lifted, in
\* whatever order samples of several runners are applied and whatever totals the
\* platform reports.
THEOREM ChargesAreFinal == Spec => ChargesStay
<1>1. LedgerInv /\ [Next]_vars =>
        [\A a \in AssociationIds, c \in CycleIds :
           /\ segment[a][c].used # None => segment'[a][c].used >= segment[a][c].used
           /\ segment[a][c].quality = "NEEDS_REVIEW" => segment'[a][c].quality = "NEEDS_REVIEW"]_vars
  BY LedgerNext DEF Grows, SegmentsGrow, RowGrows
<1> QED BY <1>1, LedgerInvariant, PTL DEF Spec, ChargesStay

\* Nobody is charged for what a predecessor or a successor used on the device, or for
\* another round: whatever order requests, answers and samples come in, a charge in a
\* round, less what was imported, is at most what the holder used in that week.
THEOREM ChargesAreOwnUse == Spec => []ChargedForOwnUse
<1>1. MeterInv => ChargedForOwnUse
  <2>1. SUFFICES ASSUME MeterInv, NEW a \in AssociationIds, NEW c \in CycleIds,
                        segment[a][c].used # None
                 PROVE  segment[a][c].used - Imported(segment[a][c]) <= UsedIn(a, c)
    BY DEF ChargedForOwnUse, Imported
  <2>2. RowSound(a, c, segment[a][c])
    BY <2>1 DEF MeterInv, SegmentsSound
  <2> QED BY <2>1, <2>2 DEF RowSound, UsedIn, WeekOf
<1> QED BY <1>1, MeterInvariant, PTL

\* Rows, runners and ledgers keep their types: no total or instant is invented, an
\* association without a number is never used, and what a ledger sums up is a number.
THEOREM LedgerTyped == Spec => []TypeOK
<1>1. LedgerInv /\ MeterInv /\ Within /\ [Next]_vars => LedgerInv' /\ MeterInv' /\ Within'
  BY LedgerNext, MeterNext, WithinNext
<1>2. LedgerInv /\ MeterInv /\ Within => TypeOK
  BY WithinTyped
<1> QED BY <1>1, <1>2, InitLedger, InitMeter, InitWithin, PTL DEF Spec

\* A verified ledger whose associations are over, with final samples and without a device
\* that went backwards, is exactly what they used in the round and what was imported for
\* them: the marks of the samples, rows and ledgers leave nothing out.
THEOREM SettledLedgersAreComplete == Spec => []SettledIsComplete
<1>1. /\ LedgerInv /\ MeterInv /\ Within /\ WholeInv /\ [Next]_vars =>
           LedgerInv' /\ MeterInv' /\ Within' /\ WholeInv'
  <2>1. SUFFICES ASSUME LedgerInv, MeterInv, Within, WholeInv, [Next]_vars
                 PROVE  LedgerInv' /\ MeterInv' /\ Within' /\ WholeInv'
    OBVIOUS
  <2>2. LedgerInv' /\ Grows /\ MeterInv' /\ Within'
    BY <2>1, LedgerNext, MeterNext, WithinNext
  <2>3. SampledInv' /\ FloorInv'
    BY <2>1, <2>2, FloorNext DEF WholeInv
  <2>4. LedgersExact'
    BY <2>1, <2>2, ExactNext DEF WholeInv
  <2> QED BY <2>2, <2>3, <2>4 DEF WholeInv
<1>2. LedgerInv /\ MeterInv /\ WholeInv => SettledIsComplete
  <2>1. SUFFICES ASSUME LedgerInv, MeterInv, WholeInv, NEW u \in Users, NEW c \in CycleIds,
                        NEW mine,
                        mine = {a \in AssociationIds : association[a].user = u /\ Overlaps(a, c)},
                        ledger[u][c].quality = "VERIFIED",
                        \A a \in mine : /\ job[a][AfterRevokeJob].phase = "completed"
                                        /\ association[a].device \notin regressed
                 PROVE  ledger[u][c].used =
                          SumFunctionOnSet([a \in mine |-> UsedIn(a, c) +
                              (IF segment[a][c].imported = None THEN 0 ELSE segment[a][c].imported)],
                            mine)
    BY DEF SettledIsComplete
  <2>2. PICK use : use = [a \in mine |-> UsedIn(a, c) +
                    (IF segment[a][c].imported = None THEN 0 ELSE segment[a][c].imported)]
    OBVIOUS
  <2>3. \A a \in mine : use[a] = UsedIn(a, c) + Imported(segment[a][c])
    BY <2>2 DEF Imported
  <2>4. \A a \in mine : job[a][AfterRevokeJob].phase = "completed" /\ Steady(a)
    BY <2>1 DEF Steady
  <2>5. ledger[u][c].used = SumFunctionOnSet(use, mine)
    BY <2>1, <2>3, <2>4, SettledSums
  <2> QED BY <2>2, <2>5
<1> QED BY <1>1, <1>2, InitLedger, InitMeter, InitWithin, InitWhole, PTL DEF Spec

=============================================================================
