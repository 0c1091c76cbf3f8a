--------------------------- MODULE OnboardingProofs ---------------------------
(***************************************************************************)
(* Onboarding keeps its types, releases only members who were bound, never *)
(* asks Telegram for opposite things at a time, and hears whom it released *)
(* the first time, for any number of chats and handlers, any order of      *)
(* updates, and any bounds.                                                *)
(***************************************************************************)
EXTENDS Onboarding, FiniteSetTheorems, TLAPS

Kinds == {"join", "joinAdmin", "left"}

\* The joins among the updates that wait to be handled.
Arrivals(s) == {i \in 1 .. Len(s) : s[i] # "left"}

\* Every generation of a row has been joined for, and so has every join not handled yet.
JoinsCounted == \A c \in Chats : row[c].generation + Cardinality(Arrivals(updates[c])) <= joins

\* A runner that works does so in a chat, a claim is of an action, a notification has a link.
RunnerPlaced(p) ==
  /\ runner[p].step # "idle" => runner[p].chat \in Chats
  /\ runner[p].step \in {"claim", "call", "done", "failed"} => runner[p].kind \in Actions
  /\ Calling(p) /\ runner[p].kind = "VERIFICATION_NOTIFICATION" => runner[p].token \in Tokens

TypeInv == TypeOK /\ JoinsCounted /\ \A p \in Runners : RunnerPlaced(p)

-----------------------------------------------------------------------------
(* Sequences of updates. *)

LEMMA ArrivalsFinite ==
  ASSUME NEW s \in Seq(Kinds)
  PROVE  /\ IsFiniteSet(Arrivals(s))
         /\ Cardinality(Arrivals(s)) \in Nat
<1>1. IsFiniteSet(1 .. Len(s))
  BY FS_Interval
<1>2. Arrivals(s) \in SUBSET (1 .. Len(s))
  BY DEF Arrivals
<1>3. IsFiniteSet(Arrivals(s))
  BY <1>1, <1>2, FS_Subset
<1> QED BY <1>3, FS_CardinalityType

LEMMA ArrivalsAppend ==
  ASSUME NEW s \in Seq(Kinds), NEW k \in Kinds
  PROVE  /\ Append(s, k) \in Seq(Kinds)
         /\ k = "left" => Cardinality(Arrivals(Append(s, k))) = Cardinality(Arrivals(s))
         /\ k # "left" => Cardinality(Arrivals(Append(s, k))) = Cardinality(Arrivals(s)) + 1
<1> DEFINE t == Append(s, k)
<1>1. /\ t \in Seq(Kinds) /\ Len(s) \in Nat /\ Len(t) = Len(s) + 1
      /\ \A i \in 1 .. Len(s) : t[i] = s[i]
      /\ t[Len(s) + 1] = k
  OBVIOUS
<1>2. CASE k = "left"
  <2>1. Arrivals(t) = Arrivals(s)
    BY <1>1, <1>2 DEF Arrivals
  <2> QED BY <1>1, <1>2, <2>1
<1>3. CASE k # "left"
  <2>1. Arrivals(t) = Arrivals(s) \cup {Len(s) + 1}
    BY <1>1, <1>3 DEF Arrivals
  <2>2. Len(s) + 1 \notin Arrivals(s)
    BY <1>1 DEF Arrivals
  <2>3. Cardinality(Arrivals(t)) = Cardinality(Arrivals(s)) + 1
    BY <2>1, <2>2, ArrivalsFinite, FS_AddElement
  <2> QED BY <1>1, <1>3, <2>3
<1> QED BY <1>2, <1>3

LEMMA Concatenated ==
  ASSUME NEW a \in Seq(Kinds), NEW b \in Seq(Kinds)
  PROVE  /\ a \o b \in Seq(Kinds)
         /\ Len(a \o b) = Len(a) + Len(b)
         /\ \A j \in 1 .. Len(a) : (a \o b)[j] = a[j]
         /\ \A j \in 1 .. Len(b) : (a \o b)[Len(a) + j] = b[j]
<1>1. Len(a) \in Nat /\ Len(b) \in Nat
  OBVIOUS
<1>2. a \o b \in Seq(Kinds) /\ Len(a \o b) = Len(a) + Len(b)
  OBVIOUS
<1>3. \A j \in 1 .. Len(a) : (a \o b)[j] = a[j]
  BY <1>1
<1>4. \A j \in 1 .. Len(b) : (a \o b)[Len(a) + j] = b[j]
  BY <1>1
<1> QED BY <1>2, <1>3, <1>4

LEMMA RemoveAtIndexes ==
  ASSUME NEW s \in Seq(Kinds), NEW i \in 1 .. Len(s)
  PROVE  /\ RemoveAt(s, i) \in Seq(Kinds)
         /\ Len(RemoveAt(s, i)) = Len(s) - 1
         /\ \A j \in 1 .. Len(s) - 1 : RemoveAt(s, i)[j] = s[IF j < i THEN j ELSE j + 1]
<1> DEFINE a == SubSeq(s, 1, i - 1)
           b == SubSeq(s, i + 1, Len(s))
<1>1. Len(s) \in Nat
  OBVIOUS
<1>2. /\ a \in Seq(Kinds) /\ Len(a) = i - 1
      /\ \A j \in 1 .. i - 1 : a[j] = s[j]
  BY <1>1
<1>3. /\ b \in Seq(Kinds) /\ Len(b) = Len(s) - i
      /\ \A j \in 1 .. Len(s) - i : b[j] = s[i + j]
  BY <1>1
<1> HIDE DEF a, b
<1>4. /\ a \o b \in Seq(Kinds) /\ Len(a \o b) = Len(s) - 1
      /\ \A j \in 1 .. i - 1 : (a \o b)[j] = a[j]
      /\ \A j \in 1 .. Len(s) - i : (a \o b)[i - 1 + j] = b[j]
  <2>1. /\ a \o b \in Seq(Kinds) /\ Len(a \o b) = Len(a) + Len(b)
        /\ \A j \in 1 .. Len(a) : (a \o b)[j] = a[j]
        /\ \A j \in 1 .. Len(b) : (a \o b)[Len(a) + j] = b[j]
    BY <1>2, <1>3, Concatenated
  <2>2. Len(a \o b) = Len(s) - 1
    BY <1>1, <1>2, <1>3, <2>1
  <2> QED BY <1>2, <1>3, <2>1, <2>2
<1>5. ASSUME NEW j \in 1 .. Len(s) - 1 PROVE (a \o b)[j] = s[IF j < i THEN j ELSE j + 1]
  <2>1. CASE j < i
    BY <1>1, <1>2, <1>4, <2>1
  <2>2. CASE j >= i
    <3>1. PICK k \in 1 .. Len(s) - i : j = i - 1 + k
      <4>1. j - i + 1 \in 1 .. Len(s) - i /\ j = i - 1 + (j - i + 1)
        BY <1>1, <2>2
      <4> QED BY <4>1
    <3>2. (a \o b)[j] = b[k]
      BY <1>4, <3>1
    <3>3. b[k] = s[i + k] /\ i + k = j + 1
      BY <1>1, <1>3, <3>1
    <3> QED BY <1>1, <2>2, <3>2, <3>3
  <2>3. j < i \/ j >= i
    BY <1>1
  <2> QED BY <2>1, <2>2, <2>3
<1>6. RemoveAt(s, i) = a \o b
  BY DEF RemoveAt, a, b
<1> QED BY <1>4, <1>5, <1>6

\* Without one of its updates a chat has one arrival less, if that was one.
LEMMA ArrivalsRemove ==
  ASSUME NEW s \in Seq(Kinds), NEW i \in 1 .. Len(s)
  PROVE  /\ Cardinality(Arrivals(RemoveAt(s, i))) <= Cardinality(Arrivals(s))
         /\ s[i] # "left" =>
              Cardinality(Arrivals(RemoveAt(s, i))) + 1 <= Cardinality(Arrivals(s))
<1> DEFINE t == RemoveAt(s, i)
           place == [j \in Arrivals(t) |-> IF j < i THEN j ELSE j + 1]
           rest == Arrivals(s) \ {i}
<1>1. Len(s) \in Nat /\ t \in Seq(Kinds)
  BY RemoveAtIndexes
<1>2. ASSUME NEW j \in Arrivals(t) PROVE place[j] \in rest
  <2>1. j \in 1 .. Len(s) - 1 /\ t[j] # "left"
    BY RemoveAtIndexes DEF Arrivals
  <2>2. place[j] \in 1 .. Len(s) /\ place[j] # i
    BY <1>1, <2>1
  <2>3. s[place[j]] = t[j]
    BY <2>1, RemoveAtIndexes
  <2> QED BY <2>1, <2>2, <2>3 DEF Arrivals
<1>3. place \in Injection(Arrivals(t), rest)
  <2>1. place \in [Arrivals(t) -> rest]
    BY <1>2
  <2>2. \A j \in Arrivals(t) : j \in Nat
    BY <1>1 DEF Arrivals
  <2>3. ASSUME NEW j \in Arrivals(t), NEW k \in Arrivals(t), place[j] = place[k] PROVE j = k
    BY <2>2, <2>3
  <2> QED BY <2>1, <2>3 DEF Injection, IsInjective
<1>4. /\ IsFiniteSet(Arrivals(s)) /\ Cardinality(Arrivals(s)) \in Nat
      /\ Cardinality(Arrivals(t)) \in Nat
  BY <1>1, ArrivalsFinite
<1>5. IsFiniteSet(rest) /\ Cardinality(Arrivals(t)) <= Cardinality(rest)
  BY <1>3, <1>4, FS_RemoveElement, FS_Injection
<1>6. Cardinality(rest) = IF i \in Arrivals(s) THEN Cardinality(Arrivals(s)) - 1
                          ELSE Cardinality(Arrivals(s))
  BY <1>4, FS_RemoveElement
<1>7. s[i] # "left" => i \in Arrivals(s)
  BY DEF Arrivals
<1> HIDE DEF t, rest
<1>8. /\ Cardinality(Arrivals(t)) <= Cardinality(Arrivals(s))
      /\ s[i] # "left" => Cardinality(Arrivals(t)) + 1 <= Cardinality(Arrivals(s))
  BY <1>4, <1>5, <1>6, <1>7
<1> QED BY <1>8 DEF t

-----------------------------------------------------------------------------
(* Rows and runners. *)

States == Waiting \cup Gone \cup {"NONE", "ACTIVE", "EXEMPT"}

LEMMA NoneIsNoAction == None \notin Runners /\ None \notin Nat /\ Worker \in Runners
BY RunnersAssumption DEF Runners

LEMMA BoundsAreNumbers ==
  MaxJoins \in Nat /\ MaxTokens \in Nat /\ MaxChanges \in Nat /\ MaxFaults \in Nat
BY BoundAssumption

\* What _queue_unmute_locked makes of a row.
LEMMA QueuedRow ==
  ASSUME NEW r \in Row
  PROVE  /\ Queued(r) \in Row
         /\ Queued(r).generation = r.generation
         /\ Queued(r).state = (IF r.state \in {"RESTRICT_PENDING", "MUTED"} THEN "UNMUTE_PENDING"
                               ELSE r.state)
<1>1. CASE r.state \in {"RESTRICT_PENDING", "MUTED"}
  <2>1. /\ r.generation \in Generations /\ r.deadline \in {"none", "running", "reached"}
        /\ r.retry \in {"none", "running", "reached"} /\ r.unmuted \in BOOLEAN
    BY DEF Row
  <2> QED BY <1>1, <2>1, ZenonT(60) DEF Queued, Cleared, Row, Waiting
<1>2. CASE r.state \notin {"RESTRICT_PENDING", "MUTED"}
  BY <1>2 DEF Queued
<1> QED BY <1>1, <1>2

LEMMA LeftRow ==
  ASSUME NEW r \in Row
  PROVE  /\ Left(r) \in Row
         /\ Left(r).generation = r.generation
         /\ Left(r).state \in Gone
<1>1. CASE r.state \in Gone
  BY <1>1 DEF Left
<1>2. CASE r.state \notin Gone
  <2>1. r.generation \in Generations
    BY DEF Row
  <2> QED BY <1>2, <2>1 DEF Left, NoRow, Row, Gone
<1> QED BY <1>1, <1>2

LEMMA JoinedRow ==
  ASSUME NEW r \in Row, NEW admin \in BOOLEAN, r.generation + 1 \in Generations
  PROVE  /\ Joined(r, admin) \in Row
         /\ Joined(r, admin) = r \/ Joined(r, admin).generation = r.generation + 1
         /\ Joined(r, admin) # r => r.state \in Gone \cup {"NONE"}
         /\ Joined(r, admin).state = "ACTIVE" /\ Joined(r, admin) # r => bound
         /\ Joined(r, admin).state = "UNMUTE_PENDING" => Joined(r, admin) = r
<1>1. CASE r.state \notin Gone \cup {"NONE"}
  BY <1>1 DEF Joined
<1>2. CASE r.state \in Gone \cup {"NONE"}
  BY <1>2, ZenonT(60) DEF Joined, NoRow, Row, Waiting, Gone
<1> QED BY <1>1, <1>2

LEMMA ClearedRow ==
  ASSUME NEW r \in Row
  PROVE  /\ Cleared(r) \in Row
         /\ Cleared(r).generation = r.generation
BY DEF Cleared, Row

LEMMA ClaimedRow ==
  ASSUME NEW r \in Row, NEW p \in Runners, NEW k \in Actions
  PROVE  /\ Claimed(r, p, k) \in Row
         /\ Claimed(r, p, k).generation = r.generation
         /\ Claimed(r, p, k).state = r.state
BY DEF Claimed, Row

LEMMA DueKinds ==
  ASSUME NEW r
  PROVE  Due(r) \subseteq Actions /\ NotifyDue(r) \subseteq Actions
BY DEF Due, NotifyDue, Actions

\* Started(p, ...) concerns p alone, which then claims one of the kinds or rests.
LEMMA StartedRunner ==
  ASSUME NEW p \in Runners, NEW c \in Chats, NEW r \in Row, NEW kinds \in SUBSET Actions,
         runner \in [Runners -> RunnerState]
  PROVE  /\ Started(p, c, r, kinds) \in [Runners -> RunnerState]
         /\ \A q \in Runners : q # p => Started(p, c, r, kinds)[q] = runner[q]
         /\ \/ Started(p, c, r, kinds)[p] = Idle
            \/ /\ Started(p, c, r, kinds)[p].chat = c
               /\ Started(p, c, r, kinds)[p].generation = r.generation
               /\ Started(p, c, r, kinds)[p].step = "claim"
               /\ Started(p, c, r, kinds)[p].kind \in Actions
<1> DEFINE k == CHOOSE k \in kinds : TRUE
           working == [Idle EXCEPT !.chat = c, !.generation = r.generation, !.kind = k,
                                   !.again = (r.action = "VERIFICATION_NOTIFICATION"),
                                   !.step = "claim"]
<1>1. CASE r.state \in Waiting /\ kinds # {}
  <2>1. k \in Actions
    BY <1>1
  <2>2. r.generation \in Generations
    BY DEF Row
  <2>3. working \in RunnerState
    BY <2>1, <2>2 DEF RunnerState, Idle
  <2>4. /\ working.chat = c /\ working.generation = r.generation
        /\ working.step = "claim" /\ working.kind = k
    BY DEF Idle
  <2>5. Started(p, c, r, kinds) = [runner EXCEPT ![p] = working]
    BY <1>1 DEF Started
  <2> HIDE DEF k, working
  <2> QED BY <2>1, <2>3, <2>4, <2>5
<1>2. CASE ~(r.state \in Waiting /\ kinds # {})
  <2>1. Idle \in RunnerState
    BY BoundsAreNumbers DEF Idle, RunnerState, Generations
  <2>2. Started(p, c, r, kinds) = [runner EXCEPT ![p] = Idle]
    BY <1>2 DEF Started
  <2> QED BY <2>1, <2>2
<1> QED BY <1>1, <1>2

-----------------------------------------------------------------------------
(* Types of the steps. *)

LEMMA StoredRow ==
  ASSUME row \in [Chats -> Row], boundIn \in [Chats -> SUBSET Generations],
         NEW c \in Chats, NEW r \in Row, Store(c, r)
  PROVE  /\ row' \in [Chats -> Row]
         /\ boundIn' \in [Chats -> SUBSET Generations]
         /\ row'[c] = r
         /\ \A d \in Chats : d # c => row'[d] = row[d]
         /\ \A d \in Chats : boundIn[d] \subseteq boundIn'[d]
         /\ bound => r.generation \in boundIn'[c]
<1>1. r.generation \in Generations
  BY DEF Row
<1>2. /\ row' \in [Chats -> Row] /\ row'[c] = r
      /\ \A d \in Chats : d # c => row'[d] = row[d]
  BY DEF Store
<1>3. CASE bound
  BY <1>1, <1>2, <1>3 DEF Store
<1>4. CASE ~bound
  BY <1>2, <1>4 DEF Store
<1> QED BY <1>3, <1>4

\* Runners other than p, and p if it rests, are where they were or nowhere.
LEMMA RestingRunner ==
  ASSUME runner \in [Runners -> RunnerState], NEW p \in Runners, Rests(p)
  PROVE  /\ runner' \in [Runners -> RunnerState]
         /\ runner'[p] = Idle
         /\ \A q \in Runners : q # p => runner'[q] = runner[q]
<1>1. Idle \in RunnerState
  BY BoundsAreNumbers DEF Idle, RunnerState, Generations
<1> QED BY <1>1 DEF Rests

\* p goes to another step of the same action.
LEMMA SteppingRunner ==
  ASSUME runner \in [Runners -> RunnerState], NEW p \in Runners,
         NEW step \in {"idle", "claim", "call", "done", "failed", "absent"},
         runner' = [runner EXCEPT ![p].step = step]
  PROVE  /\ runner' \in [Runners -> RunnerState]
         /\ runner'[p] = [runner[p] EXCEPT !.step = step]
         /\ \A q \in Runners : q # p => runner'[q] = runner[q]
<1>1. runner[p] \in RunnerState
  OBVIOUS
<1>2. [runner[p] EXCEPT !.step = step] \in RunnerState
  BY <1>1 DEF RunnerState
<1>3. runner' = [runner EXCEPT ![p] = [runner[p] EXCEPT !.step = step]]
  OBVIOUS
<1> QED BY <1>2, <1>3

LEMMA IdlePlaced ==
  ASSUME NEW p \in Runners, runner'[p] = Idle
  PROVE  RunnerPlaced(p)'
BY DEF RunnerPlaced, Idle, Calling

LEMMA SamePlaced ==
  ASSUME NEW p \in Runners, RunnerPlaced(p), runner'[p] = runner[p]
  PROVE  RunnerPlaced(p)'
BY DEF RunnerPlaced, Calling

LEMMA ClaimPlaced ==
  ASSUME NEW p \in Runners, NEW c \in Chats, runner'[p].chat = c, runner'[p].step = "claim",
         runner'[p].kind \in Actions
  PROVE  RunnerPlaced(p)'
BY DEF RunnerPlaced, Calling

LEMMA StepPlaced ==
  ASSUME NEW p \in Runners, RunnerPlaced(p), runner \in [Runners -> RunnerState],
         NEW step \in {"call", "done", "failed", "absent"},
         runner[p].step \in {"claim", "call"},
         step = "call" => runner[p].kind # "VERIFICATION_NOTIFICATION",
         runner'[p] = [runner[p] EXCEPT !.step = step]
  PROVE  RunnerPlaced(p)'
<1>1. runner[p] \in RunnerState
  OBVIOUS
<1>2. /\ runner'[p].step = step /\ runner'[p].chat = runner[p].chat
      /\ runner'[p].kind = runner[p].kind /\ runner'[p].token = runner[p].token
  BY <1>1 DEF RunnerState
<1> QED BY <1>2 DEF RunnerPlaced, Calling

\* A row keeps its generation and no join is handled: all joins remain counted.
LEMMA JoinsKept ==
  ASSUME TypeOK, JoinsCounted, updates' = updates, joins' = joins,
         \A c \in Chats : row'[c].generation = row[c].generation
  PROVE  JoinsCounted'
BY DEF JoinsCounted, Arrivals

\* A runner stores a row of the same generation and goes on.
LEMMA RunnerStepType ==
  ASSUME TypeInv, NEW p \in Runners, NEW c \in Chats, NEW r \in Row,
         r.generation = row[c].generation, Store(c, r),
         runner' \in [Runners -> RunnerState], RunnerPlaced(p)',
         \A q \in Runners : q # p => runner'[q] = runner[q],
         tokens' \in [Chats -> 0 .. MaxTokens],
         UNCHANGED <<bound, links, telegram, bounds>>
  PROVE  TypeInv'
<1>1. TypeOK /\ JoinsCounted /\ \A q \in Runners : RunnerPlaced(q)
  BY DEF TypeInv
<1>2. row \in [Chats -> Row] /\ boundIn \in [Chats -> SUBSET Generations]
  BY <1>1 DEF TypeOK
<1>3. /\ row' \in [Chats -> Row] /\ boundIn' \in [Chats -> SUBSET Generations]
      /\ row'[c] = r /\ \A d \in Chats : d # c => row'[d] = row[d]
  BY <1>2, StoredRow
<1>4. TypeOK'
  BY <1>1, <1>3 DEF TypeOK, telegram, bounds
<1>5. \A d \in Chats : row'[d].generation = row[d].generation
  BY <1>3
<1>6. JoinsCounted'
  BY <1>1, <1>5, JoinsKept DEF telegram, bounds
<1>7. \A q \in Runners : RunnerPlaced(q)'
  BY <1>1, SamePlaced
<1> QED BY <1>4, <1>6, <1>7 DEF TypeInv

LEMMA RefusedType ==
  ASSUME TypeInv, NEW p \in Runners, runner[p].step # "idle", NEW r \in Row,
         r.generation = RowOf(p).generation, Refused(p, r),
         UNCHANGED <<bound, tokens, links, telegram, bounds>>
  PROVE  TypeInv'
<1> DEFINE c == runner[p].chat
<1>1. /\ runner \in [Runners -> RunnerState] /\ c \in Chats
      /\ tokens' \in [Chats -> 0 .. MaxTokens]
  BY DEF TypeInv, TypeOK, RunnerPlaced
<1>2. Store(c, r) /\ Rests(p) /\ r.generation = row[c].generation
  BY DEF Refused, RowOf
<1>3. /\ runner' \in [Runners -> RunnerState] /\ runner'[p] = Idle
      /\ \A q \in Runners : q # p => runner'[q] = runner[q]
  BY <1>1, <1>2, RestingRunner
<1>4. RunnerPlaced(p)'
  BY <1>3, IdlePlaced
<1> HIDE DEF c
<1> QED BY <1>1, <1>2, <1>3, <1>4, RunnerStepType

LEMMA CallsType ==
  ASSUME TypeInv, NEW p \in Runners, runner[p].step = "claim",
         runner[p].kind # "VERIFICATION_NOTIFICATION", NEW r \in Row,
         r.generation = RowOf(p).generation, Store(runner[p].chat, r), Calls(p),
         UNCHANGED <<bound, tokens, links, telegram, bounds>>
  PROVE  TypeInv'
<1> DEFINE c == runner[p].chat
<1>1. /\ runner \in [Runners -> RunnerState] /\ c \in Chats /\ RunnerPlaced(p)
      /\ tokens' \in [Chats -> 0 .. MaxTokens]
  BY DEF TypeInv, TypeOK, RunnerPlaced
<1>2. Store(c, r) /\ r.generation = row[c].generation
  BY DEF RowOf
<1>3. /\ runner' \in [Runners -> RunnerState]
      /\ runner'[p] = [runner[p] EXCEPT !.step = "call"]
      /\ \A q \in Runners : q # p => runner'[q] = runner[q]
  BY <1>1, SteppingRunner DEF Calls
<1>4. RunnerPlaced(p)'
  BY <1>1, <1>3, StepPlaced
<1> HIDE DEF c
<1> QED BY <1>1, <1>2, <1>3, <1>4, RunnerStepType

\* The row of a runner that works.
LEMMA WorkingRow ==
  ASSUME TypeInv, NEW p \in Runners, runner[p].step # "idle"
  PROVE  /\ runner[p].chat \in Chats
         /\ RowOf(p) \in Row
         /\ runner[p] \in RunnerState
BY DEF TypeInv, TypeOK, RunnerPlaced, RowOf

LEMMA ClaimRestrictionType ==
  ASSUME TypeInv, NEW p \in Runners, claim_restriction(p)
  PROVE  TypeInv'
<1>1. runner[p].step = "claim" /\ runner[p].kind = "RESTRICT"
  BY DEF claim_restriction, Claiming
<1>2. RowOf(p) \in Row
  BY <1>1, WorkingRow
<1>3. /\ Queued(RowOf(p)) \in Row
      /\ Queued(RowOf(p)).generation = RowOf(p).generation
  BY <1>2, QueuedRow
<1>4. /\ Claimed(RowOf(p), p, "RESTRICT") \in Row
      /\ Claimed(RowOf(p), p, "RESTRICT").generation = RowOf(p).generation
  BY <1>2, ClaimedRow DEF Actions
<1>5. UNCHANGED <<bound, tokens, links, telegram, bounds>>
  BY DEF claim_restriction
<1>6. \/ Refused(p, RowOf(p)) \/ Refused(p, Queued(RowOf(p)))
      \/ Store(runner[p].chat, Claimed(RowOf(p), p, "RESTRICT")) /\ Calls(p)
  BY DEF claim_restriction
<1> QED BY <1>1, <1>2, <1>3, <1>4, <1>5, <1>6, RefusedType, CallsType

LEMMA ClaimUnmuteType ==
  ASSUME TypeInv, NEW p \in Runners, claim_unmute(p)
  PROVE  TypeInv'
<1> DEFINE r == IF RowOf(p).state \in {"RESTRICT_PENDING", "MUTED"} THEN Queued(RowOf(p))
                ELSE RowOf(p)
<1>1. runner[p].step = "claim" /\ runner[p].kind = "UNMUTE"
  BY DEF claim_unmute, Claiming
<1>2. RowOf(p) \in Row
  BY <1>1, WorkingRow
<1>3. r \in Row /\ r.generation = RowOf(p).generation
  BY <1>2, QueuedRow
<1>4. UNCHANGED <<bound, tokens, links, telegram, bounds>>
  BY DEF claim_unmute
<1>5. \/ Refused(p, RowOf(p)) \/ Refused(p, r)
      \/ Store(runner[p].chat, Claimed(r, p, "UNMUTE")) /\ Calls(p)
  BY DEF claim_unmute
<1> HIDE DEF r
<1>6. /\ Claimed(r, p, "UNMUTE") \in Row
      /\ Claimed(r, p, "UNMUTE").generation = RowOf(p).generation
  BY <1>3, ClaimedRow DEF Actions
<1> QED BY <1>1, <1>2, <1>3, <1>4, <1>5, <1>6, RefusedType, CallsType

\* A removal that is claimed.
RemovalOf(r, p) ==
  [Claimed(r, p, "REMOVE") EXCEPT !.state = "REMOVE_PENDING", !.token = None, !.verified = FALSE]

LEMMA RemovalRow ==
  ASSUME NEW r \in Row, NEW p \in Runners
  PROVE  /\ RemovalOf(r, p) \in Row
         /\ RemovalOf(r, p).generation = r.generation
         /\ RemovalOf(r, p).state = "REMOVE_PENDING"
         /\ RemovalOf(r, p).action = "REMOVE" /\ RemovalOf(r, p).attempt = p
         /\ RemovalOf(r, p).retry = "running"
<1>1. Claimed(r, p, "REMOVE") \in Row /\ Claimed(r, p, "REMOVE").generation = r.generation
  BY ClaimedRow DEF Actions
<1>2. /\ Claimed(r, p, "REMOVE").action = "REMOVE" /\ Claimed(r, p, "REMOVE").attempt = p
      /\ Claimed(r, p, "REMOVE").retry = "running"
  BY DEF Claimed, Row
<1> QED BY <1>1, <1>2, ZenonT(60) DEF RemovalOf, Row, Waiting

LEMMA ClaimRemovalType ==
  ASSUME TypeInv, NEW p \in Runners, claim_removal(p)
  PROVE  TypeInv'
<1>1. runner[p].step = "claim" /\ runner[p].kind = "REMOVE"
  BY DEF claim_removal, Claiming
<1>2. RowOf(p) \in Row
  BY <1>1, WorkingRow
<1>3. /\ Queued(RowOf(p)) \in Row
      /\ Queued(RowOf(p)).generation = RowOf(p).generation
  BY <1>2, QueuedRow
<1>4. /\ RemovalOf(RowOf(p), p) \in Row
      /\ RemovalOf(RowOf(p), p).generation = RowOf(p).generation
  BY <1>2, RemovalRow
<1>5. UNCHANGED <<bound, tokens, links, telegram, bounds>>
  BY DEF claim_removal
<1>6. \/ Refused(p, RowOf(p)) \/ Refused(p, Queued(RowOf(p)))
      \/ Store(runner[p].chat, RemovalOf(RowOf(p), p)) /\ Calls(p)
  BY DEF claim_removal, RemovalOf
<1> QED BY <1>1, <1>2, <1>3, <1>4, <1>5, <1>6, RefusedType, CallsType

LEMMA IssueType ==
  ASSUME TypeInv, NEW p \in Runners, issue_verification_token(p)
  PROVE  TypeInv'
<1> DEFINE c == runner[p].chat
           t == tokens[c] + 1
           r == [RowOf(p) EXCEPT !.action = "VERIFICATION_NOTIFICATION", !.retry = "running",
                                 !.token = t, !.verified = FALSE]
           working == [runner[p] EXCEPT !.step = "call", !.token = t]
<1>1. /\ runner[p].step = "claim" /\ runner[p].kind = "VERIFICATION_NOTIFICATION"
  BY DEF issue_verification_token, Claiming
<1>2. c \in Chats /\ RowOf(p) \in Row /\ runner[p] \in RunnerState
  BY <1>1, WorkingRow
<1>3. CASE Refused(p, RowOf(p)) /\ UNCHANGED tokens
  <2>1. UNCHANGED <<bound, tokens, links, telegram, bounds>>
    BY <1>3 DEF issue_verification_token
  <2> QED BY <1>1, <1>2, <1>3, <2>1, RefusedType
<1>4. CASE /\ tokens[c] < MaxTokens
           /\ tokens' = [tokens EXCEPT ![c] = t]
           /\ Store(c, r)
           /\ runner' = [runner EXCEPT ![p].step = "call", ![p].token = t]
  <2>1. tokens \in [Chats -> 0 .. MaxTokens] /\ runner \in [Runners -> RunnerState]
    BY DEF TypeInv, TypeOK
  <2>2. t \in Tokens /\ t \in 0 .. MaxTokens
    BY <1>2, <1>4, <2>1, BoundsAreNumbers DEF Tokens
  <2>3. r \in Row /\ r.generation = RowOf(p).generation
    <3> HIDE DEF t
    <3> QED BY <1>2, <2>2 DEF Row, Actions
  <2>4. /\ working \in RunnerState /\ working.chat = c /\ working.step = "call"
        /\ working.token = t /\ working.kind = "VERIFICATION_NOTIFICATION"
    <3> HIDE DEF t
    <3> QED BY <1>1, <1>2, <2>2 DEF RunnerState
  <2>5. runner' = [runner EXCEPT ![p] = working]
    BY <1>4
  <2>6. tokens' \in [Chats -> 0 .. MaxTokens]
    <3> HIDE DEF t
    <3> QED BY <1>2, <1>4, <2>1, <2>2
  <2> HIDE DEF t, r, working
  <2>7. /\ runner' \in [Runners -> RunnerState] /\ runner'[p] = working
        /\ \A q \in Runners : q # p => runner'[q] = runner[q]
    BY <2>1, <2>4, <2>5
  <2>8. RunnerPlaced(p)'
    BY <1>2, <2>2, <2>4, <2>7 DEF RunnerPlaced, Calling, Actions
  <2>9. UNCHANGED <<bound, links, telegram, bounds>>
    BY DEF issue_verification_token
  <2>10. r.generation = row[c].generation
    BY <2>3 DEF RowOf
  <2> HIDE DEF c
  <2> QED BY <1>2, <1>4, <2>3, <2>6, <2>7, <2>8, <2>9, <2>10, RunnerStepType
<1> QED BY <1>1, <1>3, <1>4 DEF issue_verification_token

LEMMA ConfirmRestrictionType ==
  ASSUME TypeInv, NEW p \in Runners, confirm_restriction(p)
  PROVE  TypeInv'
<1> DEFINE c == runner[p].chat
           muted == [Cleared(RowOf(p)) EXCEPT !.state = "MUTED"]
           queued == [Queued(RowOf(p)) EXCEPT !.retry = "none"]
<1>1. runner[p].step = "done"
  BY DEF confirm_restriction, Settling
<1>2. /\ c \in Chats /\ RowOf(p) \in Row /\ RowOf(p) = row[c]
      /\ runner \in [Runners -> RunnerState]
      /\ row \in [Chats -> Row] /\ boundIn \in [Chats -> SUBSET Generations]
      /\ tokens \in [Chats -> 0 .. MaxTokens]
  BY <1>1, WorkingRow DEF RowOf, TypeInv, TypeOK
<1>3. /\ queued \in Row /\ queued.generation = RowOf(p).generation
  <2>1. Queued(RowOf(p)) \in Row /\ Queued(RowOf(p)).generation = RowOf(p).generation
    BY <1>2, QueuedRow
  <2> QED BY <2>1 DEF Row
<1>4. muted \in Row /\ muted.generation = RowOf(p).generation
  <2>1. Cleared(RowOf(p)) \in Row /\ Cleared(RowOf(p)).generation = RowOf(p).generation
    BY <1>2, ClearedRow
  <2> QED BY <2>1 DEF Row, Waiting
<1>5. UNCHANGED <<bound, tokens, links, telegram, bounds>>
  BY DEF confirm_restriction
<1>6. \/ Refused(p, queued) \/ Refused(p, RowOf(p))
      \/ Store(c, muted) /\ runner' = Started(p, c, muted, NotifyDue(muted))
      \/ runner' = Started(p, c, RowOf(p), NotifyDue(RowOf(p))) /\ UNCHANGED <<row, boundIn>>
  BY DEF confirm_restriction, Refused
<1> HIDE DEF muted, queued
<1>7. CASE Refused(p, queued)
  BY <1>1, <1>3, <1>5, <1>7, RefusedType
<1>8. CASE Refused(p, RowOf(p))
  BY <1>1, <1>2, <1>5, <1>8, RefusedType
<1>9. CASE Store(c, muted) /\ runner' = Started(p, c, muted, NotifyDue(muted))
  <2>1. NotifyDue(muted) \in SUBSET Actions
    BY DueKinds
  <2>2. /\ runner' \in [Runners -> RunnerState]
        /\ \A q \in Runners : q # p => runner'[q] = runner[q]
        /\ \/ runner'[p] = Idle
           \/ runner'[p].chat = c /\ runner'[p].step = "claim" /\ runner'[p].kind \in Actions
    BY <1>2, <1>4, <1>9, <2>1, StartedRunner
  <2>3. RunnerPlaced(p)'
    BY <1>2, <2>2, IdlePlaced, ClaimPlaced
  <2>4. muted.generation = row[c].generation /\ tokens' \in [Chats -> 0 .. MaxTokens]
    BY <1>2, <1>4, <1>5
  <2> HIDE DEF c
  <2> QED BY <1>2, <1>4, <1>5, <1>9, <2>2, <2>3, <2>4, RunnerStepType
<1>10. CASE /\ runner' = Started(p, c, RowOf(p), NotifyDue(RowOf(p)))
            /\ UNCHANGED <<row, boundIn>>
  <2>1. NotifyDue(RowOf(p)) \in SUBSET Actions
    BY DueKinds
  <2>2. /\ runner' \in [Runners -> RunnerState]
        /\ \A q \in Runners : q # p => runner'[q] = runner[q]
        /\ \/ runner'[p] = Idle
           \/ runner'[p].chat = c /\ runner'[p].step = "claim" /\ runner'[p].kind \in Actions
    BY <1>2, <1>10, <2>1, StartedRunner
  <2>3. RunnerPlaced(p)'
    BY <1>2, <2>2, IdlePlaced, ClaimPlaced
  <2>4. TypeOK'
    BY <1>5, <1>10, <2>2 DEF TypeInv, TypeOK, telegram, bounds
  <2>5. JoinsCounted'
    BY <1>5, <1>10 DEF TypeInv, JoinsCounted, Arrivals, telegram, bounds
  <2>6. \A q \in Runners : RunnerPlaced(q)'
    BY <2>2, <2>3, SamePlaced DEF TypeInv
  <2> QED BY <2>4, <2>5, <2>6 DEF TypeInv
<1> QED BY <1>6, <1>7, <1>8, <1>9, <1>10

\* The row of a released and of a removed member.
ReleasedOf(r) == [Cleared(r) EXCEPT !.state = "ACTIVE", !.deadline = "none",
                                    !.token = None, !.verified = FALSE, !.unmuted = TRUE]
RemovedOf(r) == [Cleared(r) EXCEPT !.state = "REMOVED", !.deadline = "none",
                                   !.token = None, !.verified = FALSE]

LEMMA SettledRow ==
  ASSUME NEW r \in Row
  PROVE  /\ ReleasedOf(r) \in Row /\ RemovedOf(r) \in Row
         /\ ReleasedOf(r).generation = r.generation
         /\ RemovedOf(r).generation = r.generation
         /\ RemovedOf(r).state = "REMOVED"
<1>1. Cleared(r) \in Row /\ Cleared(r).generation = r.generation
  BY ClearedRow
<1>2. ReleasedOf(r) \in Row /\ ReleasedOf(r).generation = r.generation
  BY <1>1, ZenonT(60) DEF ReleasedOf, Row
<1>3. /\ RemovedOf(r) \in Row /\ RemovedOf(r).generation = r.generation
      /\ RemovedOf(r).state = "REMOVED"
  BY <1>1, ZenonT(60) DEF RemovedOf, Row, Gone
<1> QED BY <1>2, <1>3

LEMMA ResultsType ==
  ASSUME TypeInv, NEW p \in Runners,
         \/ confirm_unmute(p) \/ confirm_removal(p) \/ fail_action(p)
         \/ mark_notification_success(p) \/ mark_notification_failure(p) \/ mark_left(p)
  PROVE  TypeInv'
<1> DEFINE r == RowOf(p)
<1>1. /\ runner[p].step \in {"done", "failed", "absent"}
      /\ UNCHANGED <<bound, tokens, links, telegram, bounds>>
  BY DEF confirm_unmute, confirm_removal, fail_action, mark_notification_success,
     mark_notification_failure, mark_left, Settling
<1>2. r \in Row
  BY <1>1, WorkingRow
<1>3. \/ Refused(p, r) \/ Refused(p, ReleasedOf(r)) \/ Refused(p, RemovedOf(r))
      \/ Refused(p, [r EXCEPT !.attempt = None, !.retry = "running"])
      \/ Refused(p, [r EXCEPT !.action = None, !.retry = "none"])
      \/ Refused(p, [r EXCEPT !.token = None, !.verified = FALSE, !.retry = "running"])
      \/ Refused(p, Left(r))
  BY DEF confirm_unmute, confirm_removal, fail_action, mark_notification_success,
     mark_notification_failure, mark_left, ReleasedOf, RemovedOf
<1>4. /\ Left(r) \in Row /\ Left(r).generation = r.generation
  BY <1>2, LeftRow
<1>5. /\ [r EXCEPT !.attempt = None, !.retry = "running"] \in Row
      /\ [r EXCEPT !.attempt = None, !.retry = "running"].generation = r.generation
      /\ [r EXCEPT !.action = None, !.retry = "none"] \in Row
      /\ [r EXCEPT !.action = None, !.retry = "none"].generation = r.generation
      /\ [r EXCEPT !.token = None, !.verified = FALSE, !.retry = "running"] \in Row
      /\ [r EXCEPT !.token = None, !.verified = FALSE, !.retry = "running"].generation
           = r.generation
  BY <1>2 DEF Row
<1>6. PICK s \in Row : s.generation = r.generation /\ Refused(p, s)
  BY <1>2, <1>3, <1>4, <1>5, SettledRow
<1> QED BY <1>1, <1>6, RefusedType

\* A request that lands moves a person out at most, which is no arrival.
LEMMA LandsType ==
  ASSUME TypeOK, NEW c \in Chats, NEW kind, Lands(c, kind) \/ UNCHANGED <<member, updates>>
  PROVE  /\ member' \in [Chats -> [present : BOOLEAN, muted : BOOLEAN]]
         /\ updates' \in [Chats -> Seq(Kinds)]
         /\ \A d \in Chats :
              Cardinality(Arrivals(updates'[d])) = Cardinality(Arrivals(updates[d]))
<1>1. /\ member \in [Chats -> [present : BOOLEAN, muted : BOOLEAN]]
      /\ updates \in [Chats -> Seq(Kinds)]
  BY DEF TypeOK, Kinds
<1>2. member[c] \in [present : BOOLEAN, muted : BOOLEAN]
  BY <1>1
<1>3. CASE UNCHANGED <<member, updates>>
  BY <1>1, <1>3
<1>4. CASE kind = "RESTRICT" /\ Lands(c, kind)
  <2>1. member' = [member EXCEPT ![c].muted = @ \/ member[c].present] /\ updates' = updates
    BY <1>4 DEF Lands
  <2>2. [member[c] EXCEPT !.muted = @ \/ member[c].present] \in [present : BOOLEAN, muted : BOOLEAN]
    BY <1>2
  <2>3. member' = [member EXCEPT ![c] = [member[c] EXCEPT !.muted = @ \/ member[c].present]]
    BY <2>1
  <2> QED BY <1>1, <2>1, <2>2, <2>3
<1>5. CASE kind = "UNMUTE" /\ Lands(c, kind)
  <2>1. member' = [member EXCEPT ![c].muted = @ /\ ~member[c].present] /\ updates' = updates
    BY <1>5 DEF Lands
  <2>2. [member[c] EXCEPT !.muted = @ /\ ~member[c].present] \in [present : BOOLEAN, muted : BOOLEAN]
    BY <1>2
  <2>3. member' = [member EXCEPT ![c] = [member[c] EXCEPT !.muted = @ /\ ~member[c].present]]
    BY <2>1
  <2> QED BY <1>1, <2>1, <2>2, <2>3
<1>6. CASE kind = "REMOVE" /\ Lands(c, kind)
  <2>1. /\ member' = [member EXCEPT ![c] = [present |-> FALSE, muted |-> FALSE]]
        /\ \/ updates' = updates
           \/ updates' = [updates EXCEPT ![c] = Append(updates[c], "left")]
    BY <1>6 DEF Lands
  <2>2. updates[c] \in Seq(Kinds) /\ "left" \in Kinds
    BY <1>1 DEF Kinds
  <2>3. /\ Append(updates[c], "left") \in Seq(Kinds)
        /\ Cardinality(Arrivals(Append(updates[c], "left"))) = Cardinality(Arrivals(updates[c]))
    BY <2>2, ArrivalsAppend
  <2>4. CASE updates' = updates
    BY <1>1, <2>1, <2>4
  <2>5. CASE updates' = [updates EXCEPT ![c] = Append(updates[c], "left")]
    <3>1. updates' \in [Chats -> Seq(Kinds)]
      BY <1>1, <2>3, <2>5
    <3>2. ASSUME NEW d \in Chats
          PROVE  Cardinality(Arrivals(updates'[d])) = Cardinality(Arrivals(updates[d]))
      <4>1. CASE d = c
        <5>1. updates'[c] = Append(updates[c], "left")
          BY <1>1, <2>5
        <5> QED BY <2>3, <4>1, <5>1
      <4>2. CASE d # c
        <5>1. updates'[d] = updates[d]
          BY <1>1, <2>5, <4>2
        <5> QED BY <5>1
      <4> QED BY <4>1, <4>2
    <3>3. member' \in [Chats -> [present : BOOLEAN, muted : BOOLEAN]]
      BY <1>1, <2>1
    <3> QED BY <3>1, <3>2, <3>3
  <2> QED BY <2>1, <2>4, <2>5
<1>7. CASE kind \notin {"RESTRICT", "UNMUTE", "REMOVE"} /\ Lands(c, kind)
  BY <1>1, <1>7 DEF Lands
<1> QED BY <1>3, <1>4, <1>5, <1>6, <1>7

\* Steps that leave the rows and the number of joins alone.
LEMMA SameRowsJoins ==
  ASSUME JoinsCounted, row' = row, joins' = joins,
         \A d \in Chats : Cardinality(Arrivals(updates'[d])) = Cardinality(Arrivals(updates[d]))
  PROVE  JoinsCounted'
BY DEF JoinsCounted

LEMMA FaultType ==
  ASSUME faults \in 0 .. MaxFaults, Fault
  PROVE  faults' \in 0 .. MaxFaults /\ joins' = joins /\ changes' = changes
BY BoundsAreNumbers DEF Fault

LEMMA LateLandsType ==
  ASSUME TypeInv, NEW c \in Chats, NEW k \in Actions, LateLands(c, k)
  PROVE  TypeInv'
<1>1. TypeOK /\ JoinsCounted /\ (Lands(c, k) \/ UNCHANGED <<member, updates>>)
  BY DEF LateLands, TypeInv
<1>2. /\ member' \in [Chats -> [present : BOOLEAN, muted : BOOLEAN]]
      /\ updates' \in [Chats -> Seq(Kinds)]
      /\ \A d \in Chats : Cardinality(Arrivals(updates'[d])) = Cardinality(Arrivals(updates[d]))
  BY <1>1, LandsType
<1>3. TypeOK'
  BY <1>1, <1>2 DEF LateLands, TypeOK, Kinds, bounds
<1>4. JoinsCounted'
  BY <1>1, <1>2, SameRowsJoins DEF LateLands, bounds
<1>5. \A q \in Runners : RunnerPlaced(q)'
  BY SamePlaced DEF LateLands, TypeInv
<1> QED BY <1>3, <1>4, <1>5 DEF TypeInv

LEMMA AnsweredType ==
  ASSUME TypeInv, NEW p \in Runners, Answered(p)
  PROVE  TypeInv'
<1> DEFINE c == runner[p].chat
           kind == runner[p].kind
           step == IF kind \in {"RESTRICT", "UNMUTE"} /\ ~member[c].present THEN "absent" ELSE "done"
<1>1. TypeOK /\ JoinsCounted /\ RunnerPlaced(p) /\ runner[p].step = "call"
  BY DEF Answered, Calling, TypeInv
<1>2. c \in Chats /\ runner \in [Runners -> RunnerState] /\ step \in {"done", "absent"}
  BY <1>1 DEF RunnerPlaced, TypeOK
<1>3. /\ member' \in [Chats -> [present : BOOLEAN, muted : BOOLEAN]]
      /\ updates' \in [Chats -> Seq(Kinds)]
      /\ \A d \in Chats : Cardinality(Arrivals(updates'[d])) = Cardinality(Arrivals(updates[d]))
  <2>1. Lands(c, kind)
    BY DEF Answered
  <2> HIDE DEF c, kind
  <2> QED BY <1>1, <1>2, <2>1, LandsType
<1>4. links' \in [Chats -> SUBSET Tokens]
  BY <1>1, <1>2 DEF Answered, TypeOK, RunnerPlaced, Calling
<1>5. runner' = [runner EXCEPT ![p].step = step]
  BY DEF Answered
<1> HIDE DEF step
<1>6. /\ runner' \in [Runners -> RunnerState]
      /\ runner'[p] = [runner[p] EXCEPT !.step = step]
      /\ \A q \in Runners : q # p => runner'[q] = runner[q]
  BY <1>2, <1>5, SteppingRunner
<1>7. TypeOK'
  BY <1>1, <1>3, <1>4, <1>6 DEF Answered, TypeOK, Kinds, bounds
<1>8. JoinsCounted'
  BY <1>1, <1>3, SameRowsJoins DEF Answered, bounds
<1>9. RunnerPlaced(p)'
  BY <1>1, <1>2, <1>6, StepPlaced
<1>10. \A q \in Runners : RunnerPlaced(q)'
  BY <1>6, <1>9, SamePlaced DEF TypeInv
<1> QED BY <1>7, <1>8, <1>10 DEF TypeInv

LEMMA UnansweredType ==
  ASSUME TypeInv, NEW p \in Runners, Unanswered(p)
  PROVE  TypeInv'
<1> DEFINE c == runner[p].chat
           kind == runner[p].kind
<1>1. TypeOK /\ JoinsCounted /\ RunnerPlaced(p) /\ runner[p].step = "call"
  BY DEF Unanswered, Calling, TypeInv
<1>2. /\ c \in Chats /\ kind \in Actions
      /\ runner \in [Runners -> RunnerState] /\ faults \in 0 .. MaxFaults
  BY <1>1 DEF RunnerPlaced, TypeOK
<1>3. /\ member' \in [Chats -> [present : BOOLEAN, muted : BOOLEAN]]
      /\ updates' \in [Chats -> Seq(Kinds)]
      /\ \A d \in Chats : Cardinality(Arrivals(updates'[d])) = Cardinality(Arrivals(updates[d]))
  <2>1. Lands(c, kind) \/ UNCHANGED <<member, updates>>
    BY DEF Unanswered
  <2> HIDE DEF c, kind
  <2> QED BY <1>1, <1>2, <2>1, LandsType
<1>4. late' \subseteq Chats \X (Actions \ {"VERIFICATION_NOTIFICATION"})
  <2>1. late \subseteq Chats \X (Actions \ {"VERIFICATION_NOTIFICATION"})
    BY <1>1 DEF TypeOK
  <2>2. late' = late \/ (kind # "VERIFICATION_NOTIFICATION" /\ late' = late \cup {<<c, kind>>})
    BY DEF Unanswered
  <2> HIDE DEF c, kind
  <2> QED BY <1>2, <2>1, <2>2
<1>5. links' \in [Chats -> SUBSET Tokens]
  <2>1. links \in [Chats -> SUBSET Tokens]
    BY <1>1 DEF TypeOK
  <2>2. \/ links' = links
        \/ kind = "VERIFICATION_NOTIFICATION"
             /\ links' = [links EXCEPT ![c] = links[c] \cup {runner[p].token}]
    <3>1. CASE kind = "VERIFICATION_NOTIFICATION"
      BY <3>1 DEF Unanswered
    <3>2. CASE kind # "VERIFICATION_NOTIFICATION"
      <4>1. [links EXCEPT ![c] = links[c]] = links
        BY <2>1
      <4> QED BY <3>2, <4>1 DEF Unanswered
    <3> QED BY <3>1, <3>2
  <2>3. kind = "VERIFICATION_NOTIFICATION" => runner[p].token \in Tokens
    BY <1>1 DEF RunnerPlaced, Calling
  <2> HIDE DEF c, kind
  <2> QED BY <1>2, <2>1, <2>2, <2>3
<1>6. runner' = [runner EXCEPT ![p].step = "failed"]
  BY DEF Unanswered
<1>7. /\ runner' \in [Runners -> RunnerState]
      /\ runner'[p] = [runner[p] EXCEPT !.step = "failed"]
      /\ \A q \in Runners : q # p => runner'[q] = runner[q]
  BY <1>2, <1>6, SteppingRunner
<1>8. faults' \in 0 .. MaxFaults /\ joins' = joins /\ changes' = changes
  BY <1>2, FaultType DEF Unanswered
<1>9. TypeOK'
  BY <1>1, <1>3, <1>4, <1>5, <1>7, <1>8 DEF Unanswered, TypeOK, Kinds
<1>10. JoinsCounted'
  BY <1>1, <1>3, <1>8, SameRowsJoins DEF Unanswered
<1>11. RunnerPlaced(p)'
  BY <1>1, <1>2, <1>7, StepPlaced
<1>12. \A q \in Runners : RunnerPlaced(q)'
  BY <1>7, <1>11, SamePlaced DEF TypeInv
<1> QED BY <1>9, <1>10, <1>12 DEF TypeInv

LEMMA RestartType ==
  ASSUME TypeInv, Restart
  PROVE  TypeInv'
<1>1. TypeOK /\ JoinsCounted /\ \A p \in Runners : RunnerPlaced(p)
  BY DEF TypeInv
<1>2. Idle \in RunnerState
  BY BoundsAreNumbers DEF Idle, RunnerState, Generations
<1>3. runner' \in [Runners -> RunnerState] /\ \A p \in Runners : runner'[p] = Idle
  BY <1>2 DEF Restart
<1>4. late' \subseteq Chats \X (Actions \ {"VERIFICATION_NOTIFICATION"})
  BY <1>1 DEF Restart, TypeOK, RunnerPlaced, Calling
<1>5. faults' \in 0 .. MaxFaults /\ joins' = joins /\ changes' = changes
  BY <1>1, FaultType DEF Restart, TypeOK
<1>6. TypeOK'
  BY <1>1, <1>3, <1>4, <1>5 DEF Restart, TypeOK
<1>7. JoinsCounted'
  BY <1>1, <1>5 DEF Restart, JoinsCounted, Arrivals
<1>8. \A q \in Runners : RunnerPlaced(q)'
  BY <1>3, IdlePlaced
<1> QED BY <1>6, <1>7, <1>8 DEF TypeInv

-----------------------------------------------------------------------------
(* Types of what the person, time, the worker and the handlers do. *)

LEMMA JoinsType ==
  ASSUME TypeInv, NEW c \in Chats, NEW admin \in BOOLEAN, Joins(c, admin)
  PROVE  TypeInv'
<1> DEFINE kind == IF admin THEN "joinAdmin" ELSE "join"
<1>1. TypeOK /\ JoinsCounted
  BY DEF TypeInv
<1>2. /\ updates \in [Chats -> Seq(Kinds)] /\ row \in [Chats -> Row]
      /\ member \in [Chats -> [present : BOOLEAN, muted : BOOLEAN]]
      /\ joins \in 0 .. MaxJoins
  BY <1>1 DEF TypeOK, Kinds
<1>3. kind \in Kinds /\ kind # "left"
  BY DEF Kinds
<1>4. updates' = [updates EXCEPT ![c] = Append(updates[c], kind)]
  BY DEF Joins
<1> HIDE DEF kind
<1>5. /\ Append(updates[c], kind) \in Seq(Kinds)
      /\ Cardinality(Arrivals(Append(updates[c], kind))) = Cardinality(Arrivals(updates[c])) + 1
  <2>1. updates[c] \in Seq(Kinds)
    BY <1>2
  <2> QED BY <1>3, <2>1, ArrivalsAppend
<1>6. updates' \in [Chats -> Seq(Kinds)]
  BY <1>2, <1>4, <1>5
<1>7. joins' = joins + 1 /\ joins' \in 0 .. MaxJoins
  BY <1>2, BoundsAreNumbers DEF Joins
<1>8. member' \in [Chats -> [present : BOOLEAN, muted : BOOLEAN]]
  <2>1. [member[c] EXCEPT !.present = TRUE] \in [present : BOOLEAN, muted : BOOLEAN]
    BY <1>2
  <2>2. member' = [member EXCEPT ![c] = [member[c] EXCEPT !.present = TRUE]]
    BY DEF Joins
  <2> QED BY <1>2, <2>1, <2>2
<1>9. TypeOK'
  BY <1>1, <1>6, <1>7, <1>8 DEF Joins, TypeOK, Kinds
<1>10. ASSUME NEW d \in Chats
       PROVE  row'[d].generation + Cardinality(Arrivals(updates'[d])) <= joins'
  <2>1. /\ row[d].generation \in Nat /\ Cardinality(Arrivals(updates[d])) \in Nat
        /\ joins \in Nat
        /\ row[d].generation + Cardinality(Arrivals(updates[d])) <= joins
    <3>1. updates[d] \in Seq(Kinds) /\ row[d] \in Row
      BY <1>2
    <3> QED BY <1>1, <1>2, <3>1, ArrivalsFinite DEF JoinsCounted, Row, Generations
  <2>2. Cardinality(Arrivals(updates'[d])) <= Cardinality(Arrivals(updates[d])) + 1
    <3>1. CASE d = c
      <4>1. updates'[c] = Append(updates[c], kind)
        BY <1>2, <1>4
      <4> QED BY <1>5, <2>1, <3>1, <4>1
    <3>2. CASE d # c
      <4>1. updates'[d] = updates[d]
        BY <1>2, <1>4, <3>2
      <4> QED BY <2>1, <4>1
    <3> QED BY <3>1, <3>2
  <2>3. Cardinality(Arrivals(updates'[d])) \in Nat
    BY <1>6, ArrivalsFinite
  <2>4. row' = row
    BY DEF Joins
  <2> QED BY <1>7, <2>1, <2>2, <2>3, <2>4
<1>11. JoinsCounted'
  BY <1>10 DEF JoinsCounted
<1>12. \A q \in Runners : RunnerPlaced(q)'
  BY SamePlaced DEF Joins, TypeInv
<1> QED BY <1>9, <1>11, <1>12 DEF TypeInv

LEMMA LeavesType ==
  ASSUME TypeInv, NEW c \in Chats, Leaves(c)
  PROVE  TypeInv'
<1>1. TypeOK /\ JoinsCounted
  BY DEF TypeInv
<1>2. /\ updates \in [Chats -> Seq(Kinds)]
      /\ member \in [Chats -> [present : BOOLEAN, muted : BOOLEAN]]
  BY <1>1 DEF TypeOK, Kinds
<1>3. updates' = [updates EXCEPT ![c] = Append(updates[c], "left")]
  BY DEF Leaves
<1>4. /\ Append(updates[c], "left") \in Seq(Kinds)
      /\ Cardinality(Arrivals(Append(updates[c], "left"))) = Cardinality(Arrivals(updates[c]))
  <2>1. updates[c] \in Seq(Kinds) /\ "left" \in Kinds
    BY <1>2 DEF Kinds
  <2> QED BY <2>1, ArrivalsAppend
<1>5. updates' \in [Chats -> Seq(Kinds)]
  BY <1>2, <1>3, <1>4
<1>6. ASSUME NEW d \in Chats
      PROVE  Cardinality(Arrivals(updates'[d])) = Cardinality(Arrivals(updates[d]))
  <2>1. CASE d = c
    <3>1. updates'[c] = Append(updates[c], "left")
      BY <1>2, <1>3
    <3> QED BY <1>4, <2>1, <3>1
  <2>2. CASE d # c
    <3>1. updates'[d] = updates[d]
      BY <1>2, <1>3, <2>2
    <3> QED BY <3>1
  <2> QED BY <2>1, <2>2
<1>7. member' \in [Chats -> [present : BOOLEAN, muted : BOOLEAN]]
  <2>1. [member[c] EXCEPT !.present = FALSE] \in [present : BOOLEAN, muted : BOOLEAN]
    BY <1>2
  <2>2. member' = [member EXCEPT ![c] = [member[c] EXCEPT !.present = FALSE]]
    BY DEF Leaves
  <2> QED BY <1>2, <2>1, <2>2
<1>8. TypeOK'
  BY <1>1, <1>5, <1>7 DEF Leaves, TypeOK, Kinds, bounds
<1>9. JoinsCounted'
  BY <1>1, <1>6, SameRowsJoins DEF Leaves, bounds
<1>10. \A q \in Runners : RunnerPlaced(q)'
  BY SamePlaced DEF Leaves, TypeInv
<1> QED BY <1>8, <1>9, <1>10 DEF TypeInv

\* Steps that keep all but rows, of the same generation, and what is bound.
LEMMA RowsType ==
  ASSUME TypeInv, row' \in [Chats -> Row],
         \A c \in Chats : row'[c].generation = row[c].generation,
         bound' \in BOOLEAN, boundIn' \in [Chats -> SUBSET Generations],
         changes' \in 0 .. MaxChanges,
         UNCHANGED <<tokens, links, telegram, runner, joins, faults>>
  PROVE  TypeInv'
<1>1. TypeOK /\ JoinsCounted
  BY DEF TypeInv
<1>2. TypeOK'
  BY <1>1 DEF TypeOK, telegram
<1>3. JoinsCounted'
  BY <1>1, JoinsKept DEF telegram
<1>4. \A q \in Runners : RunnerPlaced(q)'
  BY SamePlaced DEF TypeInv
<1> QED BY <1>2, <1>3, <1>4 DEF TypeInv

LEMMA BindsType ==
  ASSUME TypeInv, Binds
  PROVE  TypeInv'
<1>1. /\ row \in [Chats -> Row] /\ boundIn \in [Chats -> SUBSET Generations]
      /\ bound \in BOOLEAN /\ changes \in 0 .. MaxChanges
  BY DEF TypeInv, TypeOK
<1>2. \A c \in Chats : row[c].generation \in Generations
  BY <1>1 DEF Row
<1>3. boundIn' \in [Chats -> SUBSET Generations]
  BY <1>1, <1>2 DEF Binds
<1>4. changes' \in 0 .. MaxChanges /\ bound' \in BOOLEAN /\ row' = row
  BY <1>1, BoundsAreNumbers DEF Binds
<1>5. UNCHANGED <<tokens, links, telegram, runner, joins, faults>>
  BY DEF Binds
<1> QED BY <1>1, <1>3, <1>4, <1>5, RowsType

\* One row becomes another one of the same generation.
LEMMA OneRowType ==
  ASSUME TypeInv, NEW c \in Chats, NEW r \in Row, r.generation = row[c].generation,
         row' = [row EXCEPT ![c] = r],
         UNCHANGED <<bound, tokens, links, telegram, runner, bounds, boundIn>>
  PROVE  TypeInv'
<1>1. /\ row \in [Chats -> Row] /\ boundIn \in [Chats -> SUBSET Generations]
      /\ bound \in BOOLEAN /\ changes \in 0 .. MaxChanges
  BY DEF TypeInv, TypeOK
<1>2. row' \in [Chats -> Row] /\ \A d \in Chats : row'[d].generation = row[d].generation
  BY <1>1
<1> QED BY <1>1, <1>2, RowsType DEF bounds

LEMMA TimesType ==
  ASSUME TypeInv, NEW c \in Chats, DeadlinePasses(c) \/ RetryPasses(c)
  PROVE  TypeInv'
<1>1. row[c] \in Row
  BY DEF TypeInv, TypeOK
<1>2. UNCHANGED <<bound, tokens, links, telegram, runner, bounds, boundIn>>
  BY DEF DeadlinePasses, RetryPasses
<1>3. CASE DeadlinePasses(c)
  <2> DEFINE r == [row[c] EXCEPT !.deadline = "reached"]
  <2>1. r \in Row /\ r.generation = row[c].generation
    BY <1>1 DEF Row
  <2>2. row' = [row EXCEPT ![c] = r]
    BY <1>3 DEF DeadlinePasses
  <2> HIDE DEF r
  <2> QED BY <1>2, <2>1, <2>2, OneRowType
<1>4. CASE RetryPasses(c)
  <2> DEFINE r == [row[c] EXCEPT !.retry = "reached"]
  <2>1. r \in Row /\ r.generation = row[c].generation
    BY <1>1 DEF Row
  <2>2. row' = [row EXCEPT ![c] = r]
    BY <1>4 DEF RetryPasses
  <2> HIDE DEF r
  <2> QED BY <1>2, <2>1, <2>2, OneRowType
<1> QED BY <1>3, <1>4

\* The row of somebody who used the link.
VerifiedOf(row0) ==
  LET r == IF row0.action = "VERIFICATION_NOTIFICATION"
           THEN [row0 EXCEPT !.action = None, !.retry = "none"] ELSE row0
  IN [r EXCEPT !.token = None, !.verified = TRUE]

LEMMA VerifiedRow ==
  ASSUME NEW r \in Row
  PROVE  /\ VerifiedOf(r) \in Row
         /\ VerifiedOf(r).generation = r.generation
         /\ VerifiedOf(r).state = r.state
BY ZenonT(60) DEF VerifiedOf, Row

LEMMA VerifyType ==
  ASSUME TypeInv, NEW c \in Chats, NEW t \in Tokens, verify_token(c, t)
  PROVE  TypeInv'
<1>1. row[c] \in Row
  BY DEF TypeInv, TypeOK
<1>2. VerifiedOf(row[c]) \in Row /\ VerifiedOf(row[c]).generation = row[c].generation
  BY <1>1, VerifiedRow
<1>3. row' = [row EXCEPT ![c] = VerifiedOf(row[c])]
  BY DEF verify_token, VerifiedOf
<1>4. UNCHANGED <<bound, tokens, links, telegram, runner, bounds, boundIn>>
  BY DEF verify_token
<1> QED BY <1>2, <1>3, <1>4, OneRowType

LEMMA QueueType ==
  ASSUME TypeInv, queue_unmute_for_user
  PROVE  TypeInv'
<1>1. /\ row \in [Chats -> Row] /\ boundIn \in [Chats -> SUBSET Generations]
      /\ bound \in BOOLEAN /\ changes \in 0 .. MaxChanges
  BY DEF TypeInv, TypeOK
<1>2. \A c \in Chats : Queued(row[c]) \in Row /\ Queued(row[c]).generation = row[c].generation
  BY <1>1, QueuedRow
<1>3. row' = [c \in Chats |-> Queued(row[c])]
  BY DEF queue_unmute_for_user
<1>4. row' \in [Chats -> Row] /\ \A d \in Chats : row'[d].generation = row[d].generation
  BY <1>2, <1>3
<1>5. UNCHANGED <<bound, tokens, links, telegram, runner, bounds, boundIn>>
  BY DEF queue_unmute_for_user
<1> QED BY <1>1, <1>4, <1>5, RowsType DEF bounds

LEMMA ScanType ==
  ASSUME TypeInv, NEW c \in Chats, Scan(c)
  PROVE  TypeInv'
<1>1. TypeOK /\ JoinsCounted /\ row[c] \in Row /\ runner \in [Runners -> RunnerState]
  BY DEF TypeInv, TypeOK
<1>2. Worker \in Runners /\ Due(row[c]) \in SUBSET Actions
  BY NoneIsNoAction, DueKinds
<1>3. /\ runner' \in [Runners -> RunnerState]
      /\ \A q \in Runners : q # Worker => runner'[q] = runner[q]
      /\ \/ runner'[Worker] = Idle
         \/ runner'[Worker].chat = c /\ runner'[Worker].step = "claim"
              /\ runner'[Worker].kind \in Actions
  <2>1. runner' = Started(Worker, c, row[c], Due(row[c]))
    BY DEF Scan
  <2> QED BY <1>1, <1>2, <2>1, StartedRunner
<1>4. TypeOK'
  BY <1>1, <1>3 DEF Scan, TypeOK, telegram, bounds
<1>5. JoinsCounted'
  BY <1>1, JoinsKept DEF Scan, telegram, bounds
<1>6. RunnerPlaced(Worker)'
  BY <1>2, <1>3, IdlePlaced, ClaimPlaced
<1>7. \A q \in Runners : RunnerPlaced(q)'
  BY <1>3, <1>6, SamePlaced DEF TypeInv
<1> QED BY <1>4, <1>5, <1>7 DEF TypeInv

\* An update that is taken leaves the queue, and is one arrival less if it was a join.
LEMMA TakenUpdate ==
  ASSUME TypeOK, NEW c \in Chats, NEW kind, Take(c, kind)
  PROVE  /\ updates' \in [Chats -> Seq(Kinds)]
         /\ Cardinality(Arrivals(updates'[c])) <= Cardinality(Arrivals(updates[c]))
         /\ kind # "left" =>
              Cardinality(Arrivals(updates'[c])) + 1 <= Cardinality(Arrivals(updates[c]))
         /\ \A d \in Chats : d # c => updates'[d] = updates[d]
<1>1. updates \in [Chats -> Seq(Kinds)]
  BY DEF TypeOK, Kinds
<1>2. PICK i \in 1 .. Len(updates[c]) :
        updates[c][i] = kind /\ updates' = [updates EXCEPT ![c] = RemoveAt(updates[c], i)]
  BY DEF Take
<1>3. updates[c] \in Seq(Kinds)
  BY <1>1
<1>4. RemoveAt(updates[c], i) \in Seq(Kinds)
  BY <1>2, <1>3, RemoveAtIndexes
<1>5. /\ updates' \in [Chats -> Seq(Kinds)] /\ updates'[c] = RemoveAt(updates[c], i)
      /\ \A d \in Chats : d # c => updates'[d] = updates[d]
  BY <1>1, <1>2, <1>4
<1>6. /\ Cardinality(Arrivals(RemoveAt(updates[c], i))) <= Cardinality(Arrivals(updates[c]))
      /\ updates[c][i] # "left" =>
           Cardinality(Arrivals(RemoveAt(updates[c], i))) + 1 <= Cardinality(Arrivals(updates[c]))
  BY <1>2, <1>3, ArrivalsRemove
<1> QED BY <1>2, <1>5, <1>6

\* The numbers that JoinsCounted compares.
LEMMA CountedNumbers ==
  ASSUME TypeOK, JoinsCounted, NEW c \in Chats
  PROVE  /\ row[c].generation \in Nat /\ joins \in Nat
         /\ Cardinality(Arrivals(updates[c])) \in Nat
         /\ row[c].generation + Cardinality(Arrivals(updates[c])) <= joins
         /\ joins <= MaxJoins
<1>1. updates[c] \in Seq(Kinds) /\ row[c] \in Row /\ joins \in 0 .. MaxJoins
  BY DEF TypeOK, Kinds
<1> QED BY <1>1, ArrivalsFinite, BoundsAreNumbers DEF JoinsCounted, Row, Generations

LEMMA HandleJoinType ==
  ASSUME TypeInv, NEW p \in Runners, NEW c \in Chats, NEW admin \in BOOLEAN,
         handle_join(p, c, admin)
  PROVE  TypeInv'
<1> DEFINE r == Joined(row[c], admin)
           kind == IF admin THEN "joinAdmin" ELSE "join"
<1>1. TypeOK /\ JoinsCounted
  BY DEF TypeInv
<1>2. /\ row \in [Chats -> Row] /\ boundIn \in [Chats -> SUBSET Generations]
      /\ runner \in [Runners -> RunnerState] /\ updates \in [Chats -> Seq(Kinds)]
      /\ row[c] \in Row
  BY <1>1 DEF TypeOK, Kinds
<1>3. Take(c, kind) /\ kind # "left"
  BY DEF handle_join
<1> HIDE DEF kind
<1>4. /\ updates' \in [Chats -> Seq(Kinds)]
      /\ Cardinality(Arrivals(updates'[c])) + 1 <= Cardinality(Arrivals(updates[c]))
      /\ \A d \in Chats : d # c => updates'[d] = updates[d]
  BY <1>1, <1>3, TakenUpdate
<1>5. /\ row[c].generation \in Nat /\ joins \in Nat
      /\ Cardinality(Arrivals(updates[c])) \in Nat
      /\ row[c].generation + Cardinality(Arrivals(updates[c])) <= joins
      /\ joins <= MaxJoins
  BY <1>1, CountedNumbers
<1>6. Cardinality(Arrivals(updates'[c])) \in Nat
  BY <1>4, ArrivalsFinite
<1>7. row[c].generation + 1 \in Generations
  BY <1>4, <1>5, <1>6, BoundsAreNumbers DEF Generations
<1>8. /\ r \in Row
      /\ r.generation = row[c].generation \/ r.generation = row[c].generation + 1
  BY <1>2, <1>7, JoinedRow
<1>9. Store(c, r)
  BY DEF handle_join
<1> HIDE DEF r
<1>10. /\ row' \in [Chats -> Row] /\ boundIn' \in [Chats -> SUBSET Generations]
       /\ row'[c] = r /\ \A d \in Chats : d # c => row'[d] = row[d]
  BY <1>2, <1>8, <1>9, StoredRow
<1>11. /\ runner' \in [Runners -> RunnerState]
       /\ \A q \in Runners : q # p => runner'[q] = runner[q]
       /\ \/ runner'[p] = Idle
          \/ runner'[p].chat = c /\ runner'[p].step = "claim" /\ runner'[p].kind \in Actions
  <2>1. runner' = Started(p, c, r, Due(r))
    BY <1>10 DEF handle_join
  <2>2. Due(r) \in SUBSET Actions
    BY DueKinds
  <2> QED BY <1>2, <1>8, <2>1, <2>2, StartedRunner
<1>12. TypeOK'
  BY <1>1, <1>4, <1>10, <1>11 DEF handle_join, TypeOK, Kinds, bounds
<1>13. ASSUME NEW d \in Chats
       PROVE  row'[d].generation + Cardinality(Arrivals(updates'[d])) <= joins'
  <2>1. joins' = joins
    BY DEF handle_join, bounds
  <2>2. CASE d = c
    <3>1. \/ row'[d].generation = row[c].generation
          \/ row'[d].generation = row[c].generation + 1
      BY <1>8, <1>10, <2>2
    <3> QED BY <1>4, <1>5, <1>6, <2>1, <2>2, <3>1
  <2>3. CASE d # c
    <3>1. row'[d] = row[d] /\ updates'[d] = updates[d]
      BY <1>4, <1>10, <2>3
    <3> QED BY <1>1, <2>1, <3>1 DEF JoinsCounted
  <2> QED BY <2>2, <2>3
<1>14. JoinsCounted'
  BY <1>13 DEF JoinsCounted
<1>15. RunnerPlaced(p)'
  BY <1>11, IdlePlaced, ClaimPlaced
<1>16. \A q \in Runners : RunnerPlaced(q)'
  BY <1>11, <1>15, SamePlaced DEF TypeInv
<1> QED BY <1>12, <1>14, <1>16 DEF TypeInv

\* A runner that has read of a row that its person is away.
AbsentFrom(c) == [Idle EXCEPT !.chat = c, !.step = "absent", !.generation = row[c].generation]

LEMMA AbsentRunner ==
  ASSUME NEW c \in Chats, row[c] \in Row
  PROVE  /\ AbsentFrom(c) \in RunnerState /\ AbsentFrom(c).chat = c
         /\ AbsentFrom(c).step = "absent" /\ AbsentFrom(c).generation = row[c].generation
<1>1. row[c].generation \in Generations
  BY DEF Row
<1> QED BY <1>1 DEF AbsentFrom, Idle, RunnerState

LEMMA HandleLeftType ==
  ASSUME TypeInv, NEW p \in Runners, NEW c \in Chats, handle_left(p, c)
  PROVE  TypeInv'
<1>1. TypeOK /\ JoinsCounted /\ Take(c, "left")
  BY DEF TypeInv, handle_left
<1>2. /\ runner \in [Runners -> RunnerState] /\ updates \in [Chats -> Seq(Kinds)]
      /\ row[c] \in Row
  BY <1>1 DEF TypeOK, Kinds
<1>3. /\ updates' \in [Chats -> Seq(Kinds)]
      /\ Cardinality(Arrivals(updates'[c])) <= Cardinality(Arrivals(updates[c]))
      /\ \A d \in Chats : d # c => updates'[d] = updates[d]
  BY <1>1, TakenUpdate
<1>4. /\ AbsentFrom(c) \in RunnerState /\ AbsentFrom(c).chat = c
      /\ AbsentFrom(c).step = "absent"
  BY <1>2, AbsentRunner
<1>5. runner' = runner \/ runner' = [runner EXCEPT ![p] = AbsentFrom(c)]
  BY DEF handle_left, AbsentFrom
<1>6. /\ runner' \in [Runners -> RunnerState]
      /\ \A q \in Runners : q # p => runner'[q] = runner[q]
      /\ runner'[p] = runner[p] \/ runner'[p] = AbsentFrom(c)
  BY <1>2, <1>4, <1>5
<1>7. TypeOK'
  BY <1>1, <1>3, <1>6 DEF handle_left, TypeOK, Kinds, bounds
<1>8. ASSUME NEW d \in Chats
      PROVE  row'[d].generation + Cardinality(Arrivals(updates'[d])) <= joins'
  <2>1. joins' = joins /\ row' = row
    BY DEF handle_left, bounds
  <2>2. CASE d = c
    <3>1. Cardinality(Arrivals(updates'[d])) \in Nat
      BY <1>3, ArrivalsFinite
    <3>2. /\ row[c].generation \in Nat /\ joins \in Nat
          /\ Cardinality(Arrivals(updates[c])) \in Nat
          /\ row[c].generation + Cardinality(Arrivals(updates[c])) <= joins
      BY <1>1, CountedNumbers
    <3> QED BY <1>3, <2>1, <2>2, <3>1, <3>2
  <2>3. CASE d # c
    <3>1. updates'[d] = updates[d]
      BY <1>3, <2>3
    <3> QED BY <1>1, <2>1, <3>1 DEF JoinsCounted
  <2> QED BY <2>2, <2>3
<1>9. JoinsCounted'
  BY <1>8 DEF JoinsCounted
<1>10. RunnerPlaced(p)'
  <2>1. CASE runner'[p] = runner[p]
    BY <2>1, SamePlaced DEF TypeInv
  <2>2. CASE runner'[p] = AbsentFrom(c)
    BY <1>4, <2>2 DEF RunnerPlaced, Calling
  <2> QED BY <1>6, <2>1, <2>2
<1>11. \A q \in Runners : RunnerPlaced(q)'
  BY <1>6, <1>10, SamePlaced DEF TypeInv
<1> QED BY <1>7, <1>9, <1>11 DEF TypeInv

LEMMA InitType ==
  ASSUME Init
  PROVE  TypeInv
<1>1. NoRow \in Row /\ Idle \in RunnerState
  BY BoundsAreNumbers DEF NoRow, Row, Idle, RunnerState, Generations
<1>2. TypeOK
  BY <1>1, BoundsAreNumbers DEF Init, TypeOK
<1>3. ASSUME NEW c \in Chats PROVE row[c].generation + Cardinality(Arrivals(updates[c])) <= joins
  <2>1. updates[c] = <<>> /\ row[c] = NoRow /\ joins = 0
    BY DEF Init
  <2>2. Arrivals(updates[c]) = {}
    BY <2>1 DEF Arrivals
  <2>3. Cardinality(Arrivals(updates[c])) = 0
    BY <2>2, FS_EmptySet
  <2>4. row[c].generation = 0
    BY <2>1 DEF NoRow
  <2> QED BY <2>1, <2>3, <2>4
<1>4. JoinsCounted
  BY <1>3 DEF JoinsCounted
<1>5. \A p \in Runners : RunnerPlaced(p)
  BY DEF Init, RunnerPlaced, Idle, Calling
<1> QED BY <1>2, <1>4, <1>5 DEF TypeInv

LEMMA StepsType ==
  ASSUME TypeInv, NEW p \in Runners, Steps(p)
  PROVE  TypeInv'
<1>1. CASE claim_restriction(p) \/ claim_unmute(p) \/ claim_removal(p)
             \/ issue_verification_token(p)
  BY <1>1, ClaimRestrictionType, ClaimUnmuteType, ClaimRemovalType, IssueType
<1>2. CASE Answered(p)
  BY <1>2, AnsweredType
<1>3. CASE confirm_restriction(p)
  BY <1>3, ConfirmRestrictionType
<1>4. CASE \/ confirm_unmute(p) \/ confirm_removal(p) \/ fail_action(p)
           \/ mark_notification_success(p) \/ mark_notification_failure(p) \/ mark_left(p)
  BY <1>4, ResultsType
<1> QED BY <1>1, <1>2, <1>3, <1>4 DEF Steps

LEMMA NextType ==
  ASSUME TypeInv, [Next]_vars
  PROVE  TypeInv'
<1>1. CASE Person
  BY <1>1, JoinsType, LeavesType, VerifyType, BindsType DEF Person
<1>2. CASE Clock
  BY <1>2, TimesType DEF Clock
<1>3. CASE queue_unmute_for_user
  BY <1>3, QueueType
<1>4. ASSUME NEW c \in Chats,
             Scan(c) \/ (\E p \in Handlers : Handles(p, c)) \/ (\E k \in Actions : LateLands(c, k))
      PROVE  TypeInv'
  <2>1. CASE \E p \in Handlers : Handles(p, c)
    <3>1. PICK p \in Handlers : Handles(p, c)
      BY <2>1
    <3>2. p \in Runners
      BY DEF Runners
    <3> QED BY <3>1, <3>2, HandleJoinType, HandleLeftType DEF Handles
  <2> QED BY <1>4, <2>1, ScanType, LateLandsType
<1>5. ASSUME NEW p \in Runners, Steps(p) \/ Unanswered(p) PROVE TypeInv'
  BY <1>5, StepsType, UnansweredType
<1>6. CASE Restart
  BY <1>6, RestartType
<1>7. CASE UNCHANGED vars
  <2>1. UNCHANGED <<row, bound, tokens, links, member, updates, late, runner, joins, changes,
                    faults, boundIn>>
    BY <1>7 DEF vars, telegram, bounds
  <2> QED BY <2>1 DEF TypeInv, TypeOK, JoinsCounted, Arrivals, RunnerPlaced, Calling
<1> QED BY <1>1, <1>2, <1>3, <1>4, <1>5, <1>6, <1>7 DEF Next

\* Rows, runners, requests and Telegram keep their types; the generation of a row never
\* exceeds the number of joins, although updates are handled in any order (begin_join).
THEOREM OnboardingTyped == Spec => []TypeOK
<1>1. Init => TypeInv
  BY InitType
<1>2. TypeInv /\ [Next]_vars => TypeInv'
  BY NextType
<1>3. TypeInv => TypeOK
  BY DEF TypeInv
<1> QED BY <1>1, <1>2, <1>3, PTL DEF Spec

-----------------------------------------------------------------------------
(* Members who are released were bound. *)

Releasing == {"ACTIVE", "UNMUTE_PENDING"}

\* A row is released, or about to be, in a generation during which the person was bound;
\* and while the person is, the generation of every row that was ever joined for counts.
BoundCounted ==
  \A c \in Chats :
    /\ row[c].state \in Releasing => row[c].generation \in boundIn[c]
    /\ bound /\ row[c].state # "NONE" => row[c].generation \in boundIn[c]

\* A row may become r: r is not to be released, or is as before, or the person is bound.
MayBecome(c, r) ==
  r.state \in Releasing =>
    \/ bound
    \/ r.generation = row[c].generation /\ row[c].state \in Releasing

LEMMA StoreCounted ==
  ASSUME TypeOK, BoundCounted, NEW c \in Chats, NEW r \in Row, Store(c, r), MayBecome(c, r),
         bound' = bound
  PROVE  BoundCounted'
<1>1. row \in [Chats -> Row] /\ boundIn \in [Chats -> SUBSET Generations]
  BY DEF TypeOK
<1>2. /\ row'[c] = r
      /\ \A d \in Chats : d # c => row'[d] = row[d]
      /\ \A d \in Chats : boundIn[d] \subseteq boundIn'[d]
      /\ bound => r.generation \in boundIn'[c]
  BY <1>1, StoredRow
<1>3. ASSUME NEW d \in Chats
      PROVE  /\ row'[d].state \in Releasing => row'[d].generation \in boundIn'[d]
             /\ bound' /\ row'[d].state # "NONE" => row'[d].generation \in boundIn'[d]
  <2>1. CASE d = c
    BY <1>2, <2>1 DEF BoundCounted, MayBecome
  <2>2. CASE d # c
    BY <1>2, <2>2 DEF BoundCounted
  <2> QED BY <2>1, <2>2
<1> QED BY <1>3 DEF BoundCounted

\* Rows that keep their state and generation, and nothing else about being bound.
LEMMA StatesKept ==
  ASSUME BoundCounted, bound' = bound, boundIn' = boundIn,
         \A c \in Chats : row'[c].state = row[c].state /\ row'[c].generation = row[c].generation
  PROVE  BoundCounted'
BY DEF BoundCounted

LEMMA RefusedCounted ==
  ASSUME TypeInv, BoundCounted, NEW p \in Runners, runner[p].step # "idle",
         NEW r \in Row, Store(runner[p].chat, r), MayBecome(runner[p].chat, r), bound' = bound
  PROVE  BoundCounted'
BY WorkingRow, StoreCounted DEF TypeInv

LEMMA SameRowMay ==
  ASSUME NEW c \in Chats, NEW r, r.generation = row[c].generation, r.state = row[c].state
  PROVE  MayBecome(c, r)
BY DEF MayBecome

LEMMA ClaimsCounted ==
  ASSUME TypeInv, BoundCounted, NEW p \in Runners,
         claim_restriction(p) \/ claim_unmute(p) \/ claim_removal(p)
  PROVE  BoundCounted'
<1> DEFINE c == runner[p].chat
           r == RowOf(p)
<1>1. runner[p].step = "claim" /\ bound' = bound
  BY DEF claim_restriction, claim_unmute, claim_removal, Claiming
<1>2. c \in Chats /\ r \in Row /\ r = row[c]
  BY <1>1, WorkingRow DEF RowOf
<1>3. Queued(r) \in Row /\ Queued(r).generation = r.generation
  BY <1>2, QueuedRow
<1>4. PICK s \in {r, Queued(r)}, k \in {"RESTRICT", "UNMUTE"} :
        /\ s # r => bound
        /\ Store(c, s) \/ Store(c, Claimed(s, p, k)) \/ Store(c, RemovalOf(r, p))
  <2>1. CASE claim_restriction(p)
    BY <2>1 DEF claim_restriction, Refused
  <2>2. CASE claim_unmute(p)
    BY <2>2 DEF claim_unmute, Refused
  <2>3. CASE claim_removal(p)
    BY <2>3 DEF claim_removal, Refused, RemovalOf
  <2> QED BY <2>1, <2>2, <2>3
<1>5. s \in Row /\ MayBecome(c, s)
  BY <1>2, <1>3, <1>4 DEF MayBecome
<1>6. /\ Claimed(s, p, k) \in Row /\ Claimed(s, p, k).state = s.state
      /\ Claimed(s, p, k).generation = s.generation
  <2>1. k \in Actions
    BY <1>4 DEF Actions
  <2>2. s \in Row
    BY <1>5
  <2> HIDE DEF c, r
  <2> QED BY <2>1, <2>2, ClaimedRow, Zenon
<1>7. MayBecome(c, Claimed(s, p, k))
  BY <1>5, <1>6 DEF MayBecome
<1>8. RemovalOf(r, p) \in Row /\ MayBecome(c, RemovalOf(r, p))
  BY <1>2, RemovalRow DEF MayBecome, Releasing
<1> QED BY <1>1, <1>4, <1>5, <1>6, <1>7, <1>8, RefusedCounted

LEMMA IssueCounted ==
  ASSUME TypeInv, BoundCounted, NEW p \in Runners, issue_verification_token(p)
  PROVE  BoundCounted'
<1> DEFINE c == runner[p].chat
           r == [RowOf(p) EXCEPT !.action = "VERIFICATION_NOTIFICATION", !.retry = "running",
                                 !.token = tokens[c] + 1, !.verified = FALSE]
<1>1. runner[p].step = "claim" /\ bound' = bound
  BY DEF issue_verification_token, Claiming
<1>2. c \in Chats /\ RowOf(p) \in Row /\ RowOf(p) = row[c] /\ tokens \in [Chats -> 0 .. MaxTokens]
  BY <1>1, WorkingRow DEF RowOf, TypeInv, TypeOK
<1>3. CASE Refused(p, RowOf(p))
  BY <1>1, <1>2, <1>3, SameRowMay, RefusedCounted DEF Refused
<1>4. CASE tokens[c] < MaxTokens /\ Store(c, r)
  <2>1. tokens[c] + 1 \in Tokens
    BY <1>2, <1>4, BoundsAreNumbers DEF Tokens
  <2>2. r \in Row /\ r.generation = row[c].generation /\ r.state = row[c].state
    BY <1>2, <2>1 DEF Row, Actions
  <2> HIDE DEF r
  <2> QED BY <1>1, <1>2, <1>4, <2>2, SameRowMay, RefusedCounted
<1> QED BY <1>3, <1>4 DEF issue_verification_token

LEMMA ConfirmRestrictionCounted ==
  ASSUME TypeInv, BoundCounted, NEW p \in Runners, confirm_restriction(p)
  PROVE  BoundCounted'
<1> DEFINE c == runner[p].chat
           r == RowOf(p)
           muted == [Cleared(r) EXCEPT !.state = "MUTED"]
           queued == [Queued(r) EXCEPT !.retry = "none"]
<1>1. runner[p].step = "done" /\ bound' = bound
  BY DEF confirm_restriction, Settling
<1>2. c \in Chats /\ r \in Row /\ r = row[c]
  BY <1>1, WorkingRow DEF RowOf
<1>3. \/ bound /\ Store(c, queued)
      \/ Store(c, muted)
      \/ Store(c, r)
      \/ UNCHANGED <<row, boundIn>>
  BY DEF confirm_restriction, Refused
<1>4. queued \in Row
  <2>1. Queued(r) \in Row
    BY <1>2, QueuedRow
  <2> QED BY <2>1 DEF Row
<1>5. muted \in Row /\ muted.state = "MUTED"
  <2>1. Cleared(r) \in Row
    BY <1>2, ClearedRow
  <2> QED BY <2>1 DEF Row, Waiting
<1> HIDE DEF queued, muted
<1>6. CASE bound /\ Store(c, queued)
  BY <1>1, <1>2, <1>4, <1>6, RefusedCounted DEF MayBecome
<1>7. CASE Store(c, muted)
  BY <1>1, <1>2, <1>5, <1>7, RefusedCounted DEF MayBecome, Releasing
<1>8. CASE Store(c, r)
  BY <1>1, <1>2, <1>8, SameRowMay, RefusedCounted
<1>9. CASE UNCHANGED <<row, boundIn>>
  BY <1>1, <1>9, StatesKept
<1> QED BY <1>3, <1>6, <1>7, <1>8, <1>9

\* Only the holder of a release makes a row ACTIVE here, and the row was to be released.
LEMMA ResultsCounted ==
  ASSUME TypeInv, BoundCounted, NEW p \in Runners,
         \/ confirm_unmute(p) \/ confirm_removal(p) \/ fail_action(p)
         \/ mark_notification_success(p) \/ mark_notification_failure(p) \/ mark_left(p)
  PROVE  BoundCounted'
<1> DEFINE c == runner[p].chat
           r == RowOf(p)
           failed == [r EXCEPT !.attempt = None, !.retry = "running"]
           notified == [r EXCEPT !.action = None, !.retry = "none"]
           again == [r EXCEPT !.token = None, !.verified = FALSE, !.retry = "running"]
<1>1. runner[p].step \in {"done", "failed", "absent"} /\ bound' = bound
  BY DEF confirm_unmute, confirm_removal, fail_action, mark_notification_success,
     mark_notification_failure, mark_left, Settling
<1>2. c \in Chats /\ r \in Row /\ r = row[c]
  BY <1>1, WorkingRow DEF RowOf
<1>3. \/ Store(c, r) \/ Store(c, Left(r)) \/ Store(c, RemovedOf(r))
      \/ r.state = "UNMUTE_PENDING" /\ Store(c, ReleasedOf(r))
      \/ Store(c, failed) \/ Store(c, notified) \/ Store(c, again)
  BY DEF confirm_unmute, confirm_removal, fail_action, mark_notification_success,
     mark_notification_failure, mark_left, ReleasedOf, RemovedOf, Refused, Holds
<1>4. failed \in Row /\ failed.generation = r.generation /\ failed.state = r.state
  BY <1>2 DEF Row
<1>5. notified \in Row /\ notified.generation = r.generation /\ notified.state = r.state
  BY <1>2 DEF Row
<1>6. again \in Row /\ again.generation = r.generation /\ again.state = r.state
  BY <1>2 DEF Row
<1> HIDE DEF failed, notified, again
<1>7. /\ MayBecome(c, r) /\ MayBecome(c, failed) /\ MayBecome(c, notified)
      /\ MayBecome(c, again)
  BY <1>2, <1>4, <1>5, <1>6, SameRowMay
<1>8. CASE Store(c, r) \/ Store(c, failed) \/ Store(c, notified) \/ Store(c, again)
  BY <1>1, <1>2, <1>4, <1>5, <1>6, <1>7, <1>8, RefusedCounted
<1>9. CASE Store(c, Left(r))
  BY <1>1, <1>2, <1>9, LeftRow, RefusedCounted DEF MayBecome, Releasing, Gone
<1>10. CASE Store(c, RemovedOf(r))
  BY <1>1, <1>2, <1>10, SettledRow, RefusedCounted DEF MayBecome, Releasing
<1>11. CASE r.state = "UNMUTE_PENDING" /\ Store(c, ReleasedOf(r))
  BY <1>1, <1>2, <1>11, SettledRow, RefusedCounted DEF MayBecome, Releasing
<1> QED BY <1>3, <1>8, <1>9, <1>10, <1>11

LEMMA HandleJoinCounted ==
  ASSUME TypeInv, BoundCounted, TypeInv', NEW p \in Runners, NEW c \in Chats,
         NEW admin \in BOOLEAN, handle_join(p, c, admin)
  PROVE  BoundCounted'
<1> DEFINE r == Joined(row[c], admin)
<1>1. TypeOK /\ row \in [Chats -> Row] /\ row' \in [Chats -> Row]
  BY DEF TypeInv, TypeOK
<1>2. Store(c, r) /\ bound' = bound
  BY DEF handle_join
<1>3. row'[c] = r
  BY <1>1, <1>2 DEF Store
<1>4. r \in Row
  BY <1>1, <1>3
<1>5. MayBecome(c, r)
  <2>1. CASE row[c].state \notin Gone \cup {"NONE"}
    BY <2>1 DEF Joined, MayBecome
  <2>2. CASE row[c].state \in Gone \cup {"NONE"}
    BY <2>2 DEF Joined, MayBecome, NoRow, Releasing
  <2> QED BY <2>1, <2>2
<1> HIDE DEF r
<1> QED BY <1>1, <1>2, <1>4, <1>5, StoreCounted

LEMMA BindsCounted ==
  ASSUME TypeInv, BoundCounted, Binds
  PROVE  BoundCounted'
<1>1. boundIn \in [Chats -> SUBSET Generations] /\ bound \in BOOLEAN
  BY DEF TypeInv, TypeOK
<1>2. row' = row /\ bound' = ~bound
  BY DEF Binds
<1>3. CASE bound
  BY <1>2, <1>3 DEF Binds, BoundCounted
<1>4. CASE ~bound
  <2>1. boundIn' = [c \in Chats |-> boundIn[c] \cup {row[c].generation}]
    BY <1>4 DEF Binds
  <2>2. \A c \in Chats : row[c].generation \in boundIn'[c]
    BY <2>1
  <2> QED BY <1>2, <2>2 DEF BoundCounted
<1> QED BY <1>3, <1>4

LEMMA QueueCounted ==
  ASSUME TypeInv, BoundCounted, queue_unmute_for_user
  PROVE  BoundCounted'
<1>1. row \in [Chats -> Row]
  BY DEF TypeInv, TypeOK
<1>2. bound /\ bound' = bound /\ boundIn' = boundIn /\ row' = [c \in Chats |-> Queued(row[c])]
  BY DEF queue_unmute_for_user
<1>3. ASSUME NEW c \in Chats
      PROVE  /\ row'[c].state \in Releasing => row'[c].generation \in boundIn'[c]
             /\ bound' /\ row'[c].state # "NONE" => row'[c].generation \in boundIn'[c]
  <2>1. row[c] \in Row /\ row'[c] = Queued(row[c])
    BY <1>1, <1>2
  <2>2. /\ row'[c].generation = row[c].generation
        /\ row'[c].state # "NONE" => row[c].state # "NONE"
    BY <2>1, QueuedRow
  <2>3. "NONE" \notin Releasing
    BY DEF Releasing
  <2> QED BY <1>2, <2>2, <2>3 DEF BoundCounted
<1> QED BY <1>3 DEF BoundCounted

LEMMA TimesCounted ==
  ASSUME TypeInv, BoundCounted, NEW c \in Chats,
         \/ DeadlinePasses(c) \/ RetryPasses(c) \/ \E t \in Tokens : verify_token(c, t)
  PROVE  BoundCounted'
<1>1. row \in [Chats -> Row] /\ row[c] \in Row
  BY DEF TypeInv, TypeOK
<1>2. bound' = bound /\ boundIn' = boundIn
  BY DEF DeadlinePasses, RetryPasses, verify_token
<1> DEFINE due == [row[c] EXCEPT !.deadline = "reached"]
           free == [row[c] EXCEPT !.retry = "reached"]
<1>3. PICK r \in {due, free, VerifiedOf(row[c])} : row' = [row EXCEPT ![c] = r]
  BY DEF DeadlinePasses, RetryPasses, verify_token, VerifiedOf
<1>4. /\ due \in Row /\ due.state = row[c].state /\ due.generation = row[c].generation
      /\ free \in Row /\ free.state = row[c].state /\ free.generation = row[c].generation
  BY <1>1 DEF Row
<1> HIDE DEF due, free
<1>5. r \in Row /\ r.state = row[c].state /\ r.generation = row[c].generation
  BY <1>1, <1>3, <1>4, VerifiedRow
<1>6. \A d \in Chats : row'[d].state = row[d].state /\ row'[d].generation = row[d].generation
  BY <1>1, <1>3, <1>5
<1> QED BY <1>2, <1>6, StatesKept

LEMMA NextCounted ==
  ASSUME TypeInv, BoundCounted, [Next]_vars
  PROVE  BoundCounted'
<1>1. CASE Person
  <2>1. ASSUME NEW c \in Chats, (\E admin \in BOOLEAN : Joins(c, admin)) \/ Leaves(c)
        PROVE  BoundCounted'
    <3>1. row' = row /\ bound' = bound /\ boundIn' = boundIn
      BY <2>1 DEF Joins, Leaves
    <3> QED BY <3>1, StatesKept
  <2> QED BY <1>1, <2>1, TimesCounted, BindsCounted DEF Person
<1>2. CASE Clock
  BY <1>2, TimesCounted DEF Clock
<1>3. CASE queue_unmute_for_user
  BY <1>3, QueueCounted
<1>4. ASSUME NEW c \in Chats,
             Scan(c) \/ (\E p \in Handlers : Handles(p, c)) \/ (\E k \in Actions : LateLands(c, k))
      PROVE  BoundCounted'
  <2>1. CASE Scan(c) \/ (\E k \in Actions : LateLands(c, k))
    <3>1. row' = row /\ bound' = bound /\ boundIn' = boundIn
      BY <2>1 DEF Scan, LateLands
    <3> QED BY <3>1, StatesKept
  <2>2. CASE \E p \in Handlers : Handles(p, c)
    <3>1. PICK p \in Handlers : Handles(p, c)
      BY <2>2
    <3>2. p \in Runners
      BY DEF Runners
    <3>3. CASE handle_left(p, c)
      <4>1. row' = row /\ bound' = bound /\ boundIn' = boundIn
        BY <3>3 DEF handle_left
      <4> QED BY <4>1, StatesKept
    <3>4. ASSUME NEW admin \in BOOLEAN, handle_join(p, c, admin) PROVE BoundCounted'
      <4>1. TypeInv'
        BY <3>2, <3>4, HandleJoinType
      <4> QED BY <3>2, <3>4, <4>1, HandleJoinCounted
    <3> QED BY <3>1, <3>3, <3>4 DEF Handles
  <2> QED BY <1>4, <2>1, <2>2
<1>5. ASSUME NEW p \in Runners, Steps(p) \/ Unanswered(p) PROVE BoundCounted'
  <2>1. CASE Answered(p) \/ Unanswered(p)
    <3>1. row' = row /\ bound' = bound /\ boundIn' = boundIn
      BY <2>1 DEF Answered, Unanswered
    <3> QED BY <3>1, StatesKept
  <2>2. CASE claim_restriction(p) \/ claim_unmute(p) \/ claim_removal(p)
    BY <2>2, ClaimsCounted
  <2>3. CASE issue_verification_token(p)
    BY <2>3, IssueCounted
  <2>4. CASE confirm_restriction(p)
    BY <2>4, ConfirmRestrictionCounted
  <2>5. CASE \/ confirm_unmute(p) \/ confirm_removal(p) \/ fail_action(p)
             \/ mark_notification_success(p) \/ mark_notification_failure(p) \/ mark_left(p)
    BY <2>5, ResultsCounted
  <2> QED BY <1>5, <2>1, <2>2, <2>3, <2>4, <2>5 DEF Steps
<1>6. CASE Restart \/ UNCHANGED vars
  <2>1. row' = row /\ bound' = bound /\ boundIn' = boundIn
    BY <1>6 DEF Restart, vars
  <2> QED BY <2>1, StatesKept
<1> QED BY <1>1, <1>2, <1>3, <1>4, <1>5, <1>6 DEF Next

\* Nobody is released who was not bound while the membership lasted: neither by the
\* answer to a request of an earlier membership nor by a link (confirm_unmute, begin_join).
THEOREM ReleasesAreEarned == Spec => []ReleasedWereBound
<1>1. Init => TypeInv /\ BoundCounted
  <2>1. Init => BoundCounted
    BY DEF Init, BoundCounted, NoRow, Releasing
  <2> QED BY <2>1, InitType
<1>2. TypeInv /\ BoundCounted /\ [Next]_vars => TypeInv' /\ BoundCounted'
  BY NextType, NextCounted
<1>3. BoundCounted => ReleasedWereBound
  BY DEF BoundCounted, ReleasedWereBound, Releasing
<1> QED BY <1>1, <1>2, <1>3, PTL DEF Spec

-----------------------------------------------------------------------------
(* One request at a time. *)

\* p asks Telegram to restrict, release or remove the person.
Asking(p) == Calling(p) /\ runner[p].kind # "VERIFICATION_NOTIFICATION"
AskingOf(p, c) == Asking(p) /\ runner[p].chat = c /\ runner[p].generation = row[c].generation

\* In the row r the claim behind the request of p still stands: it is p's with its lease
\* running, or the row waits for a restriction that it no longer wants, or is closed.
KeptIn(p, r) ==
  \/ r.state \in Gone
  \/ /\ r.retry = "running" /\ r.attempt = p /\ r.action = runner[p].kind
     /\ \/ r.action = "RESTRICT" /\ r.state = "RESTRICT_PENDING"
        \/ r.action = "UNMUTE" /\ r.state = "UNMUTE_PENDING"
        \/ r.action = "REMOVE" /\ r.state = "REMOVE_PENDING"
  \/ /\ r.retry = "running" /\ r.attempt = None
     /\ r.state = "UNMUTE_PENDING" /\ runner[p].kind = "RESTRICT"

Behind(p) == runner[p].step # "idle" => runner[p].generation <= RowOf(p).generation
ClaimsKept == \A p \in Runners, c \in Chats : AskingOf(p, c) => KeptIn(p, row[c])

RequestInv == ClaimsKept /\ (\A p \in Runners : Behind(p)) /\ OneRequestAtATime

LEMMA GenerationsAreNumbers ==
  ASSUME TypeInv
  PROVE  /\ \A c \in Chats : row[c].generation \in Nat
         /\ \A p \in Runners : runner[p].generation \in Nat
BY DEF TypeInv, TypeOK, Row, RunnerState, Generations

\* A row that nobody's claim stands in is asked about by nobody.
LEMMA NobodyAsks ==
  ASSUME ClaimsKept, NEW c \in Chats, NEW q \in Runners, ~KeptIn(q, row[c])
  PROVE  ~AskingOf(q, c)
BY DEF ClaimsKept

\* _queue_unmute_locked keeps the lease of a restriction in flight.
LEMMA QueuedKept ==
  ASSUME NEW q \in Runners, NEW r \in Row, KeptIn(q, r)
  PROVE  KeptIn(q, Queued(r))
<1>1. q # None
  BY NoneIsNoAction
<1>2. CASE r.state \notin {"RESTRICT_PENDING", "MUTED"}
  BY <1>2 DEF Queued
<1>3. CASE r.state \in {"RESTRICT_PENDING", "MUTED"}
  <2>1. /\ r.retry = "running" /\ r.attempt = q /\ r.action = "RESTRICT"
        /\ r.state = "RESTRICT_PENDING" /\ runner[q].kind = "RESTRICT"
    BY <1>3 DEF KeptIn, Gone
  <2>2. /\ Queued(r).state = "UNMUTE_PENDING" /\ Queued(r).attempt = None
        /\ Queued(r).retry = "running"
    BY <1>1, <2>1 DEF Queued, Cleared, Row
  <2> QED BY <2>1, <2>2 DEF KeptIn
<1> QED BY <1>2, <1>3

\* A step of p that leaves it asking nothing, with rows in which the claims of the others
\* still stand, or that belong to a later generation.
LEMMA QuietStep ==
  ASSUME TypeInv, RequestInv, NEW S \in SUBSET Runners,
         \A q \in S : ~Asking(q)',
         \A q \in Runners \ S : runner'[q] = runner[q],
         \A q \in S : Behind(q)',
         \A d \in Chats :
           \/ /\ row'[d].generation = row[d].generation
              /\ \A q \in Runners \ S : AskingOf(q, d) => KeptIn(q, row'[d])
           \/ row'[d].generation = row[d].generation + 1
  PROVE  RequestInv'
<1>1. /\ \A c \in Chats : row[c].generation \in Nat
      /\ \A q \in Runners : runner[q].generation \in Nat
  BY GenerationsAreNumbers
<1>2. ASSUME NEW q \in Runners, NEW d \in Chats, AskingOf(q, d)' PROVE KeptIn(q, row[d])'
  <2>1. q \notin S /\ runner'[q] = runner[q]
    BY <1>2 DEF AskingOf
  <2>2. /\ Asking(q) /\ runner[q].chat = d /\ runner[q].step # "idle"
        /\ runner[q].generation = row'[d].generation
    BY <1>2, <2>1 DEF AskingOf, Asking, Calling
  <2>3. runner[q].generation <= row[d].generation
    BY <2>2 DEF RequestInv, Behind, RowOf
  <2>4. row'[d].generation = row[d].generation /\ KeptIn(q, row'[d])
    BY <1>1, <2>1, <2>2, <2>3 DEF AskingOf
  <2> QED BY <2>1, <2>4 DEF KeptIn
<1>3. ASSUME NEW q \in Runners PROVE Behind(q)'
  <2>1. CASE q \in S
    BY <2>1
  <2>2. CASE q \notin S
    <3>1. runner'[q] = runner[q]
      BY <2>2
    <3>2. ASSUME runner[q].step # "idle"
          PROVE  runner[q].generation <= row'[runner[q].chat].generation
      <4>1. runner[q].chat \in Chats /\ runner[q].generation <= row[runner[q].chat].generation
        BY <3>2 DEF RequestInv, Behind, RowOf, TypeInv, RunnerPlaced
      <4> QED BY <1>1, <4>1
    <3> QED BY <3>1, <3>2 DEF Behind, RowOf
  <2> QED BY <2>1, <2>2
<1>4. OneRequestAtATime'
  <2>1. \A q \in S : Calling(q)' => runner'[q].kind = "VERIFICATION_NOTIFICATION"
    BY DEF Asking
  <2> QED BY <2>1 DEF RequestInv, OneRequestAtATime, Calling
<1> QED BY <1>2, <1>3, <1>4 DEF RequestInv, ClaimsKept

\* A claim of p is granted when nobody asks anything about the row.
LEMMA GrantedClaim ==
  ASSUME TypeInv, RequestInv, NEW p \in Runners, runner[p].step = "claim",
         NEW r \in Row, Current(p), r.generation = RowOf(p).generation,
         Store(runner[p].chat, r), Calls(p), KeptIn(p, r),
         \A q \in Runners : q # p => ~KeptIn(q, RowOf(p))
  PROVE  RequestInv'
<1> DEFINE c == runner[p].chat
<1>1. /\ \A d \in Chats : row[d].generation \in Nat
      /\ \A q \in Runners : runner[q].generation \in Nat
      /\ runner \in [Runners -> RunnerState] /\ c \in Chats /\ RowOf(p) = row[c]
  BY GenerationsAreNumbers, WorkingRow DEF TypeInv, TypeOK, RowOf
<1>2. /\ row'[c] = r /\ \A d \in Chats : d # c => row'[d] = row[d]
  BY <1>1, StoredRow DEF TypeInv, TypeOK
<1>3. /\ runner'[p] = [runner[p] EXCEPT !.step = "call"]
      /\ \A q \in Runners : q # p => runner'[q] = runner[q]
  BY <1>1, SteppingRunner DEF Calls
<1>4. /\ runner'[p].chat = c /\ runner'[p].kind = runner[p].kind
      /\ runner'[p].generation = runner[p].generation /\ runner'[p].step = "call"
  <2>1. runner[p] \in RunnerState
    BY <1>1
  <2> QED BY <1>3, <2>1 DEF RunnerState
<1>5. \A d \in Chats : row'[d].generation = row[d].generation
  BY <1>1, <1>2
<1>6. ASSUME NEW q \in Runners, q # p PROVE ~AskingOf(q, c)
  <2>1. ~KeptIn(q, row[c])
    BY <1>1, <1>6
  <2> QED BY <1>1, <2>1, NobodyAsks DEF RequestInv
<1>7. ASSUME NEW q \in Runners, NEW d \in Chats, AskingOf(q, d)' PROVE KeptIn(q, row[d])'
  <2>1. CASE q = p
    <3>1. d = c
      BY <1>4, <1>7, <2>1 DEF AskingOf
    <3> QED BY <1>2, <1>4, <2>1, <3>1 DEF KeptIn
  <2>2. CASE q # p
    <3>1. runner'[q] = runner[q]
      BY <1>3, <2>2
    <3>2. AskingOf(q, d)
      BY <1>5, <1>7, <3>1 DEF AskingOf, Asking, Calling
    <3>3. d # c
      BY <1>6, <2>2, <3>2
    <3>4. row'[d] = row[d] /\ KeptIn(q, row[d])
      BY <1>2, <3>2, <3>3 DEF RequestInv, ClaimsKept
    <3> QED BY <3>1, <3>4 DEF KeptIn
  <2> QED BY <2>1, <2>2
<1>8. ASSUME NEW q \in Runners PROVE Behind(q)'
  <2>1. CASE q = p
    <3>1. runner'[p].generation = row'[c].generation
      BY <1>1, <1>4, <1>5 DEF Current
    <3>2. PICK n \in Nat : runner'[p].generation = n
      BY <1>1, <1>4
    <3>3. row'[runner'[p].chat].generation = n
      BY <1>4, <3>1, <3>2
    <3> QED BY <2>1, <3>2, <3>3 DEF Behind, RowOf
  <2>2. CASE q # p
    <3>1. runner'[q] = runner[q]
      BY <1>3, <2>2
    <3>2. ASSUME runner[q].step # "idle"
          PROVE  runner[q].generation <= row'[runner[q].chat].generation
      <4>1. runner[q].chat \in Chats /\ runner[q].generation <= row[runner[q].chat].generation
        BY <3>2 DEF RequestInv, Behind, RowOf, TypeInv, RunnerPlaced
      <4> QED BY <1>5, <4>1
    <3> QED BY <3>1, <3>2 DEF Behind, RowOf
  <2> QED BY <2>1, <2>2
<1>9. ASSUME NEW q \in Runners, q # p, Asking(q)',
             runner'[q].chat = runner'[p].chat, runner'[q].generation = runner'[p].generation
      PROVE  FALSE
  <2>1. runner'[q] = runner[q]
    BY <1>3, <1>9
  <2>2. runner[q].chat = c /\ runner[q].generation = row[c].generation /\ Asking(q)
    BY <1>1, <1>4, <1>9, <2>1 DEF Current, Asking, Calling
  <2> QED BY <1>6, <1>9, <2>2 DEF AskingOf
<1>10. OneRequestAtATime'
  <2> SUFFICES ASSUME NEW q \in Runners, NEW s \in Runners, q # s, Calling(q)', Calling(s)',
                      runner'[q].chat = runner'[s].chat,
                      runner'[q].generation = runner'[s].generation,
                      runner'[q].kind # "VERIFICATION_NOTIFICATION",
                      runner'[s].kind # "VERIFICATION_NOTIFICATION"
               PROVE  FALSE
    BY DEF OneRequestAtATime
  <2>1. Asking(q)' /\ Asking(s)'
    BY DEF Asking
  <2>2. CASE q = p \/ s = p
    BY <1>9, <2>1, <2>2
  <2>3. CASE q # p /\ s # p
    <3>1. runner'[q] = runner[q] /\ runner'[s] = runner[s]
      BY <1>3, <2>3
    <3> QED BY <3>1 DEF RequestInv, OneRequestAtATime, Calling
  <2> QED BY <2>2, <2>3
<1> QED BY <1>7, <1>8, <1>10 DEF RequestInv, ClaimsKept

\* p rests or goes on to something that asks nothing; its row becomes r.
LEMMA QuietRunner ==
  ASSUME TypeInv, RequestInv, NEW p \in Runners, NEW c \in Chats, NEW r \in Row,
         r.generation = row[c].generation, row' = [row EXCEPT ![c] = r],
         \A q \in Runners : AskingOf(q, c) /\ q # p => KeptIn(q, r),
         \A q \in Runners : q # p => runner'[q] = runner[q],
         ~Asking(p)', Behind(p)'
  PROVE  RequestInv'
<1>1. row \in [Chats -> Row]
  BY DEF TypeInv, TypeOK
<1>2. row'[c] = r /\ \A d \in Chats : d # c => row'[d] = row[d]
  BY <1>1
<1>3. ASSUME NEW d \in Chats
      PROVE  /\ row'[d].generation = row[d].generation
             /\ \A q \in Runners \ {p} : AskingOf(q, d) => KeptIn(q, row'[d])
  <2>1. CASE d = c
    BY <1>2, <2>1
  <2>2. CASE d # c
    BY <1>2, <2>2 DEF RequestInv, ClaimsKept
  <2> QED BY <2>1, <2>2
<1>4. {p} \in SUBSET Runners
  OBVIOUS
<1>5. \A q \in {p} : ~Asking(q)' /\ Behind(q)'
  OBVIOUS
<1>6. \A q \in Runners \ {p} : runner'[q] = runner[q]
  OBVIOUS
<1> QED BY <1>3, <1>4, <1>5, <1>6, QuietStep

LEMMA IdleQuiet ==
  ASSUME NEW p \in Runners, runner'[p] = Idle
  PROVE  ~Asking(p)' /\ Behind(p)'
BY DEF Asking, Calling, Behind, Idle

LEMMA RefusedKept ==
  ASSUME TypeInv, RequestInv, NEW p \in Runners, runner[p].step # "idle",
         NEW r \in Row, r.generation = RowOf(p).generation, Refused(p, r),
         \A q \in Runners : AskingOf(q, runner[p].chat) /\ q # p => KeptIn(q, r)
  PROVE  RequestInv'
<1> DEFINE c == runner[p].chat
<1>1. c \in Chats /\ runner \in [Runners -> RunnerState] /\ r.generation = row[c].generation
  BY WorkingRow DEF TypeInv, TypeOK, RowOf
<1>2. row' = [row EXCEPT ![c] = r] /\ Rests(p)
  BY DEF Refused, Store
<1>3. /\ runner'[p] = Idle
      /\ \A q \in Runners : q # p => runner'[q] = runner[q]
  BY <1>1, <1>2, RestingRunner
<1>4. ~Asking(p)' /\ Behind(p)'
  BY <1>3, IdleQuiet
<1>5. \A q \in Runners : AskingOf(q, c) /\ q # p => KeptIn(q, r)
  OBVIOUS
<1> HIDE DEF c
<1> QED BY <1>1, <1>2, <1>3, <1>4, <1>5, QuietRunner

\* What the others ask stands in a row that does not change or is queued, and none of
\* them asks anything about a row of which they hold no claim.
LEMMA OthersKept ==
  ASSUME TypeInv, RequestInv, NEW c \in Chats, NEW q \in Runners, AskingOf(q, c)
  PROVE  KeptIn(q, row[c]) /\ KeptIn(q, Queued(row[c])) /\ KeptIn(q, Left(row[c]))
<1>1. row[c] \in Row /\ KeptIn(q, row[c])
  BY DEF RequestInv, ClaimsKept, TypeInv, TypeOK
<1>2. KeptIn(q, Queued(row[c]))
  BY <1>1, QueuedKept
<1>3. KeptIn(q, Left(row[c]))
  BY <1>1, LeftRow DEF KeptIn
<1> QED BY <1>1, <1>2, <1>3

\* The three rows that a refused claim may leave.
LEMMA RefusedPlain ==
  ASSUME TypeInv, RequestInv, NEW p \in Runners, runner[p].step # "idle",
         \/ Refused(p, RowOf(p)) \/ Refused(p, Queued(RowOf(p))) \/ Refused(p, Left(RowOf(p)))
  PROVE  RequestInv'
<1> DEFINE c == runner[p].chat
<1>1. c \in Chats /\ RowOf(p) \in Row /\ RowOf(p) = row[c]
  BY WorkingRow DEF RowOf
<1>2. /\ Queued(RowOf(p)) \in Row /\ Queued(RowOf(p)).generation = RowOf(p).generation
      /\ Left(RowOf(p)) \in Row /\ Left(RowOf(p)).generation = RowOf(p).generation
  BY <1>1, QueuedRow, LeftRow
<1>3. \A q \in Runners : AskingOf(q, c) =>
        /\ KeptIn(q, RowOf(p)) /\ KeptIn(q, Queued(RowOf(p))) /\ KeptIn(q, Left(RowOf(p)))
  <2> HIDE DEF c
  <2> QED BY <1>1, OthersKept
<1>4. PICK r \in {RowOf(p), Queued(RowOf(p)), Left(RowOf(p))} : Refused(p, r)
  OBVIOUS
<1>5. /\ r \in Row /\ r.generation = RowOf(p).generation
      /\ \A q \in Runners : AskingOf(q, c) /\ q # p => KeptIn(q, r)
  BY <1>1, <1>2, <1>3, <1>4
<1> QED BY <1>4, <1>5, RefusedKept

\* A claim that somebody else may still answer to.
LEMMA KeptRunning ==
  ASSUME NEW q \in Runners, NEW r \in Row, KeptIn(q, r)
  PROVE  /\ r.state \in Gone \/ r.retry = "running"
         /\ r.attempt = None => r.state \in Gone \cup {"UNMUTE_PENDING"}
         /\ r.state \in Gone \cup {"RESTRICT_PENDING", "UNMUTE_PENDING", "REMOVE_PENDING"}
         /\ r.state \in Gone \cup {"UNMUTE_PENDING"} \/ (r.attempt = q /\ r.action \in {"RESTRICT", "REMOVE"})
<1>1. q # None
  BY NoneIsNoAction
<1> QED BY <1>1 DEF KeptIn

LEMMA ClaimedFields ==
  ASSUME NEW r \in Row, NEW p \in Runners, NEW k \in Actions
  PROVE  /\ Claimed(r, p, k).action = k /\ Claimed(r, p, k).attempt = p
         /\ Claimed(r, p, k).retry = "running"
BY DEF Claimed, Row

LEMMA ClaimRestrictionKept ==
  ASSUME TypeInv, RequestInv, NEW p \in Runners, claim_restriction(p)
  PROVE  RequestInv'
<1> DEFINE r == RowOf(p)
<1>1. runner[p].step = "claim" /\ runner[p].kind = "RESTRICT"
  BY DEF claim_restriction, Claiming
<1>2. r \in Row
  BY <1>1, WorkingRow
<1>3. \/ Refused(p, r) \/ Refused(p, Queued(r))
      \/ /\ Current(p) /\ r.state = "RESTRICT_PENDING"
         /\ r.attempt = None \/ r.retry # "running"
         /\ Store(runner[p].chat, Claimed(r, p, "RESTRICT")) /\ Calls(p)
  BY DEF claim_restriction, RetryReached
<1>4. CASE Refused(p, r) \/ Refused(p, Queued(r))
  BY <1>1, <1>4, RefusedPlain
<1>5. CASE /\ Current(p) /\ r.state = "RESTRICT_PENDING"
           /\ r.attempt = None \/ r.retry # "running"
           /\ Store(runner[p].chat, Claimed(r, p, "RESTRICT")) /\ Calls(p)
  <2>1. /\ Claimed(r, p, "RESTRICT") \in Row
        /\ Claimed(r, p, "RESTRICT").generation = r.generation
        /\ Claimed(r, p, "RESTRICT").state = r.state
        /\ Claimed(r, p, "RESTRICT").action = "RESTRICT"
        /\ Claimed(r, p, "RESTRICT").attempt = p
        /\ Claimed(r, p, "RESTRICT").retry = "running"
    BY <1>2, ClaimedRow, ClaimedFields DEF Actions
  <2>2. KeptIn(p, Claimed(r, p, "RESTRICT"))
    BY <1>1, <1>5, <2>1 DEF KeptIn
  <2>3. \A q \in Runners : q # p => ~KeptIn(q, RowOf(p))
    <3>1. ASSUME NEW q \in Runners PROVE ~KeptIn(q, r)
      BY <1>2, <1>5, KeptRunning DEF Gone
    <3> QED BY <3>1
  <2> QED BY <1>1, <1>5, <2>1, <2>2, <2>3, GrantedClaim
<1> QED BY <1>3, <1>4, <1>5

LEMMA ClaimUnmuteKept ==
  ASSUME TypeInv, RequestInv, NEW p \in Runners, claim_unmute(p)
  PROVE  RequestInv'
<1> DEFINE r == Queued(RowOf(p))
<1>1. runner[p].step = "claim" /\ runner[p].kind = "UNMUTE"
  BY DEF claim_unmute, Claiming
<1>2. RowOf(p) \in Row
  BY <1>1, WorkingRow
<1>3. r \in Row /\ r.generation = RowOf(p).generation
  BY <1>2, QueuedRow
<1>4. r = IF RowOf(p).state \in {"RESTRICT_PENDING", "MUTED"} THEN Queued(RowOf(p)) ELSE RowOf(p)
  BY DEF Queued
<1>5. \/ Refused(p, RowOf(p)) \/ Refused(p, r)
      \/ /\ Current(p) /\ r.state = "UNMUTE_PENDING" /\ r.retry # "running"
         /\ Store(runner[p].chat, Claimed(r, p, "UNMUTE")) /\ Calls(p)
  BY <1>4 DEF claim_unmute, RetryReached
<1>6. CASE Refused(p, RowOf(p)) \/ Refused(p, r)
  BY <1>1, <1>6, RefusedPlain
<1>7. CASE /\ Current(p) /\ r.state = "UNMUTE_PENDING" /\ r.retry # "running"
           /\ Store(runner[p].chat, Claimed(r, p, "UNMUTE")) /\ Calls(p)
  <2>1. ASSUME NEW q \in Runners PROVE ~KeptIn(q, RowOf(p))
    <3>1. ~KeptIn(q, r)
      <4> HIDE DEF r
      <4> QED BY <1>3, <1>7, KeptRunning DEF Gone
    <3> QED BY <1>2, <3>1, QueuedKept
  <2> HIDE DEF r
  <2>2. /\ Claimed(r, p, "UNMUTE") \in Row
        /\ Claimed(r, p, "UNMUTE").generation = RowOf(p).generation
        /\ Claimed(r, p, "UNMUTE").state = r.state
        /\ Claimed(r, p, "UNMUTE").action = "UNMUTE"
        /\ Claimed(r, p, "UNMUTE").attempt = p
        /\ Claimed(r, p, "UNMUTE").retry = "running"
    BY <1>3, ClaimedRow, ClaimedFields DEF Actions
  <2>3. KeptIn(p, Claimed(r, p, "UNMUTE"))
    BY <1>1, <1>7, <2>2 DEF KeptIn
  <2> QED BY <1>1, <1>7, <2>1, <2>2, <2>3, GrantedClaim
<1> QED BY <1>5, <1>6, <1>7

LEMMA ClaimRemovalKept ==
  ASSUME TypeInv, RequestInv, NEW p \in Runners, claim_removal(p)
  PROVE  RequestInv'
<1> DEFINE r == RowOf(p)
<1>1. runner[p].step = "claim" /\ runner[p].kind = "REMOVE"
  BY DEF claim_removal, Claiming
<1>2. r \in Row
  BY <1>1, WorkingRow
<1>3. \/ Refused(p, r) \/ Refused(p, Queued(r))
      \/ /\ Current(p) /\ r.state \in {"RESTRICT_PENDING", "MUTED", "REMOVE_PENDING"}
         /\ r.attempt = None \/ r.retry # "running" \/ r.action = "VERIFICATION_NOTIFICATION"
         /\ Store(runner[p].chat, RemovalOf(r, p)) /\ Calls(p)
  BY DEF claim_removal, RetryReached, RemovalOf
<1>4. CASE Refused(p, r) \/ Refused(p, Queued(r))
  BY <1>1, <1>4, RefusedPlain
<1>5. CASE /\ Current(p) /\ r.state \in {"RESTRICT_PENDING", "MUTED", "REMOVE_PENDING"}
           /\ r.attempt = None \/ r.retry # "running" \/ r.action = "VERIFICATION_NOTIFICATION"
           /\ Store(runner[p].chat, RemovalOf(r, p)) /\ Calls(p)
  <2>1. /\ RemovalOf(r, p) \in Row /\ RemovalOf(r, p).generation = r.generation
        /\ KeptIn(p, RemovalOf(r, p))
    BY <1>1, <1>2, RemovalRow DEF KeptIn
  <2>2. \A q \in Runners : q # p => ~KeptIn(q, RowOf(p))
    <3>1. ASSUME NEW q \in Runners PROVE ~KeptIn(q, r)
      BY <1>2, <1>5, KeptRunning DEF Gone
    <3> QED BY <3>1
  <2> QED BY <1>1, <1>5, <2>1, <2>2, GrantedClaim
<1> QED BY <1>3, <1>4, <1>5

LEMMA IssueKept ==
  ASSUME TypeInv, RequestInv, NEW p \in Runners, issue_verification_token(p)
  PROVE  RequestInv'
<1> DEFINE c == runner[p].chat
           t == tokens[c] + 1
           r == [RowOf(p) EXCEPT !.action = "VERIFICATION_NOTIFICATION", !.retry = "running",
                                 !.token = t, !.verified = FALSE]
           working == [runner[p] EXCEPT !.step = "call", !.token = t]
<1>1. runner[p].step = "claim" /\ runner[p].kind = "VERIFICATION_NOTIFICATION"
  BY DEF issue_verification_token, Claiming
<1>2. /\ c \in Chats /\ RowOf(p) \in Row /\ RowOf(p) = row[c] /\ runner[p] \in RunnerState
      /\ runner \in [Runners -> RunnerState] /\ tokens \in [Chats -> 0 .. MaxTokens]
  BY <1>1, WorkingRow DEF RowOf, TypeInv, TypeOK
<1>3. CASE Refused(p, RowOf(p))
  BY <1>1, <1>3, RefusedPlain
<1>4. CASE /\ RowOf(p).state = "MUTED" /\ tokens[c] < MaxTokens /\ Store(c, r)
           /\ runner' = [runner EXCEPT ![p].step = "call", ![p].token = t]
  <2>1. t \in Tokens
    BY <1>2, <1>4, BoundsAreNumbers DEF Tokens
  <2> HIDE DEF t
  <2>2. r \in Row /\ r.generation = row[c].generation
    BY <1>2, <2>1 DEF Row, Actions
  <2>3. /\ working.chat = c /\ working.kind = "VERIFICATION_NOTIFICATION"
        /\ working.generation = runner[p].generation
    BY <1>1, <1>2 DEF RunnerState
  <2>4. runner' = [runner EXCEPT ![p] = working]
    BY <1>4
  <2> HIDE DEF r, working
  <2>5. runner'[p] = working /\ \A q \in Runners : q # p => runner'[q] = runner[q]
    BY <1>2, <2>4
  <2>6. ~Asking(p)'
    BY <2>3, <2>5 DEF Asking
  <2>7. row' = [row EXCEPT ![c] = r]
    BY <1>4 DEF Store
  <2>8. Behind(p)'
    <3>1. row'[c].generation = row[c].generation
      BY <1>2, <2>2, <2>7 DEF TypeInv, TypeOK
    <3>2. runner[p].generation <= row[c].generation
      BY <1>1 DEF RequestInv, Behind, RowOf
    <3> HIDE DEF c
    <3> QED BY <2>3, <2>5, <3>1, <3>2 DEF Behind, RowOf
  <2>9. \A q \in Runners : AskingOf(q, c) /\ q # p => KeptIn(q, r)
    <3>1. ASSUME NEW q \in Runners PROVE ~AskingOf(q, c)
      <4>1. ~KeptIn(q, row[c])
        BY <1>2, <1>4, KeptRunning DEF Gone
      <4> HIDE DEF c
      <4> QED BY <1>2, <4>1, NobodyAsks DEF RequestInv
    <3> QED BY <3>1
  <2> HIDE DEF c
  <2> QED BY <1>2, <2>2, <2>5, <2>6, <2>7, <2>8, <2>9, QuietRunner
<1> QED BY <1>3, <1>4 DEF issue_verification_token

\* A runner that starts to work on a row it has just read.
LEMMA StartedQuiet ==
  ASSUME runner \in [Runners -> RunnerState], NEW p \in Runners, NEW c \in Chats,
         NEW r \in Row, NEW kinds \in SUBSET Actions, runner' = Started(p, c, r, kinds),
         row'[c].generation = r.generation
  PROVE  /\ ~Asking(p)' /\ Behind(p)'
         /\ \A q \in Runners : q # p => runner'[q] = runner[q]
<1>1. /\ \A q \in Runners : q # p => runner'[q] = runner[q]
      /\ \/ runner'[p] = Idle
         \/ /\ runner'[p].chat = c /\ runner'[p].generation = r.generation
            /\ runner'[p].step = "claim"
  BY StartedRunner
<1>2. CASE runner'[p] = Idle
  BY <1>1, <1>2, IdleQuiet
<1>3. CASE /\ runner'[p].chat = c /\ runner'[p].generation = r.generation
           /\ runner'[p].step = "claim"
  <2>1. ~Asking(p)'
    BY <1>3 DEF Asking, Calling
  <2>2. PICK n \in Nat : r.generation = n
    BY DEF Row, Generations
  <2>3. runner'[p].generation = n /\ row'[runner'[p].chat].generation = n
    BY <1>3, <2>2
  <2>4. Behind(p)'
    BY <2>2, <2>3 DEF Behind, RowOf
  <2> QED BY <1>1, <2>1, <2>4
<1> QED BY <1>1, <1>2, <1>3

LEMMA ConfirmRestrictionKept ==
  ASSUME TypeInv, RequestInv, NEW p \in Runners, confirm_restriction(p)
  PROVE  RequestInv'
<1> DEFINE c == runner[p].chat
           r == RowOf(p)
           muted == [Cleared(r) EXCEPT !.state = "MUTED"]
           queued == [Queued(r) EXCEPT !.retry = "none"]
<1>1. runner[p].step = "done"
  BY DEF confirm_restriction, Settling
<1>2. /\ c \in Chats /\ r \in Row /\ r = row[c] /\ runner \in [Runners -> RunnerState]
      /\ row \in [Chats -> Row]
  BY <1>1, WorkingRow DEF RowOf, TypeInv, TypeOK
<1>3. \/ Holds(p, "RESTRICT_PENDING") /\ Refused(p, queued)
      \/ /\ Holds(p, "RESTRICT_PENDING") /\ Store(c, muted)
         /\ runner' = Started(p, c, muted, NotifyDue(muted))
      \/ row' = row /\ runner' = Started(p, c, r, NotifyDue(r))
      \/ Refused(p, r)
  BY DEF confirm_restriction, Refused
<1>4. queued \in Row /\ queued.generation = r.generation
  <2>1. Queued(r) \in Row /\ Queued(r).generation = r.generation
    BY <1>2, QueuedRow
  <2> QED BY <2>1 DEF Row
<1>5. muted \in Row /\ muted.generation = r.generation
  <2>1. Cleared(r) \in Row /\ Cleared(r).generation = r.generation
    BY <1>2, ClearedRow
  <2> QED BY <2>1 DEF Row, Waiting
<1>6. ASSUME Holds(p, "RESTRICT_PENDING"), NEW q \in Runners, q # p
      PROVE  ~AskingOf(q, c)
  <2>1. r.state = "RESTRICT_PENDING" /\ r.attempt = p
    BY <1>6 DEF Holds
  <2>2. ~KeptIn(q, r)
    <3> HIDE DEF r
    <3> QED BY <1>2, <1>6, <2>1, KeptRunning DEF Gone
  <2> HIDE DEF c, r
  <2> QED BY <1>2, <2>2, NobodyAsks DEF RequestInv
<1>7. CASE Holds(p, "RESTRICT_PENDING") /\ Refused(p, queued)
  <2>1. \A q \in Runners : AskingOf(q, c) /\ q # p => KeptIn(q, queued)
    BY <1>6, <1>7
  <2> HIDE DEF queued
  <2> QED BY <1>1, <1>4, <1>7, <2>1, RefusedKept
<1>8. CASE /\ Holds(p, "RESTRICT_PENDING") /\ Store(c, muted)
           /\ runner' = Started(p, c, muted, NotifyDue(muted))
  <2>1. \A q \in Runners : AskingOf(q, c) /\ q # p => KeptIn(q, muted)
    BY <1>6, <1>8
  <2> HIDE DEF muted, c, r
  <2>2. row' = [row EXCEPT ![c] = muted] /\ NotifyDue(muted) \in SUBSET Actions
    BY <1>8, DueKinds DEF Store
  <2>3. row'[c] = muted
    BY <1>2, <2>2
  <2>4. /\ ~Asking(p)' /\ Behind(p)'
        /\ \A q \in Runners : q # p => runner'[q] = runner[q]
    BY <1>2, <1>5, <1>8, <2>2, <2>3, StartedQuiet
  <2>5. muted.generation = row[c].generation
    BY <1>2, <1>5
  <2> QED BY <1>2, <1>5, <2>1, <2>2, <2>4, <2>5, QuietRunner
<1>9. CASE row' = row /\ runner' = Started(p, c, r, NotifyDue(r))
  <2>1. NotifyDue(r) \in SUBSET Actions
    BY DueKinds
  <2> HIDE DEF c, r
  <2>2. /\ ~Asking(p)' /\ Behind(p)'
        /\ \A q \in Runners : q # p => runner'[q] = runner[q]
    BY <1>2, <1>9, <2>1, StartedQuiet
  <2>3. row' = [row EXCEPT ![c] = r] /\ r.generation = row[c].generation
    BY <1>2, <1>9
  <2>4. \A q \in Runners : AskingOf(q, c) /\ q # p => KeptIn(q, r)
    BY <1>2, OthersKept
  <2> QED BY <1>2, <2>2, <2>3, <2>4, QuietRunner
<1>10. CASE Refused(p, r)
  BY <1>1, <1>10, RefusedPlain
<1> QED BY <1>3, <1>7, <1>8, <1>9, <1>10

\* Results change a row only for the holder of its claim or of its link.
LEMMA ResultsKept ==
  ASSUME TypeInv, RequestInv, NEW p \in Runners,
         \/ confirm_unmute(p) \/ confirm_removal(p) \/ fail_action(p)
         \/ mark_notification_success(p) \/ mark_notification_failure(p) \/ mark_left(p)
  PROVE  RequestInv'
<1> DEFINE c == runner[p].chat
           r == RowOf(p)
           failed == [r EXCEPT !.attempt = None, !.retry = "running"]
           notified == [r EXCEPT !.action = None, !.retry = "none"]
           again == [r EXCEPT !.token = None, !.verified = FALSE, !.retry = "running"]
<1>1. runner[p].step \in {"done", "failed", "absent"}
  BY DEF confirm_unmute, confirm_removal, fail_action, mark_notification_success,
     mark_notification_failure, mark_left, Settling
<1>2. c \in Chats /\ r \in Row /\ r = row[c]
  BY <1>1, WorkingRow DEF RowOf
<1>3. \/ Refused(p, r) \/ Refused(p, Left(r))
      \/ /\ \E s \in {"RESTRICT_PENDING", "UNMUTE_PENDING", "REMOVE_PENDING"} : Holds(p, s)
         /\ Refused(p, RemovedOf(r)) \/ Refused(p, ReleasedOf(r)) \/ Refused(p, failed)
      \/ Notified(p) /\ (Refused(p, notified) \/ Refused(p, again))
  BY DEF confirm_unmute, confirm_removal, fail_action, mark_notification_success,
     mark_notification_failure, mark_left, ReleasedOf, RemovedOf
<1>4. /\ failed \in Row /\ failed.generation = r.generation
      /\ notified \in Row /\ notified.generation = r.generation
      /\ again \in Row /\ again.generation = r.generation
  BY <1>2 DEF Row
<1>5. /\ ReleasedOf(r) \in Row /\ ReleasedOf(r).generation = r.generation
      /\ RemovedOf(r) \in Row /\ RemovedOf(r).generation = r.generation
  BY <1>2, SettledRow
<1> HIDE DEF failed, notified, again
<1>6. CASE Refused(p, r) \/ Refused(p, Left(r))
  BY <1>1, <1>6, RefusedPlain
<1>7. ASSUME NEW s \in Row, s.generation = r.generation, Refused(p, s),
             \A q \in Runners : q # p => ~KeptIn(q, r)
      PROVE  RequestInv'
  <2>1. ASSUME NEW q \in Runners, q # p PROVE ~AskingOf(q, c)
    <3>1. ~KeptIn(q, row[c])
      BY <1>2, <1>7, <2>1
    <3> HIDE DEF c
    <3> QED BY <1>2, <3>1, NobodyAsks DEF RequestInv
  <2>2. \A q \in Runners : AskingOf(q, c) /\ q # p => KeptIn(q, s)
    BY <2>1
  <2> QED BY <1>1, <1>7, <2>2, RefusedKept
<1>8. ASSUME NEW s \in {"RESTRICT_PENDING", "UNMUTE_PENDING", "REMOVE_PENDING"}, Holds(p, s),
             NEW q \in Runners, q # p
      PROVE  ~KeptIn(q, r)
  <2>1. r.state = s /\ r.attempt = p /\ p # None
    BY <1>8, NoneIsNoAction DEF Holds
  <2> HIDE DEF r
  <2> QED BY <1>8, <2>1 DEF KeptIn, Gone
<1>9. ASSUME Notified(p), NEW q \in Runners PROVE ~KeptIn(q, r)
  <2>1. r.state = "MUTED"
    BY <1>9 DEF Notified
  <2> HIDE DEF r
  <2> QED BY <2>1 DEF KeptIn, Gone
<1>10. CASE /\ \E s \in {"RESTRICT_PENDING", "UNMUTE_PENDING", "REMOVE_PENDING"} : Holds(p, s)
            /\ Refused(p, RemovedOf(r)) \/ Refused(p, ReleasedOf(r)) \/ Refused(p, failed)
  <2>1. \A q \in Runners : q # p => ~KeptIn(q, r)
    BY <1>8, <1>10
  <2> QED BY <1>4, <1>5, <1>7, <1>10, <2>1
<1>11. CASE Notified(p) /\ (Refused(p, notified) \/ Refused(p, again))
  BY <1>4, <1>7, <1>9, <1>11
<1> QED BY <1>3, <1>6, <1>10, <1>11

\* Rows change without a runner: every row keeps its generation and what is asked stands.
LEMMA RowsStep ==
  ASSUME TypeInv, RequestInv, runner' = runner,
         \A d \in Chats :
           /\ row'[d].generation = row[d].generation
           /\ \A q \in Runners : AskingOf(q, d) => KeptIn(q, row'[d])
  PROVE  RequestInv'
<1>1. {} \in SUBSET Runners /\ \A q \in Runners \ {} : runner'[q] = runner[q]
  OBVIOUS
<1>2. \A d \in Chats :
        /\ row'[d].generation = row[d].generation
        /\ \A q \in Runners \ {} : AskingOf(q, d) => KeptIn(q, row'[d])
  OBVIOUS
<1>3. \A q \in {} : ~Asking(q)' /\ Behind(q)'
  OBVIOUS
<1> QED BY <1>1, <1>2, <1>3, QuietStep

LEMMA NothingChanges ==
  ASSUME RequestInv, row' = row, runner' = runner
  PROVE  RequestInv'
BY DEF RequestInv, ClaimsKept, AskingOf, Asking, Calling, KeptIn, Behind, RowOf, OneRequestAtATime

LEMMA AnswersKept ==
  ASSUME TypeInv, RequestInv, NEW p \in Runners, Answered(p) \/ Unanswered(p)
  PROVE  RequestInv'
<1>1. /\ runner \in [Runners -> RunnerState] /\ row' = row /\ runner[p].step = "call"
      /\ \E step \in {"done", "failed", "absent"} : runner' = [runner EXCEPT ![p].step = step]
  BY DEF Answered, Unanswered, TypeInv, TypeOK, Calling
<1>2. PICK step \in {"done", "failed", "absent"} : runner' = [runner EXCEPT ![p].step = step]
  BY <1>1
<1>3. /\ runner'[p] = [runner[p] EXCEPT !.step = step]
      /\ \A q \in Runners : q # p => runner'[q] = runner[q]
  BY <1>1, <1>2, SteppingRunner
<1>4. /\ runner'[p].step = step /\ runner'[p].chat = runner[p].chat
      /\ runner'[p].generation = runner[p].generation
  <2>1. runner[p] \in RunnerState
    BY <1>1
  <2> QED BY <1>3, <2>1 DEF RunnerState
<1>5. ~Asking(p)'
  BY <1>2, <1>4 DEF Asking, Calling
<1>6. Behind(p)'
  BY <1>1, <1>4 DEF RequestInv, Behind, RowOf
<1>7. \A d \in Chats :
        /\ row'[d].generation = row[d].generation
        /\ \A q \in Runners \ {p} : AskingOf(q, d) => KeptIn(q, row'[d])
  BY <1>1 DEF RequestInv, ClaimsKept
<1>8. /\ {p} \in SUBSET Runners /\ \A q \in {p} : ~Asking(q)' /\ Behind(q)'
      /\ \A q \in Runners \ {p} : runner'[q] = runner[q]
  BY <1>3, <1>5, <1>6
<1> QED BY <1>7, <1>8, QuietStep

LEMMA ScanKept ==
  ASSUME TypeInv, RequestInv, NEW c \in Chats, Scan(c)
  PROVE  RequestInv'
<1>1. /\ runner \in [Runners -> RunnerState] /\ row' = row /\ row[c] \in Row
      /\ row \in [Chats -> Row]
  BY DEF Scan, TypeInv, TypeOK
<1>2. /\ Worker \in Runners /\ Due(row[c]) \in SUBSET Actions
      /\ runner' = Started(Worker, c, row[c], Due(row[c]))
  BY NoneIsNoAction, DueKinds DEF Scan
<1>3. /\ ~Asking(Worker)' /\ Behind(Worker)'
      /\ \A q \in Runners : q # Worker => runner'[q] = runner[q]
  BY <1>1, <1>2, StartedQuiet
<1>4. row' = [row EXCEPT ![c] = row[c]]
  BY <1>1
<1>5. \A q \in Runners : AskingOf(q, c) /\ q # Worker => KeptIn(q, row[c])
  BY OthersKept
<1> QED BY <1>1, <1>2, <1>3, <1>4, <1>5, QuietRunner

LEMMA HandleJoinKept ==
  ASSUME TypeInv, RequestInv, TypeInv', NEW p \in Runners, NEW c \in Chats,
         NEW admin \in BOOLEAN, handle_join(p, c, admin)
  PROVE  RequestInv'
<1> DEFINE r == Joined(row[c], admin)
<1>1. /\ runner \in [Runners -> RunnerState] /\ row \in [Chats -> Row] /\ row' \in [Chats -> Row]
  BY DEF TypeInv, TypeOK
<1>2. row' = [row EXCEPT ![c] = r] /\ runner' = Started(p, c, row'[c], Due(row'[c]))
  BY DEF handle_join, Store
<1>3. row'[c] = r /\ \A d \in Chats : d # c => row'[d] = row[d]
  BY <1>1, <1>2
<1>4. r \in Row
  BY <1>1, <1>3
<1>5. r = row[c] \/ r.generation = row[c].generation + 1
  BY DEF Joined, NoRow
<1> HIDE DEF r
<1>6. /\ ~Asking(p)' /\ Behind(p)'
      /\ \A q \in Runners : q # p => runner'[q] = runner[q]
  <2>1. runner' = Started(p, c, r, Due(r)) /\ Due(r) \in SUBSET Actions
    BY <1>2, <1>3, DueKinds
  <2>2. row'[c].generation = r.generation
    BY <1>3
  <2> QED BY <1>1, <1>4, <2>1, <2>2, StartedQuiet
<1>7. ASSUME NEW d \in Chats
      PROVE  \/ /\ row'[d].generation = row[d].generation
                /\ \A q \in Runners \ {p} : AskingOf(q, d) => KeptIn(q, row'[d])
             \/ row'[d].generation = row[d].generation + 1
  <2>1. CASE d = c /\ r # row[c]
    BY <1>3, <1>5, <2>1
  <2>2. CASE d # c \/ r = row[c]
    <3>1. row'[d] = row[d]
      BY <1>3, <2>2
    <3> QED BY <3>1 DEF RequestInv, ClaimsKept
  <2> QED BY <2>1, <2>2
<1>8. /\ {p} \in SUBSET Runners /\ \A q \in {p} : ~Asking(q)' /\ Behind(q)'
      /\ \A q \in Runners \ {p} : runner'[q] = runner[q]
  BY <1>6
<1> QED BY <1>7, <1>8, QuietStep

LEMMA HandleLeftKept ==
  ASSUME TypeInv, RequestInv, NEW p \in Runners, NEW c \in Chats, handle_left(p, c)
  PROVE  RequestInv'
<1>1. /\ runner \in [Runners -> RunnerState] /\ row \in [Chats -> Row] /\ row' = row
      /\ row[c] \in Row
  BY DEF handle_left, TypeInv, TypeOK
<1>2. CASE runner' = runner
  BY <1>1, <1>2, NothingChanges
<1>3. CASE runner' = [runner EXCEPT ![p] = AbsentFrom(c)]
  <2>1. runner'[p] = AbsentFrom(c) /\ \A q \in Runners : q # p => runner'[q] = runner[q]
    BY <1>1, <1>3
  <2>2. /\ AbsentFrom(c).step = "absent" /\ AbsentFrom(c).chat = c
        /\ AbsentFrom(c).generation = row[c].generation
    BY <1>1, AbsentRunner
  <2>3. ~Asking(p)'
    BY <2>1, <2>2 DEF Asking, Calling
  <2>4. PICK n \in Nat : row[c].generation = n
    BY GenerationsAreNumbers
  <2>5. runner'[p].generation = n /\ row'[runner'[p].chat].generation = n
    BY <1>1, <2>1, <2>2, <2>4
  <2>6. Behind(p)'
    BY <2>4, <2>5 DEF Behind, RowOf
  <2>7. row' = [row EXCEPT ![c] = row[c]]
    BY <1>1
  <2>8. \A q \in Runners : AskingOf(q, c) /\ q # p => KeptIn(q, row[c])
    BY OthersKept
  <2> QED BY <1>1, <2>1, <2>3, <2>6, <2>7, <2>8, QuietRunner
<1> QED BY <1>2, <1>3 DEF handle_left, AbsentFrom

LEMMA QueueKept ==
  ASSUME TypeInv, RequestInv, queue_unmute_for_user
  PROVE  RequestInv'
<1>1. /\ row \in [Chats -> Row] /\ runner' = runner
      /\ row' = [c \in Chats |-> Queued(row[c])]
  BY DEF queue_unmute_for_user, TypeInv, TypeOK
<1>2. ASSUME NEW d \in Chats
      PROVE  /\ row'[d].generation = row[d].generation
             /\ \A q \in Runners : AskingOf(q, d) => KeptIn(q, row'[d])
  <2>1. row'[d] = Queued(row[d]) /\ row[d] \in Row
    BY <1>1
  <2>2. row'[d].generation = row[d].generation
    BY <2>1, QueuedRow
  <2>3. \A q \in Runners : AskingOf(q, d) => KeptIn(q, row'[d])
    BY <2>1, OthersKept
  <2> QED BY <2>2, <2>3
<1> QED BY <1>1, <1>2, RowsStep

\* A deadline does not touch a claim; a lease that runs out, and a link that is used,
\* do not either, as long as no request outlives the lease of its claim.
LEMMA TimesKept ==
  ASSUME TypeInv, RequestInv, ~SlowCalls, NEW c \in Chats,
         \/ DeadlinePasses(c) \/ RetryPasses(c) \/ \E t \in Tokens : verify_token(c, t)
  PROVE  RequestInv'
<1> DEFINE due == [row[c] EXCEPT !.deadline = "reached"]
           free == [row[c] EXCEPT !.retry = "reached"]
<1>1. row \in [Chats -> Row] /\ row[c] \in Row /\ runner' = runner
  BY DEF TypeInv, TypeOK, DeadlinePasses, RetryPasses, verify_token
<1>2. PICK r \in {due, free, VerifiedOf(row[c])} :
        /\ row' = [row EXCEPT ![c] = r]
        /\ \/ r = due
           \/ r = free /\ ~InFlight(c)
           \/ r = VerifiedOf(row[c]) /\ row[c].state = "MUTED"
  BY DEF DeadlinePasses, RetryPasses, verify_token, VerifiedOf
<1>3. /\ due.generation = row[c].generation /\ free.generation = row[c].generation
      /\ due.state = row[c].state /\ due.retry = row[c].retry
      /\ due.attempt = row[c].attempt /\ due.action = row[c].action
  BY <1>1 DEF Row
<1> HIDE DEF due, free
<1>4. r.generation = row[c].generation
  BY <1>1, <1>2, <1>3, VerifiedRow
<1>5. ASSUME NEW q \in Runners, AskingOf(q, c) PROVE KeptIn(q, r)
  <2>1. KeptIn(q, row[c])
    BY <1>5 DEF RequestInv, ClaimsKept
  <2>2. CASE r = due
    BY <1>3, <2>1, <2>2 DEF KeptIn
  <2>3. CASE ~InFlight(c)
    BY <1>5, <2>3 DEF InFlight, AskingOf, Asking, Calling
  <2>4. CASE row[c].state = "MUTED"
    BY <2>1, <2>4 DEF KeptIn, Gone
  <2> QED BY <1>2, <2>2, <2>3, <2>4
<1>6. ASSUME NEW d \in Chats
      PROVE  /\ row'[d].generation = row[d].generation
             /\ \A q \in Runners : AskingOf(q, d) => KeptIn(q, row'[d])
  <2>1. CASE d = c
    <3>1. row'[d] = r
      BY <1>1, <1>2, <2>1
    <3> QED BY <1>4, <1>5, <2>1, <3>1
  <2>2. CASE d # c
    <3>1. row'[d] = row[d]
      BY <1>1, <1>2, <2>2
    <3> QED BY <3>1 DEF RequestInv, ClaimsKept
  <2> QED BY <2>1, <2>2
<1> QED BY <1>1, <1>6, RowsStep

LEMMA NextKept ==
  ASSUME TypeInv, RequestInv, ~SlowCalls, [Next]_vars
  PROVE  RequestInv'
<1>1. CASE Person
  <2>1. CASE Binds \/ (\E c \in Chats : (\E admin \in BOOLEAN : Joins(c, admin)) \/ Leaves(c))
    <3>1. row' = row /\ runner' = runner
      BY <2>1 DEF Binds, Joins, Leaves
    <3> QED BY <3>1, NothingChanges
  <2>2. CASE \E c \in Chats, t \in Tokens : verify_token(c, t)
    BY <2>2, TimesKept
  <2> QED BY <1>1, <2>1, <2>2 DEF Person
<1>2. CASE Clock
  BY <1>2, TimesKept DEF Clock
<1>3. CASE queue_unmute_for_user
  BY <1>3, QueueKept
<1>4. ASSUME NEW c \in Chats,
             Scan(c) \/ (\E p \in Handlers : Handles(p, c)) \/ (\E k \in Actions : LateLands(c, k))
      PROVE  RequestInv'
  <2>1. CASE \E k \in Actions : LateLands(c, k)
    <3>1. row' = row /\ runner' = runner
      BY <2>1 DEF LateLands
    <3> QED BY <3>1, NothingChanges
  <2>2. CASE \E p \in Handlers : Handles(p, c)
    <3>1. PICK p \in Handlers : Handles(p, c)
      BY <2>2
    <3>2. p \in Runners
      BY DEF Runners
    <3>3. CASE handle_left(p, c)
      BY <3>2, <3>3, HandleLeftKept
    <3>4. ASSUME NEW admin \in BOOLEAN, handle_join(p, c, admin) PROVE RequestInv'
      <4>1. TypeInv'
        BY <3>2, <3>4, HandleJoinType
      <4> QED BY <3>2, <3>4, <4>1, HandleJoinKept
    <3> QED BY <3>1, <3>3, <3>4 DEF Handles
  <2> QED BY <1>4, <2>1, <2>2, ScanKept
<1>5. ASSUME NEW p \in Runners, Steps(p) \/ Unanswered(p) PROVE RequestInv'
  <2>1. CASE Answered(p) \/ Unanswered(p)
    BY <2>1, AnswersKept
  <2>2. CASE claim_restriction(p) \/ claim_unmute(p) \/ claim_removal(p)
    BY <2>2, ClaimRestrictionKept, ClaimUnmuteKept, ClaimRemovalKept
  <2>3. CASE issue_verification_token(p)
    BY <2>3, IssueKept
  <2>4. CASE confirm_restriction(p)
    BY <2>4, ConfirmRestrictionKept
  <2>5. CASE \/ confirm_unmute(p) \/ confirm_removal(p) \/ fail_action(p)
             \/ mark_notification_success(p) \/ mark_notification_failure(p) \/ mark_left(p)
    BY <2>5, ResultsKept
  <2> QED BY <1>5, <2>1, <2>2, <2>3, <2>4, <2>5 DEF Steps
<1>6. CASE Restart
  <2>1. row' = row /\ \A p \in Runners : runner'[p] = Idle
    BY <1>6 DEF Restart
  <2>2. \A p \in Runners : ~Asking(p)' /\ Behind(p)'
    BY <2>1, IdleQuiet
  <2>3. /\ Runners \in SUBSET Runners /\ \A q \in Runners \ Runners : runner'[q] = runner[q]
        /\ \A d \in Chats :
             /\ row'[d].generation = row[d].generation
             /\ \A q \in Runners \ Runners : AskingOf(q, d) => KeptIn(q, row'[d])
    BY <2>1
  <2> QED BY <2>2, <2>3, QuietStep
<1>7. CASE UNCHANGED vars
  BY <1>7, NothingChanges DEF vars
<1> QED BY <1>1, <1>2, <1>3, <1>4, <1>5, <1>6, <1>7 DEF Next

\* As long as no request outlives the lease of its claim, Telegram is never asked for two
\* things about one membership at a time, whatever handlers, worker and restarts do.
THEOREM RequestsExclude == ASSUME ~SlowCalls PROVE Spec => []OneRequestAtATime
<1>1. Init => TypeInv /\ RequestInv
  <2>1. ASSUME Init PROVE RequestInv
    <3>1. \A p \in Runners : runner[p] = Idle
      BY <2>1 DEF Init
    <3> QED BY <3>1 DEF RequestInv, ClaimsKept, AskingOf, Asking, Calling, Behind, Idle,
                        OneRequestAtATime
  <2> QED BY <2>1, InitType
<1>2. TypeInv /\ RequestInv /\ [Next]_vars => TypeInv' /\ RequestInv'
  BY NextType, NextKept
<1>3. RequestInv => OneRequestAtATime
  BY DEF RequestInv
<1> QED BY <1>1, <1>2, <1>3, PTL DEF Spec


-----------------------------------------------------------------------------
(* Who was released can speak.                                             *)

\* The row says that the worker released the person, or that p is about to.
Speaking(r) == r.state = "ACTIVE" /\ r.unmuted
ReleaseOf(r, p) == r.state = "UNMUTE_PENDING" /\ r.action = "UNMUTE" /\ r.attempt = p

\* The claim behind a restriction that lost its runner still stands in r, or the row waits
\* for that restriction, or is closed.
LateKept(r) ==
  \/ r.state \in Gone
  \/ /\ r.retry = "running"
     /\ \/ r.state = "RESTRICT_PENDING" /\ r.action = "RESTRICT" /\ r.attempt # None
        \/ r.state = "UNMUTE_PENDING" /\ r.attempt = None

Restricts(p) == runner[p].step \in {"call", "done", "failed"} /\ runner[p].kind = "RESTRICT"
\* Telegram has released the person for p, whose claim stands.
Released(p) ==
  /\ runner[p].step = "done" /\ runner[p].kind = "UNMUTE"
  /\ Current(p) /\ ReleaseOf(RowOf(p), p)

\* The person has joined the chat once as far as the row knows.
FirstTime(c) == row[c].generation \in {0, 1}

\* Whatever is in a row or done for it belongs to somebody who joined.
JoinedBefore ==
  /\ \A c \in Chats : row[c].state # "NONE" => row[c].generation # 0
  /\ \A p \in Runners : runner[p].step # "idle" => runner[p].generation # 0

\* A restriction that lost its runner is alone on its way, and the row knows of it.
LateAlone ==
  \A c \in Chats : <<c, "RESTRICT">> \in late /\ FirstTime(c) =>
    /\ row[c].generation # 0 /\ LateKept(row[c])
    /\ \A p \in Runners : Restricts(p) => runner[p].chat # c

\* Who was released is not muted, present or not.
Spoken ==
  \A c \in Chats :
    FirstTime(c) /\ (Speaking(row[c]) \/ \E p \in Runners : runner[p].chat = c /\ Released(p))
      => ~member[c].muted

SpeakInv == JoinedBefore /\ LateAlone /\ Spoken

\* The row of c may become s of the same generation in a step of the runners of S.
Onward(S, c, s) ==
  /\ s.generation = row[c].generation
  /\ s.state # "NONE" => row[c].state # "NONE" \/ row[c].generation # 0
  /\ <<c, "RESTRICT">> \in late /\ LateKept(row[c]) =>
       LateKept(s) \/ \E p \in S : Restricts(p) /\ runner[p].chat = c
  /\ Speaking(s) => Speaking(row[c]) \/ \E p \in S : Released(p) /\ runner[p].chat = c
  /\ \A q \in Runners : ReleaseOf(s, q) => ReleaseOf(row[c], q) \/ q \in S
\* What a step of the runners of S makes of a row: the same membership, or the next one.
Moves(S, c) ==
  \/ Onward(S, c, row'[c])
  \/ /\ row'[c].generation = row[c].generation + 1
     /\ ~Speaking(row'[c]) /\ row'[c].state # "UNMUTE_PENDING"

\* A runner without an answer, that knows for which membership it works.
Ready(p) ==
  /\ runner[p].step \in {"idle", "claim", "call", "absent"}
  /\ runner[p].step # "idle" => runner[p].generation # 0

LEMMA SpeakStep ==
  ASSUME TypeInv, SpeakInv, NEW S \in SUBSET Runners,
         \A q \in Runners \ S : runner'[q] = runner[q],
         \A q \in S : Ready(q)' /\ (Restricts(q)' => ~LateKept(row[runner'[q].chat])),
         \A d \in Chats : Moves(S, d), member' = member, late' = late
  PROVE  SpeakInv'
<1>1. \A d \in Chats : row[d].generation \in Nat
  BY GenerationsAreNumbers
<1>2. ASSUME NEW d \in Chats
      PROVE  \/ Onward(S, d, row'[d]) /\ (FirstTime(d)' <=> FirstTime(d))
             \/ /\ row'[d].generation # 0 /\ (FirstTime(d)' => row[d].generation = 0)
                /\ ~Speaking(row'[d]) /\ row'[d].state # "UNMUTE_PENDING"
  <2>1. CASE Onward(S, d, row'[d])
    BY <2>1 DEF Onward, FirstTime
  <2>2. CASE /\ row'[d].generation = row[d].generation + 1
             /\ ~Speaking(row'[d]) /\ row'[d].state # "UNMUTE_PENDING"
    <3>1. PICK n \in Nat : row[d].generation = n
      BY <1>1
    <3>2. row'[d].generation = n + 1
      BY <2>2, <3>1
    <3> QED BY <2>2, <3>1, <3>2 DEF FirstTime
  <2> QED BY <2>1, <2>2 DEF Moves
<1>3. JoinedBefore'
  <2>1. ASSUME NEW d \in Chats, row'[d].state # "NONE" PROVE row'[d].generation # 0
    BY <1>2, <2>1 DEF Onward, SpeakInv, JoinedBefore
  <2>2. ASSUME NEW q \in Runners, runner'[q].step # "idle" PROVE runner'[q].generation # 0
    <3>1. CASE q \in S
      BY <2>2, <3>1 DEF Ready
    <3>2. CASE q \notin S
      BY <2>2, <3>2 DEF SpeakInv, JoinedBefore
    <3> QED BY <3>1, <3>2
  <2> QED BY <2>1, <2>2 DEF JoinedBefore
<1>4. ASSUME NEW d \in Chats, <<d, "RESTRICT">> \in late, FirstTime(d)'
      PROVE  /\ row'[d].generation # 0 /\ LateKept(row'[d])
             /\ \A q \in Runners : Restricts(q)' => runner'[q].chat # d
  <2>1. Onward(S, d, row'[d]) /\ FirstTime(d)
    <3>1. row[d].generation = 0 => FirstTime(d)
      BY DEF FirstTime
    <3>2. FirstTime(d) => row[d].generation # 0
      BY <1>4 DEF SpeakInv, LateAlone
    <3> QED BY <1>2, <1>4, <3>1, <3>2
  <2>2. /\ row[d].generation # 0 /\ LateKept(row[d])
        /\ \A q \in Runners : Restricts(q) => runner[q].chat # d
    BY <1>4, <2>1 DEF SpeakInv, LateAlone
  <2>3. row'[d].generation # 0 /\ LateKept(row'[d])
    BY <1>4, <2>1, <2>2 DEF Onward
  <2>4. ASSUME NEW q \in Runners, Restricts(q)', runner'[q].chat = d PROVE FALSE
    <3>1. CASE q \in S
      BY <2>2, <2>4, <3>1
    <3>2. CASE q \notin S
      <4>1. runner'[q] = runner[q]
        BY <3>2
      <4> QED BY <2>2, <2>4, <4>1 DEF Restricts
    <3> QED BY <3>1, <3>2
  <2> QED BY <2>3, <2>4
<1>5. LateAlone'
  BY <1>4 DEF LateAlone
<1>6. ASSUME NEW d \in Chats, FirstTime(d)',
             Speaking(row'[d]) \/ \E q \in Runners : runner'[q].chat = d /\ Released(q)'
      PROVE  ~member'[d].muted
  <2>1. Onward(S, d, row'[d]) /\ FirstTime(d)
    <3>1. ASSUME NEW q \in Runners, runner'[q].chat = d, Released(q)'
          PROVE  row'[d].state = "UNMUTE_PENDING"
      BY <3>1 DEF Released, RowOf, ReleaseOf
    <3> QED BY <1>2, <1>6, <3>1
  <2>2. CASE Speaking(row'[d])
    BY <2>1, <2>2 DEF Onward, SpeakInv, Spoken
  <2>3. ASSUME NEW q \in Runners, runner'[q].chat = d, Released(q)' PROVE ~member'[d].muted
    <3>1. q \notin S
      BY <2>3 DEF Released, Ready
    <3>2. runner'[q] = runner[q] /\ RowOf(q)' = row'[d] /\ RowOf(q) = row[d]
      BY <2>3, <3>1 DEF RowOf
    <3>3. ReleaseOf(row[d], q) /\ row'[d].generation = row[d].generation
      BY <2>1, <2>3, <3>1, <3>2 DEF Released, Onward, ReleaseOf
    <3>4. Released(q) /\ runner[q].chat = d
      BY <2>3, <3>2, <3>3 DEF Released, Current
    <3> QED BY <2>1, <3>4 DEF SpeakInv, Spoken
  <2> QED BY <1>6, <2>2, <2>3
<1>7. Spoken'
  BY <1>6 DEF Spoken
<1> QED BY <1>3, <1>5, <1>7 DEF SpeakInv

LEMMA OnwardPlain ==
  ASSUME TypeInv, NEW S \in SUBSET Runners, NEW c \in Chats
  PROVE  /\ Onward(S, c, row[c]) /\ Onward(S, c, Queued(row[c]))
         /\ row[c].generation # 0 => Onward(S, c, Left(row[c]))
<1> DEFINE r == row[c]
<1>1. r \in Row /\ \A q \in Runners : q # None
  BY NoneIsNoAction DEF TypeInv, TypeOK
<1>2. Onward(S, c, r)
  BY DEF Onward
<1>3. ASSUME r.state \in {"RESTRICT_PENDING", "MUTED"} PROVE Onward(S, c, Queued(row[c]))
  <2> DEFINE s == Queued(r)
  <2>1. /\ s.state = "UNMUTE_PENDING" /\ s.attempt = None /\ s.generation = r.generation
        /\ LateKept(r) => s.retry = "running"
    BY <1>1, <1>3 DEF Queued, Cleared, Row, LateKept, Gone
  <2> HIDE DEF s, r
  <2>2. (LateKept(r) => LateKept(s)) /\ ~Speaking(s) /\ \A q \in Runners : ~ReleaseOf(s, q)
    BY <1>1, <2>1 DEF LateKept, Speaking, ReleaseOf
  <2> QED BY <1>3, <2>1, <2>2 DEF Onward, r, s
<1>4. ASSUME r.state \notin {"RESTRICT_PENDING", "MUTED"} PROVE Onward(S, c, Queued(row[c]))
  <2>1. Queued(r) = r
    BY <1>4 DEF Queued
  <2> QED BY <1>2, <2>1
<1>5. ASSUME r.generation # 0 PROVE Onward(S, c, Left(r))
  <2> DEFINE s == Left(r)
  <2>1. s.generation = r.generation /\ s.state \in Gone
    BY <1>1, LeftRow
  <2> HIDE DEF s, r
  <2>2. LateKept(s) /\ ~Speaking(s) /\ \A q : ~ReleaseOf(s, q)
    BY <2>1 DEF LateKept, Speaking, ReleaseOf, Gone
  <2> QED BY <1>5, <2>1, <2>2 DEF Onward, r, s
<1> QED BY <1>2, <1>3, <1>4, <1>5

\* p stores a row and rests, goes on to its request, or starts to work on the row.
LEMMA StoreSpeaks ==
  ASSUME TypeInv, SpeakInv, NEW p \in Runners, NEW c \in Chats, NEW s \in Row,
         row' = [row EXCEPT ![c] = s], Onward({p}, c, s), member' = member, late' = late,
         \A q \in Runners : q # p => runner'[q] = runner[q],
         Ready(p)', Restricts(p)' => runner'[p].chat = c /\ ~LateKept(row[c])
  PROVE  SpeakInv'
<1>1. row'[c] = s /\ \A d \in Chats : d # c => row'[d] = row[d]
  BY DEF TypeInv, TypeOK
<1>2. {p} \in SUBSET Runners
  OBVIOUS
<1>3. ASSUME NEW d \in Chats PROVE Moves({p}, d)
  <2>1. CASE d = c
    BY <1>1, <2>1 DEF Moves
  <2>2. CASE d # c
    BY <1>1, <1>2, <2>2, OnwardPlain DEF Moves
  <2> QED BY <2>1, <2>2
<1>4. \A q \in {p} : Ready(q)' /\ (Restricts(q)' => ~LateKept(row[runner'[q].chat]))
  OBVIOUS
<1>5. \A q \in Runners \ {p} : runner'[q] = runner[q]
  OBVIOUS
<1> QED BY <1>2, <1>3, <1>4, <1>5, SpeakStep

LEMMA IdleReady ==
  ASSUME NEW p \in Runners, runner'[p] = Idle
  PROVE  Ready(p)' /\ ~Restricts(p)'
BY DEF Ready, Restricts, Idle

LEMMA RefusedSpeaks ==
  ASSUME TypeInv, SpeakInv, NEW p \in Runners, runner[p].step # "idle",
         NEW s \in Row, Refused(p, s), Onward({p}, runner[p].chat, s),
         member' = member, late' = late
  PROVE  SpeakInv'
<1> DEFINE c == runner[p].chat
<1>1. c \in Chats /\ runner \in [Runners -> RunnerState]
  BY WorkingRow DEF TypeInv, TypeOK
<1>2. row' = [row EXCEPT ![c] = s] /\ Rests(p)
  BY DEF Refused, Store
<1>3. runner'[p] = Idle /\ \A q \in Runners : q # p => runner'[q] = runner[q]
  BY <1>1, <1>2, RestingRunner
<1>4. Ready(p)' /\ ~Restricts(p)' /\ Onward({p}, c, s)
  BY <1>3, IdleReady
<1> HIDE DEF c
<1> QED BY <1>1, <1>2, <1>3, <1>4, StoreSpeaks

LEMMA PlainSpeaks ==
  ASSUME TypeInv, SpeakInv, NEW p \in Runners, runner[p].step # "idle",
         \/ Refused(p, RowOf(p)) \/ Refused(p, Queued(RowOf(p)))
         \/ Current(p) /\ Refused(p, Left(RowOf(p))),
         member' = member, late' = late
  PROVE  SpeakInv'
<1> DEFINE c == runner[p].chat
<1>1. c \in Chats /\ RowOf(p) \in Row /\ RowOf(p) = row[c] /\ {p} \in SUBSET Runners
  BY WorkingRow DEF RowOf
<1>2. Queued(RowOf(p)) \in Row /\ Left(RowOf(p)) \in Row
  BY <1>1, QueuedRow, LeftRow
<1>3. Current(p) => row[c].generation # 0
  BY <1>1 DEF Current, SpeakInv, JoinedBefore
<1>4. /\ Onward({p}, c, RowOf(p)) /\ Onward({p}, c, Queued(RowOf(p)))
      /\ Current(p) => Onward({p}, c, Left(RowOf(p)))
  <2> HIDE DEF c
  <2> QED BY <1>1, <1>3, OnwardPlain
<1> QED BY <1>1, <1>2, <1>4, RefusedSpeaks

\* A granted claim.
LEMMA GrantedSpeaks ==
  ASSUME TypeInv, SpeakInv, NEW p \in Runners, runner[p].step # "idle",
         NEW s \in Row, Store(runner[p].chat, s), Calls(p), Onward({p}, runner[p].chat, s),
         runner[p].kind = "RESTRICT" => ~LateKept(RowOf(p)),
         member' = member, late' = late
  PROVE  SpeakInv'
<1> DEFINE c == runner[p].chat
<1>1. c \in Chats /\ runner \in [Runners -> RunnerState] /\ RowOf(p) = row[c]
  BY WorkingRow DEF TypeInv, TypeOK, RowOf
<1>2. row' = [row EXCEPT ![c] = s] /\ Onward({p}, c, s)
  BY DEF Store
<1>3. /\ runner'[p] = [runner[p] EXCEPT !.step = "call"]
      /\ \A q \in Runners : q # p => runner'[q] = runner[q]
  BY <1>1, SteppingRunner DEF Calls
<1>4. /\ runner'[p].step = "call" /\ runner'[p].chat = c
      /\ runner'[p].kind = runner[p].kind /\ runner'[p].generation = runner[p].generation
  <2>1. runner[p] \in RunnerState
    BY <1>1
  <2> QED BY <1>3, <2>1 DEF RunnerState
<1>5. Ready(p)'
  BY <1>4 DEF Ready, SpeakInv, JoinedBefore
<1>6. Restricts(p)' => runner'[p].chat = c /\ ~LateKept(row[c])
  BY <1>1, <1>4 DEF Restricts
<1> HIDE DEF c
<1> QED BY <1>1, <1>2, <1>3, <1>5, <1>6, StoreSpeaks


\* A queued row keeps what a restriction that lost its runner waits for.
LEMMA QueuedLate ==
  ASSUME NEW r \in Row, LateKept(r)
  PROVE  LateKept(Queued(r))
<1>1. CASE r.state \notin {"RESTRICT_PENDING", "MUTED"}
  BY <1>1 DEF Queued
<1>2. CASE r.state \in {"RESTRICT_PENDING", "MUTED"}
  <2>1. r.retry = "running" /\ r.state = "RESTRICT_PENDING" /\ r.action = "RESTRICT" /\ r.attempt # None
    BY <1>2 DEF LateKept, Gone
  <2>2. /\ Queued(r).state = "UNMUTE_PENDING" /\ Queued(r).attempt = None
        /\ Queued(r).retry = "running"
    BY <2>1 DEF Queued, Cleared, Row
  <2> QED BY <2>2 DEF LateKept
<1> QED BY <1>1, <1>2

\* What p makes of the row it works on, when no restriction without a runner is lost sight of.
LEMMA WorkedOnward ==
  ASSUME TypeInv, SpeakInv, NEW p \in Runners, runner[p].step # "idle", Current(p),
         NEW s \in Row, s.generation = RowOf(p).generation,
         LateKept(RowOf(p)) => LateKept(s) \/ Restricts(p),
         Speaking(s) => Speaking(RowOf(p)) \/ Released(p),
         \A q \in Runners : ReleaseOf(s, q) => q = p
  PROVE  Onward({p}, runner[p].chat, s)
<1> DEFINE c == runner[p].chat
<1>1. RowOf(p) = row[c] /\ row[c].generation # 0
  BY DEF RowOf, Current, SpeakInv, JoinedBefore
<1> HIDE DEF c
<1>2. \A q \in Runners : ReleaseOf(s, q) => q \in {p}
  OBVIOUS
<1>3. p \in {p} /\ runner[p].chat = c
  BY DEF c
<1>4. Onward({p}, c, s)
  BY <1>1, <1>2, <1>3 DEF Onward
<1> QED BY <1>4 DEF c

LEMMA ClaimRestrictionSpeaks ==
  ASSUME TypeInv, SpeakInv, NEW p \in Runners, claim_restriction(p)
  PROVE  SpeakInv'
<1> DEFINE r == RowOf(p)
           s == Claimed(r, p, "RESTRICT")
<1>1. runner[p].step = "claim" /\ runner[p].kind = "RESTRICT"
  BY DEF claim_restriction, Claiming
<1>2. r \in Row /\ member' = member /\ late' = late
  BY <1>1, WorkingRow DEF claim_restriction, telegram
<1>3. \/ Refused(p, r) \/ Refused(p, Queued(r))
      \/ /\ Current(p) /\ r.state = "RESTRICT_PENDING"
         /\ r.attempt = None \/ r.retry # "running"
         /\ Store(runner[p].chat, s) /\ Calls(p)
  BY DEF claim_restriction, RetryReached
<1>4. CASE Refused(p, r) \/ Refused(p, Queued(r))
  BY <1>1, <1>2, <1>4, PlainSpeaks
<1>5. CASE /\ Current(p) /\ r.state = "RESTRICT_PENDING"
           /\ r.attempt = None \/ r.retry # "running"
           /\ Store(runner[p].chat, s) /\ Calls(p)
  <2>1. /\ s \in Row /\ s.generation = r.generation /\ s.state = "RESTRICT_PENDING"
    BY <1>2, <1>5, ClaimedRow DEF Actions
  <2> HIDE DEF s, r
  <2>2. ~LateKept(r)
    BY <1>5 DEF LateKept, Gone
  <2>3. ~Speaking(s) /\ \A q \in Runners : ~ReleaseOf(s, q)
    BY <2>1 DEF Speaking, ReleaseOf
  <2>4. Onward({p}, runner[p].chat, s)
    BY <1>1, <1>5, <2>1, <2>2, <2>3, WorkedOnward DEF r
  <2> QED BY <1>1, <1>2, <1>5, <2>1, <2>2, <2>4, GrantedSpeaks DEF r
<1> QED BY <1>3, <1>4, <1>5

LEMMA ClaimUnmuteSpeaks ==
  ASSUME TypeInv, SpeakInv, NEW p \in Runners, claim_unmute(p)
  PROVE  SpeakInv'
<1> DEFINE r == Queued(RowOf(p))
           s == Claimed(r, p, "UNMUTE")
<1>1. runner[p].step = "claim" /\ runner[p].kind = "UNMUTE"
  BY DEF claim_unmute, Claiming
<1>2. RowOf(p) \in Row /\ member' = member /\ late' = late
  BY <1>1, WorkingRow DEF claim_unmute, telegram
<1>3. r \in Row /\ r.generation = RowOf(p).generation
  BY <1>2, QueuedRow
<1>4. r = IF RowOf(p).state \in {"RESTRICT_PENDING", "MUTED"} THEN Queued(RowOf(p)) ELSE RowOf(p)
  BY DEF Queued
<1>5. \/ Refused(p, RowOf(p)) \/ Refused(p, r)
      \/ /\ Current(p) /\ r.state = "UNMUTE_PENDING" /\ r.retry # "running"
         /\ Store(runner[p].chat, s) /\ Calls(p)
  BY <1>4 DEF claim_unmute, RetryReached
<1>6. CASE Refused(p, RowOf(p)) \/ Refused(p, r)
  BY <1>1, <1>2, <1>6, PlainSpeaks
<1>7. CASE /\ Current(p) /\ r.state = "UNMUTE_PENDING" /\ r.retry # "running"
           /\ Store(runner[p].chat, s) /\ Calls(p)
  <2>1. ~LateKept(RowOf(p))
    <3>1. ~LateKept(r)
      <4> HIDE DEF r
      <4> QED BY <1>7 DEF LateKept, Gone
    <3> QED BY <1>2, <3>1, QueuedLate
  <2>2. /\ s \in Row /\ s.generation = RowOf(p).generation /\ s.state = "UNMUTE_PENDING"
        /\ s.attempt = p
    <3>1. r.state = "UNMUTE_PENDING"
      BY <1>7
    <3>2. r \in Row /\ "UNMUTE" \in Actions
      BY <1>3 DEF Actions
    <3> HIDE DEF r
    <3>3. s \in Row /\ s.generation = r.generation /\ s.state = r.state
      BY <3>2, ClaimedRow
    <3>4. s.attempt = p
      BY <3>2, ClaimedFields
    <3> QED BY <1>3, <3>1, <3>3, <3>4
  <2> HIDE DEF s
  <2>3. ~Speaking(s) /\ \A q \in Runners : ReleaseOf(s, q) => q = p
    BY <2>2 DEF Speaking, ReleaseOf
  <2>4. Onward({p}, runner[p].chat, s)
    BY <1>1, <1>7, <2>1, <2>2, <2>3, WorkedOnward
  <2> QED BY <1>1, <1>2, <1>7, <2>2, <2>4, GrantedSpeaks
<1> QED BY <1>5, <1>6, <1>7

LEMMA ClaimRemovalSpeaks ==
  ASSUME TypeInv, SpeakInv, NEW p \in Runners, claim_removal(p)
  PROVE  SpeakInv'
<1> DEFINE r == RowOf(p)
           s == RemovalOf(r, p)
<1>1. runner[p].step = "claim" /\ runner[p].kind = "REMOVE"
  BY DEF claim_removal, Claiming
<1>2. r \in Row /\ member' = member /\ late' = late
  BY <1>1, WorkingRow DEF claim_removal, telegram
<1>3. \/ Refused(p, r) \/ Refused(p, Queued(r))
      \/ /\ Current(p) /\ r.state \in {"RESTRICT_PENDING", "MUTED", "REMOVE_PENDING"}
         /\ r.attempt = None \/ r.retry # "running" \/ r.action = "VERIFICATION_NOTIFICATION"
         /\ Store(runner[p].chat, s) /\ Calls(p)
  BY DEF claim_removal, RetryReached, RemovalOf
<1>4. CASE Refused(p, r) \/ Refused(p, Queued(r))
  BY <1>1, <1>2, <1>4, PlainSpeaks
<1>5. CASE /\ Current(p) /\ r.state \in {"RESTRICT_PENDING", "MUTED", "REMOVE_PENDING"}
           /\ r.attempt = None \/ r.retry # "running" \/ r.action = "VERIFICATION_NOTIFICATION"
           /\ Store(runner[p].chat, s) /\ Calls(p)
  <2>1. s \in Row /\ s.generation = r.generation /\ s.state = "REMOVE_PENDING"
    BY <1>2, RemovalRow
  <2> HIDE DEF s, r
  <2>2. ~LateKept(r)
    BY <1>5 DEF LateKept, Gone
  <2>3. ~Speaking(s) /\ \A q \in Runners : ~ReleaseOf(s, q)
    BY <2>1 DEF Speaking, ReleaseOf
  <2>4. Onward({p}, runner[p].chat, s)
    BY <1>1, <1>5, <2>1, <2>2, <2>3, WorkedOnward DEF r
  <2> QED BY <1>1, <1>2, <1>5, <2>1, <2>2, <2>4, GrantedSpeaks DEF r
<1> QED BY <1>3, <1>4, <1>5

LEMMA IssueSpeaks ==
  ASSUME TypeInv, SpeakInv, NEW p \in Runners, issue_verification_token(p)
  PROVE  SpeakInv'
<1> DEFINE c == runner[p].chat
           t == tokens[c] + 1
           s == [RowOf(p) EXCEPT !.action = "VERIFICATION_NOTIFICATION", !.retry = "running",
                                 !.token = t, !.verified = FALSE]
           working == [runner[p] EXCEPT !.step = "call", !.token = t]
<1>1. /\ runner[p].step = "claim" /\ runner[p].kind = "VERIFICATION_NOTIFICATION"
      /\ member' = member /\ late' = late
  BY DEF issue_verification_token, Claiming, telegram
<1>2. /\ c \in Chats /\ RowOf(p) \in Row /\ RowOf(p) = row[c] /\ runner[p] \in RunnerState
      /\ runner \in [Runners -> RunnerState] /\ tokens \in [Chats -> 0 .. MaxTokens]
  BY <1>1, WorkingRow DEF RowOf, TypeInv, TypeOK
<1>3. CASE Refused(p, RowOf(p))
  BY <1>1, <1>3, PlainSpeaks
<1>4. CASE /\ Current(p) /\ RowOf(p).state = "MUTED" /\ tokens[c] < MaxTokens /\ Store(c, s)
           /\ runner' = [runner EXCEPT ![p].step = "call", ![p].token = t]
  <2>1. t \in Tokens
    BY <1>2, <1>4, BoundsAreNumbers DEF Tokens
  <2> HIDE DEF t
  <2>2. s \in Row /\ s.generation = RowOf(p).generation /\ s.state = "MUTED"
    BY <1>2, <1>4, <2>1 DEF Row, Actions
  <2>3. /\ working.step = "call" /\ working.kind = "VERIFICATION_NOTIFICATION"
        /\ working.generation = runner[p].generation
    BY <1>1, <1>2 DEF RunnerState
  <2>4. runner' = [runner EXCEPT ![p] = working]
    BY <1>4
  <2> HIDE DEF s, working
  <2>5. runner'[p] = working /\ \A q \in Runners : q # p => runner'[q] = runner[q]
    BY <1>2, <2>4
  <2>6. Ready(p)' /\ ~Restricts(p)'
    BY <1>1, <2>3, <2>5 DEF Ready, Restricts, SpeakInv, JoinedBefore
  <2>7. row' = [row EXCEPT ![c] = s]
    BY <1>4 DEF Store
  <2>8. Onward({p}, c, s)
    <3>1. /\ ~LateKept(RowOf(p)) /\ ~Speaking(s) /\ \A q \in Runners : ~ReleaseOf(s, q)
      BY <1>4, <2>2 DEF LateKept, Gone, Speaking, ReleaseOf
    <3> QED BY <1>1, <1>4, <2>2, <3>1, WorkedOnward
  <2> HIDE DEF c
  <2> QED BY <1>1, <1>2, <2>2, <2>5, <2>6, <2>7, <2>8, StoreSpeaks
<1> QED BY <1>3, <1>4 DEF issue_verification_token


\* A runner that starts to work on a row knows the row's generation.
LEMMA StartedReady ==
  ASSUME runner \in [Runners -> RunnerState], NEW p \in Runners, NEW c \in Chats,
         NEW r \in Row, NEW kinds \in SUBSET Actions, runner' = Started(p, c, r, kinds),
         r.state # "NONE" => r.generation # 0
  PROVE  /\ Ready(p)' /\ ~Restricts(p)'
         /\ \A q \in Runners : q # p => runner'[q] = runner[q]
<1>1. /\ \A q \in Runners : q # p => runner'[q] = runner[q]
      /\ \/ runner'[p] = Idle
         \/ /\ runner'[p].generation = r.generation
            /\ runner'[p].step = "claim"
  BY StartedRunner
<1>2. CASE runner'[p] = Idle
  BY <1>1, <1>2, IdleReady
<1>3. CASE r.state = "NONE"
  <2>1. runner' = [runner EXCEPT ![p] = Idle]
    BY <1>3 DEF Started, Waiting
  <2>2. runner'[p] = Idle
    BY <2>1
  <2> QED BY <1>2, <2>2
<1>4. CASE r.generation # 0 /\ runner'[p].generation = r.generation /\ runner'[p].step = "claim"
  <2>1. Ready(p)' /\ ~Restricts(p)'
    BY <1>4 DEF Ready, Restricts
  <2> QED BY <1>1, <2>1
<1> QED BY <1>1, <1>2, <1>3, <1>4

LEMMA ConfirmRestrictionSpeaks ==
  ASSUME TypeInv, SpeakInv, NEW p \in Runners, confirm_restriction(p)
  PROVE  SpeakInv'
<1> DEFINE c == runner[p].chat
           r == RowOf(p)
           muted == [Cleared(r) EXCEPT !.state = "MUTED"]
           queued == [Queued(r) EXCEPT !.retry = "none"]
<1>1. /\ runner[p].step = "done" /\ Restricts(p) /\ member' = member /\ late' = late
  BY DEF confirm_restriction, Settling, telegram, Restricts
<1>2. /\ c \in Chats /\ r \in Row /\ r = row[c] /\ runner \in [Runners -> RunnerState]
      /\ row \in [Chats -> Row]
  BY <1>1, WorkingRow DEF RowOf, TypeInv, TypeOK
<1>3. \/ Holds(p, "RESTRICT_PENDING") /\ Refused(p, queued)
      \/ /\ Holds(p, "RESTRICT_PENDING") /\ Store(c, muted)
         /\ runner' = Started(p, c, muted, NotifyDue(muted))
      \/ row' = row /\ runner' = Started(p, c, r, NotifyDue(r))
      \/ Refused(p, r)
  BY DEF confirm_restriction, Refused
<1>4. ASSUME Holds(p, "RESTRICT_PENDING")
      PROVE  /\ Current(p) /\ r.generation # 0
             /\ queued \in Row /\ queued.generation = r.generation
             /\ queued.state = "UNMUTE_PENDING" /\ queued.attempt = None
             /\ muted \in Row /\ muted.generation = r.generation /\ muted.state = "MUTED"
  <2>1. Current(p) /\ r.state = "RESTRICT_PENDING" /\ r.generation # 0
    BY <1>1, <1>4 DEF Holds, Current, SpeakInv, JoinedBefore
  <2>2. /\ Queued(r) \in Row /\ Queued(r).generation = r.generation
        /\ Queued(r).state = "UNMUTE_PENDING"
    BY <1>2, <2>1, QueuedRow
  <2>3. Queued(r).attempt = None
    BY <1>2, <2>1 DEF Queued, Cleared, Row
  <2>4. Cleared(r) \in Row /\ Cleared(r).generation = r.generation
    BY <1>2, ClearedRow
  <2>5. muted \in Row /\ muted.generation = r.generation /\ muted.state = "MUTED"
    BY <2>4 DEF Row, Waiting
  <2>6. /\ queued \in Row /\ queued.generation = r.generation
        /\ queued.state = "UNMUTE_PENDING" /\ queued.attempt = None
    BY <2>2, <2>3 DEF Row
  <2> QED BY <2>1, <2>5, <2>6
<1> HIDE DEF muted, queued
<1>5. ASSUME NEW s \in Row, Current(p), s.generation = r.generation, ~Speaking(s),
             \A q \in Runners : ~ReleaseOf(s, q)
      PROVE  Onward({p}, c, s)
  BY <1>1, <1>5, WorkedOnward
<1>6. Holds(p, "RESTRICT_PENDING") => Onward({p}, c, queued) /\ Onward({p}, c, muted)
  <2>1. ASSUME Holds(p, "RESTRICT_PENDING")
        PROVE  /\ ~Speaking(queued) /\ ~Speaking(muted)
               /\ \A q \in Runners : ~ReleaseOf(queued, q) /\ ~ReleaseOf(muted, q)
    BY <1>4, <2>1, NoneIsNoAction DEF Speaking, ReleaseOf
  <2> HIDE DEF r, c
  <2> QED BY <1>4, <1>5, <2>1
<1>7. CASE Holds(p, "RESTRICT_PENDING") /\ Refused(p, queued)
  BY <1>1, <1>4, <1>6, <1>7, RefusedSpeaks
<1>8. CASE /\ Holds(p, "RESTRICT_PENDING") /\ Store(c, muted)
           /\ runner' = Started(p, c, muted, NotifyDue(muted))
  <2> HIDE DEF c, r
  <2>1. row' = [row EXCEPT ![c] = muted] /\ NotifyDue(muted) \in SUBSET Actions
    BY <1>8, DueKinds DEF Store
  <2>2. /\ Ready(p)' /\ ~Restricts(p)'
        /\ \A q \in Runners : q # p => runner'[q] = runner[q]
    BY <1>2, <1>4, <1>8, <2>1, StartedReady
  <2> QED BY <1>1, <1>2, <1>4, <1>6, <1>8, <2>1, <2>2, StoreSpeaks
<1>9. CASE row' = row /\ runner' = Started(p, c, r, NotifyDue(r))
  <2>1. NotifyDue(r) \in SUBSET Actions /\ {p} \in SUBSET Runners
    BY DueKinds
  <2>2. r.state # "NONE" => r.generation # 0
    BY <1>2 DEF SpeakInv, JoinedBefore
  <2> HIDE DEF c, r
  <2>3. /\ Ready(p)' /\ ~Restricts(p)'
        /\ \A q \in Runners : q # p => runner'[q] = runner[q]
    BY <1>2, <1>9, <2>1, <2>2, StartedReady
  <2>4. row' = [row EXCEPT ![c] = r] /\ Onward({p}, c, r)
    BY <1>2, <1>9, <2>1, OnwardPlain
  <2> QED BY <1>1, <1>2, <2>3, <2>4, StoreSpeaks
<1>10. CASE Refused(p, r)
  BY <1>1, <1>10, PlainSpeaks
<1> QED BY <1>3, <1>7, <1>8, <1>9, <1>10

\* A result changes a row only for the holder of its claim or of its link.
LEMMA ResultsSpeaks ==
  ASSUME TypeInv, SpeakInv, NEW p \in Runners,
         \/ confirm_unmute(p) \/ confirm_removal(p) \/ fail_action(p)
         \/ mark_notification_success(p) \/ mark_notification_failure(p) \/ mark_left(p)
  PROVE  SpeakInv'
<1> DEFINE r == RowOf(p)
           failed == [r EXCEPT !.attempt = None, !.retry = "running"]
           notified == [r EXCEPT !.action = None, !.retry = "none"]
           again == [r EXCEPT !.token = None, !.verified = FALSE, !.retry = "running"]
<1>1. /\ runner[p].step \in {"done", "failed", "absent"} /\ member' = member /\ late' = late
  BY DEF confirm_unmute, confirm_removal, fail_action, mark_notification_success,
     mark_notification_failure, mark_left, Settling, telegram
<1>2. r \in Row /\ runner[p] \in RunnerState
  BY <1>1, WorkingRow
<1>3. \/ Refused(p, r) \/ (Current(p) /\ Refused(p, Left(r)))
      \/ Holds(p, "REMOVE_PENDING") /\ Refused(p, RemovedOf(r))
      \/ /\ runner[p].step = "done" /\ runner[p].kind = "UNMUTE"
         /\ Holds(p, "UNMUTE_PENDING") /\ Refused(p, ReleasedOf(r))
      \/ /\ runner[p].step = "failed" /\ Refused(p, failed)
         /\ \E k \in {"RESTRICT_PENDING", "UNMUTE_PENDING", "REMOVE_PENDING"} : Holds(p, k)
      \/ Notified(p) /\ (Refused(p, notified) \/ Refused(p, again))
  <2>1. CASE confirm_unmute(p)
    <3>1. /\ runner[p].step = "done" /\ runner[p].kind = "UNMUTE"
          /\ Refused(p, IF Holds(p, "UNMUTE_PENDING") THEN ReleasedOf(r) ELSE r)
      BY <2>1, Zenon DEF confirm_unmute, ReleasedOf, Settling
    <3> HIDE DEF r, failed, notified, again
    <3> QED BY <3>1
  <2>2. CASE confirm_removal(p)
    <3>1. Refused(p, IF Holds(p, "REMOVE_PENDING") THEN RemovedOf(r) ELSE r)
      BY <2>2, Zenon DEF confirm_removal, RemovedOf
    <3> HIDE DEF r, failed, notified, again
    <3> QED BY <3>1
  <2>3. CASE fail_action(p)
    <3> DEFINE k == CASE runner[p].kind = "RESTRICT" -> "RESTRICT_PENDING"
                      [] runner[p].kind = "UNMUTE" -> "UNMUTE_PENDING"
                      [] OTHER -> "REMOVE_PENDING"
    <3>1. /\ runner[p].step = "failed"
          /\ Refused(p, IF Holds(p, k) THEN failed ELSE r)
      BY <2>3, Zenon DEF fail_action
    <3>2. k \in {"RESTRICT_PENDING", "UNMUTE_PENDING", "REMOVE_PENDING"}
      OBVIOUS
    <3> HIDE DEF r, failed, notified, again, k
    <3> QED BY <3>1, <3>2
  <2>4. CASE mark_notification_success(p) \/ mark_notification_failure(p)
    <3>1. \/ Refused(p, IF Notified(p) THEN notified ELSE r)
          \/ Refused(p, IF Notified(p) THEN again ELSE r)
      BY <2>4, Zenon DEF mark_notification_success, mark_notification_failure
    <3> HIDE DEF r, failed, notified, again
    <3> QED BY <3>1
  <2>5. CASE mark_left(p)
    <3>1. Refused(p, IF Current(p) THEN Left(r) ELSE r)
      BY <2>5, Zenon DEF mark_left
    <3> HIDE DEF r, failed, notified, again
    <3> QED BY <3>1
  <2> QED BY <2>1, <2>2, <2>3, <2>4, <2>5
<1>4. /\ failed \in Row /\ failed.generation = r.generation /\ failed.state = r.state
      /\ failed.attempt = None
      /\ notified \in Row /\ notified.generation = r.generation /\ notified.state = r.state
      /\ again \in Row /\ again.generation = r.generation /\ again.state = r.state
  BY <1>2 DEF Row
<1>5. /\ ReleasedOf(r) \in Row /\ ReleasedOf(r).generation = r.generation
      /\ RemovedOf(r) \in Row /\ RemovedOf(r).generation = r.generation
      /\ RemovedOf(r).state = "REMOVED"
  BY <1>2, SettledRow
<1>6. ReleasedOf(r).state = "ACTIVE"
  BY <1>2, ClearedRow DEF ReleasedOf, Row
<1> HIDE DEF failed, notified, again
<1>7. CASE Refused(p, r) \/ (Current(p) /\ Refused(p, Left(r)))
  BY <1>1, <1>7, PlainSpeaks
<1>8. ASSUME NEW s \in Row, Current(p), s.generation = r.generation, Refused(p, s),
             LateKept(r) => LateKept(s) \/ Restricts(p),
             Speaking(s) => Released(p), \A q \in Runners : ~ReleaseOf(s, q)
      PROVE  SpeakInv'
  <2>1. Onward({p}, runner[p].chat, s)
    BY <1>1, <1>8, WorkedOnward
  <2> QED BY <1>1, <1>8, <2>1, RefusedSpeaks
<1>9. CASE Holds(p, "REMOVE_PENDING") /\ Refused(p, RemovedOf(r))
  <2> DEFINE s == RemovedOf(r)
  <2>1. s \in Row /\ s.generation = r.generation /\ s.state = "REMOVED" /\ Refused(p, s)
    BY <1>5, <1>9
  <2> HIDE DEF s, r
  <2>2. LateKept(s) /\ ~Speaking(s) /\ \A q \in Runners : ~ReleaseOf(s, q)
    BY <2>1 DEF LateKept, Gone, Speaking, ReleaseOf
  <2> QED BY <1>8, <1>9, <2>1, <2>2 DEF Holds
<1>10. CASE /\ runner[p].step = "done" /\ runner[p].kind = "UNMUTE"
            /\ Holds(p, "UNMUTE_PENDING") /\ Refused(p, ReleasedOf(r))
  <2> DEFINE s == ReleasedOf(r)
  <2>1. s \in Row /\ s.generation = r.generation /\ s.state = "ACTIVE" /\ Refused(p, s)
    BY <1>5, <1>6, <1>10
  <2>2. /\ Current(p) /\ r.state = "UNMUTE_PENDING" /\ r.action = "UNMUTE" /\ r.attempt = p
    BY <1>10 DEF Holds
  <2>3. Released(p)
    BY <1>10, <2>2 DEF Released, ReleaseOf
  <2> HIDE DEF s, r
  <2>4. ~LateKept(r) /\ \A q \in Runners : ~ReleaseOf(s, q)
    BY <2>1, <2>2, NoneIsNoAction DEF LateKept, Gone, ReleaseOf
  <2> QED BY <1>8, <2>1, <2>2, <2>3, <2>4
<1>11. CASE /\ runner[p].step = "failed" /\ Refused(p, failed)
            /\ \E k \in {"RESTRICT_PENDING", "UNMUTE_PENDING", "REMOVE_PENDING"} : Holds(p, k)
  <2>1. /\ Current(p) /\ r.state \in {"RESTRICT_PENDING", "UNMUTE_PENDING", "REMOVE_PENDING"}
        /\ r.action = runner[p].kind /\ r.attempt = p
    BY <1>11 DEF Holds
  <2>2. LateKept(r) => Restricts(p)
    <3> HIDE DEF r
    <3> QED BY <1>11, <2>1, NoneIsNoAction DEF LateKept, Gone, Restricts
  <2>3. ~Speaking(failed) /\ \A q \in Runners : ~ReleaseOf(failed, q)
    <3> HIDE DEF r
    <3> QED BY <1>4, <2>1, NoneIsNoAction DEF Speaking, ReleaseOf
  <2> QED BY <1>4, <1>8, <1>11, <2>1, <2>2, <2>3
<1>12. CASE Notified(p) /\ (Refused(p, notified) \/ Refused(p, again))
  <2>1. Current(p) /\ r.state = "MUTED"
    BY <1>12 DEF Notified
  <2> HIDE DEF r
  <2>2. /\ ~LateKept(r) /\ ~Speaking(notified) /\ ~Speaking(again)
        /\ \A q \in Runners : ~ReleaseOf(notified, q) /\ ~ReleaseOf(again, q)
    BY <1>4, <2>1 DEF LateKept, Gone, Speaking, ReleaseOf
  <2> QED BY <1>4, <1>8, <1>12, <2>1, <2>2
<1> QED BY <1>3, <1>7, <1>9, <1>10, <1>11, <1>12

LEMMA ScanSpeaks ==
  ASSUME TypeInv, SpeakInv, NEW c \in Chats, Scan(c)
  PROVE  SpeakInv'
<1>1. /\ runner \in [Runners -> RunnerState] /\ row' = row /\ row[c] \in Row
      /\ row \in [Chats -> Row] /\ member' = member /\ late' = late
  BY DEF Scan, TypeInv, TypeOK, telegram
<1>2. /\ Worker \in Runners /\ Due(row[c]) \in SUBSET Actions
      /\ runner' = Started(Worker, c, row[c], Due(row[c]))
  BY NoneIsNoAction, DueKinds DEF Scan
<1>3. row[c].state # "NONE" => row[c].generation # 0
  BY DEF SpeakInv, JoinedBefore
<1>4. /\ Ready(Worker)' /\ ~Restricts(Worker)'
      /\ \A q \in Runners : q # Worker => runner'[q] = runner[q]
  BY <1>1, <1>2, <1>3, StartedReady
<1>5. {Worker} \in SUBSET Runners
  BY <1>2
<1>6. row' = [row EXCEPT ![c] = row[c]] /\ Onward({Worker}, c, row[c])
  BY <1>1, <1>5, OnwardPlain
<1> QED BY <1>1, <1>2, <1>4, <1>6, StoreSpeaks

LEMMA HandleJoinSpeaks ==
  ASSUME TypeInv, SpeakInv, TypeInv', NEW p \in Runners, NEW c \in Chats,
         NEW admin \in BOOLEAN, handle_join(p, c, admin)
  PROVE  SpeakInv'
<1> DEFINE r == Joined(row[c], admin)
<1>1. /\ runner \in [Runners -> RunnerState] /\ row \in [Chats -> Row] /\ row' \in [Chats -> Row]
      /\ member' = member /\ late' = late /\ {p} \in SUBSET Runners
  BY DEF TypeInv, TypeOK, handle_join
<1>2. row' = [row EXCEPT ![c] = r] /\ runner' = Started(p, c, row'[c], Due(row'[c]))
  BY DEF handle_join, Store
<1>3. row'[c] = r /\ \A d \in Chats : d # c => row'[d] = row[d]
  BY <1>1, <1>2
<1>4. r \in Row
  BY <1>1, <1>3
<1>5. \/ r = row[c]
      \/ /\ r.generation = row[c].generation + 1 /\ r.unmuted = FALSE
         /\ r.state \in {"EXEMPT", "ACTIVE", "RESTRICT_PENDING"}
  <2>1. CASE row[c].state \notin Gone \cup {"NONE"}
    BY <2>1 DEF Joined
  <2>2. CASE row[c].state \in Gone \cup {"NONE"}
    BY <2>2 DEF Joined, NoRow
  <2> QED BY <2>1, <2>2
<1> HIDE DEF r
<1>6. r.state # "NONE" => r.generation # 0
  <2>1. CASE r = row[c]
    BY <2>1 DEF SpeakInv, JoinedBefore
  <2>2. CASE r.generation = row[c].generation + 1
    <3>1. PICK n \in Nat : row[c].generation = n
      BY GenerationsAreNumbers
    <3> QED BY <2>2, <3>1
  <2> QED BY <1>5, <2>1, <2>2
<1>7. /\ Ready(p)' /\ ~Restricts(p)'
      /\ \A q \in Runners : q # p => runner'[q] = runner[q]
  <2>1. runner' = Started(p, c, r, Due(r)) /\ Due(r) \in SUBSET Actions
    BY <1>2, <1>3, DueKinds
  <2> QED BY <1>1, <1>4, <1>6, <2>1, StartedReady
<1>8. ASSUME NEW d \in Chats PROVE Moves({p}, d)
  <2>1. CASE d = c /\ r # row[c]
    BY <1>3, <1>5, <2>1 DEF Moves, Speaking
  <2>2. CASE d # c \/ r = row[c]
    <3>1. row'[d] = row[d]
      BY <1>3, <2>2
    <3> QED BY <1>1, <3>1, OnwardPlain DEF Moves
  <2> QED BY <2>1, <2>2
<1>9. /\ \A q \in Runners \ {p} : runner'[q] = runner[q]
      /\ \A q \in {p} : Ready(q)' /\ (Restricts(q)' => ~LateKept(row[runner'[q].chat]))
  BY <1>7
<1> QED BY <1>1, <1>8, <1>9, SpeakStep

LEMMA HandleLeftSpeaks ==
  ASSUME TypeInv, SpeakInv, NEW p \in Runners, NEW c \in Chats, handle_left(p, c)
  PROVE  SpeakInv'
<1>1. /\ runner \in [Runners -> RunnerState] /\ row \in [Chats -> Row] /\ row' = row
      /\ row[c] \in Row /\ member' = member /\ late' = late
  BY DEF handle_left, TypeInv, TypeOK
<1>2. CASE runner' = runner
  BY <1>1, <1>2 DEF SpeakInv, JoinedBefore, LateAlone, Spoken, FirstTime, Restricts,
     Released, Current, RowOf
<1>3. CASE row[c].state # "NONE" /\ runner' = [runner EXCEPT ![p] = AbsentFrom(c)]
  <2>1. runner'[p] = AbsentFrom(c) /\ \A q \in Runners : q # p => runner'[q] = runner[q]
    BY <1>1, <1>3
  <2>2. AbsentFrom(c).step = "absent" /\ AbsentFrom(c).generation = row[c].generation
    BY <1>1, AbsentRunner
  <2>3. Ready(p)' /\ ~Restricts(p)'
    BY <1>3, <2>1, <2>2 DEF Ready, Restricts, SpeakInv, JoinedBefore
  <2>4. {p} \in SUBSET Runners
    OBVIOUS
  <2>5. row' = [row EXCEPT ![c] = row[c]] /\ Onward({p}, c, row[c])
    BY <1>1, <2>4, OnwardPlain
  <2> QED BY <1>1, <2>1, <2>3, <2>5, StoreSpeaks
<1> QED BY <1>2, <1>3 DEF handle_left, AbsentFrom

\* Rows that change without a runner.
LEMMA RowsSpeak ==
  ASSUME TypeInv, SpeakInv, runner' = runner, member' = member, late' = late,
         \A d \in Chats : Onward({}, d, row'[d])
  PROVE  SpeakInv'
<1>1. {} \in SUBSET Runners /\ \A q \in Runners \ {} : runner'[q] = runner[q]
  OBVIOUS
<1>2. \A d \in Chats : Moves({}, d)
  BY DEF Moves
<1>3. \A q \in {} : Ready(q)' /\ (Restricts(q)' => ~LateKept(row[runner'[q].chat]))
  OBVIOUS
<1> QED BY <1>1, <1>2, <1>3, SpeakStep

LEMMA QueueSpeaks ==
  ASSUME TypeInv, SpeakInv, queue_unmute_for_user
  PROVE  SpeakInv'
<1>1. /\ row \in [Chats -> Row] /\ row' = [c \in Chats |-> Queued(row[c])]
      /\ runner' = runner /\ member' = member /\ late' = late
  BY DEF queue_unmute_for_user, TypeInv, TypeOK, telegram
<1>2. {} \in SUBSET Runners
  OBVIOUS
<1>3. ASSUME NEW d \in Chats PROVE Onward({}, d, row'[d])
  <2>1. row'[d] = Queued(row[d])
    BY <1>1
  <2> QED BY <1>2, <2>1, OnwardPlain
<1> QED BY <1>1, <1>3, RowsSpeak

LEMMA TimesSpeaks ==
  ASSUME TypeInv, SpeakInv, ~SlowCalls, NEW c \in Chats,
         \/ DeadlinePasses(c) \/ RetryPasses(c) \/ \E t \in Tokens : verify_token(c, t)
  PROVE  SpeakInv'
<1> DEFINE due == [row[c] EXCEPT !.deadline = "reached"]
           free == [row[c] EXCEPT !.retry = "reached"]
<1>1. /\ row \in [Chats -> Row] /\ row[c] \in Row /\ runner' = runner
      /\ member' = member /\ late' = late
  BY DEF TypeInv, TypeOK, DeadlinePasses, RetryPasses, verify_token, telegram
<1>2. PICK r \in {due, free, VerifiedOf(row[c])} :
        /\ row' = [row EXCEPT ![c] = r]
        /\ \/ r = due
           \/ r = free /\ ~InFlight(c)
           \/ r = VerifiedOf(row[c]) /\ row[c].state = "MUTED"
  BY DEF DeadlinePasses, RetryPasses, verify_token, VerifiedOf
<1>3. /\ due.generation = row[c].generation /\ free.generation = row[c].generation
      /\ due.state = row[c].state /\ due.retry = row[c].retry
      /\ due.attempt = row[c].attempt /\ due.action = row[c].action
      /\ due.unmuted = row[c].unmuted
      /\ free.state = row[c].state /\ free.attempt = row[c].attempt
      /\ free.action = row[c].action /\ free.unmuted = row[c].unmuted
  BY <1>1 DEF Row
<1> HIDE DEF due, free
<1>4. r.generation = row[c].generation /\ r.state = row[c].state
  BY <1>1, <1>2, <1>3, VerifiedRow
<1>5. <<c, "RESTRICT">> \in late /\ LateKept(row[c]) => LateKept(r)
  <2>1. CASE r = due
    BY <1>3, <2>1 DEF LateKept
  <2>2. CASE ~InFlight(c)
    BY <2>2 DEF InFlight, Actions
  <2>3. CASE row[c].state = "MUTED"
    BY <2>3 DEF LateKept, Gone
  <2> QED BY <1>2, <2>1, <2>2, <2>3
<1>6. Speaking(r) => Speaking(row[c])
  BY <1>2, <1>3, <1>4 DEF Speaking
<1>7. \A q \in Runners : ReleaseOf(r, q) => ReleaseOf(row[c], q)
  BY <1>2, <1>3, <1>4 DEF ReleaseOf
<1>8. Onward({}, c, r)
  BY <1>4, <1>5, <1>6, <1>7 DEF Onward
<1>9. ASSUME NEW d \in Chats PROVE Onward({}, d, row'[d])
  <2>1. CASE d = c
    <3>1. row'[d] = r
      BY <1>1, <1>2, <2>1
    <3> QED BY <1>8, <2>1, <3>1
  <2>2. CASE d # c
    <3>1. row'[d] = row[d]
      BY <1>1, <1>2, <2>2
    <3>2. {} \in SUBSET Runners
      OBVIOUS
    <3> QED BY <3>1, <3>2, OnwardPlain
  <2> QED BY <2>1, <2>2
<1> QED BY <1>1, <1>9, RowsSpeak


\* The first time a person is in the chat, the row knows of a restriction on its way, with
\* its runner or without, and then the person neither was released nor is about to be.
LEMMA NobodyRestricts ==
  ASSUME TypeInv, RequestInv, SpeakInv, NEW c \in Chats, FirstTime(c),
         \/ <<c, "RESTRICT">> \in late
         \/ \E p \in Runners :
              Calling(p) /\ runner[p].kind = "RESTRICT" /\ runner[p].chat = c
  PROVE  /\ row[c].generation # 0 /\ LateKept(row[c])
         /\ ~Speaking(row[c]) /\ \A q \in Runners : ~ReleaseOf(row[c], q)
<1>1. row[c].generation # 0 /\ LateKept(row[c])
  <2>1. CASE <<c, "RESTRICT">> \in late
    BY <2>1 DEF SpeakInv, LateAlone
  <2>2. ASSUME NEW p \in Runners, Calling(p), runner[p].kind = "RESTRICT", runner[p].chat = c
        PROVE  row[c].generation # 0 /\ LateKept(row[c])
    <3>1. runner[p].generation # 0 /\ runner[p].generation <= row[c].generation
      BY <2>2 DEF SpeakInv, JoinedBefore, RequestInv, Behind, RowOf, Calling
    <3>2. runner[p].generation \in Nat /\ row[c].generation \in {0, 1}
      BY GenerationsAreNumbers DEF FirstTime
    <3>3. runner[p].generation = row[c].generation /\ row[c].generation # 0
      BY <3>1, <3>2
    <3>4. KeptIn(p, row[c])
      BY <2>2, <3>3 DEF RequestInv, ClaimsKept, AskingOf, Asking
    <3> QED BY <2>2, <3>3, <3>4, NoneIsNoAction DEF KeptIn, LateKept
  <2> QED BY <2>1, <2>2
<1>2. ~Speaking(row[c]) /\ \A q \in Runners : ~ReleaseOf(row[c], q)
  BY <1>1, NoneIsNoAction DEF LateKept, Gone, Speaking, ReleaseOf
<1> QED BY <1>1, <1>2

\* Steps of Telegram and answers: rows stay, and who was released is not muted by them.
LEMMA AnswerSpeaks ==
  ASSUME SpeakInv, row' = row, late' \subseteq late,
         \A q \in Runners :
           /\ runner'[q].chat = runner[q].chat /\ runner'[q].generation = runner[q].generation
           /\ runner'[q].step # "idle" => runner[q].step # "idle"
           /\ Restricts(q)' => Restricts(q)
           /\ Released(q)' => Released(q) \/ ~member'[runner[q].chat].muted,
         \A d \in Chats :
           FirstTime(d) /\ (Speaking(row[d]) \/ \E q \in Runners : runner[q].chat = d /\ Released(q))
             => ~member'[d].muted
  PROVE  SpeakInv'
<1>1. JoinedBefore'
  BY DEF SpeakInv, JoinedBefore
<1>2. LateAlone'
  <2>1. ASSUME NEW d \in Chats, <<d, "RESTRICT">> \in late', FirstTime(d)'
        PROVE  /\ row'[d].generation # 0 /\ LateKept(row'[d])
               /\ \A q \in Runners : Restricts(q)' => runner'[q].chat # d
    <3>1. <<d, "RESTRICT">> \in late /\ FirstTime(d)
      BY <2>1 DEF FirstTime
    <3>2. /\ row[d].generation # 0 /\ LateKept(row[d])
          /\ \A q \in Runners : Restricts(q) => runner[q].chat # d
      BY <3>1 DEF SpeakInv, LateAlone
    <3> QED BY <3>2
  <2> QED BY <2>1 DEF LateAlone
<1>3. Spoken'
  <2>1. ASSUME NEW d \in Chats, FirstTime(d)',
               Speaking(row'[d]) \/ \E q \in Runners : runner'[q].chat = d /\ Released(q)'
        PROVE  ~member'[d].muted
    <3>1. FirstTime(d)
      BY <2>1 DEF FirstTime
    <3>2. CASE Speaking(row'[d])
      BY <3>1, <3>2
    <3>3. ASSUME NEW q \in Runners, runner'[q].chat = d, Released(q)' PROVE ~member'[d].muted
      <4>1. runner[q].chat = d /\ (Released(q) \/ ~member'[d].muted)
        BY <3>3
      <4> QED BY <3>1, <4>1
    <3> QED BY <2>1, <3>2, <3>3
  <2> QED BY <2>1 DEF Spoken
<1> QED BY <1>1, <1>2, <1>3 DEF SpeakInv

\* Only a restriction mutes, and a release that finds the person in the chat unmutes.
LEMMA LandsMuted ==
  ASSUME TypeOK, NEW c \in Chats, NEW kind, Lands(c, kind) \/ UNCHANGED <<member, updates>>
  PROVE  /\ \A d \in Chats : member'[d].muted => member[d].muted \/ (d = c /\ kind = "RESTRICT")
         /\ Lands(c, kind) /\ kind = "UNMUTE" /\ member[c].present => ~member'[c].muted
<1>1. member \in [Chats -> [present : BOOLEAN, muted : BOOLEAN]]
  BY DEF TypeOK
<1>2. CASE UNCHANGED <<member, updates>> /\ ~Lands(c, kind)
  BY <1>2
<1>3. CASE kind = "RESTRICT" /\ Lands(c, kind)
  <2>1. member' = [member EXCEPT ![c].muted = @ \/ member[c].present]
    BY <1>3 DEF Lands
  <2> QED BY <1>1, <1>3, <2>1
<1>4. CASE kind = "UNMUTE" /\ Lands(c, kind)
  <2>1. member' = [member EXCEPT ![c] = [member[c] EXCEPT !.muted = @ /\ ~member[c].present]]
    BY <1>4 DEF Lands
  <2>2. /\ \A d \in Chats : d # c => member'[d] = member[d]
        /\ member'[c] = [member[c] EXCEPT !.muted = @ /\ ~member[c].present]
    BY <1>1, <2>1
  <2>3. member'[c].muted = (member[c].muted /\ ~member[c].present)
    BY <1>1, <2>2
  <2> QED BY <1>4, <2>2, <2>3
<1>5. CASE kind = "REMOVE" /\ Lands(c, kind)
  <2>1. member' = [member EXCEPT ![c] = [present |-> FALSE, muted |-> FALSE]]
    BY <1>5 DEF Lands
  <2> QED BY <1>1, <1>5, <2>1
<1>6. CASE kind \notin {"RESTRICT", "UNMUTE", "REMOVE"} /\ Lands(c, kind)
  BY <1>6 DEF Lands
<1> QED BY <1>2, <1>3, <1>4, <1>5, <1>6

\* What lands in c: nobody who was released is muted, as nothing restricts c then.
LEMMA LandingSpoken ==
  ASSUME TypeInv, RequestInv, SpeakInv, NEW c \in Chats, NEW kind,
         Lands(c, kind) \/ UNCHANGED <<member, updates>>,
         kind = "RESTRICT" =>
           \/ <<c, "RESTRICT">> \in late
           \/ \E p \in Runners :
                Calling(p) /\ runner[p].kind = "RESTRICT" /\ runner[p].chat = c,
         NEW d \in Chats, FirstTime(d),
         Speaking(row[d]) \/ \E q \in Runners : runner[q].chat = d /\ Released(q)
  PROVE  ~member'[d].muted
<1>1. member'[d].muted => member[d].muted \/ (d = c /\ kind = "RESTRICT")
  BY LandsMuted DEF TypeInv
<1>2. ~member[d].muted
  BY DEF SpeakInv, Spoken
<1>3. Speaking(row[d]) \/ \E q \in Runners : ReleaseOf(row[d], q)
  BY DEF Released, RowOf
<1>4. ~(d = c /\ kind = "RESTRICT")
  BY <1>3, NobodyRestricts
<1> QED BY <1>1, <1>2, <1>4

LEMMA SameReleases ==
  ASSUME NEW q \in Runners, row' = row, runner'[q] = runner[q]
  PROVE  (Released(q)' <=> Released(q)) /\ (Restricts(q)' <=> Restricts(q))
BY DEF Released, Restricts, Current, RowOf

LEMMA AnsweredSpeaks ==
  ASSUME TypeInv, RequestInv, SpeakInv, ~SlowCalls, NEW p \in Runners,
         Answered(p) \/ Unanswered(p)
  PROVE  SpeakInv'
<1> DEFINE c == runner[p].chat
           kind == runner[p].kind
<1>1. /\ runner \in [Runners -> RunnerState] /\ row' = row /\ Calling(p)
      /\ runner[p].step = "call" /\ late' \subseteq late
      /\ Lands(c, kind) \/ UNCHANGED <<member, updates>>
      /\ \E step \in {"done", "failed", "absent"} :
           /\ runner' = [runner EXCEPT ![p].step = step]
           /\ step = "done" /\ kind = "UNMUTE" => Lands(c, kind) /\ member[c].present
  BY DEF Answered, Unanswered, TypeInv, TypeOK, Calling
<1>2. PICK step \in {"done", "failed", "absent"} :
        /\ runner' = [runner EXCEPT ![p].step = step]
        /\ step = "done" /\ kind = "UNMUTE" => Lands(c, kind) /\ member[c].present
  BY <1>1
<1>3. /\ runner'[p] = [runner[p] EXCEPT !.step = step]
      /\ \A q \in Runners : q # p => runner'[q] = runner[q]
  BY <1>1, <1>2, SteppingRunner
<1>4. /\ runner'[p].step = step /\ runner'[p].chat = c /\ runner'[p].kind = kind
      /\ runner'[p].generation = runner[p].generation
  <2>1. runner[p] \in RunnerState
    BY <1>1
  <2> QED BY <1>3, <2>1 DEF RunnerState
<1>5. c \in Chats
  BY <1>1, WorkingRow
<1>6. ASSUME NEW d \in Chats, FirstTime(d),
             Speaking(row[d]) \/ \E q \in Runners : runner[q].chat = d /\ Released(q)
      PROVE  ~member'[d].muted
  <2>1. kind = "RESTRICT" =>
          \E q \in Runners : Calling(q) /\ runner[q].kind = "RESTRICT" /\ runner[q].chat = c
    BY <1>1
  <2>2. Lands(c, kind) \/ UNCHANGED <<member, updates>>
    BY <1>1
  <2> HIDE DEF c, kind
  <2> QED BY <1>5, <1>6, <2>1, <2>2, LandingSpoken
<1>7. ASSUME NEW q \in Runners
      PROVE  /\ runner'[q].chat = runner[q].chat /\ runner'[q].generation = runner[q].generation
             /\ runner'[q].step # "idle" => runner[q].step # "idle"
             /\ Restricts(q)' => Restricts(q)
             /\ Released(q)' => Released(q) \/ ~member'[runner[q].chat].muted
  <2>1. CASE q # p
    <3>1. runner'[q] = runner[q]
      BY <1>3, <2>1
    <3> QED BY <1>1, <3>1, SameReleases
  <2>2. CASE q = p
    <3>1. Restricts(p)' => Restricts(p)
      BY <1>1, <1>4 DEF Restricts
    <3>2. ASSUME Released(p)' PROVE ~member'[c].muted
      <4>1. kind = "UNMUTE" /\ step = "done"
        BY <1>4, <3>2 DEF Released
      <4>2. Lands(c, kind) /\ member[c].present
        BY <1>2, <4>1
      <4> HIDE DEF c, kind
      <4> QED BY <1>5, <4>1, <4>2, LandsMuted DEF TypeInv
    <3> QED BY <1>1, <1>4, <2>2, <3>1, <3>2
  <2> QED BY <2>1, <2>2
<1> QED BY <1>1, <1>6, <1>7, AnswerSpeaks

LEMMA LateLandsSpeaks ==
  ASSUME TypeInv, RequestInv, SpeakInv, NEW c \in Chats, NEW k \in Actions, LateLands(c, k)
  PROVE  SpeakInv'
<1>1. /\ row' = row /\ runner' = runner /\ late' \subseteq late
      /\ Lands(c, k) \/ UNCHANGED <<member, updates>>
      /\ k = "RESTRICT" => <<c, "RESTRICT">> \in late
  BY DEF LateLands
<1>2. ASSUME NEW d \in Chats, FirstTime(d),
             Speaking(row[d]) \/ \E q \in Runners : runner[q].chat = d /\ Released(q)
      PROVE  ~member'[d].muted
  BY <1>1, <1>2, LandingSpoken
<1>3. \A q \in Runners : (Released(q)' <=> Released(q)) /\ (Restricts(q)' <=> Restricts(q))
  BY <1>1, SameReleases
<1> QED BY <1>1, <1>2, <1>3, AnswerSpeaks

\* Joining and leaving mute nobody; binding and unbinding change no row.
LEMMA PersonSpeaks ==
  ASSUME TypeInv, SpeakInv,
         \/ Binds
         \/ \E c \in Chats : (\E admin \in BOOLEAN : Joins(c, admin)) \/ Leaves(c)
  PROVE  SpeakInv'
<1>1. /\ row' = row /\ runner' = runner /\ late' = late
      /\ member \in [Chats -> [present : BOOLEAN, muted : BOOLEAN]]
  BY DEF Binds, Joins, Leaves, telegram, TypeInv, TypeOK
<1>2. \/ member' = member
      \/ \E c \in Chats, b \in BOOLEAN : member' = [member EXCEPT ![c].present = b]
  BY DEF Binds, Joins, Leaves, telegram
<1>3. \A d \in Chats : member'[d].muted = member[d].muted
  BY <1>1, <1>2
<1>4. \A d \in Chats :
        FirstTime(d) /\ (Speaking(row[d]) \/ \E q \in Runners : runner[q].chat = d /\ Released(q))
          => ~member'[d].muted
  BY <1>3 DEF SpeakInv, Spoken
<1>5. \A q \in Runners : (Released(q)' <=> Released(q)) /\ (Restricts(q)' <=> Restricts(q))
  BY <1>1, SameReleases
<1> QED BY <1>1, <1>4, <1>5, AnswerSpeaks

\* A restart takes the runner from a restriction on its way; its claim stays in the row.
LEMMA RestartSpeaks ==
  ASSUME TypeInv, RequestInv, SpeakInv, Restart
  PROVE  SpeakInv'
<1>1. row' = row /\ member' = member /\ \A q \in Runners : runner'[q] = Idle
  BY DEF Restart
<1>2. \A q \in Runners : Ready(q)' /\ ~Restricts(q)' /\ ~Released(q)' /\ runner'[q].step = "idle"
  BY <1>1 DEF Ready, Restricts, Released, Idle
<1>3. JoinedBefore'
  BY <1>1, <1>2 DEF SpeakInv, JoinedBefore
<1>4. ASSUME NEW d \in Chats, <<d, "RESTRICT">> \in late', FirstTime(d)'
      PROVE  /\ row'[d].generation # 0 /\ LateKept(row'[d])
             /\ \A q \in Runners : Restricts(q)' => runner'[q].chat # d
  <2>1. FirstTime(d)
    BY <1>1, <1>4 DEF FirstTime
  <2>2. \/ <<d, "RESTRICT">> \in late
        \/ \E p \in Runners :
             Calling(p) /\ runner[p].kind = "RESTRICT" /\ runner[p].chat = d
    BY <1>4 DEF Restart
  <2>3. row[d].generation # 0 /\ LateKept(row[d])
    BY <2>1, <2>2, NobodyRestricts
  <2> QED BY <1>1, <1>2, <2>3
<1>5. LateAlone'
  BY <1>4 DEF LateAlone
<1>6. Spoken'
  BY <1>1, <1>2 DEF SpeakInv, Spoken, FirstTime
<1> QED BY <1>3, <1>5, <1>6 DEF SpeakInv

LEMMA StepsSpeak ==
  ASSUME TypeInv, RequestInv, SpeakInv, ~SlowCalls, NEW p \in Runners, Steps(p) \/ Unanswered(p)
  PROVE  SpeakInv'
<1>1. CASE Answered(p) \/ Unanswered(p)
  BY <1>1, AnsweredSpeaks
<1>2. CASE claim_restriction(p) \/ claim_unmute(p) \/ claim_removal(p)
  BY <1>2, ClaimRestrictionSpeaks, ClaimUnmuteSpeaks, ClaimRemovalSpeaks
<1>3. CASE issue_verification_token(p)
  BY <1>3, IssueSpeaks
<1>4. CASE confirm_restriction(p)
  BY <1>4, ConfirmRestrictionSpeaks
<1>5. CASE \/ confirm_unmute(p) \/ confirm_removal(p) \/ fail_action(p)
           \/ mark_notification_success(p) \/ mark_notification_failure(p) \/ mark_left(p)
  BY <1>5, ResultsSpeaks
<1> QED BY <1>1, <1>2, <1>3, <1>4, <1>5 DEF Steps

LEMMA NextSpeaks ==
  ASSUME TypeInv, RequestInv, SpeakInv, ~SlowCalls, [Next]_vars
  PROVE  SpeakInv'
<1>1. CASE Person
  <2>1. CASE Binds \/ (\E c \in Chats : (\E admin \in BOOLEAN : Joins(c, admin)) \/ Leaves(c))
    BY <2>1, PersonSpeaks
  <2>2. CASE \E c \in Chats, t \in Tokens : verify_token(c, t)
    BY <2>2, TimesSpeaks
  <2> QED BY <1>1, <2>1, <2>2 DEF Person
<1>2. CASE Clock
  BY <1>2, TimesSpeaks DEF Clock
<1>3. CASE queue_unmute_for_user
  BY <1>3, QueueSpeaks
<1>4. ASSUME NEW c \in Chats,
             Scan(c) \/ (\E p \in Handlers : Handles(p, c)) \/ (\E k \in Actions : LateLands(c, k))
      PROVE  SpeakInv'
  <2>1. CASE \E p \in Handlers : Handles(p, c)
    <3>1. PICK p \in Handlers : Handles(p, c)
      BY <2>1
    <3>2. p \in Runners
      BY DEF Runners
    <3>3. CASE handle_left(p, c)
      BY <3>2, <3>3, HandleLeftSpeaks
    <3>4. ASSUME NEW admin \in BOOLEAN, handle_join(p, c, admin) PROVE SpeakInv'
      <4>1. TypeInv'
        BY <3>2, <3>4, HandleJoinType
      <4> QED BY <3>2, <3>4, <4>1, HandleJoinSpeaks
    <3> QED BY <3>1, <3>3, <3>4 DEF Handles
  <2> QED BY <1>4, <2>1, ScanSpeaks, LateLandsSpeaks
<1>5. CASE \E p \in Runners : Steps(p) \/ Unanswered(p)
  BY <1>5, StepsSpeak
<1>6. CASE Restart
  BY <1>6, RestartSpeaks
<1>7. CASE UNCHANGED vars
  BY <1>7 DEF vars, telegram, SpeakInv, JoinedBefore, LateAlone, Spoken, FirstTime, Restricts,
     Released, Current, RowOf
<1> QED BY <1>1, <1>2, <1>3, <1>4, <1>5, <1>6, <1>7 DEF Next

LEMMA InitSpeaks ==
  ASSUME Init
  PROVE  RequestInv /\ SpeakInv
<1>1. /\ \A p \in Runners : runner[p] = Idle
      /\ \A c \in Chats : row[c] = NoRow
      /\ late = {}
  BY DEF Init
<1>2. RequestInv
  BY <1>1 DEF RequestInv, ClaimsKept, AskingOf, Asking, Calling, Behind, Idle, OneRequestAtATime
<1>3. SpeakInv
  BY <1>1 DEF SpeakInv, JoinedBefore, LateAlone, Spoken, Speaking, Released, Idle, NoRow
<1> QED BY <1>2, <1>3

\* Who joined a chat once and was released there by the worker is not muted.
FirstReleases == \A c \in Chats : FirstTime(c) /\ Speaking(row[c]) => ~member[c].muted

\* As long as no request outlives the lease of its claim, a person who joined a chat for the
\* first time and was released there by the worker is not restricted, however often answers
\* were lost, requests refused and the process restarted while the person was restricted.
THEOREM FirstReleasesAreHeard == ASSUME ~SlowCalls PROVE Spec => []FirstReleases
<1>1. Init => TypeInv /\ RequestInv /\ SpeakInv
  BY InitType, InitSpeaks
<1>2. TypeInv /\ RequestInv /\ SpeakInv /\ [Next]_vars => TypeInv' /\ RequestInv' /\ SpeakInv'
  BY NextType, NextKept, NextSpeaks
<1>3. SpeakInv => FirstReleases
  BY DEF SpeakInv, Spoken, FirstReleases
<1> QED BY <1>1, <1>2, <1>3, PTL DEF Spec

\* Where nobody joins a chat twice, every person released by the worker can speak.  A second
\* membership may be muted by a restriction of the first that lands late.
THEOREM ReleasesAreHeard == ASSUME ~SlowCalls, MaxJoins = 1 PROVE Spec => []ReleasedCanSpeak
<1>1. Init => TypeInv /\ RequestInv /\ SpeakInv
  BY InitType, InitSpeaks
<1>2. TypeInv /\ RequestInv /\ SpeakInv /\ [Next]_vars => TypeInv' /\ RequestInv' /\ SpeakInv'
  BY NextType, NextKept, NextSpeaks
<1>3. TypeInv /\ SpeakInv => ReleasedCanSpeak
  <2>1. ASSUME TypeInv, NEW c \in Chats PROVE FirstTime(c)
    BY <2>1 DEF TypeInv, TypeOK, Row, Generations, FirstTime
  <2> QED BY <2>1 DEF SpeakInv, Spoken, Speaking, ReleasedCanSpeak
<1> QED BY <1>1, <1>2, <1>3, PTL DEF Spec
=============================================================================
