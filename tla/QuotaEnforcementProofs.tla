------------------------- MODULE QuotaEnforcementProofs -------------------------
(***************************************************************************)
(* Safety of QuotaEnforcement: a quota revocation is sent only while it    *)
(* applies and only to a user over the limit, a revoked user does not come *)
(* back in the round, a confirmation that users are told is true, and a    *)
(* transfer neither creates money nor puts anybody over the limit, for any *)
(* number of users, rounds, tickets and rows, any limits and any bounds.   *)
(***************************************************************************)
EXTENDS QuotaEnforcement, SumTheorems, TLAPS

\* The moment of a run is past.  A run that revokes has a ticket, one that concludes
\* has an outcome, one that sends a message has a notice.
RunInv ==
  /\ loop.at <= clock /\ (loop.step # "idle" => loop.at >= 1)
  /\ loop.step \in {"revoke", "arm", "post", "conclude"} => loop.tickets # <<>>
  /\ loop.step = "conclude" => loop.outcome # ""
  /\ loop.step = "send" => loop.notice # <<>>

\* A round that has not begun has no row, no use and no lock.
FutureIsBlank ==
  \A r \in Rounds : r > RoundOf(clock) =>
    /\ cycle[r].status = "NONE"
    /\ \A u \in Users : ledger[u][r].used = None /\ ~ledger[u][r].locked

\* Whoever is at the limit of the round, or locked in it, is known to have been over it.
OverIsKnown ==
  \A u \in Users :
    Reached(u, RoundOf(clock)) \/ ledger[u][RoundOf(clock)].locked => <<u, RoundOf(clock)>> \in over

\* Whoever was sent a revocation was over the limit, and is locked for good.
SentIsLocked ==
  /\ sent \subseteq over
  /\ \A u \in Users, r \in Rounds : <<u, r>> \in sent => ledger[u][r].locked

EndedSince(u, r) == \E p \in past[u] : RoundOf(p.ended) >= r

InUse(u) == slot[u].state \notin {"NONE", "PENDING_AUTH"}

PastRow == [id : Nat, began : 1 .. MaxClock, ended : 1 .. MaxClock, reason : {"QUOTA", "OTHER"}]

\* Only an association in use is revoked, and only a request for one approves it.
SlotsSound ==
  /\ past \in [Users -> SUBSET PastRow]
  /\ \A u \in Users :
       /\ slot[u].state # "NONE" => slot[u].began >= 1
       /\ slot[u].approving => slot[u].state = "PENDING_AUTH"
       /\ slot[u].armed \/ slot[u].action # "NONE" => InUse(u)
       /\ slot[u].action \in {"PENDING", "UNKNOWN"} => slot[u].state # "ACTIVE"

\* Between the reservation of a quota revocation and its answer nobody else settles it.
RevocationStands ==
  loop.step \in {"arm", "post"} =>
    LET s == slot[Head(loop.tickets).user] IN
    /\ s.reason = "QUOTA" /\ s.action \in {"PENDING", "UNKNOWN"}
    /\ loop.step = "arm" => s.state = "PENDING_REVOKE" /\ s.action = "PENDING" /\ ~s.armed
    /\ loop.step = "post" => s.armed

\* A ticket is for an association in use, unless it has ended since the round began.
TicketsHold ==
  \A i \in DOMAIN loop.tickets :
    LET t == loop.tickets[i] IN
    /\ t.round <= RoundOf(clock)
    /\ (slot[t.user].id = t.id /\ InUse(t.user)) \/ EndedSince(t.user, t.round)

\* What a run concludes and what a notice says of a revocation is true.
SuccessIsTrue ==
  /\ loop.step = "conclude" /\ loop.outcome = "SUCCEEDED" =>
       EndedSince(Head(loop.tickets).user, Head(loop.tickets).round)
  /\ \A u \in Users, r \in Rounds :
       notice[u][r]["REACHED"].revoke = "SUCCEEDED" => EndedSince(u, r)
  /\ ConfirmationIsTrue

QuotaInv ==
  /\ TypeOK /\ RunInv
  /\ FutureIsBlank /\ OverIsKnown /\ SentIsLocked
  /\ SlotsSound /\ RevocationStands
  /\ TicketsHold /\ SuccessIsTrue

-----------------------------------------------------------------------------
(* Numbers and rounds.                                                     *)

LEMMA LongestClock == MaxClock \in Nat /\ \A b \in Bounds : b.clock <= MaxClock
<1>1. PICK longest \in Bounds : \A b \in Bounds : b.clock <= longest.clock
  BY BoundAssumption
<1>2. \A b \in Bounds : b.clock \in Nat
  BY BoundAssumption
<1>3. \E n \in {b.clock : b \in Bounds} : \A b \in Bounds : b.clock <= n
  BY <1>1
<1> QED BY <1>2, <1>3 DEF MaxClock

LEMMA ZeroTyped == 0 \in 0 .. MaxClock
<1>1. PICK n \in Nat : n = MaxClock
  BY LongestClock
<1>2. 0 \in 0 .. n
  OBVIOUS
<1> QED BY <1>1, <1>2

LEMMA RoundsGrow ==
  ASSUME NEW t \in Nat, NEW v \in Nat, t <= v
  PROVE  RoundOf(t) \in Nat /\ RoundOf(v) \in Nat /\ RoundOf(t) <= RoundOf(v)
BY DEF RoundOf

LEMMA RoundsTyped ==
  /\ Rounds \subseteq Nat \ {0}
  /\ \A t \in 1 .. MaxClock : RoundOf(t) \in Rounds
<1>1. RoundOf(MaxClock) \in Nat
  BY LongestClock DEF RoundOf
<1>2. \A t \in 1 .. MaxClock : RoundOf(t) \in 1 .. RoundOf(MaxClock)
  BY LongestClock DEF RoundOf
<1> QED BY <1>1, <1>2 DEF Rounds

\* The parts of the type invariant.
ClockType ==
  /\ clock \in 1 .. MaxClock
  /\ task \in [running : BOOLEAN, gate : BOOLEAN, limit : Limits]
  /\ cycle \in [Rounds -> CycleRow]
  /\ count \in [auths : Nat, changes : Nat, faults : Nat, entries : Nat] /\ Within(clock, count)
LedgersType ==
  /\ ledger \in [Users -> [Rounds -> LedgerRow]]
  /\ \A u \in Users, r \in Rounds :
       /\ ledger[u][r].unlocked => ledger[u][r].locked
       /\ ledger[u][r].verified => ledger[u][r].used # None
BookType ==
  /\ created \in Seq(Users \X Rounds) /\ IsInjective(created)
  /\ \A a \in adj : a \in [key : Keys, side : {"out", "in", "adjust"}, user : Users,
                           round : Rounds, amount : Int]
SlotsType == slot \in [Users -> SlotRow] /\ \A u \in Users : \A p \in past[u] : p \in PastRow
NoticesType == notice \in [Users -> [Rounds -> [Events -> NoticeRow]]]
LoopType == loop \in LoopState /\ loop.targets \subseteq DOMAIN created
HistoryType ==
  /\ over \subseteq Users \X Rounds /\ sent \subseteq Users \X Rounds
  /\ said \subseteq Users \X Rounds \X Statuses
Typed == /\ ClockType /\ LedgersType /\ BookType /\ SlotsType /\ NoticesType /\ LoopType
         /\ HistoryType

LEMMA TypeParts == (TypeOK <=> Typed) /\ (TypeOK' <=> Typed')
BY DEF TypeOK, Typed, ClockType, LedgersType, BookType, PastRow, SlotsType, NoticesType, LoopType,
       HistoryType

LEMMA ClockTyped ==
  ASSUME ClockType
  PROVE  /\ clock \in Nat /\ clock >= 1 /\ clock <= MaxClock /\ clock \in 0 .. MaxClock
         /\ RoundOf(clock) \in Rounds /\ RoundOf(clock) \in Nat /\ clock <= clock
<1>1. PICK n \in Nat : n = MaxClock
  BY LongestClock
<1>2. clock \in 1 .. n
  BY <1>1 DEF ClockType
<1>3. clock \in Nat /\ clock >= 1 /\ clock <= n /\ clock \in 0 .. n /\ clock <= clock
  BY <1>2
<1>4. RoundOf(clock) \in Rounds
  BY <1>1, <1>2, RoundsTyped
<1>5. RoundOf(clock) \in Nat
  BY <1>4, RoundsTyped
<1> QED BY <1>1, <1>3, <1>4, <1>5

LEMMA InitQuota == Init => QuotaInv
<1> SUFFICES ASSUME Init PROVE QuotaInv
  OBVIOUS
<1>1. ClockType
  <2>1. MaxClock \in Nat /\ MaxClock >= 1 /\ Within(clock, count)
    <3>1. PICK b \in Bounds : \A o \in Bounds : o.clock <= b.clock
      BY BoundAssumption
    <3>2. /\ b.clock \in Nat \ {0} /\ b.auths \in Nat /\ b.changes \in Nat /\ b.faults \in Nat
          /\ b.entries \in Nat
      BY BoundAssumption
    <3>3. \A k \in DOMAIN count : k \in {"auths", "changes", "faults", "entries"} /\ count[k] = 0
      BY DEF Init
    <3>4. \A k \in DOMAIN count : count[k] <= b[k]
      BY <3>2, <3>3
    <3>5. clock <= b.clock /\ b.clock <= MaxClock
      BY <3>2, LongestClock DEF Init
    <3> QED BY <3>2, <3>4, <3>5, LongestClock DEF Within
  <2>2. clock \in 1 .. MaxClock
    BY <2>1 DEF Init
  <2> QED BY <2>1, <2>2, MoneyAssumption DEF Init, ClockType, CycleRow
<1>2. LedgersType
  BY DEF Init, LedgersType, LedgerRow, NewLedger
<1>3. BookType
  BY DEF Init, BookType, IsInjective
<1>4. SlotsType
  BY ZeroTyped DEF Init, SlotsType, SlotRow, NoSlot
<1>5. NoticesType
  BY DEF Init, NoticesType, NoticeRow, NoNotice, Statuses, Outcomes
<1>6. LoopType
  <2>1. Idle \in LoopState /\ Idle.targets = {}
    BY ZeroTyped DEF LoopState, Idle, Outcomes
  <2> QED BY <2>1 DEF Init, LoopType
<1>7. HistoryType
  BY DEF Init, HistoryType
<1>8. RunInv /\ TicketsHold
  <2>1. loop.step = "idle" /\ loop.at = 0 /\ loop.tickets = <<>> /\ clock = 1
    BY DEF Init, Idle
  <2>2. RunInv
    BY <2>1 DEF RunInv
  <2>3. DOMAIN <<>> = {}
    OBVIOUS
  <2> QED BY <2>1, <2>2, <2>3 DEF TicketsHold
<1>9. SlotsSound /\ RevocationStands
  <2>1. loop.step = "idle"
    BY DEF Init, Idle
  <2> QED BY <2>1 DEF Init, SlotsSound, NoSlot, RevocationStands
<1>10. RoundOf(clock) = 1 /\ 1 \in Rounds
  BY <1>1, ClockTyped DEF Init, RoundOf
<1>11. FutureIsBlank /\ OverIsKnown /\ SentIsLocked
  BY <1>10 DEF Init, FutureIsBlank, OverIsKnown, SentIsLocked, Reached, NewLedger
<1>12. SuccessIsTrue
  BY DEF Init, SuccessIsTrue, ConfirmationIsTrue, Idle, NoNotice, Events
<1> QED BY <1>1, <1>2, <1>3, <1>4, <1>5, <1>6, <1>7, <1>8, <1>9, <1>11, <1>12, TypeParts
        DEF Typed, QuotaInv

-----------------------------------------------------------------------------
(* What a step leaves in order, by what it leaves alone.                   *)

UsesStay ==
  \A u \in Users, r \in Rounds : /\ ledger'[u][r].used = ledger[u][r].used
                                 /\ ledger'[u][r].locked = ledger[u][r].locked

FutureRows == \A r \in Rounds : r > RoundOf(clock) => cycle[r].status = "NONE"

LEMMA ReachedStays ==
  ASSUME NEW u, NEW r, task'.limit = task.limit, adj' = adj,
         ledger'[u][r].used = ledger[u][r].used
  PROVE  Reached(u, r)' <=> Reached(u, r)
BY DEF Reached, EffectiveLimit

LEMMA LimitsQuiet ==
  ASSUME QuotaInv, Typed', clock' = clock, task'.limit = task.limit, adj' = adj, UsesStay,
         FutureRows', over' = over, sent' = sent
  PROVE  (FutureIsBlank /\ OverIsKnown /\ SentIsLocked)'
<1>1. PICK n \in Rounds : n = RoundOf(clock) /\ n = RoundOf(clock')
  BY TypeParts, ClockTyped DEF QuotaInv, Typed
<1>2. FutureIsBlank'
  BY DEF QuotaInv, FutureIsBlank, FutureRows, UsesStay
<1>3. OverIsKnown'
  <2>1. SUFFICES ASSUME NEW u \in Users, Reached(u, n)' \/ ledger'[u][n].locked
                 PROVE  <<u, n>> \in over
    BY <1>1 DEF OverIsKnown, Reached, EffectiveLimit
  <2>2. Reached(u, n) \/ ledger[u][n].locked
    BY <2>1, ReachedStays DEF UsesStay
  <2> QED BY <1>1, <2>2 DEF QuotaInv, OverIsKnown
<1>4. SentIsLocked'
  BY DEF QuotaInv, SentIsLocked, UsesStay
<1> QED BY <1>2, <1>3, <1>4

LEMMA LimitsWatched ==
  ASSUME QuotaInv, Typed', clock' = clock, Watched, sent' = sent,
         \A u \in Users, r \in Rounds : ledger'[u][r].locked = ledger[u][r].locked,
         FutureIsBlank'
  PROVE  (FutureIsBlank /\ OverIsKnown /\ SentIsLocked)'
<1>1. PICK n \in Rounds : n = RoundOf(clock) /\ n = RoundOf(clock')
  BY TypeParts, ClockTyped DEF QuotaInv, Typed
<1>2. over \subseteq over'
  BY DEF Watched
<1>3. OverIsKnown'
  <2>1. SUFFICES ASSUME NEW u \in Users, Reached(u, n)' \/ ledger'[u][n].locked
                 PROVE  <<u, n>> \in over'
    BY <1>1 DEF OverIsKnown, Reached, EffectiveLimit
  <2>2. CASE ledger'[u][n].locked
    BY <1>1, <1>2, <2>2 DEF QuotaInv, OverIsKnown
  <2>3. CASE Reached(u, n)'
    <3>1. PICK x \in Users \X {RoundOf(clock)} : x = <<u, n>>
      BY <1>1
    <3>2. Reached(x[1], x[2])'
      BY <2>3, <3>1 DEF Reached, EffectiveLimit
    <3> QED BY <3>1, <3>2 DEF Watched
  <2> QED BY <2>1, <2>2, <2>3
<1>4. SentIsLocked'
  BY <1>2 DEF QuotaInv, SentIsLocked
<1> QED BY <1>3, <1>4

\* Who uses a device goes on using it, or it is known that the use has ended.
SlotsGoOn ==
  \A u \in Users :
    /\ past[u] \subseteq past'[u]
    /\ InUse(u) => \/ slot'[u].id = slot[u].id /\ slot'[u].state \notin {"NONE", "PENDING_AUTH"}
                   \/ \E p \in past'[u] : RoundOf(p.ended) >= RoundOf(clock)

TicketHolds(t) ==
  /\ t.round <= RoundOf(clock)
  /\ (slot[t.user].id = t.id /\ InUse(t.user)) \/ EndedSince(t.user, t.round)

LEMMA SlotsRest == UNCHANGED <<slot, past>> => SlotsGoOn
BY DEF SlotsGoOn, InUse

LEMMA EndedStays ==
  ASSUME SlotsGoOn, NEW u \in Users, NEW r, EndedSince(u, r)
  PROVE  EndedSince(u, r)'
BY DEF SlotsGoOn, EndedSince

LEMMA PastTyped ==
  ASSUME SlotsType, NEW u \in Users, NEW p \in past[u]
  PROVE  RoundOf(p.ended) \in Nat
<1>1. p \in PastRow
  BY DEF SlotsType
<1>2. RoundOf(p.ended) \in Rounds
  BY <1>1, RoundsTyped DEF PastRow
<1> QED BY <1>2, RoundsTyped

LEMMA TicketStays ==
  ASSUME Typed, Typed', SlotsGoOn, clock' >= clock, NEW t \in Ticket, TicketHolds(t)
  PROVE  TicketHolds(t)'
<1>1. t.user \in Users /\ t.round \in Nat
  BY RoundsTyped DEF Ticket
<1>2. PICK n \in Nat : n = RoundOf(clock)
  BY ClockTyped DEF Typed
<1>3. PICK m \in Nat : m = RoundOf(clock') /\ n <= m
  <2>1. PICK v \in Nat : v = clock
    BY ClockTyped DEF Typed
  <2>2. ClockType'
    BY DEF Typed
  <2>3. clock' \in 1 .. MaxClock /\ MaxClock \in Nat
    BY <2>2, LongestClock DEF ClockType
  <2>4. PICK w \in Nat : w = clock'
    BY <2>3
  <2>5. RoundOf(v) <= RoundOf(w) /\ RoundOf(w) \in Nat
    BY <2>1, <2>4, RoundsGrow
  <2> QED BY <1>2, <2>1, <2>4, <2>5
<1>4. t.round <= m
  BY <1>1, <1>2, <1>3 DEF TicketHolds
<1>5. CASE EndedSince(t.user, t.round)
  BY <1>1, <1>3, <1>4, <1>5, EndedStays DEF TicketHolds
<1>6. CASE slot[t.user].id = t.id /\ InUse(t.user)
  <2>1. CASE /\ slot'[t.user].id = slot[t.user].id
             /\ slot'[t.user].state \notin {"NONE", "PENDING_AUTH"}
    BY <1>3, <1>4, <1>6, <2>1 DEF TicketHolds, InUse
  <2>2. ASSUME NEW p \in past'[t.user], RoundOf(p.ended) >= RoundOf(clock)
        PROVE  TicketHolds(t)'
    <3>1. p \in PastRow
      BY <1>1 DEF Typed, SlotsType
    <3>2. RoundOf(p.ended) \in Nat
      BY <3>1, RoundsTyped DEF PastRow
    <3>3. RoundOf(p.ended) >= t.round
      BY <1>1, <1>2, <2>2, <3>2 DEF TicketHolds
    <3> QED BY <1>3, <1>4, <3>3 DEF TicketHolds, EndedSince
  <2> QED BY <1>1, <1>6, <2>1, <2>2 DEF SlotsGoOn
<1> QED BY <1>5, <1>6 DEF TicketHolds

\* Tickets are kept, or used up from the first on.
LEMMA TicketsStay ==
  ASSUME QuotaInv, Typed', SlotsGoOn, clock' >= clock,
         \A i \in DOMAIN loop'.tickets, t \in Ticket : t = loop'.tickets[i] =>
           (\E j \in DOMAIN loop.tickets : t = loop.tickets[j]) \/ TicketHolds(t)'
  PROVE  TicketsHold'
<1>1. Typed
  BY TypeParts DEF QuotaInv
<1>2. \A j \in DOMAIN loop.tickets : loop.tickets[j] \in Ticket /\ TicketHolds(loop.tickets[j])
  <2>1. loop.tickets \in Seq(Ticket)
    BY <1>1 DEF Typed, LoopType, LoopState
  <2> QED BY <2>1 DEF QuotaInv, TicketsHold, TicketHolds
<1>3. ASSUME NEW i \in DOMAIN loop'.tickets, NEW t \in Ticket, t = loop'.tickets[i]
      PROVE  TicketHolds(t)'
  <2>1. (\E j \in DOMAIN loop.tickets : t = loop.tickets[j]) => TicketHolds(t)
    BY <1>2
  <2>2. TicketHolds(t) => TicketHolds(t)'
    BY <1>1, TicketStays
  <2> QED BY <1>3, <2>1, <2>2
<1>4. loop'.tickets \in Seq(Ticket)
  BY DEF Typed, LoopType, LoopState
<1>5. ASSUME NEW i \in DOMAIN loop'.tickets
      PROVE  \E t \in Ticket : t = loop'.tickets[i] /\ TicketHolds(t)'
  BY <1>3, <1>4
<1> QED BY <1>5 DEF TicketsHold, TicketHolds

\* What was said, or is noted, stays true; what is new has to be.
LEMMA SuccessStays ==
  ASSUME QuotaInv, Typed', SlotsGoOn,
         loop'.step = "conclude" /\ loop'.outcome = "SUCCEEDED" =>
           \A t : t = Head(loop'.tickets) => EndedSince(t.user, t.round)',
         \A u \in Users, r \in Rounds :
           notice'[u][r]["REACHED"].revoke = "SUCCEEDED" =>
             notice[u][r]["REACHED"].revoke = "SUCCEEDED" \/ EndedSince(u, r)',
         \A u \in Users, r \in Rounds :
           <<u, r, "SUCCEEDED">> \in said' => <<u, r, "SUCCEEDED">> \in said \/ EndedSince(u, r)'
  PROVE  SuccessIsTrue'
<1>1. \A u \in Users, r \in Rounds :
        notice'[u][r]["REACHED"].revoke = "SUCCEEDED" => EndedSince(u, r)'
  BY EndedStays DEF QuotaInv, SuccessIsTrue
<1>2. ConfirmationIsTrue'
  <2>1. ASSUME NEW u \in Users, NEW r \in Rounds, <<u, r, "SUCCEEDED">> \in said'
        PROVE  EndedSince(u, r)'
    <3>1. CASE <<u, r, "SUCCEEDED">> \in said
      BY <3>1, EndedStays DEF QuotaInv, SuccessIsTrue, ConfirmationIsTrue, EndedSince
    <3> QED BY <2>1, <3>1
  <2> QED BY <2>1 DEF ConfirmationIsTrue, EndedSince
<1>3. PICK t : t = Head(loop'.tickets)
  OBVIOUS
<1>4. loop'.step = "conclude" /\ loop'.outcome = "SUCCEEDED" => EndedSince(t.user, t.round)'
  BY <1>3
<1> QED BY <1>1, <1>2, <1>3, <1>4 DEF SuccessIsTrue, EndedSince

-----------------------------------------------------------------------------
(* Effects that several actions share.                                     *)

LEMMA QuotaParts ==
  ASSUME QuotaInv
  PROVE  /\ Typed /\ ClockType /\ LedgersType /\ BookType /\ SlotsType /\ NoticesType
         /\ LoopType /\ HistoryType
BY TypeParts DEF QuotaInv, Typed

LEMMA LedgerTyped ==
  ASSUME LedgersType, NEW u \in Users, NEW r \in Rounds
  PROVE  /\ ledger[u][r] \in LedgerRow /\ ledger[u] \in [Rounds -> LedgerRow]
         /\ ledger[u][r].used \in 0 .. MaxUse \cup {None}
         /\ ledger[u][r].verified \in BOOLEAN /\ ledger[u][r].locked \in BOOLEAN
         /\ ledger[u][r].unlocked \in BOOLEAN
<1>1. ledger[u] \in [Rounds -> LedgerRow]
  BY DEF LedgersType
<1>2. ledger[u][r] \in LedgerRow
  BY <1>1
<1> QED BY <1>1, <1>2 DEF LedgerRow

\* A row of a ledger is replaced by one of the right form.
LEMMA LedgerChanges ==
  ASSUME LedgersType, NEW u \in Users, NEW r \in Rounds, NEW row \in LedgerRow,
         row.unlocked => row.locked, row.verified => row.used # None,
         ledger' = [ledger EXCEPT ![u][r] = row]
  PROVE  /\ LedgersType'
         /\ \A v \in Users, q \in Rounds :
              ledger'[v][q] = IF v = u /\ q = r THEN row ELSE ledger[v][q]
<1>1. ledger \in [Users -> [Rounds -> LedgerRow]]
  BY DEF LedgersType
<1>2. \A v \in Users, q \in Rounds :
        ledger'[v][q] = IF v = u /\ q = r THEN row ELSE ledger[v][q]
  BY <1>1
<1>3. ledger' \in [Users -> [Rounds -> LedgerRow]]
  <2>1. [ledger[u] EXCEPT ![r] = row] \in [Rounds -> LedgerRow]
    BY <1>1
  <2>2. ledger' = [ledger EXCEPT ![u] = [ledger[u] EXCEPT ![r] = row]]
    BY <1>1
  <2> QED BY <1>1, <2>1, <2>2
<1>4. ASSUME NEW v \in Users, NEW q \in Rounds
      PROVE  /\ ledger'[v][q].unlocked => ledger'[v][q].locked
             /\ ledger'[v][q].verified => ledger'[v][q].used # None
  <2>1. CASE v = u /\ q = r
    BY <1>2, <2>1
  <2>2. CASE ~(v = u /\ q = r)
    <3>1. ledger'[v][q] = ledger[v][q]
      BY <1>2, <2>2
    <3> QED BY <3>1 DEF LedgersType
  <2> QED BY <2>1, <2>2
<1> QED BY <1>2, <1>3, <1>4 DEF LedgersType

LEMMA UnlockChanges ==
  ASSUME LedgersType, NEW u \in Users, NEW r, NEW unlocked \in BOOLEAN,
         r \in Rounds /\ unlocked => ledger[u][r].locked,
         ledger' = [ledger EXCEPT ![u][r].unlocked = unlocked]
  PROVE  LedgersType' /\ UsesStay
<1>1. CASE r \notin Rounds
  <2>1. ledger' = ledger
    BY <1>1 DEF LedgersType
  <2> QED BY <2>1 DEF LedgersType, UsesStay
<1>2. CASE r \in Rounds
  <2>1. PICK row : row = [ledger[u][r] EXCEPT !.unlocked = unlocked]
    OBVIOUS
  <2>2. /\ row \in LedgerRow /\ row.unlocked = unlocked /\ row.used = ledger[u][r].used
        /\ row.verified = ledger[u][r].verified /\ row.locked = ledger[u][r].locked
    BY <1>2, <2>1, LedgerTyped DEF LedgerRow
  <2>3. (row.unlocked => row.locked) /\ (row.verified => row.used # None)
    BY <1>2, <2>2 DEF LedgersType
  <2>4. ledger' = [ledger EXCEPT ![u][r] = row]
    BY <2>1 DEF LedgersType
  <2>5. LedgersType' /\ \A v \in Users, q \in Rounds :
          ledger'[v][q] = IF v = u /\ q = r THEN row ELSE ledger[v][q]
    <3>1. row \in LedgerRow /\ (row.unlocked => row.locked) /\ (row.verified => row.used # None)
      BY <2>2, <2>3
    <3>2. LedgersType'
      BY <1>2, <2>4, <3>1, LedgerChanges, Zenon
    <3>3. \A v \in Users, q \in Rounds :
          ledger'[v][q] = IF v = u /\ q = r THEN row ELSE ledger[v][q]
      BY <1>2, <2>4 DEF LedgersType
    <3> QED BY <3>2, <3>3
  <2> QED BY <2>2, <2>5 DEF UsesStay
<1> QED BY <1>1, <1>2

LEMMA CheckStays ==
  ASSUME LedgersType, NEW u \in Users, NEW t, NEW fresh, CheckEffect(u, t, fresh)
  PROVE  LedgersType' /\ UsesStay
<1>1. PICK r : r = RoundOf(t)
  OBVIOUS
<1>2. PICK unlocked : unlocked = (ledger[u][r].unlocked
                                  \/ (LastDayAllowed(r, t, fresh) /\ ledger[u][r].locked))
  OBVIOUS
<1>3. unlocked \in BOOLEAN /\ (r \in Rounds /\ unlocked => ledger[u][r].locked)
  BY <1>2 DEF LedgersType
<1>4. ledger' = [ledger EXCEPT ![u][r].unlocked = unlocked]
  BY <1>1, <1>2 DEF CheckEffect, LedgersType
<1> QED BY <1>3, <1>4, UnlockChanges

LEMMA GuardStays ==
  ASSUME LedgersType, NEW u \in Users, NEW r, GuardEffect(u, r)
  PROVE  LedgersType' /\ UsesStay
BY UnlockChanges DEF GuardEffect

LEMMA LedgersRest == LedgersType /\ UNCHANGED ledger => LedgersType' /\ UsesStay
BY DEF LedgersType, UsesStay

LEMMA CountsType ==
  ASSUME ClockType, NEW kind \in {"auths", "changes", "faults", "entries"}, Counts(kind),
         clock' = clock
  PROVE  /\ count' \in [auths : Nat, changes : Nat, faults : Nat, entries : Nat]
         /\ Within(clock, count)'
<1>1. count' \in [auths : Nat, changes : Nat, faults : Nat, entries : Nat]
  BY DEF ClockType, Counts
<1>2. Within(clock, count')
  BY DEF Counts
<1> QED BY <1>1, <1>2 DEF Within

\* A row of an association in order, and one that leaves a revocation under way alone.
SlotSound(row) ==
  /\ row.state # "NONE" => row.began >= 1
  /\ row.approving => row.state = "PENDING_AUTH"
  /\ row.armed \/ row.action # "NONE" => row.state \notin {"NONE", "PENDING_AUTH"}
  /\ row.action \in {"PENDING", "UNKNOWN"} => row.state # "ACTIVE"

RevocationKept(old, new) ==
  old.reason = "QUOTA" /\ old.action \in {"PENDING", "UNKNOWN"} =>
    /\ new.reason = "QUOTA" /\ new.action \in {"PENDING", "UNKNOWN"}
    /\ old.armed => new.armed
    /\ old.state = "PENDING_REVOKE" /\ old.action = "PENDING" /\ ~old.armed =>
         new.state = "PENDING_REVOKE" /\ new.action = "PENDING" /\ ~new.armed

RowGoesOn(old, new) ==
  old.state \notin {"NONE", "PENDING_AUTH"} =>
    new.id = old.id /\ new.state \notin {"NONE", "PENDING_AUTH"}

LEMMA SlotTyped ==
  ASSUME QuotaInv, NEW u \in Users
  PROVE  slot[u] \in SlotRow /\ SlotSound(slot[u]) /\ slot \in [Users -> SlotRow]
<1>1. slot \in [Users -> SlotRow] /\ slot[u] \in SlotRow
  BY QuotaParts DEF SlotsType
<1> QED BY <1>1 DEF QuotaInv, SlotsSound, SlotSound, InUse

LEMMA SlotChanges ==
  ASSUME QuotaInv, NEW u \in Users, NEW row \in SlotRow, slot' = [slot EXCEPT ![u] = row],
         past' = past, SlotSound(row), RowGoesOn(slot[u], row)
  PROVE  /\ SlotsType' /\ SlotsSound' /\ SlotsGoOn
         /\ RevocationKept(slot[u], row) =>
              \A v \in Users : RevocationKept(slot[v], slot'[v])
<1>1. slot \in [Users -> SlotRow]
  BY SlotTyped
<1>2. slot' \in [Users -> SlotRow] /\ \A v \in Users : slot'[v] = IF v = u THEN row ELSE slot[v]
  BY <1>1
<1>3. SlotsType'
  BY <1>2, QuotaParts DEF SlotsType
<1>4. \A v \in Users : SlotSound(slot'[v])
  BY <1>2, SlotTyped
<1>5. SlotsSound'
  BY <1>4 DEF QuotaInv, SlotsSound, SlotSound, InUse
<1>6. \A v \in Users : RowGoesOn(slot[v], slot'[v])
  BY <1>2 DEF RowGoesOn
<1>7. SlotsGoOn
  BY <1>6 DEF SlotsGoOn, RowGoesOn, InUse
<1>8. \A v \in Users : v # u => RevocationKept(slot[v], slot'[v])
  BY <1>2 DEF RevocationKept
<1> QED BY <1>2, <1>3, <1>5, <1>7, <1>8

\* An association in use ends now.
LEMMA EndsGoesOn ==
  ASSUME QuotaInv, NEW u \in Users, InUse(u), Ends(u)
  PROVE  /\ SlotsType' /\ SlotsSound' /\ SlotsGoOn
         /\ \E p \in past'[u] : RoundOf(p.ended) >= RoundOf(clock)
         /\ \A v \in Users : v # u => slot'[v] = slot[v]
<1>1. PICK reason \in {"QUOTA", "OTHER"} :
        reason = IF slot[u].reason = "QUOTA" THEN "QUOTA" ELSE "OTHER"
  OBVIOUS
<1>2. PICK p : p = [id |-> slot[u].id, began |-> slot[u].began, ended |-> clock, reason |-> reason]
  OBVIOUS
<1>3. PICK row : row = [NoSlot EXCEPT !.id = slot[u].id, !.reason = reason]
  OBVIOUS
<1>4. past' = [past EXCEPT ![u] = @ \cup {p}] /\ slot' = [slot EXCEPT ![u] = row]
  BY <1>1, <1>2, <1>3 DEF Ends
<1>5. p \in PastRow
  <2>1. slot[u].began \in 0 .. MaxClock /\ slot[u].began >= 1 /\ slot[u].id \in Nat
    BY SlotTyped DEF SlotRow, SlotSound, InUse
  <2>2. PICK n \in Nat : n = MaxClock
    BY LongestClock
  <2>3. slot[u].began \in 1 .. n
    BY <2>1, <2>2
  <2> QED BY <1>2, <2>1, <2>2, <2>3, QuotaParts DEF PastRow, ClockType
<1>6. row \in SlotRow /\ SlotSound(row) /\ row.state = "NONE"
  <2>1. slot[u].id \in Nat
    BY SlotTyped DEF SlotRow
  <2> QED BY <1>3, <2>1, ZeroTyped DEF NoSlot, SlotRow, SlotSound
<1>7. slot' \in [Users -> SlotRow] /\ \A v \in Users : slot'[v] = IF v = u THEN row ELSE slot[v]
  BY <1>4, <1>6, SlotTyped
<1>8. past \in [Users -> SUBSET PastRow]
  BY DEF QuotaInv, SlotsSound
<1>9. past' \in [Users -> SUBSET PastRow] /\ p \in past'[u]
      /\ \A v \in Users : past[v] \subseteq past'[v]
  BY <1>4, <1>5, <1>8
<1>10. SlotsType'
  BY <1>7, <1>9 DEF SlotsType
<1>11. \A v \in Users : SlotSound(slot'[v])
  BY <1>6, <1>7, SlotTyped
<1>12. SlotsSound'
  BY <1>9, <1>11 DEF SlotsSound, SlotSound, InUse
<1>13. RoundOf(p.ended) >= RoundOf(clock)
  <2>1. p.ended = clock
    BY <1>2
  <2>2. RoundOf(clock) \in Nat
    BY QuotaParts, ClockTyped
  <2> QED BY <2>1, <2>2
<1>14. \A v \in Users : v # u => slot'[v] = slot[v]
  BY <1>7
<1>15. \E q \in past'[u] : RoundOf(q.ended) >= RoundOf(clock)
  BY <1>9, <1>13
<1>16. SlotsGoOn
  BY <1>9, <1>14, <1>15 DEF SlotsGoOn, InUse
<1> QED BY <1>10, <1>12, <1>14, <1>15, <1>16


-----------------------------------------------------------------------------
(* Steps that leave the run as it is.                                      *)

LoopGoesOn ==
  /\ loop'.step = loop.step /\ loop'.at = loop.at /\ loop'.tickets = loop.tickets
  /\ loop'.outcome = loop.outcome /\ loop'.notice = loop.notice

LEMMA LoopTyped ==
  ASSUME QuotaInv
  PROVE  /\ loop \in LoopState /\ loop.tickets \in Seq(Ticket) /\ loop.at \in Nat
         /\ loop.targets \subseteq DOMAIN created
         /\ loop.step \in {"revoke", "arm", "post", "conclude"} =>
              /\ Head(loop.tickets) \in Ticket /\ TicketHolds(Head(loop.tickets))
              /\ Head(loop.tickets).user \in Users /\ Head(loop.tickets).round \in Rounds
              /\ Head(loop.tickets).id \in Nat
              /\ Tail(loop.tickets) \in Seq(Ticket)
<1>1. loop \in LoopState /\ loop.targets \subseteq DOMAIN created
  BY QuotaParts DEF LoopType
<1>2. loop.tickets \in Seq(Ticket) /\ loop.at \in 0 .. MaxClock
  BY <1>1 DEF LoopState
<1>3. loop.at \in Nat
  BY <1>2, LongestClock
<1>4. ASSUME loop.step \in {"revoke", "arm", "post", "conclude"}
      PROVE  /\ Head(loop.tickets) \in Ticket /\ TicketHolds(Head(loop.tickets))
             /\ Tail(loop.tickets) \in Seq(Ticket)
  <2>1. loop.tickets # <<>>
    BY <1>4 DEF QuotaInv, RunInv
  <2>2. 1 \in DOMAIN loop.tickets /\ Head(loop.tickets) = loop.tickets[1]
        /\ Head(loop.tickets) \in Ticket /\ Tail(loop.tickets) \in Seq(Ticket)
    BY <1>2, <2>1
  <2> QED BY <2>2 DEF QuotaInv, TicketsHold, TicketHolds
<1> QED BY <1>1, <1>2, <1>3, <1>4 DEF Ticket

LEMMA LoopGoes ==
  ASSUME QuotaInv, Typed', SlotsGoOn, clock' >= clock, LoopGoesOn, UNCHANGED <<notice, said>>
  PROVE  RunInv' /\ TicketsHold' /\ SuccessIsTrue'
<1>1. RunInv'
  <2>1. PICK n \in Nat : n = clock
    BY QuotaParts, ClockTyped
  <2>2. ClockType' /\ MaxClock \in Nat
    BY LongestClock DEF Typed
  <2>3. PICK m \in Nat : m = clock'
    BY <2>2 DEF ClockType
  <2>4. PICK k \in Nat : k = loop.at
    BY LoopTyped
  <2>5. k <= n /\ n <= m
    BY <2>1, <2>3, <2>4 DEF QuotaInv, RunInv
  <2>6. k <= m
    BY <2>5
  <2> QED BY <2>3, <2>4, <2>6 DEF QuotaInv, RunInv, LoopGoesOn
<1>2. TicketsHold'
  BY TicketsStay DEF LoopGoesOn
<1>3. SuccessIsTrue'
  <2>1. PICK t : t = Head(loop.tickets)
    OBVIOUS
  <2>2. ASSUME loop'.step = "conclude", loop'.outcome = "SUCCEEDED"
        PROVE  EndedSince(t.user, t.round)'
    <3>1. t.user \in Users
      BY <2>1, <2>2, LoopTyped DEF LoopGoesOn
    <3>2. EndedSince(t.user, t.round)
      BY <2>1, <2>2 DEF QuotaInv, SuccessIsTrue, LoopGoesOn
    <3> QED BY <3>1, <3>2, EndedStays
  <2>3. loop'.step = "conclude" /\ loop'.outcome = "SUCCEEDED" =>
           \A s : s = Head(loop'.tickets) => EndedSince(s.user, s.round)'
    BY <2>1, <2>2 DEF LoopGoesOn
  <2>4. /\ \A u \in Users, r \in Rounds :
             notice'[u][r]["REACHED"].revoke = "SUCCEEDED" =>
               notice[u][r]["REACHED"].revoke = "SUCCEEDED" \/ EndedSince(u, r)'
        /\ \A u \in Users, r \in Rounds :
             <<u, r, "SUCCEEDED">> \in said' => <<u, r, "SUCCEEDED">> \in said \/ EndedSince(u, r)'
    OBVIOUS
  <2> QED BY <2>3, <2>4, SuccessStays
<1> QED BY <1>1, <1>2, <1>3

LEMMA RevocationGoesOn ==
  ASSUME QuotaInv, LoopGoesOn,
         loop.step \in {"arm", "post"} => \A v \in Users : RevocationKept(slot[v], slot'[v])
  PROVE  RevocationStands'
<1> SUFFICES ASSUME loop.step \in {"arm", "post"} PROVE RevocationStands'
  BY DEF RevocationStands, LoopGoesOn
<1>1. PICK v \in Users : v = Head(loop.tickets).user
  BY LoopTyped
<1>2. RevocationKept(slot[v], slot'[v])
  BY <1>1
<1>3. /\ slot[v].reason = "QUOTA" /\ slot[v].action \in {"PENDING", "UNKNOWN"}
      /\ loop.step = "arm" => /\ slot[v].state = "PENDING_REVOKE" /\ slot[v].action = "PENDING"
                              /\ ~slot[v].armed
      /\ loop.step = "post" => slot[v].armed
  BY <1>1 DEF QuotaInv, RevocationStands
<1>4. /\ slot'[v].reason = "QUOTA" /\ slot'[v].action \in {"PENDING", "UNKNOWN"}
      /\ loop.step = "arm" => /\ slot'[v].state = "PENDING_REVOKE" /\ slot'[v].action = "PENDING"
                              /\ ~slot'[v].armed
      /\ loop.step = "post" => slot'[v].armed
  BY <1>2, <1>3 DEF RevocationKept
<1>5. Head(loop'.tickets).user = v /\ loop'.step = loop.step
  BY <1>1 DEF LoopGoesOn
<1> QED BY <1>4, <1>5 DEF RevocationStands

\* The effect of a command on the associations.
SlotsMove ==
  /\ SlotsType' /\ SlotsSound' /\ SlotsGoOn
  /\ loop.step \in {"arm", "post"} => \A v \in Users : RevocationKept(slot[v], slot'[v])

LEMMA SlotsUnmoved == QuotaInv /\ UNCHANGED <<slot, past>> => SlotsMove
BY QuotaParts, SlotsRest DEF QuotaInv, SlotsMove, SlotsType, SlotsSound, InUse, RevocationKept

\* A step of a command, a sample, a sync or the administrator.
LEMMA OutsideStep ==
  ASSUME QuotaInv, Typed', clock' >= clock, SlotsMove, LoopGoesOn, UNCHANGED <<notice, said>>,
         (FutureIsBlank /\ OverIsKnown /\ SentIsLocked)'
  PROVE  QuotaInv'
<1>1. SlotsSound' /\ RevocationStands'
  BY RevocationGoesOn DEF SlotsMove
<1>2. RunInv' /\ TicketsHold' /\ SuccessIsTrue'
  BY LoopGoes DEF SlotsMove
<1> QED BY <1>1, <1>2, TypeParts DEF QuotaInv

LEMMA CommandStep ==
  ASSUME QuotaInv, UNCHANGED <<clock, task, cycle, created, adj, notice, loop, history>>,
         ClockType', LedgersType', UsesStay, SlotsMove
  PROVE  QuotaInv'
<1>1. Typed'
  BY QuotaParts DEF Typed, BookType, NoticesType, LoopType, HistoryType, history, SlotsMove
<1>2. FutureRows'
  BY DEF QuotaInv, FutureIsBlank, FutureRows
<1>3. (FutureIsBlank /\ OverIsKnown /\ SentIsLocked)'
  BY <1>1, <1>2, LimitsQuiet DEF history
<1>4. clock' >= clock
  BY QuotaParts, ClockTyped
<1> QED BY <1>1, <1>3, <1>4, OutsideStep DEF LoopGoesOn, history


LEMMA CommandSlot ==
  ASSUME QuotaInv, NEW u \in Users, NEW row \in SlotRow, slot' = [slot EXCEPT ![u] = row],
         past' = past, SlotSound(row), RowGoesOn(slot[u], row), RevocationKept(slot[u], row)
  PROVE  SlotsMove
BY SlotChanges DEF SlotsMove

\* The fields of a row of an association.
LEMMA SlotFields ==
  ASSUME QuotaInv, NEW u \in Users
  PROVE  /\ slot[u].id \in Nat
         /\ slot[u].state \in {"NONE", "PENDING_AUTH", "ACTIVE", "PENDING_REVOKE", "UNKNOWN"}
         /\ slot[u].approving \in BOOLEAN /\ slot[u].reason \in {"", "QUOTA", "OTHER"}
         /\ slot[u].began \in 0 .. MaxClock
         /\ slot[u].action \in {"NONE", "PENDING", "UNKNOWN", "FAILED"}
         /\ slot[u].armed \in BOOLEAN
BY SlotTyped DEF SlotRow

LEMMA ClockRests == ClockType /\ UNCHANGED <<clock, task, cycle, count>> => ClockType'
BY DEF ClockType, Within

LEMMA AuthReserveKeeps == ASSUME QuotaInv, NEW u \in Users, AuthReserve(u) PROVE QuotaInv'
<1>1. PICK row : row = [NoSlot EXCEPT !.id = slot[u].id + 1, !.state = "PENDING_AUTH",
                                      !.began = clock]
  OBVIOUS
<1>2. /\ row.id = slot[u].id + 1 /\ row.state = "PENDING_AUTH" /\ row.began = clock
      /\ row.approving = FALSE /\ row.reason = "" /\ row.action = "NONE" /\ row.armed = FALSE
      /\ row = [id |-> slot[u].id + 1, state |-> "PENDING_AUTH", approving |-> FALSE,
                reason |-> "", began |-> clock, action |-> "NONE", armed |-> FALSE]
  BY <1>1 DEF NoSlot
<1>3. row \in SlotRow
  <2>1. PICK n \in Nat : n = slot[u].id
    BY SlotFields
  <2>2. slot[u].id + 1 \in Nat
    BY <2>1
  <2>3. clock \in 0 .. MaxClock
    BY QuotaParts, ClockTyped
  <2> QED BY <1>2, <2>2, <2>3 DEF SlotRow
<1>4. clock >= 1
  BY QuotaParts, ClockTyped
<1>5. slot[u].state = "NONE" /\ SlotSound(slot[u])
  BY SlotTyped DEF AuthReserve
<1>6. SlotsMove
  <2>1. SlotSound(row)
    BY <1>2, <1>4 DEF SlotSound
  <2>2. RowGoesOn(slot[u], row) /\ RevocationKept(slot[u], row)
    BY <1>5 DEF RowGoesOn, RevocationKept, SlotSound
  <2>3. slot' = [slot EXCEPT ![u] = row] /\ past' = past
    BY <1>1 DEF AuthReserve
  <2> QED BY <1>3, <2>1, <2>2, <2>3, CommandSlot
<1>7. LedgersType' /\ UsesStay
  BY QuotaParts, CheckStays DEF AuthReserve
<1>8. ClockType'
  BY QuotaParts, CountsType DEF AuthReserve, ClockType
<1> QED BY <1>6, <1>7, <1>8, CommandStep DEF AuthReserve

LEMMA AuthArmKeeps == ASSUME QuotaInv, NEW u \in Users, AuthArm(u) PROVE QuotaInv'
<1>1. PICK row : row = [slot[u] EXCEPT !.approving = TRUE]
  OBVIOUS
<1>2. /\ row.id = slot[u].id /\ row.state = slot[u].state /\ row.began = slot[u].began
      /\ row.approving = TRUE /\ row.reason = slot[u].reason /\ row.action = slot[u].action
      /\ row.armed = slot[u].armed /\ row \in SlotRow
  BY <1>1, SlotTyped DEF SlotRow
<1>3. slot[u].state = "PENDING_AUTH" /\ SlotSound(slot[u])
  BY SlotTyped DEF AuthArm
<1>4. SlotsMove
  <2>1. SlotSound(row)
    BY <1>2, <1>3 DEF SlotSound
  <2>2. RowGoesOn(slot[u], row) /\ RevocationKept(slot[u], row)
    BY <1>2, <1>3 DEF RowGoesOn, RevocationKept, SlotSound
  <2>3. slot' = [slot EXCEPT ![u] = row] /\ past' = past
    BY <1>1, SlotTyped DEF AuthArm
  <2> QED BY <1>2, <2>1, <2>2, <2>3, CommandSlot
<1>5. LedgersType' /\ UsesStay
  BY QuotaParts, CheckStays DEF AuthArm
<1>6. ClockType'
  BY QuotaParts, ClockRests DEF AuthArm
<1> QED BY <1>4, <1>5, <1>6, CommandStep DEF AuthArm

\* A command that changes nothing but a row of an association.
LEMMA SlotCommand ==
  ASSUME QuotaInv, NEW u \in Users, NEW row \in SlotRow, slot' = [slot EXCEPT ![u] = row],
         SlotSound(row), RowGoesOn(slot[u], row), RevocationKept(slot[u], row),
         UNCHANGED <<clock, task, cycle, money, past, notice, loop, count, history>>
  PROVE  QuotaInv'
<1>1. UNCHANGED <<clock, task, cycle, created, ledger, adj, past, notice, loop, count, history>>
  BY DEF money
<1>2. SlotsMove
  BY <1>1, CommandSlot
<1>3. LedgersType' /\ UsesStay /\ ClockType'
  BY <1>1, QuotaParts, LedgersRest, ClockRests
<1> QED BY <1>1, <1>2, <1>3, CommandStep

LEMMA AuthGrantedKeeps == ASSUME QuotaInv, NEW u \in Users, AuthGranted(u) PROVE QuotaInv'
<1>1. PICK row : row = [slot[u] EXCEPT !.approving = FALSE, !.state = "ACTIVE"]
  OBVIOUS
<1>2. /\ row.id = slot[u].id /\ row.state = "ACTIVE" /\ row.began = slot[u].began
      /\ row.approving = FALSE /\ row.reason = slot[u].reason /\ row.action = slot[u].action
      /\ row.armed = slot[u].armed /\ row \in SlotRow
  BY <1>1, SlotTyped DEF SlotRow
<1>3. slot[u].state = "PENDING_AUTH" /\ SlotSound(slot[u])
  BY SlotTyped DEF AuthGranted, SlotSound
<1>4. SlotSound(row) /\ RowGoesOn(slot[u], row) /\ RevocationKept(slot[u], row)
  BY <1>2, <1>3 DEF SlotSound, RowGoesOn, RevocationKept
<1>5. slot' = [slot EXCEPT ![u] = row]
  BY <1>1, SlotTyped DEF AuthGranted
<1> QED BY <1>2, <1>4, <1>5, SlotCommand DEF AuthGranted

LEMMA AuthFailsKeeps == ASSUME QuotaInv, NEW u \in Users, AuthFails(u) PROVE QuotaInv'
<1>1. PICK row : row = [NoSlot EXCEPT !.id = slot[u].id, !.reason = "OTHER"]
  OBVIOUS
<1>2. /\ row.state = "NONE" /\ row.approving = FALSE /\ row.action = "NONE"
      /\ row.armed = FALSE /\ row \in SlotRow
  BY <1>1, SlotFields, ZeroTyped DEF NoSlot, SlotRow
<1>3. slot[u].state = "PENDING_AUTH" /\ SlotSound(slot[u])
  BY SlotTyped DEF AuthFails
<1>4. SlotSound(row) /\ RowGoesOn(slot[u], row) /\ RevocationKept(slot[u], row)
  BY <1>2, <1>3 DEF SlotSound, RowGoesOn, RevocationKept
<1>5. slot' = [slot EXCEPT ![u] = row]
  BY <1>1 DEF AuthFails
<1> QED BY <1>2, <1>4, <1>5, SlotCommand DEF AuthFails

LEMMA DeauthReserveKeeps == ASSUME QuotaInv, NEW u \in Users, DeauthReserve(u) PROVE QuotaInv'
<1>1. PICK row : row = [slot[u] EXCEPT !.state = "PENDING_REVOKE", !.reason = "OTHER",
                                       !.action = "PENDING", !.armed = FALSE]
  OBVIOUS
<1>2. /\ row.id = slot[u].id /\ row.state = "PENDING_REVOKE" /\ row.began = slot[u].began
      /\ row.approving = slot[u].approving /\ row.action = "PENDING" /\ row \in SlotRow
  BY <1>1, SlotTyped DEF SlotRow
<1>3. slot[u].state = "ACTIVE" /\ SlotSound(slot[u])
  BY SlotTyped DEF DeauthReserve
<1>4. SlotSound(row) /\ RowGoesOn(slot[u], row) /\ RevocationKept(slot[u], row)
  BY <1>2, <1>3 DEF SlotSound, RowGoesOn, RevocationKept
<1>5. slot' = [slot EXCEPT ![u] = row]
  BY <1>1, SlotTyped DEF DeauthReserve, Reserved
<1> QED BY <1>2, <1>4, <1>5, SlotCommand DEF DeauthReserve

\* The outcome of a revocation is in doubt.
LEMMA DoubtChanges ==
  ASSUME QuotaInv, NEW u \in Users, InDoubt(u), slot[u].action # "NONE", slot[u].armed
  PROVE  \E row \in SlotRow :
           /\ slot' = [slot EXCEPT ![u] = row] /\ SlotSound(row)
           /\ RowGoesOn(slot[u], row) /\ RevocationKept(slot[u], row)
<1>1. PICK row : row = [slot[u] EXCEPT !.state = "UNKNOWN", !.action = "UNKNOWN"]
  OBVIOUS
<1>2. /\ row.id = slot[u].id /\ row.state = "UNKNOWN" /\ row.began = slot[u].began
      /\ row.approving = slot[u].approving /\ row.action = "UNKNOWN" /\ row \in SlotRow
      /\ row.reason = slot[u].reason /\ row.armed = slot[u].armed
  BY <1>1, SlotTyped DEF SlotRow
<1>3. SlotSound(slot[u]) /\ slot[u].state # "NONE" /\ ~slot[u].approving
  BY SlotTyped DEF SlotSound
<1>4. SlotSound(row) /\ RowGoesOn(slot[u], row) /\ RevocationKept(slot[u], row)
  BY <1>2, <1>3 DEF SlotSound, RowGoesOn, RevocationKept
<1>5. slot' = [slot EXCEPT ![u] = row]
  BY <1>1, SlotTyped DEF InDoubt
<1> QED BY <1>2, <1>4, <1>5

LEMMA DeauthMeetsKeeps == ASSUME QuotaInv, NEW u \in Users, DeauthMeets(u) PROVE QuotaInv'
<1>1. PICK row \in SlotRow :
           /\ slot' = [slot EXCEPT ![u] = row] /\ SlotSound(row)
           /\ RowGoesOn(slot[u], row) /\ RevocationKept(slot[u], row)
  BY DoubtChanges DEF DeauthMeets
<1> QED BY <1>1, SlotCommand DEF DeauthMeets

LEMMA DeauthArmKeeps == ASSUME QuotaInv, NEW u \in Users, DeauthArm(u) PROVE QuotaInv'
<1>1. PICK row : row = [slot[u] EXCEPT !.armed = TRUE]
  OBVIOUS
<1>2. /\ row.id = slot[u].id /\ row.state = slot[u].state /\ row.began = slot[u].began
      /\ row.approving = slot[u].approving /\ row.action = slot[u].action /\ row \in SlotRow
  BY <1>1, SlotTyped DEF SlotRow
<1>3. slot[u].action = "PENDING" /\ slot[u].reason = "OTHER" /\ SlotSound(slot[u])
  BY SlotTyped DEF DeauthArm
<1>4. SlotSound(row) /\ RowGoesOn(slot[u], row) /\ RevocationKept(slot[u], row)
  BY <1>2, <1>3 DEF SlotSound, RowGoesOn, RevocationKept
<1>5. slot' = [slot EXCEPT ![u] = row]
  BY <1>1, SlotTyped DEF DeauthArm
<1> QED BY <1>2, <1>4, <1>5, SlotCommand DEF DeauthArm

LEMMA SettlesKeeps == ASSUME QuotaInv, NEW u \in Users, Settles(u) PROVE QuotaInv'
<1>1. UNCHANGED <<clock, task, cycle, created, ledger, adj, notice, loop, count, history>>
  BY DEF money, Settles
<1>2. InUse(u) /\ Ends(u)
  BY DEF Settles, QuotaInv, SlotsSound
<1>3. /\ SlotsType' /\ SlotsSound' /\ SlotsGoOn
      /\ \A v \in Users : v # u => slot'[v] = slot[v]
  BY <1>2, EndsGoesOn
<1>4. loop.step \in {"arm", "post"} => \A v \in Users : RevocationKept(slot[v], slot'[v])
  <2>1. loop.step \in {"arm", "post"} => slot[u].reason = "OTHER"
    BY DEF Settles
  <2> QED BY <1>3, <2>1 DEF RevocationKept
<1>5. SlotsMove
  BY <1>3, <1>4 DEF SlotsMove
<1>6. LedgersType' /\ UsesStay /\ ClockType'
  BY <1>1, QuotaParts, LedgersRest, ClockRests
<1> QED BY <1>1, <1>5, <1>6, CommandStep


-----------------------------------------------------------------------------
(* The clock, the account and the administrator.                           *)

LEMMA ClockTicksKeeps == ASSUME QuotaInv, ClockTicks PROVE QuotaInv'
<1> USE DEF money, history
<1>1. PICK n \in Nat : n = clock
  BY QuotaParts, ClockTyped
<1>2. PICK k \in Nat : k = clock' /\ k = n + 1
  BY <1>1 DEF ClockTicks
<1>3. PICK top \in Nat : top = MaxClock /\ k <= top
  <2>1. PICK b \in Bounds : k <= b.clock
    BY <1>1, <1>2 DEF ClockTicks, Within
  <2>2. b.clock \in Nat /\ b.clock <= MaxClock /\ MaxClock \in Nat
    BY LongestClock, BoundAssumption
  <2> QED BY <2>1, <2>2
<1>4. clock' \in 1 .. MaxClock
  BY <1>1, <1>2, <1>3
<1>5. ClockType'
  BY <1>4, QuotaParts DEF ClockTicks, ClockType, Within
<1>6. Typed'
  BY <1>5, QuotaParts DEF ClockTicks, Typed, LedgersType, BookType, SlotsType, NoticesType,
                          LoopType, HistoryType
<1>7. PICK r \in Nat : r = RoundOf(clock)
  BY QuotaParts, ClockTyped
<1>8. PICK m \in Rounds : m = RoundOf(clock')
  BY <1>4, RoundsTyped
<1>9. m \in Nat /\ r <= m
  <2>1. RoundOf(n) <= RoundOf(k)
    BY <1>2, RoundsGrow
  <2>2. m \in Nat
    BY RoundsTyped
  <2> QED BY <1>1, <1>2, <1>7, <1>8, <2>1, <2>2
<1>10. FutureIsBlank'
  <2>1. \A q \in Rounds : q > m => q > r
    BY <1>9, RoundsTyped
  <2> QED BY <1>7, <1>8, <2>1 DEF QuotaInv, FutureIsBlank, ClockTicks
<1>11. OverIsKnown'
  <2>1. SUFFICES ASSUME NEW u \in Users, Reached(u, m)' \/ ledger'[u][m].locked
                 PROVE  <<u, m>> \in over
    BY <1>8 DEF OverIsKnown, ClockTicks, Reached, EffectiveLimit
  <2>2. Reached(u, m) \/ ledger[u][m].locked
    BY <2>1 DEF ClockTicks, Reached, EffectiveLimit
  <2>3. CASE m > r
    BY <1>7, <2>2, <2>3 DEF QuotaInv, FutureIsBlank, Reached
  <2>4. CASE m = r
    BY <1>7, <2>2, <2>4 DEF QuotaInv, OverIsKnown
  <2> QED BY <1>9, <2>3, <2>4
<1>12. SentIsLocked'
  BY DEF QuotaInv, SentIsLocked, ClockTicks
<1>13. SlotsMove /\ LoopGoesOn
  BY SlotsUnmoved DEF LoopGoesOn, ClockTicks
<1>14. clock' >= clock
  BY <1>1, <1>2
<1> QED BY <1>6, <1>10, <1>11, <1>12, <1>13, <1>14, OutsideStep DEF ClockTicks

\* The run is told that the evidence is newer than its moment.
LEMMA OvertakeStays ==
  ASSUME QuotaInv, Overtake, created' = created
  PROVE  LoopType' /\ LoopGoesOn
<1>1. loop \in LoopState /\ loop.targets \subseteq DOMAIN created
  BY QuotaParts DEF LoopType
<1>2. loop' \in LoopState /\ loop'.targets = loop.targets
  BY <1>1 DEF Overtake, LoopState
<1>3. LoopGoesOn
  BY <1>1 DEF Overtake, LoopState, LoopGoesOn
<1> QED BY <1>1, <1>2, <1>3 DEF LoopType

LEMMA WatchedType ==
  ASSUME QuotaInv, Watched, UNCHANGED <<sent, said>>
  PROVE  HistoryType'
<1>1. RoundOf(clock) \in Rounds
  BY QuotaParts, ClockTyped
<1>2. over' \subseteq Users \X Rounds
  BY <1>1, QuotaParts DEF Watched, HistoryType
<1> QED BY <1>2, QuotaParts DEF HistoryType

\* Limits or uses change, and it is noted who is at the limit now.
LEMMA LimitsStep ==
  ASSUME QuotaInv, UNCHANGED <<clock, slot, past, notice, sent, said>>, Watched, LoopGoesOn,
         ClockType', LedgersType', BookType', LoopType', FutureIsBlank',
         \A u \in Users, r \in Rounds : ledger'[u][r].locked = ledger[u][r].locked
  PROVE  QuotaInv'
<1>1. Typed'
  BY QuotaParts, WatchedType DEF Typed, SlotsType, NoticesType
<1>2. (FutureIsBlank /\ OverIsKnown /\ SentIsLocked)'
  BY <1>1, LimitsWatched
<1>3. clock' >= clock
  BY QuotaParts, ClockTyped
<1>4. SlotsMove
  BY SlotsUnmoved
<1> QED BY <1>1, <1>2, <1>3, <1>4, OutsideStep

\* The account or the task changes, and no limit with it.
LEMMA AccountStep ==
  ASSUME QuotaInv, UNCHANGED <<clock, money, slot, past, notice, history>>, LoopGoesOn,
         ClockType', LoopType', FutureRows', task'.limit = task.limit
  PROVE  QuotaInv'
<1> USE DEF money, history
<1>1. Typed'
  BY QuotaParts DEF Typed, SlotsType, NoticesType, LedgersType, BookType, HistoryType
<1>2. UsesStay
  BY DEF UsesStay
<1>3. (FutureIsBlank /\ OverIsKnown /\ SentIsLocked)'
  BY <1>1, <1>2, LimitsQuiet
<1>4. clock' >= clock
  BY QuotaParts, ClockTyped
<1>5. SlotsMove
  BY SlotsUnmoved
<1> QED BY <1>1, <1>3, <1>4, <1>5, OutsideStep

LEMMA ChangeType ==
  ASSUME ClockType, Change, clock' = clock
  PROVE  /\ count' \in [auths : Nat, changes : Nat, faults : Nat, entries : Nat]
         /\ Within(clock, count)'
BY CountsType DEF Change

LEMMA OpenRoundKeeps ==
  ASSUME QuotaInv, NEW allow \in BOOLEAN, NEW limit \in Limits, OpenRound(allow, limit)
  PROVE  QuotaInv'
<1> USE DEF money
<1>1. PICK r \in Rounds : r = RoundOf(clock)
  BY QuotaParts, ClockTyped
<1>2. cycle \in [Rounds -> CycleRow]
  BY QuotaParts DEF ClockType
<1>3. cycle' = [q \in Rounds |->
                 IF q = r THEN [status |-> "VERIFIED", allow |-> allow, fresh |-> TRUE]
                 ELSE IF q < r THEN [cycle[q] EXCEPT !.status = "EXPIRED"] ELSE cycle[q]]
  BY <1>1 DEF OpenRound
<1>4. cycle' \in [Rounds -> CycleRow]
  <2>1. \A q \in Rounds : [cycle[q] EXCEPT !.status = "EXPIRED"] \in CycleRow
    BY <1>2 DEF CycleRow
  <2>2. [status |-> "VERIFIED", allow |-> allow, fresh |-> TRUE] \in CycleRow
    BY DEF CycleRow
  <2> QED BY <1>2, <1>3, <2>1, <2>2
<1>5. task' \in [running : BOOLEAN, gate : BOOLEAN, limit : Limits]
  BY QuotaParts DEF OpenRound, ClockType
<1>6. ClockType'
  <2>1. CASE limit = task.limit
    BY <1>4, <1>5, <2>1, QuotaParts DEF OpenRound, ClockType, Within
  <2>2. CASE limit # task.limit
    BY <1>4, <1>5, <2>2, QuotaParts, ChangeType DEF OpenRound, ClockType
  <2> QED BY <2>1, <2>2
<1>7. LedgersType' /\ UsesStay /\ BookType'
  BY QuotaParts, LedgersRest DEF OpenRound, BookType
<1>8. FutureIsBlank'
  <2>1. \A q \in Rounds : q > r => cycle'[q] = cycle[q]
    BY <1>1, <1>3, RoundsTyped
  <2> QED BY <1>1, <2>1 DEF QuotaInv, FutureIsBlank, OpenRound
<1>9. LoopType' /\ LoopGoesOn
  BY OvertakeStays DEF OpenRound
<1> QED BY <1>6, <1>7, <1>8, <1>9, LimitsStep DEF OpenRound, UsesStay

LEMMA SyncCycleKeeps ==
  ASSUME QuotaInv, NEW status \in {"VERIFIED", "NEEDS_REVIEW"}, NEW allow \in BOOLEAN,
         SyncCycle(status, allow)
  PROVE  QuotaInv'
<1>1. PICK r \in Rounds : r = RoundOf(clock)
  BY QuotaParts, ClockTyped
<1>2. PICK row \in CycleRow : row = [status |-> status, allow |-> allow, fresh |-> TRUE]
  BY DEF CycleRow
<1>3. cycle' = [cycle EXCEPT ![r] = row] /\ cycle \in [Rounds -> CycleRow]
  BY <1>1, <1>2, QuotaParts DEF SyncCycle, ClockType
<1>4. ClockType'
  BY <1>3, QuotaParts, ChangeType DEF SyncCycle, ClockType
<1>5. FutureRows'
  <2>1. \A q \in Rounds : q > r => cycle'[q] = cycle[q]
    BY <1>1, <1>3, RoundsTyped
  <2> QED BY <1>1, <2>1 DEF QuotaInv, FutureIsBlank, FutureRows, SyncCycle
<1>6. LoopType' /\ LoopGoesOn
  BY OvertakeStays DEF SyncCycle, money
<1> QED BY <1>4, <1>5, <1>6, AccountStep DEF SyncCycle

LEMMA EvidenceAgesKeeps == ASSUME QuotaInv, EvidenceAges PROVE QuotaInv'
<1>1. PICK r \in Rounds : r = RoundOf(clock)
  BY QuotaParts, ClockTyped
<1>2. cycle \in [Rounds -> CycleRow]
  BY QuotaParts DEF ClockType
<1>3. PICK row \in CycleRow : row = [cycle[r] EXCEPT !.fresh = FALSE]
  BY <1>2 DEF CycleRow
<1>4. cycle' = [cycle EXCEPT ![r] = row]
  BY <1>1, <1>2, <1>3 DEF EvidenceAges
<1>5. ClockType'
  BY <1>2, <1>4, QuotaParts, ChangeType DEF EvidenceAges, ClockType
<1>6. FutureRows'
  <2>1. \A q \in Rounds : q > r => cycle'[q] = cycle[q]
    BY <1>1, <1>2, <1>4, RoundsTyped
  <2> QED BY <1>1, <2>1 DEF QuotaInv, FutureIsBlank, FutureRows, EvidenceAges
<1>7. LoopType' /\ LoopGoesOn
  BY QuotaParts DEF EvidenceAges, money, LoopType, LoopGoesOn
<1> QED BY <1>5, <1>6, <1>7, AccountStep DEF EvidenceAges

LEMMA SetTaskKeeps ==
  ASSUME QuotaInv, NEW running \in BOOLEAN, NEW gate \in BOOLEAN, SetTask(running, gate)
  PROVE  QuotaInv'
<1>1. /\ task' \in [running : BOOLEAN, gate : BOOLEAN, limit : Limits]
      /\ task'.limit = task.limit
  BY QuotaParts DEF SetTask, ClockType
<1>2. ClockType'
  BY <1>1, QuotaParts, ChangeType DEF SetTask, ClockType
<1>3. FutureRows'
  BY DEF QuotaInv, FutureIsBlank, FutureRows, SetTask
<1>4. LoopType' /\ LoopGoesOn
  BY QuotaParts DEF SetTask, money, LoopType, LoopGoesOn
<1> QED BY <1>1, <1>2, <1>3, <1>4, AccountStep DEF SetTask

LEMMA SetLimitKeeps ==
  ASSUME QuotaInv, NEW amount \in Limits, SetLimit(amount)
  PROVE  QuotaInv'
<1> USE DEF money
<1>1. task' \in [running : BOOLEAN, gate : BOOLEAN, limit : Limits]
  BY QuotaParts DEF SetLimit, ClockType
<1>2. ClockType'
  BY <1>1, QuotaParts, ChangeType DEF SetLimit, ClockType
<1>3. FutureIsBlank'
  BY DEF QuotaInv, FutureIsBlank, SetLimit
<1>4. LoopType' /\ LoopGoesOn
  BY QuotaParts DEF SetLimit, LoopType, LoopGoesOn
<1>5. LedgersType' /\ UsesStay /\ BookType'
  BY QuotaParts, LedgersRest DEF SetLimit, BookType
<1> QED BY <1>2, <1>3, <1>4, <1>5, LimitsStep DEF SetLimit, UsesStay


\* A ledger is created at most once.
LEMMA AppendNew ==
  ASSUME NEW s \in Seq(Users \X Rounds), IsInjective(s), NEW x \in Users \X Rounds, NEW w,
         w = IF Contains(s, x) THEN s ELSE Append(s, x)
  PROVE  w \in Seq(Users \X Rounds) /\ IsInjective(w) /\ DOMAIN s \subseteq DOMAIN w
<1>1. CASE Contains(s, x)
  BY <1>1
<1>2. CASE ~Contains(s, x)
  <2>1. PICK n \in Nat : n = Len(s)
    OBVIOUS
  <2>2. /\ w \in Seq(Users \X Rounds) /\ DOMAIN s = 1 .. n /\ DOMAIN w = 1 .. n + 1
        /\ \A i \in 1 .. n : w[i] = s[i]
        /\ w[n + 1] = x
    BY <1>2, <2>1
  <2>3. \A i \in 1 .. n : s[i] # x
    BY <1>2, <2>1 DEF Contains
  <2>4. ASSUME NEW a \in 1 .. n + 1, NEW b \in 1 .. n + 1, w[a] = w[b]
        PROVE  a = b
    <3>1. CASE a \in 1 .. n /\ b \in 1 .. n
      BY <2>2, <2>4, <3>1 DEF IsInjective
    <3>2. CASE a = n + 1 /\ b \in 1 .. n
      BY <2>2, <2>3, <2>4, <3>2
    <3>3. CASE b = n + 1 /\ a \in 1 .. n
      BY <2>2, <2>3, <2>4, <3>3
    <3> QED BY <2>1, <3>1, <3>2, <3>3
  <2> QED BY <2>1, <2>2, <2>4 DEF IsInjective
<1> QED BY <1>1, <1>2

LEMMA WithLedgerStays ==
  ASSUME QuotaInv, NEW u \in Users, NEW r \in Rounds, created' = WithLedger(u, r)
  PROVE  /\ created' \in Seq(Users \X Rounds) /\ IsInjective(created')
         /\ DOMAIN created \subseteq DOMAIN created'
<1>1. PICK x \in Users \X Rounds : x = <<u, r>>
  OBVIOUS
<1>2. PICK w : w = IF Contains(created, x) THEN created ELSE Append(created, x)
  OBVIOUS
<1>3. created' = w
  BY <1>1, <1>2 DEF WithLedger, Exists
<1>4. created \in Seq(Users \X Rounds) /\ IsInjective(created)
  BY QuotaParts DEF BookType
<1> QED BY <1>2, <1>3, <1>4, AppendNew

LEMMA MeteredKeeps ==
  ASSUME QuotaInv, NEW u \in Users, NEW r \in Rounds, NEW used \in 0 .. MaxUse,
         NEW verified \in BOOLEAN, Metered(u, r, used, verified)
  PROVE  QuotaInv'
<1>1. LedgersType /\ ledger[u][r] \in LedgerRow
  BY QuotaParts, LedgerTyped
<1>2. PICK row : row = [ledger[u][r] EXCEPT !.used = used, !.verified = verified]
  OBVIOUS
<1>3. /\ row \in LedgerRow /\ row.used = used /\ row.verified = verified
      /\ row.locked = ledger[u][r].locked /\ row.unlocked = ledger[u][r].unlocked
  BY <1>1, <1>2 DEF LedgerRow
<1>4. (row.unlocked => row.locked) /\ (row.verified => row.used # None)
  <2>1. used \in Nat
    BY BoundAssumption
  <2>2. used # None
    BY <2>1, NoneAssumption
  <2> QED BY <1>1, <1>3, <2>2 DEF LedgersType
<1>5. ledger' = [ledger EXCEPT ![u][r] = row]
  BY <1>1, <1>2 DEF Metered, LedgersType
<1>6. LedgersType' /\ \A v \in Users, q \in Rounds :
        ledger'[v][q] = IF v = u /\ q = r THEN row ELSE ledger[v][q]
  BY <1>1, <1>3, <1>4, <1>5, LedgerChanges
<1>7. \A v \in Users, q \in Rounds : ledger'[v][q].locked = ledger[v][q].locked
  BY <1>3, <1>6
<1>8. FutureIsBlank'
  <2>1. ~(r > RoundOf(clock))
    BY DEF Metered, QuotaInv, FutureIsBlank
  <2>2. \A v \in Users, q \in Rounds : q > RoundOf(clock) => ledger'[v][q] = ledger[v][q]
    BY <1>6, <2>1
  <2>3. cycle' = cycle /\ clock' = clock
    BY DEF Metered
  <2>4. FutureIsBlank
    BY DEF QuotaInv
  <2> QED BY <2>2, <2>3, <2>4 DEF FutureIsBlank
<1>9. created' = WithLedger(u, r)
  BY DEF Metered
<1>10. /\ created' \in Seq(Users \X Rounds) /\ IsInjective(created')
       /\ DOMAIN created \subseteq DOMAIN created'
  BY <1>9, WithLedgerStays
<1>11. BookType' /\ LoopType' /\ ClockType' /\ LoopGoesOn
  <2>1. BookType'
    BY <1>10, QuotaParts DEF Metered, BookType
  <2>2. LoopType' /\ LoopGoesOn
    BY <1>10, QuotaParts DEF Metered, LoopType, LoopGoesOn
  <2> QED BY <2>1, <2>2, QuotaParts, ClockRests DEF Metered
<1> QED BY <1>6, <1>7, <1>8, <1>11, LimitsStep DEF Metered

\* Entries are made, and ledgers for them.
LEMMA EntriesStep ==
  ASSUME QuotaInv, UNCHANGED <<clock, task, cycle, ledger, slot, past, notice, loop, sent, said>>,
         Watched, Counts("entries"), created' \in Seq(Users \X Rounds), IsInjective(created'),
         DOMAIN created \subseteq DOMAIN created',
         \A a \in adj' \ adj : a \in [key : Keys, side : {"out", "in", "adjust"}, user : Users,
                                      round : Rounds, amount : Int]
  PROVE  QuotaInv'
<1>1. BookType'
  BY QuotaParts DEF BookType
<1>2. LoopType' /\ LoopGoesOn
  BY QuotaParts DEF LoopType, LoopGoesOn
<1>3. ClockType'
  BY QuotaParts, CountsType DEF ClockType
<1>4. LedgersType' /\ UsesStay
  BY QuotaParts, LedgersRest
<1>5. FutureIsBlank'
  BY DEF QuotaInv, FutureIsBlank
<1> QED BY <1>1, <1>2, <1>3, <1>4, <1>5, LimitsStep DEF UsesStay

LEMMA AdjustKeeps ==
  ASSUME QuotaInv, NEW k \in Keys, NEW u \in Users, NEW r \in Rounds, NEW amount \in Int,
         Adjust(k, u, r, amount)
  PROVE  QuotaInv'
<1>1. \A a \in adj' \ adj : a \in [key : Keys, side : {"out", "in", "adjust"}, user : Users,
                                   round : Rounds, amount : Int]
  BY DEF Adjust
<1>2. /\ created' \in Seq(Users \X Rounds) /\ IsInjective(created')
      /\ DOMAIN created \subseteq DOMAIN created'
  BY WithLedgerStays DEF Adjust
<1> QED BY <1>1, <1>2, EntriesStep DEF Adjust

LEMMA TransferKeeps ==
  ASSUME QuotaInv, NEW k \in Keys, NEW s \in Users, NEW t \in Users, NEW amount \in Amounts,
         Transfer(k, s, t, amount)
  PROVE  QuotaInv'
<1>1. PICK r \in Rounds : r = RoundOf(clock)
  BY QuotaParts, ClockTyped
<1>2. PICK x \in Users \X Rounds : x = <<s, r>>
  OBVIOUS
<1>3. PICK y \in Users \X Rounds : y = <<t, r>>
  OBVIOUS
<1>4. PICK first : first = IF Contains(created, x) THEN created ELSE Append(created, x)
  OBVIOUS
<1>5. created' = IF Contains(created, y) THEN first ELSE Append(first, y)
  BY <1>1, <1>2, <1>3, <1>4 DEF Transfer, Exists
<1>6. created \in Seq(Users \X Rounds) /\ IsInjective(created)
  BY QuotaParts DEF BookType
<1>7. first \in Seq(Users \X Rounds) /\ IsInjective(first) /\ DOMAIN created \subseteq DOMAIN first
  BY <1>4, <1>6, AppendNew
<1>8. Contains(first, y) <=> Contains(created, y)
  <2>1. x # y
    BY <1>2, <1>3 DEF Transfer
  <2>2. CASE Contains(created, x)
    BY <1>4, <2>2
  <2>3. CASE ~Contains(created, x)
    <3>1. PICK n \in Nat : n = Len(created)
      BY <1>6
    <3>2. first = Append(created, x) /\ Len(first) = n + 1 /\ first[n + 1] = x
          /\ \A i \in 1 .. n : first[i] = created[i]
      BY <1>4, <1>6, <2>3, <3>1
    <3> QED BY <2>1, <3>1, <3>2 DEF Contains
  <2> QED BY <2>2, <2>3
<1>9. PICK w : w = IF Contains(first, y) THEN first ELSE Append(first, y)
  OBVIOUS
<1>10. w \in Seq(Users \X Rounds) /\ IsInjective(w) /\ DOMAIN first \subseteq DOMAIN w
  BY <1>7, <1>9, AppendNew
<1>11. created' = w
  BY <1>5, <1>8, <1>9
<1>12. \A a \in adj' \ adj : a \in [key : Keys, side : {"out", "in", "adjust"}, user : Users,
                                    round : Rounds, amount : Int]
  <2>1. amount \in Int /\ -amount \in Int
    BY MoneyAssumption
  <2> QED BY <1>1, <2>1 DEF Transfer, Entries
<1> QED BY <1>7, <1>10, <1>11, <1>12, EntriesStep DEF Transfer


-----------------------------------------------------------------------------
(* The steps of a run.                                                     *)

NewTicketsHold ==
  \A i \in DOMAIN loop'.tickets, t \in Ticket : t = loop'.tickets[i] =>
    (\E j \in DOMAIN loop.tickets : t = loop.tickets[j]) \/ TicketHolds(t)'

NewSuccessIsTrue ==
  /\ loop'.step = "conclude" /\ loop'.outcome = "SUCCEEDED" =>
       \A t : t = Head(loop'.tickets) => EndedSince(t.user, t.round)'
  /\ \A u \in Users, r \in Rounds :
       notice'[u][r]["REACHED"].revoke = "SUCCEEDED" =>
         notice[u][r]["REACHED"].revoke = "SUCCEEDED" \/ EndedSince(u, r)'
  /\ \A u \in Users, r \in Rounds :
       <<u, r, "SUCCEEDED">> \in said' => <<u, r, "SUCCEEDED">> \in said \/ EndedSince(u, r)'

LEMMA RunStep ==
  ASSUME QuotaInv, Typed', clock' = clock, (FutureIsBlank /\ OverIsKnown /\ SentIsLocked)',
         SlotsSound', SlotsGoOn, RunInv', RevocationStands', NewTicketsHold, NewSuccessIsTrue
  PROVE  QuotaInv'
<1>1. clock' >= clock
  BY QuotaParts, ClockTyped
<1>2. TicketsHold'
  BY <1>1, TicketsStay DEF NewTicketsHold
<1>3. SuccessIsTrue'
  BY SuccessStays DEF NewSuccessIsTrue
<1> QED BY <1>2, <1>3, TypeParts DEF QuotaInv

\* A step of a run that moves no limit, use or lock.
LEMMA RunQuiet ==
  ASSUME QuotaInv, UNCHANGED <<clock, task, cycle, adj, over, sent>>, UsesStay, Typed',
         SlotsSound', SlotsGoOn, RunInv', RevocationStands', NewTicketsHold, NewSuccessIsTrue
  PROVE  QuotaInv'
<1>1. FutureRows'
  BY DEF QuotaInv, FutureIsBlank, FutureRows
<1>2. (FutureIsBlank /\ OverIsKnown /\ SentIsLocked)'
  BY <1>1, LimitsQuiet
<1> QED BY <1>2, RunStep

\* A step of a run that works on itself and the notices only.
LEMMA RunOnly ==
  ASSUME QuotaInv, UNCHANGED <<clock, task, cycle, money, slot, past, history>>, ClockType',
         NoticesType', LoopType', RunInv', RevocationStands', NewTicketsHold, NewSuccessIsTrue
  PROVE  QuotaInv'
<1> USE DEF money, history
<1>1. Typed'
  BY QuotaParts DEF Typed, LedgersType, BookType, SlotsType, HistoryType
<1>2. UsesStay
  BY DEF UsesStay
<1>3. SlotsSound' /\ SlotsGoOn
  BY SlotsUnmoved DEF SlotsMove
<1> QED BY <1>1, <1>2, <1>3, RunQuiet

LEMMA RunGoes ==
  ASSUME QuotaInv, clock' = clock, loop'.at = loop.at, loop.step # "idle",
         loop'.step \in {"revoke", "arm", "post", "conclude"} => loop'.tickets # <<>>,
         loop'.step = "conclude" => loop'.outcome # "",
         loop'.step = "send" => loop'.notice # <<>>
  PROVE  RunInv'
BY DEF QuotaInv, RunInv

LEMMA IdleTyped ==
  /\ Idle \in LoopState /\ Idle.step = "idle" /\ Idle.at = 0 /\ Idle.targets = {}
  /\ Idle.tickets = <<>> /\ Idle.notice = <<>>
BY ZeroTyped DEF LoopState, Idle, Outcomes

\* The run starts over, or ends.
LEMMA RunStartsOver ==
  ASSUME QuotaInv, UNCHANGED <<clock, task, cycle, money, slot, past, history>>,
         ClockType', NoticesType', LoopType', RunInv', loop'.tickets = <<>>,
         loop'.step \in {"idle", "reconcile"},
         \A u \in Users, r \in Rounds :
           notice'[u][r]["REACHED"].revoke = "SUCCEEDED" =>
             notice[u][r]["REACHED"].revoke = "SUCCEEDED" \/ EndedSince(u, r)'
  PROVE  QuotaInv'
<1>1. NewTicketsHold /\ RevocationStands'
  <2>1. DOMAIN <<>> = {}
    OBVIOUS
  <2> QED BY <2>1 DEF NewTicketsHold, RevocationStands
<1>2. NewSuccessIsTrue
  BY DEF NewSuccessIsTrue, history
<1> QED BY <1>1, <1>2, RunOnly

LEMMA BeginKeeps == ASSUME QuotaInv, Begin PROVE QuotaInv'
<1> USE DEF Begin, money
<1>1. loop' \in LoopState
  <2>1. clock \in 0 .. MaxClock
    BY QuotaParts, ClockTyped
  <2> QED BY <2>1, IdleTyped DEF LoopState
<1>2. /\ loop'.step = "reconcile" /\ loop'.at = clock /\ loop'.targets = {}
      /\ loop'.tickets = <<>>
  BY IdleTyped DEF Idle
<1>3. LoopType' /\ NoticesType' /\ ClockType'
  BY <1>1, <1>2, QuotaParts, ClockRests DEF LoopType, NoticesType
<1>4. RunInv'
  BY <1>2, QuotaParts, ClockTyped DEF RunInv
<1> QED BY <1>2, <1>3, <1>4, RunStartsOver

LEMMA IdleKeeps ==
  ASSUME QuotaInv, loop' = Idle, ClockType', NoticesType',
         UNCHANGED <<clock, task, cycle, money, slot, past, history>>,
         \A u \in Users, r \in Rounds :
           notice'[u][r]["REACHED"].revoke = "SUCCEEDED" =>
             notice[u][r]["REACHED"].revoke = "SUCCEEDED" \/ EndedSince(u, r)'
  PROVE  QuotaInv'
<1>1. LoopType'
  BY IdleTyped DEF LoopType
<1>2. RunInv'
  <2>1. 0 <= clock
    BY QuotaParts, ClockTyped
  <2> QED BY <2>1, IdleTyped DEF RunInv
<1> QED BY <1>1, <1>2, IdleTyped, RunStartsOver

LEMMA FinishKeeps == ASSUME QuotaInv, Finish PROVE QuotaInv'
BY IdleKeeps, QuotaParts, ClockRests DEF Finish, NoticesType

LEMMA FaultType ==
  ASSUME ClockType, Fault, UNCHANGED <<clock, task, cycle>>
  PROVE  ClockType'
BY CountsType DEF Fault, ClockType

LEMMA RestartKeeps == ASSUME QuotaInv, Restart PROVE QuotaInv'
<1>1. ClockType' /\ NoticesType'
  BY QuotaParts, FaultType DEF Restart, NoticesType
<1> QED BY <1>1, IdleKeeps DEF Restart

\* The run goes on to a step at which nothing is revoked or concluded.
LEMMA RunMoves ==
  ASSUME QuotaInv, UNCHANGED <<clock, task, cycle, money, slot, past, history>>,
         ClockType', NoticesType', LoopType', loop.step # "idle", loop'.at = loop.at,
         loop'.tickets = loop.tickets,
         loop'.step \notin {"arm", "post", "conclude", "send"},
         loop'.step = "revoke" => loop.tickets # <<>>,
         \A u \in Users, r \in Rounds :
           notice'[u][r]["REACHED"].revoke = "SUCCEEDED" =>
             notice[u][r]["REACHED"].revoke = "SUCCEEDED" \/ EndedSince(u, r)'
  PROVE  QuotaInv'
<1>1. RunInv'
  BY RunGoes
<1>2. RevocationStands' /\ NewTicketsHold
  BY DEF RevocationStands, NewTicketsHold
<1>3. NewSuccessIsTrue
  BY DEF NewSuccessIsTrue, history
<1> QED BY <1>1, <1>2, <1>3, RunOnly

LEMMA SelectKeeps == ASSUME QuotaInv, Select PROVE QuotaInv'
<1> USE DEF Select, money
<1>1. CurrentLedgers \in SUBSET (Nat \ {0}) /\ CurrentLedgers \subseteq DOMAIN created
  <2>1. DOMAIN created \subseteq Nat \ {0}
    BY QuotaParts DEF BookType
  <2> QED BY <2>1 DEF CurrentLedgers
<1>2. loop \in LoopState
  BY LoopTyped
<1>3. /\ loop' \in LoopState /\ loop'.targets = CurrentLedgers /\ loop'.step = "process"
      /\ loop'.at = loop.at /\ loop'.tickets = loop.tickets
  BY <1>1, <1>2 DEF LoopState
<1>4. LoopType' /\ NoticesType' /\ ClockType'
  BY <1>1, <1>3, QuotaParts, ClockRests DEF LoopType, NoticesType
<1> QED BY <1>3, <1>4, RunMoves

LEMMA ProcessedKeeps == ASSUME QuotaInv, Processed PROVE QuotaInv'
<1> USE DEF Processed, money
<1>1. loop \in LoopState
  BY LoopTyped
<1>2. /\ loop' \in LoopState /\ loop'.targets = loop.targets
      /\ loop'.step = (IF loop.tickets = <<>> THEN "notices" ELSE "revoke")
      /\ loop'.at = loop.at /\ loop'.tickets = loop.tickets
  BY <1>1 DEF LoopState
<1>3. LoopType' /\ NoticesType' /\ ClockType'
  BY <1>2, QuotaParts, ClockRests DEF LoopType, NoticesType
<1> QED BY <1>2, <1>3, RunMoves

LEMMA InvitedKeeps == ASSUME QuotaInv, Invited PROVE QuotaInv'
<1> USE DEF Invited, money
<1>1. loop \in LoopState
  BY LoopTyped
<1>2. /\ loop' \in LoopState /\ loop'.targets = loop.targets /\ loop'.step = "deliver"
      /\ loop'.at = loop.at /\ loop'.tickets = loop.tickets
  BY <1>1 DEF LoopState
<1>3. LoopType' /\ NoticesType' /\ ClockType'
  BY <1>2, QuotaParts, ClockRests DEF LoopType, NoticesType
<1> QED BY <1>2, <1>3, RunMoves

LEMMA NoticeFailsKeeps == ASSUME QuotaInv, NoticeFails PROVE QuotaInv'
<1> USE DEF NoticeFails, money
<1>1. loop \in LoopState
  BY LoopTyped
<1>2. /\ loop' \in LoopState /\ loop'.targets = loop.targets /\ loop'.step = "deliver"
      /\ loop'.at = loop.at /\ loop'.tickets = loop.tickets
  BY <1>1 DEF LoopState
<1>3. LoopType' /\ NoticesType' /\ ClockType'
  BY <1>2, QuotaParts, FaultType DEF LoopType, NoticesType
<1> QED BY <1>2, <1>3, RunMoves


\* A notice is replaced by one of the right form.
LEMMA NoticeTyped ==
  ASSUME QuotaInv, NEW u \in Users, NEW r \in Rounds, NEW e \in Events
  PROVE  /\ notice[u][r][e] \in NoticeRow /\ notice[u][r] \in [Events -> NoticeRow]
         /\ notice[u] \in [Rounds -> [Events -> NoticeRow]]
         /\ notice \in [Users -> [Rounds -> [Events -> NoticeRow]]]
BY QuotaParts DEF NoticesType

ListReplaced(u, r, list) ==
  /\ notice'[u][r] = list
  /\ \A v \in Users, q \in Rounds : ~(v = u /\ q = r) => notice'[v][q] = notice[v][q]

RowReplaced(u, r, e, row) ==
  \A v \in Users, q \in Rounds, f \in Events :
    \/ notice'[v][q][f] = notice[v][q][f]
    \/ v = u /\ q = r /\ f = e /\ notice'[v][q][f] = row

LEMMA NoticeListChanges ==
  ASSUME QuotaInv, NEW u \in Users, NEW r \in Rounds, NEW list \in [Events -> NoticeRow],
         notice' = [notice EXCEPT ![u][r] = list]
  PROVE  NoticesType' /\ ListReplaced(u, r, list)
<1>1. notice \in [Users -> [Rounds -> [Events -> NoticeRow]]]
  BY QuotaParts DEF NoticesType
<1>2. PICK page : page = [notice[u] EXCEPT ![r] = list]
  OBVIOUS
<1>3. page \in [Rounds -> [Events -> NoticeRow]]
  BY <1>1, <1>2
<1>4. page[r] = list /\ \A q \in Rounds : q # r => page[q] = notice[u][q]
  BY <1>1, <1>2
<1>5. notice' = [notice EXCEPT ![u] = page]
  BY <1>1, <1>2
<1>6. NoticesType'
  BY <1>1, <1>3, <1>5 DEF NoticesType
<1>7. notice'[u] = page /\ \A v \in Users : v # u => notice'[v] = notice[v]
  BY <1>1, <1>5
<1> QED BY <1>4, <1>6, <1>7 DEF ListReplaced

LEMMA NoticeChanges ==
  ASSUME QuotaInv, NEW u \in Users, NEW r \in Rounds, NEW e \in Events, NEW row \in NoticeRow,
         notice' = [notice EXCEPT ![u][r][e] = row]
  PROVE  NoticesType' /\ RowReplaced(u, r, e, row)
<1>1. notice \in [Users -> [Rounds -> [Events -> NoticeRow]]]
  BY QuotaParts DEF NoticesType
<1>2. PICK list : list = [notice[u][r] EXCEPT ![e] = row]
  OBVIOUS
<1>3. list \in [Events -> NoticeRow]
  BY <1>1, <1>2
<1>4. notice' = [notice EXCEPT ![u][r] = list]
  BY <1>1, <1>2
<1>5. NoticesType' /\ ListReplaced(u, r, list)
  BY <1>3, <1>4, NoticeListChanges, Zenon
<1>6. \A f \in Events : f # e => list[f] = notice[u][r][f]
  BY <1>1, <1>2
<1>7. list[e] = row
  BY <1>1, <1>2
<1> QED BY <1>5, <1>6, <1>7 DEF ListReplaced, RowReplaced

\* A notice changes, and not in what it says.
LEMMA NoticeStays ==
  ASSUME QuotaInv, NEW u \in Users, NEW r \in Rounds, NEW e \in Events, NEW row \in NoticeRow,
         notice' = [notice EXCEPT ![u][r][e] = row], row.revoke = notice[u][r][e].revoke
  PROVE  /\ NoticesType'
         /\ \A v \in Users, q \in Rounds : notice'[v][q]["REACHED"].revoke = "SUCCEEDED" =>
              notice[v][q]["REACHED"].revoke = "SUCCEEDED" \/ EndedSince(v, q)'
<1>1. "REACHED" \in Events
  BY DEF Events
<1>2. NoticesType' /\ RowReplaced(u, r, e, row)
  BY NoticeChanges, Zenon
<1>3. \A v \in Users, q \in Rounds, f \in Events :
        notice'[v][q][f].revoke = notice[v][q][f].revoke
  BY <1>2 DEF RowReplaced
<1> QED BY <1>1, <1>2, <1>3

\* The run goes on as it was, and the notices change.
LEMMA NoticeStep ==
  ASSUME QuotaInv, NoticesType', LoopType', RunInv', LoopGoesOn,
         UNCHANGED <<clock, task, cycle, money, slot, past, count, history>>,
         \A v \in Users, q \in Rounds : notice'[v][q]["REACHED"].revoke = "SUCCEEDED" =>
           notice[v][q]["REACHED"].revoke = "SUCCEEDED" \/ EndedSince(v, q)'
  PROVE  QuotaInv'
<1>1. ClockType'
  BY QuotaParts, ClockRests
<1>2. SlotsMove
  BY SlotsUnmoved
<1>3. RevocationStands'
  BY <1>2, RevocationGoesOn DEF SlotsMove
<1>4. NewTicketsHold
  BY DEF NewTicketsHold, LoopGoesOn
<1>5. NewSuccessIsTrue
  <2>1. PICK t : t = Head(loop.tickets)
    OBVIOUS
  <2>2. loop.step = "conclude" /\ loop.outcome = "SUCCEEDED" => EndedSince(t.user, t.round)
    BY <2>1 DEF QuotaInv, SuccessIsTrue
  <2>3. EndedSince(t.user, t.round) => EndedSince(t.user, t.round)'
    BY DEF EndedSince
  <2> QED BY <2>1, <2>2, <2>3 DEF NewSuccessIsTrue, LoopGoesOn, history
<1> QED BY <1>1, <1>3, <1>4, <1>5, RunOnly

LEMMA LoopRests ==
  ASSUME QuotaInv, UNCHANGED <<clock, created, loop>>
  PROVE  LoopType' /\ RunInv' /\ LoopGoesOn
BY QuotaParts DEF LoopType, QuotaInv, RunInv, LoopGoesOn

LEMMA RetryPassesKeeps ==
  ASSUME QuotaInv, NEW u \in Users, NEW r \in Rounds, NEW e \in Events, RetryPasses(u, r, e)
  PROVE  QuotaInv'
<1> USE DEF money
<1>1. PICK row : row = [notice[u][r][e] EXCEPT !.waits = FALSE]
  OBVIOUS
<1>2. row \in NoticeRow /\ row.revoke = notice[u][r][e].revoke
  <2>1. PICK old \in NoticeRow : old = notice[u][r][e]
    BY NoticeTyped
  <2> QED BY <1>1, <2>1 DEF NoticeRow
<1>3. notice' = [notice EXCEPT ![u][r][e] = row]
  BY <1>1, NoticeTyped DEF RetryPasses
<1>4. /\ NoticesType'
      /\ \A v \in Users, q \in Rounds : notice'[v][q]["REACHED"].revoke = "SUCCEEDED" =>
           notice[v][q]["REACHED"].revoke = "SUCCEEDED" \/ EndedSince(v, q)'
  BY <1>2, <1>3, NoticeStays
<1>5. LoopType' /\ RunInv' /\ LoopGoesOn
  BY LoopRests DEF RetryPasses
<1> QED BY <1>4, <1>5, NoticeStep DEF RetryPasses

LEMMA CancelNoticeKeeps ==
  ASSUME QuotaInv, NEW u \in Users, NEW r \in Rounds, NEW e \in Events, CancelNotice(u, r, e)
  PROVE  QuotaInv'
<1> USE DEF money
<1>1. PICK row : row = [notice[u][r][e] EXCEPT !.status = "CANCELLED"]
  OBVIOUS
<1>2. row \in NoticeRow /\ row.revoke = notice[u][r][e].revoke
  <2>1. PICK old \in NoticeRow : old = notice[u][r][e]
    BY NoticeTyped
  <2> QED BY <1>1, <2>1 DEF NoticeRow
<1>3. notice' = [notice EXCEPT ![u][r][e] = row]
  BY <1>1, NoticeTyped DEF CancelNotice
<1>4. /\ NoticesType'
      /\ \A v \in Users, q \in Rounds : notice'[v][q]["REACHED"].revoke = "SUCCEEDED" =>
           notice[v][q]["REACHED"].revoke = "SUCCEEDED" \/ EndedSince(v, q)'
  BY <1>2, <1>3, NoticeStays
<1>5. LoopType' /\ RunInv' /\ LoopGoesOn
  BY LoopRests DEF CancelNotice
<1> QED BY <1>4, <1>5, NoticeStep DEF CancelNotice

LEMMA NoticeSentKeeps == ASSUME QuotaInv, NoticeSent PROVE QuotaInv'
<1> USE DEF money
<1>1. PICK n \in Users \X Rounds \X Events : n = loop.notice
  BY LoopTyped DEF NoticeSent, QuotaInv, RunInv, LoopState
<1>2. n[1] \in Users /\ n[2] \in Rounds /\ n[3] \in Events
  BY <1>1
<1>3. PICK row : row = [notice[n[1]][n[2]][n[3]] EXCEPT !.status = "SENT", !.waits = FALSE]
  OBVIOUS
<1>4. row \in NoticeRow /\ row.revoke = notice[n[1]][n[2]][n[3]].revoke
  <2>1. PICK old \in NoticeRow : old = notice[n[1]][n[2]][n[3]]
    BY <1>2, NoticeTyped
  <2> QED BY <1>3, <2>1 DEF NoticeRow
<1>5. notice' = [notice EXCEPT ![n[1]][n[2]][n[3]] = row]
  <2>1. PICK u \in Users : u = n[1]
    BY <1>2
  <2>2. PICK r \in Rounds : r = n[2]
    BY <1>2
  <2>3. PICK e \in Events : e = n[3]
    BY <1>2
  <2>4. notice' = [notice EXCEPT ![u][r][e].status = "SENT", ![u][r][e].waits = FALSE]
    BY <1>1, <2>1, <2>2, <2>3 DEF NoticeSent
  <2>5. PICK one : one = [notice[u][r][e] EXCEPT !.status = "SENT"]
    OBVIOUS
  <2>6. PICK half : half = [notice EXCEPT ![u][r][e] = one]
    OBVIOUS
  <2>7. half = [notice EXCEPT ![u][r][e].status = "SENT"]
    BY <2>5, <2>6
  <2>8. half[u][r][e] = one
    BY <2>6, NoticeTyped
  <2>9. PICK two : two = [one EXCEPT !.waits = FALSE]
    OBVIOUS
  <2>10. notice' = [half EXCEPT ![u][r][e].waits = FALSE]
    BY <2>4, <2>7
  <2>11. notice' = [half EXCEPT ![u][r][e] = two]
    BY <2>8, <2>9, <2>10
  <2>12. notice' = [notice EXCEPT ![u][r][e] = two]
    <3>1. PICK list : list = [notice[u][r] EXCEPT ![e] = one]
      OBVIOUS
    <3>2. PICK page : page = [notice[u] EXCEPT ![r] = list]
      OBVIOUS
    <3>3. half = [notice EXCEPT ![u] = page] /\ half[u] = page /\ page[r] = list
      BY <2>6, <3>1, <3>2, NoticeTyped
    <3>4. PICK list2 : list2 = [list EXCEPT ![e] = two]
      OBVIOUS
    <3>5. PICK page2 : page2 = [page EXCEPT ![r] = list2]
      OBVIOUS
    <3>6. notice' = [half EXCEPT ![u] = page2]
      BY <2>11, <3>3, <3>4, <3>5
    <3>7. list2 = [notice[u][r] EXCEPT ![e] = two]
      BY <3>1, <3>4, NoticeTyped
    <3>8. page2 = [notice[u] EXCEPT ![r] = list2]
      BY <3>2, <3>5, NoticeTyped
    <3>9. notice' = [notice EXCEPT ![u] = page2]
      BY <3>3, <3>6, NoticeTyped
    <3> QED BY <3>7, <3>8, <3>9
  <2>13. two = row
    BY <1>3, <2>1, <2>2, <2>3, <2>5, <2>9
  <2> QED BY <2>1, <2>2, <2>3, <2>12, <2>13
<1>6. /\ NoticesType'
      /\ \A v \in Users, q \in Rounds : notice'[v][q]["REACHED"].revoke = "SUCCEEDED" =>
           notice[v][q]["REACHED"].revoke = "SUCCEEDED" \/ EndedSince(v, q)'
  BY <1>2, <1>4, <1>5, NoticeStays
<1>7. loop \in LoopState
  BY LoopTyped
<1>8. /\ loop' \in LoopState /\ loop'.targets = loop.targets /\ loop'.step = "deliver"
      /\ loop'.at = loop.at /\ loop'.tickets = loop.tickets
  BY <1>7 DEF NoticeSent, LoopState
<1>9. LoopType' /\ ClockType'
  BY <1>8, QuotaParts, ClockRests DEF LoopType, NoticeSent
<1> QED BY <1>6, <1>8, <1>9, RunMoves DEF NoticeSent

\* The user is told what the notice says.
LEMMA ClaimNoticeKeeps ==
  ASSUME QuotaInv, NEW u \in Users, NEW r \in Rounds, NEW e \in Events, ClaimNotice(u, r, e)
  PROVE  QuotaInv'
<1>1. PICK row : row = [notice[u][r][e] EXCEPT !.waits = TRUE]
  OBVIOUS
<1>2. row \in NoticeRow /\ row.revoke = notice[u][r][e].revoke
  <2>1. PICK old \in NoticeRow : old = notice[u][r][e]
    BY NoticeTyped
  <2> QED BY <1>1, <2>1 DEF NoticeRow
<1>3. notice' = [notice EXCEPT ![u][r][e] = row]
  BY <1>1, NoticeTyped DEF ClaimNotice
<1>4. /\ NoticesType'
      /\ \A v \in Users, q \in Rounds : notice'[v][q]["REACHED"].revoke = "SUCCEEDED" =>
           notice[v][q]["REACHED"].revoke = "SUCCEEDED" \/ EndedSince(v, q)'
  BY <1>2, <1>3, NoticeStays
<1>5. loop \in LoopState
  BY LoopTyped
<1>6. PICK n \in Users \X Rounds \X Events : n = <<u, r, e>>
  OBVIOUS
<1>7. /\ loop' \in LoopState /\ loop'.targets = loop.targets /\ loop'.step = "send"
      /\ loop'.at = loop.at /\ loop'.tickets = loop.tickets /\ loop'.notice = n
  BY <1>5, <1>6 DEF ClaimNotice, LoopState
<1>8. UNCHANGED <<clock, task, cycle, created, adj, slot, past, count, over, sent>>
  BY DEF ClaimNotice
<1>9. LedgersType' /\ UsesStay
  <2>1. CASE e = "REACHED"
    BY <2>1, QuotaParts, LedgersRest DEF ClaimNotice
  <2>2. CASE e # "REACHED"
    BY <2>2, QuotaParts, CheckStays DEF ClaimNotice
  <2> QED BY <2>1, <2>2
<1>10. \A v \in Users, q \in Rounds :
         <<v, q, "SUCCEEDED">> \in said' => <<v, q, "SUCCEEDED">> \in said \/ EndedSince(v, q)'
  <2>1. notice[u][r]["REACHED"].revoke = "SUCCEEDED" => EndedSince(u, r)
    BY DEF QuotaInv, SuccessIsTrue
  <2>2. EndedSince(u, r) => EndedSince(u, r)'
    BY <1>8 DEF EndedSince
  <2>3. ASSUME NEW v \in Users, NEW q \in Rounds, <<v, q, "SUCCEEDED">> \in said',
               <<v, q, "SUCCEEDED">> \notin said
        PROVE  v = u /\ q = r /\ notice[u][r]["REACHED"].revoke = "SUCCEEDED"
    BY <2>3 DEF ClaimNotice
  <2> QED BY <2>1, <2>2, <2>3
<1>11. Typed'
  <2>1. said' \subseteq Users \X Rounds \X Statuses
    <3>1. notice[u][r][e].revoke \in Statuses
      BY NoticeTyped DEF NoticeRow
    <3> QED BY <3>1, QuotaParts DEF ClaimNotice, HistoryType
  <2>2. HistoryType'
    BY <1>8, <2>1, QuotaParts DEF HistoryType
  <2>3. LoopType' /\ ClockType'
    BY <1>7, <1>8, QuotaParts, ClockRests DEF LoopType
  <2> QED BY <1>4, <1>8, <1>9, <2>2, <2>3, QuotaParts DEF Typed, BookType, SlotsType
<1>12. SlotsSound' /\ SlotsGoOn
  BY <1>8, SlotsUnmoved DEF SlotsMove
<1>13. RunInv'
  <2>1. n # <<>>
    BY <1>6
  <2> QED BY <1>7, <1>8, <2>1, RunGoes DEF ClaimNotice
<1>14. RevocationStands' /\ NewTicketsHold
  BY <1>7 DEF RevocationStands, NewTicketsHold
<1>15. NewSuccessIsTrue
  BY <1>4, <1>7, <1>10 DEF NewSuccessIsTrue
<1> QED BY <1>8, <1>9, <1>11, <1>12, <1>13, <1>14, <1>15, RunQuiet

LEMMA InviteKeeps == ASSUME QuotaInv, NEW u \in Users, Invite(u) PROVE QuotaInv'
<1>1. PICK r \in Rounds : r = RoundOf(loop.at)
  <2>1. PICK n \in Nat : n = MaxClock
    BY LongestClock
  <2>2. PICK k \in Nat : k = clock /\ k <= n
    BY <2>1, QuotaParts, ClockTyped
  <2>3. PICK a \in Nat : a = loop.at
    BY LoopTyped
  <2>4. a <= k /\ a >= 1
    BY <2>2, <2>3 DEF QuotaInv, RunInv, Invite
  <2>5. a \in 1 .. n
    BY <2>2, <2>4
  <2> QED BY <2>1, <2>3, <2>5, RoundsTyped
<1>2. UNCHANGED <<clock, task, cycle, adj, slot, past, loop, count, history>>
  BY DEF Invite
<1>3. /\ created' \in Seq(Users \X Rounds) /\ IsInjective(created')
      /\ DOMAIN created \subseteq DOMAIN created'
  BY <1>1, WithLedgerStays DEF Invite
<1>4. LedgersType' /\ UsesStay
  <2>1. CASE MayAuthorize(u, loop.at, FreshForRun(r))
    <3>1. CheckEffect(u, loop.at, FreshForRun(r))
      BY <1>1, <2>1 DEF Invite
    <3> QED BY <3>1, QuotaParts, CheckStays
  <2>2. CASE ~MayAuthorize(u, loop.at, FreshForRun(r))
    BY <1>1, <2>2, QuotaParts, LedgersRest DEF Invite
  <2> QED BY <2>1, <2>2
<1>5. PICK list : list = [e \in Events |-> IF e \in Unsaid(u)
                                           THEN [NoNotice EXCEPT !.status = "PENDING"]
                                           ELSE notice[u][r][e]]
  OBVIOUS
<1>6. \A e \in Events : /\ list[e] \in NoticeRow
                        /\ list[e].revoke = "SUCCEEDED" => notice[u][r][e].revoke = "SUCCEEDED"
  <2>1. [NoNotice EXCEPT !.status = "PENDING"] \in NoticeRow
        /\ [NoNotice EXCEPT !.status = "PENDING"].revoke = "NOT_REACHED"
    BY DEF NoNotice, NoticeRow, Statuses
  <2> QED BY <1>5, <2>1, NoticeTyped
<1>7. list \in [Events -> NoticeRow]
  BY <1>5, <1>6
<1>8. notice' = [notice EXCEPT ![u][r] = list]
  BY <1>1, <1>5, QuotaParts DEF Invite, NoticesType
<1>9. NoticesType' /\ ListReplaced(u, r, list)
  BY <1>7, <1>8, NoticeListChanges, Zenon
<1>10. \A v \in Users, q \in Rounds : notice'[v][q]["REACHED"].revoke = "SUCCEEDED" =>
         notice[v][q]["REACHED"].revoke = "SUCCEEDED"
  <2>1. "REACHED" \in Events
    BY DEF Events
  <2> QED BY <1>6, <1>9, <2>1 DEF ListReplaced
<1>11. Typed'
  <2>1. LoopType' /\ ClockType'
    BY <1>2, <1>3, QuotaParts, ClockRests DEF LoopType
  <2>2. BookType' /\ SlotsType' /\ HistoryType'
    BY <1>2, <1>3, QuotaParts DEF BookType, SlotsType, HistoryType, history
  <2> QED BY <1>4, <1>9, <2>1, <2>2 DEF Typed
<1>12. SlotsSound' /\ SlotsGoOn
  BY <1>2, SlotsUnmoved DEF SlotsMove
<1>13. RunInv'
  BY <1>2 DEF QuotaInv, RunInv
<1>14. loop.step = "notices"
  BY DEF Invite
<1>15. RevocationStands' /\ NewTicketsHold
  BY <1>2, <1>14 DEF RevocationStands, NewTicketsHold
<1>16. NewSuccessIsTrue
  BY <1>2, <1>10, <1>14 DEF NewSuccessIsTrue, history
<1> QED BY <1>2, <1>4, <1>11, <1>12, <1>13, <1>15, <1>16, RunQuiet DEF history


-----------------------------------------------------------------------------
(* Locks and revocations.                                                  *)

\* A run that concludes keeps its tickets.
LEMMA ConcludesTyped ==
  ASSUME QuotaInv, NEW outcome \in Outcomes, NEW aborts \in BOOLEAN, Concludes(outcome, aborts),
         created' = created
  PROVE  /\ LoopType' /\ loop'.step = "conclude" /\ loop'.outcome = outcome
         /\ loop'.at = loop.at /\ loop'.tickets = loop.tickets
<1>1. loop \in LoopState
  BY LoopTyped
<1>2. /\ loop' \in LoopState /\ loop'.targets = loop.targets /\ loop'.step = "conclude"
      /\ loop'.outcome = outcome /\ loop'.at = loop.at /\ loop'.tickets = loop.tickets
  BY <1>1 DEF Concludes, LoopState
<1> QED BY <1>2, QuotaParts DEF LoopType

\* A step that concludes a revocation, whatever it does to the association.
LEMMA ConcludesKeeps ==
  ASSUME QuotaInv, NEW outcome \in Outcomes, NEW aborts \in BOOLEAN, Concludes(outcome, aborts),
         loop.step \in {"revoke", "arm", "post"}, SlotsType', SlotsSound', SlotsGoOn, ClockType',
         UNCHANGED <<clock, task, cycle, money, notice, history>>,
         outcome = "SUCCEEDED" =>
           \A t : t = Head(loop.tickets) => EndedSince(t.user, t.round)'
  PROVE  QuotaInv'
<1> USE DEF money, history
<1>1. /\ LoopType' /\ loop'.step = "conclude" /\ loop'.outcome = outcome
      /\ loop'.at = loop.at /\ loop'.tickets = loop.tickets
  BY ConcludesTyped
<1>2. LedgersType' /\ UsesStay
  BY QuotaParts, LedgersRest
<1>3. Typed'
  BY <1>1, <1>2, QuotaParts DEF Typed, BookType, NoticesType, HistoryType
<1>4. RunInv'
  <2>1. loop.tickets # <<>> /\ outcome # ""
    BY DEF QuotaInv, RunInv, Outcomes
  <2> QED BY <1>1, <2>1, RunGoes
<1>5. RevocationStands' /\ NewTicketsHold
  BY <1>1 DEF RevocationStands, NewTicketsHold
<1>6. NewSuccessIsTrue
  BY <1>1 DEF NewSuccessIsTrue
<1> QED BY <1>2, <1>3, <1>4, <1>5, <1>6, RunQuiet

\* A step that concludes a revocation and changes the row of its association.
LEMMA SlotConcludes ==
  ASSUME QuotaInv, NEW u \in Users, NEW row \in SlotRow, slot' = [slot EXCEPT ![u] = row],
         past' = past, SlotSound(row), RowGoesOn(slot[u], row),
         NEW outcome \in Outcomes \ {"SUCCEEDED"}, NEW aborts \in BOOLEAN,
         Concludes(outcome, aborts), loop.step \in {"revoke", "arm", "post"}, ClockType',
         UNCHANGED <<clock, task, cycle, money, notice, history>>
  PROVE  QuotaInv'
<1>1. SlotsType' /\ SlotsSound' /\ SlotsGoOn
  BY SlotChanges
<1> QED BY <1>1, ConcludesKeeps

LEMMA WithdrawnChanges ==
  ASSUME QuotaInv, NEW u \in Users, Withdrawn(u), InUse(u)
  PROVE  \E row \in SlotRow :
           slot' = [slot EXCEPT ![u] = row] /\ SlotSound(row) /\ RowGoesOn(slot[u], row)
<1>1. PICK row : row = [slot[u] EXCEPT !.state = "ACTIVE", !.reason = "", !.action = "FAILED"]
  OBVIOUS
<1>2. /\ row.id = slot[u].id /\ row.state = "ACTIVE" /\ row.began = slot[u].began
      /\ row.approving = slot[u].approving /\ row.action = "FAILED" /\ row \in SlotRow
  BY <1>1, SlotTyped DEF SlotRow
<1>3. SlotSound(slot[u]) /\ slot[u].state # "NONE" /\ ~slot[u].approving
  BY SlotTyped DEF SlotSound, InUse
<1>4. SlotSound(row) /\ RowGoesOn(slot[u], row)
  BY <1>2, <1>3 DEF SlotSound, RowGoesOn
<1>5. slot' = [slot EXCEPT ![u] = row]
  BY <1>1, SlotTyped DEF Withdrawn
<1> QED BY <1>2, <1>4, <1>5

LEMMA OutcomesTyped ==
  /\ "NOT_ELIGIBLE" \in Outcomes \ {"SUCCEEDED"} /\ "FAILED" \in Outcomes \ {"SUCCEEDED"}
  /\ "UNKNOWN" \in Outcomes \ {"SUCCEEDED"} /\ "PENDING" \in Outcomes \ {"SUCCEEDED"}
  /\ "SUCCEEDED" \in Outcomes /\ FALSE \in BOOLEAN
BY DEF Outcomes

\* The association is left as it is.
LEMMA RestConcludes ==
  ASSUME QuotaInv, NEW outcome \in Outcomes, Concludes(outcome, FALSE),
         loop.step \in {"revoke", "arm", "post"},
         UNCHANGED <<clock, task, cycle, money, slot, past, notice, count, history>>,
         outcome = "SUCCEEDED" =>
           \A t : t = Head(loop.tickets) => EndedSince(t.user, t.round)'
  PROVE  QuotaInv'
<1>1. SlotsType' /\ SlotsSound' /\ SlotsGoOn
  BY SlotsUnmoved DEF SlotsMove
<1>2. ClockType'
  BY QuotaParts, ClockRests
<1>3. FALSE \in BOOLEAN
  OBVIOUS
<1> QED BY <1>1, <1>2, <1>3, ConcludesKeeps

LEMMA ReserveRefusedKeeps == ASSUME QuotaInv, ReserveRefused PROVE QuotaInv'
<1>1. PICK u \in Users : u = Head(loop.tickets).user
  BY LoopTyped DEF ReserveRefused
<1>2. ClockType'
  BY QuotaParts, ClockRests DEF ReserveRefused
<1>3. CASE UNCHANGED slot /\ Concludes("NOT_ELIGIBLE", FALSE)
  <2>1. "NOT_ELIGIBLE" \in Outcomes /\ "NOT_ELIGIBLE" # "SUCCEEDED"
    BY OutcomesTyped
  <2> QED BY <1>3, <2>1, RestConcludes DEF ReserveRefused
<1>4. CASE Resumable(u) /\ Withdrawn(u) /\ Concludes("FAILED", FALSE)
  <2>1. PICK row \in SlotRow :
           slot' = [slot EXCEPT ![u] = row] /\ SlotSound(row) /\ RowGoesOn(slot[u], row)
    BY <1>4, WithdrawnChanges DEF Resumable, InUse
  <2> QED BY <1>2, <1>4, <2>1, OutcomesTyped, SlotConcludes DEF ReserveRefused
<1> QED BY <1>1, <1>3, <1>4 DEF ReserveRefused

LEMMA ReserveMeetsKeeps == ASSUME QuotaInv, ReserveMeets PROVE QuotaInv'
<1>1. PICK t \in Ticket : t = Head(loop.tickets) /\ TicketHolds(t)
  BY LoopTyped DEF ReserveMeets
<1>2. PICK u \in Users : u = t.user
  BY <1>1 DEF Ticket
<1>3. ClockType'
  BY QuotaParts, ClockRests DEF ReserveMeets
<1>4. UNCHANGED <<clock, task, cycle, money, past, notice, count, history>>
      /\ loop.step = "revoke"
  BY DEF ReserveMeets
<1>5. CASE /\ slot[u].id # t.id \/ slot[u].state = "NONE"
           /\ UNCHANGED slot /\ Concludes("SUCCEEDED", FALSE)
  <2>1. EndedSince(t.user, t.round)
    BY <1>1, <1>2, <1>5 DEF TicketHolds, InUse
  <2>2. EndedSince(t.user, t.round) => EndedSince(t.user, t.round)'
    BY <1>4 DEF EndedSince
  <2>3. \A s : s = Head(loop.tickets) => EndedSince(s.user, s.round)'
    BY <1>1, <2>1, <2>2
  <2> QED BY <1>4, <1>5, <2>3, OutcomesTyped, RestConcludes
<1>6. CASE /\ slot[u].id = t.id /\ slot[u].action = "PENDING" /\ slot[u].armed
           /\ InDoubt(u) /\ Concludes("UNKNOWN", FALSE)
  <2>1. PICK row \in SlotRow :
           slot' = [slot EXCEPT ![u] = row] /\ SlotSound(row) /\ RowGoesOn(slot[u], row)
    BY <1>6, DoubtChanges
  <2> QED BY <1>3, <1>4, <1>6, <2>1, OutcomesTyped, SlotConcludes
<1>7. CASE UNCHANGED slot /\ Concludes("PENDING", FALSE)
  <2>1. "PENDING" \in Outcomes /\ "PENDING" # "SUCCEEDED"
    BY OutcomesTyped
  <2> QED BY <1>4, <1>7, <2>1, RestConcludes
<1>8. CASE UNCHANGED slot /\ Concludes("UNKNOWN", FALSE)
  <2>1. "UNKNOWN" \in Outcomes /\ "UNKNOWN" # "SUCCEEDED"
    BY OutcomesTyped
  <2> QED BY <1>4, <1>8, <2>1, RestConcludes
<1> QED BY <1>1, <1>2, <1>5, <1>6, <1>7, <1>8 DEF ReserveMeets

LEMMA ArmWithdrawsKeeps == ASSUME QuotaInv, ArmWithdraws PROVE QuotaInv'
<1>1. PICK u \in Users : u = Head(loop.tickets).user
  BY LoopTyped DEF ArmWithdraws
<1>2. ClockType'
  BY QuotaParts, ClockRests DEF ArmWithdraws
<1>3. slot[u].action # "NONE"
  BY <1>1 DEF QuotaInv, RevocationStands, ArmWithdraws
<1>4. InUse(u)
  BY <1>3 DEF QuotaInv, SlotsSound
<1>5. Withdrawn(u)
  BY <1>1 DEF ArmWithdraws
<1>6. PICK row \in SlotRow :
         slot' = [slot EXCEPT ![u] = row] /\ SlotSound(row) /\ RowGoesOn(slot[u], row)
  BY <1>4, <1>5, WithdrawnChanges
<1> QED BY <1>2, <1>6, OutcomesTyped, SlotConcludes DEF ArmWithdraws

LEMMA RevokeConfirmedKeeps == ASSUME QuotaInv, RevokeConfirmed PROVE QuotaInv'
<1>1. PICK t \in Ticket : t = Head(loop.tickets) /\ TicketHolds(t)
  BY LoopTyped DEF RevokeConfirmed
<1>2. PICK u \in Users : u = t.user
  BY <1>1 DEF Ticket
<1>3. ClockType'
  BY QuotaParts, ClockRests DEF RevokeConfirmed
<1>4. InUse(u)
  BY <1>1, <1>2 DEF QuotaInv, RevocationStands, SlotsSound, RevokeConfirmed
<1>5. Ends(u)
  BY <1>1, <1>2 DEF RevokeConfirmed
<1>6. /\ SlotsType' /\ SlotsSound' /\ SlotsGoOn
      /\ \E p \in past'[u] : RoundOf(p.ended) >= RoundOf(clock)
  BY <1>4, <1>5, EndsGoesOn
<1>7. EndedSince(t.user, t.round)'
  <2>1. PICK p \in past'[u] : RoundOf(p.ended) >= RoundOf(clock)
    BY <1>6
  <2>2. p \in PastRow
    BY <1>6 DEF SlotsType
  <2>3. RoundOf(p.ended) \in Nat /\ RoundOf(clock) \in Nat /\ t.round \in Nat
    BY <2>2, RoundsTyped, QuotaParts, ClockTyped DEF PastRow, Ticket
  <2>4. RoundOf(p.ended) >= t.round
    BY <1>1, <2>1, <2>3 DEF TicketHolds
  <2> QED BY <1>2, <2>4 DEF EndedSince
<1>8. \A s : s = Head(loop.tickets) => EndedSince(s.user, s.round)'
  BY <1>1, <1>7
<1> QED BY <1>3, <1>6, <1>8, OutcomesTyped, ConcludesKeeps DEF RevokeConfirmed

LEMMA RevokeLostKeeps ==
  ASSUME QuotaInv, NEW aborts \in BOOLEAN, RevokeLost(aborts)
  PROVE  QuotaInv'
<1>1. PICK u \in Users : u = Head(loop.tickets).user
  BY LoopTyped DEF RevokeLost
<1>2. ClockType'
  BY QuotaParts, FaultType DEF RevokeLost
<1>3. slot[u].action # "NONE" /\ slot[u].armed
  BY <1>1 DEF QuotaInv, RevocationStands, RevokeLost
<1>4. InDoubt(u)
  BY <1>1 DEF RevokeLost
<1>5. PICK row \in SlotRow :
         slot' = [slot EXCEPT ![u] = row] /\ SlotSound(row) /\ RowGoesOn(slot[u], row)
  BY <1>3, <1>4, DoubtChanges
<1> QED BY <1>2, <1>5, OutcomesTyped, SlotConcludes DEF RevokeLost


\* The association is reserved, or armed, for the revocation of the run.
LEMMA RevokeTyped ==
  ASSUME QuotaInv, NEW step \in {"arm", "post"}, loop' = [loop EXCEPT !.step = step],
         created' = created
  PROVE  /\ LoopType' /\ loop'.step = step /\ loop'.at = loop.at
         /\ loop'.tickets = loop.tickets
<1>1. loop \in LoopState
  BY LoopTyped
<1>2. /\ loop' \in LoopState /\ loop'.targets = loop.targets /\ loop'.step = step
      /\ loop'.at = loop.at /\ loop'.tickets = loop.tickets
  BY <1>1 DEF LoopState
<1> QED BY <1>2, QuotaParts DEF LoopType

LEMMA ReserveRevokeKeeps == ASSUME QuotaInv, ReserveRevoke PROVE QuotaInv'
<1>1. PICK u \in Users : u = Head(loop.tickets).user
  BY LoopTyped DEF ReserveRevoke
<1>2. PICK row : row = [slot[u] EXCEPT !.state = "PENDING_REVOKE", !.reason = "QUOTA",
                                       !.action = "PENDING", !.armed = FALSE]
  OBVIOUS
<1>3. /\ row.id = slot[u].id /\ row.state = "PENDING_REVOKE" /\ row.began = slot[u].began
      /\ row.approving = slot[u].approving /\ row.action = "PENDING" /\ row \in SlotRow
      /\ row.reason = "QUOTA" /\ row.armed = FALSE
  BY <1>2, SlotTyped DEF SlotRow
<1>4. slot[u].state \in {"ACTIVE", "PENDING_REVOKE"} /\ SlotSound(slot[u])
  BY <1>1, SlotTyped DEF ReserveRevoke, Resumable
<1>5. SlotSound(row) /\ RowGoesOn(slot[u], row)
  BY <1>3, <1>4 DEF SlotSound, RowGoesOn
<1>6. slot' = [slot EXCEPT ![u] = row]
  BY <1>1, <1>2, SlotTyped DEF ReserveRevoke, Reserved
<1>7. UNCHANGED <<clock, task, cycle, created, adj, past, notice, count, over, sent, said>>
  BY DEF ReserveRevoke, history
<1>8. SlotsType' /\ SlotsSound' /\ SlotsGoOn /\ slot'[u] = row
  <2>1. SlotsType' /\ SlotsSound' /\ SlotsGoOn
    BY <1>3, <1>5, <1>6, <1>7, SlotChanges
  <2> QED BY <1>6, <2>1, SlotTyped
<1>9. LedgersType' /\ UsesStay
  BY <1>1, QuotaParts, GuardStays DEF ReserveRevoke
<1>10. /\ LoopType' /\ loop'.step = "arm" /\ loop'.at = loop.at
       /\ loop'.tickets = loop.tickets
  BY RevokeTyped DEF ReserveRevoke
<1>11. Typed'
  BY <1>7, <1>8, <1>9, <1>10, QuotaParts, ClockRests
     DEF Typed, BookType, NoticesType, HistoryType
<1>12. RunInv'
  <2>1. loop.tickets # <<>> /\ loop.step = "revoke"
    BY DEF QuotaInv, RunInv, ReserveRevoke
  <2> QED BY <1>7, <1>10, <2>1, RunGoes
<1>13. RevocationStands'
  BY <1>1, <1>3, <1>8, <1>10 DEF RevocationStands
<1>14. NewTicketsHold /\ NewSuccessIsTrue
  BY <1>7, <1>10 DEF NewTicketsHold, NewSuccessIsTrue
<1> QED BY <1>7, <1>8, <1>9, <1>11, <1>12, <1>13, <1>14, RunQuiet

\* The guard is asked at the moment of the request: whoever is hit is over the limit.
LEMMA ArmRevokeKeeps == ASSUME QuotaInv, ArmRevoke PROVE QuotaInv'
<1>1. PICK t \in Ticket : t = Head(loop.tickets)
  BY LoopTyped DEF ArmRevoke
<1>2. PICK u \in Users : u = t.user
  BY <1>1 DEF Ticket
<1>3. PICK n \in Rounds : n = RoundOf(clock)
  BY QuotaParts, ClockTyped
<1>4. t.round = n /\ ledger[u][n].locked
  BY <1>1, <1>2, <1>3 DEF ArmRevoke, Guard, CurrentAt
<1>5. <<u, n>> \in over
  BY <1>3, <1>4 DEF QuotaInv, OverIsKnown
<1>6. sent' = sent \cup {<<u, n>>}
  BY <1>1, <1>2, <1>3 DEF ArmRevoke
<1>7. UNCHANGED <<clock, task, cycle, created, adj, past, notice, count, over, said>>
  BY DEF ArmRevoke
<1>8. LedgersType' /\ UsesStay
  BY <1>1, <1>2, QuotaParts, GuardStays DEF ArmRevoke
<1>9. PICK row : row = [slot[u] EXCEPT !.armed = TRUE]
  OBVIOUS
<1>10. /\ row.id = slot[u].id /\ row.state = slot[u].state /\ row.began = slot[u].began
       /\ row.approving = slot[u].approving /\ row.action = slot[u].action /\ row \in SlotRow
       /\ row.reason = slot[u].reason /\ row.armed = TRUE
  BY <1>9, SlotTyped DEF SlotRow
<1>11. SlotSound(slot[u]) /\ slot[u].reason = "QUOTA" /\ slot[u].action = "PENDING"
       /\ slot[u].state = "PENDING_REVOKE"
  BY <1>1, <1>2, SlotTyped DEF QuotaInv, RevocationStands, ArmRevoke
<1>12. SlotSound(row) /\ RowGoesOn(slot[u], row)
  BY <1>10, <1>11 DEF SlotSound, RowGoesOn
<1>13. slot' = [slot EXCEPT ![u] = row]
  BY <1>1, <1>2, <1>9, SlotTyped DEF ArmRevoke
<1>14. SlotsType' /\ SlotsSound' /\ SlotsGoOn /\ slot'[u] = row
  <2>1. SlotsType' /\ SlotsSound' /\ SlotsGoOn
    BY <1>7, <1>10, <1>12, <1>13, SlotChanges
  <2> QED BY <1>13, <2>1, SlotTyped
<1>15. /\ LoopType' /\ loop'.step = "post" /\ loop'.at = loop.at
       /\ loop'.tickets = loop.tickets
  BY RevokeTyped DEF ArmRevoke
<1>16. Typed'
  <2>1. HistoryType'
    BY <1>3, <1>6, <1>7, QuotaParts DEF HistoryType
  <2> QED BY <1>7, <1>8, <1>14, <1>15, <2>1, QuotaParts, ClockRests
          DEF Typed, BookType, NoticesType
<1>17. (FutureIsBlank /\ OverIsKnown /\ SentIsLocked)'
  <2>1. FutureIsBlank'
    BY <1>7, <1>8 DEF QuotaInv, FutureIsBlank, UsesStay
  <2>2. OverIsKnown'
    <3>1. SUFFICES ASSUME NEW v \in Users, Reached(v, n)' \/ ledger'[v][n].locked
                   PROVE  <<v, n>> \in over
      BY <1>3, <1>7 DEF OverIsKnown, Reached, EffectiveLimit
    <3>2. Reached(v, n) \/ ledger[v][n].locked
      BY <1>7, <1>8, <3>1, ReachedStays DEF UsesStay
    <3> QED BY <1>3, <3>2 DEF QuotaInv, OverIsKnown
  <2>3. SentIsLocked'
    <3>1. sent' \subseteq over'
      BY <1>5, <1>6, <1>7 DEF QuotaInv, SentIsLocked
    <3>2. \A v \in Users, q \in Rounds : <<v, q>> \in sent' => ledger[v][q].locked
      BY <1>4, <1>6 DEF QuotaInv, SentIsLocked
    <3> QED BY <1>8, <3>1, <3>2 DEF SentIsLocked, UsesStay
  <2> QED BY <2>1, <2>2, <2>3
<1>18. RunInv'
  <2>1. loop.tickets # <<>> /\ loop.step = "arm"
    BY DEF QuotaInv, RunInv, ArmRevoke
  <2> QED BY <1>7, <1>15, <2>1, RunGoes
<1>19. RevocationStands'
  BY <1>1, <1>2, <1>10, <1>11, <1>14, <1>15 DEF RevocationStands
<1>20. NewTicketsHold /\ NewSuccessIsTrue
  BY <1>7, <1>15 DEF NewTicketsHold, NewSuccessIsTrue
<1> QED BY <1>7, <1>14, <1>16, <1>17, <1>18, <1>19, <1>20, RunStep

\* The notice is told what the run concluded, and the next ticket is taken.
LEMMA SetRevokeStatusKeeps == ASSUME QuotaInv, SetRevokeStatus PROVE QuotaInv'
<1> USE DEF money
<1>1. PICK t \in Ticket : t = Head(loop.tickets)
  BY LoopTyped DEF SetRevokeStatus
<1>2. PICK u \in Users : u = t.user
  BY <1>1 DEF Ticket
<1>3. PICK r \in Rounds : r = t.round
  BY <1>1 DEF Ticket
<1>4. loop \in LoopState /\ loop.tickets \in Seq(Ticket) /\ loop.tickets # <<>>
  BY LoopTyped DEF QuotaInv, RunInv, SetRevokeStatus
<1>5. loop.outcome = "SUCCEEDED" => EndedSince(u, r)'
  <2>1. loop.outcome = "SUCCEEDED" => EndedSince(u, r)
    BY <1>1, <1>2, <1>3 DEF QuotaInv, SuccessIsTrue, SetRevokeStatus
  <2>2. EndedSince(u, r) => EndedSince(u, r)'
    BY DEF SetRevokeStatus, EndedSince
  <2> QED BY <2>1, <2>2
<1>6. /\ NoticesType'
      /\ \A v \in Users, q \in Rounds : notice'[v][q]["REACHED"].revoke = "SUCCEEDED" =>
           notice[v][q]["REACHED"].revoke = "SUCCEEDED" \/ EndedSince(v, q)'
  <2>1. CASE notice' = notice
    BY <2>1, QuotaParts DEF NoticesType
  <2>2. CASE notice' = [notice EXCEPT ![u][r]["REACHED"].revoke = loop.outcome]
    <3>1. "REACHED" \in Events
      BY DEF Events
    <3>2. PICK row : row = [notice[u][r]["REACHED"] EXCEPT !.revoke = loop.outcome]
      OBVIOUS
    <3>3. loop.outcome \in Outcomes \cup {""}
      BY <1>4 DEF LoopState
    <3>4. CASE loop.outcome # ""
      <4>1. row \in NoticeRow /\ row.revoke = loop.outcome
        <5>1. PICK old \in NoticeRow : old = notice[u][r]["REACHED"]
          BY <3>1, NoticeTyped
        <5> QED BY <3>2, <3>3, <3>4, <5>1 DEF NoticeRow, Statuses
      <4>2. notice' = [notice EXCEPT ![u][r]["REACHED"] = row]
        BY <2>2, <3>2
      <4>3. NoticesType' /\ RowReplaced(u, r, "REACHED", row)
        BY <3>1, <4>1, <4>2, NoticeChanges, Zenon
      <4>4. ASSUME NEW v \in Users, NEW q \in Rounds,
                   notice'[v][q]["REACHED"].revoke = "SUCCEEDED"
            PROVE  notice[v][q]["REACHED"].revoke = "SUCCEEDED" \/ EndedSince(v, q)'
        <5>1. CASE notice'[v][q]["REACHED"] = notice[v][q]["REACHED"]
          BY <4>4, <5>1
        <5>2. CASE v = u /\ q = r /\ notice'[v][q]["REACHED"] = row
          BY <1>5, <4>1, <4>4, <5>2
        <5> QED BY <3>1, <4>3, <5>1, <5>2 DEF RowReplaced
      <4> QED BY <4>3, <4>4
    <3>5. loop.outcome # ""
      BY DEF QuotaInv, RunInv, SetRevokeStatus
    <3> QED BY <3>4, <3>5
  <2> QED BY <1>1, <1>2, <1>3, <2>1, <2>2 DEF SetRevokeStatus
<1>7. UNCHANGED <<clock, task, cycle, money, slot, past, count, history>>
  BY DEF SetRevokeStatus
<1>8. ClockType'
  BY <1>7, QuotaParts, ClockRests
<1>9. CASE loop.aborts
  BY <1>6, <1>7, <1>8, <1>9, IdleKeeps DEF SetRevokeStatus
<1>10. CASE ~loop.aborts
  <2>1. PICK rest \in Seq(Ticket) : rest = Tail(loop.tickets)
    BY LoopTyped DEF SetRevokeStatus
  <2>2. PICK step \in {"notices", "revoke"} :
          /\ step = IF rest = <<>> THEN "notices" ELSE "revoke"
    OBVIOUS
  <2>3. loop' = [loop EXCEPT !.step = step, !.tickets = rest, !.outcome = ""]
    BY <1>10, <2>1, <2>2 DEF SetRevokeStatus
  <2>4. /\ loop' \in LoopState /\ loop'.targets = loop.targets /\ loop'.step = step
        /\ loop'.at = loop.at /\ loop'.tickets = rest
    BY <1>4, <2>3 DEF LoopState
  <2>5. LoopType'
    BY <1>7, <2>4, QuotaParts DEF LoopType
  <2>6. RunInv'
    <3>1. step = "revoke" => rest # <<>>
      BY <2>2
    <3>2. loop.step # "idle"
      BY DEF SetRevokeStatus
    <3> QED BY <1>7, <2>2, <2>4, <3>1, <3>2, RunGoes
  <2>7. NewTicketsHold
    <3>1. ASSUME NEW i \in DOMAIN rest
          PROVE  \E j \in DOMAIN loop.tickets : rest[i] = loop.tickets[j]
      <4>1. PICK n \in Nat : n = Len(loop.tickets)
        BY <1>4
      <4>2. n > 0 /\ DOMAIN rest = 1 .. n - 1 /\ DOMAIN loop.tickets = 1 .. n
            /\ \A k \in 1 .. n - 1 : rest[k] = loop.tickets[k + 1]
        BY <1>4, <2>1, <4>1
      <4>3. i + 1 \in 1 .. n
        BY <3>1, <4>2
      <4> QED BY <3>1, <4>2, <4>3
    <3> QED BY <2>4, <3>1 DEF NewTicketsHold
  <2>8. RevocationStands'
    BY <2>2, <2>4 DEF RevocationStands
  <2>9. NewSuccessIsTrue
    BY <1>6, <1>7, <2>2, <2>4 DEF NewSuccessIsTrue, history
  <2> QED BY <1>6, <1>7, <1>8, <2>5, <2>6, <2>7, <2>8, <2>9, RunOnly
<1> QED BY <1>9, <1>10


\* What a ledger at its limit is noted with is no confirmation.
LEMMA ReachedStatusTyped ==
  ASSUME QuotaInv, NEW u \in Users, NEW r
  PROVE  ReachedStatus(u, r) \in Statuses \ {"SUCCEEDED"}
<1>1. slot[u].action \in {"NONE", "PENDING", "UNKNOWN", "FAILED"}
  BY SlotFields
<1>2. {"PENDING", "UNKNOWN", "EXEMPT_LAST_DAY", "TASK_STOPPED", "NO_ACTIVE_DEVICE",
       "NOT_REACHED"} \subseteq Statuses \ {"SUCCEEDED"}
  BY DEF Statuses, Outcomes
<1>3. CASE LastDayAllowed(r, loop.at, FreshForRun(r))
  BY <1>2, <1>3 DEF ReachedStatus
<1>4. CASE ~LastDayAllowed(r, loop.at, FreshForRun(r)) /\ ~task.running
  BY <1>2, <1>4 DEF ReachedStatus
<1>5. CASE ~LastDayAllowed(r, loop.at, FreshForRun(r)) /\ task.running
  BY <1>2, <1>5 DEF ReachedStatus
<1> QED BY <1>3, <1>4, <1>5

\* A ledger is locked at its limit, in a round that has begun.
LEMMA LockStays ==
  ASSUME QuotaInv, NEW u \in Users, NEW r \in Rounds, r <= RoundOf(clock), Reached(u, r),
         UNCHANGED <<clock, task, cycle, adj, over, sent>>,
         ledger' = [ledger EXCEPT ![u][r].locked = TRUE, ![u][r].unlocked = FALSE]
  PROVE  LedgersType' /\ (FutureIsBlank /\ OverIsKnown /\ SentIsLocked)'
<1>1. LedgersType /\ ledger[u][r] \in LedgerRow
  BY QuotaParts, LedgerTyped
<1>2. PICK row : row = [ledger[u][r] EXCEPT !.locked = TRUE, !.unlocked = FALSE]
  OBVIOUS
<1>3. /\ row \in LedgerRow /\ row.used = ledger[u][r].used /\ row.locked
      /\ row.verified = ledger[u][r].verified /\ ~row.unlocked
  BY <1>1, <1>2 DEF LedgerRow
<1>4. (row.unlocked => row.locked) /\ (row.verified => row.used # None)
  BY <1>1, <1>3 DEF LedgersType
<1>5. ledger' = [ledger EXCEPT ![u][r] = row]
  BY <1>1, <1>2 DEF LedgersType
<1>6. LedgersType'
  BY <1>1, <1>3, <1>4, <1>5, LedgerChanges, Zenon
<1>12. ledger'[u][r] = row
       /\ \A v \in Users, q \in Rounds : ~(v = u /\ q = r) => ledger'[v][q] = ledger[v][q]
  <2>1. ledger \in [Users -> [Rounds -> LedgerRow]]
    BY <1>1 DEF LedgersType
  <2>3. DOMAIN ledger = Users /\ DOMAIN ledger[u] = Rounds
    BY <2>1
  <2>2. ledger'[u] = [ledger[u] EXCEPT ![r] = row]
        /\ \A v \in Users : v # u => ledger'[v] = ledger[v]
    BY <1>5, <2>3
  <2>4. ledger'[u][r] = row /\ \A q \in Rounds : q # r => ledger'[u][q] = ledger[u][q]
    BY <2>2, <2>3
  <2> QED BY <2>2, <2>4
<1>7. PICK n \in Rounds : n = RoundOf(clock)
  BY QuotaParts, ClockTyped
<1>8. \A v \in Users, q \in Rounds :
        /\ ledger'[v][q].used = ledger[v][q].used
        /\ ledger[v][q].locked => ledger'[v][q].locked
        /\ ledger'[v][q].locked => ledger[v][q].locked \/ (v = u /\ q = r)
  <2>1. ASSUME NEW v \in Users, NEW q \in Rounds
        PROVE  /\ ledger'[v][q].used = ledger[v][q].used
               /\ ledger[v][q].locked => ledger'[v][q].locked
               /\ ledger'[v][q].locked => ledger[v][q].locked \/ (v = u /\ q = r)
    <3>1. CASE v = u /\ q = r
      BY <1>3, <1>12, <3>1
    <3>2. CASE ~(v = u /\ q = r)
      BY <1>12, <3>2
    <3> QED BY <3>1, <3>2
  <2> QED BY <2>1
<1>9. FutureIsBlank'
  <2>1. FutureIsBlank /\ \A q \in Rounds : q > n => q # r
    BY <1>7, RoundsTyped DEF QuotaInv
  <2>2. \A v \in Users, q \in Rounds : q > n => ledger'[v][q] = ledger[v][q]
    BY <1>12, <2>1
  <2>3. cycle' = cycle /\ RoundOf(clock') = n
    BY <1>7
  <2>5. \A q \in Rounds : q > n =>
          /\ cycle[q].status = "NONE"
          /\ \A v \in Users : ledger[v][q].used = None /\ ~ledger[v][q].locked
    BY <1>7, <2>1 DEF FutureIsBlank
  <2>4. \A q \in Rounds : q > n => cycle'[q].status = "NONE"
    BY <2>3, <2>5
  <2>6. \A q \in Rounds : q > n =>
          \A v \in Users : ledger'[v][q].used = None /\ ~ledger'[v][q].locked
    <3>1. ASSUME NEW q \in Rounds, q > n, NEW v \in Users
          PROVE  ledger'[v][q].used = None /\ ~ledger'[v][q].locked
      <4>1. ledger'[v][q] = ledger[v][q]
        BY <2>2, <3>1
      <4>2. ledger[v][q].used = None /\ ~ledger[v][q].locked
        BY <2>5, <3>1
      <4> QED BY <4>1, <4>2
    <3> QED BY <3>1
  <2> QED BY <2>3, <2>4, <2>6 DEF FutureIsBlank
<1>10. OverIsKnown'
  <2>1. SUFFICES ASSUME NEW v \in Users, Reached(v, n)' \/ ledger'[v][n].locked
                 PROVE  <<v, n>> \in over
    BY <1>7 DEF OverIsKnown, Reached, EffectiveLimit
  <2>2. Reached(v, n) \/ ledger[v][n].locked
    BY <1>8, <2>1, ReachedStays
  <2> QED BY <1>7, <2>2 DEF QuotaInv, OverIsKnown
<1>11. SentIsLocked'
  BY <1>8 DEF QuotaInv, SentIsLocked
<1> QED BY <1>6, <1>9, <1>10, <1>11

\* The round of a ledger that is processed has begun.
LEMMA ProcessedRound ==
  ASSUME QuotaInv, NEW r \in Rounds, RoundOf(loop.at) = r
  PROVE  r <= RoundOf(clock)
<1>1. PICK k \in Nat : k = clock
  BY QuotaParts, ClockTyped
<1>2. PICK a \in Nat : a = loop.at
  BY LoopTyped
<1>3. a <= k
  BY <1>1, <1>2 DEF QuotaInv, RunInv
<1> QED BY <1>1, <1>2, <1>3, RoundsGrow

LEMMA ProcessLedgerKeeps ==
  ASSUME QuotaInv, NEW i \in DOMAIN created, ProcessLedger(i)
  PROVE  QuotaInv'
<1>1. PICK u \in Users : u = created[i][1]
  BY QuotaParts DEF BookType
<1>2. PICK r \in Rounds : r = created[i][2]
  BY QuotaParts DEF BookType
<1>3. UNCHANGED <<clock, task, cycle, created, adj, slot, past, count, over, sent, said>>
  BY DEF ProcessLedger, history
<1>4. /\ LedgersType'
      /\ (FutureIsBlank /\ OverIsKnown /\ SentIsLocked)'
  <2>1. CASE ledger' = ledger
    <3>1. LedgersType' /\ UsesStay
      BY <2>1, QuotaParts, LedgersRest
    <3>2. FutureIsBlank' /\ SentIsLocked'
      BY <1>3, <2>1 DEF QuotaInv, FutureIsBlank, SentIsLocked
    <3>3. OverIsKnown'
      BY <1>3, <2>1 DEF QuotaInv, OverIsKnown, Reached, EffectiveLimit
    <3> QED BY <3>1, <3>2, <3>3
  <2>2. CASE /\ CurrentAt(r, loop.at) /\ LockDue(u, r)
             /\ ledger' = [ledger EXCEPT ![u][r].locked = TRUE, ![u][r].unlocked = FALSE]
    <3>1. Reached(u, r) /\ r <= RoundOf(clock)
      BY <2>2, ProcessedRound DEF LockDue, CurrentAt
    <3> QED BY <1>3, <2>2, <3>1, LockStays
  <2> QED BY <1>1, <1>2, <2>1, <2>2 DEF ProcessLedger
<1>5. /\ NoticesType'
      /\ \A v \in Users, q \in Rounds : notice'[v][q]["REACHED"].revoke = "SUCCEEDED" =>
           notice[v][q]["REACHED"].revoke = "SUCCEEDED"
  <2>1. CASE notice' = notice
    BY <2>1, QuotaParts DEF NoticesType
  <2>2. CASE notice' = [notice EXCEPT ![u][r]["REACHED"] =
                          [status |-> "PENDING", waits |-> FALSE, revoke |-> ReachedStatus(u, r)]]
    <3>1. "REACHED" \in Events
      BY DEF Events
    <3>2. PICK row : row = [status |-> "PENDING", waits |-> FALSE, revoke |-> ReachedStatus(u, r)]
      OBVIOUS
    <3>3. row \in NoticeRow /\ row.revoke # "SUCCEEDED"
      BY <3>2, ReachedStatusTyped DEF NoticeRow
    <3>4. notice' = [notice EXCEPT ![u][r]["REACHED"] = row]
      BY <2>2, <3>2
    <3>5. NoticesType' /\ RowReplaced(u, r, "REACHED", row)
      BY <3>1, <3>3, <3>4, NoticeChanges, Zenon
    <3> QED BY <3>1, <3>3, <3>5 DEF RowReplaced
  <2> QED BY <1>1, <1>2, <2>1, <2>2 DEF ProcessLedger
<1>6. PICK t \in Ticket : t = [user |-> u, round |-> r, id |-> slot[u].id]
  BY SlotFields DEF Ticket
<1>7. PICK tickets : tickets = IF CurrentAt(r, loop.at) /\ ledger[u][r].used # None
                                  /\ WantsRevoke(u, r)
                               THEN Append(loop.tickets, t) ELSE loop.tickets
  OBVIOUS
<1>8. tickets \in Seq(Ticket)
  BY <1>7, LoopTyped
<1>9. loop \in LoopState /\ loop.step = "process"
  BY LoopTyped DEF ProcessLedger
<1>10. loop' = [loop EXCEPT !.targets = loop.targets \ {i}, !.tickets = tickets]
  BY <1>1, <1>2, <1>6, <1>7 DEF ProcessLedger
<1>11. /\ loop' \in LoopState /\ loop'.targets = loop.targets \ {i} /\ loop'.step = "process"
       /\ loop'.at = loop.at /\ loop'.tickets = tickets
  BY <1>8, <1>9, <1>10 DEF LoopState
<1>12. LoopType'
  BY <1>3, <1>11, QuotaParts DEF LoopType
<1>13. Typed'
  BY <1>3, <1>4, <1>5, <1>12, QuotaParts, ClockRests DEF Typed, BookType, SlotsType, HistoryType
<1>14. SlotsSound' /\ SlotsGoOn
  BY <1>3, SlotsUnmoved DEF SlotsMove
<1>15. RunInv' /\ RevocationStands'
  <2>1. RunInv'
    BY <1>3, <1>9, <1>11, RunGoes
  <2> QED BY <1>11, <2>1 DEF RevocationStands
<1>16. NewTicketsHold
  <2>1. CASE tickets = loop.tickets
    BY <1>11, <2>1 DEF NewTicketsHold
  <2>2. CASE /\ CurrentAt(r, loop.at) /\ WantsRevoke(u, r)
             /\ tickets = Append(loop.tickets, t)
    <3>1. t.user = u /\ t.round = r /\ t.id = slot[u].id
      BY <1>6
    <3>2. InUse(u)
      BY <2>2 DEF WantsRevoke, Resumable, InUse
    <3>3. t.round <= RoundOf(clock)
      BY <2>2, <3>1, ProcessedRound DEF CurrentAt
    <3>4. TicketHolds(t)'
      BY <1>3, <3>1, <3>2, <3>3 DEF TicketHolds, InUse
    <3>5. \A k \in DOMAIN tickets :
            tickets[k] = t \/ \E j \in DOMAIN loop.tickets : tickets[k] = loop.tickets[j]
      <4>1. PICK n \in Nat : n = Len(loop.tickets)
        BY LoopTyped
      <4>2. /\ DOMAIN tickets = 1 .. n + 1 /\ DOMAIN loop.tickets = 1 .. n
            /\ tickets[n + 1] = t /\ \A j \in 1 .. n : tickets[j] = loop.tickets[j]
        BY <2>2, <4>1, LoopTyped
      <4>3. \A k \in 1 .. n + 1 : k = n + 1 \/ k \in 1 .. n
        OBVIOUS
      <4> QED BY <4>2, <4>3
    <3> QED BY <1>11, <3>4, <3>5 DEF NewTicketsHold
  <2> QED BY <1>7, <2>1, <2>2
<1>17. NewSuccessIsTrue
  BY <1>3, <1>5, <1>11 DEF NewSuccessIsTrue
<1> QED BY <1>3, <1>4, <1>13, <1>14, <1>15, <1>16, <1>17, RunStep

-----------------------------------------------------------------------------
(* The theorems.                                                           *)

LEMMA RunKeeps == ASSUME QuotaInv, Run PROVE QuotaInv'
<1>1. CASE Begin \/ Select \/ Processed \/ \E i \in DOMAIN created : ProcessLedger(i)
  BY <1>1, BeginKeeps, SelectKeeps, ProcessedKeeps, ProcessLedgerKeeps
<1>2. CASE ReserveRevoke \/ ReserveRefused \/ ReserveMeets
  BY <1>2, ReserveRevokeKeeps, ReserveRefusedKeeps, ReserveMeetsKeeps
<1>3. CASE ArmRevoke \/ ArmWithdraws \/ RevokeConfirmed \/ SetRevokeStatus
  BY <1>3, ArmRevokeKeeps, ArmWithdrawsKeeps, RevokeConfirmedKeeps, SetRevokeStatusKeeps
<1>4. CASE \E u \in Users : Invite(u)
  BY <1>4, InviteKeeps
<1>5. CASE \E u \in Users, r \in Rounds, e \in Events : ClaimNotice(u, r, e) \/ CancelNotice(u, r, e)
  BY <1>5, ClaimNoticeKeeps, CancelNoticeKeeps
<1>6. CASE Invited \/ NoticeSent \/ Finish
  BY <1>6, InvitedKeeps, NoticeSentKeeps, FinishKeeps
<1> QED BY <1>1, <1>2, <1>3, <1>4, <1>5, <1>6 DEF Run

LEMMA QuotaStep == ASSUME QuotaInv, [Next]_vars PROVE QuotaInv'
<1>1. CASE Run
  BY <1>1, RunKeeps
<1>2. CASE ClockTicks \/ EvidenceAges \/ NoticeFails \/ Restart
  BY <1>2, ClockTicksKeeps, EvidenceAgesKeeps, NoticeFailsKeeps, RestartKeeps
<1>3. CASE \E allow \in BOOLEAN, limit \in Limits : OpenRound(allow, limit)
  BY <1>3, OpenRoundKeeps
<1>4. CASE \E status \in {"VERIFIED", "NEEDS_REVIEW"}, allow \in BOOLEAN : SyncCycle(status, allow)
  BY <1>4, SyncCycleKeeps
<1>5. CASE \/ \E running \in BOOLEAN, gate \in BOOLEAN : SetTask(running, gate)
           \/ \E amount \in Limits : SetLimit(amount)
  BY <1>5, SetTaskKeeps, SetLimitKeeps
<1>6. CASE \E u \in Users, r \in Rounds, used \in 0 .. MaxUse, verified \in BOOLEAN :
             Metered(u, r, used, verified)
  BY <1>6, MeteredKeeps
<1>7. CASE \E k \in Keys, u \in Users, r \in Rounds, amount \in Amounts :
             Adjust(k, u, r, amount) \/ Adjust(k, u, r, -amount)
  <2>1. PICK k \in Keys, u \in Users, r \in Rounds, amount \in Amounts :
          Adjust(k, u, r, amount) \/ Adjust(k, u, r, -amount)
    BY <1>7
  <2>2. amount \in Int /\ -amount \in Int
    BY MoneyAssumption
  <2>3. PICK given \in Int : Adjust(k, u, r, given)
    BY <2>1, <2>2
  <2> QED BY <2>3, AdjustKeeps
<1>8. CASE \E k \in Keys, s, t \in Users, amount \in Amounts : Transfer(k, s, t, amount)
  BY <1>8, TransferKeeps
<1>9. CASE \E u \in Users : AuthReserve(u) \/ AuthArm(u) \/ AuthGranted(u) \/ AuthFails(u)
  BY <1>9, AuthReserveKeeps, AuthArmKeeps, AuthGrantedKeeps, AuthFailsKeeps
<1>10. CASE \E u \in Users : DeauthReserve(u) \/ DeauthMeets(u) \/ DeauthArm(u) \/ Settles(u)
  BY <1>10, DeauthReserveKeeps, DeauthMeetsKeeps, DeauthArmKeeps, SettlesKeeps
<1>11. CASE \E aborts \in BOOLEAN : RevokeLost(aborts)
  BY <1>11, RevokeLostKeeps
<1>12. CASE \E u \in Users, r \in Rounds, e \in Events : RetryPasses(u, r, e)
  BY <1>12, RetryPassesKeeps
<1>13. CASE UNCHANGED vars
  <2>1. /\ UNCHANGED <<clock, task, cycle, created, adj, notice, loop, history>>
        /\ UNCHANGED <<ledger, slot, past, count>>
    BY <1>13 DEF vars, money
  <2>2. ClockType' /\ LedgersType' /\ UsesStay
    BY <2>1, QuotaParts, ClockRests, LedgersRest
  <2>3. SlotsMove
    BY <2>1, SlotsUnmoved
  <2> QED BY <2>1, <2>2, <2>3, CommandStep
<1> QED BY <1>1, <1>2, <1>3, <1>4, <1>5, <1>6, <1>7, <1>8, <1>9, <1>10, <1>11, <1>12, <1>13
        DEF Next

LEMMA QuotaInvariant == Spec => []QuotaInv
<1>1. Init => QuotaInv
  BY InitQuota
<1>2. QuotaInv /\ [Next]_vars => QuotaInv'
  BY QuotaStep
<1> QED BY <1>1, <1>2, PTL DEF Spec

\* Every variable keeps its form, a ledger is created once, a lock alone is released,
\* only a known use is verified, and the bounds hold.
THEOREM QuotaTyped == Spec => []TypeOK
<1>1. QuotaInv => TypeOK
  BY DEF QuotaInv
<1> QED BY <1>1, QuotaInvariant, PTL

\* A user is told that the revocation of a round is confirmed only if an association of
\* that user has ended since the round began: the answer may have been lost, the ticket
\* may be of an earlier moment, and another command may have met the same revocation.
THEOREM ConfirmationsAreTrue == Spec => []ConfirmationIsTrue
<1>1. QuotaInv => ConfirmationIsTrue
  BY DEF QuotaInv, SuccessIsTrue
<1> QED BY <1>1, QuotaInvariant, PTL

\* A revocation of a run is sent by the second check of its guard and by nothing else.
LEMMA SentOnlyArmed ==
  ASSUME [Next]_vars, sent' # sent
  PROVE  ArmRevoke
<1> USE DEF vars, money, history
<1>1. ASSUME Run PROVE ArmRevoke
  <2>1. sent' = sent \/ ArmRevoke \/ \E u \in Users, r \in Rounds, e \in Events :
          ClaimNotice(u, r, e) \/ CancelNotice(u, r, e)
    BY <1>1 DEF Run, Begin, Select, Processed, ProcessLedger, ReserveRevoke, ReserveRefused,
       ReserveMeets, ArmWithdraws, RevokeConfirmed, SetRevokeStatus, Invite, Invited,
       NoticeSent, Finish
  <2>2. \A u \in Users, r \in Rounds, e \in Events :
          ClaimNotice(u, r, e) \/ CancelNotice(u, r, e) => sent' = sent
    BY DEF ClaimNotice, CancelNotice
  <2> QED BY <2>1, <2>2
<1>2. ClockTicks \/ EvidenceAges \/ NoticeFails \/ Restart => sent' = sent
  BY DEF ClockTicks, EvidenceAges, NoticeFails, Restart
<1>3. \A allow \in BOOLEAN, limit \in Limits : OpenRound(allow, limit) => sent' = sent
  BY DEF OpenRound
<1>4. \A status, allow : SyncCycle(status, allow) => sent' = sent
  BY DEF SyncCycle
<1>5. /\ \A running, gate : SetTask(running, gate) => sent' = sent
      /\ \A amount : SetLimit(amount) => sent' = sent
  BY DEF SetTask, SetLimit
<1>6. \A u, r, used, verified : Metered(u, r, used, verified) => sent' = sent
  BY DEF Metered
<1>7. \A k, u, r, amount : Adjust(k, u, r, amount) => sent' = sent
  BY DEF Adjust
<1>8. \A k, s, t, amount : Transfer(k, s, t, amount) => sent' = sent
  BY DEF Transfer
<1>9. \A u : AuthReserve(u) \/ AuthArm(u) \/ AuthGranted(u) \/ AuthFails(u)
             \/ DeauthReserve(u) \/ DeauthMeets(u) \/ DeauthArm(u) \/ Settles(u) => sent' = sent
  BY DEF AuthReserve, AuthArm, AuthGranted, AuthFails, DeauthReserve, DeauthMeets, DeauthArm,
         Settles
<1>10. \A aborts : RevokeLost(aborts) => sent' = sent
  BY DEF RevokeLost
<1>11. \A u, r, e : RetryPasses(u, r, e) => sent' = sent
  BY DEF RetryPasses
<1> QED BY <1>1, <1>2, <1>3, <1>4, <1>5, <1>6, <1>7, <1>8, <1>9, <1>10, <1>11 DEF Next

\* A quota revocation is sent only while the task runs, the gate is open and the last day
\* does not release the user, and only to a user who was over the limit in that round,
\* however old the ticket is and however limits and uses moved since it was taken.
THEOREM RevocationsAreEnforced == Spec => RevokedOnlyWhileEnforced
<1>1. ASSUME QuotaInv, QuotaInv', [Next]_vars, sent' # sent
      PROVE  /\ task.running /\ task.gate
             /\ ~LastDayAllowed(RoundOf(clock), clock, FreshNow)
             /\ sent' \subseteq over'
  <2>1. ArmRevoke
    BY <1>1, SentOnlyArmed
  <2>2. PICK r : r = RoundOf(clock)
    OBVIOUS
  <2>3. task.running /\ task.gate /\ ~LastDayAllowed(r, clock, cycle[r].fresh)
    BY <2>1, <2>2 DEF ArmRevoke, Guard, CurrentAt
  <2>4. sent' \subseteq over'
    BY <1>1 DEF QuotaInv, SentIsLocked
  <2> QED BY <2>2, <2>3, <2>4 DEF FreshNow
<1>2. QuotaInv /\ QuotaInv' /\ [Next]_vars =>
        [sent' # sent => /\ task.running /\ task.gate
                         /\ ~LastDayAllowed(RoundOf(clock), clock, FreshNow)
                         /\ sent' \subseteq over']_vars
  BY <1>1
<1>3. Spec => [][Next]_vars
  BY PTL DEF Spec
<1> QED BY <1>2, <1>3, QuotaInvariant, PTL DEF RevokedOnlyWhileEnforced

\* An approval is sent by the second check of an authorization and by nothing else.
LEMMA ApprovesOnlyArmed ==
  ASSUME QuotaInv, [Next]_vars, NEW u \in Users, slot'[u].approving, ~slot[u].approving
  PROVE  AuthArm(u)
<1> USE DEF vars, money, history
<1>1. slot \in [Users -> SlotRow] /\ slot' # slot
  BY SlotTyped
\* A step that replaces a row by one of the given form approves nothing.
<1>2. ASSUME NEW v \in Users, NEW row, ~row.approving \/ row.approving = slot[v].approving,
             slot' = [slot EXCEPT ![v] = row]
      PROVE  FALSE
  BY <1>1, <1>2
<1>3. ASSUME NEW v \in Users, Ends(v) PROVE FALSE
  <2>1. PICK row : row = [NoSlot EXCEPT !.id = slot[v].id,
                                        !.reason = IF slot[v].reason = "QUOTA" THEN "QUOTA"
                                                   ELSE "OTHER"]
    OBVIOUS
  <2>2. ~row.approving
    BY <2>1 DEF NoSlot
  <2>3. slot' = [slot EXCEPT ![v] = row]
    BY <1>3, <2>1 DEF Ends
  <2> QED BY <1>2, <2>2, <2>3
<1>4. ASSUME NEW v \in Users, Withdrawn(v) \/ InDoubt(v)
             \/ Reserved(v, "QUOTA") \/ Reserved(v, "OTHER")
             \/ slot' = [slot EXCEPT ![v].armed = TRUE]
      PROVE  FALSE
  <2>1. slot'[u].approving = slot[u].approving
    <3>1. slot[v] \in SlotRow
      BY <1>1
    <3>2. ASSUME NEW row, row.approving = slot[v].approving, slot' = [slot EXCEPT ![v] = row]
          PROVE  slot'[u].approving = slot[u].approving
      BY <1>1, <3>2
    <3>3. ASSUME Withdrawn(v) PROVE slot'[u].approving = slot[u].approving
      <4>1. PICK row : row = [slot[v] EXCEPT !.state = "ACTIVE", !.reason = "", !.action = "FAILED"]
        OBVIOUS
      <4>2. slot' = [slot EXCEPT ![v] = row]
        BY <1>1, <3>3, <4>1 DEF Withdrawn
      <4>3. row.approving = slot[v].approving
        BY <3>1, <4>1 DEF SlotRow
      <4> QED BY <3>2, <4>2, <4>3
    <3>4. ASSUME InDoubt(v) PROVE slot'[u].approving = slot[u].approving
      <4>1. PICK row : row = [slot[v] EXCEPT !.state = "UNKNOWN", !.action = "UNKNOWN"]
        OBVIOUS
      <4>2. slot' = [slot EXCEPT ![v] = row]
        BY <1>1, <3>4, <4>1 DEF InDoubt
      <4>3. row.approving = slot[v].approving
        BY <3>1, <4>1 DEF SlotRow
      <4> QED BY <3>2, <4>2, <4>3
    <3>5. ASSUME NEW reason, Reserved(v, reason) PROVE slot'[u].approving = slot[u].approving
      <4>1. PICK row : row = [slot[v] EXCEPT !.state = "PENDING_REVOKE", !.reason = reason,
                                             !.action = "PENDING", !.armed = FALSE]
        OBVIOUS
      <4>2. slot' = [slot EXCEPT ![v] = row]
        BY <1>1, <3>5, <4>1 DEF Reserved
      <4>3. row.approving = slot[v].approving
        BY <3>1, <4>1 DEF SlotRow
      <4> QED BY <3>2, <4>2, <4>3
    <3>6. ASSUME slot' = [slot EXCEPT ![v].armed = TRUE]
          PROVE  slot'[u].approving = slot[u].approving
      <4>1. PICK row : row = [slot[v] EXCEPT !.armed = TRUE]
        OBVIOUS
      <4>2. slot' = [slot EXCEPT ![v] = row]
        BY <1>1, <3>6, <4>1
      <4>3. row.approving = slot[v].approving
        BY <3>1, <4>1 DEF SlotRow
      <4> QED BY <3>2, <4>2, <4>3
    <3> QED BY <1>4, <3>3, <3>4, <3>5, <3>6
  <2> QED BY <2>1
<1>5. ASSUME Run PROVE FALSE
  <2>1. ReserveRevoke \/ ReserveRefused \/ ReserveMeets \/ ArmRevoke \/ ArmWithdraws
        \/ RevokeConfirmed
    <3>1. \A w \in Users, r \in Rounds, e \in Events :
            ClaimNotice(w, r, e) \/ CancelNotice(w, r, e) => slot' = slot
      BY DEF ClaimNotice, CancelNotice
    <3>2. Begin \/ Select \/ Processed \/ SetRevokeStatus \/ Invited \/ NoticeSent \/ Finish
            => slot' = slot
      BY DEF Begin, Select, Processed, SetRevokeStatus, Invited, NoticeSent, Finish
    <3>3. /\ \A w : Invite(w) => slot' = slot
          /\ \A i : ProcessLedger(i) => slot' = slot
      BY DEF Invite, ProcessLedger
    <3> QED BY <1>1, <1>5, <3>1, <3>2, <3>3 DEF Run
  <2>2. loop.step \in {"revoke", "arm", "post"}
    BY <2>1 DEF ReserveRevoke, ReserveRefused, ReserveMeets, ArmRevoke, ArmWithdraws,
       RevokeConfirmed
  <2>3. PICK v \in Users : v = Head(loop.tickets).user
    BY <2>2, LoopTyped
  <2>4. \/ Withdrawn(v) \/ InDoubt(v) \/ Reserved(v, "QUOTA") \/ Ends(v)
        \/ slot' = [slot EXCEPT ![v].armed = TRUE]
    BY <1>1, <2>1, <2>3 DEF ReserveRevoke, ReserveRefused, ReserveMeets, ArmRevoke, ArmWithdraws,
       RevokeConfirmed
  <2> QED BY <1>3, <1>4, <2>3, <2>4
<1>6. ASSUME NEW v \in Users, AuthReserve(v) \/ AuthGranted(v) \/ AuthFails(v) PROVE FALSE
  <2>1. CASE AuthReserve(v)
    <3>1. PICK row : row = [NoSlot EXCEPT !.id = slot[v].id + 1, !.state = "PENDING_AUTH",
                                          !.began = clock]
      OBVIOUS
    <3>2. ~row.approving
      BY <3>1 DEF NoSlot
    <3>3. slot' = [slot EXCEPT ![v] = row]
      BY <2>1, <3>1 DEF AuthReserve
    <3> QED BY <1>2, <3>2, <3>3
  <2>2. CASE AuthGranted(v)
    <3>1. PICK row : row = [slot[v] EXCEPT !.approving = FALSE, !.state = "ACTIVE"]
      OBVIOUS
    <3>2. ~row.approving
      <4>1. slot[v] \in SlotRow
        BY <1>1
      <4> QED BY <3>1, <4>1 DEF SlotRow
    <3>3. slot' = [slot EXCEPT ![v] = row]
      BY <1>1, <2>2, <3>1 DEF AuthGranted
    <3> QED BY <1>2, <3>2, <3>3
  <2>3. CASE AuthFails(v)
    <3>1. PICK row : row = [NoSlot EXCEPT !.id = slot[v].id, !.reason = "OTHER"]
      OBVIOUS
    <3>2. ~row.approving
      BY <3>1 DEF NoSlot
    <3>3. slot' = [slot EXCEPT ![v] = row]
      BY <2>3, <3>1 DEF AuthFails
    <3> QED BY <1>2, <3>2, <3>3
  <2> QED BY <1>6, <2>1, <2>2, <2>3
<1>7. ASSUME NEW v \in Users, AuthArm(v) PROVE AuthArm(u)
  <2>1. v # u => slot'[u] = slot[u]
    BY <1>1, <1>7 DEF AuthArm
  <2> QED BY <1>7, <2>1
<1>8. ASSUME NEW v \in Users, DeauthReserve(v) \/ DeauthMeets(v) \/ DeauthArm(v) \/ Settles(v)
      PROVE  FALSE
  BY <1>3, <1>4, <1>8 DEF DeauthReserve, DeauthMeets, DeauthArm, Settles
<1>9. ASSUME NEW aborts \in BOOLEAN, RevokeLost(aborts) PROVE FALSE
  <2>1. PICK v \in Users : v = Head(loop.tickets).user
    BY <1>9, LoopTyped DEF RevokeLost
  <2>2. InDoubt(v)
    BY <1>9, <2>1 DEF RevokeLost
  <2> QED BY <1>4, <2>2
<1>10. /\ ClockTicks \/ EvidenceAges \/ NoticeFails \/ Restart => slot' = slot
       /\ \A allow, limit : OpenRound(allow, limit) => slot' = slot
       /\ \A status, allow : SyncCycle(status, allow) => slot' = slot
  BY DEF ClockTicks, EvidenceAges, NoticeFails, Restart, OpenRound, SyncCycle
<1>11. /\ \A running, gate : SetTask(running, gate) => slot' = slot
       /\ \A amount : SetLimit(amount) => slot' = slot
       /\ \A v, r, used, verified : Metered(v, r, used, verified) => slot' = slot
  BY SMTT(15), ZenonT(40) DEF SetTask, SetLimit, Metered
<1>12. /\ \A k, v, r, amount : Adjust(k, v, r, amount) => slot' = slot
       /\ \A v, r, e : RetryPasses(v, r, e) => slot' = slot
  BY DEF Adjust, RetryPasses
<1>13. \A k, s, t, amount : Transfer(k, s, t, amount) => slot' = slot
  BY DEF Transfer
<1> QED BY <1>1, <1>5, <1>6, <1>7, <1>8, <1>9, <1>10, <1>11, <1>12, <1>13 DEF Next

\* A user who was sent a quota revocation in a round is not approved again in that round
\* unless the last day releases it: the lock outlives every adjustment, transfer, sample
\* and new limit between the revocation and the second check of the authorization.
THEOREM NobodyReturnsInRound == Spec => NoReturnInRound
<1>1. ASSUME QuotaInv, [Next]_vars, NEW u \in Users, slot'[u].approving, ~slot[u].approving,
             <<u, RoundOf(clock)>> \in sent
      PROVE  LastDayAllowed(RoundOf(clock), clock, FreshNow)
  <2>1. PICK n \in Rounds : n = RoundOf(clock)
    BY <1>1, QuotaParts, ClockTyped
  <2>2. ledger[u][n].locked
    BY <1>1, <2>1 DEF QuotaInv, SentIsLocked
  <2>3. AuthArm(u) => LastDayAllowed(n, clock, FreshNow)
    BY <2>1, <2>2 DEF AuthArm, MayAuthorize
  <2> QED BY <1>1, <2>1, <2>3, ApprovesOnlyArmed
<1>2. QuotaInv /\ [Next]_vars =>
        [\A u \in Users : /\ slot'[u].approving /\ ~slot[u].approving
                          /\ <<u, RoundOf(clock)>> \in sent
                          => LastDayAllowed(RoundOf(clock), clock, FreshNow)]_vars
  BY <1>1
<1>3. Spec => [][Next]_vars
  BY PTL DEF Spec
<1> QED BY <1>2, <1>3, QuotaInvariant, PTL DEF NoReturnInRound

-----------------------------------------------------------------------------
(* What a transfer does to the limits.                                     *)

\* The rows of one user in one round, the raw limit they add up to, and the limit
\* that is in force.
RowsOf(entries, u, r) == {a \in entries : a.user = u /\ a.round = r}
AmountsOf(entries) == [a \in entries |-> a.amount]
Raw(limit, entries, u, r) == limit + SumFunctionOnSet(AmountsOf(entries), RowsOf(entries, u, r))
Clamped(x) == IF x < 0 THEN 0 ELSE x

EntryRow == [key : Keys, side : {"out", "in", "adjust"}, user : Users, round : Rounds, amount : Int]

LEMMA EffectiveIsClamped ==
  ASSUME NEW u, NEW r
  PROVE  EffectiveLimit(u, r) = Clamped(Raw(task.limit, adj, u, r))
BY DEF EffectiveLimit, Clamped, Raw, AmountsOf, RowsOf

LEMMA RawTyped ==
  ASSUME NEW limit \in Nat, NEW entries, IsFiniteSet(entries), entries \subseteq EntryRow, NEW u, NEW r
  PROVE  Raw(limit, entries, u, r) \in Int
<1>1. PICK rows : rows = RowsOf(entries, u, r)
  OBVIOUS
<1>2. PICK f : f = AmountsOf(entries)
  OBVIOUS
<1>3. IsFiniteSet(rows) /\ rows \subseteq entries
  BY <1>1, FS_Subset DEF RowsOf
<1>4. \A x \in rows : f[x] \in Int
  BY <1>2, <1>3 DEF AmountsOf, EntryRow
<1>5. SumFunctionOnSet(f, rows) \in Int
  BY <1>3, <1>4, SumIsInt
<1> QED BY <1>1, <1>2, <1>5 DEF Raw

\* A row that is added moves the limit of its user in its round by its amount, and no other.
LEMMA RowMovesLimit ==
  ASSUME NEW limit \in Nat, NEW entries, NEW more, IsFiniteSet(more), more \subseteq EntryRow,
         entries \subseteq more, NEW u, NEW r, NEW e \in more,
         RowsOf(more, u, r) = RowsOf(entries, u, r) \cup {e}, e \notin entries,
         NEW amount, amount = e.amount
  PROVE  Raw(limit, more, u, r) = Raw(limit, entries, u, r) + amount
<1>1. PICK rows, after : rows = RowsOf(entries, u, r) /\ after = RowsOf(more, u, r)
  OBVIOUS
<1>2. PICK f, g : f = AmountsOf(entries) /\ g = AmountsOf(more)
  OBVIOUS
<1>3. /\ IsFiniteSet(after) /\ after \subseteq more /\ rows \subseteq entries
      /\ e \in after /\ after \ {e} = rows
  BY <1>1, FS_Subset DEF RowsOf
<1>4. \A x \in after : g[x] \in Int
  BY <1>2, <1>3 DEF AmountsOf, EntryRow
<1>5. SumFunctionOnSet(g, after) = g[e] + SumFunctionOnSet(g, after \ {e})
  BY <1>3, <1>4, SumTakesAny
<1>6. IsFiniteSet(rows) /\ \A x \in rows : f[x] = g[x] /\ f[x] \in Int
  BY <1>2, <1>3, <1>4, FS_Subset DEF AmountsOf
<1>7. SumFunctionOnSet(f, rows) = SumFunctionOnSet(g, rows)
  BY <1>6, SumsAgree
<1>8. SumFunctionOnSet(f, rows) \in Int
  BY <1>6, SumIsInt
<1>9. g[e] = amount /\ amount \in Int
  BY <1>2 DEF AmountsOf, EntryRow
<1>10. Raw(limit, more, u, r) = limit + SumFunctionOnSet(g, after)
  BY <1>1, <1>2 DEF Raw
<1>11. Raw(limit, entries, u, r) = limit + SumFunctionOnSet(f, rows)
  BY <1>1, <1>2 DEF Raw
<1>12. PICK x, y : x = SumFunctionOnSet(f, rows) /\ y = SumFunctionOnSet(g, after)
  OBVIOUS
<1>13. y = amount + x /\ x \in Int
  BY <1>3, <1>5, <1>7, <1>8, <1>9, <1>12
<1> QED BY <1>9, <1>10, <1>11, <1>12, <1>13

\* And the limit of nobody else.
LEMMA RestKeepsLimit ==
  ASSUME NEW limit \in Nat, NEW entries, NEW more, IsFiniteSet(more), more \subseteq EntryRow,
         entries \subseteq more, NEW u, NEW r, RowsOf(more, u, r) = RowsOf(entries, u, r)
  PROVE  Raw(limit, more, u, r) = Raw(limit, entries, u, r)
<1>1. PICK rows : rows = RowsOf(entries, u, r) /\ rows = RowsOf(more, u, r)
  OBVIOUS
<1>2. PICK f, g : f = AmountsOf(entries) /\ g = AmountsOf(more)
  OBVIOUS
<1>3. IsFiniteSet(rows) /\ rows \subseteq entries
  BY <1>1, FS_Subset DEF RowsOf
<1>4. \A x \in rows : f[x] = g[x]
  BY <1>2, <1>3 DEF AmountsOf
<1>5. SumFunctionOnSet(f, rows) = SumFunctionOnSet(g, rows)
  BY <1>3, <1>4, SumsAgree
<1> QED BY <1>1, <1>2, <1>5 DEF Raw

\* Two elements of a sum change, by no more than they cancel: the sum does not grow.
LEMMA SumOfExchange ==
  ASSUME NEW f, NEW g, NEW S, IsFiniteSet(S), \A x \in S : f[x] \in Int /\ g[x] \in Int,
         NEW s \in S, NEW t \in S, s # t, g[s] + g[t] <= f[s] + f[t],
         \A x \in S \ {s, t} : g[x] = f[x]
  PROVE  SumFunctionOnSet(g, S) <= SumFunctionOnSet(f, S)
<1>1. PICK R, Q : R = S \ {s} /\ Q = R \ {t}
  OBVIOUS
<1>2. IsFiniteSet(R) /\ IsFiniteSet(Q) /\ t \in R
  BY <1>1, FS_Subset
<1>3. /\ SumFunctionOnSet(f, S) = f[s] + SumFunctionOnSet(f, R)
      /\ SumFunctionOnSet(g, S) = g[s] + SumFunctionOnSet(g, R)
  BY <1>1, SumTakesAny
<1>4. /\ SumFunctionOnSet(f, R) = f[t] + SumFunctionOnSet(f, Q)
      /\ SumFunctionOnSet(g, R) = g[t] + SumFunctionOnSet(g, Q)
  BY <1>1, <1>2, SumTakesAny
<1>5. SumFunctionOnSet(f, Q) = SumFunctionOnSet(g, Q) /\ SumFunctionOnSet(f, Q) \in Int
  BY <1>1, <1>2, SumsAgree, SumIsInt
<1>6. PICK x : x = SumFunctionOnSet(f, Q)
  OBVIOUS
<1>7. /\ SumFunctionOnSet(f, S) = f[s] + (f[t] + x)
      /\ SumFunctionOnSet(g, S) = g[s] + (g[t] + x)
  BY <1>3, <1>4, <1>5, <1>6
<1>8. x \in Int /\ f[s] \in Int /\ f[t] \in Int /\ g[s] \in Int /\ g[t] \in Int
  BY <1>5, <1>6
<1> QED BY <1>7, <1>8

-----------------------------------------------------------------------------
(* Who adds rows, and how many there are.                                  *)

Adds == \/ \E k \in Keys, u \in Users, r \in Rounds, amount \in Amounts :
             Adjust(k, u, r, amount) \/ Adjust(k, u, r, -amount)
        \/ \E k \in Keys, s, t \in Users, amount \in Amounts : Transfer(k, s, t, amount)

LEMMA RunAddsNothing ==
  ASSUME Run
  PROVE  adj' = adj
<1>1. Begin \/ Select \/ Processed \/ Invited \/ NoticeSent \/ Finish => adj' = adj
  BY DEF Begin, Select, Processed, Invited, NoticeSent, Finish, money
<1>2. \A i \in DOMAIN created : ProcessLedger(i) => adj' = adj
  BY Zenon DEF ProcessLedger
<1>3. ReserveRevoke \/ ReserveRefused \/ ReserveMeets => adj' = adj
  BY DEF ReserveRevoke, ReserveRefused, ReserveMeets, money
<1>4. ArmRevoke \/ ArmWithdraws \/ RevokeConfirmed \/ SetRevokeStatus => adj' = adj
  BY DEF ArmRevoke, ArmWithdraws, RevokeConfirmed, SetRevokeStatus, money
<1>5. \A u \in Users : Invite(u) => adj' = adj
  BY Zenon DEF Invite
<1>6. /\ \A u, r, e : ClaimNotice(u, r, e) => adj' = adj
      /\ \A u, r, e : CancelNotice(u, r, e) => adj' = adj
  BY DEF ClaimNotice, CancelNotice, money
<1> QED BY <1>1, <1>2, <1>3, <1>4, <1>5, <1>6 DEF Run

LEMMA OthersAddNothing ==
  ASSUME [Next]_vars, ~Adds
  PROVE  adj' = adj
<1>1. Run \/ UNCHANGED vars => adj' = adj
  BY RunAddsNothing DEF vars, money
<1>2. ClockTicks \/ EvidenceAges \/ NoticeFails \/ Restart => adj' = adj
  BY DEF ClockTicks, EvidenceAges, NoticeFails, Restart, money
<1>3. /\ \A allow, limit : OpenRound(allow, limit) => adj' = adj
      /\ \A status, allow : SyncCycle(status, allow) => adj' = adj
  BY Zenon DEF OpenRound, SyncCycle, money
<1>4. /\ \A running, gate : SetTask(running, gate) => adj' = adj
      /\ \A amount : SetLimit(amount) => adj' = adj
  BY Zenon DEF SetTask, SetLimit, money
<1>5. \A u, r, used, verified : Metered(u, r, used, verified) => adj' = adj
  BY Zenon DEF Metered
<1>6. \A u \in Users : AuthReserve(u) \/ AuthArm(u) \/ AuthGranted(u) \/ AuthFails(u) => adj' = adj
  BY Zenon DEF AuthReserve, AuthArm, AuthGranted, AuthFails, money
<1>7. \A u \in Users : DeauthReserve(u) \/ DeauthMeets(u) \/ DeauthArm(u) \/ Settles(u) => adj' = adj
  BY Zenon DEF DeauthReserve, DeauthMeets, DeauthArm, Settles, money
<1>8. /\ \A aborts : RevokeLost(aborts) => adj' = adj
      /\ \A u, r, e : RetryPasses(u, r, e) => adj' = adj
  BY Zenon DEF RevokeLost, RetryPasses, money
<1> QED BY <1>1, <1>2, <1>3, <1>4, <1>5, <1>6, <1>7, <1>8 DEF Next, Adds

LEMMA EntriesFinite ==
  ASSUME IsFiniteSet(adj), [Next]_vars
  PROVE  IsFiniteSet(adj')
<1>1. CASE ~Adds
  BY <1>1, OthersAddNothing
<1>2. ASSUME NEW k, NEW u, NEW r, NEW amount, Adjust(k, u, r, amount) PROVE IsFiniteSet(adj')
  <2>1. PICK row : adj' = adj \cup {row}
    BY <1>2 DEF Adjust
  <2> QED BY <2>1, FS_AddElement
<1>3. ASSUME NEW k, NEW s, NEW t, NEW amount, Transfer(k, s, t, amount) PROVE IsFiniteSet(adj')
  <2>1. PICK out, in : adj' = adj \cup {out, in}
    BY <1>3 DEF Transfer, Entries
  <2>2. IsFiniteSet(adj \cup {out}) /\ adj' = (adj \cup {out}) \cup {in}
    BY <2>1, FS_AddElement
  <2> QED BY <2>2, FS_AddElement
<1> QED BY <1>1, <1>2, <1>3 DEF Adds

-----------------------------------------------------------------------------
(* A transfer and the limits of its round.                                 *)

\* The limits of s and of t after a transfer of amount: what s can spare is more than
\* the clamp of a negative limit takes, and t gains no more than the amount.
LEMMA TransferMovesLimits ==
  ASSUME QuotaInv, IsFiniteSet(adj), NEW k \in Keys, NEW s \in Users, NEW t \in Users,
         NEW amount \in Amounts, Transfer(k, s, t, amount), NEW r, r = RoundOf(clock), NEW u \in Users
  PROVE  /\ u = s => Raw(task'.limit, adj', u, r) = Raw(task.limit, adj, u, r) - amount
         /\ u = t => Raw(task'.limit, adj', u, r) = Raw(task.limit, adj, u, r) + amount
         /\ u \notin {s, t} => Raw(task'.limit, adj', u, r) = Raw(task.limit, adj, u, r)
         /\ Raw(task.limit, adj, u, r) \in Int
<1>1. PICK limit : limit = task.limit
  OBVIOUS
<1>2. limit \in Nat /\ task'.limit = limit
  BY <1>1, QuotaParts, MoneyAssumption DEF ClockType, Transfer
<1>3. PICK entries, more : entries = adj /\ more = adj'
  OBVIOUS
<1>4. PICK out : out = [key |-> k, side |-> "out", user |-> s, round |-> r, amount |-> -amount]
  OBVIOUS
<1>5. PICK in : in = [key |-> k, side |-> "in", user |-> t, round |-> r, amount |-> amount]
  OBVIOUS
<1>6. more = entries \cup {out, in} /\ s # t /\ \A a \in entries : a.key # k
  BY <1>3, <1>4, <1>5 DEF Transfer, Entries, KeyIsNew
<1>7. out \notin entries /\ in \notin entries
  BY <1>4, <1>5, <1>6
<1>8. /\ out.user = s /\ out.round = r /\ out.amount = -amount
      /\ in.user = t /\ in.round = r /\ in.amount = amount
  BY <1>4, <1>5
<1>9. amount \in Nat /\ -amount \in Int /\ amount \in Int
  BY MoneyAssumption
<1>10. r \in Rounds
  BY QuotaParts, ClockTyped
<1>11. entries \subseteq EntryRow /\ IsFiniteSet(entries)
  BY <1>3, QuotaParts DEF BookType, EntryRow
<1>12. more \subseteq EntryRow
  <2>1. out \in EntryRow /\ in \in EntryRow
    BY <1>4, <1>5, <1>9, <1>10 DEF EntryRow
  <2> QED BY <1>6, <1>11, <2>1
<1>13. IsFiniteSet(more)
  <2>1. IsFiniteSet(entries \cup {out}) /\ more = (entries \cup {out}) \cup {in}
    BY <1>6, <1>11, FS_AddElement
  <2> QED BY <2>1, FS_AddElement
<1>14. entries \subseteq more /\ out \in more /\ in \in more
  BY <1>6
<1>15. Raw(limit, entries, u, r) \in Int
  BY <1>2, <1>11, RawTyped
<1>16. CASE u = s
  <2>1. RowsOf(more, u, r) = RowsOf(entries, u, r) \cup {out}
    BY <1>6, <1>8, <1>16 DEF RowsOf
  <2>2. Raw(limit, more, u, r) = Raw(limit, entries, u, r) + (-amount)
    BY <1>2, <1>7, <1>8, <1>12, <1>13, <1>14, <2>1, RowMovesLimit
  <2>3. Raw(limit, more, u, r) = Raw(limit, entries, u, r) - amount
    BY <1>8, <1>9, <1>15, <2>2
  <2> QED BY <1>1, <1>2, <1>3, <1>6, <1>15, <1>16, <2>3
<1>17. CASE u = t
  <2>1. RowsOf(more, u, r) = RowsOf(entries, u, r) \cup {in}
    BY <1>6, <1>8, <1>17 DEF RowsOf
  <2>2. Raw(limit, more, u, r) = Raw(limit, entries, u, r) + amount
    BY <1>2, <1>7, <1>8, <1>12, <1>13, <1>14, <2>1, RowMovesLimit
  <2> QED BY <1>1, <1>2, <1>3, <1>6, <1>8, <1>15, <1>17, <2>2
<1>18. CASE u \notin {s, t}
  <2>1. RowsOf(more, u, r) = RowsOf(entries, u, r)
    BY <1>6, <1>8, <1>18 DEF RowsOf
  <2>2. Raw(limit, more, u, r) = Raw(limit, entries, u, r)
    BY <1>2, <1>6, <1>12, <1>13, <2>1, RestKeepsLimit
  <2> QED BY <1>1, <1>2, <1>3, <1>15, <1>18, <2>2
<1> QED BY <1>16, <1>17, <1>18

\* The sender keeps what was used: the sender's limit is not clamped before or after.
LEMMA SenderCanSpare ==
  ASSUME QuotaInv, IsFiniteSet(adj), NEW k \in Keys, NEW s \in Users, NEW t \in Users,
         NEW amount \in Amounts, Transfer(k, s, t, amount), NEW r, r = RoundOf(clock),
         NEW raw \in Int, raw = Raw(task.limit, adj, s, r)
  PROVE  /\ amount \in Nat /\ amount > 0 /\ raw >= amount
         /\ ledger[s][r].used # None => ledger[s][r].used \in Nat /\ ledger[s][r].used <= raw - amount
<1>1. amount \in Nat /\ amount > 0
  BY MoneyAssumption
<1>2. PICK limit : limit = EffectiveLimit(s, r)
  OBVIOUS
<1>3. limit = Clamped(raw)
  BY <1>2, EffectiveIsClamped
<1>4. PICK used : used = IF ledger[s][r].used = None THEN 0 ELSE ledger[s][r].used
  OBVIOUS
<1>5. r \in Rounds
  BY QuotaParts, ClockTyped
<1>6. ledger[s][r].used \in Nat \cup {None} /\ used \in Nat
  <2>1. ledger[s][r].used \in 0 .. MaxUse \cup {None}
    BY <1>5, QuotaParts, LedgerTyped
  <2>2. 0 .. MaxUse \subseteq Nat
    BY BoundAssumption
  <2> QED BY <1>4, <2>1, <2>2
<1>7. amount <= IF used > limit THEN 0 ELSE limit - used
  BY <1>2, <1>4 DEF Transfer, Spare
<1>8. limit = raw /\ raw >= amount + used
  BY <1>1, <1>3, <1>6, <1>7 DEF Clamped
<1> QED BY <1>1, <1>4, <1>6, <1>8

LEMMA TransferIsSound ==
  ASSUME QuotaInv, IsFiniteSet(adj), NEW k \in Keys, NEW s \in Users, NEW t \in Users,
         NEW amount \in Amounts, Transfer(k, s, t, amount)
  PROVE  /\ LimitSum' <= LimitSum
         /\ \A u \in Users : LET used == ledger[u][RoundOf(clock)].used IN
              used # None /\ used <= EffectiveLimit(u, RoundOf(clock))
                => used <= EffectiveLimit(u, RoundOf(clock))'
<1>1. PICK r : r = RoundOf(clock)
  OBVIOUS
<1>2. RoundOf(clock') = r /\ s # t
  BY <1>1 DEF Transfer
<1>3. PICK before : before = [u \in Users |-> Raw(task.limit, adj, u, r)]
  OBVIOUS
<1>4. PICK after : after = [u \in Users |-> Raw(task'.limit, adj', u, r)]
  OBVIOUS
<1>5. \A u \in Users :
        /\ u = s => after[u] = before[u] - amount
        /\ u = t => after[u] = before[u] + amount
        /\ u \notin {s, t} => after[u] = before[u]
        /\ before[u] \in Int
  BY <1>1, <1>3, <1>4, TransferMovesLimits
<1>6. /\ amount \in Nat /\ amount > 0 /\ before[s] >= amount
      /\ ledger[s][r].used # None =>
           ledger[s][r].used \in Nat /\ ledger[s][r].used <= before[s] - amount
  BY <1>1, <1>3, <1>5, SenderCanSpare
<1>7. \A u \in Users : after[u] \in Int
  BY <1>5, <1>6
<1>8. \A u \in Users : /\ EffectiveLimit(u, RoundOf(clock)) = Clamped(before[u])
                       /\ EffectiveLimit(u, RoundOf(clock))' = Clamped(after[u])
  <2>1. \A u \in Users : EffectiveLimit(u, r) = Clamped(before[u])
    BY <1>3, EffectiveIsClamped
  <2>2. \A u \in Users : EffectiveLimit(u, RoundOf(clock))' = Clamped(Raw(task'.limit, adj', u, RoundOf(clock')))
    BY DEF EffectiveLimit, Clamped, Raw, AmountsOf, RowsOf
  <2> QED BY <1>1, <1>2, <1>4, <2>1, <2>2
<1>9. LimitSum' <= LimitSum
  <2>1. PICK f : f = [u \in Users |-> EffectiveLimit(u, RoundOf(clock))]
    OBVIOUS
  <2>2. PICK g : g = [u \in Users |-> EffectiveLimit(u, RoundOf(clock))]'
    OBVIOUS
  <2>3. \A u \in Users : f[u] = Clamped(before[u]) /\ g[u] = Clamped(after[u])
    BY <1>8, <2>1, <2>2
  <2>4. \A u \in Users : f[u] \in Int /\ g[u] \in Int
    BY <1>5, <1>7, <2>3 DEF Clamped
  <2>5. g[s] + g[t] <= f[s] + f[t]
    <3>1. PICK x, y : x = before[s] /\ y = before[t]
      OBVIOUS
    <3>2. x \in Int /\ y \in Int /\ after[s] = x - amount /\ after[t] = y + amount /\ x >= amount
      BY <1>2, <1>5, <1>6, <3>1
    <3>3. f[s] = x /\ g[s] = x - amount
      BY <1>6, <2>3, <3>1, <3>2 DEF Clamped
    <3>4. f[t] = Clamped(y) /\ g[t] = Clamped(y + amount)
      BY <2>3, <3>1, <3>2
    <3>5. Clamped(y + amount) <= Clamped(y) + amount
      BY <1>6, <3>2 DEF Clamped
    <3>6. f[t] \in Int /\ g[t] \in Int
      BY <2>4
    <3> QED BY <1>6, <3>2, <3>3, <3>4, <3>5, <3>6
  <2>6. \A u \in Users \ {s, t} : g[u] = f[u]
    BY <1>5, <2>3
  <2>7. SumFunctionOnSet(g, Users) <= SumFunctionOnSet(f, Users)
    BY <1>2, <2>4, <2>5, <2>6, UsersAssumption, SumOfExchange
  <2> QED BY <2>1, <2>2, <2>7 DEF LimitSum
<1>10. ASSUME NEW u \in Users, NEW used, used = ledger[u][r].used, used # None, used <= Clamped(before[u])
       PROVE  used <= Clamped(after[u])
  <2>1. r \in Rounds
    BY <1>1, QuotaParts, ClockTyped
  <2>2. used \in Nat
    <3>1. used \in 0 .. MaxUse \cup {None}
      BY <1>10, <2>1, QuotaParts, LedgerTyped
    <3> QED BY <1>10, <3>1, BoundAssumption
  <2>3. CASE u = s
    <3>1. after[u] = before[u] - amount /\ used <= before[u] - amount
      BY <1>5, <1>6, <1>10, <2>3
    <3> QED BY <1>5, <1>6, <2>2, <3>1 DEF Clamped
  <2>4. CASE u # s
    <3>1. after[u] \in Int /\ before[u] \in Int /\ after[u] >= before[u]
      BY <1>5, <1>6, <1>7, <2>4
    <3> QED BY <1>10, <2>2, <3>1 DEF Clamped
  <2> QED BY <2>3, <2>4
<1> QED BY <1>1, <1>8, <1>9, <1>10

EntriesAreFinite == IsFiniteSet(adj)

\* A transfer creates no money and puts nobody who was within the limit above it, for
\* any number of users and rows, although the limits are clamped at zero, adjustments may
\* have made them negative, and the sender's use and limit change until it is made.
THEOREM TransfersKeepLimits == Spec => TransfersAreSound
<1>1. ASSUME QuotaInv, IsFiniteSet(adj), [Next]_vars, NEW a \in adj' \ adj, a.side # "adjust"
      PROVE  \E k \in Keys, s, t \in Users, amount \in Amounts : Transfer(k, s, t, amount)
  <2>1. Adds
    BY <1>1, OthersAddNothing
  <2>2. \A k, u, r, amount : Adjust(k, u, r, amount) => a.side = "adjust"
    BY <1>1 DEF Adjust
  <2> QED BY <1>1, <2>1, <2>2 DEF Adds
<1>2. QuotaInv /\ EntriesAreFinite /\ [Next]_vars =>
        [(\E a \in adj' \ adj : a.side # "adjust") =>
           /\ LimitSum' <= LimitSum
           /\ \A u \in Users : LET used == ledger[u][RoundOf(clock)].used IN
                used # None /\ used <= EffectiveLimit(u, RoundOf(clock))
                  => used <= EffectiveLimit(u, RoundOf(clock))']_vars
  BY <1>1, TransferIsSound DEF EntriesAreFinite
<1>3. Init => EntriesAreFinite
  BY FS_EmptySet DEF Init, EntriesAreFinite
<1>4. EntriesAreFinite /\ [Next]_vars => EntriesAreFinite'
  BY EntriesFinite DEF EntriesAreFinite
<1>5. Spec => [][Next]_vars /\ []EntriesAreFinite
  BY <1>3, <1>4, PTL DEF Spec
<1> QED BY <1>2, <1>5, QuotaInvariant, PTL DEF TransfersAreSound

=============================================================================
