------------------------------ MODULE Onboarding ------------------------------
(***************************************************************************)
(* A person joins approved chats: restricted at once, asked to verify and  *)
(* to bind an e-mail before a deadline, released when bound, else removed. *)
(*                                                                         *)
(* The row of a membership is changed by commands and updates in one       *)
(* transaction each.  Requests to Telegram are made between transactions,  *)
(* by the background worker and by the handlers of updates (the runners);  *)
(* a claim and its lease stand in the row meanwhile.  An answer may be     *)
(* lost, its request landing later or never; the process may restart.      *)
(*                                                                         *)
(* Times of the row are kept as far as they are compared with the clock: a *)
(* deadline or a retry time is absent, in the future or reached.  Failure  *)
(* alerts, titles and the wording of messages are left out.                *)
(***************************************************************************)
EXTENDS Naturals, Sequences, SequencesExt, FiniteSets

CONSTANTS
  Chats,         \* approved chats of the person
  Worker,        \* the background worker
  Handlers,      \* handlers of updates that run at the same time
  None,          \* SQL NULL
  SlowCalls,     \* whether a request may outlive the lease of its claim
  InOrder,       \* whether updates are handled in the order they were sent
  MaxJoins,      \* bound: times the person joins a chat
  MaxTokens,     \* bound: links issued for a chat
  MaxChanges,    \* bound: times the person is bound or unbound
  MaxFaults      \* bound: lost answers, refused requests, restarts

Runners == {Worker} \cup Handlers

ASSUME RunnersAssumption == Worker \notin Handlers /\ None \notin Runners /\ None \notin Nat
ASSUME SwitchAssumption == SlowCalls \in BOOLEAN /\ InOrder \in BOOLEAN
ASSUME BoundAssumption == {MaxJoins, MaxTokens, MaxChanges, MaxFaults} \subseteq Nat

VARIABLES
  row,      \* GroupMembership rows
  bound,    \* is the person bound and active (User row)
  tokens,   \* links issued per chat so far
  links,    \* links that reached the chat
  member,   \* Telegram: is the person in the chat, and restricted there
  updates,  \* Telegram: updates not handled yet
  late,     \* requests whose answer was lost and that may still land
  runner,   \* where each runner stands
  joins, changes, faults,
  boundIn   \* history: generations during which the person was bound

telegram == <<member, updates, late>>
bounds == <<joins, changes, faults>>
vars == <<row, bound, tokens, links, telegram, runner, bounds, boundIn>>

-----------------------------------------------------------------------------

Waiting == {"RESTRICT_PENDING", "MUTED", "UNMUTE_PENDING", "REMOVE_PENDING"}
Gone == {"LEFT", "REMOVED"}
Actions == {"RESTRICT", "VERIFICATION_NOTIFICATION", "UNMUTE", "REMOVE"}
Tokens == 1 .. MaxTokens
Generations == 0 .. MaxJoins

Row == [state : Waiting \cup Gone \cup {"NONE", "ACTIVE", "EXEMPT"}, generation : Generations,
        deadline : {"none", "running", "reached"}, action : Actions \cup {None},
        attempt : Runners \cup {None}, retry : {"none", "running", "reached"},
        token : Tokens \cup {None}, verified : BOOLEAN, unmuted : BOOLEAN]
NoRow == [state |-> "NONE", generation |-> 0, deadline |-> "none", action |-> None,
          attempt |-> None, retry |-> "none", token |-> None, verified |-> FALSE,
          unmuted |-> FALSE]

\* "again" tells a retried notification from a first one; "token" is its link.
RunnerState == [chat : Chats \cup {None}, generation : Generations, kind : Actions \cup {None},
                again : BOOLEAN, token : Tokens \cup {None},
                step : {"idle", "claim", "call", "done", "failed", "absent"}]
Idle == [chat |-> None, generation |-> 0, kind |-> None, again |-> FALSE, token |-> None,
         step |-> "idle"]

TypeOK ==
  /\ row \in [Chats -> Row]
  /\ bound \in BOOLEAN
  /\ tokens \in [Chats -> 0 .. MaxTokens]
  /\ links \in [Chats -> SUBSET Tokens]
  /\ member \in [Chats -> [present : BOOLEAN, muted : BOOLEAN]]
  /\ updates \in [Chats -> Seq({"join", "joinAdmin", "left"})]
  /\ late \subseteq Chats \X (Actions \ {"VERIFICATION_NOTIFICATION"})
  /\ runner \in [Runners -> RunnerState]
  /\ boundIn \in [Chats -> SUBSET Generations]
  /\ joins \in 0 .. MaxJoins /\ changes \in 0 .. MaxChanges /\ faults \in 0 .. MaxFaults

Init ==
  /\ row = [c \in Chats |-> NoRow]
  /\ bound \in BOOLEAN
  /\ tokens = [c \in Chats |-> 0]
  /\ links = [c \in Chats |-> {}]
  /\ member = [c \in Chats |-> [present |-> FALSE, muted |-> FALSE]]
  /\ updates = [c \in Chats |-> <<>>]
  /\ late = {}
  /\ runner = [r \in Runners |-> Idle]
  /\ boundIn = [c \in Chats |-> {}]
  /\ joins = 0 /\ changes = 0 /\ faults = 0

Fault == faults < MaxFaults /\ faults' = faults + 1 /\ UNCHANGED <<joins, changes>>

\* A row becomes r; the generation it is in counts as bound if the person is.
Store(c, r) ==
  /\ row' = [row EXCEPT ![c] = r]
  /\ boundIn' = IF bound THEN [boundIn EXCEPT ![c] = @ \cup {r.generation}] ELSE boundIn

-----------------------------------------------------------------------------
(* The person and Telegram. *)

Joins(c, admin) ==
  /\ ~member[c].present /\ joins < MaxJoins
  /\ joins' = joins + 1
  /\ member' = [member EXCEPT ![c].present = TRUE]
  /\ updates' = [updates EXCEPT ![c] = Append(@, IF admin THEN "joinAdmin" ELSE "join")]
  /\ UNCHANGED <<row, bound, tokens, links, late, runner, changes, faults, boundIn>>

\* A restriction outlasts the membership: Telegram reports such a person as
\* restricted and not a member.
Leaves(c) ==
  /\ member[c].present
  /\ member' = [member EXCEPT ![c].present = FALSE]
  /\ updates' = [updates EXCEPT ![c] = Append(@, "left")]
  /\ UNCHANGED <<row, bound, tokens, links, late, runner, bounds, boundIn>>

\* What a request does when it lands.
Lands(c, kind) ==
  CASE kind = "RESTRICT" ->
         /\ member' = [member EXCEPT ![c].muted = @ \/ member[c].present]
         /\ UNCHANGED updates
    [] kind = "UNMUTE" ->
         /\ member' = [member EXCEPT ![c].muted = @ /\ ~member[c].present]
         /\ UNCHANGED updates
    [] kind = "REMOVE" ->
         /\ member' = [member EXCEPT ![c] = [present |-> FALSE, muted |-> FALSE]]
         /\ updates' = IF member[c].present THEN [updates EXCEPT ![c] = Append(@, "left")]
                       ELSE updates
    [] OTHER -> UNCHANGED <<member, updates>>

LateLands(c, kind) ==
  /\ <<c, kind>> \in late
  /\ late' = late \ {<<c, kind>>}
  /\ Lands(c, kind) \/ UNCHANGED <<member, updates>>
  /\ UNCHANGED <<row, bound, tokens, links, runner, bounds, boundIn>>

\* /bind, and /unbind or a ban.
Binds ==
  /\ changes < MaxChanges
  /\ changes' = changes + 1
  /\ bound' = ~bound
  /\ boundIn' = IF bound THEN boundIn
                ELSE [c \in Chats |-> boundIn[c] \cup {row[c].generation}]
  /\ UNCHANGED <<row, tokens, links, telegram, runner, joins, faults>>

DeadlinePasses(c) ==
  /\ row[c].deadline = "running"
  /\ row' = [row EXCEPT ![c].deadline = "reached"]
  /\ UNCHANGED <<bound, tokens, links, telegram, runner, bounds, boundIn>>

InFlight(c) ==
  \/ \E r \in Runners : runner[r].chat = c /\ runner[r].step = "call"
  \/ \E k \in Actions : <<c, k>> \in late

\* A lease or the delay of a retry is over.
RetryPasses(c) ==
  /\ row[c].retry = "running"
  /\ SlowCalls \/ ~InFlight(c)
  /\ row' = [row EXCEPT ![c].retry = "reached"]
  /\ UNCHANGED <<bound, tokens, links, telegram, runner, bounds, boundIn>>

-----------------------------------------------------------------------------
(* Changes of a row that several transactions share. *)

Cleared(r) == [r EXCEPT !.action = None, !.attempt = None, !.retry = "none"]

\* Mutant: the lease of a restriction in flight is dropped with the rest of the attempt.
Queued_DropsLease(r) ==
  IF r.state \in {"RESTRICT_PENDING", "MUTED"}
  THEN [Cleared(r) EXCEPT !.state = "UNMUTE_PENDING", !.token = None, !.verified = FALSE]
  ELSE r

\* _queue_unmute_locked: a member who is bound is to be released.  The lease of a
\* restriction in flight is kept, so that the release waits for it.
Queued(r) ==
  IF r.state \in {"RESTRICT_PENDING", "MUTED"}
  THEN [Cleared(r) EXCEPT
          !.state = "UNMUTE_PENDING", !.token = None, !.verified = FALSE,
          !.retry = IF r.state = "RESTRICT_PENDING" /\ r.action = "RESTRICT" /\ r.attempt # None
                    THEN r.retry ELSE "none"]
  ELSE r

\* begin_join: a new attempt of a person who was away; anything else is repeated news.
Joined(r, admin) ==
  IF r.state \notin Gone \cup {"NONE"} THEN r
  ELSE [NoRow EXCEPT
          !.generation = r.generation + 1,
          !.state = IF admin THEN "EXEMPT" ELSE IF bound THEN "ACTIVE" ELSE "RESTRICT_PENDING",
          !.deadline = IF admin \/ bound THEN "none" ELSE "running"]

\* Mutant: leaving counts as an attempt of its own.
Left_Counts(r) ==
  IF r.state \in Gone THEN r
  ELSE [NoRow EXCEPT !.state = "LEFT", !.generation = r.generation + 1]

Left(r) ==
  IF r.state \in Gone THEN r
  ELSE [NoRow EXCEPT !.state = "LEFT", !.generation = r.generation]

-----------------------------------------------------------------------------
(* What a runner does with a row it has read. *)

\* _notify: a member whose link is out, and known to be, is not asked again.
NotifyDue(r) ==
  IF r.action # None \/ r.token = None THEN {"VERIFICATION_NOTIFICATION"} ELSE {}

\* _process: what is to be done for a row as it was read, if anything.
Due(r) ==
  IF r.deadline = "reached" /\ r.state # "UNMUTE_PENDING" THEN {"REMOVE"}
  ELSE CASE r.state = "RESTRICT_PENDING" -> {"RESTRICT"}
         [] r.state = "UNMUTE_PENDING" -> {"UNMUTE"}
         [] r.state = "REMOVE_PENDING" -> {"REMOVE"}
         [] r.state = "MUTED" /\ ~r.verified -> NotifyDue(r)
         [] OTHER -> {}

\* scan_candidates: the rows the worker looks at.
Candidate(r) ==
  /\ r.state \in Waiting
  /\ \/ r.deadline = "reached"
     \/ r.retry = "reached"
     \/ r.retry = "none" /\ (r.action # None \/ r.state # "MUTED")
     \/ r.state = "MUTED" /\ r.action = None /\ ~r.verified /\ r.token = None

\* p goes for one of the kinds of action, with the row as it was read, or rests.
Started(p, c, r, kinds) ==
  IF r.state \in Waiting /\ kinds # {}
  THEN [runner EXCEPT ![p] = [Idle EXCEPT !.chat = c, !.generation = r.generation,
                                          !.kind = CHOOSE k \in kinds : TRUE,
                                          !.again = (r.action = "VERIFICATION_NOTIFICATION"),
                                          !.step = "claim"]]
  ELSE [runner EXCEPT ![p] = Idle]

Scan(c) ==
  /\ runner[Worker] = Idle
  /\ Candidate(row[c]) /\ Due(row[c]) # {}
  /\ runner' = Started(Worker, c, row[c], Due(row[c]))
  /\ UNCHANGED <<row, bound, tokens, links, telegram, bounds, boundIn>>

\* queue_unmute_for_user: after /bind, after a link was used, and at the start of
\* each pass of the worker.
queue_unmute_for_user ==
  /\ bound
  /\ row' = [c \in Chats |-> Queued(row[c])]
  /\ row' # row
  /\ UNCHANGED <<bound, tokens, links, telegram, runner, bounds, boundIn>>

\* Updates are handled by whoever is free; handlers run at the same time.
Take(c, kind) ==
  \E i \in 1 .. Len(updates[c]) :
    /\ InOrder => i = 1
    /\ updates[c][i] = kind
    /\ updates' = [updates EXCEPT ![c] = RemoveAt(@, i)]

handle_join(p, c, admin) ==
  /\ runner[p] = Idle
  /\ Take(c, IF admin THEN "joinAdmin" ELSE "join")
  /\ Store(c, Joined(row[c], admin))
  /\ runner' = Started(p, c, row'[c], Due(row'[c]))
  /\ UNCHANGED <<bound, tokens, links, member, late, bounds>>

\* The row is read first and marked afterwards.
handle_left(p, c) ==
  /\ runner[p] = Idle
  /\ Take(c, "left")
  /\ runner' = IF row[c].state = "NONE" THEN runner
               ELSE [runner EXCEPT ![p] = [Idle EXCEPT !.chat = c, !.step = "absent",
                                                       !.generation = row[c].generation]]
  /\ UNCHANGED <<row, bound, tokens, links, member, late, bounds, boundIn>>

\* /start with a link.
verify_token(c, t) ==
  /\ t \in links[c]
  /\ row[c].state = "MUTED" /\ row[c].deadline = "running" /\ row[c].token = t
  /\ row' = [row EXCEPT ![c] =
               LET r == IF row[c].action = "VERIFICATION_NOTIFICATION"
                        THEN [row[c] EXCEPT !.action = None, !.retry = "none"] ELSE row[c]
               IN [r EXCEPT !.token = None, !.verified = TRUE]]
  /\ UNCHANGED <<bound, tokens, links, telegram, runner, bounds, boundIn>>

-----------------------------------------------------------------------------
(* Claims. *)

Claiming(p, kind) == runner[p].step = "claim" /\ runner[p].kind = kind
RowOf(p) == row[runner[p].chat]
Current(p) == RowOf(p).generation = runner[p].generation
RetryReached(r) == r.retry # "running"

Claimed(r, p, kind) == [r EXCEPT !.action = kind, !.attempt = p, !.retry = "running"]

Calls(p) == runner' = [runner EXCEPT ![p].step = "call"]
Rests(p) == runner' = [runner EXCEPT ![p] = Idle]
\* The claim is refused, which may still have stored r.
Refused(p, r) == Store(runner[p].chat, r) /\ Rests(p)

claim_restriction(p) ==
  LET r == RowOf(p)
      free == \/ r.action = None /\ r.attempt = None
              \/ r.action = "RESTRICT" /\ RetryReached(r)
  IN /\ Claiming(p, "RESTRICT")
     /\ IF ~Current(p) \/ r.state # "RESTRICT_PENDING" THEN Refused(p, r)
        ELSE IF bound THEN Refused(p, Queued(r))
        ELSE IF free THEN Store(runner[p].chat, Claimed(r, p, "RESTRICT")) /\ Calls(p)
        ELSE Refused(p, r)
     /\ UNCHANGED <<bound, tokens, links, telegram, bounds>>

\* Mutant: the release is claimed although the time of the row has not come.
claim_unmute_Early(p) ==
  LET r == IF RowOf(p).state \in {"RESTRICT_PENDING", "MUTED"} THEN Queued(RowOf(p)) ELSE RowOf(p)
  IN /\ Claiming(p, "UNMUTE")
     /\ IF Current(p) /\ bound /\ r.state = "UNMUTE_PENDING"
        THEN Store(runner[p].chat, Claimed(r, p, "UNMUTE")) /\ Calls(p)
        ELSE Refused(p, RowOf(p))
     /\ UNCHANGED <<bound, tokens, links, telegram, bounds>>

\* Mutant: a claim is never taken over, not even when its lease is over.
claim_unmute_Once(p) ==
  LET r == IF RowOf(p).state \in {"RESTRICT_PENDING", "MUTED"} THEN Queued(RowOf(p)) ELSE RowOf(p)
  IN /\ Claiming(p, "UNMUTE")
     /\ IF /\ Current(p) /\ bound /\ r.state = "UNMUTE_PENDING"
           /\ RetryReached(r) /\ r.attempt = None
        THEN Store(runner[p].chat, Claimed(r, p, "UNMUTE")) /\ Calls(p)
        ELSE Refused(p, RowOf(p))
     /\ UNCHANGED <<bound, tokens, links, telegram, bounds>>

claim_unmute(p) ==
  LET r == IF RowOf(p).state \in {"RESTRICT_PENDING", "MUTED"} THEN Queued(RowOf(p)) ELSE RowOf(p)
      free == RetryReached(r) /\ (r.action = "UNMUTE" \/ (r.action = None /\ r.attempt = None))
  IN /\ Claiming(p, "UNMUTE")
     /\ IF ~Current(p) \/ ~bound THEN Refused(p, RowOf(p))
        ELSE IF r.state = "UNMUTE_PENDING" /\ free
        THEN Store(runner[p].chat, Claimed(r, p, "UNMUTE")) /\ Calls(p)
        ELSE Refused(p, r)
     /\ UNCHANGED <<bound, tokens, links, telegram, bounds>>

\* Mutant: a removal that failed or was interrupted is not claimed again.
claim_removal_Once(p) ==
  /\ Claiming(p, "REMOVE")
  /\ IF /\ Current(p) /\ RowOf(p).deadline = "reached" /\ ~bound
        /\ RowOf(p).state \in {"RESTRICT_PENDING", "MUTED"} /\ RetryReached(RowOf(p))
     THEN /\ Store(runner[p].chat, [Claimed(RowOf(p), p, "REMOVE") EXCEPT
                                      !.state = "REMOVE_PENDING", !.token = None,
                                      !.verified = FALSE])
          /\ Calls(p)
     ELSE Refused(p, RowOf(p))
  /\ UNCHANGED <<bound, tokens, links, telegram, bounds>>

\* An overdue member is removed unless bound by now.  What is in flight is waited for,
\* the delay of something that failed is not.
claim_removal(p) ==
  LET r == RowOf(p)
      free == \/ r.action = None /\ r.attempt = None /\ RetryReached(r)
              \/ r.action = "REMOVE" /\ RetryReached(r)
              \/ r.action = "RESTRICT" /\ (r.attempt # None => RetryReached(r))
              \/ r.action = "VERIFICATION_NOTIFICATION" /\ (r.token # None => RetryReached(r))
  IN /\ Claiming(p, "REMOVE")
     /\ IF \/ ~Current(p) \/ r.deadline # "reached"
           \/ r.state \notin {"RESTRICT_PENDING", "MUTED", "REMOVE_PENDING"}
        THEN Refused(p, r)
        ELSE IF bound THEN Refused(p, Queued(r))
        ELSE IF free
        THEN /\ Store(runner[p].chat, [Claimed(r, p, "REMOVE") EXCEPT
                                         !.state = "REMOVE_PENDING", !.token = None,
                                         !.verified = FALSE])
             /\ Calls(p)
        ELSE Refused(p, r)
     /\ UNCHANGED <<bound, tokens, links, telegram, bounds>>

\* issue_verification_token and retry_verification_token.  Their instant is the start of
\* the pass, at which the deadline had not been reached: _process would remove.
issue_verification_token(p) ==
  LET r == RowOf(p)
      c == runner[p].chat
      free == IF runner[p].again
              THEN r.action = "VERIFICATION_NOTIFICATION" /\ r.retry = "reached"
              ELSE r.action = None /\ r.token = None
  IN /\ Claiming(p, "VERIFICATION_NOTIFICATION")
     /\ IF /\ Current(p) /\ r.state = "MUTED" /\ free
           /\ r.attempt = None /\ tokens[c] < MaxTokens
        THEN LET t == tokens[c] + 1
             IN /\ tokens' = [tokens EXCEPT ![c] = t]
                /\ Store(c, [r EXCEPT !.action = "VERIFICATION_NOTIFICATION", !.retry = "running",
                                      !.token = t, !.verified = FALSE])
                /\ runner' = [runner EXCEPT ![p].step = "call", ![p].token = t]
        ELSE Refused(p, r) /\ UNCHANGED tokens
     /\ UNCHANGED <<bound, links, telegram, bounds>>

-----------------------------------------------------------------------------
(* Requests to Telegram and their answers. *)

Calling(p) == runner[p].step = "call"

\* The request lands and is answered; of a person who is away it may be refused.
Answered(p) ==
  LET c == runner[p].chat
      kind == runner[p].kind
  IN /\ Calling(p)
     /\ Lands(c, kind)
     /\ links' = IF kind = "VERIFICATION_NOTIFICATION"
                 THEN [links EXCEPT ![c] = @ \cup {runner[p].token}] ELSE links
     /\ runner' = [runner EXCEPT ![p].step =
                     IF kind \in {"RESTRICT", "UNMUTE"} /\ ~member[c].present THEN "absent"
                     ELSE "done"]
     /\ UNCHANGED <<row, bound, tokens, late, bounds, boundIn>>

\* The request is refused, or it lands and its answer is lost; it lands after the
\* client has given up only if requests may be slow.
Unanswered(p) ==
  LET c == runner[p].chat
      kind == runner[p].kind
      notifies == kind = "VERIFICATION_NOTIFICATION"
  IN /\ Calling(p)
     /\ \/ Lands(c, kind) /\ UNCHANGED late
        \/ UNCHANGED <<member, updates, late>>
        \/ SlowCalls /\ ~notifies /\ late' = late \cup {<<c, kind>>}
           /\ UNCHANGED <<member, updates>>
     /\ links' \in {links, [links EXCEPT ![c] = IF notifies THEN @ \cup {runner[p].token} ELSE @]}
     /\ runner' = [runner EXCEPT ![p].step = "failed"]
     /\ Fault
     /\ UNCHANGED <<row, bound, tokens, boundIn>>

Restart ==
  /\ runner' = [p \in Runners |-> Idle]
  /\ late' = late \cup {<<runner[p].chat, runner[p].kind>> :
                          p \in {q \in Runners : Calling(q)
                                   /\ runner[q].kind # "VERIFICATION_NOTIFICATION"}}
  /\ Fault
  /\ UNCHANGED <<row, bound, tokens, links, member, updates, boundIn>>

-----------------------------------------------------------------------------
(* Results. *)

Settling(p, step, kind) == runner[p].step = step /\ runner[p].kind = kind

\* The claim of p is still the one in the row.
Holds(p, state) ==
  /\ Current(p) /\ RowOf(p).state = state
  /\ RowOf(p).action = runner[p].kind /\ RowOf(p).attempt = p

\* Mutant: the attempt is not compared, and the state of the row is not looked at.
confirm_unmute_Unfenced(p) ==
  /\ Settling(p, "done", "UNMUTE")
  /\ Refused(p, [Cleared(RowOf(p)) EXCEPT !.state = "ACTIVE", !.deadline = "none",
                   !.token = None, !.verified = FALSE, !.unmuted = TRUE])
  /\ UNCHANGED <<bound, tokens, links, telegram, bounds>>

confirm_restriction(p) ==
  LET r == RowOf(p)
  IN /\ Settling(p, "done", "RESTRICT")
     /\ IF Holds(p, "RESTRICT_PENDING")
        THEN IF bound
             THEN Store(runner[p].chat, [Queued(r) EXCEPT !.retry = "none"]) /\ Rests(p)
             ELSE LET muted == [Cleared(r) EXCEPT !.state = "MUTED"]
                  IN /\ Store(runner[p].chat, muted)
                     /\ runner' = Started(p, runner[p].chat, muted, NotifyDue(muted))
        ELSE IF Current(p) /\ r.state = "MUTED"
        THEN /\ runner' = Started(p, runner[p].chat, r, NotifyDue(r))
             /\ UNCHANGED <<row, boundIn>>
        ELSE Refused(p, r)
     /\ UNCHANGED <<bound, tokens, links, telegram, bounds>>

confirm_unmute(p) ==
  /\ Settling(p, "done", "UNMUTE")
  /\ Refused(p, IF Holds(p, "UNMUTE_PENDING")
                THEN [Cleared(RowOf(p)) EXCEPT !.state = "ACTIVE", !.deadline = "none",
                        !.token = None, !.verified = FALSE, !.unmuted = TRUE]
                ELSE RowOf(p))
  /\ UNCHANGED <<bound, tokens, links, telegram, bounds>>

confirm_removal(p) ==
  /\ Settling(p, "done", "REMOVE")
  /\ Refused(p, IF Holds(p, "REMOVE_PENDING")
                THEN [Cleared(RowOf(p)) EXCEPT !.state = "REMOVED", !.deadline = "none",
                        !.token = None, !.verified = FALSE]
                ELSE RowOf(p))
  /\ UNCHANGED <<bound, tokens, links, telegram, bounds>>

\* fail_restriction, fail_unmute and fail_removal.
fail_action(p) ==
  LET state == CASE runner[p].kind = "RESTRICT" -> "RESTRICT_PENDING"
                 [] runner[p].kind = "UNMUTE" -> "UNMUTE_PENDING"
                 [] OTHER -> "REMOVE_PENDING"
  IN /\ runner[p].step = "failed" /\ runner[p].kind # "VERIFICATION_NOTIFICATION"
     /\ Refused(p, IF Holds(p, state)
                   THEN [RowOf(p) EXCEPT !.attempt = None, !.retry = "running"] ELSE RowOf(p))
     /\ UNCHANGED <<bound, tokens, links, telegram, bounds>>

\* The link is the identity of a notification.
Notified(p) ==
  /\ Current(p) /\ RowOf(p).state = "MUTED" /\ RowOf(p).action = "VERIFICATION_NOTIFICATION"
  /\ RowOf(p).token = runner[p].token

mark_notification_success(p) ==
  /\ Settling(p, "done", "VERIFICATION_NOTIFICATION")
  /\ Refused(p, IF Notified(p) THEN [RowOf(p) EXCEPT !.action = None, !.retry = "none"]
                ELSE RowOf(p))
  /\ UNCHANGED <<bound, tokens, links, telegram, bounds>>

mark_notification_failure(p) ==
  /\ Settling(p, "failed", "VERIFICATION_NOTIFICATION")
  /\ Refused(p, IF Notified(p)
                THEN [RowOf(p) EXCEPT !.token = None, !.verified = FALSE, !.retry = "running"]
                ELSE RowOf(p))
  /\ UNCHANGED <<bound, tokens, links, telegram, bounds>>

\* Told that the person is away, by an update or by an answer of Telegram.
mark_left(p) ==
  /\ runner[p].step = "absent"
  /\ Refused(p, IF Current(p) THEN Left(RowOf(p)) ELSE RowOf(p))
  /\ UNCHANGED <<bound, tokens, links, telegram, bounds>>

-----------------------------------------------------------------------------

Person ==
  \/ \E c \in Chats :
       \/ \E admin \in BOOLEAN : Joins(c, admin)
       \/ Leaves(c)
       \/ \E t \in Tokens : verify_token(c, t)
  \/ Binds

Clock == \E c \in Chats : DeadlinePasses(c) \/ RetryPasses(c)

Handles(p, c) == (\E admin \in BOOLEAN : handle_join(p, c, admin)) \/ handle_left(p, c)

Steps(p) ==
  \/ claim_restriction(p) \/ claim_unmute(p) \/ claim_removal(p) \/ issue_verification_token(p)
  \/ Answered(p)
  \/ confirm_restriction(p) \/ confirm_unmute(p) \/ confirm_removal(p) \/ fail_action(p)
  \/ mark_notification_success(p) \/ mark_notification_failure(p) \/ mark_left(p)

Next ==
  \/ Person \/ Clock \/ queue_unmute_for_user
  \/ \E c \in Chats :
       Scan(c) \/ (\E p \in Handlers : Handles(p, c)) \/ (\E k \in Actions : LateLands(c, k))
  \/ \E p \in Runners : Steps(p) \/ Unanswered(p)
  \/ Restart

Spec == Init /\ [][Next]_vars

\* The worker's pass is repeated and every runner goes on; updates are delivered; what
\* is in flight lands and time passes.  Nobody has to join, leave, bind or use a link.
Fairness ==
  /\ WF_vars(queue_unmute_for_user)
  /\ \A c \in Chats :
       /\ WF_vars(Scan(c)) /\ WF_vars(DeadlinePasses(c)) /\ WF_vars(RetryPasses(c))
       /\ \A k \in Actions : WF_vars(LateLands(c, k))
       /\ WF_vars(\E p \in Handlers : Handles(p, c))
  /\ \A p \in Runners : WF_vars(Steps(p))

FairSpec == Spec /\ Fairness

-----------------------------------------------------------------------------
(* Properties. *)

\* A person whose row says ACTIVE was bound while this membership lasted: no answer to
\* a request of an earlier membership, and no link, releases a person who never was.
ReleasedWereBound ==
  \A c \in Chats : row[c].state = "ACTIVE" => row[c].generation \in boundIn[c]

\* Two runners never ask Telegram for opposite things about the same membership at the
\* same time: a release waits for the restriction it undoes, a removal for a release.
OneRequestAtATime ==
  \A p, q \in Runners :
    /\ p # q /\ Calling(p) /\ Calling(q)
    /\ runner[p].chat = runner[q].chat /\ runner[p].generation = runner[q].generation
    => "VERIFICATION_NOTIFICATION" \in {runner[p].kind, runner[q].kind}

\* A person released by the worker can speak, whatever was lost or restarted on the way.
ReleasedCanSpeak ==
  \A c \in Chats :
    row[c].state = "ACTIVE" /\ row[c].unmuted /\ member[c].present => ~member[c].muted

\* A person who is bound and waiting is released, unless the person leaves, is unbound,
\* or a removal had been claimed before.
BoundIsReleased ==
  \A c \in Chats :
    bound /\ row[c].state \in {"RESTRICT_PENDING", "MUTED", "UNMUTE_PENDING"}
      ~> ~bound \/ row[c].state \notin {"RESTRICT_PENDING", "MUTED", "UNMUTE_PENDING"}

\* A person who is never bound does not stay: sooner or later the person is out of the
\* chat, although any request may be refused or lost and the process may restart.
StrangersLeave ==
  \A c \in Chats :
    member[c].present /\ boundIn[c] = {}
      ~> boundIn[c] # {} \/ ~member[c].present \/ row[c].state \in {"ACTIVE", "EXEMPT"}

-----------------------------------------------------------------------------
(* What the code says of itself and does not do. *)

\* "Preserve its lease so an unmute worker waits for that remote call to settle before
\* claiming" (_queue_unmute_locked): no release is asked for while a restriction of the
\* same membership is still on its way.
RestrictionSettledFirst ==
  \A p, q \in Runners :
    /\ Calling(p) /\ runner[p].kind = "UNMUTE"
    /\ Calling(q) /\ runner[q].kind = "RESTRICT"
    => <<runner[p].chat, runner[p].generation>> # <<runner[q].chat, runner[q].generation>>

\* "Once you are bound, your permissions come back by themselves when you join again"
\* (the answer to an expired link): a bound person who joined again is not restricted
\* when everything has been handled and the row is ACTIVE.
RejoinedCanSpeak ==
  \A c \in Chats :
    /\ bound /\ row[c].state = "ACTIVE" /\ row[c].generation > 1
    /\ member[c].present /\ updates[c] = <<>> /\ \A p \in Runners : runner[p] = Idle
    => ~member[c].muted

\* "Reconciliation will repair the pending Telegram action after a restart or retry"
\* (bind): the row of a bound person does not stay with a removal pending.
PendingActionIsRepaired ==
  \A c \in Chats :
    bound /\ row[c].state = "REMOVE_PENDING" ~> ~bound \/ row[c].state # "REMOVE_PENDING"

=============================================================================
