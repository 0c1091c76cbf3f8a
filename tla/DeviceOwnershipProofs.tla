------------------------ MODULE DeviceOwnershipProofs ------------------------
(***************************************************************************)
(* The rows of DeviceLifecycle explain each other, its associations        *)
(* implement the slots of DeviceOwnership, and what the rows say about the *)
(* platform is true: no grant is forgotten and no late revoke POST hits    *)
(* another user's device.  For any number of users, devices, links and     *)
(* commands, and any bounds.                                               *)
(***************************************************************************)
EXTENDS DeviceLifecycleProofs, FiniteSetTheorems

\* An action names an association that was created before; a link has its own, and an
\* open one has a user.
RowsPlaced ==
  /\ \A l \in Links : authAction[l].status # "NONE" => authAction[l].assoc < nextAssociation
  /\ \A r \in RevokeIds :
       revokeAction[r].status # "NONE" => revokeAction[r].assoc < nextAssociation
  /\ \A k, l \in Links :
       k # l /\ authAction[k].status # "NONE" => authAction[k].assoc # authAction[l].assoc
  /\ \A a \in AssociationIds : Open(a) => association[a].user \in Users

\* An unresolved AUTH action: its association waits, or is in doubt, without a device.
AuthFits(l) ==
  LET row == association[authAction[l].assoc]
  IN  authAction[l].status \in Unresolved =>
        /\ row.device = None /\ row.reason = None
        /\ row.state = IF authAction[l].status = "PENDING" THEN "PENDING_AUTH" ELSE "UNKNOWN"

\* A REVOKE action aims at the device of its association, and while it is unresolved the
\* state and the reason of the association tell of it.
RevokeFits(r) ==
  LET act == revokeAction[r]
      row == association[act.assoc]
  IN  /\ act.status # "NONE" => row.device = act.target
      /\ act.status \in Unresolved =>
           /\ row.state = IF act.status = "PENDING" THEN "PENDING_REVOKE" ELSE "UNKNOWN"
           /\ row.reason = "QUOTA" <=> act.reason = "QUOTA"
      /\ act.status = "SUCCEEDED" => row.state = "ENDED" /\ row.reason = act.reason

AuthsMatch == \A l \in Links : AuthFits(l)

RevokesMatch ==
  /\ \A r \in RevokeIds : RevokeFits(r)
  /\ \A q, r \in RevokeIds :
       q # r /\ revokeAction[q].status \in Unresolved /\ revokeAction[r].status \in Unresolved =>
         revokeAction[q].assoc # revokeAction[r].assoc

\* An association that waits or is in doubt has an unresolved action that says so.
Explained ==
  \A a \in AssociationIds :
    /\ association[a].state = "ACTIVE" => association[a].reason = None
    /\ association[a].state = "PENDING_AUTH" =>
         \E l \in Links : authAction[l].assoc = a /\ authAction[l].status = "PENDING"
    /\ association[a].state = "PENDING_REVOKE" =>
         \E r \in RevokeIds : revokeAction[r].assoc = a /\ revokeAction[r].status = "PENDING"
    /\ association[a].state = "UNKNOWN" =>
         \/ \E l \in Links : authAction[l].assoc = a /\ authAction[l].status = "UNKNOWN"
         \/ \E r \in RevokeIds : revokeAction[r].assoc = a /\ revokeAction[r].status = "UNKNOWN"

\* A call works on an action that is not withdrawn, for the action's reason; a link has
\* one call, and an unarmed revocation too; only the loop works on quota revocations.
CallsOwn ==
  /\ \A p \in Processes :
       /\ call[p].step \in AuthPlaces => authAction[call[p].link].status \in Unresolved
       /\ call[p].step \in RevokePlaces =>
            /\ revokeAction[call[p].revoke].status # "FAILED"
            /\ call[p].reason = revokeAction[call[p].revoke].reason
            /\ call[p].reason = "QUOTA" => p \in Schedulers
  /\ \A p, q \in Processes : p # q =>
       /\ call[p].step \in AuthPlaces /\ call[q].step \in AuthPlaces => call[p].link # call[q].link
       /\ call[p].step \in RevokePlaces /\ call[q].step \in RevokePlaces
            /\ call[p].revoke = call[q].revoke => revokeAction[call[p].revoke].attempt = 1

RowsMatch == RowsPlaced /\ AuthsMatch /\ RevokesMatch /\ Explained
MatchInv == RowsMatch /\ CallsOwn

LEMMA InitMatch == Init => MatchInv
BY DEF Init, MatchInv, RowsMatch, RowsPlaced, AuthsMatch, RevokesMatch, AuthFits, RevokeFits,
       Explained, CallsOwn, Open, NoAssociation, NoAuth, NoRevoke, Idle, Unresolved, AuthPlaces, RevokePlaces

-----------------------------------------------------------------------------
(* What a step does to the rows: nothing that matters here, or one of four *)
(* things to one association.                                              *)

OthersSame(a) == \A b \in AssociationIds \ {a} : association'[b] = association[b]

Steady ==
  /\ nextAssociation' = nextAssociation
  /\ \A a \in AssociationIds : association'[a] = association[a]
  /\ \A l \in Links : /\ authAction'[l].status = authAction[l].status
                      /\ authAction'[l].assoc = authAction[l].assoc
  /\ \A r \in RevokeIds : /\ revokeAction'[r].status = revokeAction[r].status
                          /\ revokeAction'[r].assoc = revokeAction[r].assoc
                          /\ revokeAction'[r].target = revokeAction[r].target
                          /\ revokeAction'[r].reason = revokeAction[r].reason

\* The outcome of a link is in doubt, a failure, or an approval for a free device.
LinkMoves(l) ==
  LET a == authAction[l].assoc
      new == association'[a]
  IN /\ authAction[l].status \in Unresolved /\ a \in AssociationIds
     /\ UNCHANGED <<revokeAction, nextAssociation>>
     /\ OthersSame(a) /\ new.user = association[a].user
     /\ \A k \in Links \ {l} : authAction'[k] = authAction[k]
     /\ authAction'[l].assoc = a
     /\ \/ /\ authAction'[l].status = "UNKNOWN" /\ new.state = "UNKNOWN"
           /\ new.device = association[a].device /\ new.reason = association[a].reason
        \/ /\ authAction'[l].status = "FAILED" /\ new.state = "ENDED"
           /\ new.device = association[a].device
        \/ /\ authAction'[l].status = "SUCCEEDED" /\ new.state = "ACTIVE"
           /\ new.device \in Devices /\ HoldersOf(new.device) \subseteq {a}
           /\ new.reason = association[a].reason

\* The outcome of a revocation is in doubt, it is withdrawn, or confirmed.
RevokeMoves(r) ==
  LET act == revokeAction[r]
      a == act.assoc
      new == association'[a]
  IN /\ act.status \in Unresolved /\ a \in AssociationIds
     /\ UNCHANGED <<authAction, nextAssociation>>
     /\ OthersSame(a) /\ new.user = association[a].user /\ new.device = association[a].device
     /\ \A k \in RevokeIds \ {r} : revokeAction'[k] = revokeAction[k]
     /\ revokeAction'[r].assoc = a /\ revokeAction'[r].target = act.target
     /\ revokeAction'[r].reason = act.reason
     /\ \/ /\ revokeAction'[r].status = "UNKNOWN" /\ new.state = "UNKNOWN"
           /\ new.reason = association[a].reason
        \/ revokeAction'[r].status = "FAILED" /\ new.state = "ACTIVE" /\ new.reason = None
        \/ revokeAction'[r].status = "SUCCEEDED" /\ new.state = "ENDED" /\ new.reason = act.reason

\* Revocation r of an active association is reserved.
Reserves(r, a) ==
  LET act == revokeAction'[r]
      new == association'[a]
  IN /\ a \in AssociationIds /\ association[a].state = "ACTIVE"
     /\ association[a].device \in Devices
     /\ UNCHANGED <<authAction, nextAssociation>>
     /\ OthersSame(a) /\ new.user = association[a].user /\ new.device = association[a].device
     /\ new.state = "PENDING_REVOKE"
     /\ new.reason = IF act.reason = "QUOTA" THEN "QUOTA" ELSE association[a].reason
     /\ revokeAction[r].status = "NONE"
     /\ \A k \in RevokeIds \ {r} : revokeAction'[k] = revokeAction[k]
     /\ act.status = "PENDING" /\ act.assoc = a /\ act.target = association[a].device

\* User u gets an association: for a new link, or with a free device.
Creates(u) ==
  LET n == nextAssociation
      new == association'[n]
  IN /\ n \in AssociationIds /\ nextAssociation' = n + 1
     /\ OthersSame(n) /\ new.user = u /\ new.reason = None /\ OpenOf(u) = {}
     /\ UNCHANGED revokeAction
     /\ \/ /\ new.state = "ACTIVE" /\ new.device \in Devices /\ HoldersOf(new.device) = {}
           /\ UNCHANGED authAction
        \/ /\ new.state = "PENDING_AUTH" /\ new.device = None
           /\ \E l \in Links : /\ authAction[l].status = "NONE"
                               /\ authAction'[l].status = "PENDING" /\ authAction'[l].assoc = n
                               /\ \A k \in Links \ {l} : authAction'[k] = authAction[k]

RowStep ==
  \/ Steady
  \/ \E l \in Links : LinkMoves(l)
  \/ \E r \in RevokeIds : RevokeMoves(r) \/ \E a \in AssociationIds : Reserves(r, a)
  \/ \E u \in Users : Creates(u)

\* The types of the rows that the lemmas below read.
RowTypes ==
  /\ \A l \in Links : /\ authAction[l].status \in Statuses \cup {"NONE"}
                      /\ authAction[l].status # "NONE" => authAction[l].assoc \in AssociationIds
                      /\ authAction[l].status = "NONE" => authAction[l].assoc = None
  /\ \A r \in RevokeIds :
       /\ revokeAction[r].status \in Statuses \cup {"NONE"}
       /\ revokeAction[r].status # "NONE" => /\ revokeAction[r].assoc \in AssociationIds
                                             /\ revokeAction[r].target \in Devices
                                             /\ revokeAction[r].reason \in RevokeReasons
       /\ revokeAction[r].status = "NONE" => revokeAction[r].assoc = None
  /\ nextAssociation \in Nat /\ None \notin Nat /\ None \notin Devices /\ None # "QUOTA"

LEMMA RowsTyped == ASSUME TypeInv PROVE RowTypes
BY NoneAssumption DEF TypeInv, TypeOK, RowTypes, AuthRow, NoAuth, RevokeRow, NoRevoke, Statuses

LEMMA SteadyMatch ==
  ASSUME RowTypes, RowsMatch, Steady
  PROVE  RowsMatch'
<1>1. RowsPlaced'
  BY DEF RowsMatch, RowsPlaced, Steady, Open
<1>2. AuthsMatch'
  BY DEF RowsMatch, AuthsMatch, AuthFits, Steady, RowTypes, Unresolved
<1>3. RevokesMatch'
  BY DEF RowsMatch, RevokesMatch, RevokeFits, Steady, RowTypes, Statuses, Unresolved
<1>4. Explained'
  BY DEF RowsMatch, Explained, Steady
<1> QED BY <1>1, <1>2, <1>3, <1>4 DEF RowsMatch

LEMMA LinkMatch ==
  ASSUME RowTypes, RowTypes', RowsMatch, NEW l \in Links, LinkMoves(l)
  PROVE  RowsMatch'
<1> DEFINE a == authAction[l].assoc
<1>1. /\ a \in AssociationIds /\ Open(a) /\ association[a].device = None
      /\ association[a].reason = None
  BY DEF LinkMoves, RowsMatch, AuthsMatch, AuthFits, Open, Unresolved
<1>2. /\ \A k \in Links \ {l} : authAction'[k] = authAction[k] /\ authAction[k].assoc # a
      /\ \A r \in RevokeIds : revokeAction'[r] = revokeAction[r] /\ revokeAction[r].assoc # a
  <2>1. ASSUME NEW k \in Links \ {l} PROVE authAction[k].assoc # a
    BY DEF LinkMoves, RowsMatch, RowsPlaced, Unresolved
  <2>2. ASSUME NEW r \in RevokeIds PROVE revokeAction[r].assoc # a
    BY <1>1, NoneAssumption DEF RowsMatch, RevokesMatch, RevokeFits, RowTypes, AssociationIds
  <2> QED BY <2>1, <2>2 DEF LinkMoves
<1>3. OthersSame(a) /\ authAction'[l].assoc = a /\ association'[a].user = association[a].user
  BY DEF LinkMoves
<1>4. RowsPlaced'
  <2>1. nextAssociation' = nextAssociation /\ authAction[l].status # "NONE"
    BY DEF LinkMoves, Unresolved
  <2> QED BY <1>1, <1>2, <1>3, <2>1 DEF RowsMatch, RowsPlaced, OthersSame, Open
<1>5. AuthsMatch'
  <2>1. ASSUME NEW k \in Links \ {l}, authAction[k].status \in Unresolved
        PROVE  association'[authAction[k].assoc] = association[authAction[k].assoc]
    BY <1>2, <1>3, <2>1 DEF OthersSame, RowTypes, Unresolved
  <2>2. authAction'[l].status \in Unresolved =>
          /\ association'[a].state = "UNKNOWN" /\ authAction'[l].status = "UNKNOWN"
          /\ association'[a].device = None /\ association'[a].reason = None
    BY <1>1 DEF LinkMoves, Unresolved
  <2>3. SUFFICES ASSUME NEW k \in Links PROVE AuthFits(k)'
    BY DEF AuthsMatch
  <2>4. CASE k = l
    BY <1>3, <2>2, <2>4 DEF AuthFits
  <2>5. CASE k # l
    BY <1>2, <2>1, <2>5 DEF RowsMatch, AuthsMatch, AuthFits
  <2> QED BY <2>4, <2>5
<1>6. RevokesMatch'
  <2>1. ASSUME NEW r \in RevokeIds, revokeAction[r].status # "NONE"
        PROVE  association'[revokeAction[r].assoc] = association[revokeAction[r].assoc]
    BY <1>2, <1>3, <2>1 DEF OthersSame, RowTypes
  <2> QED BY <1>2, <2>1 DEF RowsMatch, RevokesMatch, RevokeFits, Unresolved
<1>7. Explained'
  <2>1. ASSUME NEW b \in AssociationIds \ {a}
        PROVE  association'[b] = association[b]
    BY <1>3 DEF OthersSame
  <2>2. /\ association'[a].state = "UNKNOWN" => authAction'[l].status = "UNKNOWN"
        /\ association'[a].state \notin {"PENDING_AUTH", "PENDING_REVOKE"}
        /\ association'[a].state = "ACTIVE" => association'[a].reason = None
    BY <1>1 DEF LinkMoves
  <2> QED BY <1>2, <1>3, <2>1, <2>2 DEF RowsMatch, Explained
<1> QED BY <1>4, <1>5, <1>6, <1>7 DEF RowsMatch

LEMMA RevokeMatch ==
  ASSUME RowTypes, RowTypes', RowsMatch, NEW r \in RevokeIds, RevokeMoves(r)
  PROVE  RowsMatch'
<1> DEFINE a == revokeAction[r].assoc
<1>1. /\ a \in AssociationIds /\ Open(a) /\ association[a].device = revokeAction[r].target
      /\ association[a].device \in Devices
  BY DEF RevokeMoves, RowsMatch, RevokesMatch, RevokeFits, RowTypes, Open, Unresolved
<1>2. /\ \A l \in Links : /\ authAction'[l] = authAction[l]
                          /\ authAction[l].status \in Unresolved => authAction[l].assoc # a
      /\ \A k \in RevokeIds \ {r} : /\ revokeAction'[k] = revokeAction[k]
                                    /\ revokeAction[k].status \in Unresolved \cup {"SUCCEEDED"} =>
                                         revokeAction[k].assoc # a
  <2>1. ASSUME NEW l \in Links, authAction[l].status \in Unresolved PROVE authAction[l].assoc # a
    BY <1>1, <2>1 DEF RowsMatch, AuthsMatch, AuthFits, RowTypes
  <2>2. ASSUME NEW k \in RevokeIds \ {r}, revokeAction[k].status \in Unresolved \cup {"SUCCEEDED"}
        PROVE  revokeAction[k].assoc # a
    BY <1>1, <2>2 DEF RowsMatch, RevokesMatch, RevokeFits, RevokeMoves, Open, Unresolved
  <2> QED BY <2>1, <2>2 DEF RevokeMoves
<1>3. /\ OthersSame(a) /\ association'[a].user = association[a].user
      /\ association'[a].device = association[a].device
      /\ revokeAction'[r].assoc = a /\ revokeAction'[r].target = revokeAction[r].target
      /\ revokeAction'[r].reason = revokeAction[r].reason
      /\ nextAssociation' = nextAssociation /\ revokeAction[r].status # "NONE"
  BY DEF RevokeMoves, Unresolved
<1>4. RowsPlaced'
  BY <1>1, <1>2, <1>3 DEF RowsMatch, RowsPlaced, OthersSame, Open
<1>5. AuthsMatch'
  <2>1. ASSUME NEW l \in Links, authAction[l].status \in Unresolved
        PROVE  association'[authAction[l].assoc] = association[authAction[l].assoc]
    BY <1>2, <1>3, <2>1 DEF OthersSame, RowTypes, Unresolved
  <2> QED BY <1>2, <2>1 DEF RowsMatch, AuthsMatch, AuthFits, Unresolved
<1>6. RevokesMatch'
  <2>1. ASSUME NEW k \in RevokeIds \ {r} PROVE RevokeFits(k)'
    <3>1. RevokeFits(k) /\ revokeAction'[k] = revokeAction[k]
      BY <1>2 DEF RowsMatch, RevokesMatch
    <3>2. CASE revokeAction[k].assoc = a
      BY <1>2, <1>3, <3>1, <3>2 DEF RevokeFits
    <3>3. CASE revokeAction[k].assoc # a /\ revokeAction[k].status # "NONE"
      <4>1. association'[revokeAction[k].assoc] = association[revokeAction[k].assoc]
        BY <1>3, <3>3 DEF OthersSame, RowTypes
      <4> QED BY <3>1, <4>1 DEF RevokeFits
    <3>4. CASE revokeAction[k].status = "NONE"
      BY <3>1, <3>4 DEF RevokeFits, Unresolved
    <3> QED BY <3>2, <3>3, <3>4
  <2>2. RevokeFits(r)'
    BY <1>1, <1>3 DEF RevokeMoves, RowsMatch, RevokesMatch, RevokeFits, Unresolved
  <2>3. ASSUME NEW q \in RevokeIds, NEW k \in RevokeIds, q # k,
               revokeAction'[q].status \in Unresolved, revokeAction'[k].status \in Unresolved
        PROVE  revokeAction'[q].assoc # revokeAction'[k].assoc
    BY <1>2, <1>3, <2>3 DEF RowsMatch, RevokesMatch
  <2> QED BY <2>1, <2>2, <2>3 DEF RevokesMatch, Unresolved
<1>7. Explained'
  <2>1. ASSUME NEW b \in AssociationIds \ {a}
        PROVE  association'[b] = association[b]
    BY <1>3 DEF OthersSame
  <2>2. /\ association'[a].state = "UNKNOWN" => revokeAction'[r].status = "UNKNOWN"
        /\ association'[a].state \notin {"PENDING_AUTH", "PENDING_REVOKE"}
        /\ association'[a].state = "ACTIVE" => association'[a].reason = None
    BY DEF RevokeMoves
  <2>3. ASSUME NEW b \in AssociationIds \ {a}, NEW k \in RevokeIds, revokeAction[k].assoc = b
        PROVE  revokeAction'[k] = revokeAction[k]
    BY <1>2, <2>3
  <2> QED BY <1>2, <1>3, <2>1, <2>2, <2>3 DEF RowsMatch, Explained
<1> QED BY <1>4, <1>5, <1>6, <1>7 DEF RowsMatch

LEMMA ReserveMatch ==
  ASSUME RowTypes, RowTypes', RowsMatch, FreshRows, NEW r \in RevokeIds, NEW a,
         Reserves(r, a)
  PROVE  RowsMatch'
<1>1. /\ a \in AssociationIds /\ Open(a) /\ association[a].reason = None
      /\ association[a].device \in Devices
  BY DEF Reserves, RowsMatch, Explained, Open
<1>2. /\ \A l \in Links : /\ authAction'[l] = authAction[l]
                          /\ authAction[l].status \in Unresolved => authAction[l].assoc # a
      /\ \A k \in RevokeIds \ {r} : /\ revokeAction'[k] = revokeAction[k]
                                    /\ revokeAction[k].status \in Unresolved \cup {"SUCCEEDED"} =>
                                         revokeAction[k].assoc # a
  <2>1. ASSUME NEW l \in Links, authAction[l].status \in Unresolved PROVE authAction[l].assoc # a
    BY <1>1, <2>1 DEF RowsMatch, AuthsMatch, AuthFits, RowTypes
  <2>2. ASSUME NEW k \in RevokeIds \ {r}, revokeAction[k].status \in Unresolved \cup {"SUCCEEDED"}
        PROVE  revokeAction[k].assoc # a
    BY <1>1, <2>2 DEF RowsMatch, RevokesMatch, RevokeFits, Reserves, Unresolved
  <2> QED BY <2>1, <2>2 DEF Reserves
<1>3. /\ OthersSame(a) /\ association'[a].user = association[a].user
      /\ association'[a].device = association[a].device /\ association'[a].state = "PENDING_REVOKE"
      /\ revokeAction'[r].assoc = a /\ revokeAction'[r].target = association[a].device
      /\ revokeAction'[r].status = "PENDING"
      /\ association'[a].reason = "QUOTA" <=> revokeAction'[r].reason = "QUOTA"
      /\ nextAssociation' = nextAssociation /\ revokeAction[r].status = "NONE"
  BY <1>1 DEF Reserves, RowTypes
<1>4. RowsPlaced'
  <2>1. a < nextAssociation
    BY <1>1 DEF FreshRows, Open, AssociationIds, RowTypes
  <2> QED BY <1>1, <1>2, <1>3, <2>1 DEF RowsMatch, RowsPlaced, OthersSame, Open
<1>5. AuthsMatch'
  <2>1. ASSUME NEW l \in Links, authAction[l].status \in Unresolved
        PROVE  association'[authAction[l].assoc] = association[authAction[l].assoc]
    BY <1>2, <1>3, <2>1 DEF OthersSame, RowTypes, Unresolved
  <2> QED BY <1>2, <2>1 DEF RowsMatch, AuthsMatch, AuthFits, Unresolved
<1>6. RevokesMatch'
  <2>1. ASSUME NEW k \in RevokeIds \ {r} PROVE RevokeFits(k)'
    <3>1. RevokeFits(k) /\ revokeAction'[k] = revokeAction[k]
      BY <1>2 DEF RowsMatch, RevokesMatch
    <3>2. CASE revokeAction[k].assoc = a
      BY <1>2, <1>3, <3>1, <3>2 DEF RevokeFits
    <3>3. CASE revokeAction[k].assoc # a /\ revokeAction[k].status # "NONE"
      <4>1. association'[revokeAction[k].assoc] = association[revokeAction[k].assoc]
        BY <1>3, <3>3 DEF OthersSame, RowTypes
      <4> QED BY <3>1, <4>1 DEF RevokeFits
    <3>4. CASE revokeAction[k].status = "NONE"
      BY <3>1, <3>4 DEF RevokeFits, Unresolved
    <3> QED BY <3>2, <3>3, <3>4
  <2>2. RevokeFits(r)'
    BY <1>1, <1>3 DEF RevokeFits, Unresolved
  <2>3. ASSUME NEW q \in RevokeIds, NEW k \in RevokeIds, q # k,
               revokeAction'[q].status \in Unresolved, revokeAction'[k].status \in Unresolved
        PROVE  revokeAction'[q].assoc # revokeAction'[k].assoc
    BY <1>2, <1>3, <2>3 DEF RowsMatch, RevokesMatch
  <2> QED BY <2>1, <2>2, <2>3 DEF RevokesMatch, Unresolved
<1>7. Explained'
  <2>1. ASSUME NEW b \in AssociationIds \ {a}
        PROVE  association'[b] = association[b]
    BY <1>3 DEF OthersSame
  <2>2. ASSUME NEW b \in AssociationIds \ {a}, NEW k \in RevokeIds, revokeAction[k].assoc = b
        PROVE  revokeAction'[k] = revokeAction[k]
    BY <1>2, <1>3, <2>2, NoneAssumption DEF RowTypes, AssociationIds
  <2> QED BY <1>2, <1>3, <2>1, <2>2 DEF RowsMatch, Explained
<1> QED BY <1>4, <1>5, <1>6, <1>7 DEF RowsMatch

LEMMA CreateMatch ==
  ASSUME RowTypes, RowTypes', RowsMatch, FreshRows, NEW u \in Users, Creates(u)
  PROVE  RowsMatch'
<1> DEFINE n == nextAssociation
<1>1. /\ n \in AssociationIds /\ association[n].state = "NONE" /\ nextAssociation' = n + 1
      /\ n \in Nat /\ OthersSame(n) /\ revokeAction' = revokeAction
      /\ association'[n].user = u /\ association'[n].reason = None
      /\ association'[n].state \in {"ACTIVE", "PENDING_AUTH"}
  BY DEF Creates, FreshRows, RowTypes, AssociationIds
<1>2. /\ \A l \in Links : authAction[l].status # "NONE" =>
           authAction[l].assoc < n /\ authAction[l].assoc # n /\ authAction'[l] = authAction[l]
      /\ \A r \in RevokeIds : revokeAction[r].status # "NONE" =>
           revokeAction[r].assoc < n /\ revokeAction[r].assoc # n
  <2>1. ASSUME NEW l \in Links, authAction[l].status # "NONE"
        PROVE  /\ authAction[l].assoc < n /\ authAction[l].assoc \in AssociationIds
               /\ authAction'[l] = authAction[l]
    BY <2>1 DEF RowsMatch, RowsPlaced, Creates, RowTypes
  <2>2. ASSUME NEW r \in RevokeIds, revokeAction[r].status # "NONE"
        PROVE  revokeAction[r].assoc < n /\ revokeAction[r].assoc \in AssociationIds
    BY <2>2 DEF RowsMatch, RowsPlaced, RowTypes
  <2> QED BY <1>1, <2>1, <2>2 DEF AssociationIds
<1>3. ASSUME NEW l \in Links, authAction[l].status = "NONE", authAction'[l] # authAction[l]
      PROVE  /\ authAction'[l].status = "PENDING" /\ authAction'[l].assoc = n
             /\ association'[n].state = "PENDING_AUTH" /\ association'[n].device = None
             /\ \A k \in Links \ {l} : authAction'[k] = authAction[k]
  BY <1>3 DEF Creates
<1>4. RowsPlaced'
  <2>1. \A l \in Links : authAction'[l].status # "NONE" => authAction'[l].assoc < n + 1
    BY <1>1, <1>2, <1>3 DEF RowTypes, AssociationIds
  <2>2. \A r \in RevokeIds : revokeAction'[r].status # "NONE" => revokeAction'[r].assoc < n + 1
    BY <1>1, <1>2 DEF RowTypes, AssociationIds
  <2>3. ASSUME NEW k \in Links, NEW l \in Links, k # l, authAction'[k].status # "NONE"
        PROVE  authAction'[k].assoc # authAction'[l].assoc
    BY <1>1, <1>2, <1>3, <2>3, NoneAssumption DEF RowsMatch, RowsPlaced, RowTypes, AssociationIds
  <2>4. \A a \in AssociationIds : Open(a)' => association'[a].user \in Users
    BY <1>1 DEF RowsMatch, RowsPlaced, OthersSame, Open
  <2> QED BY <1>1, <2>1, <2>2, <2>3, <2>4 DEF RowsPlaced
<1>5. AuthsMatch'
  <2>1. ASSUME NEW l \in Links PROVE AuthFits(l)'
    <3>1. CASE authAction[l].status # "NONE"
      <4>1. /\ authAction'[l] = authAction[l]
            /\ association'[authAction[l].assoc] = association[authAction[l].assoc]
        BY <1>1, <1>2, <3>1 DEF OthersSame, RowTypes
      <4> QED BY <4>1 DEF RowsMatch, AuthsMatch, AuthFits
    <3>2. CASE authAction[l].status = "NONE" /\ authAction'[l] = authAction[l]
      BY <3>2 DEF AuthFits, Unresolved
    <3>3. CASE authAction[l].status = "NONE" /\ authAction'[l] # authAction[l]
      BY <1>1, <1>3, <3>3 DEF AuthFits, Unresolved
    <3> QED BY <3>1, <3>2, <3>3
  <2> QED BY <2>1 DEF AuthsMatch
<1>6. RevokesMatch'
  <2>1. ASSUME NEW r \in RevokeIds PROVE RevokeFits(r)'
    <3>1. CASE revokeAction[r].status # "NONE"
      <4>1. association'[revokeAction[r].assoc] = association[revokeAction[r].assoc]
        BY <1>1, <1>2, <3>1 DEF OthersSame, RowTypes
      <4> QED BY <1>1, <4>1 DEF RowsMatch, RevokesMatch, RevokeFits
    <3>2. CASE revokeAction[r].status = "NONE"
      BY <1>1, <3>2 DEF RevokeFits, Unresolved
    <3> QED BY <3>1, <3>2
  <2> QED BY <1>1, <2>1 DEF RowsMatch, RevokesMatch, Unresolved
<1>7. Explained'
  <2>1. ASSUME NEW b \in AssociationIds \ {n}
        PROVE  association'[b] = association[b]
    BY <1>1 DEF OthersSame
  <2>3. association'[n].state = "PENDING_AUTH" =>
          \E l \in Links : authAction'[l].assoc = n /\ authAction'[l].status = "PENDING"
    BY DEF Creates
  <2>4. ASSUME NEW l \in Links, authAction[l].status \in {"PENDING", "UNKNOWN"}
        PROVE  authAction'[l] = authAction[l]
    BY <1>2, <2>4
  <2>5. ASSUME NEW b \in AssociationIds \ {n}
        PROVE  /\ association'[b].state = "ACTIVE" => association'[b].reason = None
               /\ association'[b].state = "PENDING_AUTH" =>
                    \E l \in Links : authAction'[l].assoc = b /\ authAction'[l].status = "PENDING"
               /\ association'[b].state = "PENDING_REVOKE" =>
                    \E r \in RevokeIds : revokeAction'[r].assoc = b /\ revokeAction'[r].status = "PENDING"
               /\ association'[b].state = "UNKNOWN" =>
                    \/ \E l \in Links : authAction'[l].assoc = b /\ authAction'[l].status = "UNKNOWN"
                    \/ \E r \in RevokeIds : revokeAction'[r].assoc = b /\ revokeAction'[r].status = "UNKNOWN"
    BY <1>1, <2>1, <2>4 DEF RowsMatch, Explained
  <2> QED BY <1>1, <2>3, <2>5 DEF Explained
<1> QED BY <1>4, <1>5, <1>6, <1>7 DEF RowsMatch

LEMMA RowStepMatch ==
  ASSUME TypeInv, TypeInv', FreshRows, RowsMatch, RowStep
  PROVE  RowsMatch'
<1>1. RowTypes
  BY RowsTyped
<1>2. RowTypes'
  BY NoneAssumption DEF TypeInv, TypeOK, RowTypes, AuthRow, NoAuth, RevokeRow, NoRevoke, Statuses
<1> QED BY <1>1, <1>2, SteadyMatch, LinkMatch, RevokeMatch, ReserveMatch, CreateMatch DEF RowStep

-----------------------------------------------------------------------------
(* The slots. *)

FreeSlot == [phase |-> "free", device |-> None]
SlotFor(a) == [phase |-> Phase(a), device |-> association[a].device]

\* A user without an open association has a free slot; one with an open association
\* has its slot, as there is only one.
LEMMA SlotOfUser ==
  ASSUME ExclusiveSlots, NEW u \in Users
  PROVE  /\ OpenOf(u) = {} => SlotOf(u) = FreeSlot
         /\ \A a \in AssociationIds :
              Open(a) /\ association[a].user = u => SlotOf(u) = SlotFor(a)
<1>1. OpenOf(u) = {} => SlotOf(u) = FreeSlot
  BY DEF SlotOf, FreeSlot
<1>2. ASSUME NEW a \in AssociationIds, Open(a), association[a].user = u
      PROVE  SlotOf(u) = SlotFor(a)
  <2>1. OpenOf(u) = {a}
    BY <1>2 DEF ExclusiveSlots, OpenOf
  <2>2. (CHOOSE b \in OpenOf(u) : TRUE) = a
    BY <2>1
  <2> QED BY <2>1, <2>2 DEF SlotOf, SlotFor
<1> QED BY <1>1, <1>2

LEMMA SlotOfUserNext ==
  ASSUME ExclusiveSlots', NEW u \in Users
  PROVE  /\ OpenOf(u)' = {} => SlotOf(u)' = FreeSlot
         /\ \A a \in AssociationIds :
              Open(a)' /\ association'[a].user = u => SlotOf(u)' = SlotFor(a)'
<1>1. OpenOf(u)' = {} => SlotOf(u)' = FreeSlot
  BY DEF SlotOf, FreeSlot
<1>2. ASSUME NEW a \in AssociationIds, Open(a)', association'[a].user = u
      PROVE  SlotOf(u)' = SlotFor(a)'
  <2>1. OpenOf(u)' = {a}
    BY <1>2 DEF ExclusiveSlots, OpenOf
  <2>2. (CHOOSE b \in OpenOf(u)' : TRUE) = a
    BY <2>1
  <2> QED BY <2>1, <2>2 DEF SlotOf, SlotFor
<1> QED BY <1>1, <1>2

\* A slot stays while no association of its user changes, comes or goes.
LEMMA SlotStays ==
  ASSUME ExclusiveSlots, ExclusiveSlots', NEW u \in Users,
         \A a \in AssociationIds :
           (Open(a) /\ association[a].user = u) \/ (Open(a)' /\ association'[a].user = u) =>
             association'[a] = association[a]
  PROVE  SlotOf(u)' = SlotOf(u)
<1>1. OpenOf(u)' = OpenOf(u)
  BY DEF OpenOf, Open
<1>2. CASE OpenOf(u) = {}
  BY <1>1, <1>2, SlotOfUser, SlotOfUserNext
<1>3. ASSUME NEW a \in OpenOf(u) PROVE SlotOf(u)' = SlotOf(u)
  <2>1. /\ a \in AssociationIds /\ Open(a) /\ association[a].user = u
        /\ association'[a] = association[a] /\ Open(a)'
    BY <1>3 DEF OpenOf, Open
  <2>2. SlotOf(u) = SlotFor(a) /\ SlotOf(u)' = SlotFor(a)'
    BY <2>1, SlotOfUser, SlotOfUserNext
  <2> QED BY <2>1, <2>2 DEF SlotFor, Phase
<1> QED BY <1>2, <1>3

\* A step of DeviceOwnership at the slot of user u, or none.
SlotSteps(u) ==
  LET old == SlotOf(u)
      new == SlotOf(u)'
  IN \/ new = old
     \/ old = FreeSlot /\ new = [phase |-> "pending", device |-> None]
     \/ old = [phase |-> "pending", device |-> None] /\ new = FreeSlot
     \/ \E d \in Devices :
          \/ /\ old.phase \in {"free", "pending"} /\ new = [phase |-> "held", device |-> d]
             /\ \A v \in Users : SlotOf(v).device # d
          \/ /\ old = [phase |-> "held", device |-> d]
             /\ new = [phase |-> "releasing", device |-> d]
          \/ /\ old = [phase |-> "releasing", device |-> d]
             /\ new \in {FreeSlot, [phase |-> "held", device |-> d]}

LEMMA SlotStep ==
  ASSUME NEW u \in Users, SlotSteps(u), \A v \in Users \ {u} : SlotOf(v)' = SlotOf(v)
  PROVE  Ownership!Next \/ UNCHANGED [v \in Users |-> SlotOf(v)]
<1> DEFINE slot == [v \in Users |-> SlotOf(v)]
           next == [v \in Users |-> SlotOf(v)']
<1>1. \A v \in Users : slot[v] = SlotOf(v) /\ next[v] = SlotOf(v)'
  OBVIOUS
<1>2. next = [slot EXCEPT ![u] = next[u]] /\ slot = [v \in Users |-> slot[v]]
  OBVIOUS
<1>3. CASE SlotOf(u)' = SlotOf(u)
  BY <1>3
<1>4. CASE SlotOf(u)' # SlotOf(u)
  <2>1. next[u] # slot[u]
    BY <1>1, <1>4
  <2>2. ASSUME NEW from, NEW to, NEW d, SlotOf(u) = [phase |-> from, device |-> d],
               SlotOf(u)' = [phase |-> to, device |-> d]
        PROVE  slot[u].phase = from /\ next = [slot EXCEPT ![u].phase = to]
    <3> HIDE DEF slot, next
    <3>1. slot[u] = [phase |-> from, device |-> d] /\ next[u] = [phase |-> to, device |-> d]
      BY <1>1, <2>2
    <3>2. next = [slot EXCEPT ![u] = [phase |-> to, device |-> d]]
      BY <1>2, <3>1
    <3>3. [slot[u] EXCEPT !.phase = to] = [phase |-> to, device |-> d]
      BY <3>1
    <3>4. [slot EXCEPT ![u].phase = to] = [slot EXCEPT ![u] = [slot[u] EXCEPT !.phase = to]]
      OBVIOUS
    <3>5. next = [slot EXCEPT ![u].phase = to]
      BY <3>2, <3>3, <3>4, Zenon
    <3>6. slot[u].phase = from
      BY <3>1
    <3> QED BY <3>5, <3>6, Zenon
  <2>3. CASE SlotOf(u) = FreeSlot /\ SlotOf(u)' = [phase |-> "pending", device |-> None]
    <3>1. slot[u].phase = "free" /\ next = [slot EXCEPT ![u].phase = "pending"]
      <4> HIDE DEF slot, next
      <4> QED BY <2>2, <2>3 DEF FreeSlot
    <3> QED BY <2>1, <3>1 DEF Ownership!Next, Ownership!Claim, Ownership!Turn
  <2>4. CASE SlotOf(u) = [phase |-> "pending", device |-> None] /\ SlotOf(u)' = FreeSlot
    <3>1. slot[u].phase = "pending" /\ next = [slot EXCEPT ![u].phase = "free"]
      <4> HIDE DEF slot, next
      <4> QED BY <2>2, <2>4 DEF FreeSlot
    <3> QED BY <2>1, <3>1 DEF Ownership!Next, Ownership!Drop, Ownership!Turn
  <2>5. ASSUME NEW d \in Devices, SlotOf(u).phase \in {"free", "pending"},
               SlotOf(u)' = [phase |-> "held", device |-> d],
               \A v \in Users : SlotOf(v).device # d
        PROVE  Ownership!Next
    <3>1. Ownership!Take(u, d)
      BY <1>1, <1>2, <2>5 DEF Ownership!Take, Ownership!Untaken
    <3> QED BY <2>1, <3>1 DEF Ownership!Next
  <2>6. ASSUME NEW d \in Devices, SlotOf(u) = [phase |-> "held", device |-> d],
               SlotOf(u)' = [phase |-> "releasing", device |-> d]
        PROVE  Ownership!Next
    <3>1. slot[u].phase = "held" /\ next = [slot EXCEPT ![u].phase = "releasing"]
      <4> HIDE DEF slot, next
      <4> QED BY <2>2, <2>6
    <3> QED BY <2>1, <3>1 DEF Ownership!Next, Ownership!StartRelease, Ownership!Turn
  <2>7. ASSUME NEW d \in Devices, SlotOf(u) = [phase |-> "releasing", device |-> d],
               SlotOf(u)' = [phase |-> "held", device |-> d]
        PROVE  Ownership!Next
    <3>1. slot[u].phase = "releasing" /\ next = [slot EXCEPT ![u].phase = "held"]
      <4> HIDE DEF slot, next
      <4> QED BY <2>2, <2>7
    <3> QED BY <2>1, <3>1 DEF Ownership!Next, Ownership!Keep, Ownership!Turn
  <2>8. ASSUME NEW d \in Devices, SlotOf(u) = [phase |-> "releasing", device |-> d],
               SlotOf(u)' = FreeSlot
        PROVE  Ownership!Next
    <3>1. Ownership!Release(u)
      <4>1. slot[u].phase = "releasing" /\ next = [slot EXCEPT ![u] = FreeSlot]
        <5> HIDE DEF slot, next
        <5> QED BY <1>1, <1>2, <2>8
      <4> QED BY <4>1 DEF Ownership!Release, Ownership!Free, FreeSlot
    <3> QED BY <2>1, <3>1 DEF Ownership!Next
  <2> QED BY <1>4, <2>3, <2>4, <2>5, <2>6, <2>7, <2>8 DEF SlotSteps
<1> QED BY <1>3, <1>4

\* What a step does to the rows is a step of the slots, or none.
LEMMA SteadySlots ==
  ASSUME ExclusiveSlots, ExclusiveSlots', Steady, NEW u \in Users
  PROVE  SlotOf(u)' = SlotOf(u)
BY SlotStays DEF Steady

\* Only the slot of the association's user moves.
LEMMA OthersStay ==
  ASSUME ExclusiveSlots, ExclusiveSlots', NEW a \in AssociationIds, NEW u \in Users, OthersSame(a),
         Open(a) => association[a].user = u, Open(a)' => association'[a].user = u
  PROVE  \A v \in Users \ {u} : SlotOf(v)' = SlotOf(v)
BY SlotStays DEF OthersSame

\* A device that no open association holds is in no slot.
LEMMA FreeDevice ==
  ASSUME ExclusiveSlots, NEW d \in Devices, HoldersOf(d) = {}, NEW u \in Users
  PROVE  SlotOf(u).device # d
<1>1. CASE OpenOf(u) = {}
  BY <1>1, SlotOfUser, NoneAssumption DEF FreeSlot
<1>2. ASSUME NEW a \in OpenOf(u) PROVE SlotOf(u).device # d
  <2>1. a \in AssociationIds /\ Open(a) /\ association[a].user = u
    BY <1>2 DEF OpenOf
  <2>2. SlotOf(u).device = association[a].device
    BY <2>1, SlotOfUser DEF SlotFor
  <2> QED BY <2>1, <2>2 DEF HoldersOf
<1> QED BY <1>1, <1>2

LEMMA LinkSlots ==
  ASSUME RowTypes, RowsMatch, ExclusiveSlots, ExclusiveSlots', NEW l \in Links, LinkMoves(l)
  PROVE  Ownership!Next \/ UNCHANGED [v \in Users |-> SlotOf(v)]
<1>0. PICK a \in AssociationIds, u \in Users :
        a = authAction[l].assoc /\ u = association[a].user
  BY DEF LinkMoves, RowsMatch, AuthsMatch, AuthFits, RowsPlaced, Open, Unresolved
<1> DEFINE new == association'[a]
<1>1. /\ Open(a) /\ association[a].user = u /\ association[a].device = None
      /\ association[a].state # "ACTIVE" /\ OthersSame(a) /\ new.user = u
  BY <1>0 DEF LinkMoves, RowsMatch, AuthsMatch, AuthFits, RowsPlaced, Open, Unresolved
<1>2. SlotOf(u) = [phase |-> "pending", device |-> None]
  BY <1>1, SlotOfUser DEF SlotFor, Phase
<1>3. \A v \in Users \ {u} : SlotOf(v)' = SlotOf(v)
  BY <1>1, OthersStay
<1>4. CASE new.state = "UNKNOWN" /\ new.device = None
  <2>1. SlotOf(u)' = SlotFor(a)'
    BY <1>1, <1>4, SlotOfUserNext DEF Open
  <2>2. SlotOf(u)' = SlotOf(u)
    BY <1>2, <1>4, <2>1 DEF SlotFor, Phase
  <2> QED BY <1>1, <1>3, <2>2, SlotStep DEF SlotSteps
<1>5. CASE new.state = "ENDED"
  <2>1. OpenOf(u)' = {}
    BY <1>1, <1>5 DEF OpenOf, Open, OthersSame, ExclusiveSlots
  <2>2. SlotOf(u)' = FreeSlot
    BY <1>1, <2>1, SlotOfUserNext
  <2> QED BY <1>1, <1>2, <1>3, <2>2, SlotStep DEF SlotSteps
<1>6. CASE new.state = "ACTIVE" /\ new.device \in Devices /\ HoldersOf(new.device) \subseteq {a}
  <2>1. SlotOf(u)' = SlotFor(a)'
    BY <1>1, <1>6, SlotOfUserNext DEF Open
  <2>2. SlotOf(u)' = [phase |-> "held", device |-> new.device]
    BY <1>6, <2>1, NoneAssumption DEF SlotFor, Phase
  <2>3. HoldersOf(new.device) = {}
    BY <1>1, <1>6, NoneAssumption DEF HoldersOf
  <2>4. \A v \in Users : SlotOf(v).device # new.device
    BY <1>6, <2>3, FreeDevice
  <2>5. SlotSteps(u)
    BY <1>2, <1>6, <2>2, <2>4 DEF SlotSteps
  <2> QED BY <1>1, <1>3, <2>5, SlotStep
<1> QED BY <1>0, <1>1, <1>4, <1>5, <1>6 DEF LinkMoves

LEMMA RevokeSlots ==
  ASSUME RowTypes, RowsMatch, ExclusiveSlots, ExclusiveSlots', NEW r \in RevokeIds, RevokeMoves(r)
  PROVE  Ownership!Next \/ UNCHANGED [v \in Users |-> SlotOf(v)]
<1>0. PICK a \in AssociationIds, u \in Users, d \in Devices :
        a = revokeAction[r].assoc /\ u = association[a].user /\ d = association[a].device
  BY DEF RevokeMoves, RowsMatch, RevokesMatch, RevokeFits, RowsPlaced, RowTypes, Open, Unresolved
<1> DEFINE new == association'[a]
<1>1. /\ Open(a) /\ association[a].user = u /\ association[a].device = d
      /\ association[a].state # "ACTIVE" /\ OthersSame(a) /\ new.user = u /\ new.device = d
  BY <1>0 DEF RevokeMoves, RowsMatch, RevokesMatch, RevokeFits, RowsPlaced, RowTypes, Open, Unresolved
<1>2. SlotOf(u) = [phase |-> "releasing", device |-> d]
  BY <1>1, SlotOfUser, NoneAssumption DEF SlotFor, Phase
<1>3. \A v \in Users \ {u} : SlotOf(v)' = SlotOf(v)
  BY <1>1, OthersStay
<1>4. CASE new.state \in {"UNKNOWN", "ACTIVE"}
  <2>1. SlotOf(u)' = SlotFor(a)'
    BY <1>1, <1>4, SlotOfUserNext DEF Open
  <2>2. SlotOf(u)' \in {[phase |-> "releasing", device |-> d], [phase |-> "held", device |-> d]}
    BY <1>1, <1>4, <2>1, NoneAssumption DEF SlotFor, Phase
  <2>3. SlotSteps(u)
    BY <1>1, <1>2, <2>2 DEF SlotSteps
  <2> QED BY <1>1, <1>3, <2>3, SlotStep
<1>5. CASE new.state = "ENDED"
  <2>1. OpenOf(u)' = {}
    BY <1>1, <1>5 DEF OpenOf, Open, OthersSame, ExclusiveSlots
  <2>2. SlotOf(u)' = FreeSlot
    BY <1>1, <2>1, SlotOfUserNext
  <2>3. SlotSteps(u)
    BY <1>1, <1>2, <2>2 DEF SlotSteps
  <2> QED BY <1>1, <1>3, <2>3, SlotStep
<1> QED BY <1>0, <1>4, <1>5 DEF RevokeMoves

LEMMA ReserveSlots ==
  ASSUME RowsMatch, ExclusiveSlots, ExclusiveSlots', NEW r \in RevokeIds, NEW a, Reserves(r, a)
  PROVE  Ownership!Next \/ UNCHANGED [v \in Users |-> SlotOf(v)]
<1>0. PICK u \in Users, d \in Devices : u = association[a].user /\ d = association[a].device
  BY DEF Reserves, RowsMatch, RowsPlaced, Open
<1>1. /\ a \in AssociationIds /\ Open(a) /\ association[a].state = "ACTIVE"
      /\ association[a].user = u /\ association[a].device = d
      /\ OthersSame(a) /\ association'[a].user = u /\ association'[a].device = d
      /\ association'[a].state = "PENDING_REVOKE"
  BY <1>0 DEF Reserves, Open
<1>2. SlotOf(u) = [phase |-> "held", device |-> d]
  BY <1>1, SlotOfUser, NoneAssumption DEF SlotFor, Phase
<1>3. \A v \in Users \ {u} : SlotOf(v)' = SlotOf(v)
  BY <1>1, OthersStay
<1>4. SlotOf(u)' = SlotFor(a)'
  BY <1>1, SlotOfUserNext DEF Open
<1>5. SlotOf(u)' = [phase |-> "releasing", device |-> d]
  BY <1>1, <1>4, NoneAssumption DEF SlotFor, Phase
<1>6. SlotSteps(u)
  BY <1>1, <1>2, <1>5 DEF SlotSteps
<1> QED BY <1>1, <1>3, <1>6, SlotStep

LEMMA CreateSlots ==
  ASSUME RowTypes, FreshRows, ExclusiveSlots, ExclusiveSlots', NEW u \in Users, Creates(u)
  PROVE  Ownership!Next \/ UNCHANGED [v \in Users |-> SlotOf(v)]
<1>0. PICK n \in AssociationIds : n = nextAssociation
  BY DEF Creates
<1> DEFINE new == association'[n]
<1>1. /\ ~Open(n) /\ OthersSame(n) /\ new.user = u /\ OpenOf(u) = {}
      /\ Open(n)'
  BY <1>0 DEF Creates, FreshRows, RowTypes, Open, AssociationIds
<1>2. SlotOf(u) = FreeSlot /\ SlotOf(u)' = SlotFor(n)'
  BY <1>1, SlotOfUser, SlotOfUserNext
<1>3. \A v \in Users \ {u} : SlotOf(v)' = SlotOf(v)
  BY <1>1, OthersStay
<1>4. CASE new.state = "ACTIVE" /\ new.device \in Devices /\ HoldersOf(new.device) = {}
  <2>1. SlotOf(u)' = [phase |-> "held", device |-> new.device]
    BY <1>2, <1>4, NoneAssumption DEF SlotFor, Phase
  <2>2. \A v \in Users : SlotOf(v).device # new.device
    BY <1>4, FreeDevice
  <2>3. SlotSteps(u)
    BY <1>2, <1>4, <2>1, <2>2 DEF SlotSteps, FreeSlot
  <2> QED BY <1>3, <2>3, SlotStep
<1>5. CASE new.state = "PENDING_AUTH" /\ new.device = None
  <2>1. SlotOf(u)' = [phase |-> "pending", device |-> None]
    BY <1>2, <1>5 DEF SlotFor, Phase
  <2>2. SlotSteps(u)
    BY <1>2, <2>1 DEF SlotSteps
  <2> QED BY <1>3, <2>2, SlotStep
<1> QED BY <1>0, <1>4, <1>5 DEF Creates

LEMMA RowStepSlots ==
  ASSUME TypeInv, RowsMatch, FreshRows, ExclusiveSlots, ExclusiveSlots', RowStep
  PROVE  Ownership!Next \/ UNCHANGED [v \in Users |-> SlotOf(v)]
<1>1. CASE Steady
  BY <1>1, SteadySlots
<1> QED BY <1>1, RowsTyped, LinkSlots, RevokeSlots, ReserveSlots, CreateSlots DEF RowStep

-----------------------------------------------------------------------------
(* The calls. *)

\* The calls that work on an action have worked on it before, and it is not settled
\* against them.
CallsGoOn ==
  \A p \in Processes :
    /\ call'[p].step \in AuthPlaces =>
         /\ call[p].step \in AuthPlaces /\ call'[p].link = call[p].link
         /\ authAction'[call[p].link].status \in Unresolved
    /\ call'[p].step \in RevokePlaces =>
         LET act == revokeAction[call[p].revoke]
             new == revokeAction'[call[p].revoke]
         IN  /\ call[p].step \in RevokePlaces /\ call'[p].revoke = call[p].revoke
             /\ call'[p].reason = call[p].reason
             /\ new.status # "FAILED" /\ new.reason = act.reason
             /\ act.attempt = 1 => new.attempt = 1

LEMMA GoOnOwn ==
  ASSUME CallsOwn, CallsGoOn
  PROVE  CallsOwn'
<1>1. ASSUME NEW p \in Processes
      PROVE  /\ call'[p].step \in AuthPlaces => authAction'[call'[p].link].status \in Unresolved
             /\ call'[p].step \in RevokePlaces =>
                  /\ revokeAction'[call'[p].revoke].status # "FAILED"
                  /\ call'[p].reason = revokeAction'[call'[p].revoke].reason
                  /\ call'[p].reason = "QUOTA" => p \in Schedulers
  BY DEF CallsOwn, CallsGoOn
<1>2. ASSUME NEW p \in Processes, NEW q \in Processes, p # q
      PROVE  /\ call'[p].step \in AuthPlaces /\ call'[q].step \in AuthPlaces =>
                  call'[p].link # call'[q].link
             /\ call'[p].step \in RevokePlaces /\ call'[q].step \in RevokePlaces
                  /\ call'[p].revoke = call'[q].revoke =>
                    revokeAction'[call'[p].revoke].attempt = 1
  BY <1>2 DEF CallsOwn, CallsGoOn
<1> QED BY <1>1, <1>2 DEF CallsOwn, Unresolved

\* A call that moves on among the steps of its kind, or ends.
LEMMA MoveGoesOn ==
  ASSUME NEW p \in Processes, NEW step \in Steps, TypeOK, CallsOwn, Move(p, step),
         step \in AuthPlaces => call[p].step \in AuthPlaces,
         step \in RevokePlaces => call[p].step \in RevokePlaces,
         UNCHANGED <<authAction, revokeAction>>
  PROVE  CallsGoOn
<1>1. /\ \A q \in Processes \ {p} : call'[q] = call[q]
      /\ call'[p].step = step /\ call'[p].link = call[p].link
      /\ call'[p].revoke = call[p].revoke /\ call'[p].reason = call[p].reason
  BY MoveType
<1> QED BY <1>1 DEF CallsGoOn, CallsOwn

LEMMA ReturnGoesOn ==
  ASSUME NEW p \in Processes, TypeOK, CallsOwn, Return(p),
         \A q \in Processes \ {p} :
           /\ call[q].step \in AuthPlaces => authAction'[call[q].link].status \in Unresolved
           /\ call[q].step \in RevokePlaces =>
                LET act == revokeAction[call[q].revoke]
                    new == revokeAction'[call[q].revoke]
                IN  /\ new.status # "FAILED" /\ new.reason = act.reason
                    /\ act.attempt = 1 => new.attempt = 1
  PROVE  CallsGoOn
<1>1. /\ \A q \in Processes \ {p} : call'[q] = call[q]
      /\ call'[p].step = "idle"
  BY DEF Return, Idle, TypeOK
<1> QED BY <1>1 DEF CallsGoOn, AuthPlaces, RevokePlaces

LEMMA DatabaseSteady ==
  ASSUME UNCHANGED <<association, authAction, revokeAction, nextAssociation>>
  PROVE  RowStep
BY DEF RowStep, Steady

\* A step that leaves the database alone.
LEMMA MoveMatches ==
  ASSUME NEW p \in Processes, NEW step \in Steps, TypeOK, CallsOwn, Move(p, step),
         step \in AuthPlaces => call[p].step \in AuthPlaces,
         step \in RevokePlaces => call[p].step \in RevokePlaces,
         UNCHANGED database
  PROVE  RowStep /\ CallsOwn'
BY MoveGoesOn, GoOnOwn, DatabaseSteady DEF database

LEMMA ReturnMatches ==
  ASSUME NEW p \in Processes, TypeOK, CallsOwn, Return(p), UNCHANGED database
  PROVE  RowStep /\ CallsOwn'
<1>1. CallsGoOn
  BY ReturnGoesOn DEF database, CallsOwn
<1> QED BY <1>1, GoOnOwn, DatabaseSteady DEF database

LEMMA CallMatches ==
  ASSUME NEW p \in Processes, TypeInv, CallsOwn,
         \/ AuthGiveUp(p) \/ SendApprove(p) \/ ApproveRaises(p) \/ FinalizeApprovalFails(p)
         \/ AdminList(p) \/ AdminReject(p) \/ ArmRevokeFails(p) \/ SendRevoke(p)
         \/ RevokeRaises(p) \/ FinalizeRevokeFails(p) \/ ReconcileList(p)
         \/ ReconcileListFails(p) \/ RecordFails(p)
  PROVE  RowStep /\ CallsOwn'
<1>1. TypeOK
  BY DEF TypeInv
<1>2. CASE AuthGiveUp(p) \/ SendApprove(p) \/ ApproveRaises(p)
  <2>1. PICK step \in AuthPlaces : Move(p, step) /\ UNCHANGED database
    BY <1>2 DEF AuthGiveUp, SendApprove, ApproveRaises, AuthPlaces
  <2>2. call[p].step \in AuthPlaces /\ step \in Steps /\ step \notin RevokePlaces
    BY <1>2 DEF AuthGiveUp, SendApprove, ApproveRaises, AuthPlaces, RevokePlaces, Steps
  <2> QED BY <1>1, <2>1, <2>2, MoveMatches
<1>3. CASE \/ ArmRevokeFails(p) \/ SendRevoke(p) \/ RevokeRaises(p) \/ FinalizeRevokeFails(p)
           \/ ReconcileList(p) \/ ReconcileListFails(p)
  <2>0. UNCHANGED database
    BY <1>3 DEF ArmRevokeFails, SendRevoke, RevokeRaises, FinalizeRevokeFails, ReconcileList,
                ReconcileListFails
  <2>1. PICK step \in RevokePlaces : Move(p, step)
    <3>1. Move(p, "revoking") \/ Move(p, "confirmed") \/ Move(p, "markUnknown")
      BY <1>3 DEF ArmRevokeFails, SendRevoke, RevokeRaises, FinalizeRevokeFails, ReconcileList,
                  ReconcileListFails
    <3> QED BY <3>1 DEF RevokePlaces
  <2>2. call[p].step \in RevokePlaces
    BY <1>3 DEF ArmRevokeFails, SendRevoke, RevokeRaises, FinalizeRevokeFails, ReconcileList,
                ReconcileListFails, Confirmed, RevokePlaces
  <2>3. step \in Steps /\ step \notin AuthPlaces
    BY DEF AuthPlaces, RevokePlaces, Steps
  <2> QED BY <1>1, <2>0, <2>1, <2>2, <2>3, MoveMatches
<1>4. CASE AdminReject(p) \/ RecordFails(p) \/ AdminList(p)
  <2>1. (Return(p) \/ Move(p, "adminCommit")) /\ UNCHANGED database
    BY <1>4 DEF AdminReject, RecordFails, AdminList
  <2>2. "adminCommit" \in Steps \ (AuthPlaces \cup RevokePlaces)
    BY DEF AuthPlaces, RevokePlaces, Steps
  <2> QED BY <1>1, <2>1, <2>2, MoveMatches, ReturnMatches
<1>5. CASE FinalizeApprovalFails(p)
  <2>1. /\ call[p].step \in AuthPlaces
        /\ call' = [call EXCEPT ![p].step = "authFailed", ![p].device = granted[call[p].link]]
        /\ UNCHANGED database
    BY <1>5 DEF FinalizeApprovalFails, AuthPlaces
  <2>2. call \in [Processes -> Call]
    BY <1>1 DEF TypeOK
  <2>3. /\ \A q \in Processes \ {p} : call'[q] = call[q]
        /\ call'[p].step = "authFailed" /\ call'[p].link = call[p].link
    BY <2>1, <2>2 DEF Call
  <2>4. CallsGoOn
    BY <2>1, <2>3 DEF CallsGoOn, CallsOwn, database, AuthPlaces, RevokePlaces
  <2> QED BY <2>1, <2>4, GoOnOwn, DatabaseSteady DEF database
<1> QED BY <1>2, <1>3, <1>4, <1>5

LEMMA OutsideMatches ==
  ASSUME TypeInv, CallsOwn,
         \/ \E p \in Requests, u \in Users, d \in Devices : AdminQualify(p, u, d)
         \/ Platform \/ Restart \/ UNCHANGED vars
  PROVE  RowStep /\ CallsOwn'
<1>1. UNCHANGED database
  BY DEF AdminQualify, Platform, RemoteApprove, RemoteDeny, RemoteRevoke, ConsoleRevoke,
         Restart, vars
<1>2. \A q \in Processes :
        call'[q] = call[q] \/ call'[q].step \notin AuthPlaces \cup RevokePlaces
  <2>1. CASE Platform \/ UNCHANGED vars
    BY <2>1 DEF Platform, RemoteApprove, RemoteDeny, RemoteRevoke, ConsoleRevoke, vars
  <2>2. CASE Restart
    BY <2>2 DEF Restart, Idle, AuthPlaces, RevokePlaces
  <2>3. ASSUME NEW p \in Requests, NEW u \in Users, NEW d \in Devices, AdminQualify(p, u, d),
               NEW q \in Processes
        PROVE  call'[q] = call[q] \/ call'[q].step \notin AuthPlaces \cup RevokePlaces
    <3>1. call'[q] = call[q] \/ call'[q].step = "adminList"
      BY <2>3 DEF AdminQualify, Idle, TypeInv, TypeOK
    <3> QED BY <3>1 DEF AuthPlaces, RevokePlaces
  <2> QED BY <2>1, <2>2, <2>3
<1>3. CallsGoOn
  BY <1>1, <1>2 DEF CallsGoOn, CallsOwn, database
<1> QED BY <1>1, <1>3, GoOnOwn, DatabaseSteady DEF database

-----------------------------------------------------------------------------
(* The steps that write rows. *)

LEMMA MarkAuthMoves ==
  ASSUME NEW l \in Links, TypeOK, RowsMatch, authAction[l].status \in Unresolved,
         MarkAuthFailed(l) \/ \E target : MarkAuthUnknown(l, target),
         UNCHANGED <<revokeAction, nextAssociation>>
  PROVE  /\ LinkMoves(l)
         /\ \A target : MarkAuthUnknown(l, target) => authAction'[l].status \in Unresolved
<1> DEFINE a == authAction[l].assoc
<1>1. authAction[l] \in AuthRow /\ a \in AssociationIds
  BY DEF TypeOK, NoAuth, AuthRow, Unresolved
<1>2. Open(a)
  BY DEF RowsMatch, AuthsMatch, AuthFits, Open, Unresolved
<1>3. /\ association \in [AssociationIds -> AssociationRow]
      /\ authAction \in [Links -> AuthRow \cup {NoAuth}]
  BY DEF TypeOK
<1>4. ASSUME MarkAuthFailed(l) PROVE LinkMoves(l)
  <2>1. /\ association' = [association EXCEPT ![a].state = "ENDED", ![a].reason = "AUTH_FAILED"]
        /\ authAction' = [authAction EXCEPT ![l].status = "FAILED"]
    BY <1>2, <1>4 DEF MarkAuthFailed, Ended
  <2>2. /\ OthersSame(a) /\ association'[a].user = association[a].user
        /\ association'[a].device = association[a].device /\ association'[a].state = "ENDED"
    BY <1>1, <1>3, <2>1 DEF OthersSame, AssociationRow
  <2>3. /\ \A k \in Links \ {l} : authAction'[k] = authAction[k]
        /\ authAction'[l].assoc = a /\ authAction'[l].status = "FAILED"
    BY <1>1, <1>3, <2>1 DEF AuthRow
  <2> QED BY <1>1, <2>2, <2>3 DEF LinkMoves
<1>5. ASSUME NEW target, MarkAuthUnknown(l, target)
      PROVE  LinkMoves(l) /\ authAction'[l].status \in Unresolved
  <2>1. /\ association' = [association EXCEPT ![a].state = "UNKNOWN"]
        /\ authAction' = [authAction EXCEPT ![l].status = "UNKNOWN", ![l].target = target]
    BY <1>2, <1>5 DEF MarkAuthUnknown, Doubted
  <2>2. /\ OthersSame(a) /\ association'[a].user = association[a].user
        /\ association'[a].device = association[a].device /\ association'[a].state = "UNKNOWN"
        /\ association'[a].reason = association[a].reason
    BY <1>1, <1>3, <2>1 DEF OthersSame, AssociationRow
  <2>3. /\ \A k \in Links \ {l} : authAction'[k] = authAction[k]
        /\ authAction'[l].assoc = a /\ authAction'[l].status = "UNKNOWN"
    BY <1>1, <1>3, <2>1 DEF AuthRow
  <2> QED BY <1>1, <2>2, <2>3 DEF LinkMoves, Unresolved
<1> QED BY <1>4, <1>5

LEMMA MarkRevokeMoves ==
  ASSUME NEW r \in RevokeIds, TypeOK, RowsMatch, revokeAction[r].status \in Unresolved,
         MarkRevokeUnknown(r) \/ Withdraw(r),
         UNCHANGED <<authAction, nextAssociation>>
  PROVE  /\ RevokeMoves(r)
         /\ \A k \in RevokeIds : /\ revokeAction'[k].reason = revokeAction[k].reason
                                 /\ revokeAction'[k].attempt = revokeAction[k].attempt
                                 /\ k # r => revokeAction'[k] = revokeAction[k]
         /\ MarkRevokeUnknown(r) => revokeAction'[r].status # "FAILED"
<1> DEFINE a == revokeAction[r].assoc
<1>1. revokeAction[r] \in RevokeRow /\ a \in AssociationIds
  BY RevokeRowComplete DEF RevokeRow
<1>2. Open(a)
  BY DEF RowsMatch, RevokesMatch, RevokeFits, Open, Unresolved
<1>3. /\ association \in [AssociationIds -> AssociationRow]
      /\ revokeAction \in [RevokeIds -> RevokeRow \cup {NoRevoke}]
  BY DEF TypeOK
<1>4. ASSUME NEW status, revokeAction' = [revokeAction EXCEPT ![r].status = status]
      PROVE  /\ \A k \in RevokeIds \ {r} : revokeAction'[k] = revokeAction[k]
             /\ revokeAction'[r].status = status /\ revokeAction'[r].assoc = a
             /\ revokeAction'[r].target = revokeAction[r].target
             /\ revokeAction'[r].reason = revokeAction[r].reason
             /\ revokeAction'[r].attempt = revokeAction[r].attempt
  BY <1>1, <1>3, <1>4 DEF RevokeRow
<1>5. CASE MarkRevokeUnknown(r)
  <2>1. /\ association' = [association EXCEPT ![a].state = "UNKNOWN"]
        /\ revokeAction' = [revokeAction EXCEPT ![r].status = "UNKNOWN"]
    BY <1>2, <1>5 DEF MarkRevokeUnknown, Doubted
  <2>2. /\ OthersSame(a) /\ association'[a].user = association[a].user
        /\ association'[a].device = association[a].device /\ association'[a].state = "UNKNOWN"
        /\ association'[a].reason = association[a].reason
    BY <1>1, <1>3, <2>1 DEF OthersSame, AssociationRow
  <2> QED BY <1>1, <1>4, <2>1, <2>2 DEF RevokeMoves
<1>6. CASE Withdraw(r)
  <2>1. /\ association' = [association EXCEPT ![a].state = "ACTIVE", ![a].reason = None]
        /\ revokeAction' = [revokeAction EXCEPT ![r].status = "FAILED"]
    BY <1>6 DEF Withdraw
  <2>2. /\ OthersSame(a) /\ association'[a].user = association[a].user
        /\ association'[a].device = association[a].device /\ association'[a].state = "ACTIVE"
        /\ association'[a].reason = None
    BY <1>1, <1>3, <2>1 DEF OthersSame, AssociationRow
  <2>3. RevokeMoves(r)
    BY <1>1, <1>4, <2>1, <2>2 DEF RevokeMoves
  <2>4. ASSUME MarkRevokeUnknown(r) PROVE FALSE
    <3>1. revokeAction' = [revokeAction EXCEPT ![r].status = "UNKNOWN"]
      BY <2>4 DEF MarkRevokeUnknown
    <3>2. revokeAction'[r].status = "UNKNOWN" /\ revokeAction'[r].status = "FAILED"
      BY <1>4, <2>1, <3>1
    <3> QED BY <3>2
  <2> QED BY <1>4, <2>1, <2>3, <2>4
<1> QED BY <1>5, <1>6

\* A call that records the outcome of its link.
LEMMA AuthOutcomeMatches ==
  ASSUME NEW p \in Processes, TypeInv, MatchInv,
         \/ AuthAbort(p) \/ ApproveDenied(p) \/ ApprovalConflict(p) \/ RecordAuthUnknown(p)
  PROVE  RowStep /\ CallsOwn'
<1> DEFINE l == call[p].link
<1>1. /\ TypeOK /\ RowsMatch /\ CallsOwn /\ call[p].step \in AuthPlaces /\ l \in Links
      /\ Return(p) /\ UNCHANGED <<revokeAction, nextAssociation>>
  BY DEF TypeInv, CallNamesRows, MatchInv, AuthAbort, ApproveDenied, ApprovalConflict,
         RecordAuthUnknown, AuthPlaces
<1>2. authAction[l].status \in Unresolved
  BY <1>1 DEF CallsOwn
<1>3. \/ UNCHANGED <<authAction, association>>
      \/ MarkAuthFailed(l) \/ \E target : MarkAuthUnknown(l, target)
  BY DEF AuthAbort, ApproveDenied, ApprovalConflict, RecordAuthUnknown
<1>4. CASE UNCHANGED <<authAction, association>>
  <2>1. CallsGoOn
    BY <1>1, <1>4, ReturnGoesOn DEF CallsOwn
  <2> QED BY <1>1, <1>4, <2>1, GoOnOwn, DatabaseSteady
<1>5. CASE MarkAuthFailed(l) \/ \E target : MarkAuthUnknown(l, target)
  <2>1. LinkMoves(l)
    BY <1>1, <1>2, <1>5, MarkAuthMoves
  <2>2. \A q \in Processes \ {p} : call[q].step \in AuthPlaces =>
          /\ call[q].link \in Links \ {l} /\ authAction[call[q].link].status \in Unresolved
    BY <1>1 DEF CallsOwn, TypeInv, CallNamesRows
  <2>3. CallsGoOn
    BY <1>1, <2>1, <2>2, ReturnGoesOn, SMTT(15), ZenonT(40) DEF CallsOwn, LinkMoves
  <2> QED BY <1>1, <2>1, <2>3, GoOnOwn DEF RowStep
<1> QED BY <1>3, <1>4, <1>5

LEMMA AuthReplayMatches ==
  ASSUME NEW l \in Links, TypeInv, MatchInv, AuthReplay(l)
  PROVE  RowStep /\ CallsOwn'
<1>1. /\ TypeOK /\ RowsMatch /\ CallsOwn /\ UNCHANGED <<revokeAction, nextAssociation, call>>
      /\ authAction[l].status \in Unresolved /\ \E target : MarkAuthUnknown(l, target)
  BY DEF TypeInv, MatchInv, AuthReplay, Unresolved
<1>2. LinkMoves(l) /\ authAction'[l].status \in Unresolved
  BY <1>1, MarkAuthMoves
<1>3. CallsGoOn
  BY <1>1, <1>2 DEF CallsGoOn, CallsOwn, LinkMoves, TypeInv, CallNamesRows
<1> QED BY <1>1, <1>2, <1>3, GoOnOwn DEF RowStep

LEMMA AuthArmMatches ==
  ASSUME NEW p \in Processes, TypeInv, MatchInv, AuthArm(p)
  PROVE  RowStep /\ CallsOwn'
<1> DEFINE l == call[p].link
<1>1. /\ TypeOK /\ CallsOwn /\ call[p].step \in AuthPlaces /\ l \in Links
      /\ authAction[l] \in AuthRow /\ Move(p, "approve")
      /\ UNCHANGED <<association, revokeAction, nextAssociation>>
      /\ authAction' = [authAction EXCEPT ![l].attempt = 1]
  BY DEF TypeInv, CallNamesRows, MatchInv, AuthArm, AuthPlaces
<1>2. \A k \in Links : /\ authAction'[k].status = authAction[k].status
                       /\ authAction'[k].assoc = authAction[k].assoc
  BY <1>1 DEF TypeOK, AuthRow
<1>3. /\ \A q \in Processes \ {p} : call'[q] = call[q]
      /\ call'[p].step = "approve" /\ call'[p].link = l
  BY <1>1, MoveType DEF Steps
<1>4. CallsGoOn
  BY <1>1, <1>2, <1>3 DEF CallsGoOn, CallsOwn, TypeInv, CallNamesRows, AuthPlaces, RevokePlaces
<1> QED BY <1>1, <1>2, <1>4, GoOnOwn DEF RowStep, Steady

LEMMA FinalizeApprovalMatches ==
  ASSUME NEW p \in Processes, TypeInv, MatchInv, FinalizeApproval(p)
  PROVE  RowStep /\ CallsOwn'
<1> DEFINE l == call[p].link
           a == authAction[l].assoc
           d == granted[l]
<1>1. /\ TypeOK /\ RowsMatch /\ CallsOwn /\ call[p].step \in AuthPlaces /\ l \in Links
      /\ authAction[l] \in AuthRow /\ d \in Devices /\ Return(p)
      /\ UNCHANGED <<revokeAction, nextAssociation>>
      /\ association' = [association EXCEPT ![a].state = "ACTIVE", ![a].device = d]
      /\ authAction' = [authAction EXCEPT ![l].status = "SUCCEEDED", ![l].target = d]
  BY DEF TypeInv, CallNamesRows, MatchInv, FinalizeApproval, AuthPlaces, GrantNamesDevice
<1>2. a \in AssociationIds /\ authAction[l].status \in Unresolved /\ HoldersOf(d) \subseteq {a}
  BY <1>1 DEF AuthRow, FinalizeApproval, Conflict
<1>3. /\ OthersSame(a) /\ association'[a].user = association[a].user
      /\ association'[a].device = d /\ association'[a].state = "ACTIVE"
      /\ association'[a].reason = association[a].reason
  BY <1>1, <1>2, SMTT(15), ZenonT(40) DEF OthersSame, TypeOK, AssociationRow
<1>4. /\ \A k \in Links \ {l} : authAction'[k] = authAction[k]
      /\ authAction'[l].assoc = a /\ authAction'[l].status = "SUCCEEDED"
  BY <1>1 DEF TypeOK, AuthRow
<1>5. LinkMoves(l)
  BY <1>1, <1>2, <1>3, <1>4 DEF LinkMoves
<1>6. \A q \in Processes \ {p} : call[q].step \in AuthPlaces =>
        /\ call[q].link \in Links \ {l} /\ authAction[call[q].link].status \in Unresolved
  BY <1>1 DEF CallsOwn, TypeInv, CallNamesRows
<1>7. CallsGoOn
  BY <1>1, <1>4, <1>6, ReturnGoesOn DEF CallsOwn
<1> QED BY <1>1, <1>5, <1>7, GoOnOwn DEF RowStep

\* What a step may do to the REVOKE actions that the calls Q work on.
RevokesGoOn(Q) ==
  \A q \in Q : call[q].step \in RevokePlaces =>
    LET act == revokeAction[call[q].revoke]
        new == revokeAction'[call[q].revoke]
    IN  /\ new.status # "FAILED" /\ new.reason = act.reason
        /\ act.attempt = 1 => new.attempt = 1

LEMMA RevokeReturnGoesOn ==
  ASSUME NEW p \in Processes, TypeOK, CallsOwn, Return(p), UNCHANGED authAction,
         RevokesGoOn(Processes \ {p})
  PROVE  CallsOwn'
<1>1. CallsGoOn
  BY ReturnGoesOn DEF CallsOwn, RevokesGoOn
<1> QED BY <1>1, GoOnOwn

\* The doubt about a revocation leaves the other calls their action.
LEMMA DoubtGoesOn ==
  ASSUME NEW r \in RevokeIds, TypeInv, MatchInv, revokeAction[r].status \in Unresolved,
         MarkRevokeUnknown(r), UNCHANGED <<authAction, nextAssociation>>
  PROVE  RowStep /\ RevokesGoOn(Processes)
<1>1. TypeOK /\ RowsMatch /\ CallsOwn
  BY DEF TypeInv, MatchInv
<1>2. /\ RevokeMoves(r) /\ revokeAction'[r].status # "FAILED"
      /\ \A k \in RevokeIds : /\ revokeAction'[k].reason = revokeAction[k].reason
                              /\ revokeAction'[k].attempt = revokeAction[k].attempt
                              /\ k # r => revokeAction'[k] = revokeAction[k]
  BY <1>1, MarkRevokeMoves
<1>3. RevokesGoOn(Processes)
  BY <1>1, <1>2 DEF RevokesGoOn, CallsOwn, TypeInv, CallNamesRows
<1> QED BY <1>2, <1>3 DEF RowStep

\* A withdrawn revocation is nobody else's.
LEMMA WithdrawGoesOn ==
  ASSUME NEW Q \in SUBSET Processes, NEW r \in RevokeIds, TypeInv, MatchInv, Unarmed(r), Withdraw(r),
         UNCHANGED <<authAction, nextAssociation>>,
         \A q \in Q : call[q].step \in RevokePlaces => call[q].revoke # r
  PROVE  RowStep /\ RevokesGoOn(Q)
<1>1. TypeOK /\ RowsMatch /\ CallsOwn /\ revokeAction[r].status \in Unresolved
  BY DEF TypeInv, MatchInv, Unarmed, Unresolved
<1>2. /\ RevokeMoves(r)
      /\ \A k \in RevokeIds : k # r => revokeAction'[k] = revokeAction[k]
  BY <1>1, MarkRevokeMoves
<1>3. RevokesGoOn(Q)
  BY <1>1, <1>2 DEF RevokesGoOn, CallsOwn, TypeInv, CallNamesRows
<1> QED BY <1>2, <1>3 DEF RowStep

LEMMA RevokeOutcomeMatches ==
  ASSUME NEW p \in Processes, TypeInv, MatchInv,
         ArmRevokeWithdraw(p) \/ MarkUnknown(p) \/ (ArmRevoke(p) /\ ~Unarmed(call[p].revoke))
  PROVE  RowStep /\ CallsOwn'
<1> DEFINE r == call[p].revoke
<1>1. /\ TypeOK /\ CallsOwn /\ call[p].step \in RevokePlaces /\ r \in RevokeIds
      /\ revokeAction[r] \in RevokeRow /\ revokeAction[r].status # "FAILED"
      /\ Return(p) /\ UNCHANGED <<authAction, nextAssociation>>
  BY DEF TypeInv, CallNamesRows, MatchInv, CallsOwn, ArmRevokeWithdraw, MarkUnknown, ArmRevoke,
         RevokePlaces
<1>2. \/ UNCHANGED <<revokeAction, association>>
      \/ MarkRevokeUnknown(r) /\ revokeAction[r].status \in Unresolved
      \/ Withdraw(r) /\ Unarmed(r)
  BY <1>1 DEF ArmRevokeWithdraw, MarkUnknown, ArmRevoke, RevokeRow, Statuses, Unresolved
<1>3. CASE UNCHANGED <<revokeAction, association>>
  <2>1. RevokesGoOn(Processes \ {p})
    BY <1>1, <1>3 DEF RevokesGoOn, CallsOwn
  <2> QED BY <1>1, <1>3, <2>1, RevokeReturnGoesOn, DatabaseSteady
<1>4. CASE MarkRevokeUnknown(r) /\ revokeAction[r].status \in Unresolved
  <2>1. RowStep /\ RevokesGoOn(Processes)
    BY <1>1, <1>4, DoubtGoesOn
  <2>2. RevokesGoOn(Processes \ {p})
    BY <2>1 DEF RevokesGoOn
  <2> QED BY <1>1, <2>1, <2>2, RevokeReturnGoesOn
<1>5. CASE Withdraw(r) /\ Unarmed(r)
  <2>1. \A q \in Processes \ {p} : call[q].step \in RevokePlaces => call[q].revoke # r
    BY <1>1, <1>5 DEF CallsOwn, Unarmed
  <2> QED BY <1>1, <1>5, <2>1, WithdrawGoesOn, RevokeReturnGoesOn
<1> QED BY <1>2, <1>3, <1>4, <1>5

LEMMA RevokeReplayMatches ==
  ASSUME NEW a \in AssociationIds, TypeInv, MatchInv, RevokeReplay(a)
  PROVE  RowStep /\ CallsOwn'
<1>1. PICK r \in RevokeIds :
        /\ revokeAction[r].status \in Unresolved /\ MarkRevokeUnknown(r)
        /\ UNCHANGED <<authAction, nextAssociation, call>>
  BY DEF RevokeReplay, RevokesOf, Unresolved
<1>2. RowStep /\ RevokesGoOn(Processes)
  BY <1>1, DoubtGoesOn
<1>3. CallsGoOn
  BY <1>1, <1>2 DEF CallsGoOn, RevokesGoOn, MatchInv, CallsOwn
<1> QED BY <1>2, <1>3, GoOnOwn DEF MatchInv

LEMMA QuotaWithdrawMatches ==
  ASSUME NEW p \in Schedulers, NEW r \in RevokeIds, TypeInv, MatchInv, QuotaWithdraw(p, r)
  PROVE  RowStep /\ CallsOwn'
<1>1. /\ Unarmed(r) /\ Withdraw(r) /\ UNCHANGED <<authAction, nextAssociation, call>>
      /\ call[p] = Idle /\ association[revokeAction[r].assoc].reason = "QUOTA"
  BY DEF QuotaWithdraw, Resumable
<1>2. revokeAction[r].reason = "QUOTA"
  BY <1>1 DEF MatchInv, RowsMatch, RevokesMatch, RevokeFits, Unarmed, Unresolved
<1>3. call[p].step \notin RevokePlaces
  BY <1>1 DEF Idle, RevokePlaces
<1>4. \A q \in Processes : call[q].step \in RevokePlaces => call[q].revoke # r
  BY <1>2, <1>3, ProcessAssumption DEF MatchInv, CallsOwn
<1>5. RowStep /\ RevokesGoOn(Processes)
  BY <1>1, <1>4, WithdrawGoesOn
<1>6. CallsGoOn
  BY <1>1, <1>5 DEF CallsGoOn, RevokesGoOn, MatchInv, CallsOwn
<1> QED BY <1>5, <1>6, GoOnOwn DEF MatchInv

LEMMA ArmRevokeMatches ==
  ASSUME NEW p \in Processes, TypeInv, MatchInv, ArmRevoke(p), Unarmed(call[p].revoke)
  PROVE  RowStep /\ CallsOwn'
<1> DEFINE r == call[p].revoke
<1>1. /\ TypeOK /\ CallsOwn /\ call[p].step \in RevokePlaces /\ r \in RevokeIds
      /\ revokeAction[r] \in RevokeRow /\ Move(p, "revoke")
      /\ UNCHANGED <<association, authAction, nextAssociation>>
      /\ revokeAction' = [revokeAction EXCEPT ![r].attempt = 1]
  BY DEF TypeInv, CallNamesRows, MatchInv, ArmRevoke, RevokePlaces
<1>2. \A k \in RevokeIds : /\ revokeAction'[k].status = revokeAction[k].status
                           /\ revokeAction'[k].assoc = revokeAction[k].assoc
                           /\ revokeAction'[k].target = revokeAction[k].target
                           /\ revokeAction'[k].reason = revokeAction[k].reason
                           /\ revokeAction[k].attempt = 1 => revokeAction'[k].attempt = 1
  BY <1>1 DEF TypeOK, RevokeRow
<1>3. /\ \A q \in Processes \ {p} : call'[q] = call[q]
      /\ call'[p].step = "revoke" /\ call'[p].revoke = r /\ call'[p].reason = call[p].reason
  BY <1>1, MoveType DEF Steps
<1>4. CallsGoOn
  BY <1>1, <1>2, <1>3 DEF CallsGoOn, CallsOwn, TypeInv, CallNamesRows, AuthPlaces, RevokePlaces
<1> QED BY <1>1, <1>2, <1>4, GoOnOwn DEF RowStep, Steady

LEMMA FinalizeRevokeMatches ==
  ASSUME NEW p \in Processes, TypeInv, MatchInv, FinalizeRevoke(p)
  PROVE  RowStep /\ CallsOwn'
<1> DEFINE r == call[p].revoke
           a == revokeAction[r].assoc
<1>1. /\ TypeOK /\ CallsOwn /\ call[p].step \in RevokePlaces /\ r \in RevokeIds
      /\ revokeAction[r] \in RevokeRow /\ revokeAction[r].status # "FAILED"
      /\ call[p].reason = revokeAction[r].reason
      /\ Return(p) /\ UNCHANGED <<authAction, nextAssociation>>
  BY DEF TypeInv, CallNamesRows, MatchInv, CallsOwn, FinalizeRevoke, Confirmed, RevokePlaces
<1>2. \/ UNCHANGED <<revokeAction, association>>
      \/ MarkRevokeUnknown(r) /\ revokeAction[r].status \in Unresolved
      \/ /\ revokeAction[r].status \in Unresolved
         /\ association' = [association EXCEPT ![a].state = "ENDED", ![a].reason = call[p].reason]
         /\ revokeAction' = [revokeAction EXCEPT ![r].status = "SUCCEEDED"]
  BY <1>1 DEF FinalizeRevoke, RevokeRow, Statuses, Unresolved
<1>3. CASE UNCHANGED <<revokeAction, association>>
  <2>1. RevokesGoOn(Processes \ {p})
    BY <1>1, <1>3 DEF RevokesGoOn, CallsOwn
  <2> QED BY <1>1, <1>3, <2>1, RevokeReturnGoesOn, DatabaseSteady
<1>4. CASE MarkRevokeUnknown(r) /\ revokeAction[r].status \in Unresolved
  <2>1. RowStep /\ RevokesGoOn(Processes)
    BY <1>1, <1>4, DoubtGoesOn
  <2>2. RevokesGoOn(Processes \ {p})
    BY <2>1 DEF RevokesGoOn
  <2> QED BY <1>1, <2>1, <2>2, RevokeReturnGoesOn
<1>5. ASSUME revokeAction[r].status \in Unresolved,
             association' = [association EXCEPT ![a].state = "ENDED", ![a].reason = call[p].reason],
             revokeAction' = [revokeAction EXCEPT ![r].status = "SUCCEEDED"]
      PROVE  RowStep /\ CallsOwn'
  <2>1. a \in AssociationIds /\ association \in [AssociationIds -> AssociationRow]
    BY <1>1 DEF RevokeRow, TypeOK
  <2>2. /\ OthersSame(a) /\ association'[a].user = association[a].user
        /\ association'[a].device = association[a].device /\ association'[a].state = "ENDED"
        /\ association'[a].reason = revokeAction[r].reason
    BY <1>1, <1>5, <2>1 DEF OthersSame, AssociationRow
  <2>3. /\ \A k \in RevokeIds \ {r} : revokeAction'[k] = revokeAction[k]
        /\ revokeAction'[r].status = "SUCCEEDED" /\ revokeAction'[r].assoc = a
        /\ revokeAction'[r].target = revokeAction[r].target
        /\ revokeAction'[r].reason = revokeAction[r].reason
        /\ revokeAction'[r].attempt = revokeAction[r].attempt
    BY <1>1, <1>5 DEF TypeOK, RevokeRow
  <2>4. RevokeMoves(r)
    BY <1>1, <1>5, <2>1, <2>2, <2>3 DEF RevokeMoves
  <2>5. RevokesGoOn(Processes \ {p})
    BY <1>1, <2>3 DEF RevokesGoOn, CallsOwn, TypeInv, CallNamesRows
  <2> QED BY <1>1, <2>4, <2>5, RevokeReturnGoesOn DEF RowStep
<1> QED BY <1>2, <1>3, <1>4, <1>5

LEMMA AuthReserveMatches ==
  ASSUME NEW p \in Requests, NEW u \in Users, NEW l \in Links, TypeInv, MatchInv,
         AuthReserve(p, u, l)
  PROVE  RowStep /\ CallsOwn'
<1>0. PICK n \in AssociationIds : n = nextAssociation
  BY BoundAssumption DEF AuthReserve, TypeInv, TypeOK, AssociationIds
<1>1. /\ TypeOK /\ CallsOwn /\ p \in Processes /\ authAction[l].status = "NONE" /\ OpenOf(u) = {}
      /\ association' = [association EXCEPT ![n] =
                           [NoAssociation EXCEPT !.state = "PENDING_AUTH", !.user = u]]
      /\ authAction' = [authAction EXCEPT ![l] =
                          [NoAuth EXCEPT !.status = "PENDING", !.assoc = n]]
      /\ call' = [call EXCEPT ![p] = [Idle EXCEPT !.step = "describe", !.link = l]]
      /\ nextAssociation' = n + 1 /\ UNCHANGED revokeAction
  BY <1>0 DEF AuthReserve, TypeInv, MatchInv, Processes
<1>2. /\ OthersSame(n) /\ association'[n].user = u /\ association'[n].reason = None
      /\ association'[n].state = "PENDING_AUTH" /\ association'[n].device = None
  BY <1>1 DEF OthersSame, NoAssociation, TypeOK
<1>3. /\ authAction'[l].status = "PENDING" /\ authAction'[l].assoc = n
      /\ \A k \in Links \ {l} : authAction'[k] = authAction[k]
  BY <1>1 DEF NoAuth, TypeOK
<1>4. Creates(u)
  BY <1>0, <1>1, <1>2, <1>3 DEF Creates
<1>5. /\ \A q \in Processes \ {p} : call'[q] = call[q]
      /\ call'[p].step = "describe" /\ call'[p].link = l
  BY <1>1 DEF Idle, TypeOK
<1>6. \A q \in Processes : call[q].step \in AuthPlaces =>
        /\ call[q].link \in Links \ {l} /\ authAction[call[q].link].status \in Unresolved
  BY <1>1 DEF CallsOwn, TypeInv, CallNamesRows, Unresolved
<1>7. ASSUME NEW q \in Processes
      PROVE  /\ call'[q].step \in AuthPlaces => authAction'[call'[q].link].status \in Unresolved
             /\ call'[q].step \in RevokePlaces => q # p
  BY <1>3, <1>5, <1>6 DEF AuthPlaces, RevokePlaces, Unresolved
<1>8. ASSUME NEW q \in Processes, NEW k \in Processes, q # k,
             call'[q].step \in AuthPlaces, call'[k].step \in AuthPlaces
      PROVE  call'[q].link # call'[k].link
  BY <1>1, <1>5, <1>6, <1>8 DEF CallsOwn
<1>9. CallsOwn'
  BY <1>1, <1>5, <1>7, <1>8 DEF CallsOwn, Unresolved
<1> QED BY <1>4, <1>9 DEF RowStep

LEMMA AdminAssociateMatches ==
  ASSUME NEW p \in Processes, TypeInv, MatchInv, AdminAssociate(p)
  PROVE  RowStep /\ CallsOwn'
<1>0. PICK n \in AssociationIds, u \in Users, d \in Devices :
        n = nextAssociation /\ u = call[p].user /\ d = call[p].device
  BY BoundAssumption
  DEF AdminAssociate, TypeInv, TypeOK, CallNamesRows, AdminPlaces, AssociationIds
<1>1. /\ TypeOK /\ CallsOwn /\ OpenOf(u) = {} /\ HoldersOf(d) = {}
      /\ association' = [association EXCEPT ![n] =
                           [NoAssociation EXCEPT !.state = "ACTIVE", !.user = u, !.device = d]]
      /\ nextAssociation' = n + 1 /\ Return(p) /\ UNCHANGED <<authAction, revokeAction>>
  BY <1>0 DEF AdminAssociate, TypeInv, MatchInv
<1>2. /\ OthersSame(n) /\ association'[n].user = u /\ association'[n].reason = None
      /\ association'[n].state = "ACTIVE" /\ association'[n].device = d
  BY <1>1 DEF OthersSame, NoAssociation, TypeOK
<1>3. Creates(u)
  BY <1>0, <1>1, <1>2 DEF Creates
<1>4. CallsGoOn
  BY <1>1, ReturnGoesOn DEF CallsOwn
<1> QED BY <1>1, <1>3, <1>4, GoOnOwn DEF RowStep

\* The call that takes up revocation r is the only one that works on it, or r is armed.
LEMMA TakesUpOwn ==
  ASSUME NEW p \in Processes, NEW r \in RevokeIds, CallsOwn, UNCHANGED authAction,
         \A q \in Processes \ {p} : call'[q] = call[q],
         call'[p].step \in RevokePlaces, call'[p].revoke = r,
         revokeAction'[r].status # "FAILED", call'[p].reason = revokeAction'[r].reason,
         call'[p].reason = "QUOTA" => p \in Schedulers,
         \A q \in Processes \ {p} : call[q].step \in RevokePlaces =>
           /\ revokeAction'[call[q].revoke] = revokeAction[call[q].revoke]
           /\ call[q].revoke = r => revokeAction[r].attempt = 1
  PROVE  CallsOwn'
<1>1. call'[p].step \notin AuthPlaces
  BY DEF AuthPlaces, RevokePlaces
<1>2. ASSUME NEW q \in Processes
      PROVE  /\ call'[q].step \in AuthPlaces => authAction'[call'[q].link].status \in Unresolved
             /\ call'[q].step \in RevokePlaces =>
                  /\ revokeAction'[call'[q].revoke].status # "FAILED"
                  /\ call'[q].reason = revokeAction'[call'[q].revoke].reason
                  /\ call'[q].reason = "QUOTA" => q \in Schedulers
  <2>1. CASE q = p
    BY <1>1, <2>1
  <2>2. CASE q # p
    BY <2>2 DEF CallsOwn
  <2> QED BY <2>1, <2>2
<1>3. ASSUME NEW q \in Processes, NEW k \in Processes, q # k,
             call'[q].step \in AuthPlaces, call'[k].step \in AuthPlaces
      PROVE  call'[q].link # call'[k].link
  BY <1>1, <1>3 DEF CallsOwn
<1>4. ASSUME NEW q \in Processes, NEW k \in Processes, q # k,
             call'[q].step \in RevokePlaces, call'[k].step \in RevokePlaces,
             call'[q].revoke = call'[k].revoke
      PROVE  revokeAction'[call'[q].revoke].attempt = 1
  <2>1. CASE q # p /\ k # p
    BY <1>4, <2>1 DEF CallsOwn
  <2>2. CASE q = p \/ k = p
    BY <1>4, <2>2
  <2> QED BY <2>1, <2>2
<1> QED BY <1>2, <1>3, <1>4 DEF CallsOwn, Unresolved

LEMMA RevokeReserveMatches ==
  ASSUME NEW p \in Processes, NEW a \in AssociationIds, NEW reason \in RevokeReasons, TypeInv,
         FreshRows, MatchInv, RevokeReserve(p, a, reason)
  PROVE  RowStep /\ CallsOwn'
<1>0. PICK r \in RevokeIds, d \in Devices : r = nextRevoke /\ d = association[a].device
  BY BoundAssumption DEF RevokeReserve, TypeInv, TypeOK, HeldHasDevice, RevokeIds
<1>1. /\ TypeOK /\ CallsOwn /\ association[a].state = "ACTIVE"
      /\ reason = "QUOTA" => p \in Schedulers
      /\ association' = [association EXCEPT ![a].state = "PENDING_REVOKE",
                           ![a].reason = IF reason = "QUOTA" THEN "QUOTA" ELSE @]
      /\ revokeAction' = [revokeAction EXCEPT ![r] =
                            [NoRevoke EXCEPT !.status = "PENDING", !.assoc = a,
                               !.target = d, !.reason = reason]]
      /\ call' = [call EXCEPT ![p] = [Idle EXCEPT !.step = "armRevoke", !.revoke = r,
                                                  !.reason = reason]]
      /\ UNCHANGED <<authAction, nextAssociation>>
  BY <1>0 DEF RevokeReserve, Asks, TypeInv, MatchInv
<1>2. revokeAction[r] = NoRevoke
  BY <1>0 DEF FreshRows, RevokeIds
<1>3. /\ OthersSame(a) /\ association'[a].user = association[a].user
      /\ association'[a].device = association[a].device /\ association'[a].state = "PENDING_REVOKE"
      /\ association'[a].reason = IF reason = "QUOTA" THEN "QUOTA" ELSE association[a].reason
  <2>1. association \in [AssociationIds -> AssociationRow]
    BY <1>1 DEF TypeOK
  <2> QED BY <1>1, <2>1 DEF OthersSame, AssociationRow
<1>4. /\ \A k \in RevokeIds \ {r} : revokeAction'[k] = revokeAction[k]
      /\ revokeAction'[r].status = "PENDING" /\ revokeAction'[r].assoc = a
      /\ revokeAction'[r].target = d /\ revokeAction'[r].reason = reason
  BY <1>1 DEF NoRevoke, TypeOK
<1>5. Reserves(r, a)
  BY <1>0, <1>1, <1>2, <1>3, <1>4 DEF Reserves, NoRevoke
<1>6. \A q \in Processes : call[q].step \in RevokePlaces => call[q].revoke \in RevokeIds \ {r}
  BY <1>2 DEF TypeInv, CallNamesRows, RevokeRow, NoRevoke, Statuses
<1>7. CallsOwn'
  <2>1. /\ \A q \in Processes \ {p} : call'[q] = call[q]
        /\ call'[p].step \in RevokePlaces /\ call'[p].revoke = r /\ call'[p].reason = reason
    BY <1>1 DEF Idle, TypeOK, RevokePlaces
  <2> QED BY <1>0, <1>1, <1>4, <1>6, <2>1, TakesUpOwn
<1> QED BY <1>5, <1>7 DEF RowStep

LEMMA QuotaResumeMatches ==
  ASSUME NEW p \in Schedulers, NEW r \in RevokeIds, TypeInv, MatchInv, QuotaResume(p, r)
  PROVE  RowStep /\ CallsOwn'
<1>1. /\ TypeOK /\ CallsOwn /\ p \in Processes /\ call[p] = Idle /\ UNCHANGED database
      /\ Unarmed(r) /\ association[revokeAction[r].assoc].reason = "QUOTA"
      /\ call' = [call EXCEPT ![p] = [Idle EXCEPT !.step = "armRevoke", !.revoke = r,
                                                  !.reason = "QUOTA"]]
  BY DEF QuotaResume, Resumable, TypeInv, MatchInv, Processes
<1>2. revokeAction[r].reason = "QUOTA" /\ revokeAction[r].status = "PENDING"
  BY <1>1 DEF MatchInv, RowsMatch, RevokesMatch, RevokeFits, Unarmed, Unresolved
<1>3. \A q \in Processes \ {p} : call[q].step \in RevokePlaces => call[q].revoke # r
  BY <1>1, <1>2, ProcessAssumption DEF CallsOwn
<1>4. CallsOwn'
  <2>1. /\ \A q \in Processes \ {p} : call'[q] = call[q]
        /\ call'[p].step \in RevokePlaces /\ call'[p].revoke = r /\ call'[p].reason = "QUOTA"
    BY <1>1 DEF Idle, TypeOK, RevokePlaces
  <2> QED BY <1>1, <1>2, <1>3, <2>1, TakesUpOwn DEF database
<1> QED BY <1>1, <1>4, DatabaseSteady DEF database

LEMMA ReconcilePrepareMatches ==
  ASSUME NEW p \in Schedulers, NEW r \in RevokeIds, TypeInv, MatchInv, ReconcilePrepare(p, r)
  PROVE  RowStep /\ CallsOwn'
<1>1. /\ TypeOK /\ CallsOwn /\ p \in Processes /\ UNCHANGED database
      /\ revokeAction[r].status # "FAILED" /\ revokeAction[r].attempt = 1
      /\ call' = [call EXCEPT ![p] = [Idle EXCEPT !.step = "list", !.revoke = r,
                                                  !.reason = revokeAction[r].reason]]
  BY DEF ReconcilePrepare, TypeInv, MatchInv, Processes, Unresolved
<1>2. CallsOwn'
  <2>1. /\ \A q \in Processes \ {p} : call'[q] = call[q]
        /\ call'[p].step \in RevokePlaces /\ call'[p].revoke = r
        /\ call'[p].reason = revokeAction[r].reason
    BY <1>1 DEF Idle, TypeOK, RevokePlaces
  <2>2. call'[p].reason = "QUOTA" => p \in Schedulers
    OBVIOUS
  <2>3. /\ \A q \in Processes \ {p} : call[q].step \in RevokePlaces =>
             /\ revokeAction'[call[q].revoke] = revokeAction[call[q].revoke]
             /\ call[q].revoke = r => revokeAction[r].attempt = 1
        /\ revokeAction'[r].status # "FAILED" /\ call'[p].reason = revokeAction'[r].reason
    BY <1>1, <2>1 DEF database
  <2> QED BY <1>1, <2>1, <2>2, <2>3, TakesUpOwn DEF database
<1> QED BY <1>1, <1>2, DatabaseSteady DEF database

LEMMA CallStepsMatch ==
  ASSUME NEW p \in Processes, TypeInv, MatchInv, CallSteps(p)
  PROVE  RowStep /\ CallsOwn'
<1>1. CASE AuthSteps(p)
  BY <1>1, CallMatches, AuthArmMatches, AuthOutcomeMatches, FinalizeApprovalMatches
  DEF AuthSteps, MatchInv
<1>2. CASE AdminSteps(p) \/ RecordFails(p)
  BY <1>2, CallMatches, AdminAssociateMatches DEF AdminSteps, MatchInv
<1>3. CASE RevokeSteps(p)
  <2>1. CASE ArmRevoke(p)
    BY <2>1, ArmRevokeMatches, RevokeOutcomeMatches
  <2> QED BY <1>3, <2>1, CallMatches, RevokeOutcomeMatches, FinalizeRevokeMatches
          DEF RevokeSteps, MatchInv
<1> QED BY <1>1, <1>2, <1>3 DEF CallSteps

LEMMA NextMatches ==
  ASSUME TypeInv, FreshRows, MatchInv, [Next]_vars
  PROVE  RowStep /\ CallsOwn'
<1>1. ASSUME NEW p \in Requests, NEW u \in Users, NEW l \in Links, AuthReserve(p, u, l)
      PROVE  RowStep /\ CallsOwn'
  BY <1>1, AuthReserveMatches
<1>2. ASSUME NEW p \in Processes, NEW a \in AssociationIds, NEW reason \in RevokeReasons,
             RevokeReserve(p, a, reason)
      PROVE  RowStep /\ CallsOwn'
  BY <1>2, RevokeReserveMatches
<1>3. ASSUME NEW l \in Links, AuthReplay(l) PROVE RowStep /\ CallsOwn'
  BY <1>3, AuthReplayMatches
<1>4. ASSUME NEW a \in AssociationIds, RevokeReplay(a) PROVE RowStep /\ CallsOwn'
  BY <1>4, RevokeReplayMatches
<1>5. ASSUME NEW p \in Schedulers, NEW r \in RevokeIds,
             QuotaResume(p, r) \/ QuotaWithdraw(p, r) \/ ReconcilePrepare(p, r)
      PROVE  RowStep /\ CallsOwn'
  BY <1>5, QuotaResumeMatches, QuotaWithdrawMatches, ReconcilePrepareMatches
<1>6. ASSUME NEW p \in Processes, CallSteps(p) PROVE RowStep /\ CallsOwn'
  BY <1>6, CallStepsMatch
<1>7. ASSUME \/ \E p \in Requests, u \in Users, d \in Devices : AdminQualify(p, u, d)
             \/ Platform \/ Restart \/ UNCHANGED vars
      PROVE  RowStep /\ CallsOwn'
  BY <1>7, OutsideMatches DEF MatchInv
<1> QED BY <1>1, <1>2, <1>3, <1>4, <1>5, <1>6, <1>7 DEF Next

LEMMA MatchInvariant == Spec => []MatchInv
<1>1. TypeInv /\ TypeInv' /\ SafetyInv /\ MatchInv /\ [Next]_vars => MatchInv'
  BY NextMatches, RowStepMatch DEF MatchInv, SafetyInv
<1> QED BY <1>1, InitMatch, TypeInvariant, SafetyInvariant, PTL DEF Spec

-----------------------------------------------------------------------------
(* The theorems. *)

\* The unresolved actions of association a, as StateMatchesActions counts them.
AuthsOf(a) == {l \in Links : authAction[l].assoc = a /\ authAction[l].status \in Unresolved}
RevokesFor(a) == {r \in RevokesOf(a) : revokeAction[r].status \in Unresolved}

LEMMA OneLink ==
  ASSUME RowTypes, RowsMatch, NEW a \in AssociationIds, NEW l \in AuthsOf(a)
  PROVE  /\ AuthsOf(a) = {l} /\ RevokesFor(a) = {}
         /\ association[a].state = IF authAction[l].status = "PENDING" THEN "PENDING_AUTH" ELSE "UNKNOWN"
<1>1. /\ l \in Links /\ authAction[l].assoc = a /\ authAction[l].status \in Unresolved
      /\ association[a].device = None
      /\ association[a].state = IF authAction[l].status = "PENDING" THEN "PENDING_AUTH" ELSE "UNKNOWN"
  BY DEF AuthsOf, RowsMatch, AuthsMatch, AuthFits
<1>2. ASSUME NEW k \in AuthsOf(a) PROVE k = l
  BY <1>1 DEF AuthsOf, RowsMatch, RowsPlaced, Unresolved
<1>3. ASSUME NEW r \in RevokesFor(a) PROVE FALSE
  <2>1. r \in RevokeIds /\ revokeAction[r].assoc = a /\ revokeAction[r].status \in Unresolved
    BY DEF RevokesFor, RevokesOf
  <2> QED BY <1>1, <2>1 DEF RowsMatch, RevokesMatch, RevokeFits, RowTypes, Unresolved
<1> QED BY <1>1, <1>2, <1>3

LEMMA OneRevoke ==
  ASSUME RowTypes, RowsMatch, NEW a \in AssociationIds, NEW r \in RevokesFor(a)
  PROVE  /\ RevokesFor(a) = {r} /\ AuthsOf(a) = {}
         /\ association[a].state =
              IF revokeAction[r].status = "PENDING" THEN "PENDING_REVOKE" ELSE "UNKNOWN"
<1>1. /\ r \in RevokeIds /\ revokeAction[r].assoc = a /\ revokeAction[r].status \in Unresolved
      /\ association[a].state =
           IF revokeAction[r].status = "PENDING" THEN "PENDING_REVOKE" ELSE "UNKNOWN"
  BY DEF RevokesFor, RevokesOf, RowsMatch, RevokesMatch, RevokeFits
<1>2. ASSUME NEW q \in RevokesFor(a) PROVE q = r
  BY <1>1 DEF RevokesFor, RevokesOf, RowsMatch, RevokesMatch
<1>3. AuthsOf(a) = {}
  BY OneLink
<1> QED BY <1>1, <1>2, <1>3

LEMMA StateMatches == TypeInv /\ RowsMatch => StateMatchesActions
<1> SUFFICES ASSUME TypeInv, RowsMatch PROVE StateMatchesActions
  OBVIOUS
<1>1. RowTypes
  BY RowsTyped
<1>2. ASSUME NEW a \in AssociationIds
      PROVE  /\ association[a].state \in {"ACTIVE", "ENDED"} => AuthsOf(a) = {} /\ RevokesFor(a) = {}
             /\ association[a].state = "PENDING_AUTH" =>
                  RevokesFor(a) = {} /\ \E l \in AuthsOf(a) :
                                         AuthsOf(a) = {l} /\ authAction[l].status = "PENDING"
             /\ association[a].state = "PENDING_REVOKE" =>
                  AuthsOf(a) = {} /\ \E r \in RevokesFor(a) :
                                      RevokesFor(a) = {r} /\ revokeAction[r].status = "PENDING"
             /\ association[a].state = "UNKNOWN" =>
                  Cardinality(AuthsOf(a)) + Cardinality(RevokesFor(a)) = 1
  <2>1. \/ \E l \in AuthsOf(a) : TRUE
        \/ \E r \in RevokesFor(a) : TRUE
        \/ /\ AuthsOf(a) = {} /\ RevokesFor(a) = {}
           /\ association[a].state \notin {"PENDING_AUTH", "PENDING_REVOKE", "UNKNOWN"}
    BY DEF RowsMatch, Explained, AuthsOf, RevokesFor, RevokesOf, Unresolved
  <2>2. ASSUME NEW l \in AuthsOf(a) PROVE Cardinality(AuthsOf(a)) + Cardinality(RevokesFor(a)) = 1
    <3>1. AuthsOf(a) = {l} /\ RevokesFor(a) = {}
      BY <1>1, OneLink
    <3>2. Cardinality({l}) = 1 /\ Cardinality({}) = 0
      BY FS_EmptySet, FS_Singleton
    <3> QED BY <3>1, <3>2
  <2>3. ASSUME NEW r \in RevokesFor(a)
        PROVE  Cardinality(AuthsOf(a)) + Cardinality(RevokesFor(a)) = 1
    <3>1. AuthsOf(a) = {} /\ RevokesFor(a) = {r}
      BY <1>1, OneRevoke
    <3>2. Cardinality({r}) = 1 /\ Cardinality({}) = 0
      BY FS_EmptySet, FS_Singleton
    <3> QED BY <3>1, <3>2
  <2>4. ASSUME NEW l \in AuthsOf(a)
        PROVE  /\ association[a].state \in {"PENDING_AUTH", "UNKNOWN"}
               /\ AuthsOf(a) = {l} /\ RevokesFor(a) = {}
               /\ association[a].state = "PENDING_AUTH" => authAction[l].status = "PENDING"
    BY <1>1, OneLink
  <2>5. ASSUME NEW r \in RevokesFor(a)
        PROVE  /\ association[a].state \in {"PENDING_REVOKE", "UNKNOWN"}
               /\ RevokesFor(a) = {r} /\ AuthsOf(a) = {}
               /\ association[a].state = "PENDING_REVOKE" => revokeAction[r].status = "PENDING"
    BY <1>1, OneRevoke
  <2> QED BY <2>1, <2>2, <2>3, <2>4, <2>5
<1>3. ASSUME NEW r \in RevokeIds, revokeAction[r].status = "SUCCEEDED"
      PROVE  /\ association[revokeAction[r].assoc].state = "ENDED"
             /\ association[revokeAction[r].assoc].reason = revokeAction[r].reason
  BY <1>3 DEF RowsMatch, RevokesMatch, RevokeFits
<1> QED BY <1>2, <1>3 DEF StateMatchesActions, AuthsOf, RevokesFor

\* In every interleaving an association is ACTIVE or ENDED only when its actions are
\* settled, PENDING or in doubt only together with the one unresolved action that says
\* so, and ended with the reason of whoever reserved the revocation that ended it.
THEOREM StateExplained == Spec => []StateMatchesActions
<1>1. TypeInv /\ MatchInv => StateMatchesActions
  BY StateMatches DEF MatchInv
<1> QED BY <1>1, TypeInvariant, MatchInvariant, PTL

LEMMA InitOwnership == Init => Ownership!Init
<1> SUFFICES ASSUME Init PROVE Ownership!Init
  OBVIOUS
<1>1. \A u \in Users : OpenOf(u) = {}
  BY DEF Init, OpenOf, Open, NoAssociation
<1>2. \A u \in Users : SlotOf(u) = FreeSlot
  BY <1>1 DEF SlotOf, FreeSlot
<1> QED BY <1>2 DEF Ownership!Init, Ownership!Free, FreeSlot

\* The associations implement the slots of DeviceOwnership: whatever the interleaving of
\* commands, late answers, withdrawals, reconciliation and restarts, every transaction
\* moves at most one user's slot, along the ownership cycle, and a device changes hands
\* only through a release of its former slot.
THEOREM OwnershipImplemented == Spec => ImplementsOwnership
<1>1. TypeInv /\ SafetyInv /\ SafetyInv' /\ MatchInv /\ [Next]_vars =>
        Ownership!Next \/ UNCHANGED [u \in Users |-> SlotOf(u)]
  BY NextMatches, RowStepSlots DEF MatchInv, SafetyInv
<1>2. TypeInv /\ SafetyInv /\ SafetyInv' /\ MatchInv /\ [Next]_vars =>
        [Ownership!Next]_([u \in Users |-> SlotOf(u)])
  BY <1>1
<1> QED BY <1>2, InitOwnership, TypeInvariant, SafetyInvariant, MatchInvariant, PTL
        DEF Spec, ImplementsOwnership, Ownership!Spec

-----------------------------------------------------------------------------
(* The rows and the platform: no grant is forgotten and no late revoke POST hits
   another user's device. *)

Holds(a, d) == Open(a) /\ association[a].device = d

\* Somebody still waits for the outcome of the link that authorized d.
Awaited(d) == \E l \in Links : authAction[l].status \in Unresolved /\ granted[l] = d

\* The outcome of an approve POST is not lost while it may still matter: its link is
\* unresolved until the answer is there, and a granted link never fails.
LinksPosted ==
  \A l \in Links :
    /\ approvalsSent[l] = 0 => approval[l] = "unsent"
    /\ approval[l] # "granted" => granted[l] = None
    /\ approval[l] = "sent" => authAction[l].status \in Unresolved
    /\ approval[l] = "granted" => authAction[l].status \in Unresolved \cup {"SUCCEEDED"}
    /\ authAction[l].status = "SUCCEEDED" => approval[l] = "granted"

\* A revocation whose POST was sent is not withdrawn, and not confirmed before the POST
\* took effect unless somebody disturbed the device.
RevokesPosted ==
  \A r \in RevokeIds :
    /\ revokesSent[r] = 0 => revocation[r] = "unsent"
    /\ revocation[r] # "unsent" => revokeAction[r].status \in Unresolved \cup {"SUCCEEDED"}
    /\ revocation[r] = "sent" /\ revokeAction[r].target \notin disturbed =>
         revokeAction[r].status \in Unresolved

\* The same of the calls: before the POST is sent, and after the inventory showed that
\* the device is gone.
CallsPosted ==
  \A p \in Processes :
    LET r == call[p].revoke IN
    /\ call[p].step = "revoke" /\ revokeAction[r].target \notin disturbed =>
         revokeAction[r].status \in Unresolved
    /\ /\ call[p].step = "confirmed" /\ revokeAction[r].target \notin disturbed
       /\ revokeAction[r].status \in Unresolved
       => revocation[r] = "done"

\* An undisturbed device stays authorized while it is held, until the revocation of its
\* holder takes effect.
HeldAuthorized ==
  \A a \in AssociationIds, d \in Devices : Holds(a, d) =>
    \/ d \in authorized \cup disturbed
    \/ \E r \in RevokeIds : revokeAction[r].assoc = a /\ revocation[r] = "done"

\* The platform has shown that the target of r is gone, by its answer or its inventory.
ShownGone(r) ==
  \/ revocation[r] = "done"
  \/ \E p \in Processes : call[p].step = "confirmed" /\ call[p].revoke = r

\* ... and if it has been approved anew since then, somebody waits for that outcome.
GoneOrAwaited ==
  \A r \in RevokeIds : revokeAction[r].status \in Unresolved /\ ShownGone(r) =>
    revokeAction[r].target \notin authorized \/ Awaited(revokeAction[r].target)

PlatformInv ==
  /\ LinksPosted /\ RevokesPosted /\ CallsPosted
  /\ HeldAuthorized /\ GoneOrAwaited /\ GrantsAccountedFor

LEMMA InitPlatform == Init => PlatformInv
BY DEF Init, PlatformInv, LinksPosted, RevokesPosted, CallsPosted, HeldAuthorized, GoneOrAwaited,
       GrantsAccountedFor, ShownGone, Holds, Open, NoAssociation, NoAuth, NoRevoke, Idle, Unresolved

-----------------------------------------------------------------------------
(* How the actions of a row move on. *)

LinkFollows(l) ==
  LET old == authAction[l].status  new == authAction'[l].status IN
  /\ old # "NONE" => authAction'[l].assoc = authAction[l].assoc
  /\ old = "NONE" => new \in {"NONE", "PENDING"}
  /\ old \in Unresolved => new \in Statuses
  /\ old \in {"SUCCEEDED", "FAILED"} => new = old

RevokeFollows(r) ==
  LET old == revokeAction[r].status  new == revokeAction'[r].status IN
  /\ old # "NONE" => /\ revokeAction'[r].assoc = revokeAction[r].assoc
                     /\ revokeAction'[r].target = revokeAction[r].target
  /\ old = "NONE" => new \in {"NONE", "PENDING"}
  /\ old \in Unresolved => new \in Statuses
  /\ old \in {"SUCCEEDED", "FAILED"} => new = old

LEMMA LinksFollow == ASSUME RowTypes, RowStep, NEW l \in Links PROVE LinkFollows(l)
<1>1. CASE Steady
  BY <1>1 DEF Steady, LinkFollows, RowTypes, Statuses, Unresolved
<1>2. ASSUME NEW k \in Links, LinkMoves(k) PROVE LinkFollows(l)
  BY <1>2 DEF LinkMoves, LinkFollows, RowTypes, Statuses, Unresolved
<1>3. ASSUME UNCHANGED authAction PROVE LinkFollows(l)
  BY <1>3 DEF LinkFollows, RowTypes, Statuses, Unresolved
<1>4. ASSUME NEW u \in Users, Creates(u) PROVE LinkFollows(l)
  BY <1>3, <1>4 DEF Creates, LinkFollows, RowTypes, Statuses, Unresolved
<1> QED BY <1>1, <1>2, <1>3, <1>4 DEF RowStep, RevokeMoves, Reserves

LEMMA RevokesFollow == ASSUME RowTypes, RowStep, NEW r \in RevokeIds PROVE RevokeFollows(r)
<1>1. CASE Steady
  BY <1>1 DEF Steady, RevokeFollows, RowTypes, Statuses, Unresolved
<1>2. ASSUME NEW k \in RevokeIds, RevokeMoves(k) PROVE RevokeFollows(r)
  BY <1>2 DEF RevokeMoves, RevokeFollows, RowTypes, Statuses, Unresolved
<1>3. ASSUME UNCHANGED revokeAction PROVE RevokeFollows(r)
  BY <1>3 DEF RevokeFollows, RowTypes, Statuses, Unresolved
<1>4. ASSUME NEW k \in RevokeIds, NEW a \in AssociationIds, Reserves(k, a) PROVE RevokeFollows(r)
  BY <1>4 DEF Reserves, RevokeFollows, RowTypes, Statuses, Unresolved
<1> QED BY <1>1, <1>2, <1>3, <1>4 DEF RowStep, LinkMoves, Creates

\* Only a confirmed revocation takes a device from its holder.
LEMMA HoldersGoOn ==
  ASSUME RowTypes, RowsMatch, FreshRows, RowStep, NEW a \in AssociationIds, NEW d \in Devices,
         Holds(a, d)
  PROVE  \/ Holds(a, d)'
         \/ \E r \in RevokeIds : /\ revokeAction[r].assoc = a /\ revokeAction[r].status \in Unresolved
                                 /\ revokeAction'[r].status = "SUCCEEDED"
<1>1. CASE Steady
  BY <1>1 DEF Steady, Holds, Open
<1>2. ASSUME NEW l \in Links, LinkMoves(l) PROVE Holds(a, d)'
  <2>1. authAction[l].assoc # a
    BY <1>2 DEF LinkMoves, RowsMatch, AuthsMatch, AuthFits, RowTypes, Holds
  <2> QED BY <1>2, <2>1 DEF LinkMoves, OthersSame, Holds, Open
<1>3. ASSUME NEW r \in RevokeIds, RevokeMoves(r)
      PROVE  \/ Holds(a, d)'
             \/ revokeAction[r].assoc = a /\ revokeAction[r].status \in Unresolved
                  /\ revokeAction'[r].status = "SUCCEEDED"
  BY <1>3 DEF RevokeMoves, OthersSame, Holds, Open
<1>4. ASSUME NEW r \in RevokeIds, NEW b \in AssociationIds, Reserves(r, b) PROVE Holds(a, d)'
  BY <1>4 DEF Reserves, OthersSame, Holds, Open
<1>5. ASSUME NEW u \in Users, Creates(u) PROVE Holds(a, d)'
  <2>1. a # nextAssociation
    BY <1>5 DEF FreshRows, Holds, Open, RowTypes
  <2> QED BY <1>5, <2>1 DEF Creates, OthersSame, Holds, Open
<1> QED BY <1>1, <1>2, <1>3, <1>4, <1>5 DEF RowStep

LEMMA RowsTypedNext == ASSUME TypeInv' PROVE RowTypes'
BY NoneAssumption DEF TypeInv, TypeOK, RowTypes, AuthRow, NoAuth, RevokeRow, NoRevoke, Statuses

-----------------------------------------------------------------------------
(* Steps of the database: what they have to say for themselves.            *)

LinksSettle ==
  \A l \in Links : authAction[l].status \in Unresolved =>
    /\ authAction'[l].status = "FAILED" => approval[l] \notin {"sent", "granted"}
    /\ authAction'[l].status = "SUCCEEDED" =>
         approval[l] = "granted" /\ Holds(authAction[l].assoc, granted[l])'

RevokesSettle ==
  \A r \in RevokeIds : revokeAction[r].status \in Unresolved =>
    /\ revokeAction'[r].status = "FAILED" => revocation[r] = "unsent"
    /\ revokeAction'[r].status = "SUCCEEDED" => ShownGone(r)

HoldersStay ==
  \A a \in AssociationIds, d \in Devices :
    Holds(a, d)' => Holds(a, d) \/ d \in authorized \cup disturbed'

\* A call sets out to send a POST, or knows that a device is gone, for a reason.
CallsSettle ==
  \A p \in Processes :
    LET r == call'[p].revoke IN
    /\ call'[p].step = "revoke" =>
         \/ call[p].step = "revoke" /\ call[p].revoke = r
         \/ revokeAction'[r].status \in Unresolved
    /\ call'[p].step = "confirmed" =>
         \/ call[p].step = "confirmed" /\ call[p].revoke = r
         \/ /\ revokeAction[r].status \in Statuses /\ r \in RevokeIds
            /\ revokeAction[r].target \notin authorized

DatabaseStep ==
  /\ UNCHANGED <<authorized, approval, revocation, granted, approvalsSent, revokesSent>>
  /\ disturbed \subseteq disturbed'
  /\ \A d \in managed' \ managed : HoldersOf(d)' # {}
  /\ LinksSettle /\ RevokesSettle /\ HoldersStay /\ CallsSettle

\* What an awaited device comes to.
LEMMA AwaitedGoesOn ==
  ASSUME RowTypes, PlatformInv, RowStep, DatabaseStep, NEW d \in Devices, Awaited(d)
  PROVE  \/ Awaited(d)'
         \/ \E l \in Links : /\ authAction[l].status \in Unresolved
                             /\ Holds(authAction[l].assoc, d)'
<1>1. PICK l \in Links : authAction[l].status \in Unresolved /\ granted[l] = d
  BY DEF Awaited
<1>2. approval[l] = "granted"
  BY <1>1 DEF PlatformInv, LinksPosted, RowTypes
<1>3. authAction'[l].status \in Statuses /\ granted'[l] = d
  BY <1>1, LinksFollow DEF LinkFollows, DatabaseStep
<1>4. CASE authAction'[l].status \in Unresolved
  BY <1>3, <1>4 DEF Awaited
<1>5. CASE authAction'[l].status = "SUCCEEDED"
  BY <1>1, <1>5 DEF DatabaseStep, LinksSettle
<1>6. authAction'[l].status # "FAILED"
  BY <1>1, <1>2 DEF DatabaseStep, LinksSettle
<1> QED BY <1>3, <1>4, <1>5, <1>6 DEF Statuses, Unresolved

LEMMA LinksStep ==
  ASSUME RowTypes, PlatformInv, RowStep, DatabaseStep
  PROVE  LinksPosted'
<1>1. SUFFICES ASSUME NEW l \in Links
               PROVE  /\ approval[l] = "sent" => authAction'[l].status \in Unresolved
                      /\ approval[l] = "granted" =>
                           authAction'[l].status \in Unresolved \cup {"SUCCEEDED"}
                      /\ authAction'[l].status = "SUCCEEDED" => approval[l] = "granted"
  BY DEF LinksPosted, DatabaseStep, PlatformInv
<1>2. LinkFollows(l)
  BY LinksFollow
<1>3. /\ approval[l] = "sent" => authAction[l].status \in Unresolved
      /\ approval[l] = "granted" => authAction[l].status \in Unresolved \cup {"SUCCEEDED"}
      /\ authAction[l].status = "SUCCEEDED" => approval[l] = "granted"
      /\ authAction[l].status \in Statuses \cup {"NONE"}
  BY DEF PlatformInv, LinksPosted, RowTypes
<1>4. CASE authAction[l].status \in Unresolved
  BY <1>2, <1>4 DEF LinkFollows, Statuses, Unresolved, DatabaseStep, LinksSettle
<1>5. CASE authAction[l].status \notin Unresolved
  BY <1>2, <1>3, <1>5 DEF LinkFollows, Statuses, Unresolved
<1> QED BY <1>4, <1>5

LEMMA RevokesStep ==
  ASSUME RowTypes, PlatformInv, RowStep, DatabaseStep
  PROVE  RevokesPosted'
<1>1. SUFFICES ASSUME NEW r \in RevokeIds, revocation[r] # "unsent"
               PROVE  /\ revokeAction'[r].status \in Unresolved \cup {"SUCCEEDED"}
                      /\ revocation[r] = "sent" /\ revokeAction'[r].target \notin disturbed' =>
                           revokeAction'[r].status \in Unresolved
  BY DEF RevokesPosted, DatabaseStep, PlatformInv
<1>2. RevokeFollows(r)
  BY RevokesFollow
<1>3. revokeAction[r].status \in Unresolved \cup {"SUCCEEDED"}
  BY <1>1 DEF PlatformInv, RevokesPosted
<1>4. revokeAction'[r].target = revokeAction[r].target
  BY <1>2, <1>3 DEF RevokeFollows, Unresolved
<1>5. revokeAction'[r].status \in Unresolved \cup {"SUCCEEDED"}
  BY <1>1, <1>2, <1>3 DEF RevokeFollows, Statuses, Unresolved, DatabaseStep, RevokesSettle
<1>6. ASSUME revocation[r] = "sent", revokeAction'[r].target \notin disturbed'
      PROVE  revokeAction'[r].status \in Unresolved
  <2>1. revokeAction[r].target \notin disturbed /\ revokeAction[r].status \in Unresolved
    BY <1>4, <1>6 DEF DatabaseStep, PlatformInv, RevokesPosted
  <2>2. ~ShownGone(r)
    BY <1>6, <2>1 DEF ShownGone, PlatformInv, CallsPosted
  <2>3. revokeAction'[r].status # "SUCCEEDED"
    BY <2>1, <2>2 DEF DatabaseStep, RevokesSettle
  <2> QED BY <1>5, <2>3
<1> QED BY <1>5, <1>6

\* The inventory shows that the undisturbed target of an unresolved revocation is gone:
\* its POST took effect.
LEMMA GoneByPost ==
  ASSUME RowTypes, RowsMatch, PlatformInv, NEW r \in RevokeIds,
         revokeAction[r].status \in Unresolved, revokeAction[r].target \notin authorized,
         revokeAction[r].target \notin disturbed
  PROVE  revocation[r] = "done"
<1> DEFINE a == revokeAction[r].assoc
           d == revokeAction[r].target
<1>1. a \in AssociationIds /\ d \in Devices /\ Holds(a, d)
  BY DEF RowTypes, RowsMatch, RevokesMatch, RevokeFits, Holds, Open, Unresolved
<1>2. PICK q \in RevokeIds : revokeAction[q].assoc = a /\ revocation[q] = "done"
  BY <1>1 DEF PlatformInv, HeldAuthorized
<1>3. revokeAction[q].status \in Unresolved \cup {"SUCCEEDED"}
  BY <1>2 DEF PlatformInv, RevokesPosted
<1>4. revokeAction[q].status # "SUCCEEDED"
  BY <1>1, <1>2 DEF RowsMatch, RevokesMatch, RevokeFits, Holds, Open
<1>5. q = r
  BY <1>2, <1>3, <1>4 DEF RowsMatch, RevokesMatch
<1> QED BY <1>2, <1>5

LEMMA CallsStep ==
  ASSUME TypeInv, PostInv, MatchInv, CallsOwn', TypeInv', PlatformInv, RowStep, DatabaseStep
  PROVE  CallsPosted'
<1>0. RowTypes /\ RowsMatch
  BY RowsTyped DEF MatchInv
<1> SUFFICES ASSUME NEW p \in Processes
             PROVE  LET r == call'[p].revoke IN
                    /\ call'[p].step = "revoke" /\ revokeAction'[r].target \notin disturbed' =>
                         revokeAction'[r].status \in Unresolved
                    /\ /\ call'[p].step = "confirmed" /\ revokeAction'[r].target \notin disturbed'
                       /\ revokeAction'[r].status \in Unresolved
                       => revocation[r] = "done"
  BY DEF CallsPosted, DatabaseStep
<1> DEFINE r == call'[p].revoke
<1>1. ASSUME call'[p].step = "revoke", revokeAction'[r].target \notin disturbed'
      PROVE  revokeAction'[r].status \in Unresolved
  <2>1. CASE call[p].step = "revoke" /\ call[p].revoke = r
    <3>1. r \in RevokeIds /\ revokeAction[r].status \in Statuses /\ revokesSent[r] = 0
      BY <2>1 DEF TypeInv, CallNamesRows, RevokePlaces, RevokeRow, PostInv, ArmedBeforePost
    <3>2. revokeAction[r].target \notin disturbed
      BY <1>0, <1>1, <3>1, RevokesFollow DEF RevokeFollows, DatabaseStep, Statuses
    <3>3. revokeAction[r].status \in Unresolved /\ revocation[r] = "unsent"
      BY <2>1, <3>1, <3>2 DEF PlatformInv, CallsPosted, RevokesPosted
    <3>4. ~ShownGone(r)
      BY <3>2, <3>3 DEF ShownGone, PlatformInv, CallsPosted
    <3>5. revokeAction'[r].status # "SUCCEEDED"
      BY <3>1, <3>3, <3>4 DEF DatabaseStep, RevokesSettle
    <3>6. revokeAction'[r].status # "FAILED"
      BY <1>1 DEF CallsOwn, RevokePlaces
    <3> QED BY <1>0, <3>1, <3>3, <3>5, <3>6, RevokesFollow DEF RevokeFollows, Statuses, Unresolved
  <2> QED BY <1>1, <2>1 DEF DatabaseStep, CallsSettle
<1>2. ASSUME call'[p].step = "confirmed", revokeAction'[r].target \notin disturbed',
             revokeAction'[r].status \in Unresolved
      PROVE  revocation[r] = "done"
  <2>1. r \in RevokeIds /\ revokeAction[r].status \in Statuses
    BY <1>2 DEF DatabaseStep, CallsSettle, TypeInv, CallNamesRows, RevokePlaces, RevokeRow
  <2>2. revokeAction[r].target \notin disturbed /\ revokeAction[r].status \in Unresolved
    BY <1>0, <1>2, <2>1, RevokesFollow DEF RevokeFollows, DatabaseStep, Statuses, Unresolved
  <2>3. CASE call[p].step = "confirmed" /\ call[p].revoke = r
    BY <2>2, <2>3 DEF PlatformInv, CallsPosted
  <2>4. CASE revokeAction[r].target \notin authorized
    BY <1>0, <2>1, <2>2, <2>4, GoneByPost
  <2> QED BY <1>2, <2>3, <2>4 DEF DatabaseStep, CallsSettle
<1> QED BY <1>1, <1>2

LEMMA HeldStep ==
  ASSUME RowTypes, PlatformInv, RowStep, DatabaseStep
  PROVE  HeldAuthorized'
<1>1. SUFFICES ASSUME NEW a \in AssociationIds, NEW d \in Devices, Holds(a, d)'
               PROVE  \/ d \in authorized \cup disturbed'
                      \/ \E r \in RevokeIds : revokeAction'[r].assoc = a /\ revocation[r] = "done"
  BY DEF HeldAuthorized, DatabaseStep
<1>2. \/ d \in authorized \cup disturbed'
      \/ \E r \in RevokeIds : revokeAction[r].assoc = a /\ revocation[r] = "done"
  BY <1>1 DEF DatabaseStep, HoldersStay, PlatformInv, HeldAuthorized
<1>3. ASSUME NEW r \in RevokeIds, revokeAction[r].assoc = a, revocation[r] = "done"
      PROVE  revokeAction'[r].assoc = a
  BY <1>3, RevokesFollow DEF RevokeFollows, PlatformInv, RevokesPosted, Unresolved
<1> QED BY <1>2, <1>3

LEMMA GoneStep ==
  ASSUME TypeInv, TypeInv', MatchInv, MatchInv', ExclusiveSlots', PlatformInv, RowStep, DatabaseStep
  PROVE  GoneOrAwaited'
<1>0. RowTypes /\ RowsMatch /\ RowTypes' /\ RowsMatch'
  BY RowsTyped, RowsTypedNext DEF MatchInv
<1>1. SUFFICES ASSUME NEW r \in RevokeIds, revokeAction'[r].status \in Unresolved, ShownGone(r)'
               PROVE  (\/ revokeAction[r].target \notin authorized
                       \/ Awaited(revokeAction[r].target))'
  BY DEF GoneOrAwaited
<1>2. PICK d : d = revokeAction[r].target
  OBVIOUS
<1>3. \/ ShownGone(r) /\ revokeAction[r].status # "NONE"
      \/ d \notin authorized /\ revokeAction[r].status # "NONE"
  <2>1. CASE revocation[r] = "done"
    BY <2>1 DEF ShownGone, PlatformInv, RevokesPosted, Unresolved
  <2>2. ASSUME NEW p \in Processes, call'[p].step = "confirmed", call'[p].revoke = r
        PROVE  \/ ShownGone(r) /\ revokeAction[r].status # "NONE"
               \/ d \notin authorized /\ revokeAction[r].status # "NONE"
    <3>1. CASE call[p].step = "confirmed" /\ call[p].revoke = r
      BY <3>1 DEF ShownGone, TypeInv, CallNamesRows, RevokePlaces, RevokeRow, Statuses
    <3> QED BY <1>2, <2>2, <3>1 DEF DatabaseStep, CallsSettle, Statuses
  <2> QED BY <1>1, <2>1, <2>2 DEF ShownGone, DatabaseStep
<1>4. /\ revokeAction[r].status \in Unresolved /\ d \in Devices
      /\ revokeAction'[r].target = d /\ revokeAction'[r].assoc = revokeAction[r].assoc
  BY <1>0, <1>1, <1>2, <1>3, RevokesFollow DEF RevokeFollows, RowTypes, Statuses, Unresolved
<1>5. CASE d \notin authorized
  BY <1>4, <1>5 DEF DatabaseStep
<1>6. CASE Awaited(d)
  <2>1. ASSUME NEW l \in Links, authAction[l].status \in Unresolved,
               Holds(authAction[l].assoc, d)'
        PROVE  FALSE
    <3>1. /\ authAction[l].assoc \in AssociationIds /\ revokeAction[r].assoc \in AssociationIds
          /\ association[authAction[l].assoc].device = None
          /\ association[revokeAction[r].assoc].device = d
      BY <1>0, <1>2, <1>4, <2>1 DEF RowTypes, RowsMatch, AuthsMatch, AuthFits, RevokesMatch,
         RevokeFits, Unresolved
    <3>2. authAction'[l].assoc = authAction[l].assoc
      BY <1>0, <2>1, LinksFollow DEF LinkFollows, Unresolved
    <3>3. Holds(revokeAction[r].assoc, d)'
      BY <1>0, <1>1, <1>4 DEF RowsMatch, RevokesMatch, RevokeFits, Holds, Open, Unresolved
    <3>4. d # None
      BY <1>4, NoneAssumption
    <3> QED BY <1>4, <2>1, <3>1, <3>3, <3>4, <3>2 DEF Holds, ExclusiveSlots
  <2>2. Awaited(d)'
    BY <1>0, <1>4, <1>6, <2>1, AwaitedGoesOn
  <2> QED BY <1>4, <2>2
<1>7. ShownGone(r) => d \notin authorized \/ Awaited(d)
  BY <1>2, <1>4 DEF PlatformInv, GoneOrAwaited
<1> QED BY <1>3, <1>5, <1>6, <1>7

LEMMA GrantsStep ==
  ASSUME TypeInv, MatchInv, MatchInv', TypeInv', FreshRows, PlatformInv, RowStep, DatabaseStep
  PROVE  GrantsAccountedFor'
<1>0. RowTypes /\ RowsMatch /\ RowTypes' /\ RowsMatch'
  BY RowsTyped, RowsTypedNext DEF MatchInv
<1>1. SUFFICES ASSUME NEW d \in Devices, d \in managed', d \in authorized
               PROVE  HoldersOf(d)' # {} \/ Awaited(d)'
  <2>1. ASSUME NEW l \in Links, authAction'[l].status \in Unresolved
        PROVE  Open(authAction[l].assoc)'
    BY <1>0, <2>1 DEF RowsMatch, AuthsMatch, AuthFits, Open, Unresolved
  <2>2. authorized' = authorized /\ managed' \subseteq Devices
    BY DEF DatabaseStep, TypeInv, TypeOK
  <2> QED BY <2>1, <2>2 DEF GrantsAccountedFor, Awaited
<1>2. CASE d \notin managed
  BY <1>1, <1>2 DEF DatabaseStep
<1>3. CASE Awaited(d)
  <2>1. ASSUME NEW l \in Links, authAction[l].status \in Unresolved,
               Holds(authAction[l].assoc, d)'
        PROVE  HoldersOf(d)' # {}
    BY <1>0, <2>1, LinksFollow DEF LinkFollows, RowTypes, Unresolved, Holds, HoldersOf
  <2>2. \/ Awaited(d)'
        \/ \E l \in Links : authAction[l].status \in Unresolved /\ Holds(authAction[l].assoc, d)'
    BY <1>0, <1>3, AwaitedGoesOn
  <2> QED BY <2>1, <2>2
<1>4. ASSUME NEW a \in AssociationIds, Holds(a, d)
      PROVE  HoldersOf(d)' # {} \/ Awaited(d)'
  <2>1. CASE Holds(a, d)'
    BY <2>1 DEF HoldersOf, Holds
  <2>2. ASSUME NEW r \in RevokeIds, revokeAction[r].assoc = a,
               revokeAction[r].status \in Unresolved, revokeAction'[r].status = "SUCCEEDED"
        PROVE  Awaited(d)
    <3>1. revokeAction[r].target = d
      BY <1>0, <1>4, <2>2 DEF RowsMatch, RevokesMatch, RevokeFits, Holds, Unresolved
    <3>2. ShownGone(r)
      BY <2>2 DEF DatabaseStep, RevokesSettle
    <3> QED BY <1>1, <2>2, <3>1, <3>2 DEF PlatformInv, GoneOrAwaited
  <2> QED BY <1>0, <1>3, <1>4, <2>1, <2>2, HoldersGoOn
<1>5. CASE d \in managed
  BY <1>1, <1>3, <1>4, <1>5 DEF PlatformInv, GrantsAccountedFor, HoldersOf, Holds, Awaited
<1> QED BY <1>2, <1>5

LEMMA DatabaseStepKeeps ==
  ASSUME TypeInv, TypeInv', SafetyInv, SafetyInv', MatchInv, MatchInv', PlatformInv, RowStep,
         DatabaseStep
  PROVE  PlatformInv'
<1>1. RowTypes
  BY RowsTyped
<1>2. LinksPosted' /\ RevokesPosted' /\ HeldAuthorized'
  BY <1>1, LinksStep, RevokesStep, HeldStep
<1>3. CallsPosted' /\ GoneOrAwaited' /\ GrantsAccountedFor'
  BY CallsStep, GoneStep, GrantsStep DEF SafetyInv, MatchInv
<1> QED BY <1>2, <1>3 DEF PlatformInv

-----------------------------------------------------------------------------
(* Steps of the platform, and the two that send a POST.                    *)

LEMMA HoldersUnchanged ==
  ASSUME UNCHANGED database
  PROVE  /\ \A a \in AssociationIds, d \in Devices : Holds(a, d)' <=> Holds(a, d)
         /\ \A d \in Devices : HoldersOf(d)' = HoldersOf(d)
BY DEF database, Holds, HoldersOf, Open

\* A device that is authorized and was managed stays so, and no device is awaited less.
LEMMA GrantsUnchanged ==
  ASSUME TypeInv, UNCHANGED database, GrantsAccountedFor,
         managed' \cap authorized' \subseteq managed \cap authorized,
         \A l \in Links : authAction[l].status \in Unresolved /\ granted[l] # None =>
                            granted'[l] = granted[l]
  PROVE  GrantsAccountedFor'
<1> SUFFICES ASSUME NEW d \in managed' \cap authorized'
             PROVE  \/ HoldersOf(d)' # {}
                    \/ \E l \in Links : /\ authAction'[l].status \in Unresolved
                                        /\ granted'[l] = d /\ Open(authAction[l].assoc)'
  BY DEF GrantsAccountedFor
<1>1. d \in managed \cap authorized /\ d \in Devices
  BY DEF TypeInv, TypeOK
<1>2. d # None
  BY <1>1, NoneAssumption
<1>3. CASE HoldersOf(d) # {}
  BY <1>1, <1>3, HoldersUnchanged
<1>4. ASSUME NEW l \in Links, authAction[l].status \in Unresolved, granted[l] = d,
             Open(authAction[l].assoc)
      PROVE  /\ authAction'[l].status \in Unresolved
             /\ granted'[l] = d /\ Open(authAction[l].assoc)'
  BY <1>2, <1>4 DEF database, Open
<1> QED BY <1>1, <1>3, <1>4 DEF GrantsAccountedFor

LEMMA SendApproveKeepsPlatform ==
  ASSUME NEW p \in Processes, TypeInv, PostInv, MatchInv, PlatformInv, SendApprove(p)
  PROVE  PlatformInv'
<1>0. PICK l \in Links : l = call[p].link
  BY DEF SendApprove, TypeInv, CallNamesRows, AuthPlaces
<1>1. /\ UNCHANGED database
      /\ UNCHANGED <<authorized, revocation, granted, managed, disturbed, revokesSent>>
      /\ approval' = [approval EXCEPT ![l] = "sent"]
      /\ approvalsSent' = [approvalsSent EXCEPT ![l] = @ + 1]
      /\ Move(p, "approving") /\ call[p].step = "approve"
  BY <1>0 DEF SendApprove
<1>2. TypeOK
  BY DEF TypeInv
<1>3. authAction[l].status \in Unresolved /\ approvalsSent[l] = 0
  BY <1>0, <1>1 DEF MatchInv, CallsOwn, AuthPlaces, PostInv, ArmedBeforePost
<1>4. approval[l] = "unsent" /\ granted[l] = None
  BY <1>3 DEF PlatformInv, LinksPosted
<1>5. /\ approval'[l] = "sent" /\ approvalsSent'[l] = 1
      /\ \A k \in Links \ {l} : approval'[k] = approval[k] /\ approvalsSent'[k] = approvalsSent[k]
  BY <1>1, <1>2, <1>3 DEF TypeOK
<1>6. LinksPosted'
  <2>1. SUFFICES ASSUME NEW k \in Links
                 PROVE  /\ approvalsSent'[k] = 0 => approval'[k] = "unsent"
                        /\ approval'[k] # "granted" => granted[k] = None
                        /\ approval'[k] = "sent" => authAction[k].status \in Unresolved
                        /\ approval'[k] = "granted" =>
                             authAction[k].status \in Unresolved \cup {"SUCCEEDED"}
                        /\ authAction[k].status = "SUCCEEDED" => approval'[k] = "granted"
    BY <1>1 DEF LinksPosted, database
  <2>2. CASE k = l
    BY <1>3, <1>4, <1>5, <2>2 DEF Unresolved
  <2>3. CASE k # l
    BY <1>5, <2>3 DEF PlatformInv, LinksPosted
  <2> QED BY <2>2, <2>3
<1>7. RevokesPosted'
  BY <1>1 DEF database, PlatformInv, RevokesPosted
<1>8. /\ \A q \in Processes \ {p} : call'[q] = call[q]
      /\ call'[p].step = "approving"
  BY <1>1, <1>2, MoveType DEF Steps
<1>9. CallsPosted'
  BY <1>1, <1>8 DEF database, PlatformInv, CallsPosted
<1>10. HeldAuthorized'
  BY <1>1, HoldersUnchanged DEF database, PlatformInv, HeldAuthorized
<1>11. GoneOrAwaited'
  BY <1>1, <1>8 DEF database, PlatformInv, GoneOrAwaited, ShownGone, Awaited
<1>12. GrantsAccountedFor'
  BY <1>1, GrantsUnchanged DEF PlatformInv
<1> QED BY <1>6, <1>7, <1>9, <1>10, <1>11, <1>12 DEF PlatformInv

LEMMA SendRevokeKeepsPlatform ==
  ASSUME NEW p \in Processes, TypeInv, PostInv, MatchInv, PlatformInv, SendRevoke(p)
  PROVE  PlatformInv'
<1>0. PICK r \in RevokeIds : r = call[p].revoke
  BY DEF SendRevoke, TypeInv, CallNamesRows, RevokePlaces
<1>1. /\ UNCHANGED database
      /\ UNCHANGED <<authorized, approval, granted, managed, disturbed, approvalsSent>>
      /\ revocation' = [revocation EXCEPT ![r] = "sent"]
      /\ revokesSent' = [revokesSent EXCEPT ![r] = @ + 1]
      /\ Move(p, "revoking") /\ call[p].step = "revoke"
  BY <1>0 DEF SendRevoke
<1>2. TypeOK
  BY DEF TypeInv
<1>3. revokeAction[r].status \in Unresolved \cup {"SUCCEEDED"} /\ revokesSent[r] = 0
  BY <1>0, <1>1 DEF TypeInv, CallNamesRows, RevokeRow, Statuses, Unresolved, MatchInv, CallsOwn,
     RevokePlaces, PostInv, ArmedBeforePost
<1>4. /\ revocation[r] = "unsent"
      /\ revokeAction[r].target \notin disturbed => revokeAction[r].status \in Unresolved
  BY <1>0, <1>1, <1>3 DEF PlatformInv, RevokesPosted, CallsPosted
<1>5. /\ revocation'[r] = "sent" /\ revokesSent'[r] = 1
      /\ \A k \in RevokeIds \ {r} : revocation'[k] = revocation[k] /\ revokesSent'[k] = revokesSent[k]
  BY <1>1, <1>2, <1>3 DEF TypeOK
<1>6. LinksPosted'
  BY <1>1 DEF database, PlatformInv, LinksPosted
<1>7. RevokesPosted'
  <2>1. SUFFICES ASSUME NEW k \in RevokeIds
                 PROVE  /\ revokesSent'[k] = 0 => revocation'[k] = "unsent"
                        /\ revocation'[k] # "unsent" =>
                             revokeAction[k].status \in Unresolved \cup {"SUCCEEDED"}
                        /\ revocation'[k] = "sent" /\ revokeAction[k].target \notin disturbed =>
                             revokeAction[k].status \in Unresolved
    BY <1>1 DEF RevokesPosted, database
  <2>2. CASE k = r
    BY <1>3, <1>4, <1>5, <2>2
  <2>3. CASE k # r
    BY <1>5, <2>3 DEF PlatformInv, RevokesPosted
  <2> QED BY <2>2, <2>3
<1>8. /\ \A q \in Processes \ {p} : call'[q] = call[q]
      /\ call'[p].step = "revoking"
  BY <1>1, <1>2, MoveType DEF Steps
<1>9. \A k \in RevokeIds : revocation'[k] = "done" <=> revocation[k] = "done"
  BY <1>4, <1>5
<1>10. CallsPosted'
  <2>1. SUFFICES ASSUME NEW q \in Processes \ {p}
                 PROVE  LET k == call[q].revoke IN
                        /\ call[q].step = "revoke" /\ revokeAction[k].target \notin disturbed =>
                             revokeAction[k].status \in Unresolved
                        /\ /\ call[q].step = "confirmed" /\ revokeAction[k].target \notin disturbed
                           /\ revokeAction[k].status \in Unresolved
                           => revocation'[k] = "done"
    BY <1>1, <1>8 DEF CallsPosted, database
  <2>2. call[q].step = "confirmed" => call[q].revoke \in RevokeIds
    BY DEF TypeInv, CallNamesRows, RevokePlaces
  <2> QED BY <1>9, <2>2 DEF PlatformInv, CallsPosted
<1>11. HeldAuthorized'
  BY <1>1, <1>9, HoldersUnchanged DEF database, PlatformInv, HeldAuthorized
<1>12. GoneOrAwaited'
  BY <1>1, <1>8, <1>9 DEF database, PlatformInv, GoneOrAwaited, ShownGone, Awaited
<1>13. GrantsAccountedFor'
  BY <1>1, GrantsUnchanged DEF PlatformInv
<1> QED BY <1>6, <1>7, <1>10, <1>11, <1>12, <1>13 DEF PlatformInv

LEMMA RemoteApproveKeepsPlatform ==
  ASSUME NEW l \in Links, NEW d \in Devices, TypeInv, MatchInv, PlatformInv,
         RemoteApprove(l, d)
  PROVE  PlatformInv'
<1>1. /\ UNCHANGED database
      /\ UNCHANGED <<call, revocation, disturbed, approvalsSent, revokesSent>>
      /\ approval' = [approval EXCEPT ![l] = "granted"] /\ granted' = [granted EXCEPT ![l] = d]
      /\ authorized' = authorized \cup {d} /\ managed' = managed \cup {d}
      /\ approval[l] = "sent"
  BY DEF RemoteApprove
<1>2. TypeOK
  BY DEF TypeInv
<1>3. /\ approval'[l] = "granted" /\ granted'[l] = d
      /\ \A k \in Links \ {l} : approval'[k] = approval[k] /\ granted'[k] = granted[k]
  BY <1>1, <1>2 DEF TypeOK
<1>4. authAction[l].status \in Unresolved /\ granted[l] = None /\ approvalsSent[l] # 0
  BY <1>1 DEF PlatformInv, LinksPosted
<1>5. LinksPosted'
  <2>1. SUFFICES ASSUME NEW k \in Links
                 PROVE  /\ approvalsSent[k] = 0 => approval'[k] = "unsent"
                        /\ approval'[k] # "granted" => granted'[k] = None
                        /\ approval'[k] = "sent" => authAction[k].status \in Unresolved
                        /\ approval'[k] = "granted" =>
                             authAction[k].status \in Unresolved \cup {"SUCCEEDED"}
                        /\ authAction[k].status = "SUCCEEDED" => approval'[k] = "granted"
    BY <1>1 DEF LinksPosted, database
  <2>2. CASE k = l
    BY <1>3, <1>4, <2>2
  <2>3. CASE k # l
    BY <1>3, <2>3 DEF PlatformInv, LinksPosted
  <2> QED BY <2>2, <2>3
<1>6. RevokesPosted' /\ CallsPosted'
  BY <1>1 DEF database, PlatformInv, RevokesPosted, CallsPosted
<1>7. HeldAuthorized'
  BY <1>1, HoldersUnchanged DEF database, PlatformInv, HeldAuthorized
<1>8. Awaited(d)' /\ authAction' = authAction
  BY <1>1, <1>3, <1>4 DEF database, Awaited
<1>9. ASSUME NEW e \in Devices, Awaited(e) PROVE Awaited(e)'
  <2>1. PICK k \in Links : authAction[k].status \in Unresolved /\ granted[k] = e
    BY <1>9 DEF Awaited
  <2>2. k # l
    BY <1>4, <2>1, NoneAssumption
  <2> QED BY <1>3, <1>8, <2>1, <2>2 DEF Awaited
<1>10. GoneOrAwaited'
  <2>1. SUFFICES ASSUME NEW r \in RevokeIds, revokeAction[r].status \in Unresolved, ShownGone(r),
                        NEW e, e = revokeAction[r].target
                 PROVE  e \notin authorized' \/ Awaited(e)'
    BY <1>1 DEF GoneOrAwaited, ShownGone, Awaited, database
  <2>2. e \in Devices
    BY <2>1, RowsTyped DEF RowTypes, Unresolved
  <2>3. e \notin authorized \/ Awaited(e)
    BY <2>1 DEF PlatformInv, GoneOrAwaited
  <2> QED BY <1>1, <1>8, <1>9, <2>2, <2>3
<1>11. GrantsAccountedFor'
  <2>1. SUFFICES ASSUME NEW e \in managed' \cap authorized'
                 PROVE  HoldersOf(e)' # {} \/ Awaited(e)'
    <3>1. ASSUME NEW k \in Links, authAction[k].status \in Unresolved
          PROVE  Open(authAction[k].assoc)'
      BY <1>1, <3>1 DEF MatchInv, RowsMatch, AuthsMatch, AuthFits, Open, Unresolved, database
    <3> QED BY <1>8, <3>1 DEF GrantsAccountedFor, Awaited
  <2>2. e \in Devices
    BY <1>1, <1>2 DEF TypeOK
  <2>3. CASE e # d
    BY <1>1, <1>9, <2>2, <2>3, HoldersUnchanged DEF PlatformInv, GrantsAccountedFor, Awaited
  <2> QED BY <1>8, <2>3
<1> QED BY <1>5, <1>6, <1>7, <1>10, <1>11 DEF PlatformInv

LEMMA RemoteDenyKeepsPlatform ==
  ASSUME NEW l \in Links, TypeInv, PlatformInv, RemoteDeny(l)
  PROVE  PlatformInv'
<1>1. /\ UNCHANGED database
      /\ UNCHANGED <<call, authorized, revocation, granted, managed, disturbed, approvalsSent,
                     revokesSent>>
      /\ approval' = [approval EXCEPT ![l] = "denied"] /\ approval[l] = "sent"
  BY DEF RemoteDeny
<1>2. TypeOK
  BY DEF TypeInv
<1>3. /\ approval'[l] = "denied" /\ approvalsSent[l] # 0 /\ granted[l] = None
      /\ authAction[l].status \in Unresolved
      /\ \A k \in Links \ {l} : approval'[k] = approval[k]
  BY <1>1, <1>2 DEF TypeOK, PlatformInv, LinksPosted
<1>4. LinksPosted'
  <2>1. SUFFICES ASSUME NEW k \in Links
                 PROVE  /\ approvalsSent[k] = 0 => approval'[k] = "unsent"
                        /\ approval'[k] # "granted" => granted[k] = None
                        /\ approval'[k] = "sent" => authAction[k].status \in Unresolved
                        /\ approval'[k] = "granted" =>
                             authAction[k].status \in Unresolved \cup {"SUCCEEDED"}
                        /\ authAction[k].status = "SUCCEEDED" => approval'[k] = "granted"
    BY <1>1 DEF LinksPosted, database
  <2>2. CASE k = l
    BY <1>3, <2>2 DEF Unresolved
  <2>3. CASE k # l
    BY <1>3, <2>3 DEF PlatformInv, LinksPosted
  <2> QED BY <2>2, <2>3
<1>5. RevokesPosted' /\ CallsPosted'
  BY <1>1 DEF database, PlatformInv, RevokesPosted, CallsPosted
<1>6. HeldAuthorized'
  BY <1>1, HoldersUnchanged DEF database, PlatformInv, HeldAuthorized
<1>7. GoneOrAwaited'
  BY <1>1 DEF database, PlatformInv, GoneOrAwaited, ShownGone, Awaited
<1>8. GrantsAccountedFor'
  BY <1>1, GrantsUnchanged DEF PlatformInv
<1> QED BY <1>4, <1>5, <1>6, <1>7, <1>8 DEF PlatformInv

LEMMA RemoteRevokeKeepsPlatform ==
  ASSUME NEW r \in RevokeIds, TypeInv, ExclusiveSlots, MatchInv, PlatformInv, RemoteRevoke(r)
  PROVE  PlatformInv'
<1>0. PICK t : t = revokeAction[r].target
  OBVIOUS
<1>1. /\ UNCHANGED database
      /\ UNCHANGED <<call, approval, granted, managed, disturbed, approvalsSent, revokesSent>>
      /\ revocation' = [revocation EXCEPT ![r] = "done"] /\ revocation[r] = "sent"
      /\ authorized' = authorized \ {t}
  BY <1>0 DEF RemoteRevoke
<1>2. TypeOK /\ RowTypes
  BY RowsTyped DEF TypeInv
<1>3. /\ revocation'[r] = "done" /\ revokesSent[r] # 0
      /\ \A k \in RevokeIds \ {r} : revocation'[k] = revocation[k]
      /\ \A k \in RevokeIds : revocation[k] = "done" => revocation'[k] = "done"
  BY <1>1, <1>2 DEF TypeOK, PlatformInv, RevokesPosted
<1>4. LinksPosted'
  BY <1>1 DEF database, PlatformInv, LinksPosted
<1>5. RevokesPosted'
  <2>1. SUFFICES ASSUME NEW k \in RevokeIds
                 PROVE  /\ revokesSent[k] = 0 => revocation'[k] = "unsent"
                        /\ revocation'[k] # "unsent" =>
                             revokeAction[k].status \in Unresolved \cup {"SUCCEEDED"}
                        /\ revocation'[k] = "sent" /\ revokeAction[k].target \notin disturbed =>
                             revokeAction[k].status \in Unresolved
    BY <1>1 DEF RevokesPosted, database
  <2>2. CASE k = r
    BY <1>1, <1>3, <2>2 DEF PlatformInv, RevokesPosted
  <2>3. CASE k # r
    BY <1>3, <2>3 DEF PlatformInv, RevokesPosted
  <2> QED BY <2>2, <2>3
<1>6. CallsPosted'
  <2>1. SUFFICES ASSUME NEW q \in Processes
                 PROVE  LET k == call[q].revoke IN
                        /\ call[q].step = "revoke" /\ revokeAction[k].target \notin disturbed =>
                             revokeAction[k].status \in Unresolved
                        /\ /\ call[q].step = "confirmed" /\ revokeAction[k].target \notin disturbed
                           /\ revokeAction[k].status \in Unresolved
                           => revocation'[k] = "done"
    BY <1>1 DEF CallsPosted, database
  <2>2. call[q].step = "confirmed" => call[q].revoke \in RevokeIds
    BY DEF TypeInv, CallNamesRows, RevokePlaces
  <2> QED BY <1>3, <2>2 DEF PlatformInv, CallsPosted
<1>7. HeldAuthorized'
  <2>1. SUFFICES ASSUME NEW a \in AssociationIds, NEW d \in Devices, Holds(a, d)
                 PROVE  \/ d \in authorized' \cup disturbed
                        \/ \E k \in RevokeIds : revokeAction[k].assoc = a /\ revocation'[k] = "done"
    BY <1>1, HoldersUnchanged DEF HeldAuthorized, database
  <2>2. CASE d = t /\ d \notin disturbed
    <3>1. revokeAction[r].status \in Unresolved
      BY <1>0, <1>1, <2>2 DEF PlatformInv, RevokesPosted
    <3>2. revokeAction[r].assoc \in AssociationIds /\ Holds(revokeAction[r].assoc, d)
      BY <1>0, <1>2, <2>2, <3>1
      DEF RowTypes, MatchInv, RowsMatch, RevokesMatch, RevokeFits, Holds, Open, Unresolved
    <3>3. revokeAction[r].assoc = a
      BY <2>1, <3>2, NoneAssumption DEF ExclusiveSlots, Holds
    <3> QED BY <1>3, <3>3
  <2>3. CASE d # t
    BY <1>1, <1>3, <2>1, <2>3 DEF PlatformInv, HeldAuthorized
  <2> QED BY <2>2, <2>3
<1>8. GoneOrAwaited'
  <2>1. SUFFICES ASSUME NEW k \in RevokeIds, revokeAction[k].status \in Unresolved, ShownGone(k)',
                        NEW e, e = revokeAction[k].target
                 PROVE  e \notin authorized' \/ Awaited(e)
    BY <1>1 DEF GoneOrAwaited, Awaited, database
  <2>2. CASE k = r
    BY <1>0, <1>1, <2>1, <2>2
  <2>3. CASE k # r
    <3>1. ShownGone(k)
      BY <1>1, <1>3, <2>1, <2>3 DEF ShownGone
    <3> QED BY <1>1, <2>1, <3>1 DEF PlatformInv, GoneOrAwaited
  <2> QED BY <2>2, <2>3
<1>9. GrantsAccountedFor'
  BY <1>1, GrantsUnchanged DEF PlatformInv
<1> QED BY <1>4, <1>5, <1>6, <1>7, <1>8, <1>9 DEF PlatformInv

LEMMA ConsoleRevokeKeepsPlatform ==
  ASSUME NEW d \in Devices, TypeInv, PlatformInv, ConsoleRevoke(d)
  PROVE  PlatformInv'
<1>1. /\ UNCHANGED database
      /\ UNCHANGED <<call, approval, revocation, granted, managed, approvalsSent, revokesSent>>
      /\ authorized' = authorized \ {d} /\ disturbed' = disturbed \cup {d}
  BY DEF ConsoleRevoke
<1>2. LinksPosted' /\ RevokesPosted' /\ CallsPosted'
  BY <1>1 DEF database, PlatformInv, LinksPosted, RevokesPosted, CallsPosted
<1>3. HeldAuthorized'
  BY <1>1, HoldersUnchanged DEF database, PlatformInv, HeldAuthorized
<1>4. GoneOrAwaited'
  BY <1>1 DEF database, PlatformInv, GoneOrAwaited, ShownGone, Awaited
<1>5. GrantsAccountedFor'
  BY <1>1, GrantsUnchanged DEF PlatformInv
<1> QED BY <1>2, <1>3, <1>4, <1>5 DEF PlatformInv

-----------------------------------------------------------------------------
(* Database steps, action by action.                                       *)

LEMMA LinksUntouched == ASSUME UNCHANGED authAction PROVE LinksSettle
BY DEF LinksSettle, Unresolved

LEMMA RevocationsUntouched == ASSUME UNCHANGED revokeAction PROVE RevokesSettle
BY DEF RevokesSettle, Unresolved

\* A call that sets out for nothing; the other calls stay where they are.
LEMMA CallGoesOn ==
  ASSUME NEW p \in Processes, \A q \in Processes \ {p} : call'[q] = call[q],
         call'[p].step \notin {"revoke", "confirmed"}
  PROVE  CallsSettle
BY DEF CallsSettle

LEMMA QuietStep ==
  ASSUME UNCHANGED platform, AssociationsKept, LinksSettle, RevokesSettle, CallsSettle
  PROVE  DatabaseStep
BY DEF platform, DatabaseStep, AssociationsKept, HoldersStay, Holds, Open

LEMMA ReturnSettles == ASSUME NEW p \in Processes, TypeOK, Return(p) PROVE CallsSettle
<1>1. /\ \A q \in Processes \ {p} : call'[q] = call[q]
      /\ call'[p].step = "idle"
  BY DEF TypeOK, Return, Idle
<1> QED BY <1>1, CallGoesOn

LEMMA MoveSettles ==
  ASSUME NEW p \in Processes, NEW step \in Steps \ {"revoke", "confirmed"}, TypeOK, Move(p, step)
  PROVE  CallsSettle
<1>1. /\ \A q \in Processes \ {p} : call'[q] = call[q]
      /\ call'[p].step = step
  BY MoveType
<1> QED BY <1>1, CallGoesOn

\* A step that only moves calls.
LEMMA CallOnlyStep ==
  ASSUME UNCHANGED <<database, platform>>, CallsSettle
  PROVE  DatabaseStep
BY LinksUntouched, RevocationsUntouched, QuietStep DEF database, AssociationsKept

LEMMA CallMovesStep ==
  ASSUME NEW p \in Processes, TypeInv,
         \/ AuthGiveUp(p) \/ ApproveRaises(p) \/ FinalizeApprovalFails(p)
         \/ AdminList(p) \/ AdminReject(p) \/ ArmRevokeFails(p)
         \/ RevokeRaises(p) \/ FinalizeRevokeFails(p)
         \/ ReconcileListFails(p) \/ RecordFails(p)
  PROVE  DatabaseStep
<1>1. TypeOK /\ UNCHANGED <<database, platform>>
  BY DEF TypeInv, AuthGiveUp, ApproveRaises, FinalizeApprovalFails, AdminList, AdminReject,
     ArmRevokeFails, RevokeRaises, FinalizeRevokeFails, ReconcileListFails, RecordFails
<1>2. CASE FinalizeApprovalFails(p)
  <2>1. /\ \A q \in Processes \ {p} : call'[q] = call[q]
        /\ call'[p].step = "authFailed"
    BY <1>1, <1>2 DEF FinalizeApprovalFails, TypeOK, Call
  <2> QED BY <1>1, <2>1, CallGoesOn, CallOnlyStep
<1>3. CASE AdminList(p) \/ AdminReject(p) \/ RecordFails(p)
  BY <1>1, <1>3, ReturnSettles, MoveSettles, CallOnlyStep
  DEF AdminList, AdminReject, RecordFails, Steps
<1>4. CASE \/ AuthGiveUp(p) \/ ApproveRaises(p) \/ ArmRevokeFails(p) \/ RevokeRaises(p)
           \/ FinalizeRevokeFails(p) \/ ReconcileListFails(p)
  BY <1>1, <1>4, MoveSettles, CallOnlyStep
  DEF AuthGiveUp, ApproveRaises, ArmRevokeFails, RevokeRaises, FinalizeRevokeFails,
      ReconcileListFails, Steps
<1> QED BY <1>2, <1>3, <1>4

LEMMA ReconcileListStep ==
  ASSUME NEW p \in Processes, TypeInv, ReconcileList(p)
  PROVE  DatabaseStep
<1>1. TypeOK /\ UNCHANGED <<database, platform>> /\ call[p].step = "list"
  BY DEF TypeInv, ReconcileList
<1>2. call[p].revoke \in RevokeIds /\ revokeAction[call[p].revoke].status \in Statuses
  BY <1>1 DEF TypeInv, CallNamesRows, RevokePlaces, RevokeRow
<1>3. CASE Move(p, "markUnknown")
  BY <1>1, <1>3, MoveSettles, CallOnlyStep DEF Steps
<1>4. CASE Move(p, "confirmed") /\ revokeAction[call[p].revoke].target \notin authorized
  <2>1. /\ \A q \in Processes \ {p} : call'[q] = call[q]
        /\ call'[p].step = "confirmed" /\ call'[p].revoke = call[p].revoke
    BY <1>1, <1>4, MoveType DEF Steps
  <2>2. CallsSettle
    BY <1>2, <1>4, <2>1 DEF CallsSettle
  <2> QED BY <1>1, <2>2, CallOnlyStep
<1> QED BY <1>3, <1>4 DEF ReconcileList

LEMMA OutsideStep ==
  ASSUME TypeInv,
         \/ \E p \in Requests, u \in Users, d \in Devices : AdminQualify(p, u, d)
         \/ \E p \in Schedulers, r \in RevokeIds : QuotaResume(p, r) \/ ReconcilePrepare(p, r)
         \/ Restart \/ UNCHANGED vars
  PROVE  DatabaseStep
<1>1. UNCHANGED <<database, platform>> /\ TypeOK
  BY DEF AdminQualify, QuotaResume, ReconcilePrepare, Restart, vars, TypeInv
<1>2. CASE Restart
  BY <1>1, <1>2, CallOnlyStep DEF Restart, CallsSettle, Idle
<1>3. CASE UNCHANGED vars
  BY <1>1, <1>3, CallOnlyStep DEF vars, CallsSettle
<1>4. ASSUME NEW p \in Requests, NEW u \in Users, NEW d \in Devices, AdminQualify(p, u, d)
      PROVE  DatabaseStep
  <2>1. /\ p \in Processes /\ \A q \in Processes \ {p} : call'[q] = call[q]
        /\ call'[p].step = "adminList"
    BY <1>1, <1>4 DEF AdminQualify, TypeOK, Processes, Idle
  <2> QED BY <1>1, <2>1, CallGoesOn, CallOnlyStep
<1>5. ASSUME NEW p \in Schedulers, NEW r \in RevokeIds, QuotaResume(p, r) \/ ReconcilePrepare(p, r)
      PROVE  DatabaseStep
  <2>1. /\ p \in Processes /\ \A q \in Processes \ {p} : call'[q] = call[q]
        /\ call'[p].step \in {"armRevoke", "list"}
    BY <1>1, <1>5 DEF QuotaResume, ReconcilePrepare, TypeOK, Processes, Idle
  <2> QED BY <1>1, <2>1, CallGoesOn, CallOnlyStep
<1> QED BY <1>2, <1>3, <1>4, <1>5

\* An AUTH action that fails was never approved.
LEMMA AuthOutcomeSettles ==
  ASSUME NEW l \in Links, NEW target, TypeOK, authAction[l] \in AuthRow,
         \/ UNCHANGED authAction
         \/ MarkAuthUnknown(l, target)
         \/ MarkAuthFailed(l) /\ approval[l] \notin {"sent", "granted"}
  PROVE  LinksSettle
<1>1. \A k \in Links \ {l} : authAction'[k] = authAction[k]
  BY DEF TypeOK, MarkAuthUnknown, MarkAuthFailed
<1>2. \/ authAction'[l] = authAction[l] \/ authAction'[l].status = "UNKNOWN"
      \/ authAction'[l].status = "FAILED" /\ approval[l] \notin {"sent", "granted"}
  BY DEF TypeOK, AuthRow, MarkAuthUnknown, MarkAuthFailed
<1> QED BY <1>1, <1>2 DEF LinksSettle, Unresolved

LEMMA AuthOutcomeStep ==
  ASSUME NEW p \in Processes, TypeInv, PostInv, PlatformInv,
         \/ AuthAbort(p) \/ ApproveDenied(p) \/ ApprovalConflict(p) \/ RecordAuthUnknown(p)
  PROVE  DatabaseStep
<1>0. PICK l \in Links : l = call[p].link /\ authAction[l] \in AuthRow
  BY DEF TypeInv, CallNamesRows, AuthAbort, ApproveDenied, ApprovalConflict, RecordAuthUnknown,
     AuthPlaces
<1>1. TypeOK /\ Return(p) /\ UNCHANGED <<revokeAction, platform>>
  BY DEF TypeInv, AuthAbort, ApproveDenied, ApprovalConflict, RecordAuthUnknown
<1>2. AssociationsKept
  BY AuthQuiet DEF Quiet
<1>3. LinksSettle
  <2>1. CASE AuthAbort(p)
    <3>1. CASE MarkAuthFailed(l) /\ authAction[l].attempt = 0
      <4>1. approvalsSent[l] = 0
        BY <1>1, <3>1 DEF TypeOK, PostInv, PostedOnceAfterArming
      <4>2. approval[l] = "unsent"
        BY <4>1 DEF PlatformInv, LinksPosted
      <4> QED BY <1>0, <1>1, <3>1, <4>2, AuthOutcomeSettles
    <3>2. CASE UNCHANGED authAction
      BY <3>2, LinksUntouched
    <3>3. CASE MarkAuthUnknown(l, authAction[l].target)
      BY <1>0, <1>1, <3>3, AuthOutcomeSettles
    <3>4. authAction[l].attempt \in {0, 1}
      BY <1>0 DEF AuthRow
    <3> QED BY <1>0, <2>1, <3>1, <3>2, <3>3, <3>4 DEF AuthAbort
  <2>2. CASE ApproveDenied(p)
    BY <1>0, <1>1, <2>2, AuthOutcomeSettles, LinksUntouched DEF ApproveDenied
  <2>3. CASE ApprovalConflict(p) \/ RecordAuthUnknown(p)
    <3>1. \/ UNCHANGED authAction \/ \E target : MarkAuthUnknown(l, target)
      BY <1>0, <2>3, Zenon DEF ApprovalConflict, RecordAuthUnknown
    <3> QED BY <1>0, <1>1, <3>1, AuthOutcomeSettles, LinksUntouched
  <2> QED BY <2>1, <2>2, <2>3
<1>4. RevokesSettle /\ CallsSettle
  BY <1>1, RevocationsUntouched, ReturnSettles
<1> QED BY <1>1, <1>2, <1>3, <1>4, QuietStep

LEMMA AuthReplayStep ==
  ASSUME NEW l \in Links, TypeInv, AuthReplay(l)
  PROVE  DatabaseStep
<1>1. /\ TypeOK /\ UNCHANGED <<revokeAction, call, platform>>
      /\ MarkAuthUnknown(l, authAction[l].target) /\ authAction[l] \in AuthRow
  BY DEF TypeInv, TypeOK, AuthReplay, NoAuth
<1>2. AssociationsKept
  BY OtherQuiet DEF Quiet
<1>3. LinksSettle /\ RevokesSettle
  BY <1>1, AuthOutcomeSettles, RevocationsUntouched
<1>4. CallsSettle
  BY <1>1 DEF CallsSettle
<1> QED BY <1>1, <1>2, <1>3, <1>4, QuietStep


\* A REVOKE action that is withdrawn was never armed, so nothing was sent.
LEMMA RevokeOutcomeSettles ==
  ASSUME NEW r \in RevokeIds, TypeOK, PostInv, PlatformInv, revokeAction[r] \in RevokeRow,
         \/ UNCHANGED revokeAction
         \/ MarkRevokeUnknown(r)
         \/ Unarmed(r) /\ Withdraw(r)
  PROVE  RevokesSettle
<1>1. \A k \in RevokeIds \ {r} : revokeAction'[k] = revokeAction[k]
  BY DEF TypeOK, MarkRevokeUnknown, Withdraw
<1>2. \/ revokeAction'[r] = revokeAction[r] \/ revokeAction'[r].status = "UNKNOWN"
      \/ revokeAction'[r].status = "FAILED" /\ Unarmed(r)
  BY DEF TypeOK, RevokeRow, MarkRevokeUnknown, Withdraw
<1>3. Unarmed(r) => revocation[r] = "unsent"
  <2>1. SUFFICES ASSUME revokeAction[r].attempt = 0 PROVE revocation[r] = "unsent"
    BY DEF Unarmed
  <2>2. revokesSent[r] = 0
    BY <2>1 DEF TypeOK, PostInv, PostedOnceAfterArming
  <2> QED BY <2>2 DEF PlatformInv, RevokesPosted
<1> QED BY <1>1, <1>2, <1>3 DEF RevokesSettle, Unresolved

LEMMA RevokeOutcomeStep ==
  ASSUME NEW p \in Processes, TypeInv, PostInv, PlatformInv,
         ArmRevokeWithdraw(p) \/ MarkUnknown(p) \/ (ArmRevoke(p) /\ ~Unarmed(call[p].revoke))
  PROVE  DatabaseStep
<1>0. PICK r \in RevokeIds : r = call[p].revoke /\ revokeAction[r] \in RevokeRow
  BY DEF TypeInv, CallNamesRows, ArmRevokeWithdraw, MarkUnknown, ArmRevoke, RevokePlaces
<1>1. /\ TypeOK /\ Return(p) /\ call[p].step \in RevokePlaces
      /\ UNCHANGED <<authAction, nextAssociation, nextRevoke, deviceRow, platform, faults>>
  BY <1>0 DEF TypeInv, ArmRevokeWithdraw, MarkUnknown, ArmRevoke, RevokePlaces
<1>2. \/ UNCHANGED <<revokeAction, association>>
      \/ /\ revokeAction[r].status # "SUCCEEDED"
         /\ MarkRevokeUnknown(r) \/ (Unarmed(r) /\ Withdraw(r))
  BY <1>0 DEF ArmRevokeWithdraw, MarkUnknown, ArmRevoke, Unarmed
<1>3. AssociationsKept
  BY <1>0, <1>1, <1>2, RevokeOutcomeQuiet DEF Quiet
<1>4. RevokesSettle
  BY <1>0, <1>1, <1>2, RevokeOutcomeSettles
<1>5. LinksSettle /\ CallsSettle
  BY <1>1, LinksUntouched, ReturnSettles
<1> QED BY <1>1, <1>3, <1>4, <1>5, QuietStep

LEMMA RevokeOutsideStep ==
  ASSUME TypeInv, PostInv, PlatformInv,
         \/ \E a \in AssociationIds : RevokeReplay(a)
         \/ \E p \in Schedulers, r \in RevokeIds : QuotaWithdraw(p, r)
  PROVE  DatabaseStep
<1>1. TypeOK /\ UNCHANGED <<authAction, call, platform>>
  BY DEF TypeInv, RevokeReplay, QuotaWithdraw
<1>2. PICK r \in RevokeIds : /\ revokeAction[r].status = "PENDING"
                             /\ MarkRevokeUnknown(r) \/ (Unarmed(r) /\ Withdraw(r))
  BY DEF RevokeReplay, RevokesOf, QuotaWithdraw, Resumable, Unarmed
<1>3. AssociationsKept
  BY OtherQuiet DEF Quiet
<1>4. revokeAction[r] \in RevokeRow
  BY <1>1, <1>2, RevokeRowComplete DEF Unresolved
<1>5. RevokesSettle
  BY <1>1, <1>2, <1>4, RevokeOutcomeSettles
<1>6. LinksSettle /\ CallsSettle
  BY <1>1, LinksUntouched DEF CallsSettle
<1> QED BY <1>1, <1>3, <1>5, <1>6, QuietStep

LEMMA ArmRevokeStep ==
  ASSUME NEW p \in Processes, TypeInv, SafetyInv, ArmRevoke(p), Unarmed(call[p].revoke)
  PROVE  DatabaseStep
<1>0. PICK r \in RevokeIds : r = call[p].revoke /\ revokeAction[r] \in RevokeRow
  BY DEF TypeInv, CallNamesRows, ArmRevoke, RevokePlaces
<1>1. /\ TypeOK /\ Move(p, "revoke") /\ UNCHANGED <<authAction, platform>>
      /\ revokeAction' = [revokeAction EXCEPT ![r].attempt = 1]
      /\ revokeAction[r].status = "PENDING"
  BY <1>0 DEF TypeInv, ArmRevoke, Unarmed
<1>2. \A k \in RevokeIds : revokeAction'[k].status = revokeAction[k].status
  BY <1>0, <1>1 DEF TypeOK, RevokeRow
<1>3. /\ \A q \in Processes \ {p} : call'[q] = call[q]
      /\ call'[p].step = "revoke" /\ call'[p].revoke = r
  BY <1>0, <1>1, MoveType DEF Steps
<1>4. CallsSettle
  BY <1>1, <1>2, <1>3 DEF CallsSettle, Unresolved
<1>5. RevokesSettle
  BY <1>2 DEF RevokesSettle, Unresolved
<1>6. LinksSettle
  BY <1>1, LinksUntouched
<1>7. AssociationsKept
  BY ArmRevokeKeeps
<1> QED BY <1>1, <1>4, <1>5, <1>6, <1>7, QuietStep

\* A revocation is confirmed by its answer or by the inventory.
LEMMA FinalizeRevokeStep ==
  ASSUME NEW p \in Processes, TypeInv, FinalizeRevoke(p)
  PROVE  DatabaseStep
<1>0. PICK r \in RevokeIds : r = call[p].revoke /\ revokeAction[r] \in RevokeRow
  BY DEF TypeInv, CallNamesRows, FinalizeRevoke, Confirmed, RevokePlaces
<1>1. TypeOK /\ Return(p) /\ UNCHANGED <<authAction, platform>>
  BY DEF TypeInv, FinalizeRevoke
<1>2. ShownGone(r)
  BY <1>0 DEF FinalizeRevoke, Confirmed, ShownGone
<1>3. \/ UNCHANGED revokeAction
      \/ revokeAction' = [revokeAction EXCEPT ![r].status = "SUCCEEDED"]
      \/ revokeAction' = [revokeAction EXCEPT ![r].status = "UNKNOWN"]
  BY <1>0 DEF FinalizeRevoke, MarkRevokeUnknown
<1>4. /\ \A k \in RevokeIds \ {r} : revokeAction'[k] = revokeAction[k]
      /\ \/ revokeAction'[r] = revokeAction[r]
         \/ revokeAction'[r].status \in {"SUCCEEDED", "UNKNOWN"}
  BY <1>0, <1>1, <1>3 DEF TypeOK, RevokeRow
<1>5. RevokesSettle
  BY <1>2, <1>4 DEF RevokesSettle, Unresolved
<1>6. LinksSettle /\ CallsSettle
  BY <1>1, LinksUntouched, ReturnSettles
<1>7. AssociationsKept
  BY FinalizeRevokeQuiet DEF Quiet
<1> QED BY <1>1, <1>5, <1>6, <1>7, QuietStep

LEMMA AuthArmStep ==
  ASSUME NEW p \in Processes, TypeInv, SafetyInv, AuthArm(p)
  PROVE  DatabaseStep
<1>0. PICK l \in Links : l = call[p].link /\ authAction[l] \in AuthRow
  BY DEF TypeInv, CallNamesRows, AuthArm, AuthPlaces
<1>1. /\ TypeOK /\ Move(p, "approve") /\ UNCHANGED <<revokeAction, platform>>
      /\ authAction' = [authAction EXCEPT ![l].attempt = 1]
  BY <1>0 DEF TypeInv, AuthArm
<1>2. \A k \in Links : authAction'[k].status = authAction[k].status
  BY <1>0, <1>1 DEF TypeOK, AuthRow
<1>3. LinksSettle
  BY <1>2 DEF LinksSettle, Unresolved
<1>4. RevokesSettle /\ CallsSettle
  BY <1>1, RevocationsUntouched, MoveSettles DEF Steps
<1>5. AssociationsKept
  BY ArmKeeps
<1> QED BY <1>1, <1>3, <1>4, <1>5, QuietStep


LEMMA AuthReserveStep ==
  ASSUME NEW p \in Requests, NEW u \in Users, NEW l \in Links, TypeInv, AuthReserve(p, u, l)
  PROVE  DatabaseStep
<1>0. PICK n \in AssociationIds : n = nextAssociation
  BY BoundAssumption DEF AuthReserve, TypeInv, TypeOK, AssociationIds
<1>1. /\ TypeOK /\ p \in Processes /\ authAction[l].status = "NONE"
      /\ association' = [association EXCEPT ![n] =
                           [NoAssociation EXCEPT !.state = "PENDING_AUTH", !.user = u]]
      /\ authAction' = [authAction EXCEPT ![l] =
                          [NoAuth EXCEPT !.status = "PENDING", !.assoc = n]]
      /\ call' = [call EXCEPT ![p] = [Idle EXCEPT !.step = "describe", !.link = l]]
      /\ UNCHANGED <<revokeAction, platform>>
  BY <1>0 DEF AuthReserve, TypeInv, Processes
<1>2. /\ \A a \in AssociationIds \ {n} : association'[a] = association[a]
      /\ association'[n].device = None
  BY <1>1 DEF TypeOK, NoAssociation
<1>3. HoldersStay
  BY <1>2, NoneAssumption DEF HoldersStay, Holds, Open
<1>4. /\ \A k \in Links \ {l} : authAction'[k] = authAction[k]
  BY <1>1 DEF TypeOK
<1>5. LinksSettle
  BY <1>1, <1>4 DEF LinksSettle, Unresolved
<1>6. /\ \A q \in Processes \ {p} : call'[q] = call[q]
      /\ call'[p].step = "describe"
  BY <1>1 DEF TypeOK, Idle
<1>7. RevokesSettle /\ CallsSettle
  BY <1>1, <1>6, RevocationsUntouched, CallGoesOn
<1> QED BY <1>1, <1>3, <1>5, <1>7 DEF DatabaseStep, platform

LEMMA RevokeReserveStep ==
  ASSUME NEW p \in Processes, NEW a \in AssociationIds, NEW reason \in RevokeReasons, TypeInv,
         FreshRows, RevokeReserve(p, a, reason)
  PROVE  DatabaseStep
<1>0. PICK r \in RevokeIds : r = nextRevoke
  BY BoundAssumption DEF RevokeReserve, TypeInv, TypeOK, RevokeIds
<1>1. /\ TypeOK /\ UNCHANGED <<authAction, platform>> /\ association[a].state = "ACTIVE"
      /\ association' = [association EXCEPT ![a].state = "PENDING_REVOKE",
                           ![a].reason = IF reason = "QUOTA" THEN "QUOTA" ELSE @]
      /\ revokeAction' = [revokeAction EXCEPT ![r] =
                            [NoRevoke EXCEPT !.status = "PENDING", !.assoc = a,
                               !.target = association[a].device, !.reason = reason]]
      /\ call' = [call EXCEPT ![p] = [Idle EXCEPT !.step = "armRevoke", !.revoke = r,
                                                  !.reason = reason]]
  BY <1>0 DEF RevokeReserve, TypeInv
<1>2. /\ \A b \in AssociationIds \ {a} : association'[b] = association[b]
      /\ association'[a].device = association[a].device
  BY <1>1 DEF TypeOK, AssociationRow
<1>3. HoldersStay
  BY <1>1, <1>2 DEF HoldersStay, Holds, Open
<1>4. revokeAction[r].status = "NONE"
  BY <1>0 DEF FreshRows, NoRevoke, TypeInv, TypeOK, RevokeIds
<1>5. \A k \in RevokeIds \ {r} : revokeAction'[k] = revokeAction[k]
  BY <1>1 DEF TypeOK
<1>6. RevokesSettle
  BY <1>4, <1>5 DEF RevokesSettle, Unresolved
<1>7. /\ \A q \in Processes \ {p} : call'[q] = call[q]
      /\ call'[p].step = "armRevoke"
  BY <1>1 DEF TypeOK, Idle
<1>8. LinksSettle /\ CallsSettle
  BY <1>1, <1>7, LinksUntouched, CallGoesOn
<1> QED BY <1>1, <1>3, <1>6, <1>8 DEF DatabaseStep, platform

\* An association takes a device that is not authorized any more only as a disturbed one.
LEMMA FinalizeApprovalStep ==
  ASSUME NEW p \in Processes, TypeInv, FinalizeApproval(p)
  PROVE  DatabaseStep
<1>0. PICK l \in Links : l = call[p].link /\ authAction[l] \in AuthRow /\ granted[l] \in Devices
  BY DEF TypeInv, CallNamesRows, FinalizeApproval, AuthPlaces, GrantNamesDevice
<1>1. PICK a \in AssociationIds, d \in Devices : a = authAction[l].assoc /\ d = granted[l]
  BY <1>0 DEF AuthRow
<1>2. /\ TypeOK /\ approval[l] = "granted" /\ Return(p)
      /\ association' = [association EXCEPT ![a].state = "ACTIVE", ![a].device = d]
      /\ authAction' = [authAction EXCEPT ![l].status = "SUCCEEDED", ![l].target = d]
      /\ disturbed' = IF d \in authorized THEN disturbed ELSE disturbed \cup {d}
      /\ UNCHANGED <<revokeAction, authorized, approval, revocation, granted, managed,
                     approvalsSent, revokesSent>>
  BY <1>0, <1>1 DEF TypeInv, FinalizeApproval
<1>3. /\ \A b \in AssociationIds \ {a} : association'[b] = association[b]
      /\ association'[a].state = "ACTIVE" /\ association'[a].device = d
  BY <1>2 DEF TypeOK, AssociationRow
<1>4. d \in authorized \cup disturbed' /\ disturbed \subseteq disturbed'
  BY <1>2
<1>5. HoldersStay
  BY <1>3, <1>4 DEF HoldersStay, Holds, Open
<1>6. /\ \A k \in Links \ {l} : authAction'[k] = authAction[k]
      /\ authAction'[l].status = "SUCCEEDED"
  BY <1>0, <1>2 DEF TypeOK, AuthRow
<1>7. Holds(a, d)' /\ granted'[l] = d
  BY <1>1, <1>2, <1>3 DEF Holds, Open
<1>8. Holds(authAction[l].assoc, granted[l])'
  <2>1. authAction'[l].assoc = a
    BY <1>0, <1>1, <1>2 DEF TypeOK, AuthRow
  <2> QED BY <1>7, <2>1
<1>9. LinksSettle
  BY <1>2, <1>6, <1>8 DEF LinksSettle, Unresolved
<1>10. RevokesSettle /\ CallsSettle
  BY <1>2, RevocationsUntouched, ReturnSettles
<1> QED BY <1>2, <1>4, <1>5, <1>9, <1>10 DEF DatabaseStep

LEMMA AdminAssociateStep ==
  ASSUME NEW p \in Processes, TypeInv, AdminAssociate(p)
  PROVE  DatabaseStep
<1>0. PICK n \in AssociationIds : n = nextAssociation
  BY BoundAssumption DEF AdminAssociate, TypeInv, TypeOK, AssociationIds
<1>1. PICK d \in Devices : d = call[p].device
  BY DEF AdminAssociate, TypeInv, CallNamesRows, AdminPlaces
<1>2. /\ TypeOK /\ Return(p)
      /\ association' = [association EXCEPT ![n] =
                           [NoAssociation EXCEPT !.state = "ACTIVE", !.user = call[p].user,
                                                 !.device = d]]
      /\ managed' = managed \cup {d}
      /\ disturbed' = IF d \in authorized THEN disturbed ELSE disturbed \cup {d}
      /\ UNCHANGED <<authAction, revokeAction, authorized, approval, revocation, granted,
                     approvalsSent, revokesSent>>
  BY <1>0, <1>1 DEF TypeInv, AdminAssociate
<1>3. /\ \A b \in AssociationIds \ {n} : association'[b] = association[b]
      /\ association'[n].state = "ACTIVE" /\ association'[n].device = d
  BY <1>2 DEF TypeOK, NoAssociation
<1>4. d \in authorized \cup disturbed' /\ disturbed \subseteq disturbed'
  BY <1>2
<1>5. HoldersStay
  BY <1>3, <1>4 DEF HoldersStay, Holds, Open
<1>6. \A e \in managed' \ managed : HoldersOf(e)' # {}
  BY <1>2, <1>3 DEF HoldersOf, Open
<1>7. LinksSettle /\ RevokesSettle /\ CallsSettle
  BY <1>2, LinksUntouched, RevocationsUntouched, ReturnSettles
<1> QED BY <1>2, <1>4, <1>5, <1>6, <1>7 DEF DatabaseStep

-----------------------------------------------------------------------------
(* Every step. *)

\* The steps that touch neither the calls nor the rows, or send a POST.
PlatformSteps ==
  \/ \E p \in Processes : SendApprove(p) \/ SendRevoke(p)
  \/ Platform

LEMMA PlatformStepsKeep ==
  ASSUME TypeInv, SafetyInv, MatchInv, PlatformInv, PlatformSteps
  PROVE  PlatformInv'
BY SendApproveKeepsPlatform, SendRevokeKeepsPlatform, RemoteApproveKeepsPlatform,
   RemoteDenyKeepsPlatform, RemoteRevokeKeepsPlatform, ConsoleRevokeKeepsPlatform
DEF PlatformSteps, Platform, SafetyInv

LEMMA CallStepsSettle ==
  ASSUME NEW p \in Processes, TypeInv, SafetyInv, PlatformInv, CallSteps(p)
  PROVE  DatabaseStep \/ SendApprove(p) \/ SendRevoke(p)
<1>1. CASE AuthSteps(p)
  BY <1>1, CallMovesStep, AuthOutcomeStep, AuthArmStep, FinalizeApprovalStep
  DEF AuthSteps, SafetyInv
<1>2. CASE AdminSteps(p)
  BY <1>2, CallMovesStep, AdminAssociateStep DEF AdminSteps
<1>3. CASE RevokeSteps(p)
  BY <1>3, CallMovesStep, RevokeOutcomeStep, ArmRevokeStep, FinalizeRevokeStep, ReconcileListStep
  DEF RevokeSteps, SafetyInv
<1>4. CASE RecordFails(p)
  BY <1>4, CallMovesStep
<1> QED BY <1>1, <1>2, <1>3, <1>4 DEF CallSteps

LEMMA NextSettles ==
  ASSUME TypeInv, SafetyInv, PlatformInv, [Next]_vars
  PROVE  DatabaseStep \/ PlatformSteps
<1>1. ASSUME NEW p \in Requests, NEW u \in Users, NEW l \in Links, AuthReserve(p, u, l)
      PROVE  DatabaseStep
  BY <1>1, AuthReserveStep
<1>2. ASSUME NEW p \in Processes, NEW a \in AssociationIds, NEW reason \in RevokeReasons,
             RevokeReserve(p, a, reason)
      PROVE  DatabaseStep
  BY <1>2, RevokeReserveStep DEF SafetyInv
<1>3. ASSUME NEW l \in Links, AuthReplay(l) PROVE DatabaseStep
  BY <1>3, AuthReplayStep
<1>4. CASE \/ \E a \in AssociationIds : RevokeReplay(a)
           \/ \E p \in Schedulers, r \in RevokeIds : QuotaWithdraw(p, r)
  BY <1>4, RevokeOutsideStep DEF SafetyInv
<1>5. CASE \/ \E p \in Requests, u \in Users, d \in Devices : AdminQualify(p, u, d)
           \/ \E p \in Schedulers, r \in RevokeIds : QuotaResume(p, r) \/ ReconcilePrepare(p, r)
           \/ Restart \/ UNCHANGED vars
  BY <1>5, OutsideStep
<1>6. ASSUME NEW p \in Processes, CallSteps(p) PROVE DatabaseStep \/ PlatformSteps
  BY <1>6, CallStepsSettle DEF PlatformSteps
<1>7. CASE Platform
  BY <1>7 DEF PlatformSteps
<1> QED BY <1>1, <1>2, <1>3, <1>4, <1>5, <1>6, <1>7 DEF Next

LEMMA NextPlatform ==
  ASSUME TypeInv, TypeInv', SafetyInv, SafetyInv', MatchInv, MatchInv', PlatformInv, [Next]_vars
  PROVE  PlatformInv'
<1>1. RowStep
  BY NextMatches DEF SafetyInv
<1>2. CASE DatabaseStep
  BY <1>1, <1>2, DatabaseStepKeeps
<1>3. CASE PlatformSteps
  BY <1>3, PlatformStepsKeep
<1> QED BY <1>2, <1>3, NextSettles

LEMMA PlatformInvariant == Spec => []PlatformInv
<1>1. TypeInv /\ SafetyInv /\ MatchInv /\ PlatformInv /\ [Next]_vars
      /\ TypeInv' /\ SafetyInv' /\ MatchInv'
      => PlatformInv'
  BY NextPlatform
<1> QED BY <1>1, InitPlatform, TypeInvariant, SafetyInvariant, MatchInvariant, PTL DEF Spec

\* A device that the bot made the platform authorize is never forgotten while it is
\* authorized: an open association holds it or still waits for its link's outcome.
THEOREM GrantsAreAccountedFor == Spec => []GrantsAccountedFor
BY PlatformInvariant, PTL DEF PlatformInv

LEMMA LateRevokeHitsHolder ==
  ASSUME TypeInv, ExclusiveSlots, MatchInv, PlatformInv
  PROVE  RevokeHitsItsHolder
<1> SUFFICES ASSUME NEW r \in RevokeIds, revocation[r] = "sent",
                    revokeAction[r].target \notin disturbed
             PROVE  HoldersOf(revokeAction[r].target) = {revokeAction[r].assoc}
  BY DEF RevokeHitsItsHolder
<1>1. revokeAction[r].status \in Unresolved
  BY DEF PlatformInv, RevokesPosted
<1>2. PICK a \in AssociationIds, d \in Devices :
        a = revokeAction[r].assoc /\ d = revokeAction[r].target
  BY <1>1, RowsTyped DEF RowTypes, Unresolved
<1>3. Open(a) /\ association[a].device = d
  BY <1>1, <1>2 DEF MatchInv, RowsMatch, RevokesMatch, RevokeFits, Open, Unresolved
<1>4. \A b \in AssociationIds : Open(b) /\ association[b].device = d => b = a
  BY <1>2, <1>3, NoneAssumption DEF ExclusiveSlots
<1> QED BY <1>2, <1>3, <1>4 DEF HoldersOf

\* A revoke POST that may still take effect, also after a timeout or a restart, aims at
\* a device whose only holder is the association it was reserved for, unless somebody
\* disturbed the device.
THEOREM RevokesHitTheirHolder == Spec => []RevokeHitsItsHolder
<1>1. TypeInv /\ SafetyInv /\ MatchInv /\ PlatformInv => RevokeHitsItsHolder
  BY LateRevokeHitsHolder DEF SafetyInv
<1> QED BY <1>1, TypeInvariant, SafetyInvariant, MatchInvariant, PlatformInvariant, PTL
=============================================================================
