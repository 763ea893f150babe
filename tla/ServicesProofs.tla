----------------------------- MODULE ServicesProofs ----------------------------
(***************************************************************************)
(* Proofs about the services of a workspace, for every set of users,       *)
(* requests, jobs, types, labels and policies: membership, invites, tokens *)
(* and accounts first, then exports, the ontology and search, and last     *)
(* the services together.  Those about the ingestion of episodes are in    *)
(* EpisodeIngestionProofs.                                                 *)
(***************************************************************************)
EXTENDS Services, TLAPS, FiniteSetTheorems, SequenceTheorems

-----------------------------------------------------------------------------
(* Access *)

(* The statements between the lock on an invite and the commit.            *)
Holding == {"held", "insert", "mark"}

(* A request that has arrived is one of those clients send.                *)
Arrived == \A t \in Requests : pc[t] # "new" => body[t] \in Bodies

(* What a request found under the lock still holds: the invite is open.    *)
HeldOpen == \A t \in Requests : pc[t] \in Holding => Open(body[t].target)

(* The lock excludes.                                                      *)
HeldAlone ==
  \A t, u \in Requests :
    pc[t] \in Holding /\ pc[u] \in Holding /\ body[t].target = body[u].target => t = u

(* A member row in the making shares the row of its user.                  *)
JoinersStay == \A t \in Requests : DOMAIN joining[t] \subseteq users

(* No member row, or one.                                                  *)
MemberRows == {<< >>} \cup {Row(u, r) : u \in Users, r \in Roles}

(* The inductive invariant. *)
AccessInv ==
  /\ TypeOK /\ Arrived
  /\ HeldOpen /\ HeldAlone /\ JoinersStay
  /\ InviteSettledOnce /\ NothingOutlivesAccount

-----------------------------------------------------------------------------

LEMMA OverlayRow ==
  ASSUME NEW old, NEW key, NEW value
  PROVE  /\ DOMAIN Overlay(old, Row(key, value)) = DOMAIN old \cup {key}
         /\ Overlay(old, Row(key, value))[key] = value
         /\ \A x \in DOMAIN old \ {key} : Overlay(old, Row(key, value))[x] = old[x]
  BY DEF Overlay, Row

(* What a body can say. *)
LEMMA BodyFields ==
  ASSUME AccessAssumption, NEW b \in Bodies
  PROVE  /\ b.role \in Roles
         /\ b.op = "invite" => b.role \in Roles \ {"owner"}
  BY DEF AccessAssumption, Body

-----------------------------------------------------------------------------
(* The first state *)

LEMMA AccessInit == ASSUME AccessAssumption, Init PROVE AccessInv
<1>1. /\ DOMAIN role = DOMAIN Guests \cup {Founder}
      /\ \A u \in DOMAIN role : role[u] \in Roles
  <2>1. role = Overlay(Guests, Row(Founder, "owner"))
    BY DEF Init
  <2>2. /\ DOMAIN role = DOMAIN Guests \cup {Founder}
        /\ role[Founder] = "owner"
        /\ \A u \in DOMAIN Guests \ {Founder} : role[u] = Guests[u]
    <3>1. /\ DOMAIN Overlay(Guests, Row(Founder, "owner")) = DOMAIN Guests \cup {Founder}
          /\ Overlay(Guests, Row(Founder, "owner"))[Founder] = "owner"
          /\ \A x \in DOMAIN Guests \ {Founder} :
               Overlay(Guests, Row(Founder, "owner"))[x] = Guests[x]
      BY DEF Overlay, Row
    <3>2. QED BY <2>1, <3>1
  <2>3. \A u \in DOMAIN Guests : Guests[u] \in Roles
    BY DEF AccessAssumption
  <2>4. "owner" \in Roles
    BY DEF Roles
  <2>5. QED BY <2>2, <2>3, <2>4
<1>2. TypeOK
  BY <1>1 DEF Init, AccessAssumption, TypeOK
<1>3. Arrived /\ HeldOpen /\ HeldAlone /\ JoinersStay
  BY DEF Init, Arrived, HeldOpen, HeldAlone, JoinersStay, Holding
<1>4. InviteSettledOnce
  BY DEF Init, AccessAssumption, InviteSettledOnce
<1>5. NothingOutlivesAccount
  BY <1>1 DEF Init, AccessAssumption, NothingOutlivesAccount, Invite, Token
<1>6. QED BY <1>2, <1>3, <1>4, <1>5 DEF AccessInv

-----------------------------------------------------------------------------
(* The steps.  Most of them leave the locks on invites as they are.        *)

Points == {"new", "member", "manager", "verify", "act", "held", "insert",
           "mark", "replace", "mint", "done", "failed", "refused"}

(* A step of one request that takes no lock disturbs no holder.            *)
LEMMA NoNewHolder ==
  ASSUME AccessInv, NEW t \in Requests, NEW next \in Points, Goto(t, next),
         next \in Holding => pc[t] \in Holding, pc[t] # "new", body' = body
  PROVE  /\ pc' \in [Requests -> Points] /\ Arrived' /\ HeldAlone'
         /\ \A u \in Requests : pc'[u] \in Holding => pc[u] \in Holding
         /\ pc'[t] = next
<1>1. pc \in [Requests -> Points]
  BY DEF AccessInv, TypeOK, Points
<1>2. /\ pc' \in [Requests -> Points] /\ pc'[t] = next
      /\ \A u \in Requests \ {t} : pc'[u] = pc[u]
  BY <1>1 DEF Goto
<1>3. \A u \in Requests : pc'[u] \in Holding => pc[u] \in Holding
  BY <1>2
<1>4. Arrived'
  BY <1>2 DEF AccessInv, Arrived
<1>5. HeldAlone'
  BY <1>3 DEF AccessInv, HeldAlone
<1>6. QED BY <1>2, <1>3, <1>4, <1>5

(* One that changes no row and no lock at all.                             *)
LEMMA RowsStay ==
  ASSUME AccessInv, NEW t \in Requests, NEW next \in Points, Goto(t, next),
         next \in Holding => pc[t] \in Holding, pc[t] # "new", UNCHANGED <<Rows, body, joining>>
  PROVE  AccessInv'
<1>1. UNCHANGED <<users, role, invites, tokens, joins, body, joining>>
  BY DEF Rows
<1>2. /\ pc' \in [Requests -> Points] /\ Arrived' /\ HeldAlone'
      /\ \A u \in Requests : pc'[u] \in Holding => pc[u] \in Holding
  BY <1>1, NoNewHolder
<1>3. TypeOK'
  BY <1>1, <1>2 DEF AccessInv, TypeOK, Points
<1>4. HeldOpen'
  BY <1>1, <1>2 DEF AccessInv, HeldOpen, Open
<1>5. JoinersStay' /\ InviteSettledOnce' /\ NothingOutlivesAccount'
  BY <1>1 DEF AccessInv, JoinersStay, InviteSettledOnce, NothingOutlivesAccount
<1>6. QED BY <1>2, <1>3, <1>4, <1>5 DEF AccessInv

LEMMA ReadOnlySteps ==
  ASSUME AccessInv, NEW t \in Requests,
         VerifyToken(t) \/ IsMember(t) \/ RequireRole(t) \/ ReadMembership(t)
           \/ RotateRead(t) \/ RotateRevoke(t)
  PROVE  AccessInv'
<1>1. CASE VerifyToken(t)
  BY <1>1, RowsStay DEF VerifyToken, Points, Holding
<1>2. CASE IsMember(t)
  BY <1>2, RowsStay DEF IsMember, Points, Holding
<1>3. CASE RequireRole(t)
  BY <1>3, RowsStay DEF RequireRole, Points, Holding
<1>4. CASE ReadMembership(t)
  BY <1>4, RowsStay DEF ReadMembership, Points, Holding
<1>5. CASE RotateRead(t)
  BY <1>5, RowsStay DEF RotateRead, Acts, Points, Holding
<1>6. CASE RotateRevoke(t)
  BY <1>6, RowsStay DEF RotateRevoke, Points, Holding
<1>7. QED BY <1>1, <1>2, <1>3, <1>4, <1>5, <1>6

LEMMA ArriveKeeps ==
  ASSUME AccessAssumption, AccessInv, NEW t \in Requests, Arrive(t) PROVE AccessInv'
<1>1. PICK b \in Bodies :
        /\ pc[t] = "new" /\ body' = [body EXCEPT ![t] = b]
        /\ Goto(t, IF b.who \in Tokens THEN "verify"
                   ELSE IF b.op \in {"accept", "delete_me"} THEN "act" ELSE "member")
        /\ UNCHANGED <<users, role, invites, tokens, joins, joining>>
  BY DEF Arrive, Rows
<1>2. PICK next \in {"verify", "act", "member"} : pc' = [pc EXCEPT ![t] = next]
  BY <1>1 DEF Goto
<1>3. /\ pc \in [Requests -> Points] /\ body \in [Requests -> Bodies \cup {NoBody}]
  BY DEF AccessInv, TypeOK, Points
<1>4. /\ pc' \in [Requests -> Points] /\ body' \in [Requests -> Bodies \cup {NoBody}]
      /\ pc'[t] = next /\ body'[t] = b
      /\ \A u \in Requests \ {t} : pc'[u] = pc[u] /\ body'[u] = body[u]
  BY <1>1, <1>2, <1>3 DEF Points
<1>5. TypeOK'
  BY <1>1, <1>4 DEF AccessInv, TypeOK, Points
<1>6. Arrived'
  BY <1>4 DEF AccessInv, Arrived
<1>7. HeldOpen' /\ HeldAlone'
  <2>1. \A u \in Requests : pc'[u] \in Holding => u # t /\ pc[u] \in Holding
    BY <1>4 DEF Holding
  <2>2. HeldOpen'
    BY <1>1, <1>4, <2>1 DEF AccessInv, HeldOpen, Open
  <2>3. HeldAlone'
    BY <1>4, <2>1 DEF AccessInv, HeldAlone
  <2>4. QED BY <2>2, <2>3
<1>8. JoinersStay' /\ InviteSettledOnce' /\ NothingOutlivesAccount'
  BY <1>1 DEF AccessInv, JoinersStay, InviteSettledOnce, NothingOutlivesAccount
<1>9. QED BY <1>5, <1>6, <1>7, <1>8 DEF AccessInv

-----------------------------------------------------------------------------
(* Steps that write members *)

LEMMA SetRoleKeeps ==
  ASSUME AccessAssumption, AccessInv, NEW t \in Requests, UpdateMemberRole(t)
  PROVE  AccessInv'
<1>1. /\ DOMAIN role' = DOMAIN role /\ \A v \in DOMAIN role : role'[v] \in {role[v], body[t].role}
      /\ UNCHANGED <<users, invites, tokens, joins, body, joining>>
  BY DEF UpdateMemberRole, Acts
<1>2. /\ pc' \in [Requests -> Points] /\ Arrived' /\ HeldAlone'
      /\ \A u \in Requests : pc'[u] \in Holding => pc[u] \in Holding
  BY NoNewHolder DEF UpdateMemberRole, Acts, Points, Holding
<1>3. body[t].role \in Roles
  BY BodyFields DEF UpdateMemberRole, Acts, AccessInv, Arrived
<1>4. TypeOK'
  BY <1>1, <1>2, <1>3 DEF AccessInv, TypeOK, Points
<1>5. HeldOpen'
  BY <1>1, <1>2 DEF AccessInv, HeldOpen, Open
<1>6. JoinersStay' /\ InviteSettledOnce' /\ NothingOutlivesAccount'
  BY <1>1 DEF AccessInv, JoinersStay, InviteSettledOnce, NothingOutlivesAccount
<1>7. QED BY <1>2, <1>4, <1>5, <1>6 DEF AccessInv

LEMMA RemoveKeeps ==
  ASSUME AccessInv, NEW t \in Requests, RemoveMember(t) PROVE AccessInv'
<1>1. /\ DOMAIN role' \subseteq DOMAIN role /\ \A v \in DOMAIN role' : role'[v] = role[v]
      /\ UNCHANGED <<users, invites, tokens, joins, body, joining>>
  BY DEF RemoveMember, Acts, Without
<1>2. /\ pc' \in [Requests -> Points] /\ Arrived' /\ HeldAlone'
      /\ \A u \in Requests : pc'[u] \in Holding => pc[u] \in Holding
  BY NoNewHolder DEF RemoveMember, Acts, Points, Holding
<1>3. TypeOK'
  BY <1>1, <1>2 DEF AccessInv, TypeOK, Points
<1>4. HeldOpen'
  BY <1>1, <1>2 DEF AccessInv, HeldOpen, Open
<1>5. JoinersStay' /\ InviteSettledOnce' /\ NothingOutlivesAccount'
  BY <1>1 DEF AccessInv, JoinersStay, InviteSettledOnce, NothingOutlivesAccount
<1>6. QED BY <1>2, <1>3, <1>4, <1>5 DEF AccessInv

-----------------------------------------------------------------------------
(* Steps on invites *)

LEMMA CreateInviteKeeps ==
  ASSUME AccessAssumption, AccessInv, NEW t \in Requests, CreateInvite(t)
  PROVE  AccessInv'
<1>1. CASE body[t].who \notin users /\ Goto(t, "refused") /\ UNCHANGED invites
  BY <1>1, RowsStay DEF CreateInvite, Acts, Rows, Points, Holding
<1>2. CASE body[t].who \in users /\ Goto(t, "done") /\ UNCHANGED <<users, role, tokens, joins, body, joining>>
  <2>1. PICK i \in Invites :
          /\ i \notin DOMAIN invites /\ \A u \in Users : <<i, u>> \notin joins
          /\ invites' = Overlay(invites,
               Row(i, [by |-> body[t].who, role |-> body[t].role, accepted |-> NoUser,
                       revoked |-> FALSE, expired |-> FALSE]))
    BY <1>1, <1>2 DEF CreateInvite
  <2> DEFINE new == [by |-> body[t].who, role |-> body[t].role, accepted |-> NoUser,
                     revoked |-> FALSE, expired |-> FALSE]
  <2>2. /\ DOMAIN invites' = DOMAIN invites \cup {i} /\ invites'[i] = new
        /\ \A j \in DOMAIN invites : j # i /\ invites'[j] = invites[j]
    <3> HIDE DEF new
    <3>1. invites' = Overlay(invites, Row(i, new))
      BY <2>1 DEF new
    <3>2. QED BY <2>1, <3>1 DEF Overlay, Row
  <2>3. new \in Invite
    BY <1>2, BodyFields DEF CreateInvite, Acts, AccessInv, Arrived, TypeOK, Invite
  <2>4. /\ pc' \in [Requests -> Points] /\ Arrived' /\ HeldAlone'
        /\ \A u \in Requests : pc'[u] \in Holding => pc[u] \in Holding
    BY <1>2, NoNewHolder DEF CreateInvite, Acts, Points, Holding
  <2>5. TypeOK'
    <3> HIDE DEF new
    <3>1. DOMAIN invites' \subseteq Invites /\ \A j \in DOMAIN invites' : invites'[j] \in Invite
      BY <2>2, <2>3 DEF AccessInv, TypeOK
    <3>2. QED BY <1>2, <2>4, <3>1 DEF AccessInv, TypeOK, Points
  <2>6. HeldOpen'
    BY <1>2, <2>2, <2>4 DEF AccessInv, HeldOpen, Open
  <2>7. InviteSettledOnce'
    <3> SUFFICES ASSUME NEW j \in DOMAIN invites'
                 PROVE LET by == {u \in Users : <<j, u>> \in joins}
                       IN IF invites'[j].accepted = NoUser THEN by = {}
                          ELSE by = {invites'[j].accepted} /\ ~invites'[j].revoked
      BY <1>2 DEF InviteSettledOnce
    <3>1. CASE j = i
      BY <2>1, <2>2, <3>1
    <3>2. CASE j # i
      BY <2>2, <3>2 DEF AccessInv, InviteSettledOnce
    <3>3. QED BY <3>1, <3>2
  <2>8. JoinersStay' /\ NothingOutlivesAccount'
    BY <1>2, <2>2 DEF AccessInv, JoinersStay, NothingOutlivesAccount
  <2>9. QED BY <2>4, <2>5, <2>6, <2>7, <2>8 DEF AccessInv
<1>3. QED BY <1>1, <1>2 DEF CreateInvite, Acts

(* Revoking waits for whoever holds the invite, and takes an open one.     *)
LEMMA RevokeInviteKeeps ==
  ASSUME AccessInv, NEW t \in Requests, RevokeInvite(t) PROVE AccessInv'
<1> DEFINE i == body[t].target
<1>1. CASE ~Open(i)
  BY <1>1, RowsStay DEF RevokeInvite, Acts, Rows, Points, Holding
<1>2. CASE Open(i)
  <2>1. /\ DOMAIN invites' = DOMAIN invites
        /\ invites'[i] = [invites[i] EXCEPT !.revoked = TRUE]
        /\ \A j \in DOMAIN invites \ {i} : invites'[j] = invites[j]
        /\ UNCHANGED <<users, role, tokens, joins, body, joining>>
    BY <1>2 DEF RevokeInvite, Acts, Open
  <2>2. i \in DOMAIN invites /\ invites[i] \in Invite /\ invites[i].accepted = NoUser
    BY <1>2 DEF Open, AccessInv, TypeOK
  <2>3. /\ invites'[i] \in Invite /\ invites'[i].accepted = NoUser
        /\ invites'[i].by = invites[i].by
    BY <2>1, <2>2 DEF Invite
  <2>4. /\ pc' \in [Requests -> Points] /\ Arrived' /\ HeldAlone'
        /\ \A u \in Requests : pc'[u] \in Holding => pc[u] \in Holding
    BY <1>2, NoNewHolder DEF RevokeInvite, Acts, Points, Holding
  <2>5. TypeOK'
    <3>1. DOMAIN invites' \subseteq Invites /\ \A j \in DOMAIN invites' : invites'[j] \in Invite
      BY <2>1, <2>3 DEF AccessInv, TypeOK
    <3>2. QED BY <2>1, <2>4, <3>1 DEF AccessInv, TypeOK, Points
  <2>6. HeldOpen'
    <3> SUFFICES ASSUME NEW u \in Requests, pc'[u] \in Holding
                 PROVE Open(body[u].target)'
      BY <2>1 DEF HeldOpen
    <3>1. pc[u] \in Holding
      BY <2>4
    <3>2. body[u].target # i
      BY <3>1 DEF RevokeInvite, InviteHeld, Holding
    <3>3. Open(body[u].target)
      BY <3>1 DEF AccessInv, HeldOpen
    <3>4. QED BY <2>1, <3>2, <3>3 DEF Open
  <2>7. InviteSettledOnce'
    <3> SUFFICES ASSUME NEW j \in DOMAIN invites
                 PROVE LET by == {u \in Users : <<j, u>> \in joins}
                       IN IF invites'[j].accepted = NoUser THEN by = {}
                          ELSE by = {invites'[j].accepted} /\ ~invites'[j].revoked
      BY <2>1 DEF InviteSettledOnce
    <3>1. CASE j = i
      BY <2>2, <2>3, <3>1 DEF AccessInv, InviteSettledOnce
    <3>2. CASE j # i
      BY <2>1, <3>2 DEF AccessInv, InviteSettledOnce
    <3>3. QED BY <3>1, <3>2
  <2>8. JoinersStay'
    BY <2>1 DEF AccessInv, JoinersStay
  <2>9. NothingOutlivesAccount'
    <3>1. \A j \in DOMAIN invites :
            invites'[j].by = invites[j].by /\ invites'[j].accepted = invites[j].accepted
      BY <2>1, <2>2, <2>3
    <3>2. QED BY <2>1, <3>1 DEF AccessInv, NothingOutlivesAccount
  <2>10. QED BY <2>4, <2>5, <2>6, <2>7, <2>8, <2>9 DEF AccessInv
<1>3. QED BY <1>1, <1>2

LEMMA ExpiresKeeps ==
  ASSUME AccessInv, NEW i \in Invites, InviteExpires(i) PROVE AccessInv'
<1>1. /\ i \in DOMAIN invites /\ DOMAIN invites' = DOMAIN invites
      /\ invites'[i] = [invites[i] EXCEPT !.expired = TRUE]
      /\ \A j \in DOMAIN invites \ {i} : invites'[j] = invites[j]
      /\ UNCHANGED <<users, role, tokens, joins, pc, body, joining>>
  BY DEF InviteExpires
<1>2. \A j \in DOMAIN invites :
        /\ invites'[j] \in Invite
        /\ invites'[j].by = invites[j].by /\ invites'[j].accepted = invites[j].accepted
        /\ invites'[j].revoked = invites[j].revoked
  <2>1. \A j \in DOMAIN invites : invites[j] \in Invite
    BY DEF AccessInv, TypeOK
  <2>2. invites'[i] = [invites[i] EXCEPT !.expired = TRUE] /\ invites[i] \in Invite
    BY <1>1, <2>1
  <2>3. /\ invites'[i] \in Invite
        /\ invites'[i].by = invites[i].by /\ invites'[i].accepted = invites[i].accepted
        /\ invites'[i].revoked = invites[i].revoked
    BY <2>2 DEF Invite
  <2>4. QED BY <1>1, <2>1, <2>3
<1>3. TypeOK'
  BY <1>1, <1>2 DEF AccessInv, TypeOK
<1>4. HeldOpen'
  BY <1>1, <1>2 DEF AccessInv, HeldOpen, Open
<1>5. InviteSettledOnce'
  BY <1>1, <1>2 DEF AccessInv, InviteSettledOnce
<1>6. NothingOutlivesAccount'
  BY <1>1, <1>2 DEF AccessInv, NothingOutlivesAccount
<1>7. Arrived' /\ HeldAlone' /\ JoinersStay'
  BY <1>1 DEF AccessInv, Arrived, HeldAlone, JoinersStay
<1>8. QED BY <1>3, <1>4, <1>5, <1>6, <1>7 DEF AccessInv

LEMMA LockInviteKeeps ==
  ASSUME AccessInv, NEW t \in Requests, LockInvite(t) PROVE AccessInv'
<1> DEFINE i == body[t].target
<1>1. UNCHANGED <<users, role, invites, tokens, joins, body, joining>> /\ ~InviteHeld(i)
  BY DEF LockInvite, Acts, Rows
<1>2. pc \in [Requests -> Points] /\ pc[t] = "act"
  BY DEF AccessInv, TypeOK, Points, LockInvite, Acts
<1>3. /\ pc' \in [Requests -> Points] /\ \A u \in Requests \ {t} : pc'[u] = pc[u]
      /\ pc'[t] \in Holding => Open(i)
  BY <1>2 DEF LockInvite, Goto, Points, Holding
<1>4. TypeOK'
  BY <1>1, <1>3 DEF AccessInv, TypeOK, Points
<1>5. Arrived'
  BY <1>1, <1>2, <1>3 DEF AccessInv, Arrived
<1>6. HeldOpen'
  BY <1>1, <1>3 DEF AccessInv, HeldOpen, Open
<1>7. HeldAlone'
  <2>1. \A u \in Requests : pc[u] \in Holding => body[u].target # i
    BY <1>1 DEF InviteHeld, Holding
  <2>2. SUFFICES ASSUME NEW u \in Requests, NEW v \in Requests,
                        pc'[u] \in Holding, pc'[v] \in Holding,
                        body[u].target = body[v].target
                 PROVE u = v
    BY <1>1 DEF HeldAlone
  <2>3. CASE u # t /\ v # t
    BY <1>3, <2>2, <2>3 DEF AccessInv, HeldAlone
  <2>4. CASE u = t \/ v = t
    BY <1>3, <2>1, <2>2, <2>4
  <2>5. QED BY <2>3, <2>4
<1>8. JoinersStay' /\ InviteSettledOnce' /\ NothingOutlivesAccount'
  BY <1>1 DEF AccessInv, JoinersStay, InviteSettledOnce, NothingOutlivesAccount
<1>9. QED BY <1>4, <1>5, <1>6, <1>7, <1>8 DEF AccessInv

(* The member row in the making is of a user who is there, with the role   *)
(* the open invite gives.                                                  *)
LEMMA InsertMemberKeeps ==
  ASSUME AccessInv, NEW t \in Requests, InsertMember(t) PROVE AccessInv'
<1> DEFINE u == body[t].who
           r == invites[body[t].target].role
<1>1. UNCHANGED <<users, role, invites, tokens, joins, body>> /\ pc[t] = "insert"
  BY DEF InsertMember, Rows
<1>2. /\ pc' \in [Requests -> Points] /\ Arrived' /\ HeldAlone'
      /\ \A v \in Requests : pc'[v] \in Holding => pc[v] \in Holding
  BY <1>1, NoNewHolder DEF InsertMember, Points, Holding
<1>3. r \in Roles
  BY <1>1 DEF AccessInv, HeldOpen, Open, TypeOK, Invite, Holding
<1>4. joining \in [Requests -> MemberRows]
  BY DEF AccessInv, TypeOK, MemberRows
<1>5. joining' = [joining EXCEPT ![t] = IF u \in users \ DOMAIN role THEN Row(u, r) ELSE @]
  BY DEF InsertMember
<1>6. /\ joining' \in [Requests -> MemberRows]
      /\ \A v \in Requests : joining'[v] = joining[v] \/ (u \in users /\ joining'[v] = Row(u, r))
  <2>1. users \subseteq Users
    BY DEF AccessInv, TypeOK
  <2>2. CASE u \in users \ DOMAIN role
    <3>1. Row(u, r) \in MemberRows
      BY <1>3, <2>1, <2>2 DEF MemberRows
    <3>2. joining' = [joining EXCEPT ![t] = Row(u, r)]
      BY <1>5, <2>2
    <3>3. QED BY <1>4, <2>2, <3>1, <3>2
  <2>3. CASE u \notin users \ DOMAIN role
    <3>1. joining' = joining
      BY <1>4, <1>5, <2>3
    <3>2. QED BY <1>4, <3>1
  <2>4. QED BY <2>2, <2>3
<1>7. TypeOK'
  BY <1>1, <1>2, <1>6 DEF AccessInv, TypeOK, Points, MemberRows
<1>8. HeldOpen'
  BY <1>1, <1>2 DEF AccessInv, HeldOpen, Open
<1>9. JoinersStay'
  <2>1. DOMAIN Row(u, r) = {u}
    BY DEF Row
  <2>2. QED BY <1>1, <1>6, <2>1 DEF AccessInv, JoinersStay
<1>10. InviteSettledOnce' /\ NothingOutlivesAccount'
  BY <1>1 DEF AccessInv, InviteSettledOnce, NothingOutlivesAccount
<1>11. QED BY <1>2, <1>7, <1>8, <1>9, <1>10 DEF AccessInv

(* When a request ends, its member row is gone or written.                 *)
LEMMA JoiningEnds ==
  ASSUME AccessInv, NEW t \in Requests, joining' = [joining EXCEPT ![t] = << >>]
  PROVE  /\ joining' \in [Requests -> MemberRows]
         /\ \A v \in Requests : DOMAIN joining'[v] \subseteq users
<1>1. joining \in [Requests -> MemberRows] /\ << >> \in MemberRows
  BY DEF AccessInv, TypeOK, MemberRows
<1>2. \A v \in Requests : joining'[v] = joining[v] \/ joining'[v] = << >>
  BY <1>1
<1>3. joining' \in [Requests -> MemberRows]
  BY <1>1
<1>4. DOMAIN << >> = {}
  OBVIOUS
<1>5. QED BY <1>2, <1>3, <1>4 DEF AccessInv, JoinersStay

LEMMA AbortKeeps ==
  ASSUME AccessInv, NEW t \in Requests, Abort(t) PROVE AccessInv'
<1>1. UNCHANGED <<users, role, invites, tokens, joins, body>>
  BY DEF Abort, Rows
<1>2. /\ pc' \in [Requests -> Points] /\ Arrived' /\ HeldAlone'
      /\ \A u \in Requests : pc'[u] \in Holding => pc[u] \in Holding
  BY <1>1, NoNewHolder DEF Abort, Points, Holding
<1>3. TypeOK' /\ JoinersStay'
  <2>1. joining' = [joining EXCEPT ![t] = << >>]
    BY DEF Abort
  <2>2. /\ joining' \in [Requests -> MemberRows]
        /\ \A v \in Requests : DOMAIN joining'[v] \subseteq users
    BY <2>1, JoiningEnds
  <2>3. JoinersStay'
    BY <1>1, <2>2 DEF JoinersStay
  <2>4. QED BY <1>1, <1>2, <2>2, <2>3 DEF AccessInv, TypeOK, Points, MemberRows
<1>4. HeldOpen'
  BY <1>1, <1>2 DEF AccessInv, HeldOpen, Open
<1>5. InviteSettledOnce' /\ NothingOutlivesAccount'
  BY <1>1 DEF AccessInv, InviteSettledOnce, NothingOutlivesAccount
<1>6. QED BY <1>2, <1>3, <1>4, <1>5 DEF AccessInv

(* The invite that is marked is still open, so it lets in the first user.  *)
LEMMA MarkAcceptedKeeps ==
  ASSUME AccessAssumption, AccessInv, NEW t \in Requests, MarkAccepted(t) PROVE AccessInv'
<1> DEFINE i == body[t].target
           u == body[t].who
<1>1. pc[t] = "mark" /\ UNCHANGED <<users, tokens, body>>
  BY DEF MarkAccepted
<1>2. /\ pc' \in [Requests -> Points] /\ Arrived' /\ HeldAlone' /\ pc'[t] \notin Holding
      /\ \A v \in Requests : pc'[v] \in Holding => pc[v] \in Holding
  BY <1>1, NoNewHolder DEF MarkAccepted, Points, Holding
<1>3. /\ joining' \in [Requests -> MemberRows]
      /\ JoinersStay'
  <2>1. joining' = [joining EXCEPT ![t] = << >>]
    BY DEF MarkAccepted
  <2>2. /\ joining' \in [Requests -> MemberRows]
        /\ \A v \in Requests : DOMAIN joining'[v] \subseteq users
    BY <2>1, JoiningEnds
  <2>3. QED BY <1>1, <2>2 DEF JoinersStay
<1>4. CASE u \notin users
  <2>1. UNCHANGED <<invites, role, joins>>
    BY <1>4 DEF MarkAccepted
  <2>2. TypeOK'
    BY <1>1, <1>2, <1>3, <2>1 DEF AccessInv, TypeOK, Points, MemberRows
  <2>3. HeldOpen'
    BY <1>1, <1>2, <2>1 DEF AccessInv, HeldOpen, Open
  <2>4. InviteSettledOnce' /\ NothingOutlivesAccount'
    BY <1>1, <2>1 DEF AccessInv, InviteSettledOnce, NothingOutlivesAccount
  <2>5. QED BY <1>2, <1>3, <2>2, <2>3, <2>4 DEF AccessInv
<1>5. CASE u \in users
  <2>1. i \in DOMAIN invites /\ invites[i].accepted = NoUser /\ ~invites[i].revoked
    BY <1>1 DEF AccessInv, HeldOpen, Open, Holding
  <2>2. invites[i] \in Invite /\ u \in Users /\ i \in Invites
    BY <1>5, <2>1 DEF AccessInv, TypeOK
  <2>3. /\ DOMAIN invites' = DOMAIN invites
        /\ invites'[i] = [invites[i] EXCEPT !.accepted = u]
        /\ \A j \in DOMAIN invites \ {i} : invites'[j] = invites[j]
        /\ role' = Overlay(role, joining[t])
        /\ joins' = joins \cup {<<i, u>>}
    BY <1>5, <2>1 DEF MarkAccepted
  <2>4. /\ invites'[i] \in Invite /\ invites'[i].accepted = u
        /\ invites'[i].by = invites[i].by /\ ~invites'[i].revoked
    BY <2>1, <2>2, <2>3 DEF Invite
  <2>5. /\ DOMAIN role' = DOMAIN role \cup DOMAIN joining[t]
        /\ DOMAIN role' \subseteq Users
        /\ \A v \in DOMAIN role' : role'[v] \in Roles
    <3>1. DOMAIN role \subseteq Users /\ \A v \in DOMAIN role : role[v] \in Roles
      BY DEF AccessInv, TypeOK
    <3>2. joining[t] = << >> \/ \E v \in Users, x \in Roles : joining[t] = Row(v, x)
      BY DEF AccessInv, TypeOK
    <3>3. /\ DOMAIN Overlay(role, joining[t]) = DOMAIN role \cup DOMAIN joining[t]
          /\ DOMAIN Overlay(role, joining[t]) \subseteq Users
          /\ \A v \in DOMAIN Overlay(role, joining[t]) : Overlay(role, joining[t])[v] \in Roles
      <4>1. CASE joining[t] = << >>
        BY <3>1, <4>1 DEF Overlay
      <4>2. CASE \E v \in Users, x \in Roles : joining[t] = Row(v, x)
        BY <3>1, <4>2 DEF Row, Overlay
      <4>3. QED BY <3>2, <4>1, <4>2
    <3>4. QED BY <2>3, <3>3
  <2>6. TypeOK'
    <3>1. DOMAIN invites' \subseteq Invites /\ \A j \in DOMAIN invites' : invites'[j] \in Invite
      BY <2>3, <2>4 DEF AccessInv, TypeOK
    <3>2. joins' \subseteq Invites \X Users
      BY <2>2, <2>3 DEF AccessInv, TypeOK
    <3>3. QED BY <1>1, <1>2, <1>3, <2>5, <3>1, <3>2 DEF AccessInv, TypeOK, Points, MemberRows
  <2>7. HeldOpen'
    <3> SUFFICES ASSUME NEW v \in Requests, pc'[v] \in Holding
                 PROVE Open(body[v].target)'
      BY <1>1 DEF HeldOpen
    <3>1. pc[v] \in Holding /\ v # t
      BY <1>2
    <3>2. body[v].target # i
      BY <1>1, <3>1 DEF AccessInv, HeldAlone, Holding
    <3>3. Open(body[v].target)
      BY <3>1 DEF AccessInv, HeldOpen
    <3>4. QED BY <1>1, <2>3, <3>2, <3>3 DEF Open
  <2>8. InviteSettledOnce'
    <3> SUFFICES ASSUME NEW j \in DOMAIN invites
                 PROVE LET by == {v \in Users : <<j, v>> \in joins'}
                       IN IF invites'[j].accepted = NoUser THEN by = {}
                          ELSE by = {invites'[j].accepted} /\ ~invites'[j].revoked
      BY <2>3 DEF InviteSettledOnce
    <3>1. CASE j = i
      <4>1. {v \in Users : <<j, v>> \in joins} = {}
        BY <2>1, <3>1 DEF AccessInv, InviteSettledOnce
      <4>2. {v \in Users : <<j, v>> \in joins'} = {u}
        BY <2>2, <2>3, <3>1, <4>1
      <4>3. u # NoUser
        BY <2>2 DEF AccessAssumption
      <4>4. QED BY <2>4, <3>1, <4>2, <4>3
    <3>2. CASE j # i
      <4>1. {v \in Users : <<j, v>> \in joins'} = {v \in Users : <<j, v>> \in joins}
        BY <2>3, <3>2
      <4>2. QED BY <2>3, <3>2, <4>1 DEF AccessInv, InviteSettledOnce
    <3>3. QED BY <3>1, <3>2
  <2>9. NothingOutlivesAccount'
    <3>1. DOMAIN role' \subseteq users
      BY <2>5 DEF AccessInv, NothingOutlivesAccount, JoinersStay
    <3>2. \A j \in DOMAIN invites' :
            invites'[j].by \in users /\ invites'[j].accepted \in users \cup {NoUser}
      BY <1>5, <2>1, <2>3, <2>4 DEF AccessInv, NothingOutlivesAccount
    <3>3. QED BY <1>1, <3>1, <3>2 DEF AccessInv, NothingOutlivesAccount
  <2>10. QED BY <1>2, <1>3, <2>6, <2>7, <2>8, <2>9 DEF AccessInv
<1>6. QED BY <1>4, <1>5

-----------------------------------------------------------------------------
(* Steps on tokens *)

(* What steps that write tokens alone need to show.                        *)
LEMMA TokensKeep ==
  ASSUME AccessInv, NEW t \in Requests, NEW next \in Points, Goto(t, next),
         next \notin Holding, pc[t] # "new",
         UNCHANGED <<users, role, invites, joins, body, joining>>,
         DOMAIN tokens' \subseteq Tokens,
         \A k \in DOMAIN tokens' : tokens'[k] \in Token /\ tokens'[k].user \in users
  PROVE  AccessInv'
<1>1. /\ pc' \in [Requests -> Points] /\ Arrived' /\ HeldAlone'
      /\ \A u \in Requests : pc'[u] \in Holding => pc[u] \in Holding
  BY NoNewHolder
<1>2. TypeOK'
  BY <1>1 DEF AccessInv, TypeOK, Points
<1>3. HeldOpen'
  BY <1>1 DEF AccessInv, HeldOpen, Open
<1>4. JoinersStay' /\ InviteSettledOnce' /\ NothingOutlivesAccount'
  BY DEF AccessInv, JoinersStay, InviteSettledOnce, NothingOutlivesAccount
<1>5. QED BY <1>1, <1>2, <1>3, <1>4 DEF AccessInv

(* A new token is its owner's, and the others stay whose they were.        *)
LEMMA TokenCreated ==
  ASSUME AccessInv, NEW who \in users, NEW from \in Tokens \cup {NoToken}, NEW old,
         CreateToken(who, from, old), DOMAIN old \subseteq Tokens,
         \A k \in DOMAIN old : old[k] \in Token /\ old[k].user \in users
  PROVE  /\ DOMAIN tokens' \subseteq Tokens
         /\ \A k \in DOMAIN tokens' : tokens'[k] \in Token /\ tokens'[k].user \in users
<1> DEFINE new == [user |-> who, revoked |-> FALSE, from |-> from]
<1>1. PICK k \in Tokens : tokens' = Overlay(old, Row(k, new))
  BY DEF CreateToken
<1>2. new \in Token /\ new.user \in users
  BY DEF AccessInv, TypeOK, Token
<1> HIDE DEF new
<1>3. /\ DOMAIN tokens' = DOMAIN old \cup {k}
      /\ \A x \in DOMAIN tokens' : tokens'[x] = IF x = k THEN new ELSE old[x]
  BY <1>1 DEF Overlay, Row
<1>4. QED BY <1>2, <1>3

(* Tokens, and the accounts they are of.                                   *)
LEMMA TokenOwners ==
  ASSUME AccessInv
  PROVE  /\ DOMAIN tokens \subseteq Tokens
         /\ \A k \in DOMAIN tokens : tokens[k] \in Token /\ tokens[k].user \in users
  BY DEF AccessInv, TypeOK, NothingOutlivesAccount

LEMMA RevokedTokens ==
  ASSUME AccessInv, NEW k \in DOMAIN tokens
  PROVE  LET after == [tokens EXCEPT ![k].revoked = TRUE]
         IN /\ DOMAIN after \subseteq Tokens
            /\ \A x \in DOMAIN after : after[x] \in Token /\ after[x].user \in users
<1> DEFINE after == [tokens EXCEPT ![k].revoked = TRUE]
<1>1. /\ DOMAIN after = DOMAIN tokens /\ after[k] = [tokens[k] EXCEPT !.revoked = TRUE]
      /\ \A x \in DOMAIN tokens \ {k} : after[x] = tokens[x]
  OBVIOUS
<1> HIDE DEF after
<1>2. after[k] \in Token /\ after[k].user = tokens[k].user
  BY <1>1, TokenOwners DEF Token
<1>3. QED BY <1>1, <1>2, TokenOwners DEF after

LEMMA MintKeeps ==
  ASSUME AccessInv, NEW t \in Requests, Mint(t) PROVE AccessInv'
<1>1. CASE body[t].who \notin users /\ Goto(t, "refused") /\ UNCHANGED tokens
  BY <1>1, RowsStay DEF Mint, Acts, Rows, Points, Holding
<1>2. CASE /\ body[t].who \in users /\ CreateToken(body[t].who, NoToken, tokens)
           /\ Goto(t, "done")
  <2>1. /\ DOMAIN tokens' \subseteq Tokens
        /\ \A k \in DOMAIN tokens' : tokens'[k] \in Token /\ tokens'[k].user \in users
    BY <1>2, TokenCreated, TokenOwners
  <2>2. QED BY <1>2, <2>1, TokensKeep DEF Mint, Acts, Points, Holding
<1>3. QED BY <1>1, <1>2 DEF Mint

LEMMA RevokeTokenKeeps ==
  ASSUME AccessInv, NEW t \in Requests, RevokeToken(t) PROVE AccessInv'
<1> DEFINE k == body[t].target
<1>1. CASE ~Valid(k)
  BY <1>1, RowsStay DEF RevokeToken, Acts, Rows, Points, Holding
<1>2. CASE Valid(k)
  <2>1. k \in DOMAIN tokens /\ tokens' = [tokens EXCEPT ![k].revoked = TRUE]
    BY <1>2 DEF RevokeToken, Valid
  <2>2. /\ DOMAIN tokens' \subseteq Tokens
        /\ \A x \in DOMAIN tokens' : tokens'[x] \in Token /\ tokens'[x].user \in users
    BY <2>1, RevokedTokens
  <2>3. QED BY <1>2, <2>2, TokensKeep DEF RevokeToken, Acts, Points, Holding
<1>3. QED BY <1>1, <1>2

LEMMA RotateMintKeeps ==
  ASSUME AccessInv, NEW t \in Requests, RotateMint(t) PROVE AccessInv'
<1> DEFINE k == body[t].target
<1>1. CASE k \notin DOMAIN tokens
  BY <1>1, RowsStay DEF RotateMint, Rows, Points, Holding
<1>2. CASE k \in DOMAIN tokens
  <2> DEFINE after == [tokens EXCEPT ![k].revoked = TRUE]
  <2>1. CreateToken(tokens[k].user, k, after)
    BY <1>2 DEF RotateMint
  <2>2. /\ DOMAIN after \subseteq Tokens
        /\ \A x \in DOMAIN after : after[x] \in Token /\ after[x].user \in users
    BY <1>2, RevokedTokens
  <2>3. tokens[k].user \in users /\ k \in Tokens
    BY <1>2, TokenOwners
  <2> HIDE DEF after
  <2>4. /\ DOMAIN tokens' \subseteq Tokens
        /\ \A x \in DOMAIN tokens' : tokens'[x] \in Token /\ tokens'[x].user \in users
    BY <2>1, <2>2, <2>3, TokenCreated
  <2>5. QED BY <1>2, <2>4, TokensKeep DEF RotateMint, Points, Holding
<1>3. QED BY <1>1, <1>2

-----------------------------------------------------------------------------
(* Deleting an account waits for whoever holds a row that goes with it.    *)

LEMMA DeleteMeKeeps ==
  ASSUME AccessInv, NEW t \in Requests, DeleteMe(t) PROVE AccessInv'
<1> DEFINE u == body[t].who
<1>1. CASE Pinned(u) /\ Goto(t, "refused") /\ UNCHANGED <<users, role, tokens, invites>>
  BY <1>1, RowsStay DEF DeleteMe, Acts, Rows, Points, Holding
<1>2. CASE ~Pinned(u) /\ Cascade(u) /\ Goto(t, "done")
  <2>1. /\ users' = users \ {u} /\ UNCHANGED <<joins, body, joining>>
        /\ DOMAIN role' = DOMAIN role \ {u}
        /\ \A v \in DOMAIN role' : role'[v] = role[v]
        /\ DOMAIN tokens' = {k \in DOMAIN tokens : tokens[k].user # u}
        /\ \A k \in DOMAIN tokens' : tokens'[k] = tokens[k]
        /\ DOMAIN invites' = {i \in DOMAIN invites : invites[i].by # u}
        /\ \A i \in DOMAIN invites' : invites'[i] = invites[i]
    BY <1>2 DEF DeleteMe, Acts, Cascade, Without
  <2>2. /\ pc' \in [Requests -> Points] /\ Arrived' /\ HeldAlone'
        /\ \A v \in Requests : pc'[v] \in Holding => pc[v] \in Holding
    BY <1>2, NoNewHolder DEF DeleteMe, Acts, Points, Holding
  <2>3. TypeOK'
    BY <2>1, <2>2 DEF AccessInv, TypeOK, Points
  <2>4. HeldOpen'
    <3> SUFFICES ASSUME NEW v \in Requests, pc'[v] \in Holding
                 PROVE Open(body[v].target)'
      BY <2>1 DEF HeldOpen
    <3>1. pc[v] \in Holding /\ Open(body[v].target)
      BY <2>2 DEF AccessInv, HeldOpen
    <3>2. InviteHeld(body[v].target)
      BY <3>1 DEF InviteHeld, Holding
    <3>3. invites[body[v].target].by # u
      BY <3>1, <3>2 DEF DeleteMe, Open
    <3>4. QED BY <2>1, <3>1, <3>3 DEF Open
  <2>5. JoinersStay'
    BY <2>1 DEF DeleteMe, UserHeld, AccessInv, JoinersStay
  <2>6. InviteSettledOnce'
    BY <2>1 DEF AccessInv, InviteSettledOnce
  <2>7. NothingOutlivesAccount'
    <3>1. DOMAIN role' \subseteq users' /\ \A k \in DOMAIN tokens' : tokens'[k].user \in users'
      BY <2>1 DEF AccessInv, NothingOutlivesAccount
    <3>2. \A i \in DOMAIN invites' :
            invites'[i].by \in users' /\ invites'[i].accepted \in users' \cup {NoUser}
      BY <1>2, <2>1 DEF AccessInv, NothingOutlivesAccount, Pinned
    <3>3. QED BY <3>1, <3>2 DEF NothingOutlivesAccount
  <2>8. QED BY <2>2, <2>3, <2>4, <2>5, <2>6, <2>7 DEF AccessInv
<1>3. QED BY <1>1, <1>2 DEF DeleteMe

-----------------------------------------------------------------------------

LEMMA AccessNext ==
  ASSUME AccessAssumption, AccessInv, [Next]_vars PROVE AccessInv'
<1>1. CASE UNCHANGED vars
  BY <1>1 DEF vars, AccessInv, TypeOK, Arrived, HeldOpen, Open, HeldAlone, JoinersStay,
              InviteSettledOnce, NothingOutlivesAccount
<1>2. CASE \E t \in Requests : Arrive(t) \/ Step(t) \/ Abort(t)
  <2> SUFFICES ASSUME NEW t \in Requests, Arrive(t) \/ Step(t) \/ Abort(t)
               PROVE AccessInv'
    BY <1>2
  <2>1. CASE Arrive(t) BY <2>1, ArriveKeeps
  <2>2. CASE Abort(t) BY <2>2, AbortKeeps
  <2>3. CASE VerifyToken(t) \/ IsMember(t) \/ RequireRole(t) \/ ReadMembership(t)
               \/ RotateRead(t) \/ RotateRevoke(t)
    BY <2>3, ReadOnlySteps
  <2>4. CASE UpdateMemberRole(t) BY <2>4, SetRoleKeeps
  <2>5. CASE RemoveMember(t) BY <2>5, RemoveKeeps
  <2>6. CASE CreateInvite(t) BY <2>6, CreateInviteKeeps
  <2>7. CASE RevokeInvite(t) BY <2>7, RevokeInviteKeeps
  <2>8. CASE LockInvite(t) BY <2>8, LockInviteKeeps
  <2>9. CASE InsertMember(t) BY <2>9, InsertMemberKeeps
  <2>10. CASE MarkAccepted(t) BY <2>10, MarkAcceptedKeeps
  <2>11. CASE Mint(t) BY <2>11, MintKeeps
  <2>12. CASE RevokeToken(t) BY <2>12, RevokeTokenKeeps
  <2>13. CASE RotateMint(t) BY <2>13, RotateMintKeeps
  <2>14. CASE DeleteMe(t) BY <2>14, DeleteMeKeeps
  <2>15. QED
    BY <2>1, <2>2, <2>3, <2>4, <2>5, <2>6, <2>7, <2>8, <2>9, <2>10, <2>11, <2>12, <2>13, <2>14
       DEF Step
<1>3. CASE \E i \in Invites : InviteExpires(i)
  BY <1>3, ExpiresKeeps
<1>4. QED BY <1>1, <1>2, <1>3 DEF Next

(* AccessInv holds in every reachable state.                               *)
THEOREM AccessInvariant == ASSUME AccessAssumption PROVE Spec => []AccessInv
<1>1. Init => AccessInv
  BY AccessInit
<1>2. AccessInv /\ [Next]_vars => AccessInv'
  BY AccessNext
<1>3. QED BY <1>1, <1>2, PTL DEF Spec

(* TypeOK of Access: roles, invites, tokens and requests keep their shape. *)
THEOREM AccessTypes == ASSUME AccessAssumption PROVE Spec => []TypeOK
<1>1. AccessInv => TypeOK
  BY DEF AccessInv
<1>2. QED BY <1>1, AccessInvariant, PTL

(* However many users accept a link while it is revoked, it ends in one of *)
(* the two, and lets in one user (members.accept_invite, revoke_invite).   *)
THEOREM SettledOnce == ASSUME AccessAssumption PROVE Spec => []InviteSettledOnce
<1>1. AccessInv => InviteSettledOnce
  BY DEF AccessInv
<1>2. QED BY <1>1, AccessInvariant, PTL

(* A deleted account leaves no membership, no token and no invite of its   *)
(* own, whatever its requests were doing (me.delete_me).                   *)
THEOREM AccountLeavesNothing == ASSUME AccessAssumption PROVE Spec => []NothingOutlivesAccount
<1>1. AccessInv => NothingOutlivesAccount
  BY DEF AccessInv
<1>2. QED BY <1>1, AccessInvariant, PTL

-----------------------------------------------------------------------------
(* Exports *)

(* A job that may still be started has tries left, but for the last one.   *)
DumpTriesBounded ==
  \A j \in Dumps : dumps[j].state \in {"absent", "queued", "running"} => dumps[j].tries <= MaxTries

DumpsOK == Exporting!QueueTypeOK /\ DumpTriesBounded

(* A job is past the upload only if the file is in the store.              *)
CompletingUploaded == \A x \in Exports : dumpStep[x] = "complete" => x \in objects

(* The inductive invariant behind CompletedHasObject.                      *)
ExportInvariant ==
  Exporting!TypeOK /\ DumpTriesBounded /\ CompletingUploaded /\ CompletedHasObject

(* What the operations of the queue do to one job, and what they keep.     *)
LEMMA DumpQueueSteps ==
  ASSUME Exporting!QueueAssumption, DumpsOK, NEW j \in Dumps
  PROVE  /\ Exporting!EnqueueJob(j) => DumpsOK' /\ dumps[j].state # "running" /\ dumps'[j].state = "queued"
         /\ Exporting!StartJob(j) =>
              /\ DumpsOK' /\ dumps[j].state = "queued"
              /\ dumps'[j].state = IF Exporting!Exhausted(j) THEN "failed" ELSE "running"
         /\ Exporting!FinishJob(j) \/ Exporting!FailJob(j) \/ Exporting!KillJob(j) =>
              DumpsOK' /\ dumps[j].state = "running" /\ dumps'[j].state # "running"
         /\ \/ Exporting!EnqueueJob(j) \/ Exporting!StartJob(j) \/ Exporting!FinishJob(j)
            \/ Exporting!FailJob(j) \/ Exporting!KillJob(j)
            => \A i \in Dumps \ {j} : dumps'[i] = dumps[i]
<1>. /\ dumps \in [Dumps -> Exporting!Job] /\ dumpKills \in 0..MaxDumpKills
     /\ MaxTries \in Nat /\ MaxDumpKills \in Nat /\ dumps[j].tries \in 0..(MaxTries + 1)
  BY DEF Exporting!QueueAssumption, DumpsOK, Exporting!QueueTypeOK, Exporting!Job
<1>1. ASSUME Exporting!EnqueueJob(j)
      PROVE  DumpsOK' /\ dumps[j].state # "running" /\ dumps'[j].state = "queued"
  BY <1>1 DEF Exporting!EnqueueJob, DumpsOK, Exporting!QueueTypeOK, DumpTriesBounded, Exporting!Job
<1>2. ASSUME Exporting!StartJob(j)
      PROVE  /\ DumpsOK' /\ dumps[j].state = "queued"
             /\ dumps'[j].state = IF Exporting!Exhausted(j) THEN "failed" ELSE "running"
  <2>1. dumps[j].state = "queued" /\ dumps[j].tries <= MaxTries
    BY <1>2 DEF Exporting!StartJob, DumpsOK, DumpTriesBounded
  <2>2. PICK next :
          /\ next = [state |-> IF Exporting!Exhausted(j) THEN "failed" ELSE "running",
                     tries |-> dumps[j].tries + 1]
    OBVIOUS
  <2>3. next \in Exporting!Job /\ (next.state = "running" => next.tries <= MaxTries)
    BY <2>1, <2>2 DEF Exporting!Job, Exporting!Exhausted
  <2>4. dumps' = [dumps EXCEPT ![j] = next] /\ dumpKills' = dumpKills
    BY <1>2, <2>2 DEF Exporting!StartJob
  <2>5. next.state = IF Exporting!Exhausted(j) THEN "failed" ELSE "running"
    BY <2>2
  <2> QED BY <2>1, <2>3, <2>4, <2>5 DEF DumpsOK, Exporting!QueueTypeOK, DumpTriesBounded
<1>3. ASSUME Exporting!FinishJob(j) \/ Exporting!FailJob(j) \/ Exporting!KillJob(j)
      PROVE  DumpsOK' /\ dumps[j].state = "running" /\ dumps'[j].state # "running"
  BY <1>3 DEF Exporting!FinishJob, Exporting!FailJob, Exporting!KillJob, DumpsOK,
              Exporting!QueueTypeOK, DumpTriesBounded, Exporting!Job
<1>4. ASSUME \/ Exporting!EnqueueJob(j) \/ Exporting!StartJob(j) \/ Exporting!FinishJob(j)
             \/ Exporting!FailJob(j) \/ Exporting!KillJob(j)
      PROVE  \A i \in Dumps \ {j} : dumps'[i] = dumps[i]
  BY <1>4 DEF Exporting!EnqueueJob, Exporting!StartJob, Exporting!FinishJob, Exporting!FailJob,
              Exporting!KillJob
<1> QED BY <1>1, <1>2, <1>3, <1>4

LEMMA ExportInit == Exporting!ExportAssumption /\ Exporting!Init => ExportInvariant
  BY DEF Exporting!ExportAssumption, Exporting!QueueAssumption, Exporting!Init, Exporting!QueueInit,
         ExportInvariant, Exporting!TypeOK, Exporting!QueueTypeOK, Exporting!Job, DumpTriesBounded,
         CompletingUploaded, CompletedHasObject, Exporting!CompletedHasObject

(* Steps of a request: its row is new, and not completed.                  *)
LEMMA ExportRequestSteps ==
  ASSUME Exporting!ExportAssumption, ExportInvariant, NEW x \in Exports,
         Exporting!Request(x) \/ Exporting!Serve(x) \/ Exporting!Crash(x)
  PROVE  ExportInvariant'
<1>1. PICK next \in {"enqueue", "done", "failed", "ended"} :
        exportPc' = [exportPc EXCEPT ![x] = next] /\ UNCHANGED <<objects, dumpStep>>
  BY DEF Exporting!Request, Exporting!Serve, Exporting!Crash, Exporting!Enqueue,
         Exporting!EnqueueFails, Exporting!Commit, Exporting!Rollback, Exporting!Goto
<1>2. /\ DOMAIN exports' \subseteq Exports
      /\ \A y \in DOMAIN exports' :
           \/ y \in DOMAIN exports /\ exports'[y] = exports[y]
           \/ exports'[y] = Exporting!Queued
  <2>1. CASE Exporting!Commit(x)
    BY <2>1 DEF Exporting!Commit, ExportInvariant, Exporting!TypeOK
  <2>2. CASE UNCHANGED exports
    BY <2>2 DEF ExportInvariant, Exporting!TypeOK
  <2> QED BY <2>1, <2>2
          DEF Exporting!Request, Exporting!Serve, Exporting!Crash, Exporting!Enqueue,
              Exporting!EnqueueFails, Exporting!Rollback
<1>3. DumpsOK' /\ \A y \in Exports : dumps'[DumpOf[y]].state = "running" <=> dumpStep[y] # "idle"
  <2>1. CASE UNCHANGED <<dumps, dumpKills>>
    BY <2>1 DEF DumpsOK, ExportInvariant, Exporting!TypeOK, Exporting!QueueTypeOK, DumpTriesBounded
  <2>2. CASE Exporting!EnqueueJob(DumpOf[x])
    <3>1. DumpOf[x] \in Dumps /\ \A y \in Exports : DumpOf[y] \in Dumps
      BY DEF Exporting!ExportAssumption
    <3>2. /\ DumpsOK' /\ dumps[DumpOf[x]].state # "running" /\ dumps'[DumpOf[x]].state = "queued"
          /\ \A i \in Dumps \ {DumpOf[x]} : dumps'[i] = dumps[i]
      BY <2>2, <3>1, DumpQueueSteps
         DEF Exporting!ExportAssumption, DumpsOK, ExportInvariant, Exporting!TypeOK
    <3>3. \A y \in Exports : dumps[DumpOf[y]].state = "running" <=> dumpStep[y] # "idle"
      BY DEF ExportInvariant, Exporting!TypeOK
    <3>4. \A y \in Exports :
            dumps'[DumpOf[y]].state = "running" <=> dumps[DumpOf[y]].state = "running"
      BY <3>1, <3>2
    <3> QED BY <3>2, <3>3, <3>4
  <2> QED BY <2>1, <2>2
          DEF Exporting!Request, Exporting!Serve, Exporting!Crash, Exporting!Enqueue,
              Exporting!EnqueueFails, Exporting!Commit, Exporting!Rollback, Exporting!queue
<1>4. Exporting!Queued \in Exporting!Row /\ Exporting!Queued.status # "completed"
  BY DEF Exporting!Queued, Exporting!Row
<1>5. Exporting!TypeOK'
  BY <1>1, <1>2, <1>3, <1>4 DEF ExportInvariant, Exporting!TypeOK, DumpsOK
<1>6. CompletedHasObject'
  BY <1>1, <1>2, <1>4 DEF ExportInvariant, CompletedHasObject, Exporting!CompletedHasObject
<1> QED BY <1>1, <1>3, <1>5, <1>6 DEF ExportInvariant, CompletingUploaded, DumpsOK

(* What a step of a job leaves alone, and how it changes the row: only a   *)
(* job that has uploaded its file completes it.                            *)
LEMMA ExportJobRows ==
  ASSUME ExportInvariant, NEW x \in Exports,
         Exporting!Work(x) \/ Exporting!Raise(x) \/ Exporting!Kill(x)
  PROVE  /\ UNCHANGED exportPc /\ objects \subseteq objects' /\ objects' \subseteq Exports
         /\ \E next \in {"idle", "run", "dump", "fail", "upload", "complete", "ack"} :
              /\ dumpStep' = [dumpStep EXCEPT ![x] = next]
              /\ next = "complete" => x \in objects'
         /\ DOMAIN exports' = DOMAIN exports
         /\ \A y \in DOMAIN exports :
              /\ exports'[y] \in Exporting!Row
              /\ \/ exports'[y] = exports[y]
                 \/ exports'[y].status # "completed"
                 \/ y = x /\ x \in objects /\ exports'[y].object_key
<1> DEFINE places == {"idle", "run", "dump", "fail", "upload", "complete", "ack"}
<1>. \A y \in DOMAIN exports : exports[y] \in Exporting!Row
  BY DEF ExportInvariant, Exporting!TypeOK
<1>1. CASE Exporting!Run(x) \/ Exporting!Fail(x)
  <2>1. PICK status \in {"running", "failed"} : Exporting!SetStatus(x, status)
    BY <1>1 DEF Exporting!Run, Exporting!Fail, Exporting!FailedStatus
  <2>2. /\ DOMAIN exports' = DOMAIN exports
        /\ \A y \in DOMAIN exports :
             /\ exports'[y] \in Exporting!Row
             /\ exports'[y] = exports[y] \/ exports'[y].status # "completed"
    BY <2>1 DEF Exporting!SetStatus, Exporting!Row
  <2>3. \E next \in places : dumpStep' = [dumpStep EXCEPT ![x] = next] /\ next # "complete"
    BY <1>1 DEF Exporting!Run, Exporting!Fail, Exporting!JobGoto
  <2> QED BY <1>1, <2>2, <2>3
          DEF Exporting!Run, Exporting!Fail, Exporting!JobGoto, ExportInvariant, Exporting!TypeOK
<1>2. CASE Exporting!Complete(x)
  <2>1. x \in objects
    BY <1>2 DEF Exporting!Complete, ExportInvariant, CompletingUploaded
  <2>2. /\ DOMAIN exports' = DOMAIN exports
        /\ \A y \in DOMAIN exports :
             /\ exports'[y] \in Exporting!Row
             /\ exports'[y] = exports[y] \/ (y = x /\ exports'[y].object_key)
    BY <1>2 DEF Exporting!Complete, Exporting!CompletedRow, Exporting!Row
  <2>3. \E next \in places : dumpStep' = [dumpStep EXCEPT ![x] = next] /\ next # "complete"
    BY <1>2 DEF Exporting!Complete, Exporting!JobGoto
  <2> QED BY <1>2, <2>1, <2>2, <2>3
          DEF Exporting!Complete, Exporting!JobGoto, ExportInvariant, Exporting!TypeOK
<1>3. CASE Exporting!Upload(x)
  <2>1. PICK stored \in BOOLEAN :
          /\ objects' = IF stored THEN objects \cup {x} ELSE objects
          /\ dumpStep' = [dumpStep EXCEPT ![x] = Exporting!AfterUpload(stored)]
    BY <1>3 DEF Exporting!Upload, Exporting!JobGoto
  <2>2. /\ Exporting!AfterUpload(stored) \in places
        /\ Exporting!AfterUpload(stored) = "complete" => x \in objects'
    BY <2>1 DEF Exporting!AfterUpload
  <2>3. objects \subseteq objects' /\ objects' \subseteq Exports
    BY <2>1 DEF ExportInvariant, Exporting!TypeOK
  <2> QED BY <1>3, <2>1, <2>2, <2>3 DEF Exporting!Upload, Exporting!JobGoto
<1>4. CASE \/ Exporting!Take(x) \/ Exporting!Dump(x) \/ Exporting!Acknowledge(x)
           \/ Exporting!Raise(x) \/ Exporting!Kill(x)
  <2>1. \E next \in places : dumpStep' = [dumpStep EXCEPT ![x] = next] /\ next # "complete"
    BY <1>4 DEF Exporting!Take, Exporting!Dump, Exporting!Acknowledge, Exporting!Raise,
                Exporting!Kill, Exporting!JobGoto
  <2>2. UNCHANGED <<exports, objects, exportPc>>
    BY <1>4 DEF Exporting!Take, Exporting!Dump, Exporting!Acknowledge, Exporting!Raise,
                Exporting!Kill, Exporting!JobGoto
  <2> QED BY <2>1, <2>2 DEF ExportInvariant, Exporting!TypeOK
<1> QED BY <1>1, <1>2, <1>3, <1>4 DEF Exporting!Work

LEMMA ExportJobSteps ==
  ASSUME Exporting!ExportAssumption, ExportInvariant, NEW x \in Exports,
         Exporting!Work(x) \/ Exporting!Raise(x) \/ Exporting!Kill(x)
  PROVE  ExportInvariant'
<1>1. /\ UNCHANGED exportPc /\ objects \subseteq objects' /\ objects' \subseteq Exports
      /\ DOMAIN exports' = DOMAIN exports
      /\ \A y \in DOMAIN exports :
           /\ exports'[y] \in Exporting!Row
           /\ \/ exports'[y] = exports[y]
              \/ exports'[y].status # "completed"
              \/ y = x /\ x \in objects /\ exports'[y].object_key
  BY ExportJobRows
<1>2. PICK next \in {"idle", "run", "dump", "fail", "upload", "complete", "ack"} :
        /\ dumpStep' = [dumpStep EXCEPT ![x] = next]
        /\ next = "complete" => x \in objects'
  BY ExportJobRows
<1>3. \A y \in Exports : dumps[DumpOf[y]].state = "running" <=> dumpStep[y] # "idle"
  BY DEF ExportInvariant, Exporting!TypeOK
<1>4. /\ \A y \in Exports : DumpOf[y] \in Dumps
      /\ \A y \in Exports \ {x} : DumpOf[y] # DumpOf[x]
  BY DEF Exporting!ExportAssumption
<1>5. dumpStep \in [Exports -> {"idle", "run", "dump", "fail", "upload", "complete", "ack"}]
  BY DEF ExportInvariant, Exporting!TypeOK
<1>6. DumpsOK' /\ \A y \in Exports : dumps'[DumpOf[y]].state = "running" <=> dumpStep'[y] # "idle"
  <2>1. CASE UNCHANGED <<dumps, dumpKills>> /\ dumpStep[x] # "idle" /\ next # "idle"
    <3>1. DumpsOK'
      BY <2>1 DEF DumpsOK, ExportInvariant, Exporting!TypeOK, Exporting!QueueTypeOK, DumpTriesBounded
    <3> QED BY <1>2, <1>3, <1>5, <2>1, <3>1
  <2>2. CASE Exporting!Take(x) \/ Exporting!Acknowledge(x) \/ Exporting!Raise(x) \/ Exporting!Kill(x)
    <3>1. /\ DumpsOK' /\ \A i \in Dumps \ {DumpOf[x]} : dumps'[i] = dumps[i]
          /\ dumps'[DumpOf[x]].state = "running" <=> dumpStep'[x] # "idle"
      <4>1. CASE Exporting!Take(x)
        <5>1. Exporting!StartJob(DumpOf[x])
              /\ dumpStep'[x] = IF Exporting!Exhausted(DumpOf[x]) THEN "idle" ELSE "run"
          BY <1>5, <4>1 DEF Exporting!Take, Exporting!JobGoto
        <5>2. /\ DumpsOK' /\ \A i \in Dumps \ {DumpOf[x]} : dumps'[i] = dumps[i]
              /\ dumps'[DumpOf[x]].state = IF Exporting!Exhausted(DumpOf[x]) THEN "failed" ELSE "running"
          BY <1>4, <5>1, DumpQueueSteps
             DEF Exporting!ExportAssumption, DumpsOK, ExportInvariant, Exporting!TypeOK
        <5> QED BY <5>1, <5>2
      <4>2. CASE Exporting!Acknowledge(x) \/ Exporting!Raise(x) \/ Exporting!Kill(x)
        <5>1. /\ \/ Exporting!FinishJob(DumpOf[x]) \/ Exporting!FailJob(DumpOf[x])
                 \/ Exporting!KillJob(DumpOf[x])
              /\ dumpStep'[x] = "idle"
          BY <1>5, <4>2
             DEF Exporting!Acknowledge, Exporting!Raise, Exporting!Kill, Exporting!JobGoto
        <5>2. /\ DumpsOK' /\ \A i \in Dumps \ {DumpOf[x]} : dumps'[i] = dumps[i]
              /\ dumps'[DumpOf[x]].state # "running"
          BY <1>4, <5>1, DumpQueueSteps
             DEF Exporting!ExportAssumption, DumpsOK, ExportInvariant, Exporting!TypeOK
        <5> QED BY <5>1, <5>2
      <4> QED BY <2>2, <4>1, <4>2
    <3>2. \A y \in Exports \ {x} : dumps'[DumpOf[y]] = dumps[DumpOf[y]] /\ dumpStep'[y] = dumpStep[y]
      BY <1>2, <1>4, <1>5, <3>1
    <3> QED BY <1>3, <3>1, <3>2
  <2>3. CASE \/ Exporting!Run(x) \/ Exporting!Dump(x) \/ Exporting!Upload(x) \/ Exporting!Fail(x)
             \/ Exporting!Complete(x)
    <3>1. UNCHANGED <<dumps, dumpKills>> /\ dumpStep[x] # "idle"
      BY <2>3 DEF Exporting!Run, Exporting!Dump, Exporting!Upload, Exporting!Fail,
                  Exporting!Complete, Exporting!queue
    <3>2. dumpStep'[x] # "idle"
      BY <1>5, <2>3 DEF Exporting!Run, Exporting!Dump, Exporting!Upload, Exporting!Fail,
                        Exporting!Complete, Exporting!JobGoto, Exporting!AfterUpload
    <3>3. next # "idle"
      BY <1>2, <1>5, <3>2
    <3> QED BY <2>1, <3>1, <3>3
  <2> QED BY <2>2, <2>3 DEF Exporting!Work
<1>7. Exporting!TypeOK'
  BY <1>1, <1>2, <1>6 DEF ExportInvariant, Exporting!TypeOK, DumpsOK
<1>8. CompletedHasObject'
  BY <1>1 DEF ExportInvariant, CompletedHasObject, Exporting!CompletedHasObject
<1>9. CompletingUploaded'
  BY <1>1, <1>2, <1>5 DEF ExportInvariant, CompletingUploaded
<1> QED BY <1>6, <1>7, <1>8, <1>9 DEF ExportInvariant, DumpsOK

LEMMA ExportStep ==
  ASSUME Exporting!ExportAssumption, ExportInvariant, [Exporting!Next]_(Exporting!vars)
  PROVE  ExportInvariant'
<1>1. CASE UNCHANGED Exporting!vars
  BY <1>1 DEF Exporting!vars, ExportInvariant, Exporting!TypeOK, Exporting!QueueTypeOK,
              DumpTriesBounded, CompletingUploaded, CompletedHasObject, Exporting!CompletedHasObject
<1>2. CASE Exporting!Next /\ ~UNCHANGED Exporting!vars
  BY <1>2, ExportRequestSteps, ExportJobSteps DEF Exporting!Next, Exporting!Quiet
<1> QED BY <1>1, <1>2

(* The inductive invariant of exports: types, tries left, and a job that   *)
(* goes on to complete its row has uploaded the file.                      *)
LEMMA ExportAlways == Exporting!ExportAssumption => (Exporting!Spec => []ExportInvariant)
<1> SUFFICES ASSUME Exporting!ExportAssumption PROVE Exporting!Spec => []ExportInvariant
  OBVIOUS
<1>1. Exporting!Init => ExportInvariant
  BY ExportInit
<1>2. ExportInvariant /\ [Exporting!Next]_(Exporting!vars) => ExportInvariant'
  BY ExportStep
<1> QED BY <1>1, <1>2, PTL DEF Exporting!Spec

-----------------------------------------------------------------------------
(* Ontology *)

(* A request that has not come to its end. *)
Underway == {"find", "check", "snapshot", "item", "refs", "write"}

(* A type it may extend: none, or one there is to its eyes.                *)
InView(t, s) == s \in {NoType} \cup DOMAIN rows \cup DOMAIN ontologyDraft[t]

(* It has an item to handle; what handles just one has written nothing.    *)
HasItem(t) ==
  /\ ontologyPc[t] = "new" => ontologyDraft[t] = << >>
  /\ ontologyPc[t] \in Underway =>
    /\ ontologyBody[t] \in Changes /\ ontologyTodo[t] # << >>
    /\ ontologyBody[t].kind \notin {"apply", "seed"} =>
         Len(ontologyTodo[t]) = 1 /\ ontologyDraft[t] = << >>
    /\ ontologyPc[t] \in {"snapshot", "item"} => ontologyBody[t].kind = "apply"

(* What its item extends has been looked up, or is still to be.            *)
UnderFound(t) ==
  ontologyPc[t] \in {"refs", "write"} /\ ontologyBody[t].kind \in {"create", "update", "apply"} =>
    \/ InView(t, ontologyTodo[t][1].under)
    \/ /\ ontologyPc[t] = "refs"
       /\ \E i \in 1..Len(wanted[t]) : wanted[t][i] = ontologyTodo[t][1].under

Wanting(t) == ontologyPc[t] = "refs" => wanted[t] # << >>

(* What is changed or deleted is there, deleted by another or not.         *)
SlugFound(t) ==
  ontologyPc[t] \in {"check", "refs", "write"} /\ ontologyBody[t].kind \in {"update", "delete"} =>
    ontologyTodo[t][1].slug \in DOMAIN rows

(* The seed writes every slug once, and what a type extends before it.     *)
InOrder(t, k) ==
  LET item == ontologyTodo[t][k]
  IN /\ item.slug \notin DOMAIN ontologyDraft[t]
     /\ \A l \in 1..Len(ontologyTodo[t]) : item.slug = ontologyTodo[t][l].slug => k = l
     /\ item.slug \in OntologyTypes =>
          \/ InView(t, item.under)
          \/ \E l \in 1..(k - 1) : item.under = ontologyTodo[t][l].slug

SeedInOrder(t) ==
  ontologyPc[t] \in Underway /\ ontologyBody[t].kind = "seed" =>
    \A k \in 1..Len(ontologyTodo[t]) : InOrder(t, k)

(* The path of a type ends in the type itself. *)
PathsEndInSelf(rs) ==
  \A s \in DOMAIN rs \cap OntologyTypes : rs[s].path # << >> /\ rs[s].path[Len(rs[s].path)] = s

(* Uncommitted paths follow committed links and those of the same request. *)
DraftPaths(t) ==
  /\ Ontology!PathsAlong(ontologyDraft[t], links \cup Ontology!Extends(ontologyDraft[t]))
  /\ PathsEndInSelf(ontologyDraft[t])

(* The inductive invariant behind PathLinksReal. *)
OntologyInvariant ==
  /\ Ontology!TypeOK
  /\ DOMAIN ontologyDraft = Requests /\ ontologyDraft = [t \in Requests |-> ontologyDraft[t]]
  /\ PathLinksReal /\ PathsEndInSelf(rows)
  /\ \A t \in Requests :
       /\ HasItem(t) /\ Wanting(t) /\ UnderFound(t) /\ SlugFound(t) /\ SeedInOrder(t)
       /\ DraftPaths(t)

(* A pair of sequences, one of them perhaps empty.                         *)
LEMMA ReferencesOf ==
  ASSUME NEW i \in Ontology!Item, NoType \notin OntologyTypes
  PROVE  /\ Ontology!References(i) \in Seq(OntologyTypes)
         /\ \/ i.under = NoType
            \/ \E k \in 1..Len(Ontology!References(i)) : Ontology!References(i)[k] = i.under
<1>1. i.under \in OntologyTypes \cup {NoType} /\ i.range \in OntologyTypes \cup {NoType}
  BY DEF Ontology!Item
<1>2. PICK a, b :
        /\ a = IF i.under = NoType THEN << >> ELSE <<i.under>>
        /\ b = IF i.range = NoType THEN << >> ELSE <<i.range>>
  OBVIOUS
<1>3. a \in Seq(OntologyTypes) /\ b \in Seq(OntologyTypes)
  BY <1>1, <1>2
<1>4. Ontology!References(i) = a \o b
  BY <1>2 DEF Ontology!References
<1>5. CASE i.under = NoType
  BY <1>3, <1>4, <1>5
<1>6. CASE i.under # NoType
  <2>1. Len(a) = 1 /\ a[1] = i.under
    BY <1>2, <1>6
  <2>2. 1 \in 1..Len(a \o b) /\ (a \o b)[1] = i.under
    <3>1. Len(b) \in Nat /\ Len(a \o b) = Len(a) + Len(b)
      BY <1>3
    <3>2. (a \o b)[1] = a[1]
      BY <1>3, <2>1, <3>1
    <3> QED BY <2>1, <3>1, <3>2
  <2> QED BY <1>3, <1>4, <2>2
<1> QED BY <1>5, <1>6

(* The order of a topological sort has the items in it, each once; of a    *)
(* closed list, what an item extends comes before it.                      *)
LEMMA OrderOf ==
  ASSUME NEW items \in Seq(Ontology!Item), NEW order \in Ontology!Orders(items)
  PROVE  /\ order \in Seq(Ontology!Item) /\ Len(order) = Len(items)
         /\ Ontology!SeedClosed(items) =>
              \A k \in 1..Len(order) :
                /\ \A l \in 1..Len(order) : order[k].slug = order[l].slug => k = l
                /\ order[k].slug \notin OntologyRelations =>
                     \/ order[k].under = NoType
                     \/ \E l \in 1..(k - 1) : order[k].under = order[l].slug
<1> DEFINE n == Len(items)
<1>0. n \in Nat
  OBVIOUS
<1>1. PICK p \in [1..n -> 1..n] :
        /\ order = [k \in 1..n |-> items[p[k]]]
        /\ \A k, l \in 1..n : p[k] = p[l] => k = l
        /\ \A k, l \in 1..n :
             items[p[k]].slug \notin OntologyRelations /\ items[p[k]].under = items[p[l]].slug => l < k
  BY DEF Ontology!Orders
<1>2. \A k \in 1..n : p[k] \in 1..n /\ items[p[k]] \in Ontology!Item /\ order[k] = items[p[k]]
  BY <1>1
<1>3. order \in Seq(Ontology!Item) /\ Len(order) = n
  BY <1>0, <1>1, <1>2
<1>4. \A m \in 1..n : \E k \in 1..n : p[k] = m
  <2> SUFFICES ASSUME NEW m \in 1..n, \A k \in 1..n : p[k] # m
               PROVE  FALSE
    OBVIOUS
  <2>1. p \in [1..n -> (1..n) \ {m}]
    OBVIOUS
  <2>2. IsFiniteSet(1..n) /\ Cardinality(1..n) = n
    BY <1>0, FS_Interval
  <2>3. IsFiniteSet((1..n) \ {m}) /\ Cardinality((1..n) \ {m}) = n - 1
    BY <2>2, FS_RemoveElement
  <2>4. \E k, l \in 1..n : k # l /\ p[k] = p[l]
    BY <1>0, <2>1, <2>2, <2>3, FS_PigeonHole
  <2> QED BY <1>1, <2>4
<1>5. ASSUME Ontology!SeedClosed(items), NEW k \in 1..n
      PROVE  /\ \A l \in 1..n : order[k].slug = order[l].slug => k = l
             /\ order[k].slug \notin OntologyRelations =>
                  \/ order[k].under = NoType
                  \/ \E l \in 1..(k - 1) : order[k].under = order[l].slug
  <2>1. /\ \A j \in 1..n : items[p[k]].slug = items[j].slug => p[k] = j
        /\ items[p[k]].under = NoType \/ \E j \in 1..n : items[p[k]].under = items[j].slug
    BY <1>2, <1>5 DEF Ontology!SeedClosed
  <2>2. \A l \in 1..n : order[k].slug = order[l].slug => k = l
    BY <1>1, <1>2, <2>1
  <2>3. ASSUME order[k].slug \notin OntologyRelations, order[k].under # NoType
        PROVE  \E l \in 1..(k - 1) : order[k].under = order[l].slug
    <3>0. PICK j \in 1..n : items[p[k]].under = items[j].slug
      BY <1>2, <2>1, <2>3
    <3>a. PICK l \in 1..n : p[l] = j
      BY <1>4
    <3>b. order[k] = items[p[k]] /\ order[l] = items[j]
      BY <1>2, <3>a
    <3>1. order[k].under = order[l].slug
      BY <3>0, <3>b
    <3>2. l < k
      BY <1>1, <1>2, <2>3, <3>1
    <3> QED BY <1>0, <3>1, <3>2
  <2> QED BY <2>2, <2>3
<1> QED BY <1>3, <1>5

(* A longer path has one step more.                                        *)
LEMMA StepsAppend ==
  ASSUME NEW path \in Seq(OntologyTypes), path # << >>, NEW s \in OntologyTypes
  PROVE  /\ Append(path, s) \in Seq(OntologyTypes) /\ Append(path, s) # << >>
         /\ Append(path, s)[Len(Append(path, s))] = s
         /\ Ontology!Steps(Append(path, s)) \subseteq Ontology!Steps(path) \cup {<<s, path[Len(path)]>>}
<1>1. PICK n \in Nat : n = Len(path) /\ n >= 1
  OBVIOUS
<1>2. /\ Append(path, s) \in Seq(OntologyTypes) /\ Len(Append(path, s)) = n + 1
      /\ Append(path, s)[n + 1] = s /\ \A i \in 1..n : Append(path, s)[i] = path[i]
  BY <1>1
<1>3. ASSUME NEW i \in 1..n
      PROVE  <<Append(path, s)[i + 1], Append(path, s)[i]>>
               \in Ontology!Steps(path) \cup {<<s, path[n]>>}
  <2>1. CASE i = n
    BY <1>2, <2>1
  <2>2. CASE i # n
    <3>1. i \in 1..(n - 1) /\ i + 1 \in 1..n
      BY <2>2
    <3> QED BY <1>1, <1>2, <3>1 DEF Ontology!Steps
  <2> QED BY <2>1, <2>2
<1>4. Ontology!Steps(Append(path, s)) \subseteq Ontology!Steps(path) \cup {<<s, path[n]>>}
  BY <1>1, <1>2, <1>3 DEF Ontology!Steps
<1> QED BY <1>1, <1>2, <1>4

LEMMA ShortPaths ==
  /\ Ontology!Steps(<< >>) = {}
  /\ \A s : Ontology!Steps(<<s>>) = {}
  BY DEF Ontology!Steps

(* Rows of types and relations among which every path follows some links.  *)
PathsOK(rs, steps) ==
  Ontology!RowsOK(rs) /\ Ontology!PathsAlong(rs, steps) /\ PathsEndInSelf(rs)

(* The path the trigger gives a row: that of its parent, and itself.       *)
LEMMA HierarchyPath ==
  ASSUME Ontology!OntologyAssumption, NEW rs, NEW steps, PathsOK(rs, steps),
         NEW slug \in Ontology!Slugs, NEW under \in OntologyTypes \cup {NoType},
         slug \in OntologyTypes => under \in {NoType} \cup DOMAIN rs
  PROVE  LET path == Ontology!Hierarchy(rs, slug, under)
         IN /\ path \in Seq(OntologyTypes)
            /\ slug \in OntologyTypes => path # << >> /\ path[Len(path)] = slug
            /\ Ontology!Steps(path) \subseteq
                 steps \cup {p \in {<<slug, under>>} : slug \in OntologyTypes /\ under # NoType}
<1>1. OntologyTypes \cap OntologyRelations = {}
      /\ Ontology!Slugs = OntologyTypes \cup OntologyRelations
  BY DEF Ontology!OntologyAssumption, Ontology!Slugs
<1>2. CASE slug \in OntologyRelations
  <2>1. Ontology!Hierarchy(rs, slug, under) = << >>
    BY <1>2 DEF Ontology!Hierarchy
  <2> QED BY <1>1, <1>2, <2>1, ShortPaths
<1>3. CASE slug \in OntologyTypes /\ under = NoType
  <2>1. Ontology!Hierarchy(rs, slug, under) = <<slug>>
    BY <1>1, <1>3 DEF Ontology!Hierarchy
  <2> QED BY <1>3, <2>1, ShortPaths
<1>4. CASE slug \in OntologyTypes /\ under # NoType
  <2>1. Ontology!Hierarchy(rs, slug, under) = Append(rs[under].path, slug)
    BY <1>1, <1>4 DEF Ontology!Hierarchy
  <2>2. under \in DOMAIN rs /\ under \in OntologyTypes
    BY <1>4
  <2>3. rs[under].path \in Seq(OntologyTypes)
    BY <2>2 DEF PathsOK, Ontology!RowsOK, Ontology!Row
  <2>4. rs[under].path # << >> /\ rs[under].path[Len(rs[under].path)] = under
        /\ Ontology!Steps(rs[under].path) \subseteq steps
    BY <2>2 DEF PathsOK, PathsEndInSelf, Ontology!PathsAlong
  <2>5. PICK path : path = rs[under].path
    OBVIOUS
  <2> QED BY <1>4, <2>1, <2>3, <2>4, <2>5, StepsAppend
<1> QED BY <1>1, <1>2, <1>3, <1>4

(* What a request sees is well-formed, with its own links.                 *)
LEMMA ViewOK ==
  ASSUME OntologyInvariant, NEW t \in Requests
  PROVE  /\ PathsOK(Ontology!View(t), links \cup Ontology!Extends(ontologyDraft[t]))
         /\ DOMAIN Ontology!View(t) = DOMAIN rows \cup DOMAIN ontologyDraft[t]
         /\ \A s \in DOMAIN Ontology!View(t) : Ontology!View(t)[s] \in Ontology!Row
<1>1. /\ DOMAIN Ontology!View(t) = DOMAIN rows \cup DOMAIN ontologyDraft[t]
      /\ \A s \in DOMAIN Ontology!View(t) :
           \/ s \in DOMAIN ontologyDraft[t] /\ Ontology!View(t)[s] = ontologyDraft[t][s]
           \/ s \in DOMAIN rows /\ Ontology!View(t)[s] = rows[s]
  BY DEF Ontology!View, Ontology!Overlay
<1>2. Ontology!RowsOK(rows) /\ Ontology!RowsOK(ontologyDraft[t])
  BY DEF OntologyInvariant, Ontology!TypeOK
<1>3. Ontology!RowsOK(Ontology!View(t))
  BY <1>1, <1>2 DEF Ontology!RowsOK
<1>4. /\ Ontology!PathsAlong(rows, links) /\ PathsEndInSelf(rows)
      /\ Ontology!PathsAlong(ontologyDraft[t], links \cup Ontology!Extends(ontologyDraft[t]))
      /\ PathsEndInSelf(ontologyDraft[t])
  BY DEF OntologyInvariant, PathLinksReal, Ontology!PathLinksReal, DraftPaths
<1>5. Ontology!PathsAlong(Ontology!View(t), links \cup Ontology!Extends(ontologyDraft[t]))
  BY <1>1, <1>4 DEF Ontology!PathsAlong
<1>6. PathsEndInSelf(Ontology!View(t))
  BY <1>1, <1>4 DEF PathsEndInSelf
<1> QED BY <1>1, <1>3, <1>5, <1>6 DEF PathsOK, Ontology!RowsOK

(* What the invariant says of one request.                                 *)
RequestOK(t) ==
  /\ HasItem(t) /\ Wanting(t) /\ UnderFound(t) /\ SlugFound(t) /\ SeedInOrder(t)
  /\ DraftPaths(t)

(* It stays so while others commit.                                        *)
LEMMA OthersOK ==
  ASSUME NEW u, RequestOK(u),
         ontologyPc'[u] = ontologyPc[u], ontologyBody'[u] = ontologyBody[u],
         ontologyTodo'[u] = ontologyTodo[u], wanted'[u] = wanted[u],
         ontologyDraft'[u] = ontologyDraft[u],
         DOMAIN rows \subseteq DOMAIN rows', links \subseteq links'
  PROVE  RequestOK(u)'
<1>1. \A s : InView(u, s) => InView(u, s)'
  BY DEF InView
<1>2. HasItem(u)' /\ Wanting(u)' /\ SlugFound(u)'
  BY DEF RequestOK, HasItem, Wanting, SlugFound
<1>3. UnderFound(u)'
  BY <1>1 DEF RequestOK, UnderFound
<1>4. SeedInOrder(u)'
  <2> SUFFICES ASSUME ontologyPc'[u] \in Underway, ontologyBody'[u].kind = "seed",
                      NEW k \in 1..Len(ontologyTodo'[u])
               PROVE  InOrder(u, k)'
    BY DEF SeedInOrder
  <2>1. InOrder(u, k)
    BY DEF RequestOK, SeedInOrder
  <2> QED BY <1>1, <2>1 DEF InOrder
<1>5. DraftPaths(u)'
  BY DEF RequestOK, DraftPaths, Ontology!PathsAlong
<1> QED BY <1>2, <1>3, <1>4, <1>5 DEF RequestOK

(* The step of one request keeps the invariant when it keeps the types and *)
(* the rows, and what is said of the request itself.                       *)
LEMMA OntologyKeeps ==
  ASSUME OntologyInvariant, NEW t \in Requests,
         Ontology!TypeOK', ontologyDraft' = [u \in Requests |-> ontologyDraft'[u]],
         PathLinksReal', PathsEndInSelf(rows)',
         \A u \in Requests \ {t} :
           /\ ontologyPc'[u] = ontologyPc[u] /\ ontologyBody'[u] = ontologyBody[u]
           /\ ontologyTodo'[u] = ontologyTodo[u] /\ wanted'[u] = wanted[u]
           /\ ontologyDraft'[u] = ontologyDraft[u],
         DOMAIN rows \subseteq DOMAIN rows', links \subseteq links',
         RequestOK(t)'
  PROVE  OntologyInvariant'
<1>1. \A u \in Requests : RequestOK(u)
  BY DEF OntologyInvariant, RequestOK
<1>2. \A u \in Requests : RequestOK(u)'
  BY <1>1, OthersOK
<1> QED BY <1>2 DEF OntologyInvariant, RequestOK

(* A request that changes no row: the rows, links and drafts are as before. *)
LEMMA OntologyReads ==
  ASSUME OntologyInvariant, NEW t \in Requests,
         UNCHANGED <<rows, links, ontologyDraft>>, Ontology!TypeOK',
         \A u \in Requests \ {t} :
           /\ ontologyPc'[u] = ontologyPc[u] /\ ontologyBody'[u] = ontologyBody[u]
           /\ ontologyTodo'[u] = ontologyTodo[u] /\ wanted'[u] = wanted[u],
         HasItem(t)' /\ Wanting(t)' /\ UnderFound(t)' /\ SlugFound(t)' /\ SeedInOrder(t)'
  PROVE  OntologyInvariant'
<1>1. DraftPaths(t)' /\ PathLinksReal' /\ PathsEndInSelf(rows)'
      /\ ontologyDraft' = [u \in Requests |-> ontologyDraft'[u]]
  BY DEF OntologyInvariant, DraftPaths, PathLinksReal, Ontology!PathLinksReal,
         Ontology!PathsAlong, PathsEndInSelf
<1> QED BY <1>1, OntologyKeeps DEF RequestOK

(* It is through with its item: with the last of them, or, of a proposal,  *)
(* it goes on to the next.                                                 *)
LEMMA AdvanceMoves ==
  ASSUME OntologyInvariant, NEW t \in Requests, ontologyPc[t] \in Underway, Ontology!Advance(t)
  PROVE  /\ ontologyTodo' = [ontologyTodo EXCEPT ![t] = Tail(ontologyTodo[t])]
         /\ Tail(ontologyTodo[t]) \in Seq(Ontology!Item)
         /\ Len(Tail(ontologyTodo[t])) = Len(ontologyTodo[t]) - 1
         /\ \A i \in 1..(Len(ontologyTodo[t]) - 1) : Tail(ontologyTodo[t])[i] = ontologyTodo[t][i + 1]
         /\ \E next \in {"done", "write", "item"} :
              /\ ontologyPc' = [ontologyPc EXCEPT ![t] = next]
              /\ next # "done" => Tail(ontologyTodo[t]) # << >>
              /\ next = "write" => ontologyBody[t].kind = "seed"
              /\ next = "item" => ontologyBody[t].kind = "apply"
<1>1. /\ ontologyTodo[t] \in Seq(Ontology!Item) /\ ontologyTodo[t] # << >>
      /\ ontologyTodo \in [Requests -> Seq(Ontology!Item)]
      /\ ontologyBody[t].kind \notin {"apply", "seed"} => Len(ontologyTodo[t]) = 1
  BY DEF OntologyInvariant, Ontology!TypeOK, HasItem
<1>2. /\ Tail(ontologyTodo[t]) \in Seq(Ontology!Item)
      /\ Len(Tail(ontologyTodo[t])) = Len(ontologyTodo[t]) - 1
      /\ \A i \in 1..(Len(ontologyTodo[t]) - 1) : Tail(ontologyTodo[t])[i] = ontologyTodo[t][i + 1]
  BY <1>1, HeadTailProperties
<1>3. ontologyTodo' = [ontologyTodo EXCEPT ![t] = Tail(ontologyTodo[t])]
  BY DEF Ontology!Advance
<1>4. Len(ontologyTodo[t]) # 1 => Tail(ontologyTodo[t]) # << >>
  <2>1. Len(ontologyTodo[t]) \in Nat /\ Len(<< >>) = 0
    BY <1>1
  <2>2. Len(ontologyTodo[t]) # 1 => Len(Tail(ontologyTodo[t])) # 0
    BY <1>2, <2>1
  <2> QED BY <2>1, <2>2
<1>5. CASE Len(ontologyTodo[t]) = 1
  BY <1>2, <1>3, <1>5 DEF Ontology!Advance, Ontology!Goto
<1>6. CASE Len(ontologyTodo[t]) # 1
  <2>1. ontologyBody[t].kind \in {"apply", "seed"}
    BY <1>1, <1>6
  <2>2. ontologyPc' = [ontologyPc EXCEPT ![t] =
                         IF ontologyBody[t].kind = "seed" THEN "write" ELSE "item"]
    BY <1>6 DEF Ontology!Advance, Ontology!Goto
  <2> QED BY <1>2, <1>3, <1>4, <1>6, <2>1, <2>2
<1> QED BY <1>5, <1>6

(* It goes on to look up what is left of the references.                   *)
LEMMA SeekMoves ==
  ASSUME NEW t \in Requests, NEW refs \in Seq(OntologyTypes), Ontology!Seek(t, refs)
  PROVE  /\ wanted' = [wanted EXCEPT ![t] = refs]
         /\ \/ refs = << >> /\ ontologyPc' = [ontologyPc EXCEPT ![t] = "write"]
            \/ refs # << >> /\ ontologyPc' = [ontologyPc EXCEPT ![t] = "refs"]
  BY DEF Ontology!Seek, Ontology!Goto

LEMMA OntologyInit == Ontology!OntologyAssumption /\ Ontology!Init => OntologyInvariant
<1> SUFFICES ASSUME Ontology!OntologyAssumption, Ontology!Init PROVE OntologyInvariant
  OBVIOUS
<1>1. DOMAIN Seeded \subseteq Ontology!Slugs /\ \A s \in DOMAIN Seeded : Seeded[s] \in Ontology!Row
  BY DEF Ontology!OntologyAssumption
<1>2. Ontology!TypeOK
  <2>1. Ontology!Extends(Seeded) \subseteq OntologyTypes \X OntologyTypes
    BY <1>1 DEF Ontology!Extends, Ontology!Row
  <2>2. Ontology!RowsOK(rows) /\ \A t \in Requests : Ontology!RowsOK(ontologyDraft[t])
    BY <1>1 DEF Ontology!Init, Ontology!RowsOK
  <2>3. << >> \in Seq(OntologyTypes) /\ << >> \in Seq(Ontology!Item)
    OBVIOUS
  <2> QED BY <2>1, <2>2, <2>3 DEF Ontology!Init, Ontology!TypeOK
<1>3. PathLinksReal /\ PathsEndInSelf(rows)
  BY DEF Ontology!OntologyAssumption, Ontology!Init, PathLinksReal, Ontology!PathLinksReal,
         PathsEndInSelf
<1>4. ASSUME NEW t \in Requests
      PROVE  HasItem(t) /\ Wanting(t) /\ UnderFound(t) /\ SlugFound(t) /\ SeedInOrder(t)
             /\ DraftPaths(t)
  BY DEF Ontology!Init, HasItem, Wanting, UnderFound, SlugFound, SeedInOrder, DraftPaths,
         Ontology!PathsAlong, PathsEndInSelf, Underway
<1>5. ontologyDraft = [t \in Requests |-> ontologyDraft[t]]
  BY DEF Ontology!Init
<1> QED BY <1>2, <1>3, <1>4, <1>5 DEF OntologyInvariant

(* The places of the requests have the values the code can give them.      *)
Placed ==
  /\ ontologyPc \in [Requests -> {"new", "find", "check", "snapshot", "item", "refs", "write",
                                  "done", "failed", "ended"}]
  /\ ontologyBody \in [Requests -> Changes \cup {NoChange}]
  /\ ontologyTodo \in [Requests -> Seq(Ontology!Item)]
  /\ wanted \in [Requests -> Seq(OntologyTypes)]
  /\ known \in [Requests -> SUBSET Ontology!Slugs]

LEMMA PlacedType ==
  Ontology!TypeOK <=>
    /\ Ontology!RowsOK(rows) /\ links \subseteq OntologyTypes \X OntologyTypes /\ Placed
    /\ \A t \in Requests : Ontology!RowsOK(ontologyDraft[t])
  BY DEF Ontology!TypeOK, Placed

(* A request that changes no row goes on, others stay where they are.      *)
LEMMA OntologyMoves ==
  ASSUME OntologyInvariant, NEW t \in Requests,
         UNCHANGED <<rows, links, ontologyDraft>>,
         NEW next \in {"find", "check", "snapshot", "item", "refs", "write", "done", "failed"},
         NEW bodyIs \in Changes \cup {NoChange}, NEW items \in Seq(Ontology!Item),
         NEW refs \in Seq(OntologyTypes), NEW slugs \in SUBSET Ontology!Slugs,
         ontologyPc' = [ontologyPc EXCEPT ![t] = next],
         ontologyBody' = [ontologyBody EXCEPT ![t] = bodyIs],
         ontologyTodo' = [ontologyTodo EXCEPT ![t] = items],
         wanted' = [wanted EXCEPT ![t] = refs],
         known' = [known EXCEPT ![t] = slugs],
         HasItem(t)' /\ Wanting(t)' /\ UnderFound(t)' /\ SlugFound(t)' /\ SeedInOrder(t)'
  PROVE  OntologyInvariant'
<1>1. Placed
  BY PlacedType DEF OntologyInvariant
<1>2. Placed'
  BY <1>1 DEF Placed
<1>3. Ontology!TypeOK'
  BY <1>2, PlacedType DEF OntologyInvariant, Ontology!TypeOK, Placed, Ontology!RowsOK
<1>4. \A u \in Requests \ {t} :
        /\ ontologyPc'[u] = ontologyPc[u] /\ ontologyBody'[u] = ontologyBody[u]
        /\ ontologyTodo'[u] = ontologyTodo[u] /\ wanted'[u] = wanted[u]
  BY <1>1 DEF Placed
<1> QED BY <1>3, <1>4, OntologyReads

(* Through with an item, it has the next one, and nothing looked up for it. *)
LEMMA AdvanceKeeps ==
  ASSUME OntologyInvariant, NEW t \in Requests, ontologyPc[t] \in Underway, Ontology!Advance(t),
         UNCHANGED ontologyBody
  PROVE  /\ HasItem(t)' /\ Wanting(t)' /\ UnderFound(t)' /\ SlugFound(t)'
         /\ ontologyBody[t].kind # "seed" => SeedInOrder(t)'
<1>1. PICK next \in {"done", "write", "item"} :
        /\ ontologyPc' = [ontologyPc EXCEPT ![t] = next]
        /\ next # "done" => Tail(ontologyTodo[t]) # << >>
        /\ next = "write" => ontologyBody[t].kind = "seed"
        /\ next = "item" => ontologyBody[t].kind = "apply"
  BY AdvanceMoves
<1>2. ontologyTodo' = [ontologyTodo EXCEPT ![t] = Tail(ontologyTodo[t])]
  BY AdvanceMoves
<1>3. Placed
  BY PlacedType DEF OntologyInvariant
<1>4. ontologyPc'[t] = next /\ ontologyTodo'[t] = Tail(ontologyTodo[t])
  BY <1>1, <1>2, <1>3 DEF Placed
<1>5. ontologyBody[t] \in Changes
  BY DEF OntologyInvariant, HasItem
<1>6. HasItem(t)'
  BY <1>1, <1>4, <1>5 DEF HasItem, Underway
<1>7. Wanting(t)' /\ UnderFound(t)' /\ SlugFound(t)'
  BY <1>1, <1>4 DEF Wanting, UnderFound, SlugFound
<1>8. ontologyBody[t].kind # "seed" => SeedInOrder(t)'
  BY DEF SeedInOrder
<1> QED BY <1>6, <1>7, <1>8

(* To look up the references of an item makes sure of what it extends.     *)
LEMMA SeekFinds ==
  ASSUME OntologyInvariant, NEW t \in Requests, NEW refs \in Seq(OntologyTypes),
         Ontology!Seek(t, refs),
         \/ InView(t, ontologyTodo'[t][1].under)
         \/ \E k \in 1..Len(refs) : refs[k] = ontologyTodo'[t][1].under,
         UNCHANGED <<rows, ontologyDraft>>
  PROVE  /\ Wanting(t)' /\ UnderFound(t)'
         /\ \E next \in {"refs", "write"} : ontologyPc' = [ontologyPc EXCEPT ![t] = next]
         /\ wanted' = [wanted EXCEPT ![t] = refs]
<1>1. Placed
  BY PlacedType DEF OntologyInvariant
<1>2. /\ wanted' = [wanted EXCEPT ![t] = refs]
      /\ \/ refs = << >> /\ ontologyPc' = [ontologyPc EXCEPT ![t] = "write"]
         \/ refs # << >> /\ ontologyPc' = [ontologyPc EXCEPT ![t] = "refs"]
  BY SeekMoves
<1>3. wanted'[t] = refs /\ ontologyPc'[t] = IF refs = << >> THEN "write" ELSE "refs"
  BY <1>1, <1>2 DEF Placed
<1>4. refs = << >> => InView(t, ontologyTodo'[t][1].under)
  OBVIOUS
<1>5. InView(t, ontologyTodo'[t][1].under) => InView(t, ontologyTodo[t][1].under)'
  BY DEF InView
<1>6. Wanting(t)'
  BY <1>3 DEF Wanting
<1>7. UnderFound(t)'
  BY <1>3, <1>4, <1>5 DEF UnderFound
<1> QED BY <1>2, <1>6, <1>7

LEMMA ReceiveKeeps ==
  ASSUME Ontology!OntologyAssumption, OntologyInvariant, NEW t \in Requests, Ontology!Receive(t)
  PROVE  OntologyInvariant'
<1>1. PICK b \in Changes :
        /\ ontologyPc[t] = "new"
        /\ ontologyBody' = [ontologyBody EXCEPT ![t] = b]
        /\ ontologyTodo' \in {[ontologyTodo EXCEPT ![t] = items] :
                       items \in IF b.kind = "seed" THEN Ontology!Orders(b.items) ELSE {b.items}}
        /\ IF b.kind = "create"
             THEN Ontology!Seek(t, Ontology!References(b.items[1]))
             ELSE /\ Ontology!Goto(t, CASE b.kind = "apply" -> "snapshot"
                                      [] b.kind = "seed"  -> "write"
                                      [] OTHER            -> "find")
                  /\ UNCHANGED wanted
        /\ UNCHANGED <<rows, links, known, ontologyDraft>>
  BY DEF Ontology!Receive
<1>2. PICK items \in IF b.kind = "seed" THEN Ontology!Orders(b.items) ELSE {b.items} :
        ontologyTodo' = [ontologyTodo EXCEPT ![t] = items]
  BY <1>1
<1>3. /\ b \in Ontology!Body /\ b.items # << >>
      /\ b.kind \notin {"apply", "seed"} => Len(b.items) = 1
      /\ b.kind = "seed" => Ontology!SeedClosed(b.items)
      /\ NoType \notin OntologyTypes /\ OntologyTypes \cap OntologyRelations = {}
  BY DEF Ontology!OntologyAssumption
<1>4. b.items \in Seq(Ontology!Item) /\ b.kind \in {"create", "update", "delete", "apply", "seed"}
  BY <1>3 DEF Ontology!Body
<1>5. items \in Seq(Ontology!Item) /\ items # << >> /\ (b.kind # "seed" => items = b.items)
  <2>1. CASE b.kind # "seed"
    BY <1>2, <1>3, <1>4, <2>1
  <2>2. CASE b.kind = "seed"
    <3>1. items \in Ontology!Orders(b.items)
      BY <1>2, <2>2
    <3>2. items \in Seq(Ontology!Item) /\ Len(items) = Len(b.items)
      BY <1>4, <3>1, OrderOf
    <3>3. Len(b.items) # 0
      BY <1>3, <1>4
    <3> QED BY <2>2, <3>2, <3>3
  <2> QED BY <2>1, <2>2
<1>6. Placed /\ ontologyDraft[t] = << >>
  BY <1>1, PlacedType DEF OntologyInvariant, HasItem
<1>7. ontologyBody'[t] = b /\ ontologyTodo'[t] = items /\ known' = [known EXCEPT ![t] = known[t]]
      /\ known[t] \in SUBSET Ontology!Slugs /\ wanted[t] \in Seq(OntologyTypes)
      /\ wanted = [wanted EXCEPT ![t] = wanted[t]]
  BY <1>1, <1>2, <1>6 DEF Placed
<1>8. ontologyPc'[t] = "write" => SeedInOrder(t)'
  <2> SUFFICES ASSUME b.kind = "seed", NEW k \in 1..Len(items)
               PROVE  InOrder(t, k)'
    BY <1>7 DEF SeedInOrder
  <2>1. items \in Ontology!Orders(b.items)
    BY <1>2
  <2>2. /\ \A l \in 1..Len(items) : items[k].slug = items[l].slug => k = l
        /\ items[k].slug \notin OntologyRelations =>
             \/ items[k].under = NoType
             \/ \E l \in 1..(k - 1) : items[k].under = items[l].slug
    BY <1>3, <1>4, <2>1, OrderOf
  <2>3. ontologyDraft'[t] = << >>
    BY <1>1, <1>6
  <2>4. items[k].slug \in OntologyTypes =>
          \/ InView(t, items[k].under)'
          \/ \E l \in 1..(k - 1) : items[k].under = items[l].slug
    BY <1>3, <2>2 DEF InView
  <2> QED BY <1>7, <2>2, <2>3, <2>4 DEF InOrder
<1>9. HasItem(t)' /\ (ontologyPc'[t] # "new" => SlugFound(t)')
      /\ (b.kind # "seed" => SeedInOrder(t)')
  <2>1. ontologyPc'[t] \in {"write", "refs", "snapshot", "find"}
        /\ (ontologyPc'[t] = "snapshot" => b.kind = "apply")
        /\ (ontologyPc'[t] \in {"write", "refs"} => b.kind \in {"create", "seed"})
    BY <1>1, <1>4, <1>6 DEF Ontology!Seek, Ontology!Goto, Placed
  <2>2. HasItem(t)'
    BY <1>1, <1>3, <1>5, <1>6, <1>7, <2>1 DEF HasItem
  <2> QED BY <1>7, <2>1, <2>2 DEF SlugFound, SeedInOrder
<1>10. /\ UNCHANGED <<rows, links, ontologyDraft>> /\ b \in Changes \cup {NoChange}
       /\ ontologyBody' = [ontologyBody EXCEPT ![t] = b]
  BY <1>1
<1>11. CASE b.kind = "create"
  <2>1. PICK refs \in Seq(OntologyTypes) :
          /\ refs = Ontology!References(b.items[1])
          /\ \/ b.items[1].under = NoType
             \/ \E k \in 1..Len(refs) : refs[k] = b.items[1].under
    BY <1>3, <1>4, <1>11, ReferencesOf
  <2>2. Ontology!Seek(t, refs) /\ ontologyTodo'[t][1] = b.items[1]
    BY <1>1, <1>5, <1>7, <1>11, <2>1
  <2>3. InView(t, NoType)
    BY DEF InView
  <2>4. /\ Wanting(t)' /\ UnderFound(t)'
        /\ \E next \in {"refs", "write"} : ontologyPc' = [ontologyPc EXCEPT ![t] = next]
        /\ wanted' = [wanted EXCEPT ![t] = refs]
    BY <1>1, <2>1, <2>2, <2>3, SeekFinds
  <2>5. PICK next \in {"refs", "write"} : ontologyPc' = [ontologyPc EXCEPT ![t] = next]
    BY <2>4
  <2>6. ontologyPc'[t] # "new" /\ b.kind # "seed"
    BY <1>6, <1>11, <2>5 DEF Placed
  <2> QED BY <1>2, <1>5, <1>7, <1>9, <1>10, <2>4, <2>5, <2>6, OntologyMoves
<1>12. CASE b.kind # "create"
  <2>1. PICK next \in {"snapshot", "write", "find"} :
          /\ ontologyPc' = [ontologyPc EXCEPT ![t] = next]
          /\ next = "write" => b.kind = "seed"
    BY <1>1, <1>12 DEF Ontology!Goto
  <2>2. ontologyPc'[t] = next /\ wanted' = [wanted EXCEPT ![t] = wanted[t]]
    BY <1>1, <1>6, <1>7, <1>12, <2>1 DEF Placed
  <2>3. Wanting(t)' /\ UnderFound(t)'
    BY <1>7, <2>1, <2>2 DEF Wanting, UnderFound
  <2>4. SeedInOrder(t)'
    <3>1. next = "write" \/ b.kind # "seed"
      BY <1>1, <1>6, <1>12, <2>1, <2>2 DEF Ontology!Goto, Placed
    <3> QED BY <1>8, <1>9, <2>2, <3>1
  <2>5. SlugFound(t)'
    BY <1>9, <2>2
  <2> QED BY <1>2, <1>5, <1>7, <1>9, <1>10, <2>1, <2>2, <2>3, <2>4, <2>5, OntologyMoves
<1> QED BY <1>11, <1>12

LEMMA FindKeeps ==
  ASSUME Ontology!OntologyAssumption, OntologyInvariant, NEW t \in Requests, Ontology!Find(t)
  PROVE  OntologyInvariant'
<1>1. /\ ontologyPc[t] \in {"find", "check"}
      /\ UNCHANGED <<rows, links, ontologyBody, ontologyDraft, ontologyTodo, known>>
  BY DEF Ontology!Find, Ontology!Quiet
<1>2. HasItem(t) /\ SeedInOrder(t) /\ SlugFound(t) /\ Placed
  BY PlacedType DEF OntologyInvariant
<1>3. ontologyTodo[t] # << >> /\ ontologyTodo[t] \in Seq(Ontology!Item)
      /\ ontologyBody[t] \in Changes
      /\ (ontologyBody[t].kind \notin {"apply", "seed"} => ontologyDraft[t] = << >>)
  BY <1>1, <1>2 DEF HasItem, Underway, Placed
<1>4. ontologyTodo[t][1] \in Ontology!Item
  BY <1>3
<1>5. /\ ontologyTodo' = [ontologyTodo EXCEPT ![t] = ontologyTodo[t]]
      /\ known' = [known EXCEPT ![t] = known[t]]
      /\ ontologyBody' = [ontologyBody EXCEPT ![t] = ontologyBody[t]]
      /\ wanted = [wanted EXCEPT ![t] = wanted[t]]
      /\ known[t] \in SUBSET Ontology!Slugs /\ wanted[t] \in Seq(OntologyTypes)
      /\ ontologyBody[t] \in Changes \cup {NoChange}
  BY <1>1, <1>2 DEF Placed
<1>6. ASSUME NEW next \in {"check", "refs", "write"}, ontologyPc'[t] = next
      PROVE  HasItem(t)' /\ SeedInOrder(t)'
  <2>1. HasItem(t)'
    BY <1>1, <1>2, <1>6 DEF HasItem, Underway
  <2>2. SeedInOrder(t)'
    BY <1>1, <1>2, <1>6 DEF SeedInOrder, InOrder, InView, Underway
  <2> QED BY <2>1, <2>2
<1>7. CASE \E next \in {"done", "failed"} : Ontology!Goto(t, next) /\ UNCHANGED wanted
  <2>1. PICK next \in {"done", "failed"} : ontologyPc' = [ontologyPc EXCEPT ![t] = next]
                                          /\ UNCHANGED wanted
    BY <1>7 DEF Ontology!Goto
  <2>2. ontologyPc'[t] = next
    BY <1>2, <2>1 DEF Placed
  <2>3. HasItem(t)' /\ Wanting(t)' /\ UnderFound(t)' /\ SlugFound(t)' /\ SeedInOrder(t)'
    BY <2>2 DEF HasItem, Wanting, UnderFound, SlugFound, SeedInOrder, Underway
  <2>4. wanted' = [wanted EXCEPT ![t] = wanted[t]]
    BY <1>5, <2>1
  <2> QED BY <1>1, <1>3, <1>5, <2>1, <2>3, <2>4, OntologyMoves
<1>8. CASE /\ ontologyTodo[t][1].slug \in Ontology!Live(Ontology!View(t))
           /\ ontologyPc[t] = "find" /\ Ontology!Goto(t, "check") /\ UNCHANGED wanted
  <2>1. ontologyPc' = [ontologyPc EXCEPT ![t] = "check"] /\ ontologyPc'[t] = "check"
    BY <1>2, <1>8 DEF Ontology!Goto, Placed
  <2>2. ontologyBody[t].kind \in {"update", "delete"} => ontologyTodo[t][1].slug \in DOMAIN rows
    BY <1>3, <1>8 DEF Ontology!Live, Ontology!View, Ontology!Overlay
  <2>3. SlugFound(t)' /\ Wanting(t)' /\ UnderFound(t)'
    BY <1>1, <2>1, <2>2 DEF SlugFound, Wanting, UnderFound
  <2>4. HasItem(t)' /\ SeedInOrder(t)'
    BY <1>6, <2>1
  <2>5. wanted' = [wanted EXCEPT ![t] = wanted[t]]
    BY <1>5, <1>8
  <2> QED BY <1>1, <1>3, <1>5, <2>1, <2>3, <2>4, <2>5, OntologyMoves
<1>9. CASE /\ ontologyPc[t] = "check" /\ ontologyBody[t].kind = "update"
           /\ Ontology!Seek(t, Ontology!References(ontologyTodo[t][1]))
  <2>1. PICK refs \in Seq(OntologyTypes) :
          /\ refs = Ontology!References(ontologyTodo[t][1])
          /\ \/ ontologyTodo[t][1].under = NoType
             \/ \E k \in 1..Len(refs) : refs[k] = ontologyTodo[t][1].under
    BY <1>4, ReferencesOf DEF Ontology!OntologyAssumption
  <2>2. Ontology!Seek(t, refs) /\ ontologyTodo'[t][1] = ontologyTodo[t][1]
    BY <1>1, <1>9, <2>1
  <2>3. InView(t, NoType)
    BY DEF InView
  <2>4. /\ Wanting(t)' /\ UnderFound(t)'
        /\ \E next \in {"refs", "write"} : ontologyPc' = [ontologyPc EXCEPT ![t] = next]
        /\ wanted' = [wanted EXCEPT ![t] = refs]
    BY <1>1, <2>1, <2>2, <2>3, SeekFinds
  <2>5. PICK next \in {"refs", "write"} : ontologyPc' = [ontologyPc EXCEPT ![t] = next]
    BY <2>4
  <2>6. ontologyPc'[t] = next
    BY <1>2, <2>5 DEF Placed
  <2>7. SlugFound(t)'
    BY <1>1, <1>2, <1>9 DEF SlugFound
  <2>8. HasItem(t)' /\ SeedInOrder(t)'
    BY <1>6, <2>6
  <2> QED BY <1>1, <1>3, <1>5, <2>4, <2>5, <2>7, <2>8, OntologyMoves
<1>10. CASE /\ ontologyPc[t] = "check" /\ ontologyBody[t].kind = "delete"
            /\ Ontology!Goto(t, "write") /\ UNCHANGED wanted
  <2>1. ontologyPc' = [ontologyPc EXCEPT ![t] = "write"] /\ ontologyPc'[t] = "write"
    BY <1>2, <1>10 DEF Ontology!Goto, Placed
  <2>2. SlugFound(t)' /\ Wanting(t)' /\ UnderFound(t)'
    BY <1>1, <1>2, <1>10, <2>1 DEF SlugFound, Wanting, UnderFound
  <2>3. HasItem(t)' /\ SeedInOrder(t)'
    BY <1>6, <2>1
  <2>4. wanted' = [wanted EXCEPT ![t] = wanted[t]]
    BY <1>5, <1>10
  <2> QED BY <1>1, <1>3, <1>5, <2>1, <2>2, <2>3, <2>4, OntologyMoves
<1> QED BY <1>7, <1>8, <1>9, <1>10 DEF Ontology!Find

LEMMA SnapshotKeeps ==
  ASSUME OntologyInvariant, NEW t \in Requests, Ontology!Snapshot(t)
  PROVE  OntologyInvariant'
<1>1. /\ ontologyPc[t] = "snapshot"
      /\ known' = [known EXCEPT ![t] = Ontology!Live(Ontology!View(t))]
      /\ UNCHANGED <<rows, links, ontologyBody, ontologyDraft, wanted>>
  BY DEF Ontology!Snapshot, Ontology!Quiet
<1>2. HasItem(t) /\ SeedInOrder(t) /\ Placed
  BY PlacedType DEF OntologyInvariant
<1>3. /\ ontologyTodo[t] # << >> /\ ontologyTodo[t] \in Seq(Ontology!Item)
      /\ ontologyBody[t] \in Changes /\ ontologyBody[t].kind = "apply"
  BY <1>1, <1>2 DEF HasItem, Underway, Placed
<1>4. /\ ontologyBody' = [ontologyBody EXCEPT ![t] = ontologyBody[t]]
      /\ wanted' = [wanted EXCEPT ![t] = wanted[t]] /\ wanted[t] \in Seq(OntologyTypes)
      /\ ontologyBody[t] \in Changes \cup {NoChange}
  BY <1>1, <1>2 DEF Placed
<1>5. Ontology!Live(Ontology!View(t)) \in SUBSET Ontology!Slugs
  BY ViewOK DEF Ontology!Live, PathsOK, Ontology!RowsOK
<1>6. PICK next \in {"item", "failed"}, items \in Seq(Ontology!Item) :
        /\ ontologyPc' = [ontologyPc EXCEPT ![t] = next]
        /\ ontologyTodo' = [ontologyTodo EXCEPT ![t] = items]
        /\ items # << >>
  <2>1. CASE UNCHANGED ontologyTodo /\ Ontology!Goto(t, "failed")
    <3>1. ontologyTodo' = [ontologyTodo EXCEPT ![t] = ontologyTodo[t]]
      BY <1>2, <2>1 DEF Placed
    <3> QED BY <1>3, <2>1, <3>1 DEF Ontology!Goto
  <2>2. CASE \E order \in Ontology!Orders(ontologyTodo[t]) :
               ontologyTodo' = [ontologyTodo EXCEPT ![t] = order] /\ Ontology!Goto(t, "item")
    <3>1. PICK order \in Ontology!Orders(ontologyTodo[t]) :
            ontologyTodo' = [ontologyTodo EXCEPT ![t] = order] /\ Ontology!Goto(t, "item")
      BY <2>2
    <3>2. order \in Seq(Ontology!Item) /\ Len(order) = Len(ontologyTodo[t])
      BY <1>3, OrderOf
    <3>3. Len(ontologyTodo[t]) # 0
      BY <1>3
    <3>4. order # << >>
      BY <3>2, <3>3
    <3> QED BY <3>1, <3>2, <3>4 DEF Ontology!Goto
  <2> QED BY <2>1, <2>2 DEF Ontology!Snapshot
<1>7. ontologyPc'[t] = next /\ ontologyTodo'[t] = items /\ ontologyBody'[t] = ontologyBody[t]
  BY <1>1, <1>2, <1>6 DEF Placed
<1>8. HasItem(t)' /\ Wanting(t)' /\ UnderFound(t)' /\ SlugFound(t)' /\ SeedInOrder(t)'
  BY <1>3, <1>6, <1>7 DEF HasItem, Wanting, UnderFound, SlugFound, SeedInOrder, Underway
<1> QED BY <1>1, <1>4, <1>5, <1>6, <1>8, OntologyMoves

LEMMA ConsiderKeeps ==
  ASSUME Ontology!OntologyAssumption, OntologyInvariant, NEW t \in Requests, Ontology!Consider(t)
  PROVE  OntologyInvariant'
<1>1. ontologyPc[t] = "item" /\ UNCHANGED <<rows, links, ontologyBody, ontologyDraft, known>>
  BY DEF Ontology!Consider, Ontology!Quiet
<1>2. HasItem(t) /\ Placed
  BY PlacedType DEF OntologyInvariant
<1>3. /\ ontologyTodo[t] # << >> /\ ontologyTodo[t] \in Seq(Ontology!Item)
      /\ ontologyBody[t] \in Changes /\ ontologyBody[t].kind = "apply"
  BY <1>1, <1>2 DEF HasItem, Underway, Placed
<1>4. /\ ontologyBody' = [ontologyBody EXCEPT ![t] = ontologyBody[t]]
      /\ known' = [known EXCEPT ![t] = known[t]] /\ known[t] \in SUBSET Ontology!Slugs
      /\ ontologyBody[t] \in Changes \cup {NoChange}
      /\ ontologyTodo = [ontologyTodo EXCEPT ![t] = ontologyTodo[t]]
      /\ wanted = [wanted EXCEPT ![t] = wanted[t]] /\ wanted[t] \in Seq(OntologyTypes)
  BY <1>1, <1>2 DEF Placed
<1>5. CASE Ontology!Advance(t) /\ UNCHANGED wanted
  <2>1. HasItem(t)' /\ Wanting(t)' /\ UnderFound(t)' /\ SlugFound(t)' /\ SeedInOrder(t)'
    BY <1>1, <1>3, <1>5, AdvanceKeeps DEF Underway
  <2>2. /\ ontologyTodo' = [ontologyTodo EXCEPT ![t] = Tail(ontologyTodo[t])]
        /\ Tail(ontologyTodo[t]) \in Seq(Ontology!Item)
        /\ \E next \in {"done", "write", "item"} : ontologyPc' = [ontologyPc EXCEPT ![t] = next]
    BY <1>1, <1>5, AdvanceMoves DEF Underway
  <2>3. wanted' = [wanted EXCEPT ![t] = wanted[t]]
    BY <1>4, <1>5
  <2>4. PICK next \in {"done", "write", "item"} : ontologyPc' = [ontologyPc EXCEPT ![t] = next]
    BY <2>2
  <2> QED BY <1>1, <1>4, <2>1, <2>2, <2>3, <2>4, OntologyMoves
<1>6. CASE Ontology!Seek(t, Ontology!References(ontologyTodo[t][1])) /\ UNCHANGED ontologyTodo
  <2>0. ontologyTodo[t][1] \in Ontology!Item
    BY <1>3
  <2>1. PICK refs \in Seq(OntologyTypes) :
          /\ refs = Ontology!References(ontologyTodo[t][1])
          /\ \/ ontologyTodo[t][1].under = NoType
             \/ \E k \in 1..Len(refs) : refs[k] = ontologyTodo[t][1].under
    BY <2>0, ReferencesOf DEF Ontology!OntologyAssumption
  <2>2. Ontology!Seek(t, refs) /\ ontologyTodo'[t][1] = ontologyTodo[t][1]
    BY <1>6, <2>1
  <2>3. InView(t, NoType)
    BY DEF InView
  <2>4. /\ Wanting(t)' /\ UnderFound(t)'
        /\ \E next \in {"refs", "write"} : ontologyPc' = [ontologyPc EXCEPT ![t] = next]
        /\ wanted' = [wanted EXCEPT ![t] = refs]
    BY <1>1, <2>1, <2>2, <2>3, SeekFinds
  <2>5. PICK next \in {"refs", "write"} : ontologyPc' = [ontologyPc EXCEPT ![t] = next]
    BY <2>4
  <2>6. ontologyPc'[t] = next
    BY <1>2, <2>5 DEF Placed
  <2>7. SlugFound(t)' /\ SeedInOrder(t)' /\ HasItem(t)'
    BY <1>1, <1>3, <1>6, <2>6 DEF SlugFound, SeedInOrder, HasItem
  <2>8. ontologyTodo' = [ontologyTodo EXCEPT ![t] = ontologyTodo[t]]
    BY <1>4, <1>6
  <2> QED BY <1>1, <1>3, <1>4, <2>4, <2>5, <2>7, <2>8, OntologyMoves
<1> QED BY <1>5, <1>6 DEF Ontology!Consider

LEMMA LookUpKeeps ==
  ASSUME OntologyInvariant, NEW t \in Requests, Ontology!LookUp(t)
  PROVE  OntologyInvariant'
<1>1. ontologyPc[t] = "refs" /\ UNCHANGED <<rows, links, ontologyBody, ontologyDraft, known>>
  BY DEF Ontology!LookUp, Ontology!Quiet
<1>2. HasItem(t) /\ Wanting(t) /\ UnderFound(t) /\ SlugFound(t) /\ SeedInOrder(t) /\ Placed
  BY PlacedType DEF OntologyInvariant
<1>3. /\ ontologyTodo[t] \in Seq(Ontology!Item) /\ ontologyBody[t] \in Changes
      /\ wanted[t] \in Seq(OntologyTypes) /\ wanted[t] # << >>
  BY <1>1, <1>2 DEF HasItem, Wanting, Underway, Placed
<1>4. /\ ontologyBody' = [ontologyBody EXCEPT ![t] = ontologyBody[t]]
      /\ known' = [known EXCEPT ![t] = known[t]] /\ known[t] \in SUBSET Ontology!Slugs
      /\ ontologyBody[t] \in Changes \cup {NoChange}
      /\ ontologyTodo = [ontologyTodo EXCEPT ![t] = ontologyTodo[t]]
      /\ wanted = [wanted EXCEPT ![t] = wanted[t]]
  BY <1>1, <1>2, <1>3 DEF Placed
<1>5. CASE /\ wanted[t][1] \in Ontology!Live(Ontology!View(t))
           /\ Ontology!Seek(t, Tail(wanted[t])) /\ UNCHANGED ontologyTodo
  <2>1. PICK refs \in Seq(OntologyTypes) :
          /\ refs = Tail(wanted[t])
          /\ Len(refs) = Len(wanted[t]) - 1
          /\ \A i \in 1..Len(refs) : refs[i] = wanted[t][i + 1]
    BY <1>3, HeadTailProperties
  <2>2. InView(t, wanted[t][1])
    BY <1>5 DEF InView, Ontology!Live, Ontology!View, Ontology!Overlay
  <2>3. SlugFound(t)' /\ SeedInOrder(t)' /\ (ontologyPc'[t] \in {"refs", "write"} => HasItem(t)')
    <3>1. ontologyPc'[t] \in {"refs", "write"}
      BY <1>2, <1>5 DEF Ontology!Seek, Ontology!Goto, Placed
    <3>2. SlugFound(t)'
      BY <1>1, <1>2, <1>5, <3>1 DEF SlugFound
    <3>3. SeedInOrder(t)'
      BY <1>1, <1>2, <1>5, <3>1 DEF SeedInOrder, InOrder, InView, Underway
    <3>4. HasItem(t)'
      BY <1>1, <1>2, <1>5, <3>1 DEF HasItem, Underway
    <3> QED BY <3>2, <3>3, <3>4
  <2>4. CASE ontologyBody[t].kind \in {"create", "update", "apply"}
    <3>1. \/ InView(t, ontologyTodo[t][1].under)
          \/ \E k \in 1..Len(refs) : refs[k] = ontologyTodo[t][1].under
      <4>1. ASSUME NEW i \in 1..Len(wanted[t]), wanted[t][i] = ontologyTodo[t][1].under, i # 1
            PROVE  i - 1 \in 1..Len(refs) /\ refs[i - 1] = ontologyTodo[t][1].under
        <5>1. Len(wanted[t]) \in Nat
          BY <1>3
        <5> QED BY <2>1, <4>1, <5>1
      <4> QED BY <1>1, <1>2, <2>2, <2>4, <4>1 DEF UnderFound
    <3>2. ontologyTodo'[t][1] = ontologyTodo[t][1] /\ Ontology!Seek(t, refs)
      BY <1>5, <2>1
    <3>3. /\ Wanting(t)' /\ UnderFound(t)'
          /\ \E next \in {"refs", "write"} : ontologyPc' = [ontologyPc EXCEPT ![t] = next]
          /\ wanted' = [wanted EXCEPT ![t] = refs]
      BY <1>1, <3>1, <3>2, SeekFinds
    <3>4. PICK next \in {"refs", "write"} : ontologyPc' = [ontologyPc EXCEPT ![t] = next]
      BY <3>3
    <3>5. HasItem(t)' /\ ontologyTodo' = [ontologyTodo EXCEPT ![t] = ontologyTodo[t]]
      BY <1>2, <1>4, <1>5, <2>3, <3>4 DEF Placed
    <3> QED BY <1>1, <1>3, <1>4, <2>3, <3>3, <3>4, <3>5, OntologyMoves
  <2>5. CASE ontologyBody[t].kind \notin {"create", "update", "apply"}
    <3>1. PICK next \in {"refs", "write"} :
            /\ ontologyPc' = [ontologyPc EXCEPT ![t] = next]
            /\ wanted' = [wanted EXCEPT ![t] = refs]
            /\ next = "refs" => refs # << >>
      BY <1>5, <2>1, SeekMoves
    <3>2. ontologyPc'[t] = next /\ wanted'[t] = refs /\ ontologyBody'[t] = ontologyBody[t]
      BY <1>1, <1>2, <3>1 DEF Placed
    <3>3. Wanting(t)' /\ UnderFound(t)'
      BY <2>5, <3>1, <3>2 DEF Wanting, UnderFound
    <3>4. HasItem(t)' /\ ontologyTodo' = [ontologyTodo EXCEPT ![t] = ontologyTodo[t]]
      BY <1>4, <1>5, <2>3, <3>2
    <3> QED BY <1>1, <1>3, <1>4, <2>3, <3>1, <3>3, <3>4, OntologyMoves
  <2> QED BY <2>4, <2>5
<1>6. CASE ontologyBody[t].kind = "apply" /\ Ontology!Advance(t) /\ UNCHANGED wanted
  <2>1. HasItem(t)' /\ Wanting(t)' /\ UnderFound(t)' /\ SlugFound(t)' /\ SeedInOrder(t)'
    BY <1>1, <1>6, AdvanceKeeps DEF Underway
  <2>2. /\ ontologyTodo' = [ontologyTodo EXCEPT ![t] = Tail(ontologyTodo[t])]
        /\ Tail(ontologyTodo[t]) \in Seq(Ontology!Item)
        /\ \E next \in {"done", "write", "item"} : ontologyPc' = [ontologyPc EXCEPT ![t] = next]
    BY <1>1, <1>6, AdvanceMoves DEF Underway
  <2>3. wanted' = [wanted EXCEPT ![t] = wanted[t]]
    BY <1>4, <1>6
  <2>4. PICK next \in {"done", "write", "item"} : ontologyPc' = [ontologyPc EXCEPT ![t] = next]
    BY <2>2
  <2> QED BY <1>1, <1>3, <1>4, <2>1, <2>2, <2>3, <2>4, OntologyMoves
<1>7. CASE Ontology!Goto(t, "failed") /\ UNCHANGED <<ontologyTodo, wanted>>
  <2>1. ontologyPc' = [ontologyPc EXCEPT ![t] = "failed"] /\ ontologyPc'[t] = "failed"
    BY <1>2, <1>7 DEF Ontology!Goto, Placed
  <2>2. HasItem(t)' /\ Wanting(t)' /\ UnderFound(t)' /\ SlugFound(t)' /\ SeedInOrder(t)'
    BY <2>1 DEF HasItem, Wanting, UnderFound, SlugFound, SeedInOrder, Underway
  <2>3. wanted' = [wanted EXCEPT ![t] = wanted[t]]
        /\ ontologyTodo' = [ontologyTodo EXCEPT ![t] = ontologyTodo[t]]
    BY <1>4, <1>7
  <2> QED BY <1>1, <1>3, <1>4, <2>1, <2>2, <2>3, OntologyMoves
<1> QED BY <1>5, <1>6, <1>7 DEF Ontology!LookUp

(* A row is written.  Its path follows links there are, and its own.       *)
OwnLink(slug, entry) ==
  {p \in {<<slug, entry.under>>} : slug \in OntologyTypes /\ entry.under # NoType}

Written(t, slug, entry) ==
  /\ slug \in Ontology!Slugs /\ entry \in Ontology!Row /\ slug \notin DOMAIN ontologyDraft[t]
  /\ slug \in OntologyTypes => entry.path # << >> /\ entry.path[Len(entry.path)] = slug
  /\ Ontology!Steps(entry.path) \subseteq
       (links \cup Ontology!Extends(ontologyDraft[t])) \cup OwnLink(slug, entry)

LEMMA PutPaths ==
  ASSUME OntologyInvariant, NEW t \in Requests, NEW slug, NEW entry, Written(t, slug, entry),
         Ontology!Put(t, slug, entry), UNCHANGED links
  PROVE  /\ DraftPaths(t)' /\ \A u \in Requests : Ontology!RowsOK(ontologyDraft'[u])
         /\ ontologyDraft' = [u \in Requests |-> ontologyDraft'[u]]
         /\ \A u \in Requests \ {t} : ontologyDraft'[u] = ontologyDraft[u]
         /\ DOMAIN ontologyDraft'[t] = DOMAIN ontologyDraft[t] \cup {slug}
<1>1. PICK new : new = Ontology!Overlay(ontologyDraft[t], [s \in {slug} |-> entry])
  OBVIOUS
<1>2. PICK old : old = ontologyDraft[t]
  OBVIOUS
<1>3. ontologyDraft' = [ontologyDraft EXCEPT ![t] = new]
  BY <1>1 DEF Ontology!Put
<1>4. DOMAIN ontologyDraft = Requests
  BY DEF OntologyInvariant
<1>5. ontologyDraft'[t] = new /\ \A u \in Requests \ {t} : ontologyDraft'[u] = ontologyDraft[u]
  BY <1>3, <1>4
<1>6. ontologyDraft' = [u \in Requests |-> ontologyDraft'[u]]
  BY <1>3, <1>4
<1>7. /\ DOMAIN new = DOMAIN old \cup {slug} /\ new[slug] = entry
      /\ \A s \in DOMAIN old : new[s] = old[s]
  BY <1>1, <1>2 DEF Written, Ontology!Overlay
<1>8. \A u \in Requests : Ontology!RowsOK(ontologyDraft'[u])
  <2>1. \A u \in Requests : Ontology!RowsOK(ontologyDraft[u])
    BY DEF OntologyInvariant, Ontology!TypeOK
  <2>2. Ontology!RowsOK(old)
    BY <1>2, <2>1
  <2>3. Ontology!RowsOK(new)
    BY <1>7, <2>2 DEF Ontology!RowsOK, Written
  <2>4. ASSUME NEW u \in Requests PROVE Ontology!RowsOK(ontologyDraft'[u])
    <3>1. CASE u = t
      BY <1>5, <2>3, <3>1
    <3>2. CASE u # t
      <4>1. ontologyDraft'[u] = ontologyDraft[u] /\ Ontology!RowsOK(ontologyDraft[u])
        BY <1>5, <2>1, <3>2
      <4> QED BY <4>1
    <3> QED BY <3>1, <3>2
  <2> QED BY <2>4
<1>9. Ontology!Extends(old) \cup OwnLink(slug, entry) \subseteq Ontology!Extends(new)
  <2>1. Ontology!Extends(old) \subseteq Ontology!Extends(new)
    BY <1>7 DEF Ontology!Extends
  <2>2. OwnLink(slug, entry) \subseteq Ontology!Extends(new)
    BY <1>7 DEF Ontology!Extends, OwnLink
  <2> QED BY <2>1, <2>2
<1>10. Ontology!PathsAlong(new, links \cup Ontology!Extends(new))
  <2>1. ASSUME NEW s \in DOMAIN old
        PROVE  Ontology!Steps(new[s].path) \subseteq links \cup Ontology!Extends(new)
    <3>1. Ontology!Steps(old[s].path) \subseteq links \cup Ontology!Extends(old)
      BY <1>2 DEF OntologyInvariant, DraftPaths, Ontology!PathsAlong
    <3>2. new[s].path = old[s].path
      BY <1>7
    <3> QED BY <1>9, <3>1, <3>2
  <2>2. Ontology!Steps(new[slug].path) \subseteq links \cup Ontology!Extends(new)
    BY <1>2, <1>7, <1>9 DEF Written
  <2> QED BY <1>7, <2>1, <2>2 DEF Ontology!PathsAlong
<1>11. PathsEndInSelf(new)
  <2>1. PathsEndInSelf(old)
    BY <1>2 DEF OntologyInvariant, DraftPaths
  <2> QED BY <1>7, <2>1 DEF PathsEndInSelf, Written
<1>12. DraftPaths(t)'
  BY <1>5, <1>10, <1>11 DEF DraftPaths, PathsEndInSelf
<1> QED BY <1>2, <1>5, <1>6, <1>7, <1>8, <1>12

(* The statement that writes it, and goes on or fails.                     *)
LEMMA WriteKeeps ==
  ASSUME OntologyInvariant, NEW t \in Requests, NEW slug, NEW entry, Written(t, slug, entry),
         Ontology!Put(t, slug, entry), UNCHANGED <<rows, links, ontologyBody, wanted>>,
         NEW next \in {"done", "write", "item", "failed"}, NEW items \in Seq(Ontology!Item),
         NEW slugs \in SUBSET Ontology!Slugs,
         ontologyPc' = [ontologyPc EXCEPT ![t] = next],
         ontologyTodo' = [ontologyTodo EXCEPT ![t] = items],
         known' = [known EXCEPT ![t] = slugs],
         HasItem(t)' /\ Wanting(t)' /\ UnderFound(t)' /\ SlugFound(t)' /\ SeedInOrder(t)'
  PROVE  OntologyInvariant'
<1>1. Placed
  BY PlacedType DEF OntologyInvariant
<1>2. Placed'
  BY <1>1 DEF Placed
<1>3. /\ DraftPaths(t)' /\ \A u \in Requests : Ontology!RowsOK(ontologyDraft'[u])
      /\ ontologyDraft' = [u \in Requests |-> ontologyDraft'[u]]
      /\ \A u \in Requests \ {t} : ontologyDraft'[u] = ontologyDraft[u]
  BY PutPaths
<1>4. Ontology!RowsOK(rows)' /\ links' \subseteq OntologyTypes \X OntologyTypes
  BY DEF OntologyInvariant, Ontology!TypeOK, Ontology!RowsOK
<1>5. Ontology!TypeOK'
  BY <1>2, <1>3, <1>4 DEF Ontology!TypeOK, Placed, Ontology!RowsOK
<1>6. \A u \in Requests \ {t} :
        /\ ontologyPc'[u] = ontologyPc[u] /\ ontologyBody'[u] = ontologyBody[u]
        /\ ontologyTodo'[u] = ontologyTodo[u] /\ wanted'[u] = wanted[u]
        /\ ontologyDraft'[u] = ontologyDraft[u]
  BY <1>1, <1>3 DEF Placed
<1>7. PathLinksReal' /\ PathsEndInSelf(rows)'
  BY DEF OntologyInvariant, PathLinksReal, Ontology!PathLinksReal, Ontology!PathsAlong,
         PathsEndInSelf
<1>8. RequestOK(t)'
  BY <1>3 DEF RequestOK
<1> QED BY <1>3, <1>5, <1>6, <1>7, <1>8, OntologyKeeps

LEMMA WriteFacts ==
  ASSUME OntologyInvariant, NEW t \in Requests, ontologyPc[t] = "write"
  PROVE  /\ HasItem(t) /\ UnderFound(t) /\ SlugFound(t) /\ SeedInOrder(t) /\ Placed
         /\ ontologyTodo[t] \in Seq(Ontology!Item) /\ ontologyBody[t] \in Changes
         /\ ontologyTodo[t][1] \in Ontology!Item /\ known[t] \in SUBSET Ontology!Slugs
         /\ 1 \in 1..Len(ontologyTodo[t])
<1>1. HasItem(t) /\ UnderFound(t) /\ SlugFound(t) /\ SeedInOrder(t) /\ Placed
  BY PlacedType DEF OntologyInvariant
<1>2. ontologyTodo[t] \in Seq(Ontology!Item) /\ ontologyTodo[t] # << >> /\ ontologyBody[t] \in Changes
  BY <1>1 DEF HasItem, Underway, Placed
<1>3. Len(ontologyTodo[t]) \in Nat /\ Len(ontologyTodo[t]) # 0
  BY <1>2
<1>4. 1 \in 1..Len(ontologyTodo[t])
  BY <1>3
<1> QED BY <1>1, <1>2, <1>4 DEF Placed

(* The first item is written, and the next one is up.                      *)
LEMMA AdvanceWrites ==
  ASSUME OntologyInvariant, NEW t \in Requests, ontologyPc[t] = "write", NEW entry,
         Written(t, ontologyTodo[t][1].slug, entry), Ontology!Put(t, ontologyTodo[t][1].slug, entry),
         UNCHANGED <<rows, links, ontologyBody, wanted>>, Ontology!Advance(t),
         NEW slugs \in SUBSET Ontology!Slugs, known' = [known EXCEPT ![t] = slugs]
  PROVE  OntologyInvariant'
<1>0. PICK slug : slug = ontologyTodo[t][1].slug
  OBVIOUS
<1>1. PICK items \in Seq(Ontology!Item) :
        /\ items = Tail(ontologyTodo[t])
        /\ ontologyTodo' = [ontologyTodo EXCEPT ![t] = items]
        /\ Len(items) = Len(ontologyTodo[t]) - 1
        /\ \A i \in 1..(Len(ontologyTodo[t]) - 1) : items[i] = ontologyTodo[t][i + 1]
  BY AdvanceMoves DEF Underway
<1>2. PICK next \in {"done", "write", "item"} : ontologyPc' = [ontologyPc EXCEPT ![t] = next]
  BY AdvanceMoves DEF Underway
<1>3. HasItem(t)' /\ Wanting(t)' /\ UnderFound(t)' /\ SlugFound(t)'
      /\ (ontologyBody[t].kind # "seed" => SeedInOrder(t)')
  BY AdvanceKeeps DEF Underway
<1>4. Written(t, slug, entry) /\ Ontology!Put(t, slug, entry)
  BY <1>0
<1>5. SeedInOrder(t) /\ Placed /\ ontologyTodo[t] \in Seq(Ontology!Item)
  BY WriteFacts
<1>6. DOMAIN ontologyDraft'[t] = DOMAIN ontologyDraft[t] \cup {slug}
  BY <1>4, PutPaths
<1>7. ontologyTodo'[t] = items
  BY <1>1, <1>5 DEF Placed
<1>8. CASE ontologyBody[t].kind = "seed"
  <2>1. PICK n \in Nat : n = Len(ontologyTodo[t])
    BY <1>5
  <2>2. ASSUME NEW k \in 1..Len(items) PROVE InOrder(t, k)'
    <3>1. k + 1 \in 1..n /\ k + 1 # 1 /\ 1 \in 1..n /\ k \in 1..(n - 1)
      BY <1>1, <2>1
    <3>2. InOrder(t, k + 1)
      BY <1>5, <1>8, <2>1, <3>1 DEF SeedInOrder, Underway
    <3>3. items[k] = ontologyTodo[t][k + 1]
      BY <1>1, <2>1, <3>1
    <3>4. items[k].slug \notin DOMAIN ontologyDraft'[t]
      BY <1>0, <1>6, <2>1, <3>1, <3>2, <3>3 DEF InOrder
    <3>5. \A l \in 1..Len(items) : items[k].slug = items[l].slug => k = l
      <4>1. ASSUME NEW l \in 1..Len(items), items[k].slug = items[l].slug PROVE k = l
        <5>1. l + 1 \in 1..n /\ items[l] = ontologyTodo[t][l + 1]
          BY <1>1, <2>1
        <5>2. k + 1 = l + 1
          BY <2>1, <3>2, <3>3, <4>1, <5>1 DEF InOrder
        <5> QED BY <5>2
      <4> QED BY <4>1
    <3>6. ASSUME items[k].slug \in OntologyTypes
          PROVE  \/ InView(t, items[k].under)'
                 \/ \E l \in 1..(k - 1) : items[k].under = items[l].slug
      <4>1. CASE InView(t, items[k].under)
        BY <1>6, <4>1 DEF InView
      <4>2. ASSUME NEW l \in 1..k, items[k].under = ontologyTodo[t][l].slug
            PROVE  \/ InView(t, items[k].under)'
                   \/ \E m \in 1..(k - 1) : items[k].under = items[m].slug
        <5>1. CASE l = 1
          BY <1>0, <1>6, <4>2, <5>1 DEF InView
        <5>2. CASE l # 1
          <6>1. l - 1 \in 1..(k - 1) /\ l - 1 \in 1..(n - 1) /\ (l - 1) + 1 = l
            BY <1>1, <2>1, <5>2
          <6>2. items[l - 1] = ontologyTodo[t][l]
            BY <1>1, <2>1, <6>1
          <6> QED BY <4>2, <6>1, <6>2
        <5> QED BY <5>1, <5>2
      <4> QED BY <3>2, <3>3, <3>6, <4>1, <4>2 DEF InOrder
    <3> QED BY <1>7, <3>4, <3>5, <3>6 DEF InOrder
  <2> QED BY <1>3, <1>7, <1>4, <1>1, <1>2, <2>2, WriteKeeps DEF SeedInOrder
<1>9. CASE ontologyBody[t].kind # "seed"
  BY <1>1, <1>2, <1>3, <1>4, <1>9, WriteKeeps
<1> QED BY <1>8, <1>9

(* A request fails, and says so when it ends.                              *)
LEMMA FailKeeps ==
  ASSUME OntologyInvariant, NEW t \in Requests, Ontology!Goto(t, "failed"),
         UNCHANGED <<rows, links, ontologyBody, ontologyTodo, wanted, known, ontologyDraft>>
  PROVE  OntologyInvariant'
<1>1. Placed
  BY PlacedType DEF OntologyInvariant
<1>2. ontologyPc' = [ontologyPc EXCEPT ![t] = "failed"] /\ ontologyPc'[t] = "failed"
  BY <1>1 DEF Ontology!Goto, Placed
<1>3. /\ ontologyBody' = [ontologyBody EXCEPT ![t] = ontologyBody[t]]
      /\ ontologyTodo' = [ontologyTodo EXCEPT ![t] = ontologyTodo[t]]
      /\ wanted' = [wanted EXCEPT ![t] = wanted[t]]
      /\ known' = [known EXCEPT ![t] = known[t]]
  BY <1>1 DEF Placed
<1>4. /\ ontologyBody[t] \in Changes \cup {NoChange} /\ ontologyTodo[t] \in Seq(Ontology!Item)
      /\ wanted[t] \in Seq(OntologyTypes) /\ known[t] \in SUBSET Ontology!Slugs
  BY <1>1 DEF Placed
<1>5. HasItem(t)' /\ Wanting(t)' /\ UnderFound(t)' /\ SlugFound(t)' /\ SeedInOrder(t)'
  BY <1>2 DEF HasItem, Wanting, UnderFound, SlugFound, SeedInOrder, Underway
<1> QED BY <1>2, <1>3, <1>4, <1>5, OntologyMoves

LEMMA InsertKeeps ==
  ASSUME Ontology!OntologyAssumption, OntologyInvariant, NEW t \in Requests, Ontology!Insert(t)
  PROVE  OntologyInvariant'
<1>1. /\ ontologyPc[t] = "write" /\ ontologyBody[t].kind \in {"create", "apply"}
      /\ UNCHANGED <<rows, links, ontologyBody, wanted>>
  BY DEF Ontology!Insert
<1>2. PICK i \in Ontology!Item : i = ontologyTodo[t][1]
  BY <1>1, WriteFacts
<1>3. UnderFound(t) /\ known[t] \in SUBSET Ontology!Slugs
  BY <1>1, WriteFacts
<1>4. InView(t, i.under)
  BY <1>1, <1>2, <1>3 DEF UnderFound
<1>5. PICK rs : rs = Ontology!View(t)
  OBVIOUS
<1>6. /\ PathsOK(rs, links \cup Ontology!Extends(ontologyDraft[t]))
      /\ DOMAIN rs = DOMAIN rows \cup DOMAIN ontologyDraft[t]
  BY <1>5, ViewOK
<1>7. CASE i.slug \in DOMAIN rs
  BY <1>1, <1>2, <1>5, <1>7, FailKeeps DEF Ontology!Insert
<1>8. CASE i.slug \notin DOMAIN rs
  <2>1. PICK entry : entry = [under |-> i.under, range |-> i.range,
                          path |-> Ontology!Hierarchy(rs, i.slug, i.under),
                          deleted |-> FALSE, system |-> FALSE]
    OBVIOUS
  <2>2. /\ Ontology!Put(t, i.slug, entry) /\ Ontology!Advance(t)
        /\ known' = [known EXCEPT ![t] = known[t] \cup {i.slug}]
    BY <1>2, <1>5, <1>8, <2>1 DEF Ontology!Insert
  <2>3. /\ i.slug \in Ontology!Slugs /\ i.under \in OntologyTypes \cup {NoType}
        /\ i.range \in OntologyTypes \cup {NoType}
    BY DEF Ontology!Item
  <2>4. i.under \in {NoType} \cup DOMAIN rs
    BY <1>4, <1>6 DEF InView
  <2>5. /\ entry.path \in Seq(OntologyTypes)
        /\ i.slug \in OntologyTypes => entry.path # << >> /\ entry.path[Len(entry.path)] = i.slug
        /\ Ontology!Steps(entry.path) \subseteq
             (links \cup Ontology!Extends(ontologyDraft[t])) \cup OwnLink(i.slug, entry)
    BY <1>6, <2>1, <2>3, <2>4, HierarchyPath DEF OwnLink
  <2>6. entry \in Ontology!Row
    BY <2>1, <2>3, <2>5 DEF Ontology!Row
  <2>7. Written(t, i.slug, entry)
    BY <1>6, <1>8, <2>3, <2>5, <2>6 DEF Written
  <2>8. known[t] \cup {i.slug} \in SUBSET Ontology!Slugs
    BY <1>3, <2>3
  <2> QED BY <1>1, <1>2, <2>2, <2>7, <2>8, AdvanceWrites
<1> QED BY <1>7, <1>8

LEMMA UpsertKeeps ==
  ASSUME Ontology!OntologyAssumption, OntologyInvariant, NEW t \in Requests, Ontology!Upsert(t)
  PROVE  OntologyInvariant'
<1>1. /\ ontologyPc[t] = "write" /\ ontologyBody[t].kind = "seed"
      /\ UNCHANGED <<rows, links, ontologyBody, wanted, known>>
  BY DEF Ontology!Upsert
<1>2. PICK i \in Ontology!Item : i = ontologyTodo[t][1]
  BY <1>1, WriteFacts
<1>3. SeedInOrder(t) /\ Placed /\ known[t] \in SUBSET Ontology!Slugs /\ 1 \in 1..Len(ontologyTodo[t])
  BY <1>1, WriteFacts
<1>4. InOrder(t, 1)
  BY <1>1, <1>3 DEF SeedInOrder, Underway
<1>5. i.slug \notin DOMAIN ontologyDraft[t] /\ (i.slug \in OntologyTypes => InView(t, i.under))
  BY <1>2, <1>4 DEF InOrder
<1>6. PICK rs : rs = Ontology!View(t)
  OBVIOUS
<1>7. /\ PathsOK(rs, links \cup Ontology!Extends(ontologyDraft[t]))
      /\ DOMAIN rs = DOMAIN rows \cup DOMAIN ontologyDraft[t]
      /\ \A s \in DOMAIN rs : rs[s] \in Ontology!Row
  BY <1>6, ViewOK
<1>8. PICK entry : entry = [under |-> i.under, range |-> i.range,
                        path |-> Ontology!Hierarchy(rs, i.slug, i.under),
                        deleted |-> i.slug \in DOMAIN rs /\ rs[i.slug].deleted,
                        system |-> i.slug \in SystemSlugs]
  OBVIOUS
<1>9. Ontology!Put(t, i.slug, entry) /\ Ontology!Advance(t)
  BY <1>2, <1>6, <1>8 DEF Ontology!Upsert
<1>10. /\ i.slug \in Ontology!Slugs /\ i.under \in OntologyTypes \cup {NoType}
       /\ i.range \in OntologyTypes \cup {NoType}
  BY DEF Ontology!Item
<1>11. i.slug \in OntologyTypes => i.under \in {NoType} \cup DOMAIN rs
  BY <1>5, <1>7 DEF InView
<1>12. /\ entry.path \in Seq(OntologyTypes)
       /\ i.slug \in OntologyTypes => entry.path # << >> /\ entry.path[Len(entry.path)] = i.slug
       /\ Ontology!Steps(entry.path) \subseteq
            (links \cup Ontology!Extends(ontologyDraft[t])) \cup OwnLink(i.slug, entry)
  BY <1>7, <1>8, <1>10, <1>11, HierarchyPath DEF OwnLink
<1>13. (i.slug \in DOMAIN rs /\ rs[i.slug].deleted) \in BOOLEAN
  BY <1>7 DEF Ontology!Row
<1>14. entry \in Ontology!Row
  BY <1>8, <1>10, <1>12, <1>13 DEF Ontology!Row
<1>15. Written(t, i.slug, entry)
  BY <1>5, <1>10, <1>12, <1>14 DEF Written
<1>16. known' = [known EXCEPT ![t] = known[t]]
  BY <1>1, <1>3 DEF Placed
<1> QED BY <1>1, <1>2, <1>3, <1>9, <1>15, <1>16, AdvanceWrites

(* A row that is there gets a new path or keeps its own.                   *)
LEMMA PatchedRow ==
  ASSUME Ontology!OntologyAssumption, NEW rs, NEW steps, PathsOK(rs, steps),
         NEW i \in Ontology!Item, i.slug \in DOMAIN rs,
         i.under \in {NoType} \cup DOMAIN rs
  PROVE  LET entry == Ontology!Patched(rs, i)
         IN /\ entry \in Ontology!Row
            /\ i.slug \in OntologyTypes => entry.path # << >> /\ entry.path[Len(entry.path)] = i.slug
            /\ Ontology!Steps(entry.path) \subseteq steps \cup OwnLink(i.slug, entry)
<1>1. /\ i.slug \in Ontology!Slugs /\ i.under \in OntologyTypes \cup {NoType}
      /\ i.range \in OntologyTypes \cup {NoType}
  BY DEF Ontology!Item
<1>2. PICK old \in Ontology!Row : old = rs[i.slug]
  BY DEF PathsOK, Ontology!RowsOK
<1>3. /\ i.slug \in OntologyTypes => old.path # << >> /\ old.path[Len(old.path)] = i.slug
      /\ Ontology!Steps(old.path) \subseteq steps
  BY <1>2 DEF PathsOK, PathsEndInSelf, Ontology!PathsAlong
<1>4. CASE i.slug \in OntologyTypes /\ i.under # NoType
  <2>1. PICK path : path = Ontology!Hierarchy(rs, i.slug, i.under)
    OBVIOUS
  <2>2. PICK entry : entry = [old EXCEPT !.under = i.under, !.path = path]
    OBVIOUS
  <2>3. Ontology!Patched(rs, i) = entry
    BY <1>2, <1>4, <2>1, <2>2 DEF Ontology!Patched
  <2>4. /\ path \in Seq(OntologyTypes)
        /\ i.slug \in OntologyTypes => path # << >> /\ path[Len(path)] = i.slug
        /\ Ontology!Steps(path) \subseteq
             steps \cup {p \in {<<i.slug, i.under>>} : i.slug \in OntologyTypes /\ i.under # NoType}
    BY <1>1, <2>1, HierarchyPath
  <2>5. entry \in Ontology!Row /\ entry.path = path /\ entry.under = i.under
    BY <1>1, <2>2, <2>4 DEF Ontology!Row
  <2> QED BY <2>3, <2>4, <2>5 DEF OwnLink
<1>5. CASE ~(i.slug \in OntologyTypes /\ i.under # NoType)
  <2>1. PICK entry : entry = [old EXCEPT !.under = IF i.under = NoType THEN old.under ELSE i.under,
                                     !.range = IF i.range = NoType THEN old.range ELSE i.range]
    OBVIOUS
  <2>2. Ontology!Patched(rs, i) = entry
    BY <1>2, <1>5, <2>1 DEF Ontology!Patched
  <2>3. entry \in Ontology!Row /\ entry.path = old.path
    BY <1>1, <2>1 DEF Ontology!Row
  <2> QED BY <1>3, <2>2, <2>3
<1> QED BY <1>4, <1>5

LEMMA UpdateKeeps ==
  ASSUME Ontology!OntologyAssumption, OntologyInvariant, NEW t \in Requests, Ontology!Update(t)
  PROVE  OntologyInvariant'
<1>1. /\ ontologyPc[t] = "write" /\ ontologyBody[t].kind = "update"
      /\ UNCHANGED <<rows, links, ontologyBody, wanted, known>>
  BY DEF Ontology!Update
<1>2. PICK i \in Ontology!Item : i = ontologyTodo[t][1]
  BY <1>1, WriteFacts
<1>3. /\ HasItem(t) /\ UnderFound(t) /\ SlugFound(t) /\ Placed
      /\ known[t] \in SUBSET Ontology!Slugs /\ ontologyTodo[t] \in Seq(Ontology!Item)
  BY <1>1, WriteFacts
<1>4. InView(t, i.under) /\ i.slug \in DOMAIN rows /\ ontologyDraft[t] = << >>
  BY <1>1, <1>2, <1>3 DEF UnderFound, SlugFound, HasItem, Underway
<1>5. PICK rs : rs = Ontology!View(t)
  OBVIOUS
<1>6. /\ PathsOK(rs, links \cup Ontology!Extends(ontologyDraft[t]))
      /\ DOMAIN rs = DOMAIN rows \cup DOMAIN ontologyDraft[t]
  BY <1>5, ViewOK
<1>7. PICK entry : entry = Ontology!Patched(rs, i)
  OBVIOUS
<1>8. i.slug \in DOMAIN rs /\ i.under \in {NoType} \cup DOMAIN rs
  BY <1>4, <1>6 DEF InView
<1>9. /\ entry \in Ontology!Row
      /\ i.slug \in OntologyTypes => entry.path # << >> /\ entry.path[Len(entry.path)] = i.slug
      /\ Ontology!Steps(entry.path) \subseteq
           (links \cup Ontology!Extends(ontologyDraft[t])) \cup OwnLink(i.slug, entry)
  BY <1>6, <1>7, <1>8, PatchedRow
<1>10. Written(t, i.slug, entry) /\ Ontology!Put(t, i.slug, entry)
  <2>1. i.slug \in Ontology!Slugs /\ i.slug \notin DOMAIN ontologyDraft[t]
    BY <1>4 DEF Ontology!Item
  <2>2. Ontology!Put(t, i.slug, entry)
    BY <1>2, <1>5, <1>7 DEF Ontology!Update
  <2> QED BY <1>9, <2>1, <2>2 DEF Written
<1>11. known' = [known EXCEPT ![t] = known[t]]
  BY <1>1, <1>3 DEF Placed
<1>12. CASE Ontology!Goto(t, "failed") /\ UNCHANGED ontologyTodo
  <2>1. ontologyPc' = [ontologyPc EXCEPT ![t] = "failed"] /\ ontologyPc'[t] = "failed"
    BY <1>3, <1>12 DEF Ontology!Goto, Placed
  <2>2. ontologyTodo' = [ontologyTodo EXCEPT ![t] = ontologyTodo[t]]
    BY <1>3, <1>12 DEF Placed
  <2>3. HasItem(t)' /\ Wanting(t)' /\ UnderFound(t)' /\ SlugFound(t)' /\ SeedInOrder(t)'
    BY <2>1 DEF HasItem, Wanting, UnderFound, SlugFound, SeedInOrder, Underway
  <2> QED BY <1>1, <1>3, <1>10, <1>11, <2>1, <2>2, <2>3, WriteKeeps
<1>13. CASE Ontology!Advance(t)
  BY <1>1, <1>2, <1>3, <1>10, <1>11, <1>13, AdvanceWrites
<1> QED BY <1>12, <1>13 DEF Ontology!Update

LEMMA DeleteKeeps ==
  ASSUME OntologyInvariant, NEW t \in Requests, Ontology!Delete(t)
  PROVE  OntologyInvariant'
<1>1. /\ ontologyPc[t] = "write" /\ ontologyBody[t].kind = "delete"
      /\ UNCHANGED <<rows, links, ontologyBody, wanted, known>> /\ Ontology!Advance(t)
  BY DEF Ontology!Delete
<1>2. PICK i \in Ontology!Item : i = ontologyTodo[t][1]
  BY <1>1, WriteFacts
<1>3. HasItem(t) /\ SlugFound(t) /\ Placed /\ known[t] \in SUBSET Ontology!Slugs
  BY <1>1, WriteFacts
<1>4. i.slug \in DOMAIN rows /\ ontologyDraft[t] = << >>
  BY <1>1, <1>2, <1>3 DEF SlugFound, HasItem, Underway
<1>5. PICK rs : rs = Ontology!View(t)
  OBVIOUS
<1>6. /\ PathsOK(rs, links \cup Ontology!Extends(ontologyDraft[t]))
      /\ DOMAIN rs = DOMAIN rows \cup DOMAIN ontologyDraft[t]
      /\ \A s \in DOMAIN rs : rs[s] \in Ontology!Row
  BY <1>5, ViewOK
<1>7. PICK old \in Ontology!Row : old = rs[i.slug]
  BY <1>4, <1>6
<1>8. PICK entry : entry = [old EXCEPT !.deleted = TRUE]
  OBVIOUS
<1>9. entry \in Ontology!Row /\ entry.path = old.path
  BY <1>8 DEF Ontology!Row
<1>10. /\ i.slug \in OntologyTypes => old.path # << >> /\ old.path[Len(old.path)] = i.slug
       /\ Ontology!Steps(old.path) \subseteq links \cup Ontology!Extends(ontologyDraft[t])
  BY <1>4, <1>6, <1>7 DEF PathsOK, PathsEndInSelf, Ontology!PathsAlong
<1>11. Written(t, i.slug, entry) /\ Ontology!Put(t, i.slug, entry)
  <2>1. i.slug \in Ontology!Slugs /\ i.slug \notin DOMAIN ontologyDraft[t]
    BY <1>4 DEF Ontology!Item
  <2>2. Ontology!Put(t, i.slug, entry)
    BY <1>2, <1>5, <1>7, <1>8 DEF Ontology!Delete
  <2> QED BY <1>9, <1>10, <2>1, <2>2 DEF Written
<1>12. known' = [known EXCEPT ![t] = known[t]]
  BY <1>1, <1>3 DEF Placed
<1> QED BY <1>1, <1>2, <1>3, <1>11, <1>12, AdvanceWrites

(* What was written is committed, or given up.                             *)
LEMMA CloseKeeps ==
  ASSUME OntologyInvariant, NEW t \in Requests, Ontology!Close(t),
         \/ UNCHANGED <<rows, links>>
         \/ /\ rows' = Ontology!View(t)
            /\ links' = links \cup Ontology!Extends(ontologyDraft[t])
  PROVE  OntologyInvariant'
<1>1. Placed /\ DOMAIN ontologyDraft = Requests
  BY PlacedType DEF OntologyInvariant
<1>2. /\ ontologyPc' = [ontologyPc EXCEPT ![t] = "ended"]
      /\ ontologyDraft' = [ontologyDraft EXCEPT ![t] = << >>]
      /\ UNCHANGED <<ontologyBody, ontologyTodo, wanted, known>>
  BY DEF Ontology!Close, Ontology!Goto
<1>3. ontologyPc'[t] = "ended" /\ ontologyDraft'[t] = << >>
      /\ ontologyDraft' = [u \in Requests |-> ontologyDraft'[u]]
      /\ \A u \in Requests \ {t} : ontologyPc'[u] = ontologyPc[u] /\ ontologyDraft'[u] = ontologyDraft[u]
  BY <1>1, <1>2 DEF Placed
<1>4. PathsOK(rows', links') /\ DOMAIN rows \subseteq DOMAIN rows' /\ links \subseteq links'
  <2>1. CASE UNCHANGED <<rows, links>>
    BY <2>1 DEF PathsOK, OntologyInvariant, Ontology!TypeOK, PathLinksReal, Ontology!PathLinksReal
  <2>2. CASE /\ rows' = Ontology!View(t)
             /\ links' = links \cup Ontology!Extends(ontologyDraft[t])
    BY <2>2, ViewOK
  <2> QED BY <2>1, <2>2
<1>5. links' \subseteq OntologyTypes \X OntologyTypes
  <2>1. Ontology!Extends(ontologyDraft[t]) \subseteq OntologyTypes \X OntologyTypes
    BY DEF OntologyInvariant, Ontology!TypeOK, Ontology!RowsOK, Ontology!Extends, Ontology!Row
  <2> QED BY <2>1 DEF OntologyInvariant, Ontology!TypeOK
<1>6. \A u \in Requests : Ontology!RowsOK(ontologyDraft'[u])
  <2>1. Ontology!RowsOK(<< >>)
    BY DEF Ontology!RowsOK
  <2>2. \A u \in Requests : Ontology!RowsOK(ontologyDraft[u])
    BY DEF OntologyInvariant, Ontology!TypeOK
  <2>3. ASSUME NEW u \in Requests, u # t PROVE Ontology!RowsOK(ontologyDraft'[u])
    <3>1. ontologyDraft'[u] = ontologyDraft[u] /\ Ontology!RowsOK(ontologyDraft[u])
      BY <1>3, <2>2, <2>3
    <3> QED BY <3>1
  <2> QED BY <1>3, <2>1, <2>3
<1>7. Ontology!TypeOK'
  <2>1. Ontology!RowsOK(rows)'
    BY <1>4 DEF PathsOK, Ontology!RowsOK
  <2>2. Placed'
    BY <1>1, <1>2 DEF Placed
  <2> QED BY <1>5, <1>6, <2>1, <2>2 DEF Ontology!TypeOK, Placed, Ontology!RowsOK
<1>8. PathLinksReal' /\ PathsEndInSelf(rows)'
  BY <1>4 DEF PathsOK, PathLinksReal, Ontology!PathLinksReal, Ontology!PathsAlong, PathsEndInSelf
<1>9. RequestOK(t)'
  BY <1>3 DEF RequestOK, HasItem, Wanting, UnderFound, SlugFound, SeedInOrder, DraftPaths,
              Underway, Ontology!PathsAlong, PathsEndInSelf
<1>10. \A u \in Requests \ {t} :
         /\ ontologyPc'[u] = ontologyPc[u] /\ ontologyBody'[u] = ontologyBody[u]
         /\ ontologyTodo'[u] = ontologyTodo[u] /\ wanted'[u] = wanted[u]
         /\ ontologyDraft'[u] = ontologyDraft[u]
  BY <1>2, <1>3
<1> QED BY <1>3, <1>4, <1>7, <1>8, <1>9, <1>10, OntologyKeeps

LEMMA OntologyStep ==
  ASSUME Ontology!OntologyAssumption, OntologyInvariant, Ontology!Next
  PROVE  OntologyInvariant'
<1>1. PICK t \in Requests : Ontology!Receive(t) \/ Ontology!Statement(t) \/ Ontology!Crash(t)
  BY DEF Ontology!Next
<1>2. CASE Ontology!Receive(t)
  BY <1>2, ReceiveKeeps
<1>3. CASE Ontology!Find(t) \/ Ontology!Snapshot(t) \/ Ontology!Consider(t) \/ Ontology!LookUp(t)
  BY <1>3, FindKeeps, SnapshotKeeps, ConsiderKeeps, LookUpKeeps
<1>4. CASE Ontology!Insert(t) \/ Ontology!Update(t) \/ Ontology!Upsert(t) \/ Ontology!Delete(t)
  BY <1>4, InsertKeeps, UpdateKeeps, UpsertKeeps, DeleteKeeps
<1>5. CASE Ontology!Commit(t) \/ Ontology!Rollback(t) \/ Ontology!Crash(t)
  BY <1>5, CloseKeeps DEF Ontology!Commit, Ontology!Rollback, Ontology!Crash
<1>6. CASE Ontology!DeadlockVictim(t)
  BY <1>6, FailKeeps DEF Ontology!DeadlockVictim, Ontology!Quiet
<1> QED BY <1>1, <1>2, <1>3, <1>4, <1>5, <1>6 DEF Ontology!Statement

LEMMA OntologyAlways == Ontology!OntologyAssumption => (Ontology!Spec => []OntologyInvariant)
<1> SUFFICES ASSUME Ontology!OntologyAssumption PROVE Ontology!Spec => []OntologyInvariant
  OBVIOUS
<1>1. Ontology!Init => OntologyInvariant
  BY OntologyInit
<1>2. OntologyInvariant /\ [Ontology!Next]_(Ontology!vars) => OntologyInvariant'
  <2>1. CASE Ontology!Next
    BY <2>1, OntologyStep
  <2>2. OntologyInvariant /\ UNCHANGED Ontology!vars => OntologyInvariant'
    <3> SUFFICES ASSUME OntologyInvariant, UNCHANGED Ontology!vars PROVE OntologyInvariant'
      OBVIOUS
    <3>1. UNCHANGED <<rows, links, ontologyPc, ontologyBody, ontologyTodo, wanted, known, ontologyDraft>>
      BY DEF Ontology!vars
    <3>2. \A u \in Requests : RequestOK(u)
      BY DEF OntologyInvariant, RequestOK
    <3>3. \A u \in Requests : RequestOK(u)'
      BY <3>1, <3>2, OthersOK
    <3> QED BY <3>1, <3>3 DEF OntologyInvariant, RequestOK, Ontology!TypeOK, Ontology!RowsOK,
                 PathLinksReal, Ontology!PathLinksReal, Ontology!PathsAlong, PathsEndInSelf
  <2> QED BY <2>1, <2>2
<1> QED BY <1>1, <1>2, PTL DEF Ontology!Spec

-----------------------------------------------------------------------------
(* Search *)

SearchRecord ==
  [pc : {"new", "query", "expand", "policies", "edge labels", "episode labels", "rank", "enrich",
         "ended"},
   query : Queries \cup {Search!NoSearch.query}, role : CallerRoles \cup {NoRole},
   bypass : BOOLEAN, todo : Seq({"entity", "edge", "episode", "block"}),
   hits : SUBSET Items, policies : SUBSET Policies, labels : SUBSET (Search!Targets \X Labels),
   warnings : SUBSET (Items \X Policies), shown : SUBSET (Search!Targets \X Labels)]

HeldRecord == [policies : SUBSET Policies, assigned : SUBSET Search!Assignment]

EditRecord ==
  [pc : {"new", "get", "insert", "ended"}, label : Labels \cup {Search!NoEdit.label},
   row : 0..MaxRows, todo : SUBSET Search!Targets, draft : SUBSET Search!Assignment]

(* An assignment in progress is one of a label, to a row of it.            *)
EditUnderway(e) ==
  /\ e.pc \in {"get", "insert"} => e.label \in Labels
  /\ e.pc = "insert" => e.row \in 1..MaxRows

SearchTypes ==
  /\ visible \subseteq Items
  /\ row \in [Labels -> 0..MaxRows] /\ made \in [Labels -> 0..MaxRows]
  /\ assigned \subseteq Search!Assignment
  /\ enabled \subseteq Policies
  /\ changes \in 0..MaxChanges
  /\ search \in [Searches -> SearchRecord]
  /\ held \in [Searches -> HeldRecord]
  /\ edit \in [Editors -> EditRecord] /\ \A t \in Editors : EditUnderway(edit[t])

(* What has stood since a search began stands now.                         *)
HeldStands ==
  \A s \in Searches : held[s].policies \subseteq enabled /\ held[s].assigned \subseteq assigned

(* The labels of an item that have stood.                                  *)
StandingOf(h, i) == {a.label : a \in {a \in h.assigned : a.item = i}}

(* A search that has read the policies read all that stand, and the same   *)
(* of the labels of the edges it found.                                    *)
ReadWhatStands(x, h) ==
  /\ x.pc \in {"edge labels", "episode labels"} => h.policies \subseteq x.policies
  /\ x.pc = "episode labels" =>
       \A a \in h.assigned : a.item \in x.hits /\ KindOf[a.item] = "edge" =>
         <<a.item, a.label>> \in x.labels

(* What StandingPoliciesGovern asks of an answer, from the verdict on.     *)
Governed(x, h) ==
  x.pc \in {"rank", "enrich", "ended"} /\ ~x.bypass =>
    \A i \in x.hits, p \in h.policies :
      Search!Against(Rule[p], StandingOf(h, i), x.role) =>
        Rule[p].action = "warn" /\ <<i, p>> \in x.warnings

(* The inductive invariant behind StandingPoliciesGovern. *)
SearchInvariant ==
  /\ SearchTypes /\ HeldStands
  /\ \A s \in Searches : ReadWhatStands(search[s], held[s]) /\ Governed(search[s], held[s])
(* Less stands, or less is asked of the same answer. *)
LEMMA GovernedLess ==
  ASSUME NEW x, NEW h, NEW less, Governed(x, h),
         less.policies \subseteq h.policies, less.assigned \subseteq h.assigned
  PROVE  Governed(x, less)
<1>1. \A i : StandingOf(less, i) \subseteq StandingOf(h, i)
  BY DEF StandingOf
<1>2. ASSUME NEW i, NEW p \in less.policies,
             Search!Against(Rule[p], StandingOf(less, i), x.role)
      PROVE  Search!Against(Rule[p], StandingOf(h, i), x.role)
  BY <1>1, <1>2 DEF Search!Against
<1> QED BY <1>2 DEF Governed

LEMMA ReadLess ==
  ASSUME NEW x, NEW h, NEW less, ReadWhatStands(x, h),
         less.policies \subseteq h.policies, less.assigned \subseteq h.assigned
  PROVE  ReadWhatStands(x, less)
  BY DEF ReadWhatStands

(* A search goes on, and nothing else changes. *)
LEMMA SearchMoves ==
  ASSUME SearchInvariant, NEW s \in Searches, NEW next \in SearchRecord, Search!Step(s, next),
         ReadWhatStands(next, held[s]), Governed(next, held[s])
  PROVE  SearchInvariant'
<1>1. search' = [search EXCEPT ![s] = next]
      /\ UNCHANGED <<visible, row, made, assigned, enabled, edit, changes, held>>
  BY DEF Search!Step, Search!World
<1>2. SearchTypes' /\ HeldStands'
  BY <1>1 DEF SearchInvariant, SearchTypes, HeldStands
<1>3. ASSUME NEW u \in Searches
      PROVE  ReadWhatStands(search'[u], held'[u]) /\ Governed(search'[u], held'[u])
  <2>1. CASE u = s
    <3>1. search'[u] = next /\ held'[u] = held[s]
      BY <1>1, <2>1 DEF SearchInvariant, SearchTypes
    <3> QED BY <3>1
  <2>2. CASE u # s
    <3>1. search'[u] = search[u] /\ held'[u] = held[u]
      BY <1>1, <2>2 DEF SearchInvariant, SearchTypes
    <3>2. ReadWhatStands(search[u], held[u]) /\ Governed(search[u], held[u])
      BY DEF SearchInvariant
    <3> QED BY <3>1, <3>2
  <2> QED BY <2>1, <2>2
<1> QED BY <1>2, <1>3 DEF SearchInvariant

(* Labels, policies and facts change, and no search goes on.               *)
LEMMA SearchesStay ==
  ASSUME SearchInvariant, UNCHANGED search, SearchTypes', HeldStands',
         \A s \in Searches : /\ held'[s].policies \subseteq held[s].policies
                             /\ held'[s].assigned \subseteq held[s].assigned
  PROVE  SearchInvariant'
<1>1. ASSUME NEW s \in Searches
      PROVE  ReadWhatStands(search'[s], held'[s]) /\ Governed(search'[s], held'[s])
  <2>1. ReadWhatStands(search[s], held[s]) /\ Governed(search[s], held[s])
    BY DEF SearchInvariant
  <2>2. ReadWhatStands(search[s], held'[s]) /\ Governed(search[s], held'[s])
    BY <2>1, GovernedLess, ReadLess
  <2> QED BY <2>2
<1> QED BY <1>1 DEF SearchInvariant

(* The same rows stand, and what is deleted stands no more.                *)
LEMMA StandKeeps ==
  ASSUME SearchInvariant, UNCHANGED <<visible, edit, search>>,
         enabled' \subseteq enabled, assigned' \subseteq assigned,
         row' \in [Labels -> 0..MaxRows], UNCHANGED made, changes' \in 0..MaxChanges,
         Search!Stand(enabled', assigned')
  PROVE  SearchInvariant'
<1>1. held' = [s \in Searches |-> [policies |-> held[s].policies \cap enabled',
                                   assigned |-> held[s].assigned \cap assigned']]
  BY DEF Search!Stand
<1>2. held \in [Searches -> HeldRecord]
  BY DEF SearchInvariant, SearchTypes
<1>3. \A s \in Searches : held[s].policies \subseteq Policies
                          /\ held[s].assigned \subseteq Search!Assignment
  BY <1>2 DEF HeldRecord
<1>4. held' \in [Searches -> HeldRecord]
  BY <1>1, <1>3 DEF HeldRecord
<1>5. \A s \in Searches :
        /\ held'[s].policies = held[s].policies \cap enabled'
        /\ held'[s].assigned = held[s].assigned \cap assigned'
  BY <1>1
<1>6. SearchTypes'
  BY <1>4 DEF SearchInvariant, SearchTypes
<1>7. HeldStands'
  BY <1>5 DEF HeldStands
<1> QED BY <1>5, <1>6, <1>7, SearchesStay

LEMMA SearchChanges ==
  ASSUME Search!RetrievalAssumption, SearchInvariant, Search!Change,
         \/ \E l \in Labels : Search!CreateLabel(l) \/ Search!DeleteLabel(l)
         \/ \E a \in assigned : Search!UnassignLabel(a)
         \/ \E p \in Policies : Search!CreatePolicy(p) \/ Search!DeletePolicy(p)
         \/ \E i \in Items : Search!Vanish(i)
  PROVE  SearchInvariant'
<1>1. changes' \in 0..MaxChanges
  BY DEF Search!Change, SearchInvariant, SearchTypes, Search!RetrievalAssumption
<1>2. SearchTypes /\ HeldStands
  BY DEF SearchInvariant
<1>3. ASSUME NEW l \in Labels, Search!CreateLabel(l) PROVE SearchInvariant'
  <2>1. /\ made[l] < MaxRows /\ made' = [made EXCEPT ![l] = made[l] + 1]
        /\ row' = [row EXCEPT ![l] = made[l] + 1]
        /\ UNCHANGED <<visible, assigned, enabled, search, held, edit>>
    BY <1>3 DEF Search!CreateLabel
  <2>2. made[l] \in 0..MaxRows /\ MaxRows \in Nat
    BY <1>2 DEF SearchTypes, Search!RetrievalAssumption
  <2>3. made[l] + 1 \in 0..MaxRows
    BY <2>1, <2>2
  <2>4. SearchTypes'
    BY <1>1, <1>2, <2>1, <2>3 DEF SearchTypes
  <2>5. HeldStands'
    BY <1>2, <2>1 DEF HeldStands
  <2> QED BY <2>1, <2>4, <2>5, SearchesStay
<1>4. ASSUME NEW l \in Labels, Search!DeleteLabel(l) PROVE SearchInvariant'
  <2>1. /\ row' = [row EXCEPT ![l] = 0] /\ assigned' \subseteq assigned
        /\ Search!Stand(enabled', assigned')
        /\ UNCHANGED <<visible, made, enabled, search, edit>>
    BY <1>4 DEF Search!DeleteLabel
  <2>2. row' \in [Labels -> 0..MaxRows]
    BY <1>2, <2>1 DEF SearchTypes, Search!RetrievalAssumption
  <2> QED BY <1>1, <2>1, <2>2, StandKeeps
<1>5. ASSUME NEW a \in assigned, Search!UnassignLabel(a) PROVE SearchInvariant'
  <2>1. assigned' \subseteq assigned /\ Search!Stand(enabled', assigned')
        /\ UNCHANGED <<visible, row, made, enabled, search, edit>>
    BY <1>5 DEF Search!UnassignLabel
  <2>2. row' \in [Labels -> 0..MaxRows]
    BY <1>2, <2>1 DEF SearchTypes
  <2> QED BY <1>1, <2>1, <2>2, StandKeeps
<1>6. ASSUME NEW p \in Policies, Search!CreatePolicy(p) PROVE SearchInvariant'
  <2>1. enabled' = enabled \cup {p} /\ UNCHANGED <<visible, row, made, assigned, search, held, edit>>
    BY <1>6 DEF Search!CreatePolicy
  <2>2. SearchTypes' /\ HeldStands'
    BY <1>1, <1>2, <2>1 DEF SearchTypes, HeldStands
  <2> QED BY <2>1, <2>2, SearchesStay
<1>7. ASSUME NEW p \in Policies, Search!DeletePolicy(p) PROVE SearchInvariant'
  <2>1. enabled' \subseteq enabled /\ Search!Stand(enabled', assigned')
        /\ UNCHANGED <<visible, row, made, assigned, search, edit>>
    BY <1>7 DEF Search!DeletePolicy, Search!Stand
  <2>2. row' \in [Labels -> 0..MaxRows]
    BY <1>2, <2>1 DEF SearchTypes
  <2> QED BY <1>1, <2>1, <2>2, StandKeeps
<1>8. ASSUME NEW i \in Items, Search!Vanish(i) PROVE SearchInvariant'
  <2>1. visible' \subseteq visible /\ UNCHANGED <<row, made, assigned, enabled, search, held, edit>>
    BY <1>8 DEF Search!Vanish
  <2>2. SearchTypes' /\ HeldStands'
    BY <1>1, <1>2, <2>1 DEF SearchTypes, HeldStands
  <2> QED BY <2>1, <2>2, SearchesStay
<1> QED BY <1>3, <1>4, <1>5, <1>6, <1>7, <1>8

(* An assignment goes on; at its end the labels it assigned are there.     *)
LEMMA EditMoves ==
  ASSUME SearchInvariant, NEW t \in Editors, NEW e \in EditRecord, EditUnderway(e),
         edit' = [edit EXCEPT ![t] = e],
         assigned \subseteq assigned', assigned' \subseteq Search!Assignment,
         UNCHANGED <<visible, row, made, enabled, search, held, changes>>
  PROVE  SearchInvariant'
<1>1. SearchTypes' /\ HeldStands'
  BY DEF SearchInvariant, SearchTypes, HeldStands
<1> QED BY <1>1, SearchesStay

LEMMA EditSteps ==
  ASSUME Search!RetrievalAssumption, SearchInvariant, NEW t \in Editors,
         \/ Search!BeginAssign(t) \/ Search!GetLabel(t) \/ Search!Insert(t)
         \/ Search!CommitAssign(t) \/ Search!CrashAssign(t)
  PROVE  SearchInvariant'
<1>1. PICK e \in EditRecord : e = edit[t] /\ EditUnderway(e)
  BY DEF SearchInvariant, SearchTypes
<1>2. assigned \subseteq Search!Assignment /\ row \in [Labels -> 0..MaxRows] /\ MaxRows \in Nat
  BY DEF SearchInvariant, SearchTypes, Search!RetrievalAssumption
<1>3. PICK none \in EditRecord : none = Search!NoEdit /\ none.pc = "new"
  <2>1. PICK l : l = CHOOSE m \in Labels : TRUE
    OBVIOUS
  <2>2. Search!NoEdit = [pc |-> "new", label |-> l, row |-> 0, todo |-> {}, draft |-> {}]
    BY <2>1 DEF Search!NoEdit
  <2>3. 0 \in 0..MaxRows
    BY <1>2
  <2> QED BY <2>2, <2>3 DEF EditRecord
<1>4. PICK over : over = [none EXCEPT !.pc = "ended"]
  OBVIOUS
<1>5. over \in EditRecord /\ EditUnderway(over)
  BY <1>3, <1>4 DEF EditRecord, EditUnderway
<1>6. CASE Search!BeginAssign(t)
  <2>1. PICK l \in Labels, targets \in SUBSET Search!Targets \ {{}} :
          /\ edit' = [edit EXCEPT ![t] =
                        [none EXCEPT !.pc = "get", !.label = l, !.todo = targets]]
          /\ UNCHANGED <<visible, row, made, assigned, enabled, search, held, changes>>
    BY <1>3, <1>6 DEF Search!BeginAssign
  <2>2. PICK next : next = [none EXCEPT !.pc = "get", !.label = l, !.todo = targets]
    OBVIOUS
  <2>3. next \in EditRecord /\ EditUnderway(next)
    BY <1>3, <2>2 DEF EditRecord, EditUnderway
  <2> QED BY <1>2, <2>1, <2>2, <2>3, EditMoves
<1>7. CASE Search!GetLabel(t)
  <2>1. PICK i \in e.todo :
          /\ e.pc = "get"
          /\ edit' = [edit EXCEPT ![t] =
               IF row[e.label] # 0 THEN [e EXCEPT !.pc = "insert", !.row = row[e.label]]
                                   ELSE [e EXCEPT !.todo = e.todo \ {i}]]
          /\ UNCHANGED <<visible, row, made, assigned, enabled, search, held, changes>>
    BY <1>1, <1>7 DEF Search!GetLabel
  <2>2. e.label \in Labels /\ row[e.label] \in 0..MaxRows
    BY <1>1, <1>2, <2>1 DEF EditUnderway
  <2>3. PICK next : next = IF row[e.label] # 0
                             THEN [e EXCEPT !.pc = "insert", !.row = row[e.label]]
                             ELSE [e EXCEPT !.todo = e.todo \ {i}]
    OBVIOUS
  <2>4. next \in EditRecord /\ EditUnderway(next)
    <3>1. CASE row[e.label] # 0
      <4>1. next = [e EXCEPT !.pc = "insert", !.row = row[e.label]] /\ row[e.label] \in 1..MaxRows
        BY <1>2, <2>2, <2>3, <3>1
      <4> QED BY <1>1, <2>2, <4>1 DEF EditRecord, EditUnderway
    <3>2. CASE row[e.label] = 0
      <4>1. next = [e EXCEPT !.todo = e.todo \ {i}]
        BY <2>3, <3>2
      <4> QED BY <1>1, <2>1, <2>2, <4>1 DEF EditRecord, EditUnderway
    <3> QED BY <3>1, <3>2
  <2> QED BY <1>2, <2>1, <2>3, <2>4, EditMoves
<1>8. CASE Search!Insert(t)
  <2>1. PICK i \in e.todo :
          /\ e.pc = "insert"
          /\ edit' = [edit EXCEPT ![t] =
               IF row[e.label] = e.row
                 THEN [e EXCEPT !.pc = "get", !.todo = e.todo \ {i},
                                !.draft = e.draft \cup {[item |-> i, label |-> e.label, row |-> e.row]}]
                 ELSE over]
          /\ UNCHANGED <<visible, row, made, assigned, enabled, search, held, changes>>
    BY <1>1, <1>3, <1>4, <1>8 DEF Search!Insert
  <2>2. e.label \in Labels /\ e.row \in 1..MaxRows /\ i \in Search!Targets
    BY <1>1, <2>1 DEF EditUnderway, EditRecord
  <2>3. PICK mine : mine = [item |-> i, label |-> e.label, row |-> e.row]
    OBVIOUS
  <2>4. mine \in Search!Assignment
    BY <2>2, <2>3 DEF Search!Assignment
  <2>5. PICK next : next = [e EXCEPT !.pc = "get", !.todo = e.todo \ {i},
                                     !.draft = e.draft \cup {mine}]
    OBVIOUS
  <2>6. next \in EditRecord /\ EditUnderway(next)
    BY <1>1, <2>2, <2>4, <2>5 DEF EditRecord, EditUnderway
  <2>7. edit' = [edit EXCEPT ![t] = next] \/ edit' = [edit EXCEPT ![t] = over]
    BY <2>1, <2>3, <2>5
  <2> QED BY <1>2, <1>5, <2>1, <2>6, <2>7, EditMoves
<1>9. CASE Search!CommitAssign(t)
  <2>1. /\ assigned' = assigned \cup e.draft /\ edit' = [edit EXCEPT ![t] = over]
        /\ UNCHANGED <<visible, row, made, enabled, search, held, changes>>
    BY <1>1, <1>3, <1>4, <1>9 DEF Search!CommitAssign
  <2>2. e.draft \subseteq Search!Assignment
    BY DEF EditRecord
  <2> QED BY <1>2, <1>5, <2>1, <2>2, EditMoves
<1>10. CASE Search!CrashAssign(t)
  <2>1. /\ edit' = [edit EXCEPT ![t] = over]
        /\ UNCHANGED <<visible, row, made, assigned, enabled, search, held, changes>>
    BY <1>3, <1>4, <1>10 DEF Search!CrashAssign
  <2> QED BY <1>2, <1>5, <2>1, EditMoves
<1> QED BY <1>6, <1>7, <1>8, <1>9, <1>10

LEMMA LabelsOfType ==
  ASSUME assigned \subseteq Search!Assignment, NEW hits, NEW kind
  PROVE  Search!LabelsOf(hits, kind) \in SUBSET (Search!Targets \X Labels)
  BY DEF Search!LabelsOf, Search!Assignment

LEMMA StatementsType ==
  ASSUME NEW kinds PROVE Search!Statements(kinds) \in Seq({"entity", "edge", "episode", "block"})
<1> DEFINE Kind == {"entity", "edge", "episode", "block"}
<1>1. PICK a, b, c, d :
        /\ a = IF "entity" \in kinds THEN <<"entity", "entity">> ELSE << >>
        /\ b = IF "edge" \in kinds THEN <<"edge", "edge">> ELSE << >>
        /\ c = IF "episode" \in kinds THEN <<"episode", "episode">> ELSE << >>
        /\ d = IF "block" \in kinds THEN <<"block">> ELSE << >>
  OBVIOUS
<1>2. a \in Seq(Kind) /\ b \in Seq(Kind) /\ c \in Seq(Kind) /\ d \in Seq(Kind)
  <2>1. \A k \in Kind : <<k, k>> \in Seq(Kind) /\ <<k>> \in Seq(Kind)
    OBVIOUS
  <2>2. /\ << >> \in Seq(Kind) /\ <<"entity", "entity">> \in Seq(Kind)
        /\ <<"edge", "edge">> \in Seq(Kind) /\ <<"episode", "episode">> \in Seq(Kind)
        /\ <<"block">> \in Seq(Kind)
    BY <2>1
  <2> HIDE DEF Kind
  <2> QED BY <1>1, <2>2
<1>3. Search!Statements(kinds) = ((a \o b) \o c) \o d
  BY <1>1 DEF Search!Statements
<1> QED BY <1>2, <1>3

(* What every search has while it runs.                                    *)
LEMMA SearchFacts ==
  ASSUME SearchInvariant, NEW s \in Searches
  PROVE  /\ search[s] \in SearchRecord /\ held[s] \in HeldRecord
         /\ held[s].policies \subseteq enabled /\ held[s].assigned \subseteq assigned
         /\ assigned \subseteq Search!Assignment /\ enabled \subseteq Policies
         /\ visible \subseteq Items
         /\ ReadWhatStands(search[s], held[s]) /\ Governed(search[s], held[s])
  BY DEF SearchInvariant, SearchTypes, HeldStands

LEMMA NoSearchType == Search!NoSearch \in SearchRecord /\ Search!NoSearch.pc = "new"
<1>1. PICK q : q = CHOOSE r \in Queries : TRUE
  OBVIOUS
<1>2. Search!NoSearch = [pc |-> "new", query |-> q, role |-> NoRole, bypass |-> FALSE,
        todo |-> << >>, hits |-> {}, policies |-> {}, labels |-> {}, warnings |-> {}, shown |-> {}]
  BY <1>1 DEF Search!NoSearch
<1>3. << >> \in Seq({"entity", "edge", "episode", "block"})
  OBVIOUS
<1> QED BY <1>2, <1>3 DEF SearchRecord

LEMMA BeginKeeps ==
  ASSUME Search!RetrievalAssumption, SearchInvariant, NEW s \in Searches, Search!Begin(s)
  PROVE  SearchInvariant'
<1>1. PICK q \in Queries, caller \in CallerRoles \cup {NoRole}, privileged \in BOOLEAN :
        /\ search' = [search EXCEPT ![s] =
                        [Search!NoSearch EXCEPT !.pc = "query", !.query = q, !.role = caller,
                           !.bypass = privileged, !.todo = Search!Statements(q.kinds)]]
        /\ held' = [held EXCEPT ![s] = [policies |-> enabled, assigned |-> assigned]]
        /\ UNCHANGED <<visible, row, made, assigned, enabled, edit, changes>>
  BY DEF Search!Begin, Search!World
<1>2. PICK todo \in Seq({"entity", "edge", "episode", "block"}) :
        todo = Search!Statements(q.kinds)
  BY StatementsType
<1>3. PICK none \in SearchRecord : none = Search!NoSearch
  BY NoSearchType
<1>4. PICK next : next = [none EXCEPT !.pc = "query", !.query = q, !.role = caller,
                                      !.bypass = privileged, !.todo = todo]
  OBVIOUS
<1>5. search' = [search EXCEPT ![s] = next] /\ next \in SearchRecord /\ next.pc = "query"
  <2>1. search' = [search EXCEPT ![s] = next]
    BY <1>1, <1>2, <1>3, <1>4
  <2>2. next \in SearchRecord /\ next.pc = "query"
    BY <1>4 DEF SearchRecord
  <2> QED BY <2>1, <2>2
<1>6. PICK standing : standing = [policies |-> enabled, assigned |-> assigned]
  OBVIOUS
<1>7. standing \in HeldRecord
  BY <1>6, SearchFacts DEF HeldRecord
<1>8. SearchTypes'
  BY <1>1, <1>5, <1>6, <1>7 DEF SearchInvariant, SearchTypes
<1>9. ASSUME NEW u \in Searches
      PROVE  /\ held'[u].policies \subseteq enabled /\ held'[u].assigned \subseteq assigned
             /\ ReadWhatStands(search'[u], held'[u]) /\ Governed(search'[u], held'[u])
  <2>1. CASE u = s
    <3>1. search'[u] = next /\ held'[u] = standing
      BY <1>1, <1>5, <1>6, <2>1 DEF SearchInvariant, SearchTypes
    <3>2. ReadWhatStands(next, standing) /\ Governed(next, standing)
      BY <1>5 DEF ReadWhatStands, Governed
    <3> QED BY <1>6, <3>1, <3>2
  <2>2. CASE u # s
    <3>1. search'[u] = search[u] /\ held'[u] = held[u]
      BY <1>1, <2>2 DEF SearchInvariant, SearchTypes
    <3> QED BY <3>1, SearchFacts
  <2> QED BY <2>1, <2>2
<1> QED BY <1>1, <1>8, <1>9 DEF SearchInvariant, HeldStands

LEMMA QueryKeeps ==
  ASSUME SearchInvariant, NEW s \in Searches, Search!Query(s)
  PROVE  SearchInvariant'
<1>1. PICK x \in SearchRecord : x = search[s]
  BY SearchFacts
<1>2. PICK found \in SUBSET visible :
        /\ x.pc = "query" /\ x.todo # << >>
        /\ Search!Step(s, [x EXCEPT !.hits = x.hits \cup found, !.todo = Tail(x.todo),
                                    !.pc = IF Len(x.todo) = 1 THEN "expand" ELSE "query"])
  BY <1>1 DEF Search!Query
<1>3. PICK rest, point :
        rest = Tail(x.todo) /\ point = IF Len(x.todo) = 1 THEN "expand" ELSE "query"
  OBVIOUS
<1>4. rest \in Seq({"entity", "edge", "episode", "block"})
  <2>1. x.todo \in Seq({"entity", "edge", "episode", "block"})
    BY DEF SearchRecord
  <2> QED BY <1>2, <1>3, <2>1, HeadTailProperties
<1>5. PICK next : next = [x EXCEPT !.hits = x.hits \cup found, !.todo = rest, !.pc = point]
  OBVIOUS
<1>6. point \in {"query", "expand"}
  BY <1>3
<1>7. x.hits \cup found \subseteq Items
  BY SearchFacts DEF SearchRecord
<1>8. next \in SearchRecord /\ next.pc = point
  BY <1>4, <1>5, <1>6, <1>7 DEF SearchRecord
<1>9. ReadWhatStands(next, held[s]) /\ Governed(next, held[s])
  BY <1>6, <1>8 DEF ReadWhatStands, Governed
<1> QED BY <1>2, <1>3, <1>5, <1>8, <1>9, SearchMoves

LEMMA ExpandKeeps ==
  ASSUME SearchInvariant, NEW s \in Searches, Search!Expand(s)
  PROVE  SearchInvariant'
<1>1. PICK x \in SearchRecord : x = search[s]
  BY SearchFacts
<1>2. PICK found \in SUBSET visible :
        Search!Step(s, [x EXCEPT !.hits = x.hits \cup found, !.pc = "policies"])
  BY <1>1 DEF Search!Expand
<1>3. PICK next : next = [x EXCEPT !.hits = x.hits \cup found, !.pc = "policies"]
  OBVIOUS
<1>4. x.hits \cup found \subseteq Items
  BY SearchFacts DEF SearchRecord
<1>5. next \in SearchRecord /\ next.pc = "policies"
  BY <1>3, <1>4 DEF SearchRecord
<1>6. ReadWhatStands(next, held[s]) /\ Governed(next, held[s])
  BY <1>5 DEF ReadWhatStands, Governed
<1> QED BY <1>2, <1>3, <1>5, <1>6, SearchMoves

LEMMA ReadPoliciesKeeps ==
  ASSUME SearchInvariant, NEW s \in Searches, Search!ReadPolicies(s)
  PROVE  SearchInvariant'
<1>1. PICK x \in SearchRecord : x = search[s]
  BY SearchFacts
<1>2. Search!Step(s, IF x.hits = {} \/ x.bypass \/ enabled = {} THEN [x EXCEPT !.pc = "rank"]
                     ELSE [x EXCEPT !.pc = "edge labels", !.policies = enabled])
  BY <1>1 DEF Search!ReadPolicies
<1>3. CASE x.hits = {} \/ x.bypass \/ enabled = {}
  <2>1. PICK next : next = [x EXCEPT !.pc = "rank"]
    OBVIOUS
  <2>2. next \in SearchRecord /\ next.pc = "rank" /\ next.hits = x.hits /\ next.bypass = x.bypass
    BY <2>1 DEF SearchRecord
  <2>3. ReadWhatStands(next, held[s])
    BY <2>2 DEF ReadWhatStands
  <2>4. enabled = {} => held[s].policies = {}
    BY SearchFacts
  <2>5. Governed(next, held[s])
    BY <1>3, <2>2, <2>4 DEF Governed
  <2> QED BY <1>2, <1>3, <2>1, <2>2, <2>3, <2>5, SearchMoves
<1>4. CASE ~(x.hits = {} \/ x.bypass \/ enabled = {})
  <2>1. PICK next : next = [x EXCEPT !.pc = "edge labels", !.policies = enabled]
    OBVIOUS
  <2>2. next \in SearchRecord /\ next.pc = "edge labels" /\ next.policies = enabled
    BY <2>1, SearchFacts DEF SearchRecord
  <2>3. held[s].policies \subseteq enabled
    BY SearchFacts
  <2>4. ReadWhatStands(next, held[s]) /\ Governed(next, held[s])
    BY <2>2, <2>3 DEF ReadWhatStands, Governed
  <2> QED BY <1>2, <1>4, <2>1, <2>2, <2>4, SearchMoves
<1> QED BY <1>3, <1>4

LEMMA ReadEdgeLabelsKeeps ==
  ASSUME SearchInvariant, NEW s \in Searches, Search!ReadEdgeLabels(s)
  PROVE  SearchInvariant'
<1>1. PICK x \in SearchRecord : x = search[s]
  BY SearchFacts
<1>2. PICK read : read = Search!LabelsOf(x.hits, "edge")
  OBVIOUS
<1>3. PICK next : next = [x EXCEPT !.pc = "episode labels", !.labels = read]
  OBVIOUS
<1>4. x.pc = "edge labels" /\ Search!Step(s, next)
  BY <1>1, <1>2, <1>3 DEF Search!ReadEdgeLabels
<1>5. read \in SUBSET (Search!Targets \X Labels)
  BY <1>2, LabelsOfType, SearchFacts
<1>6. /\ next \in SearchRecord /\ next.pc = "episode labels" /\ next.labels = read
      /\ next.hits = x.hits /\ next.policies = x.policies
  BY <1>3, <1>5 DEF SearchRecord
<1>7. held[s].policies \subseteq x.policies
  BY <1>1, <1>4, SearchFacts DEF ReadWhatStands
<1>8. \A a \in held[s].assigned : a.item \in x.hits /\ KindOf[a.item] = "edge" =>
        <<a.item, a.label>> \in read
  <2>1. held[s].assigned \subseteq assigned
    BY SearchFacts
  <2> QED BY <1>2, <2>1 DEF Search!LabelsOf
<1>9. ReadWhatStands(next, held[s]) /\ Governed(next, held[s])
  BY <1>6, <1>7, <1>8 DEF ReadWhatStands, Governed
<1> QED BY <1>4, <1>6, <1>9, SearchMoves

(* The instance has the finite sets of the library.                        *)
LEMMA SearchFinite == ASSUME NEW S PROVE Search!IsFiniteSet(S) <=> IsFiniteSet(S)
  BY DEF Search!IsFiniteSet, IsFiniteSet

LEMMA SearchCardinality == ASSUME NEW S PROVE Search!Cardinality(S) = Cardinality(S)
  BY DEF Search!Cardinality, Cardinality

(* Whatever is against the labels that stood fires on the labels read.     *)
LEMMA AgainstFires ==
  ASSUME Search!RetrievalAssumption, NEW p \in Policies, NEW few, NEW labels, few \subseteq labels,
         NEW caller, Search!Against(Rule[p], few, caller)
  PROVE  Search!Triggers(p, labels, caller)
<1>1. PICK r : r = Rule[p]
  OBVIOUS
<1>2. r.kind \in {"mutually_exclusive", "requires_role"} /\ IsFiniteSet(r.labels)
  <2>1. /\ Rule \in [Policies -> [kind : {"mutually_exclusive", "requires_role"},
                                  labels : SUBSET Labels, roles : SUBSET CallerRoles,
                                  action : {"drop", "warn", "block"}]]
        /\ \A q \in Policies : Search!IsFiniteSet(Rule[q].labels)
    BY DEF Search!RetrievalAssumption
  <2> QED BY <1>1, <2>1, SearchFinite
<1>3. CASE r.kind = "requires_role"
  <2>1. r.labels \cap few # {} /\ caller \notin r.roles
    BY <1>1, <1>3 DEF Search!Against
  <2> QED BY <1>1, <1>3, <2>1 DEF Search!Triggers, Search!Refused
<1>4. CASE r.kind = "mutually_exclusive"
  <2>1. PICK l, m \in r.labels \cap few : l # m
    BY <1>1, <1>4 DEF Search!Against
  <2>2. PICK hit : hit = labels \cap r.labels
    OBVIOUS
  <2>3. IsFiniteSet(hit)
    BY <1>2, <2>2, FS_Subset
  <2>4. {l, m} \subseteq hit /\ Cardinality({l, m}) = 2
    <3>1. IsFiniteSet({l}) /\ Cardinality({l}) = 1
      BY FS_Singleton
    <3>2. Cardinality({l} \cup {m}) = 2
      <4>1. m \notin {l}
        BY <2>1
      <4>2. Cardinality({l} \cup {m}) = Cardinality({l}) + 1
        BY <3>1, <4>1, FS_AddElement
      <4> QED BY <3>1, <4>2
    <3>3. {l} \cup {m} = {l, m}
      OBVIOUS
    <3> QED BY <2>1, <2>2, <3>2, <3>3
  <2>5. Cardinality(hit) \in Nat /\ Cardinality({l, m}) <= Cardinality(hit)
    BY <2>3, <2>4, FS_Subset, FS_CardinalityType
  <2>6. Cardinality(hit) >= 2
    BY <2>4, <2>5
  <2>7. r.kind = "mutually_exclusive" /\ Search!Cardinality(labels \cap r.labels) >= 2
    BY <1>4, <2>2, <2>6, SearchCardinality
  <2> QED BY <1>1, <2>7 DEF Search!Triggers
<1> QED BY <1>2, <1>3, <1>4

LEMMA VerdictKeeps ==
  ASSUME Search!RetrievalAssumption, SearchInvariant, NEW s \in Searches,
         Search!ReadEpisodeLabels(s)
  PROVE  SearchInvariant'
<1>1. PICK x \in SearchRecord : x = search[s]
  BY SearchFacts
<1>2. PICK h \in HeldRecord : h = held[s]
  BY SearchFacts
<1>3. PICK labels : labels = x.labels \cup Search!LabelsOf(x.hits, "episode")
  OBVIOUS
<1> DEFINE fires(p, i) == Search!Triggers(p, Search!Slugs(labels, i), x.role)
<1>4. PICK kept : kept = {i \in x.hits : \A p \in x.policies : ~(fires(p, i) /\ Search!Drops(p))}
  OBVIOUS
<1>5. PICK warned : warned = {w \in kept \X x.policies :
                                fires(w[2], w[1]) /\ Rule[w[2]].action = "warn"}
  OBVIOUS
<1>6. PICK next : next = [x EXCEPT !.pc = "rank", !.hits = kept, !.labels = {}, !.warnings = warned]
  OBVIOUS
<1>7. x.pc = "episode labels" /\ Search!Step(s, next)
  BY <1>1, <1>3, <1>4, <1>5, <1>6 DEF Search!ReadEpisodeLabels
<1>8. kept \subseteq x.hits /\ warned \subseteq kept \X x.policies
  BY <1>4, <1>5
<1>9. x.hits \subseteq Items /\ x.policies \subseteq Policies
  BY DEF SearchRecord
<1>10. kept \in SUBSET Items /\ warned \in SUBSET (Items \X Policies)
  BY <1>8, <1>9
<1>11. next \in SearchRecord /\ next.pc = "rank" /\ next.hits = kept /\ next.warnings = warned
       /\ next.role = x.role
  BY <1>6, <1>10 DEF SearchRecord
<1>12. /\ h.policies \subseteq x.policies
       /\ \A a \in h.assigned : a.item \in x.hits /\ KindOf[a.item] = "edge" =>
            <<a.item, a.label>> \in x.labels
       /\ h.assigned \subseteq assigned /\ h.assigned \subseteq Search!Assignment
  BY <1>1, <1>2, <1>7, SearchFacts DEF ReadWhatStands, HeldRecord
<1>13. ASSUME NEW i \in x.hits PROVE StandingOf(h, i) \subseteq Search!Slugs(labels, i)
  <2>1. ASSUME NEW a \in h.assigned, a.item = i PROVE <<i, a.label>> \in labels
    <3>1. KindOf[a.item] \in {"edge", "episode"}
      BY <1>12 DEF Search!Assignment, Search!Targets
    <3>2. CASE KindOf[a.item] = "edge"
      BY <1>3, <1>12, <2>1, <3>2
    <3>3. CASE KindOf[a.item] = "episode"
      <4>1. a \in assigned
        BY <1>12
      <4> QED BY <1>3, <2>1, <3>3, <4>1 DEF Search!LabelsOf
    <3> QED BY <3>1, <3>2, <3>3
  <2>2. ASSUME NEW a \in h.assigned, a.item = i PROVE a.label \in Search!Slugs(labels, i)
    <3>1. <<i, a.label>> \in labels
      BY <2>1, <2>2
    <3> QED BY <3>1 DEF Search!Slugs
  <2> QED BY <2>2 DEF StandingOf
<1>14. ASSUME NEW i \in kept, NEW p \in h.policies,
              Search!Against(Rule[p], StandingOf(h, i), x.role)
       PROVE  Rule[p].action = "warn" /\ <<i, p>> \in warned
  <2>1. i \in x.hits /\ p \in x.policies /\ p \in Policies
    BY <1>8, <1>9, <1>12
  <2>2. fires(p, i)
    BY <1>13, <1>14, <2>1, AgainstFires
  <2>3. ~Search!Drops(p)
    BY <1>4, <2>1, <2>2
  <2>4. Rule[p].action \in {"drop", "warn", "block"}
    BY <2>1 DEF Search!RetrievalAssumption
  <2>5. Rule[p].action = "warn"
    BY <2>3, <2>4 DEF Search!Drops
  <2>6. <<i, p>> \in kept \X x.policies /\ <<i, p>>[1] = i /\ <<i, p>>[2] = p
    BY <2>1
  <2> QED BY <1>5, <2>2, <2>5, <2>6
<1>15. ReadWhatStands(next, held[s]) /\ Governed(next, held[s])
  BY <1>2, <1>11, <1>14 DEF ReadWhatStands, Governed
<1> QED BY <1>7, <1>11, <1>15, SearchMoves

LEMMA RankKeeps ==
  ASSUME SearchInvariant, NEW s \in Searches, Search!Rank(s)
  PROVE  SearchInvariant'
<1>1. PICK x \in SearchRecord : x = search[s]
  BY SearchFacts
<1>2. PICK final \in SUBSET x.hits :
        /\ x.pc = "rank"
        /\ Search!Step(s, [x EXCEPT !.hits = final, !.pc = IF final = {} THEN "ended" ELSE "enrich"])
  BY <1>1 DEF Search!Rank
<1>3. PICK point : point = IF final = {} THEN "ended" ELSE "enrich"
  OBVIOUS
<1>4. PICK next : next = [x EXCEPT !.hits = final, !.pc = point]
  OBVIOUS
<1>5. point \in {"ended", "enrich"} /\ final \in SUBSET Items
  BY <1>3 DEF SearchRecord
<1>6. /\ next \in SearchRecord /\ next.pc = point /\ next.hits = final
      /\ next.bypass = x.bypass /\ next.role = x.role /\ next.warnings = x.warnings
  BY <1>4, <1>5 DEF SearchRecord
<1>7. Governed(x, held[s])
  BY <1>1, SearchFacts
<1>8. ReadWhatStands(next, held[s]) /\ Governed(next, held[s])
  BY <1>2, <1>5, <1>6, <1>7 DEF ReadWhatStands, Governed
<1> QED BY <1>2, <1>3, <1>4, <1>6, <1>8, SearchMoves

LEMMA EnrichKeeps ==
  ASSUME SearchInvariant, NEW s \in Searches, Search!Enrich(s)
  PROVE  SearchInvariant'
<1>1. PICK x \in SearchRecord : x = search[s]
  BY SearchFacts
<1>2. PICK labels : labels = Search!LabelsOf(x.hits, "edge") \cup Search!LabelsOf(x.hits, "episode")
  OBVIOUS
<1>3. PICK next : next = [x EXCEPT !.shown = labels, !.pc = "ended"]
  OBVIOUS
<1>4. x.pc = "enrich" /\ Search!Step(s, next)
  BY <1>1, <1>2, <1>3 DEF Search!Enrich
<1>5. labels \in SUBSET (Search!Targets \X Labels)
  <2>1. assigned \subseteq Search!Assignment
    BY SearchFacts
  <2>2. /\ Search!LabelsOf(x.hits, "edge") \in SUBSET (Search!Targets \X Labels)
        /\ Search!LabelsOf(x.hits, "episode") \in SUBSET (Search!Targets \X Labels)
    BY <2>1, LabelsOfType
  <2> QED BY <1>2, <2>2
<1>6. /\ next \in SearchRecord /\ next.pc = "ended" /\ next.hits = x.hits
      /\ next.bypass = x.bypass /\ next.role = x.role /\ next.warnings = x.warnings
  BY <1>3, <1>5 DEF SearchRecord
<1>7. Governed(x, held[s])
  BY <1>1, SearchFacts
<1>8. ReadWhatStands(next, held[s]) /\ Governed(next, held[s])
  BY <1>4, <1>6, <1>7 DEF ReadWhatStands, Governed
<1> QED BY <1>4, <1>6, <1>8, SearchMoves

LEMMA SearchInit == Search!RetrievalAssumption /\ Search!Init => SearchInvariant
<1> SUFFICES ASSUME Search!RetrievalAssumption, Search!Init PROVE SearchInvariant
  OBVIOUS
<1>1. MaxRows \in Nat \ {0} /\ MaxChanges \in Nat /\ 1 \in 1..MaxRows /\ 1 \in 0..MaxRows
      /\ 0 \in 0..MaxChanges /\ 0 \in 0..MaxRows
  BY DEF Search!RetrievalAssumption
<1>2. PICK l : l = CHOOSE m \in Labels : TRUE
  OBVIOUS
<1>3. Search!NoEdit = [pc |-> "new", label |-> l, row |-> 0, todo |-> {}, draft |-> {}]
  BY <1>2 DEF Search!NoEdit
<1>4. Search!NoSearch \in SearchRecord /\ Search!NoSearch.pc = "new"
  BY NoSearchType
<1>5. Search!NoEdit \in EditRecord /\ EditUnderway(Search!NoEdit)
  BY <1>1, <1>3 DEF EditRecord, EditUnderway
<1>6. PICK nothing : nothing = [policies |-> {}, assigned |-> {}]
  OBVIOUS
<1>7. nothing \in HeldRecord
  BY <1>6 DEF HeldRecord
<1>8. assigned \subseteq Search!Assignment
  BY <1>1 DEF Search!Init, Search!RetrievalAssumption, Search!Assignment
<1>9. /\ search = [s \in Searches |-> Search!NoSearch] /\ held = [s \in Searches |-> nothing]
       /\ edit = [t \in Editors |-> Search!NoEdit]
  BY <1>6 DEF Search!Init
<1>10. search \in [Searches -> SearchRecord] /\ held \in [Searches -> HeldRecord]
       /\ edit \in [Editors -> EditRecord] /\ \A t \in Editors : EditUnderway(edit[t])
  BY <1>4, <1>5, <1>7, <1>9
<1>11. SearchTypes
  BY <1>1, <1>8, <1>10 DEF Search!Init, Search!RetrievalAssumption, SearchTypes
<1>12. \A s \in Searches : search[s] = Search!NoSearch /\ held[s] = nothing
  BY <1>9
<1>13. HeldStands
  BY <1>6, <1>12 DEF HeldStands
<1>14. ReadWhatStands(Search!NoSearch, nothing) /\ Governed(Search!NoSearch, nothing)
  BY <1>4 DEF ReadWhatStands, Governed
<1> QED BY <1>11, <1>12, <1>13, <1>14 DEF SearchInvariant

LEMMA SearchStep ==
  ASSUME Search!RetrievalAssumption, SearchInvariant, Search!Next
  PROVE  SearchInvariant'
<1>1. CASE \E t \in Editors : \/ Search!BeginAssign(t) \/ Search!GetLabel(t) \/ Search!Insert(t)
                              \/ Search!CommitAssign(t) \/ Search!CrashAssign(t)
  BY <1>1, EditSteps
<1>2. CASE \E s \in Searches :
             \/ Search!Begin(s) \/ Search!Query(s) \/ Search!Expand(s) \/ Search!ReadPolicies(s)
             \/ Search!ReadEdgeLabels(s) \/ Search!ReadEpisodeLabels(s) \/ Search!Rank(s)
             \/ Search!Enrich(s)
  BY <1>2, BeginKeeps, QueryKeeps, ExpandKeeps, ReadPoliciesKeeps, ReadEdgeLabelsKeeps,
     VerdictKeeps, RankKeeps, EnrichKeeps
<1>3. CASE \/ \E l \in Labels : Search!CreateLabel(l) \/ Search!DeleteLabel(l)
           \/ \E a \in assigned : Search!UnassignLabel(a)
           \/ \E p \in Policies : Search!CreatePolicy(p) \/ Search!DeletePolicy(p)
           \/ \E i \in Items : Search!Vanish(i)
  <2>1. Search!Change
    BY <1>3 DEF Search!CreateLabel, Search!DeleteLabel, Search!UnassignLabel,
                Search!CreatePolicy, Search!DeletePolicy, Search!Vanish
  <2> QED BY <1>3, <2>1, SearchChanges
<1> QED BY <1>1, <1>2, <1>3 DEF Search!Next

LEMMA SearchAlways == Search!RetrievalAssumption => (Search!Spec => []SearchInvariant)
<1> SUFFICES ASSUME Search!RetrievalAssumption PROVE Search!Spec => []SearchInvariant
  OBVIOUS
<1>1. Search!Init => SearchInvariant
  BY SearchInit
<1>2. SearchInvariant /\ [Search!Next]_(Search!vars) => SearchInvariant'
  <2>1. CASE Search!Next
    BY <2>1, SearchStep
  <2>2. SearchInvariant /\ UNCHANGED Search!vars => SearchInvariant'
    BY DEF SearchInvariant, SearchTypes, HeldStands, Search!vars
  <2> QED BY <2>1, <2>2
<1> QED BY <1>1, <1>2, PTL DEF Search!Spec

-----------------------------------------------------------------------------
(* Ingestion: what is proved of the component holds of the instance. *)

IngestionProofs ==
  INSTANCE EpisodeIngestionProofs WITH
    Calls <- Posts, NoCall <- NoPost,
    jobs <- extractions, kills <- extractionKills, pc <- postPc, step <- extractionStep

(* The two instances have the same definitions. *)
LEMMA SameIngestion ==
  /\ Ingestion!IngestionAssumption <=> IngestionProofs!IngestionAssumption
  /\ Ingestion!Init <=> IngestionProofs!Init
  BY DEF Ingestion!QueueAssumption, IngestionProofs!QueueAssumption, Ingestion!QueueInit,
         IngestionProofs!QueueInit, Ingestion!Call, IngestionProofs!Call,
         Ingestion!IngestionAssumption, IngestionProofs!IngestionAssumption, Ingestion!Init,
         IngestionProofs!Init

LEMMA SameIngestionSteps == Ingestion!Next <=> IngestionProofs!Next
  BY DEF Ingestion!vars, IngestionProofs!vars, Ingestion!queue, IngestionProofs!queue, Ingestion!EnqueueJob,
         IngestionProofs!EnqueueJob, Ingestion!Exhausted, IngestionProofs!Exhausted,
         Ingestion!StartJob, IngestionProofs!StartJob, Ingestion!FinishJob,
         IngestionProofs!FinishJob, Ingestion!FailJob, IngestionProofs!FailJob,
         Ingestion!KillJob, IngestionProofs!KillJob, Ingestion!requests,
         IngestionProofs!requests, Ingestion!work, IngestionProofs!work, Ingestion!Outcomes,
         IngestionProofs!Outcomes, Ingestion!Goto, IngestionProofs!Goto, Ingestion!Receive,
         IngestionProofs!Receive, Ingestion!Existing, IngestionProofs!Existing,
         Ingestion!Inserting, IngestionProofs!Inserting, Ingestion!Insert,
         IngestionProofs!Insert, Ingestion!Find, IngestionProofs!Find, Ingestion!Enqueues,
         IngestionProofs!Enqueues, Ingestion!Enqueue, IngestionProofs!Enqueue,
         Ingestion!EnqueueFails, IngestionProofs!EnqueueFails, Ingestion!End,
         IngestionProofs!End, Ingestion!Commit, IngestionProofs!Commit, Ingestion!Rollback,
         IngestionProofs!Rollback, Ingestion!Crash, IngestionProofs!Crash,
         Ingestion!JobGoto, IngestionProofs!JobGoto, Ingestion!Take, IngestionProofs!Take,
         Ingestion!Loaded, IngestionProofs!Loaded, Ingestion!Load, IngestionProofs!Load,
         Ingestion!Mark, IngestionProofs!Mark, Ingestion!Extract, IngestionProofs!Extract,
         Ingestion!Verdict, IngestionProofs!Verdict, Ingestion!CommitJob,
         IngestionProofs!CommitJob, Ingestion!Acknowledge, IngestionProofs!Acknowledge,
         Ingestion!Raise, IngestionProofs!Raise, Ingestion!Kill, IngestionProofs!Kill,
         Ingestion!Serve, IngestionProofs!Serve, Ingestion!Work, IngestionProofs!Work,
         Ingestion!Quiet, IngestionProofs!Quiet, Ingestion!Next, IngestionProofs!Next

LEMMA SameIngestionProperties ==
  /\ Ingestion!TypeOK <=> IngestionProofs!TypeOK
  /\ Ingestion!OneEpisodePerContent <=> IngestionProofs!OneEpisodePerContent
  /\ Ingestion!FactsHaveProcessedSource <=> IngestionProofs!FactsHaveProcessedSource
  BY DEF Ingestion!Job, IngestionProofs!Job, Ingestion!QueueTypeOK,
         IngestionProofs!QueueTypeOK, Ingestion!Call, IngestionProofs!Call,
         Ingestion!Episode, IngestionProofs!Episode, Ingestion!Outcomes,
         IngestionProofs!Outcomes, Ingestion!TypeOK, IngestionProofs!TypeOK,
         Ingestion!OneEpisodePerContent, IngestionProofs!OneEpisodePerContent,
         Ingestion!Processed, IngestionProofs!Processed, Ingestion!FactsHaveProcessedSource,
         IngestionProofs!FactsHaveProcessedSource

IngestionInvariant ==
  Ingestion!TypeOK /\ Ingestion!OneEpisodePerContent /\ Ingestion!FactsHaveProcessedSource

LEMMA IngestionAlways == Ingestion!IngestionAssumption => (Ingestion!Spec => []IngestionInvariant)
<1> SUFFICES ASSUME Ingestion!IngestionAssumption PROVE Ingestion!Spec => []IngestionInvariant
  OBVIOUS
<1>1. IngestionProofs!IngestionAssumption
  BY SameIngestion
<1>2. /\ IngestionProofs!Spec => []IngestionProofs!TypeInvariant
      /\ IngestionProofs!Spec => []IngestionProofs!OneEpisodePerContent
      /\ IngestionProofs!Spec => []IngestionProofs!FactsHaveProcessedSource
  BY <1>1, IngestionProofs!IngestionTypes, IngestionProofs!OneEpisodeAlways,
     IngestionProofs!FactsAlwaysSourced
<1>3. Ingestion!Init => IngestionProofs!Init
  BY SameIngestion
<1>4. [Ingestion!Next]_(Ingestion!vars) => [IngestionProofs!Next]_(IngestionProofs!vars)
  <2>1. Ingestion!vars = IngestionProofs!vars /\ Ingestion!vars' = IngestionProofs!vars'
    BY DEF Ingestion!vars, IngestionProofs!vars
  <2> QED BY <2>1, SameIngestionSteps
<1>5. IngestionProofs!TypeInvariant /\ IngestionProofs!OneEpisodePerContent
        /\ IngestionProofs!FactsHaveProcessedSource
      => IngestionInvariant
  BY SameIngestionProperties DEF IngestionProofs!TypeInvariant, IngestionInvariant
<1> QED BY <1>2, <1>3, <1>4, <1>5, PTL DEF Ingestion!Spec, IngestionProofs!Spec

-----------------------------------------------------------------------------
(* All of them *)

(* A step of one component leaves the others alone: to each of them, the   *)
(* behaviours of Services are behaviours of its own.                       *)
LEMMA OthersStutter ==
  [ServicesNext]_servicesVars =>
    /\ [Ontology!Next]_(Ontology!vars)
    /\ [Next]_vars
    /\ [Ingestion!Next]_(Ingestion!vars)
    /\ [Exporting!Next]_(Exporting!vars)
    /\ [Search!Next]_(Search!vars)
<1>1. /\ Ontology!vars = ontologyVars /\ Ingestion!vars = ingestionVars
      /\ Exporting!vars = exportVars /\ Search!vars = searchVars
  BY DEF Ontology!vars, Ingestion!vars, Ingestion!requests, Ingestion!work, Ingestion!queue,
         Exporting!vars, Exporting!queue, Search!vars,
         ontologyVars, ingestionVars, exportVars, searchVars
<1>2. /\ Ontology!vars' = ontologyVars' /\ Ingestion!vars' = ingestionVars'
      /\ Exporting!vars' = exportVars' /\ Search!vars' = searchVars'
  BY DEF Ontology!vars, Ingestion!vars, Ingestion!requests, Ingestion!work, Ingestion!queue,
         Exporting!vars, Exporting!queue, Search!vars,
         ontologyVars, ingestionVars, exportVars, searchVars
<1> HIDE DEF ontologyVars, vars, ingestionVars, exportVars, searchVars
<1>3. CASE UNCHANGED servicesVars
  BY <1>1, <1>2, <1>3 DEF servicesVars
<1>4. CASE ServicesNext
  BY <1>1, <1>2, <1>4 DEF ServicesNext, OntologySteps, AccessSteps, IngestionSteps, ExportSteps,
                          SearchSteps
<1> QED BY <1>3, <1>4

LEMMA EachComponent ==
  ServicesSpec => Ontology!Spec /\ Spec /\ Ingestion!Spec /\ Exporting!Spec /\ Search!Spec
<1>1. ServicesInit => Ontology!Init /\ Init /\ Ingestion!Init /\ Exporting!Init /\ Search!Init
  BY DEF ServicesInit
<1> QED BY <1>1, OthersStutter, PTL
      DEF ServicesSpec, Ontology!Spec, Spec, Ingestion!Spec, Exporting!Spec, Search!Spec

LEMMA SearchInvariantTypes == SearchInvariant => Search!TypeOK
<1> SUFFICES ASSUME SearchInvariant PROVE Search!TypeOK
  OBVIOUS
<1>1. ASSUME NEW s \in Searches
      PROVE  /\ search[s].pc \in {"new", "query", "expand", "policies", "edge labels",
                                  "episode labels", "rank", "enrich", "ended"}
             /\ search[s].hits \subseteq Items
             /\ search[s].policies \subseteq Policies
             /\ search[s].labels \subseteq Search!Targets \X Labels
             /\ search[s].warnings \subseteq Items \X Policies
             /\ held[s].policies \subseteq Policies /\ held[s].assigned \subseteq Search!Assignment
  <2>1. search[s] \in SearchRecord /\ held[s] \in HeldRecord
    BY SearchFacts
  <2> QED BY <2>1 DEF SearchRecord, HeldRecord
<1>2. ASSUME NEW t \in Editors
      PROVE  edit[t].pc \in {"new", "get", "insert", "ended"}
             /\ edit[t].draft \subseteq Search!Assignment
  <2>1. edit[t] \in EditRecord
    BY DEF SearchInvariant, SearchTypes
  <2> QED BY <2>1 DEF EditRecord
<1> QED BY <1>1, <1>2 DEF SearchInvariant, SearchTypes, Search!TypeOK

(* Every table, request and job of the components keeps to its type,       *)
(* however their requests and jobs interleave.                             *)
THEOREM ServicesTypes == ServicesAssumption => (ServicesSpec => []TypesOK)
<1> SUFFICES ASSUME ServicesAssumption PROVE ServicesSpec => []TypesOK
  OBVIOUS
<1>1. /\ Ontology!OntologyAssumption /\ AccessAssumption /\ Ingestion!IngestionAssumption
      /\ Exporting!ExportAssumption /\ Search!RetrievalAssumption
  BY DEF ServicesAssumption
<1>2. /\ Ontology!Spec => []OntologyInvariant
      /\ Spec => []TypeOK
      /\ Ingestion!Spec => []IngestionInvariant
      /\ Exporting!Spec => []ExportInvariant
      /\ Search!Spec => []SearchInvariant
  BY <1>1, OntologyAlways, AccessTypes, IngestionAlways, ExportAlways, SearchAlways
<1>3. OntologyInvariant /\ TypeOK /\ IngestionInvariant /\ ExportInvariant /\ SearchInvariant
      => TypesOK
  BY SearchInvariantTypes DEF OntologyInvariant, IngestionInvariant, ExportInvariant, TypesOK
<1> QED BY <1>2, <1>3, EachComponent, PTL

(* No path of the ontology ever holds the extends link of a request that   *)
(* rolled back: update_entity_type, apply_proposal, the seed and the       *)
(* trigger write uncommitted paths from what their own transaction sees,   *)
(* and give them up with it.                                               *)
THEOREM PathsFollowCommittedLinks == ServicesAssumption => (ServicesSpec => []PathLinksReal)
<1> SUFFICES ASSUME ServicesAssumption PROVE ServicesSpec => []PathLinksReal
  OBVIOUS
<1>1. Ontology!Spec => []OntologyInvariant
  BY OntologyAlways DEF ServicesAssumption
<1>2. OntologyInvariant => PathLinksReal
  BY DEF OntologyInvariant
<1> QED BY <1>1, <1>2, EachComponent, PTL

(* Whatever else the workspace serves, a text makes one episode.           *)
THEOREM OneEpisodeServed == ServicesAssumption => (ServicesSpec => []OneEpisodePerContent)
<1> SUFFICES ASSUME ServicesAssumption PROVE ServicesSpec => []OneEpisodePerContent
  OBVIOUS
<1>1. Ingestion!Spec => []IngestionInvariant
  BY IngestionAlways DEF ServicesAssumption
<1>2. IngestionInvariant => OneEpisodePerContent
  BY DEF IngestionInvariant, OneEpisodePerContent
<1> QED BY <1>1, <1>2, EachComponent, PTL

(* Whatever else the workspace serves, facts come with a processed episode. *)
THEOREM SourcedFactsServed == ServicesAssumption => (ServicesSpec => []FactsHaveProcessedSource)
<1> SUFFICES ASSUME ServicesAssumption PROVE ServicesSpec => []FactsHaveProcessedSource
  OBVIOUS
<1>1. Ingestion!Spec => []IngestionInvariant
  BY IngestionAlways DEF ServicesAssumption
<1>2. IngestionInvariant => FactsHaveProcessedSource
  BY DEF IngestionInvariant, FactsHaveProcessedSource
<1> QED BY <1>1, <1>2, EachComponent, PTL

(* An export that says completed names a file that was uploaded, whenever  *)
(* its workers were killed and started again.                              *)
THEOREM CompletedExportsUploaded == ServicesAssumption => (ServicesSpec => []CompletedHasObject)
<1> SUFFICES ASSUME ServicesAssumption PROVE ServicesSpec => []CompletedHasObject
  OBVIOUS
<1>1. Exporting!Spec => []ExportInvariant
  BY ExportAlways DEF ServicesAssumption
<1>2. ExportInvariant => CompletedHasObject
  BY DEF ExportInvariant, CompletedHasObject
<1> QED BY <1>1, <1>2, EachComponent, PTL

(* A policy and the labels that stood while a search ran govern its answer, *)
(* whichever of its queries found the hit and whatever was edited meanwhile. *)
THEOREM PoliciesGovern == ServicesAssumption => (ServicesSpec => []StandingPoliciesGovern)
<1> SUFFICES ASSUME ServicesAssumption PROVE ServicesSpec => []StandingPoliciesGovern
  OBVIOUS
<1>1. Search!Spec => []SearchInvariant
  BY SearchAlways DEF ServicesAssumption
<1>2. SearchInvariant => StandingPoliciesGovern
  BY DEF SearchInvariant, Governed, StandingOf, StandingPoliciesGovern,
         Search!StandingPoliciesGovern
<1> QED BY <1>1, <1>2, EachComponent, PTL

=============================================================================
