-------------------------------- MODULE Access --------------------------------
(***************************************************************************)
(* Who may do what in one workspace: app/domain/members.py behind          *)
(* app/api/rest/members.py, app/domain/agent_token.py behind               *)
(* app/api/rest/agent_tokens.py, the checks of app/auth/deps.py, and the   *)
(* deletion of an account in app/api/rest/me.py.                           *)
(*                                                                         *)
(* Every check before a handler is a transaction of its own, and so is the *)
(* handler.  Statements run at READ COMMITTED: a row lock is waited for,   *)
(* and the WHERE clause is evaluated again when it is granted.  Scopes and *)
(* kinds of tokens, e-mail addresses and names are left out.               *)
(***************************************************************************)
EXTENDS Naturals, FiniteSets, ReadCommitted

CONSTANTS
  Users,
  NoUser,
  Founder,    \* who created the workspace
  Guests,     \* members besides the founder, at the start
  Invites, Tokens,
  NoToken,
  Sent,       \* the invites there are at the start,
  Minted,     \* and the tokens
  Bodies,     \* what clients send
  NoBody,
  Requests

Roles == {"owner", "admin", "editor", "viewer"}
Managers == {"owner", "admin"}

(* A request of a user's session, or of an agent token.  target is the     *)
(* user, invite or token it is about.                                      *)
Body == [op : {"set_role", "remove", "invite", "uninvite", "accept",
               "mint", "revoke", "rotate", "delete_me"},
         who : Users \cup Tokens,
         target : Users \cup Invites \cup Tokens \cup {NoUser},
         role : Roles]

Managing == {"set_role", "remove", "invite", "uninvite"}

Invite == [by : Users, role : Roles \ {"owner"}, accepted : Users \cup {NoUser},
           revoked : BOOLEAN, expired : BOOLEAN]

Token == [user : Users, revoked : BOOLEAN, from : Tokens \cup {NoToken}]

(* A table with one row.                                                   *)
Row(key, value) == [k \in {key} |-> value]

AccessAssumption ==
  /\ NoUser \notin Users /\ NoToken \notin Tokens /\ NoBody \notin Bodies
  /\ Founder \in Users /\ DOMAIN Guests \subseteq Users \ {Founder}
  /\ \A u \in DOMAIN Guests : Guests[u] \in Roles
  /\ \A b \in Bodies : b \in Body /\ (b.op = "invite" => b.role # "owner")
  /\ DOMAIN Sent \subseteq Invites
  /\ \A i \in DOMAIN Sent : Sent[i] \in Invite /\ Sent[i].accepted = NoUser
  /\ DOMAIN Minted \subseteq Tokens /\ \A k \in DOMAIN Minted : Minted[k] \in Token

VARIABLES
  users,    \* accounts
  role,     \* workspace_member: the role of each member
  invites,  \* workspace_invite
  tokens,   \* agent_token
  joins,    \* history: which user each invite was accepted by
  pc, body,
  joining   \* the member row a request has inserted and not committed

vars == <<users, role, invites, tokens, joins, pc, body, joining>>

TypeOK ==
  /\ users \subseteq Users
  /\ DOMAIN role \subseteq Users /\ \A u \in DOMAIN role : role[u] \in Roles
  /\ DOMAIN invites \subseteq Invites /\ \A i \in DOMAIN invites : invites[i] \in Invite
  /\ DOMAIN tokens \subseteq Tokens /\ \A k \in DOMAIN tokens : tokens[k] \in Token
  /\ joins \subseteq Invites \X Users
  /\ pc \in [Requests -> {"new", "member", "manager", "verify", "act", "held", "insert",
                          "mark", "replace", "mint", "done", "failed", "refused"}]
  /\ body \in [Requests -> Bodies \cup {NoBody}]
  /\ joining \in [Requests -> {<< >>} \cup {Row(u, r) : u \in Users, r \in Roles}]

Init ==
  /\ users = Users
  /\ role = Overlay(Guests, Row(Founder, "owner"))
  /\ invites = Sent /\ tokens = Minted /\ joins = {}
  /\ pc = [t \in Requests |-> "new"]
  /\ body = [t \in Requests |-> NoBody]
  /\ joining = [t \in Requests |-> << >>]

-----------------------------------------------------------------------------

Goto(t, next) == pc' = [pc EXCEPT ![t] = next]

Rows == <<users, role, invites, tokens, joins>>

Without(f, gone) == [x \in DOMAIN f \ gone |-> f[x]]

\* Fault: the session of a request is not closed, its locks stay.
InviteHeld_Leaks(i) ==
  \E t \in Requests : pc[t] \in {"held", "insert", "mark", "done"} /\ body[t].target = i

(* Requests that hold the row of an invite, of a token, or a share of the  *)
(* row of a user through a foreign key, until they commit.                 *)
InviteHeld(i) ==
  \E t \in Requests : pc[t] \in {"held", "insert", "mark"} /\ body[t].target = i

TokenHeld(k) == \E t \in Requests : pc[t] = "mint" /\ body[t].target = k

UserHeld(u) == \E t \in Requests : u \in DOMAIN joining[t]

-----------------------------------------------------------------------------

(* Accepting an invite and deleting one's account need no workspace.       *)
Arrive(t) ==
  \E b \in Bodies :
    /\ pc[t] = "new"
    /\ body' = [body EXCEPT ![t] = b]
    /\ Goto(t, IF b.who \in Tokens THEN "verify"
               ELSE IF b.op \in {"accept", "delete_me"} THEN "act" ELSE "member")
    /\ UNCHANGED <<Rows, joining>>

(* Agent tokens revoke agent tokens; every other route here refuses them.  *)
VerifyToken(t) ==
  LET k == body[t].who
  IN /\ pc[t] = "verify"
     /\ Goto(t, IF body[t].op = "revoke" /\ k \in DOMAIN tokens /\ ~tokens[k].revoked
                  THEN "act" ELSE "failed")
     /\ UNCHANGED <<Rows, body, joining>>

IsMember(t) ==
  /\ pc[t] = "member"
  /\ Goto(t, IF body[t].who \notin DOMAIN role THEN "failed"
             ELSE IF body[t].op \in Managing THEN "manager" ELSE "act")
  /\ UNCHANGED <<Rows, body, joining>>

RequireRole(t) ==
  LET u == body[t].who
  IN /\ pc[t] = "manager"
     /\ Goto(t, IF u \in DOMAIN role /\ role[u] \in Managers THEN "act" ELSE "failed")
     /\ UNCHANGED <<Rows, body, joining>>

-----------------------------------------------------------------------------

Acts(t, op) == pc[t] = "act" /\ body[t].op = op /\ UNCHANGED <<body, joining>>

UpdateMemberRole(t) ==
  LET u == body[t].target
  IN /\ Acts(t, "set_role")
     /\ role' = [v \in DOMAIN role |-> IF v = u THEN body[t].role ELSE role[v]]
     /\ Goto(t, IF u \in DOMAIN role THEN "done" ELSE "failed")
     /\ UNCHANGED <<users, invites, tokens, joins>>

RemoveMember(t) ==
  LET u == body[t].target
  IN /\ Acts(t, "remove")
     /\ role' = Without(role, {u})
     /\ Goto(t, IF u \in DOMAIN role THEN "done" ELSE "failed")
     /\ UNCHANGED <<users, invites, tokens, joins>>

CreateInvite(t) ==
  LET by == body[t].who
  IN /\ Acts(t, "invite")
     /\ \/ /\ by \in users
           /\ \E i \in Invites :
                /\ i \notin DOMAIN invites /\ \A u \in Users : <<i, u>> \notin joins
                /\ invites' = Overlay(invites,
                     Row(i, [by |-> by, role |-> body[t].role, accepted |-> NoUser,
                             revoked |-> FALSE, expired |-> FALSE]))
           /\ Goto(t, "done")
        \/ by \notin users /\ Goto(t, "refused") /\ UNCHANGED invites
     /\ UNCHANGED <<users, role, tokens, joins>>

Open(i) == i \in DOMAIN invites /\ invites[i].accepted = NoUser /\ ~invites[i].revoked

(* Waits for an acceptance that holds the row.                             *)
RevokeInvite(t) ==
  LET i == body[t].target
  IN /\ Acts(t, "uninvite")
     /\ ~InviteHeld(i)
     /\ IF Open(i) THEN invites' = [invites EXCEPT ![i].revoked = TRUE] ELSE UNCHANGED invites
     /\ Goto(t, IF Open(i) THEN "done" ELSE "failed")
     /\ UNCHANGED <<users, role, tokens, joins>>

\* Fault: the invite is read without FOR UPDATE.
LockInvite_Unlocked(t) ==
  LET i == body[t].target
  IN /\ Acts(t, "accept")
     /\ Goto(t, IF Open(i) /\ ~invites[i].expired THEN "held" ELSE "failed")
     /\ UNCHANGED Rows

(* SELECT ... FOR UPDATE.                                                  *)
LockInvite(t) ==
  LET i == body[t].target
  IN /\ Acts(t, "accept")
     /\ ~InviteHeld(i)
     /\ Goto(t, IF Open(i) /\ ~invites[i].expired THEN "held" ELSE "failed")
     /\ UNCHANGED Rows

ReadMembership(t) ==
  /\ pc[t] = "held"
  /\ Goto(t, IF body[t].who \in DOMAIN role THEN "mark" ELSE "insert")
  /\ UNCHANGED <<Rows, body, joining>>

(* ON CONFLICT DO NOTHING: waits for the same row of another transaction.  *)
InsertMember(t) ==
  LET u == body[t].who
  IN /\ pc[t] = "insert"
     /\ ~UserHeld(u)
     /\ Goto(t, IF u \in users THEN "mark" ELSE "refused")
     /\ joining' = [joining EXCEPT ![t] = IF u \in users \ DOMAIN role
                                            THEN Row(u, invites[body[t].target].role) ELSE @]
     /\ UNCHANGED <<Rows, body>>

(* The UPDATE of the invite and COMMIT.                                    *)
MarkAccepted(t) ==
  LET i == body[t].target
      u == body[t].who
  IN /\ pc[t] = "mark"
     /\ IF u \in users
          THEN /\ invites' = [invites EXCEPT ![i].accepted = u]
               /\ role' = Overlay(role, joining[t])
               /\ joins' = joins \cup {<<i, u>>}
               /\ Goto(t, "done")
          ELSE Goto(t, "refused") /\ UNCHANGED <<invites, role, joins>>
     /\ joining' = [joining EXCEPT ![t] = << >>]
     /\ UNCHANGED <<users, tokens, body>>

(* now() is the start of a transaction: a waiting acceptance ages no more. *)
InviteExpires(i) ==
  /\ i \in DOMAIN invites /\ ~invites[i].expired
  /\ \A t \in Requests : pc[t] = "act" => body[t].target # i
  /\ invites' = [invites EXCEPT ![i].expired = TRUE]
  /\ UNCHANGED <<users, role, tokens, joins, pc, body, joining>>

-----------------------------------------------------------------------------

CreateToken(user, from, revoked) ==
  \E k \in Tokens \ DOMAIN revoked :
    tokens' = Overlay(revoked, Row(k, [user |-> user, revoked |-> FALSE, from |-> from]))

Mint(t) ==
  LET u == body[t].who
  IN /\ Acts(t, "mint")
     /\ \/ u \in users /\ CreateToken(u, NoToken, tokens) /\ Goto(t, "done")
        \/ u \notin users /\ Goto(t, "refused") /\ UNCHANGED tokens
     /\ UNCHANGED <<users, role, invites, joins>>

Valid(k) == k \in DOMAIN tokens /\ ~tokens[k].revoked

RevokeToken(t) ==
  LET k == body[t].target
  IN /\ Acts(t, "revoke")
     /\ ~TokenHeld(k)
     /\ IF Valid(k) THEN tokens' = [tokens EXCEPT ![k].revoked = TRUE] ELSE UNCHANGED tokens
     /\ Goto(t, IF Valid(k) THEN "done" ELSE "failed")
     /\ UNCHANGED <<users, role, invites, joins>>

RotateRead(t) ==
  /\ Acts(t, "rotate")
  /\ Goto(t, IF Valid(body[t].target) THEN "replace" ELSE "failed")
  /\ UNCHANGED Rows

(* The UPDATE by id takes the row, revoked or not.                         *)
RotateRevoke(t) ==
  /\ pc[t] = "replace"
  /\ ~TokenHeld(body[t].target)
  /\ Goto(t, "mint")
  /\ UNCHANGED <<Rows, body, joining>>

(* INSERT of the successor, and COMMIT.                                    *)
RotateMint(t) ==
  LET k == body[t].target
  IN /\ pc[t] = "mint"
     /\ \/ /\ k \in DOMAIN tokens
           /\ CreateToken(tokens[k].user, k, [tokens EXCEPT ![k].revoked = TRUE])
           /\ Goto(t, "done")
        \/ k \notin DOMAIN tokens /\ Goto(t, "refused") /\ UNCHANGED tokens
     /\ UNCHANGED <<users, role, invites, joins, body, joining>>

-----------------------------------------------------------------------------

\* Fault: the foreign keys of agent_token and workspace_invite do not cascade.
Cascade_MembersOnly(u) ==
  /\ users' = users \ {u}
  /\ role' = Without(role, {u})
  /\ UNCHANGED <<tokens, invites>>

(* What goes with the row of a user.                                       *)
Cascade(u) ==
  /\ users' = users \ {u}
  /\ role' = Without(role, {u})
  /\ tokens' = Without(tokens, {k \in DOMAIN tokens : tokens[k].user = u})
  /\ invites' = Without(invites, {i \in DOMAIN invites : invites[i].by = u})

(* accepted_by refers to a user without ON DELETE.                         *)
Pinned(u) == \E i \in DOMAIN invites : invites[i].accepted = u /\ invites[i].by # u

DeleteMe(t) ==
  LET u == body[t].who
  IN /\ Acts(t, "delete_me")
     /\ ~UserHeld(u)
     /\ \A i \in DOMAIN invites : invites[i].by = u => ~InviteHeld(i)
     /\ \A k \in DOMAIN tokens : tokens[k].user = u => ~TokenHeld(k)
     /\ \/ ~Pinned(u) /\ Cascade(u) /\ Goto(t, "done")
        \/ Pinned(u) /\ Goto(t, "refused") /\ UNCHANGED <<users, role, tokens, invites>>
     /\ UNCHANGED joins

(* The process dies, or the database ends a deadlock: nothing is kept.     *)
Abort(t) ==
  /\ pc[t] \notin {"new", "done", "failed", "refused"}
  /\ Goto(t, "failed")
  /\ joining' = [joining EXCEPT ![t] = << >>]
  /\ UNCHANGED <<Rows, body>>

Step(t) ==
  \/ VerifyToken(t) \/ IsMember(t) \/ RequireRole(t)
  \/ UpdateMemberRole(t) \/ RemoveMember(t)
  \/ CreateInvite(t) \/ RevokeInvite(t)
  \/ LockInvite(t) \/ ReadMembership(t) \/ InsertMember(t) \/ MarkAccepted(t)
  \/ Mint(t) \/ RevokeToken(t) \/ RotateRead(t) \/ RotateRevoke(t) \/ RotateMint(t)
  \/ DeleteMe(t)

Next ==
  \/ \E t \in Requests : Arrive(t) \/ Step(t) \/ Abort(t)
  \/ \E i \in Invites : InviteExpires(i)

Spec == Init /\ [][Next]_vars

(* The event loop runs every request; the network brings none for certain. *)
Fairness == \A t \in Requests : WF_vars(Step(t))

FairSpec == Spec /\ Fairness

-----------------------------------------------------------------------------

(* An invite ends accepted or revoked, never both, however acceptances and *)
(* revocations of one link overlap; it lets one user in, the one its row   *)
(* names.                                                                  *)
InviteSettledOnce ==
  \A i \in DOMAIN invites :
    LET by == {u \in Users : <<i, u>> \in joins}
    IN IF invites[i].accepted = NoUser THEN by = {}
       ELSE by = {invites[i].accepted} /\ ~invites[i].revoked

(* A deleted account leaves no membership, no token that authenticates as  *)
(* it and no invite in its name, though requests of that account are under *)
(* way while it goes.                                                      *)
NothingOutlivesAccount ==
  /\ DOMAIN role \subseteq users
  /\ \A k \in DOMAIN tokens : tokens[k].user \in users
  /\ \A i \in DOMAIN invites :
       invites[i].by \in users /\ invites[i].accepted \in users \cup {NoUser}

(* "Returns the new token ... or None if the input token was already       *)
(* revoked" (rotate_token): two rotations of one exposed token leave one   *)
(* successor, not two.                                                     *)
RotatedOnce ==
  \A k \in Tokens : Cardinality({s \in DOMAIN tokens : Valid(s) /\ tokens[s].from = k}) <= 1

(* "NULL out author references on records we keep ... so a bare DELETE     *)
(* would fail" (delete_me): no foreign key refuses the deletion of an      *)
(* account.                                                                *)
AccountsCanGo ==
  \A t \in Requests : pc[t] = "refused" => body[t].op # "delete_me"

(* No request waits for ever on the row of an invite, a token or a member  *)
(* that another one holds.                                                 *)
RequestsEnd ==
  \A t \in Requests : pc[t] # "new" ~> pc[t] \in {"done", "failed", "refused"}
=============================================================================
