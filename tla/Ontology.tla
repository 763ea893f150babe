------------------------------- MODULE Ontology -------------------------------
(***************************************************************************)
(* Entity types and relation types: app/domain/ontology.py behind          *)
(* app/api/rest/ontology.py, the proposals of app/domain/auto_ontology.py, *)
(* the system types of app/domain/ontology_seed.py, and the trigger of the *)
(* initial schema that materialises the extends links of a type as a path. *)
(* validate_edge and subtype_ids look at paths only.                       *)
(*                                                                         *)
(* A request is one transaction at READ COMMITTED.  A slug stands for its  *)
(* row: deletion is soft, and (workspace_id, slug) is unique over deleted  *)
(* rows too.  JSON Schemas, names, hints and inverse_of are left out, and  *)
(* so is the audit row of a proposal, committed with what it lists.        *)
(***************************************************************************)
EXTENDS Naturals, Sequences, ReadCommitted

CONSTANTS
  Types, Relations,  \* slugs
  NoType,
  Seeded,            \* the rows there are at the start
  SystemSlugs,       \* what the seed marks as system
  Bodies,            \* what clients send
  NoBody,
  Requests

Slugs == Types \cup Relations

(* extends of a type, domain and range of a relation.                      *)
Item == [slug : Slugs, under : Types \cup {NoType}, range : Types \cup {NoType}]

Body == [kind : {"create", "update", "delete", "apply", "seed"}, items : Seq(Item)]

Row == [under : Types \cup {NoType}, range : Types \cup {NoType},
        path : Seq(Types), deleted : BOOLEAN, system : BOOLEAN]

(* The consecutive labels of a path, child first.                          *)
Steps(path) == {<<path[i + 1], path[i]>> : i \in 1..(Len(path) - 1)}

(* The extends links among rows.                                           *)
Extends(rs) == {<<s, rs[s].under>> : s \in {s \in DOMAIN rs \cap Types : rs[s].under # NoType}}

PathsAlong(rs, steps) == \A s \in DOMAIN rs : Steps(rs[s].path) \subseteq steps

(* A seed names every slug once, and a type it extends is in it too.       *)
SeedClosed(items) ==
  \A k \in 1..Len(items) :
    /\ \A l \in 1..Len(items) : items[k].slug = items[l].slug => k = l
    /\ items[k].under = NoType \/ \E l \in 1..Len(items) : items[k].under = items[l].slug

OntologyAssumption ==
  /\ NoType \notin Types /\ Types \cap Relations = {}
  /\ NoBody \notin Bodies
  /\ \A b \in Bodies : b \in Body /\ b.items # << >>
  /\ \A b \in Bodies : b.kind \notin {"apply", "seed"} => Len(b.items) = 1
  /\ \A b \in Bodies : b.kind = "seed" => SeedClosed(b.items)
  /\ DOMAIN Seeded \subseteq Slugs /\ \A s \in DOMAIN Seeded : Seeded[s] \in Row
  /\ \A s \in DOMAIN Seeded \cap Types :
       Seeded[s].path # << >> /\ Seeded[s].path[Len(Seeded[s].path)] = s
  /\ PathsAlong(Seeded, Extends(Seeded))

VARIABLES
  rows,    \* committed rows of entity_type and relation_type
  links,   \* every extends link a committed row ever had
  pc,      \* the next statement of each request
  body,    \* what it was sent
  todo,    \* the items it has yet to handle
  wanted,  \* the types it has yet to look up for the first of them
  known,   \* the slugs of its snapshot, with those it has added since
  draft    \* the rows it has written and not committed

vars == <<rows, links, pc, body, todo, wanted, known, draft>>

RowsOK(rs) == DOMAIN rs \subseteq Slugs /\ \A s \in DOMAIN rs : rs[s] \in Row

TypeOK ==
  /\ RowsOK(rows)
  /\ links \subseteq Types \X Types
  /\ pc \in [Requests -> {"new", "find", "check", "snapshot", "item", "refs", "write",
                          "done", "failed", "ended"}]
  /\ body \in [Requests -> Bodies \cup {NoBody}]
  /\ todo \in [Requests -> Seq(Item)]
  /\ wanted \in [Requests -> Seq(Types)]
  /\ known \in [Requests -> SUBSET Slugs]
  /\ \A t \in Requests : RowsOK(draft[t])

Init ==
  /\ rows = Seeded
  /\ links = Extends(Seeded)
  /\ pc = [t \in Requests |-> "new"]
  /\ body = [t \in Requests |-> NoBody]
  /\ todo = [t \in Requests |-> << >>]
  /\ wanted = [t \in Requests |-> << >>]
  /\ known = [t \in Requests |-> {}]
  /\ draft = [t \in Requests |-> << >>]

-----------------------------------------------------------------------------

View(t) == Overlay(rows, draft[t])

Live(rs) == {s \in DOMAIN rs : ~rs[s].deleted}

Goto(t, next) == pc' = [pc EXCEPT ![t] = next]

(* Nothing but the request's own place changes.                            *)
Quiet == UNCHANGED <<rows, links, body, draft>>

(* The type references of an item, in the order they are looked up.        *)
References(i) ==
  LET reference(s) == IF s = NoType THEN << >> ELSE <<s>>
  IN reference(i.under) \o reference(i.range)

(* It looks up the references of the item, or has none.                    *)
Seek(t, refs) ==
  /\ wanted' = [wanted EXCEPT ![t] = refs]
  /\ Goto(t, IF refs = << >> THEN "write" ELSE "refs")

(* It is through with the first item.                                      *)
Advance(t) ==
  /\ todo' = [todo EXCEPT ![t] = Tail(@)]
  /\ Goto(t, IF Len(todo[t]) = 1 THEN "done"
             ELSE IF body[t].kind = "seed" THEN "write" ELSE "item")

(* Types before relations, and a type after the one it extends.  A cycle   *)
(* has no order: the recursion does not end.                               *)
Orders(items) ==
  LET n == Len(items)
      relation(i) == i.slug \in Relations
  IN {[k \in 1..n |-> items[p[k]]] :
        p \in {p \in [1..n -> 1..n] :
          /\ \A k, l \in 1..n : p[k] = p[l] => k = l
          /\ \A k, l \in 1..n : k < l /\ relation(items[p[k]]) => relation(items[p[l]]) /\ p[k] < p[l]
          /\ \A k, l \in 1..n :
               ~relation(items[p[k]]) /\ items[p[k]].under = items[p[l]].slug => l < k}}

Receive(t) ==
  \E b \in Bodies :
    /\ pc[t] = "new"
    /\ body' = [body EXCEPT ![t] = b]
    /\ todo' \in {[todo EXCEPT ![t] = items] :
                   items \in IF b.kind = "seed" THEN Orders(b.items) ELSE {b.items}}
    /\ IF b.kind = "create"
         THEN Seek(t, References(b.items[1]))
         ELSE /\ Goto(t, CASE b.kind = "apply" -> "snapshot"
                           [] b.kind = "seed"  -> "write"
                           [] OTHER            -> "find")
              /\ UNCHANGED wanted
    /\ UNCHANGED <<rows, links, known, draft>>

(* PATCH and DELETE look the row up, and their services do so again.       *)
Find(t) ==
  LET slug == todo[t][1].slug
      kind == body[t].kind
  IN /\ pc[t] \in {"find", "check"}
     /\ \/ /\ slug \notin Live(View(t))
           /\ Goto(t, IF kind = "delete" THEN "done" ELSE "failed")
           /\ UNCHANGED wanted
        \/ /\ slug \in Live(View(t))
           /\ pc[t] = "find"
           /\ Goto(t, "check")
           /\ UNCHANGED wanted
        \/ /\ slug \in Live(View(t))
           /\ pc[t] = "check" /\ kind = "update"
           /\ Seek(t, References(todo[t][1]))
        \/ /\ slug \in Live(View(t))
           /\ pc[t] = "check" /\ kind = "delete"
           /\ Goto(t, IF View(t)[slug].system THEN "failed" ELSE "write")
           /\ UNCHANGED wanted
     /\ Quiet /\ UNCHANGED <<todo, known>>

(* apply_proposal: what there is, and in which order to go on.             *)
Snapshot(t) ==
  /\ pc[t] = "snapshot"
  /\ known' = [known EXCEPT ![t] = Live(View(t))]
  /\ \/ \E order \in Orders(todo[t]) : todo' = [todo EXCEPT ![t] = order] /\ Goto(t, "item")
     \/ Orders(todo[t]) = {} /\ Goto(t, "failed") /\ UNCHANGED todo
  /\ Quiet /\ UNCHANGED wanted

(* An item of a proposal is skipped when its slug is known.                *)
Consider(t) ==
  /\ pc[t] = "item"
  /\ IF todo[t][1].slug \in known[t]
       THEN Advance(t) /\ UNCHANGED wanted
       ELSE Seek(t, References(todo[t][1])) /\ UNCHANGED todo
  /\ Quiet /\ UNCHANGED known

(* A reference is looked up; one to no live type is an OntologyError,      *)
(* which a proposal answers by skipping the item.                          *)
LookUp(t) ==
  /\ pc[t] = "refs"
  /\ \/ /\ wanted[t][1] \in Live(View(t))
        /\ Seek(t, Tail(wanted[t]))
        /\ UNCHANGED todo
     \/ /\ wanted[t][1] \notin Live(View(t))
        /\ IF body[t].kind = "apply" THEN Advance(t) ELSE Goto(t, "failed") /\ UNCHANGED todo
        /\ UNCHANGED wanted
  /\ Quiet /\ UNCHANGED known

-----------------------------------------------------------------------------
(* Statements that write *)

(* entity_type_set_hierarchy: the path of the parent, deleted or not, as   *)
(* it is now, and the slug.                                                *)
Hierarchy(rs, slug, under) ==
  IF slug \in Relations THEN << >>
  ELSE IF under = NoType THEN <<slug>> ELSE Append(rs[under].path, slug)

Holds(u, slug) == slug \in DOMAIN draft[u]

(* Another request has written the row, or the unique key, and not ended.  *)
Waits(t) == pc[t] = "write" /\ \E u \in Requests \ {t} : Holds(u, todo[t][1].slug)

Put(t, slug, row) == draft' = [draft EXCEPT ![t] = Overlay(@, [s \in {slug} |-> row])]

(* create_entity_type, create_relation_type.  A row with the slug, even a  *)
(* deleted one, breaks the unique key and with it the whole transaction:   *)
(* the handler of a proposal skips the item, and every statement after     *)
(* that fails.                                                             *)
Insert(t) ==
  LET i == todo[t][1]
  IN /\ pc[t] = "write" /\ body[t].kind \in {"create", "apply"} /\ ~Waits(t)
     /\ \/ /\ i.slug \in DOMAIN View(t)
           /\ Goto(t, "failed") /\ UNCHANGED <<draft, todo, known>>
        \/ /\ i.slug \notin DOMAIN View(t)
           /\ Put(t, i.slug, [under |-> i.under, range |-> i.range,
                              path |-> Hierarchy(View(t), i.slug, i.under),
                              deleted |-> FALSE, system |-> FALSE])
           /\ known' = [known EXCEPT ![t] = @ \cup {i.slug}]
           /\ Advance(t)
     /\ UNCHANGED <<rows, links, body, wanted>>

(* A reference the client leaves out keeps its value; the trigger fires    *)
(* for an extends that is sent, for this row alone.                        *)
Patched(rs, i) ==
  LET row == rs[i.slug]
  IN IF i.slug \in Types /\ i.under # NoType
       THEN [row EXCEPT !.under = i.under, !.path = Hierarchy(rs, i.slug, i.under)]
       ELSE [row EXCEPT !.under = IF i.under = NoType THEN @ ELSE i.under,
                        !.range = IF i.range = NoType THEN @ ELSE i.range]

(* update_entity_type, update_relation_type.  The row is read again: when  *)
(* another request has deleted it meanwhile, the assertion fails.          *)
Update(t) ==
  LET i == todo[t][1]
      row == View(t)[i.slug]
  IN /\ pc[t] = "write" /\ body[t].kind = "update" /\ ~Waits(t)
     /\ Put(t, i.slug, Patched(View(t), i))
     /\ IF row.deleted THEN Goto(t, "failed") /\ UNCHANGED todo ELSE Advance(t)
     /\ UNCHANGED <<rows, links, body, wanted, known>>

(* _upsert_type, _upsert_relation: the references are the seed's own, and  *)
(* a row that was deleted stays so.                                        *)
Upsert(t) ==
  LET i == todo[t][1]
      rs == View(t)
  IN /\ pc[t] = "write" /\ body[t].kind = "seed" /\ ~Waits(t)
     /\ Put(t, i.slug, [under |-> i.under, range |-> i.range,
                        path |-> Hierarchy(rs, i.slug, i.under),
                        deleted |-> i.slug \in DOMAIN rs /\ rs[i.slug].deleted,
                        system |-> i.slug \in SystemSlugs])
     /\ Advance(t)
     /\ UNCHANGED <<rows, links, body, wanted, known>>

(* delete_entity_type, delete_relation_type. *)
Delete(t) ==
  LET slug == todo[t][1].slug
  IN /\ pc[t] = "write" /\ body[t].kind = "delete" /\ ~Waits(t)
     /\ Put(t, slug, [View(t)[slug] EXCEPT !.deleted = TRUE])
     /\ Advance(t)
     /\ UNCHANGED <<rows, links, body, wanted, known>>

-----------------------------------------------------------------------------

Close(t) ==
  /\ Goto(t, "ended")
  /\ draft' = [draft EXCEPT ![t] = << >>]
  /\ UNCHANGED <<body, todo, wanted, known>>

Commit(t) ==
  /\ pc[t] = "done"
  /\ rows' = View(t)
  /\ links' = links \cup Extends(draft[t])
  /\ Close(t)

\* Fault: an error is answered, and the session commits all the same.
Rollback_Commits(t) == pc[t] = "failed" /\ Close(t) /\ rows' = View(t) /\ UNCHANGED links

Rollback(t) == pc[t] = "failed" /\ Close(t) /\ UNCHANGED <<rows, links>>

Crash(t) == pc[t] \notin {"new", "ended"} /\ Close(t) /\ UNCHANGED <<rows, links>>

\* Fault: nobody notices that transactions wait for one another.
Deadlocked_Never(t) == FALSE

(* Transactions that wait for one another in a circle.                     *)
Deadlocked(t) ==
  \E S \in SUBSET Requests :
    /\ t \in S
    /\ \A u \in S : pc[u] = "write" /\ \E v \in S \ {u} : Holds(v, todo[u][1].slug)

(* PostgreSQL fails a statement of one of them.                            *)
DeadlockVictim(t) ==
  /\ Deadlocked(t)
  /\ Goto(t, "failed")
  /\ Quiet /\ UNCHANGED <<todo, wanted, known>>

Statement(t) ==
  \/ Find(t) \/ Snapshot(t) \/ Consider(t) \/ LookUp(t) \/ Insert(t) \/ Update(t) \/ Upsert(t)
  \/ Delete(t) \/ Commit(t) \/ Rollback(t) \/ DeadlockVictim(t)

Next == \E t \in Requests : Receive(t) \/ Statement(t) \/ Crash(t)

Spec == Init /\ [][Next]_vars

(* A coroutine goes on while the loop runs, and a lock that is released is *)
(* granted.                                                                *)
Fairness == \A t \in Requests : WF_vars(Statement(t))

FairSpec == Spec /\ Fairness

-----------------------------------------------------------------------------
(* Properties *)

(* Whatever proposals, retypings and deletions are interleaved, a type is  *)
(* a descendant of another, to validate_edge and subtype_ids, only along   *)
(* extends links that were committed at some time: a path never holds the  *)
(* link of a request that rolled back.                                     *)
PathLinksReal == PathsAlong(rows, links)

(* Every request on the ontology ends: two proposals that add the same     *)
(* slugs in opposite orders do not wait for one another for ever.          *)
RequestsEnd == \A t \in Requests : pc[t] # "new" ~> pc[t] = "ended"

(* validate_edge accepts a subtype wherever its parent is accepted, so the *)
(* path of a type begins with the path of the type it extends.             *)
Prefix(p, q) == Len(p) <= Len(q) /\ SubSeq(q, 1, Len(p)) = p

SubtypesFollowExtends ==
  \A s \in Live(rows) \cap Types :
    rows[s].under # NoType => Prefix(rows[rows[s].under].path, rows[s].path)

=============================================================================
