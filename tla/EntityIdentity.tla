---------------------------- MODULE EntityIdentity ----------------------------
(***************************************************************************)
(* Which entity a reference names: app/domain/entity.py and the resolver   *)
(* cascade of app/domain/entity_resolver.py.  Merges mark the loser with   *)
(* merged_into_id and move its live edges, deletions are soft, ingestion   *)
(* matches extracted entities to stored ones by external identifier, by    *)
(* name and by similarity, or creates them.  Every reader follows the      *)
(* merge pointers, one query per pointer.                                  *)
(*                                                                         *)
(* A request is one transaction at READ COMMITTED.  Edges are the live     *)
(* ones, of one predicate; how facts close one another is EdgeStore's.     *)
(***************************************************************************)
EXTENDS Naturals, Sequences, FiniteSets, ReadCommitted

CONSTANTS
  Entities,      \* entity ids
  NoEntity,
  Names,         \* canonical names
  Stored,        \* the entities there are at the start, with their names
  Identifiers,   \* values of external references
  NoIdentifier,
  Edges,         \* edge ids
  Requests,
  Calls,         \* what clients and extraction jobs ask for
  NoCall,
  MaxOpen        \* bound: requests of each kind in progress at once

Kinds == {"merge", "delete", "fact", "ingest"}

(* A call with the references it resolves, by id or by name; ingestion     *)
(* brings the name and the identifier of an extracted entity instead.      *)
Call == [kind : Kinds, refs : Seq(Entities \cup Names),
         name : Names, value : Identifiers \cup {NoIdentifier}]

(* How many references it has. *)
Arity == [merge |-> 2, delete |-> 1, fact |-> 2, ingest |-> 0]

Entity == [name : Names, merged : Entities \cup {NoEntity}, deleted : BOOLEAN]

ASSUME EntityAssumption ==
  /\ NoEntity \notin Entities /\ Entities \cap Names = {}
  /\ NoIdentifier \notin Identifiers
  /\ DOMAIN Stored \subseteq Entities
  /\ \A e \in DOMAIN Stored : Stored[e] \in Names
  /\ Calls \subseteq Call /\ NoCall \notin Calls
  /\ \A c \in Calls : Len(c.refs) = Arity[c.kind]
  /\ MaxOpen \in [Kinds -> Nat]

VARIABLES
  db,       \* what is committed: entities, edges, external references, merges
            \* in the audit log, and which entity each ingestion came to
  pc,       \* the next statement of each request
  call,     \* the call it serves
  wanted,   \* the references it has yet to resolve
  found,    \* the entities, or NoEntity, that the others resolved to
  writes    \* what it has written and not committed

vars == <<db, pc, call, wanted, found, writes>>

Nothing == [entities |-> << >>, edges |-> << >>, refs |-> << >>, audit |-> {}, linked |-> {}]

IsStore(s) ==
  /\ DOMAIN s = DOMAIN Nothing
  /\ DOMAIN s.entities \subseteq Entities
  /\ \A e \in DOMAIN s.entities : s.entities[e] \in Entity
  /\ DOMAIN s.edges \subseteq Edges
  /\ \A f \in DOMAIN s.edges : s.edges[f] \in [subject : Entities, object : Entities]
  /\ DOMAIN s.refs \subseteq Identifiers
  /\ \A v \in DOMAIN s.refs : s.refs[v] \in Entities
  /\ s.audit \subseteq Entities \X Entities
  /\ s.linked \subseteq Identifiers \X Entities

TypeOK ==
  /\ IsStore(db)
  /\ pc \in [Requests -> {"new", "identifier", "name", "similar", "get", "subjects", "objects",
                          "mark", "check", "delete", "fact", "link", "create",
                          "done", "failed", "ended"}]
  /\ call \in [Requests -> Calls \cup {NoCall}]
  /\ wanted \in [Requests -> Seq(Entities \cup Names)]
  /\ found \in [Requests -> Seq(Entities \cup {NoEntity})]
  /\ \A t \in Requests : IsStore(writes[t])

-----------------------------------------------------------------------------

View(t) ==
  [entities |-> Overlay(db.entities, writes[t].entities),
   edges    |-> Overlay(db.edges, writes[t].edges),
   refs     |-> Overlay(db.refs, writes[t].refs),
   audit    |-> db.audit \cup writes[t].audit,
   linked   |-> db.linked \cup writes[t].linked]

(* No other request has written entity e, edge f or identifier v without   *)
(* committing: an UPDATE waits for the row, an upsert for the unique key.  *)
EntityFree(t, e) == \A u \in Requests \ {t} : e \notin DOMAIN writes[u].entities

EdgeFree(t, f) == \A u \in Requests \ {t} : f \notin DOMAIN writes[u].edges

RefFree(t, v) == \A u \in Requests \ {t} : v \notin DOMAIN writes[u].refs

(* A generated id is no row's.                                             *)
Fresh(ids, table) ==
  ids \ (DOMAIN db[table] \cup UNION {DOMAIN writes[u][table] : u \in Requests})

Goto(t, next) == pc' = [pc EXCEPT ![t] = next]

Write(t, table, rows) == writes' = [writes EXCEPT ![t][table] = Overlay(@, rows)]

Open(t) == pc[t] \notin {"new", "ended"}

Receive(t) ==
  \E c \in Calls :
    /\ pc[t] = "new"
    /\ Cardinality({u \in Requests : Open(u) /\ call[u].kind = c.kind}) < MaxOpen[c.kind]
    /\ call' = [call EXCEPT ![t] = c]
    /\ wanted' = [wanted EXCEPT ![t] = c.refs]
    /\ Goto(t, IF c.kind = "ingest" THEN "identifier" ELSE "get")
    /\ UNCHANGED <<db, found, writes>>

-----------------------------------------------------------------------------
(* The resolver cascade *)

(* It settles on entity e, which is then looked up like any reference.     *)
Match(t, e) ==
  /\ wanted' = [wanted EXCEPT ![t] = <<e>>]
  /\ Goto(t, "get")
  /\ UNCHANGED <<db, call, found, writes>>

Pass(t, next) == Goto(t, next) /\ UNCHANGED <<db, call, wanted, found, writes>>

Survivors(view) ==
  {e \in DOMAIN view.entities : view.entities[e].merged = NoEntity /\ ~view.entities[e].deleted}

\* Fault: the external reference of a merged entity is left out.
Referenced_Survivors(view, v) == {e \in Survivors(view) : v \in DOMAIN view.refs /\ view.refs[v] = e}

(* The entity the external reference names, even merged or deleted.        *)
Referenced(view, v) == IF v \in DOMAIN view.refs THEN {view.refs[v]} ELSE {}

ByIdentifier(t) ==
  LET hits == Referenced(View(t), call[t].value)
  IN /\ pc[t] = "identifier"
     /\ \/ hits = {} /\ Pass(t, "name")
        \/ \E e \in hits : Match(t, e)

ByName(t) ==
  LET view == View(t)
      hits == {e \in Survivors(view) : view.entities[e].name = call[t].name}
  IN /\ pc[t] = "name"
     /\ \/ hits = {} /\ Pass(t, "similar")
        \/ \E e \in hits : Match(t, e)

(* Trigrams, or the model's judgement, find some entity close enough or    *)
(* uncertain, which is linked as well, or none.                            *)
BySimilarity(t) ==
  /\ pc[t] = "similar"
  /\ \/ Pass(t, "create")
     \/ \E e \in Survivors(View(t)) : Match(t, e)

-----------------------------------------------------------------------------
(* entity.get *)

\* Fault: the match is linked although get found nothing.
AfterMatch_Unchecked(e) == "link"

AfterMatch(e) == IF e = NoEntity THEN "create" ELSE "link"

(* What the request does when its references are resolved to ids.          *)
Resolved(kind, ids) ==
  LET missing == NoEntity \in {ids[i] : i \in DOMAIN ids}
  IN CASE kind = "merge"  -> IF missing \/ ids[1] = ids[2] THEN "failed" ELSE "subjects"
       [] kind = "delete" -> IF missing THEN "done" ELSE "delete"
       [] kind = "fact"   -> IF missing THEN "done" ELSE "fact"
       [] kind = "ingest" -> AfterMatch(ids[1])

\* Fault: an entity that has been merged is returned itself.
Pointer_Ignored(view, e) == NoEntity

Pointer(view, e) == view.entities[e].merged

Hits(view, ref) ==
  {e \in DOMAIN view.entities : /\ ref = e \/ ref = view.entities[e].name
                                /\ ~view.entities[e].deleted}

(* One query of get: the reference names nothing, or an entity whose merge *)
(* pointer is looked up next, or the answer.  A merge ends with a get of   *)
(* the survivor ("check") and fails when there is none.                    *)
Get(t) ==
  LET view    == View(t)
      hits    == Hits(view, Head(wanted[t]))
      Answer(e) ==
        LET ids == Append(found[t], e)
        IN /\ found' = [found EXCEPT ![t] = ids]
           /\ wanted' = [wanted EXCEPT ![t] = Tail(@)]
           /\ Goto(t, CASE Len(wanted[t]) > 1 -> pc[t]
                        [] pc[t] = "check"    -> IF e = NoEntity THEN "failed" ELSE "done"
                        [] OTHER              -> Resolved(call[t].kind, ids))
  IN /\ pc[t] \in {"get", "check"}
     /\ \/ hits = {} /\ Answer(NoEntity)
        \/ \E e \in hits :
             IF Pointer(view, e) = NoEntity
               THEN Answer(e)
               ELSE /\ wanted' = [wanted EXCEPT ![t] = <<Pointer(view, e)>> \o Tail(@)]
                    /\ UNCHANGED <<pc, found>>
     /\ UNCHANGED <<db, call, writes>>

-----------------------------------------------------------------------------
(* merge_cluster, for the pair a client may merge *)

Survivor(t) == found[t][1]

Loser(t) == found[t][2]

(* UPDATE edge SET end = survivor WHERE end = loser.  It fails when a      *)
(* moved edge meets one of the survivor's with the same valid_from, a time *)
(* the model does not keep.                                                *)
Move(t, end, next) ==
  LET view  == View(t)
      moved == {f \in DOMAIN view.edges : view.edges[f][end] = Loser(t)}
      rows  == [f \in moved |-> [view.edges[f] EXCEPT ![end] = Survivor(t)]]
  IN /\ \A f \in moved : EdgeFree(t, f)
     /\ \/ Write(t, "edges", rows) /\ Goto(t, next)
        \/ /\ \E f \in moved, g \in DOMAIN view.edges : g # f /\ Overlay(view.edges, rows)[g] = rows[f]
           /\ Goto(t, "failed") /\ UNCHANGED writes
     /\ UNCHANGED <<db, call, wanted, found>>

MoveSubjects(t) == pc[t] = "subjects" /\ Move(t, "subject", "objects")

MoveObjects(t) == pc[t] = "objects" /\ Move(t, "object", "mark")

\* Fault: the row is written back as it was when it was read.
MarkedAs_Stale(row, e) == [row EXCEPT !.merged = e, !.deleted = FALSE]

\* Fault: a deleted entity is not marked, as other queries leave it out.
MarkedAs_LiveOnly(row, e) ==
  IF row.merged = NoEntity /\ ~row.deleted THEN [row EXCEPT !.merged = e] ELSE row

MarkedAs(row, e) == IF row.merged = NoEntity THEN [row EXCEPT !.merged = e] ELSE row

(* The loser is marked unless somebody has, and the merge is audited.      *)
MarkMerged(t) ==
  LET l == Loser(t)
  IN /\ pc[t] = "mark"
     /\ EntityFree(t, l)
     /\ writes' = [writes EXCEPT
          ![t].entities = Overlay(@, [e \in {l} |-> MarkedAs(View(t).entities[l], Survivor(t))]),
          ![t].audit    = @ \cup {<<Survivor(t), l>>}]
     /\ wanted' = [wanted EXCEPT ![t] = <<Survivor(t)>>]
     /\ Goto(t, "check")
     /\ UNCHANGED <<db, call, found>>

-----------------------------------------------------------------------------
(* The other requests *)

SoftDelete(t) ==
  LET e == found[t][1]
  IN /\ pc[t] = "delete"
     /\ EntityFree(t, e)
     /\ Write(t, "entities", [x \in {e} |-> [View(t).entities[e] EXCEPT !.deleted = TRUE]])
     /\ Goto(t, "done")
     /\ UNCHANGED <<db, call, wanted, found>>

(* add_fact between the two entities, unless they are related already.     *)
AddFact(t) ==
  LET fact == [subject |-> found[t][1], object |-> found[t][2]]
  IN /\ pc[t] = "fact"
     /\ \/ /\ fact \in {View(t).edges[f] : f \in DOMAIN View(t).edges}
           /\ UNCHANGED writes
        \/ /\ fact \notin {View(t).edges[f] : f \in DOMAIN View(t).edges}
           /\ \E f \in Fresh(Edges, "edges") : Write(t, "edges", [x \in {f} |-> fact])
     /\ Goto(t, "done")
     /\ UNCHANGED <<db, call, wanted, found>>

(* add_external_ref for the entity the ingestion came to, which moves the  *)
(* identifier if another entity had it.                                    *)
Refer(t, e, entities) ==
  LET v == call[t].value
  IN /\ v # NoIdentifier => RefFree(t, v)
     /\ writes' = [writes EXCEPT
          ![t].entities = Overlay(@, entities),
          ![t].refs     = IF v = NoIdentifier THEN @ ELSE Overlay(@, [x \in {v} |-> e]),
          ![t].linked   = IF v = NoIdentifier THEN @ ELSE @ \cup {<<v, e>>}]
     /\ Goto(t, "done")
     /\ UNCHANGED <<db, call, wanted, found>>

Link(t) == pc[t] = "link" /\ Refer(t, found[t][1], << >>)

Create(t) ==
  /\ pc[t] = "create"
  /\ \E e \in Fresh(Entities, "entities") :
       Refer(t, e, [x \in {e} |-> [name |-> call[t].name, merged |-> NoEntity, deleted |-> FALSE]])

-----------------------------------------------------------------------------

End(t) ==
  /\ Goto(t, "ended")
  /\ wanted' = [wanted EXCEPT ![t] = << >>]
  /\ found' = [found EXCEPT ![t] = << >>]
  /\ writes' = [writes EXCEPT ![t] = Nothing]
  /\ UNCHANGED call

Commit(t) == pc[t] = "done" /\ db' = View(t) /\ End(t)

Rollback(t) == pc[t] = "failed" /\ UNCHANGED db /\ End(t)

(* The connection is lost, the task cancelled, or Postgres breaks a        *)
(* deadlock.                                                               *)
Crash(t) == Open(t) /\ UNCHANGED db /\ End(t)

Init ==
  /\ db = [Nothing EXCEPT !.entities = [e \in DOMAIN Stored |->
             [name |-> Stored[e], merged |-> NoEntity, deleted |-> FALSE]]]
  /\ pc     = [t \in Requests |-> "new"]
  /\ call   = [t \in Requests |-> NoCall]
  /\ wanted = [t \in Requests |-> << >>]
  /\ found  = [t \in Requests |-> << >>]
  /\ writes = [t \in Requests |-> Nothing]

Step(t) ==
  \/ ByIdentifier(t) \/ ByName(t) \/ BySimilarity(t)
  \/ Get(t)
  \/ MoveSubjects(t) \/ MoveObjects(t) \/ MarkMerged(t)
  \/ SoftDelete(t) \/ AddFact(t) \/ Link(t) \/ Create(t)

Quiet == (\A t \in Requests : pc[t] = "ended") /\ UNCHANGED vars

Next ==
  \/ \E t \in Requests : Receive(t) \/ Step(t) \/ Commit(t) \/ Rollback(t) \/ Crash(t)
  \/ Quiet

Spec == Init /\ [][Next]_vars

-----------------------------------------------------------------------------
(* Properties *)

(* Where one query of get goes on from x: to the entity it points to, to   *)
(* itself when it points nowhere, or, if it was deleted, nowhere.          *)
Onward(x) ==
  IF x \notin DOMAIN db.entities \/ db.entities[x].deleted THEN NoEntity
  ELSE IF db.entities[x].merged = NoEntity THEN x ELSE db.entities[x].merged

Way(e) == LET way[n \in Nat] == IF n = 0 THEN e ELSE Onward(way[n - 1]) IN way

(* The entity a request comes to that follows the pointers from e.         *)
Reach(e) == Way(e)[Cardinality(Entities) + 1]

(* Following merge pointers ends: "Follows merged_into_id so callers       *)
(* always get the surviving entity" (app/domain/entity.py).  Later merges  *)
(* of the survivor, of the loser again, or of both at once must not close  *)
(* a cycle, in which every read of its members would go round for ever.    *)
NoMergeCycle ==
  \A e \in DOMAIN db.entities :
    Reach(e) # NoEntity => db.entities[Reach(e)].merged = NoEntity

(* The audit log tells the truth about merges: the loser points at the     *)
(* survivor named in it, although both may have been merged or deleted     *)
(* while the request was choosing them.                                    *)
AuditedMergesHappened == \A m \in db.audit : db.entities[m[2]].merged = m[1]

(* What was decided about an entity stays: no request writes back a row as *)
(* it was before another one merged or deleted it.                         *)
DecisionsStay ==
  [][\A e \in DOMAIN db.entities :
       /\ db.entities[e].merged # NoEntity => db'.entities[e].merged = db.entities[e].merged
       /\ db.entities[e].deleted => db'.entities[e].deleted]_db

(* Ingestions of one external identifier come to one entity, as long as it *)
(* can still be found: merging it before, after or while they run must not *)
(* make the next one start another entity.                                 *)
IdentifierNamesOne ==
  \A m, n \in db.linked :
    m[1] = n[1] /\ Reach(m[2]) # NoEntity /\ Reach(n[2]) # NoEntity
      => Reach(m[2]) = Reach(n[2])

=============================================================================
