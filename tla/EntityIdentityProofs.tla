------------------------- MODULE EntityIdentityProofs -------------------------
(***************************************************************************)
(* Proofs about entity identity, for every set of entities, calls and      *)
(* requests: what was decided about an entity stays; with one merge at a   *)
(* time, an audited merge happened and following pointers ends; and with   *)
(* one ingestion at a time, an identifier names one entity.                *)
(***************************************************************************)
EXTENDS EntityIdentity, TLAPS, FiniteSetTheorems, SequenceTheorems

(* What the theorems about pointers suppose: merges do not overlap.        *)
(* merge_cluster takes its pair before it writes and leaves a loser that   *)
(* is marked already as it is, so the second of two would be audited and   *)
(* not have happened, and two opposite ones would close a cycle.           *)
OneMergeAtATime == MaxOpen["merge"] <= 1

(* Ids a call has resolved when it goes on to its own statements.          *)
Needed == [Arity EXCEPT !["ingest"] = 1]

Holds(t, n) == Len(found[t]) = n /\ \A i \in 1..n : found[t][i] \in Entities

(* What each statement of t finds in its variables. *)
Control(t) ==
  /\ Open(t) => call[t] \in Calls
  /\ pc[t] \in {"new", "identifier", "name", "similar"} => found[t] = << >>
  /\ pc[t] \in {"identifier", "name", "similar", "link", "create"} => call[t].kind = "ingest"
  /\ pc[t] = "get" => /\ wanted[t] # << >>
                      /\ Len(found[t]) + Len(wanted[t]) = Needed[call[t].kind]
  /\ pc[t] = "check" => Len(wanted[t]) = 1
  /\ pc[t] \in {"subjects", "objects", "mark", "check"} =>
       call[t].kind = "merge" /\ Holds(t, 2) /\ Survivor(t) # Loser(t)
  /\ pc[t] = "fact" => call[t].kind = "fact" /\ Holds(t, 2)
  /\ pc[t] = "delete" => call[t].kind = "delete" /\ Holds(t, 1)
  /\ pc[t] = "link" => Holds(t, 1)

(* A reference resolves to an entity there is. *)
KnownFound(t) ==
  \A i \in DOMAIN found[t] :
    found[t][i] # NoEntity => found[t][i] \in DOMAIN db.entities \cup DOMAIN writes[t].entities

TypeInvariant ==
  /\ TypeOK /\ DOMAIN writes = Requests
  /\ \A t \in Requests : Control(t) /\ KnownFound(t)

-----------------------------------------------------------------------------
(* Decisions *)

Follows(old, new) ==
  /\ old.merged # NoEntity => new.merged = old.merged
  /\ old.deleted => new.deleted

(* Row locks and fresh ids keep the rows in flight apart. *)
EntitiesApart ==
  \A t, u \in Requests :
    t # u => DOMAIN writes[t].entities \cap DOMAIN writes[u].entities = {}

(* A row in flight keeps what is committed about the entity.               *)
RowsFollow(t) ==
  \A e \in DOMAIN writes[t].entities \cap DOMAIN db.entities :
    Follows(db.entities[e], writes[t].entities[e])

RowInvariant ==
  /\ TypeInvariant /\ EntitiesApart
  /\ \A t \in Requests : RowsFollow(t)

-----------------------------------------------------------------------------
(* Pointers *)

InProgress(kind) == {t \in Requests : Open(t) /\ call[t].kind = kind}

Sole(kind) == IsFiniteSet(InProgress(kind)) /\ \A t, u \in InProgress(kind) : t = u

Merging == InProgress("merge")

Alone == Sole("merge")

IsRoot(e) == e \in DOMAIN db.entities /\ db.entities[e].merged = NoEntity

(* A merge that has not marked its loser: what it found are survivors.     *)
Unmarked(t) ==
  /\ pc[t] \in {"get", "subjects", "objects", "mark", "failed"}
  /\ DOMAIN writes[t].entities = {} /\ writes[t].audit = {}
  /\ pc[t] # "failed" => \A i \in DOMAIN found[t] : found[t][i] # NoEntity => IsRoot(found[t][i])

(* A merge of l into s that has. *)
Marked(t, s, l) ==
  /\ pc[t] \in {"check", "done", "failed"}
  /\ DOMAIN writes[t].entities = {l} /\ writes[t].entities[l].merged = s
  /\ writes[t].audit = {<<s, l>>}
  /\ IsRoot(s) /\ IsRoot(l) /\ s # l

(* No other request touches a pointer. *)
PointersKept(t) ==
  /\ writes[t].audit = {}
  /\ \A e \in DOMAIN writes[t].entities :
       writes[t].entities[e].merged =
         IF e \in DOMAIN db.entities THEN db.entities[e].merged ELSE NoEntity

Pointers(t) ==
  /\ t \in Merging => Unmarked(t) \/ \E s, l \in Entities : Marked(t, s, l)
  /\ t \notin Merging => PointersKept(t)
  /\ pc[t] = "new" => DOMAIN writes[t].entities = {}

AuditTrue == \A m \in db.audit : m[2] \in DOMAIN db.entities /\ db.entities[m[2]].merged = m[1]

(* Entities can be ranked so that every pointer goes up: no pointers lead  *)
(* back to where they began.                                               *)
Rising(rank) ==
  \A e \in DOMAIN db.entities :
    db.entities[e].merged # NoEntity => rank[e] < rank[db.entities[e].merged]

PointersRise == \E rank \in [Entities -> Nat] : Rising(rank)

MergeInvariant ==
  /\ RowInvariant /\ Alone
  /\ \A t \in Requests : Pointers(t)
  /\ AuditTrue
  /\ PointersRise

-----------------------------------------------------------------------------
(* Stores *)

LEMMA OverlayIs ==
  ASSUME NEW old, NEW new
  PROVE  /\ DOMAIN Overlay(old, new) = DOMAIN old \cup DOMAIN new
         /\ \A e \in DOMAIN new : Overlay(old, new)[e] = new[e]
         /\ \A e \in DOMAIN old \ DOMAIN new : Overlay(old, new)[e] = old[e]
  BY DEF Overlay

LEMMA OverlayNone ==
  ASSUME NEW old, NEW new, DOMAIN new = {}
  PROVE  DOMAIN Overlay(old, new) = DOMAIN old /\ \A e \in DOMAIN old : Overlay(old, new)[e] = old[e]
  BY DEF Overlay

LEMMA OverlayTyped ==
  ASSUME NEW old, NEW new, NEW S, NEW T,
         DOMAIN old \subseteq S, \A e \in DOMAIN old : old[e] \in T,
         DOMAIN new \subseteq S, \A e \in DOMAIN new : new[e] \in T
  PROVE  DOMAIN Overlay(old, new) \subseteq S /\ \A e \in DOMAIN Overlay(old, new) : Overlay(old, new)[e] \in T
  BY DEF Overlay

LEMMA NothingIs ==
  /\ IsStore(Nothing)
  /\ DOMAIN Nothing.entities = {} /\ Nothing.audit = {}
  BY DEF IsStore, Nothing

LEMMA ViewIs ==
  ASSUME NEW t \in Requests
  PROVE  /\ View(t).audit = db.audit \cup writes[t].audit
         /\ DOMAIN View(t).entities = DOMAIN db.entities \cup DOMAIN writes[t].entities
         /\ \A e \in DOMAIN writes[t].entities : View(t).entities[e] = writes[t].entities[e]
         /\ \A e \in DOMAIN db.entities \ DOMAIN writes[t].entities :
              View(t).entities[e] = db.entities[e]
  <1>1. View(t).entities = Overlay(db.entities, writes[t].entities)
    BY DEF View
  <1>2. View(t).audit = db.audit \cup writes[t].audit
    BY DEF View
  <1>3. /\ DOMAIN Overlay(db.entities, writes[t].entities)
             = DOMAIN db.entities \cup DOMAIN writes[t].entities
        /\ \A e \in DOMAIN writes[t].entities :
             Overlay(db.entities, writes[t].entities)[e] = writes[t].entities[e]
        /\ \A e \in DOMAIN db.entities \ DOMAIN writes[t].entities :
             Overlay(db.entities, writes[t].entities)[e] = db.entities[e]
    BY OverlayIs
  <1> QED BY <1>1, <1>2, <1>3

LEMMA ViewTyped ==
  ASSUME TypeOK, NEW t \in Requests
  PROVE  IsStore(View(t))
  <1> DEFINE d == db  w == writes[t]
  <1>1. IsStore(d) /\ IsStore(w)
    BY DEF TypeOK
  <1>2. /\ DOMAIN Overlay(d.entities, w.entities) \subseteq Entities
        /\ \A e \in DOMAIN Overlay(d.entities, w.entities) : Overlay(d.entities, w.entities)[e] \in Entity
    BY <1>1, OverlayTyped DEF IsStore
  <1>3. /\ DOMAIN Overlay(d.edges, w.edges) \subseteq Edges
        /\ \A e \in DOMAIN Overlay(d.edges, w.edges) :
             Overlay(d.edges, w.edges)[e] \in [subject : Entities, object : Entities]
    BY <1>1, OverlayTyped DEF IsStore
  <1>4. /\ DOMAIN Overlay(d.refs, w.refs) \subseteq Identifiers
        /\ \A e \in DOMAIN Overlay(d.refs, w.refs) : Overlay(d.refs, w.refs)[e] \in Entities
    BY <1>1, OverlayTyped DEF IsStore
  <1>5. d.audit \cup w.audit \subseteq Entities \X Entities
        /\ d.linked \cup w.linked \subseteq Identifiers \X Entities
    BY <1>1 DEF IsStore
  <1>6. DOMAIN View(t) = DOMAIN Nothing
    BY DEF View, Nothing
  <1>7. /\ View(t).entities = Overlay(d.entities, w.entities)
        /\ View(t).edges = Overlay(d.edges, w.edges)
        /\ View(t).refs = Overlay(d.refs, w.refs)
        /\ View(t).audit = d.audit \cup w.audit
        /\ View(t).linked = d.linked \cup w.linked
    BY DEF View
  <1> HIDE DEF d, w
  <1> QED BY <1>2, <1>3, <1>4, <1>5, <1>6, <1>7 DEF IsStore

(* Writing rows to one table of a transaction. *)
LEMMA WriteIs ==
  ASSUME TypeInvariant, NEW t \in Requests, NEW table \in {"entities", "edges"}, NEW rows,
         Write(t, table, rows)
  PROVE  /\ DOMAIN writes' = Requests
         /\ \A u \in Requests \ {t} : writes'[u] = writes[u]
         /\ writes'[t] = [writes[t] EXCEPT ![table] = Overlay(writes[t][table], rows)]
  BY DEF Write, TypeInvariant

LEMMA EntitiesTyped ==
  ASSUME NEW w, IsStore(w), NEW rows, DOMAIN rows \subseteq Entities,
         \A e \in DOMAIN rows : rows[e] \in Entity
  PROVE  LET v == [w EXCEPT !["entities"] = Overlay(w["entities"], rows)]
         IN IsStore(v) /\ v.entities = Overlay(w.entities, rows) /\ v.audit = w.audit
  <1>1. /\ DOMAIN Overlay(w.entities, rows) \subseteq Entities
        /\ \A e \in DOMAIN Overlay(w.entities, rows) : Overlay(w.entities, rows)[e] \in Entity
    BY OverlayTyped DEF IsStore
  <1> DEFINE v == [w EXCEPT !["entities"] = Overlay(w["entities"], rows)]
  <1>2. DOMAIN w = {"entities", "edges", "refs", "audit", "linked"}
    BY DEF IsStore, Nothing
  <1>3. /\ DOMAIN v = DOMAIN w /\ v.entities = Overlay(w.entities, rows)
        /\ v.edges = w.edges /\ v.refs = w.refs /\ v.audit = w.audit /\ v.linked = w.linked
    BY <1>2
  <1> HIDE DEF v
  <1>4. IsStore(v)
    BY <1>1, <1>3 DEF IsStore
  <1> QED BY <1>3, <1>4 DEF v

LEMMA EdgesTyped ==
  ASSUME NEW w, IsStore(w), NEW rows, DOMAIN rows \subseteq Edges,
         \A f \in DOMAIN rows : rows[f] \in [subject : Entities, object : Entities]
  PROVE  LET v == [w EXCEPT !["edges"] = Overlay(w["edges"], rows)]
         IN IsStore(v) /\ v.entities = w.entities /\ v.audit = w.audit
  <1>1. /\ DOMAIN Overlay(w.edges, rows) \subseteq Edges
        /\ \A e \in DOMAIN Overlay(w.edges, rows) :
             Overlay(w.edges, rows)[e] \in [subject : Entities, object : Entities]
    <2> DEFINE T == [subject : Entities, object : Entities]
    <2>1. /\ DOMAIN w.edges \subseteq Edges /\ \A e \in DOMAIN w.edges : w.edges[e] \in T
          /\ \A e \in DOMAIN rows : rows[e] \in T
      BY DEF IsStore
    <2> HIDE DEF T
    <2>2. /\ DOMAIN Overlay(w.edges, rows) \subseteq Edges
          /\ \A e \in DOMAIN Overlay(w.edges, rows) : Overlay(w.edges, rows)[e] \in T
      BY <2>1, OverlayTyped
    <2> QED BY <2>2 DEF T
  <1> DEFINE v == [w EXCEPT !["edges"] = Overlay(w["edges"], rows)]
  <1>2. DOMAIN w = {"entities", "edges", "refs", "audit", "linked"}
    BY DEF IsStore, Nothing
  <1>3. /\ DOMAIN v = DOMAIN w /\ v.entities = w.entities
        /\ v.edges = Overlay(w.edges, rows) /\ v.refs = w.refs /\ v.audit = w.audit
        /\ v.linked = w.linked
    BY <1>2
  <1> HIDE DEF v
  <1>4. DOMAIN v.edges \subseteq Edges
        /\ \A f \in DOMAIN v.edges : v.edges[f] \in [subject : Entities, object : Entities]
    BY <1>1, <1>3
  <1>5. IsStore(v)
    BY <1>3, <1>4 DEF IsStore
  <1> QED BY <1>3, <1>5 DEF v

-----------------------------------------------------------------------------
(* Types *)

Places == {"new", "identifier", "name", "similar", "get", "subjects", "objects",
           "mark", "check", "delete", "fact", "link", "create", "done", "failed", "ended"}

(* A step of t. *)
By(t) ==
  /\ pc' \in [Requests -> Places] /\ call' \in [Requests -> Calls \cup {NoCall}]
  /\ wanted' \in [Requests -> Seq(Entities \cup Names)]
  /\ found' \in [Requests -> Seq(Entities \cup {NoEntity})]
  /\ DOMAIN writes' = Requests /\ IsStore(writes'[t]) /\ IsStore(db')
  /\ \A u \in Requests \ {t} : /\ pc'[u] = pc[u] /\ call'[u] = call[u]
                               /\ wanted'[u] = wanted[u] /\ found'[u] = found[u]
                               /\ writes'[u] = writes[u]

LEMMA TypedBy ==
  ASSUME TypeInvariant, NEW t \in Requests, By(t), Control(t)', KnownFound(t)',
         DOMAIN db.entities \subseteq DOMAIN db'.entities
  PROVE  TypeInvariant'
  <1>1. TypeOK'
    BY DEF By, TypeInvariant, TypeOK, Places
  <1>2. ASSUME NEW u \in Requests \ {t} PROVE Control(u)'
    <2>1. /\ pc'[u] = pc[u] /\ call'[u] = call[u] /\ wanted'[u] = wanted[u]
          /\ found'[u] = found[u]
      BY <1>2 DEF By
    <2>2. Control(u)
      BY <1>2 DEF TypeInvariant
    <2> QED BY <2>1, <2>2 DEF Control, Holds, Open, Survivor, Loser
  <1>3. \A u \in Requests : Control(u)'
    <2> TAKE u \in Requests
    <2>1. CASE u = t
      BY <2>1 DEF Control, Holds, Open, Survivor, Loser
    <2> QED BY <1>2, <2>1
  <1>4. \A u \in Requests : KnownFound(u)'
    <2> TAKE u \in Requests
    <2>1. CASE u = t
      BY <2>1 DEF KnownFound
    <2>2. CASE u # t
      <3>1. KnownFound(u) /\ found'[u] = found[u] /\ writes'[u] = writes[u]
        BY <2>2 DEF TypeInvariant, By
      <3> QED BY <3>1 DEF KnownFound
    <2> QED BY <2>1, <2>2
  <1> QED BY <1>1, <1>3, <1>4 DEF TypeInvariant, By

LEMMA KnownKept ==
  ASSUME NEW t \in Requests, KnownFound(t), found'[t] = found[t],
         DOMAIN db.entities \subseteq DOMAIN db'.entities,
         DOMAIN writes[t].entities \subseteq DOMAIN writes'[t].entities
  PROVE  KnownFound(t)'
  BY DEF KnownFound

LEMMA AppendIs ==
  ASSUME NEW S, NEW s \in Seq(S), NEW e \in S
  PROVE  /\ Append(s, e) \in Seq(S) /\ Len(Append(s, e)) = Len(s) + 1
         /\ Append(s, e)[Len(s) + 1] = e
         /\ \A i \in 1..Len(s) : Append(s, e)[i] = s[i]
         /\ DOMAIN Append(s, e) = 1..(Len(s) + 1) /\ DOMAIN s = 1..Len(s)
  <1>1. DOMAIN s = 1..Len(s) /\ Len(s) \in Nat
    BY LenProperties
  <1>2. Append(s, e) \in Seq(S) /\ Len(Append(s, e)) = Len(s) + 1
    OBVIOUS
  <1>3. DOMAIN Append(s, e) = 1..(Len(s) + 1)
    BY <1>2, LenProperties
  <1>4. Append(s, e)[Len(s) + 1] = e
    OBVIOUS
  <1>5. \A i \in 1..Len(s) : Append(s, e)[i] = s[i]
    OBVIOUS
  <1> QED BY <1>1, <1>2, <1>3, <1>4, <1>5

LEMMA CallIs ==
  ASSUME EntityAssumption, NEW c \in Calls
  PROVE  /\ c.kind \in Kinds /\ c.refs \in Seq(Entities \cup Names)
         /\ Len(c.refs) = Arity[c.kind] /\ c.name \in Names
         /\ c.value \in Identifiers \cup {NoIdentifier}
  BY DEF EntityAssumption, Call

LEMMA TypeReceive ==
  ASSUME EntityAssumption, TypeInvariant, NEW t \in Requests, Receive(t)
  PROVE  By(t) /\ Control(t)'
  <1>1. PICK c \in Calls :
          /\ pc[t] = "new"
          /\ call' = [call EXCEPT ![t] = c]
          /\ wanted' = [wanted EXCEPT ![t] = c.refs]
          /\ pc' = [pc EXCEPT ![t] = IF c.kind = "ingest" THEN "identifier" ELSE "get"]
          /\ UNCHANGED <<db, found, writes>>
    BY DEF Receive, Goto
  <1>2. c.kind \in Kinds /\ c.refs \in Seq(Entities \cup Names) /\ Len(c.refs) = Arity[c.kind]
    BY CallIs
  <1>3. By(t)
    BY <1>1, <1>2 DEF By, TypeInvariant, TypeOK, Places
  <1>4. found'[t] = << >> /\ call'[t] = c /\ wanted'[t] = c.refs
    BY <1>1 DEF TypeInvariant, TypeOK, Control
  <1>5. pc'[t] = IF c.kind = "ingest" THEN "identifier" ELSE "get"
    BY <1>1 DEF TypeInvariant, TypeOK
  <1>6. c.kind # "ingest" => Len(c.refs) > 0 /\ Len(c.refs) = Needed[c.kind]
    BY <1>2 DEF Arity, Needed, Kinds
  <1>7. c.kind # "ingest" => c.refs # << >> /\ Len(<< >>) + Len(c.refs) = Needed[c.kind]
    BY <1>2, <1>6
  <1> QED BY <1>3, <1>4, <1>5, <1>7 DEF Control, Open

(* The resolver settles on an entity, or leaves it to the next tier.       *)
Settles(t) ==
  \E e \in Entities : /\ wanted' = [wanted EXCEPT ![t] = <<e>>]
                      /\ pc' = [pc EXCEPT ![t] = "get"]
                      /\ UNCHANGED found

Passes(t) ==
  \E next \in {"name", "similar", "create"} : /\ pc' = [pc EXCEPT ![t] = next]
                                              /\ UNCHANGED <<wanted, found>>

LEMMA ResolverOutcomes ==
  ASSUME TypeInvariant, NEW t \in Requests, ByIdentifier(t) \/ ByName(t) \/ BySimilarity(t)
  PROVE  /\ pc[t] \in {"identifier", "name", "similar"} /\ UNCHANGED <<db, call, writes>>
         /\ Settles(t) \/ Passes(t)
  <1>1. IsStore(View(t))
    BY ViewTyped DEF TypeInvariant
  <1>2. DOMAIN View(t).entities \subseteq Entities
        /\ \A v \in DOMAIN View(t).refs : View(t).refs[v] \in Entities
    BY <1>1 DEF IsStore
  <1>3. CASE ByIdentifier(t)
    BY <1>2, <1>3 DEF ByIdentifier, Referenced, Pass, Match, Goto, Settles, Passes
  <1>4. CASE ByName(t)
    BY <1>2, <1>4 DEF ByName, Survivors, Pass, Match, Goto, Settles, Passes
  <1>5. CASE BySimilarity(t)
    BY <1>2, <1>5 DEF BySimilarity, Survivors, Pass, Match, Goto, Settles, Passes
  <1> QED BY <1>3, <1>4, <1>5

LEMMA TypeResolver ==
  ASSUME EntityAssumption, TypeInvariant, NEW t \in Requests,
         ByIdentifier(t) \/ ByName(t) \/ BySimilarity(t)
  PROVE  By(t) /\ Control(t)'
  <1>1. /\ pc[t] \in {"identifier", "name", "similar"} /\ UNCHANGED <<db, call, writes>>
        /\ Settles(t) \/ Passes(t)
    BY ResolverOutcomes
  <1>2. call[t] \in Calls /\ call[t].kind = "ingest" /\ found[t] = << >>
    BY <1>1 DEF TypeInvariant, Control, Open
  <1>3. CASE Settles(t)
    <2>1. PICK e \in Entities : /\ wanted' = [wanted EXCEPT ![t] = <<e>>]
                                /\ pc' = [pc EXCEPT ![t] = "get"]
                                /\ UNCHANGED found
      BY <1>3 DEF Settles
    <2>2. <<e>> \in Seq(Entities \cup Names) /\ Len(<<e>>) = 1 /\ <<e>> # << >>
      OBVIOUS
    <2>3. By(t)
      BY <1>1, <2>1, <2>2 DEF By, TypeInvariant, TypeOK, Places
    <2>4. pc'[t] = "get" /\ wanted'[t] = <<e>>
      BY <2>1 DEF TypeInvariant, TypeOK
    <2>5. Len(<< >>) + Len(<<e>>) = Needed["ingest"]
      BY DEF Needed, Arity
    <2> QED BY <1>1, <1>2, <2>1, <2>2, <2>3, <2>4, <2>5 DEF Control, Open
  <1>4. CASE Passes(t)
    <2>1. PICK next \in {"name", "similar", "create"} : /\ pc' = [pc EXCEPT ![t] = next]
                                                        /\ UNCHANGED <<wanted, found>>
      BY <1>4 DEF Passes
    <2>2. By(t)
      BY <1>1, <2>1 DEF By, TypeInvariant, TypeOK, Places
    <2>3. pc'[t] = next
      BY <2>1 DEF TypeInvariant, TypeOK
    <2> QED BY <1>1, <1>2, <2>1, <2>2, <2>3 DEF Control, Open
  <1> QED BY <1>1, <1>3, <1>4

(* get answers e, or goes on to the entity a pointer names.                *)
NextPlace(t, e) ==
  CASE Len(wanted[t]) > 1 -> pc[t]
    [] pc[t] = "check"    -> IF e = NoEntity THEN "failed" ELSE "done"
    [] OTHER              -> Resolved(call[t].kind, Append(found[t], e))

Answered(t, e) ==
  /\ found' = [found EXCEPT ![t] = Append(found[t], e)]
  /\ wanted' = [wanted EXCEPT ![t] = Tail(wanted[t])]
  /\ pc' = [pc EXCEPT ![t] = NextPlace(t, e)]

Followed(t, e) ==
  /\ wanted' = [wanted EXCEPT ![t] = <<e>> \o Tail(wanted[t])]
  /\ UNCHANGED <<pc, found>>

(* e is an entity t sees, and it has not been merged. *)
SeesRoot(t, e) == e \in DOMAIN View(t).entities /\ View(t).entities[e].merged = NoEntity

LEMMA GetOutcomes ==
  ASSUME TypeInvariant, NEW t \in Requests, Get(t)
  PROVE  /\ pc[t] \in {"get", "check"} /\ UNCHANGED <<db, call, writes>>
         /\ \/ \E e \in Entities \cup {NoEntity} :
                 (e = NoEntity \/ SeesRoot(t, e)) /\ Answered(t, e)
            \/ \E e \in Entities : Followed(t, e)
  <1>1. pc[t] \in {"get", "check"} /\ UNCHANGED <<db, call, writes>>
    BY DEF Get
  <1>2. IsStore(View(t))
    BY ViewTyped DEF TypeInvariant
  <1>3. /\ DOMAIN View(t).entities \subseteq Entities
        /\ \A e \in DOMAIN View(t).entities : View(t).entities[e].merged \in Entities \cup {NoEntity}
    BY <1>2 DEF IsStore, Entity
  <1> DEFINE hits == Hits(View(t), Head(wanted[t]))
  <1>4. hits \subseteq DOMAIN View(t).entities
    BY DEF Hits
  <1> HIDE DEF hits
  <1>5. \/ Answered(t, NoEntity)
        \/ \E e \in hits : IF Pointer(View(t), e) = NoEntity THEN Answered(t, e)
                           ELSE Followed(t, Pointer(View(t), e))
    <2>1. Get(t)
      OBVIOUS
    <2> QED BY <2>1 DEF Get, Answered, Followed, NextPlace, Goto, hits
  <1>6. ASSUME NEW e \in hits, Pointer(View(t), e) = NoEntity, Answered(t, e)
        PROVE  e \in Entities /\ SeesRoot(t, e)
    BY <1>3, <1>4, <1>6 DEF SeesRoot, Pointer
  <1>7. ASSUME NEW e \in hits, Pointer(View(t), e) # NoEntity
        PROVE  Pointer(View(t), e) \in Entities
    BY <1>3, <1>4, <1>7 DEF Pointer
  <1> QED BY <1>1, <1>5, <1>6, <1>7

LEMMA ResolvedIs ==
  ASSUME EntityAssumption, NEW kind \in Kinds, NEW ids \in Seq(Entities \cup {NoEntity}),
         Len(ids) = Needed[kind]
  PROVE  LET next == Resolved(kind, ids)
             Hold(n) == Len(ids) = n /\ \A i \in 1..n : ids[i] \in Entities
         IN /\ next \in {"subjects", "delete", "fact", "link", "create", "done", "failed"}
            /\ next = "subjects" => kind = "merge" /\ Hold(2) /\ ids[1] # ids[2]
            /\ next = "delete" => kind = "delete" /\ Hold(1)
            /\ next = "fact" => kind = "fact" /\ Hold(2)
            /\ next = "link" => kind = "ingest" /\ Hold(1)
            /\ next = "create" => kind = "ingest"
            /\ kind = "merge" => next # "done"
  <1>1. DOMAIN ids = 1..Len(ids) /\ \A i \in 1..Len(ids) : ids[i] \in Entities \cup {NoEntity}
    OBVIOUS
  <1>2. NoEntity \notin {ids[i] : i \in DOMAIN ids} => \A i \in 1..Len(ids) : ids[i] \in Entities
    BY <1>1
  <1>3. CASE kind = "merge"
    BY <1>2, <1>3 DEF Resolved, Needed, Arity
  <1>4. CASE kind = "delete"
    BY <1>2, <1>4 DEF Resolved, Needed, Arity
  <1>5. CASE kind = "fact"
    BY <1>2, <1>5 DEF Resolved, Needed, Arity
  <1>6. CASE kind = "ingest"
    <2>1. Len(ids) = 1 /\ (ids[1] # NoEntity => ids[1] \in Entities)
      BY <1>1, <1>6 DEF Needed, Arity
    <2>2. Resolved(kind, ids) = IF ids[1] = NoEntity THEN "create" ELSE "link"
      BY <1>6 DEF Resolved, AfterMatch
    <2> QED BY <1>6, <2>1, <2>2
  <1> QED BY <1>3, <1>4, <1>5, <1>6 DEF Kinds

LEMMA WantedIs ==
  ASSUME TypeInvariant, NEW t \in Requests, pc[t] \in {"get", "check"}
  PROVE  /\ wanted[t] \in Seq(Entities \cup Names) /\ wanted[t] # << >>
         /\ Tail(wanted[t]) \in Seq(Entities \cup Names)
         /\ Len(wanted[t]) \in Nat /\ Len(wanted[t]) >= 1
         /\ Len(Tail(wanted[t])) = Len(wanted[t]) - 1
  <1>1. wanted[t] \in Seq(Entities \cup Names)
    BY DEF TypeInvariant, TypeOK
  <1>2. Control(t)
    BY DEF TypeInvariant
  <1>3. pc[t] = "check" => Len(wanted[t]) = 1
    BY <1>2 DEF Control
  <1>4. wanted[t] # << >>
    <2>1. Len(wanted[t]) = 1 => wanted[t] # << >>
      BY EmptySeq
    <2> QED BY <1>2, <1>3, <2>1 DEF Control
  <1>5. /\ Tail(wanted[t]) \in Seq(Entities \cup Names)
        /\ Len(Tail(wanted[t])) = Len(wanted[t]) - 1
    BY <1>1, <1>4, HeadTailProperties
  <1>6. Len(wanted[t]) \in Nat \ {0}
    BY <1>1, <1>4, EmptySeq
  <1>7. Len(wanted[t]) \in Nat /\ Len(wanted[t]) >= 1
    BY <1>6
  <1> QED BY <1>1, <1>4, <1>5, <1>7

LEMMA TypeAnswered ==
  ASSUME EntityAssumption, TypeInvariant, NEW t \in Requests, NEW e \in Entities \cup {NoEntity},
         pc[t] \in {"get", "check"}, UNCHANGED <<db, call, writes>>, Answered(t, e)
  PROVE  /\ By(t) /\ Control(t)' /\ pc'[t] \notin {"new", "ended"}
         /\ found'[t] = Append(found[t], e)
         /\ pc[t] = "check" => pc'[t] \in {"done", "failed"}
         /\ pc[t] = "get" /\ call[t].kind = "merge" => pc'[t] \in {"get", "subjects", "failed"}
  <1> DEFINE ids == Append(found[t], e)
  <1>1. /\ found[t] \in Seq(Entities \cup {NoEntity}) /\ wanted[t] \in Seq(Entities \cup Names)
        /\ Control(t) /\ pc \in [Requests -> Places]
        /\ call \in [Requests -> Calls \cup {NoCall}] /\ call[t] \in Calls
        /\ wanted[t] # << >>
    <2>1. Control(t) /\ TypeOK
      BY DEF TypeInvariant
    <2>2. call[t] \in Calls /\ wanted[t] # << >>
      BY <2>1, WantedIs DEF Control, Open
    <2> QED BY <2>1, <2>2 DEF TypeOK, Places
  <1>2. /\ ids \in Seq(Entities \cup {NoEntity}) /\ Len(ids) = Len(found[t]) + 1
        /\ Len(found[t]) \in Nat
        /\ \A i \in 1..Len(found[t]) : ids[i] = found[t][i]
    BY <1>1, AppendIs, LenProperties
  <1>3. /\ Tail(wanted[t]) \in Seq(Entities \cup Names)
        /\ Len(wanted[t]) \in Nat /\ Len(wanted[t]) >= 1
        /\ Len(Tail(wanted[t])) = Len(wanted[t]) - 1
    BY WantedIs
  <1>4. /\ found' = [found EXCEPT ![t] = ids]
        /\ wanted' = [wanted EXCEPT ![t] = Tail(wanted[t])]
        /\ pc' = [pc EXCEPT ![t] = NextPlace(t, e)]
    BY DEF Answered
  <1> HIDE DEF ids
  <1>5. found'[t] = ids /\ wanted'[t] = Tail(wanted[t]) /\ pc'[t] = NextPlace(t, e) /\ call'[t] = call[t]
    BY <1>1, <1>4 DEF TypeInvariant, TypeOK
  <1>6. call[t].kind \in Kinds
    BY <1>1, CallIs
  <1>7. CASE Len(wanted[t]) > 1
    <2>1. NextPlace(t, e) = pc[t] /\ pc[t] = "get"
      <3>1. pc[t] # "check"
        <4>1. pc[t] = "check" => Len(wanted[t]) = 1
          BY <1>1 DEF Control
        <4>2. ~(1 > 1)
          OBVIOUS
        <4> QED BY <1>7, <4>1, <4>2, Zenon
      <3> QED BY <1>7, <3>1 DEF NextPlace
    <2>2. Tail(wanted[t]) # << >> /\ Len(ids) + Len(Tail(wanted[t])) = Needed[call[t].kind]
      <3>1. Len(found[t]) + Len(wanted[t]) = Needed[call[t].kind]
        BY <1>1, <2>1 DEF Control
      <3>2. Len(found[t]) \in Nat /\ Needed[call[t].kind] \in Nat
        BY <1>2, <1>6 DEF Needed, Arity, Kinds
      <3> DEFINE n == Len(wanted[t])  m == Len(Tail(wanted[t]))
                 k == Len(found[t])   i == Len(ids)
      <3>3. n \in Nat /\ m = n - 1 /\ k \in Nat /\ i = k + 1 /\ k + n = Needed[call[t].kind] /\ n > 1
        BY <1>2, <1>3, <1>7, <3>1
      <3> HIDE DEF n, m, k, i
      <3>4. m # 0 /\ i + m = Needed[call[t].kind]
        BY <3>2, <3>3
      <3>5. Tail(wanted[t]) # << >>
        BY <3>4, EmptySeq DEF m
      <3> QED BY <3>4, <3>5 DEF m, i
    <2>3. By(t)
      BY <1>1, <1>2, <1>3, <1>4, <2>1 DEF By, TypeInvariant, TypeOK, Places
    <2> QED BY <1>1, <1>5, <2>1, <2>2, <2>3 DEF Control, Open, ids
  <1>8. CASE Len(wanted[t]) <= 1 /\ pc[t] = "check"
    <2>1. NextPlace(t, e) \in {"done", "failed"}
      BY <1>3, <1>8 DEF NextPlace
    <2>2. By(t)
      BY <1>1, <1>2, <1>3, <1>4, <2>1 DEF By, TypeInvariant, TypeOK, Places
    <2> QED BY <1>1, <1>5, <1>8, <2>1, <2>2 DEF Control, Open, ids
  <1>9. CASE Len(wanted[t]) <= 1 /\ pc[t] = "get"
    <2>1. NextPlace(t, e) = Resolved(call[t].kind, ids)
      BY <1>3, <1>9 DEF NextPlace, ids
    <2>2. Len(ids) = Needed[call[t].kind]
      <3>1. Len(found[t]) + Len(wanted[t]) = Needed[call[t].kind]
        BY <1>1, <1>9 DEF Control
      <3>2. Needed[call[t].kind] \in Nat
        BY <1>6 DEF Needed, Arity, Kinds
      <3> DEFINE n == Len(wanted[t])  k == Len(found[t])
      <3>3. n \in Nat /\ n >= 1 /\ k \in Nat /\ k + n = Needed[call[t].kind] /\ n <= 1
        BY <1>2, <1>3, <1>9, <3>1
      <3> HIDE DEF n, k
      <3>4. k + 1 = Needed[call[t].kind]
        BY <3>2, <3>3
      <3> QED BY <1>2, <3>4 DEF k
    <2> DEFINE next == Resolved(call[t].kind, ids)
               Hold(n) == Len(ids) = n /\ \A i \in 1..n : ids[i] \in Entities
    <2>3. /\ next \in {"subjects", "delete", "fact", "link", "create", "done", "failed"}
          /\ next = "subjects" => call[t].kind = "merge" /\ Hold(2) /\ ids[1] # ids[2]
          /\ next = "delete" => call[t].kind = "delete" /\ Hold(1)
          /\ next = "fact" => call[t].kind = "fact" /\ Hold(2)
          /\ next = "link" => call[t].kind = "ingest" /\ Hold(1)
          /\ next = "create" => call[t].kind = "ingest"
          /\ call[t].kind = "merge" => next # "done"
      BY <1>2, <1>6, <2>2, ResolvedIs
    <2> HIDE DEF next
    <2>4. pc'[t] = next
      BY <1>5, <2>1 DEF next
    <2>5. By(t)
      BY <1>1, <1>2, <1>3, <1>4, <2>1, <2>3 DEF By, TypeInvariant, TypeOK, Places, next
    <2>6. Control(t)'
      BY <1>1, <1>5, <2>3, <2>4 DEF Control, Open, Holds, Survivor, Loser
    <2>7. call[t].kind = "merge" => next \in {"subjects", "failed"}
      BY <2>3
    <2> QED BY <1>5, <1>9, <2>3, <2>4, <2>5, <2>6, <2>7 DEF ids
  <1> QED BY <1>3, <1>7, <1>8, <1>9

LEMMA TypeFollowed ==
  ASSUME EntityAssumption, TypeInvariant, NEW t \in Requests, NEW e \in Entities,
         pc[t] \in {"get", "check"}, UNCHANGED <<db, call, writes>>, Followed(t, e)
  PROVE  By(t) /\ Control(t)' /\ UNCHANGED <<pc, found>>
  <1>1. /\ wanted[t] \in Seq(Entities \cup Names) /\ Control(t)
        /\ wanted[t] # << >>
    BY WantedIs DEF TypeInvariant
  <1> DEFINE rest == Tail(wanted[t])
             more == <<e>> \o rest
  <1>2. rest \in Seq(Entities \cup Names)
        /\ Len(wanted[t]) \in Nat \ {0} /\ Len(rest) = Len(wanted[t]) - 1
    BY <1>1, HeadTailProperties, EmptySeq
  <1>3. <<e>> \in Seq(Entities \cup Names) /\ Len(<<e>>) = 1
    OBVIOUS
  <1>4. more \in Seq(Entities \cup Names) /\ Len(more) = Len(wanted[t])
    <2>1. more \in Seq(Entities \cup Names) /\ Len(more) = Len(<<e>>) + Len(rest)
      BY <1>2, <1>3, ConcatProperties
    <2> QED BY <1>2, <1>3, <2>1
  <1>5. wanted' = [wanted EXCEPT ![t] = more] /\ UNCHANGED <<pc, found>>
    BY DEF Followed
  <1> HIDE DEF more
  <1>6. wanted'[t] = more /\ more # << >>
    BY <1>2, <1>4, <1>5, EmptySeq DEF TypeInvariant, TypeOK
  <1>7. By(t)
    BY <1>4, <1>5 DEF By, TypeInvariant, TypeOK, Places
  <1> QED BY <1>1, <1>4, <1>5, <1>6, <1>7 DEF Control, Open, Holds, Survivor, Loser

LEMMA TypeGet ==
  ASSUME EntityAssumption, TypeInvariant, NEW t \in Requests, Get(t)
  PROVE  By(t) /\ Control(t)' /\ KnownFound(t)'
  <1>1. /\ pc[t] \in {"get", "check"} /\ UNCHANGED <<db, call, writes>>
        /\ \/ \E e \in Entities \cup {NoEntity} :
                (e = NoEntity \/ SeesRoot(t, e)) /\ Answered(t, e)
           \/ \E e \in Entities : Followed(t, e)
    BY GetOutcomes
  <1>2. KnownFound(t) /\ found[t] \in Seq(Entities \cup {NoEntity})
    BY DEF TypeInvariant, TypeOK
  <1>3. ASSUME NEW e \in Entities \cup {NoEntity}, e = NoEntity \/ SeesRoot(t, e), Answered(t, e)
        PROVE  By(t) /\ Control(t)' /\ KnownFound(t)'
    <2>1. By(t) /\ Control(t)' /\ found'[t] = Append(found[t], e)
      BY <1>1, <1>3, TypeAnswered
    <2>2. /\ DOMAIN Append(found[t], e) = 1..(Len(found[t]) + 1) /\ DOMAIN found[t] = 1..Len(found[t])
          /\ Append(found[t], e)[Len(found[t]) + 1] = e
          /\ \A i \in 1..Len(found[t]) : Append(found[t], e)[i] = found[t][i]
          /\ Len(found[t]) \in Nat
      BY <1>2, AppendIs, LenProperties
    <2>3. \A i \in DOMAIN Append(found[t], e) :
            i \in DOMAIN found[t] \/ i = Len(found[t]) + 1
      BY <2>2
    <2>4. e = NoEntity \/ e \in DOMAIN db.entities \cup DOMAIN writes[t].entities
      BY <1>3, ViewIs DEF SeesRoot
    <2>5. KnownFound(t)'
      BY <1>1, <1>2, <2>1, <2>2, <2>3, <2>4 DEF KnownFound
    <2> QED BY <2>1, <2>5
  <1>4. ASSUME NEW e \in Entities, Followed(t, e)
        PROVE  By(t) /\ Control(t)' /\ KnownFound(t)'
    <2>1. By(t) /\ Control(t)' /\ UNCHANGED <<pc, found>>
      BY <1>1, <1>4, TypeFollowed
    <2> QED BY <1>1, <1>2, <2>1 DEF KnownFound
  <1> QED BY <1>1, <1>3, <1>4

(* t writes nothing about entities. *)
KeepsEntities(t) ==
  /\ DOMAIN writes'[t].entities = DOMAIN writes[t].entities
  /\ \A e \in DOMAIN writes[t].entities : writes'[t].entities[e] = writes[t].entities[e]
  /\ writes'[t].audit = writes[t].audit

LEMMA MoveIs ==
  ASSUME TypeInvariant, NEW t \in Requests, NEW end \in {"subject", "object"}, NEW next,
         Survivor(t) \in Entities, Move(t, end, next)
  PROVE  /\ UNCHANGED <<db, call, wanted, found>>
         /\ pc' = [pc EXCEPT ![t] = next] \/ pc' = [pc EXCEPT ![t] = "failed"]
         /\ DOMAIN writes' = Requests /\ \A u \in Requests \ {t} : writes'[u] = writes[u]
         /\ IsStore(writes'[t]) /\ KeepsEntities(t)
  <1> DEFINE view  == View(t)
             moved == {f \in DOMAIN view.edges : view.edges[f][end] = Loser(t)}
             rows  == [f \in moved |-> [view.edges[f] EXCEPT ![end] = Survivor(t)]]
  <1>1. /\ UNCHANGED <<db, call, wanted, found>>
        /\ \/ Write(t, "edges", rows) /\ pc' = [pc EXCEPT ![t] = next]
           \/ UNCHANGED writes /\ pc' = [pc EXCEPT ![t] = "failed"]
    BY DEF Move, Goto
  <1>2. IsStore(view) /\ IsStore(writes[t])
    BY ViewTyped DEF TypeInvariant, TypeOK
  <1>3. DOMAIN rows \subseteq Edges
        /\ \A f \in DOMAIN rows : rows[f] \in [subject : Entities, object : Entities]
    <2>1. /\ DOMAIN view.edges \subseteq Edges
          /\ \A f \in DOMAIN view.edges : view.edges[f] \in [subject : Entities, object : Entities]
      BY <1>2 DEF IsStore
    <2> HIDE DEF view
    <2> QED BY <2>1
  <1> HIDE DEF rows
  <1>4. CASE Write(t, "edges", rows)
    <2>1. /\ DOMAIN writes' = Requests
          /\ \A u \in Requests \ {t} : writes'[u] = writes[u]
          /\ writes'[t] = [writes[t] EXCEPT !["edges"] = Overlay(writes[t]["edges"], rows)]
      BY <1>4, WriteIs
    <2> DEFINE w == [writes[t] EXCEPT !["edges"] = Overlay(writes[t]["edges"], rows)]
    <2>2. IsStore(w) /\ w.entities = writes[t].entities /\ w.audit = writes[t].audit
      BY <1>2, <1>3, EdgesTyped
    <2> HIDE DEF w
    <2>3. writes'[t] = w
      BY <2>1 DEF w
    <2> QED BY <1>1, <2>1, <2>2, <2>3 DEF KeepsEntities
  <1>5. CASE UNCHANGED writes
    BY <1>1, <1>2, <1>5 DEF KeepsEntities, TypeInvariant
  <1> QED BY <1>1, <1>4, <1>5

LEMMA TypeMove ==
  ASSUME TypeInvariant, NEW t \in Requests, MoveSubjects(t) \/ MoveObjects(t)
  PROVE  /\ By(t) /\ Control(t)' /\ KnownFound(t)'
         /\ UNCHANGED <<db, call, found>> /\ KeepsEntities(t)
         /\ pc[t] \in {"subjects", "objects"} /\ pc'[t] \in {"objects", "mark", "failed"}
  <1>1. Control(t) /\ KnownFound(t) /\ pc[t] \in {"subjects", "objects"}
    BY DEF TypeInvariant, MoveSubjects, MoveObjects
  <1>2. Survivor(t) \in Entities
    BY <1>1 DEF Control, Holds, Survivor
  <1>3. PICK next \in {"objects", "mark", "failed"} :
          /\ UNCHANGED <<db, call, wanted, found>>
          /\ pc' = [pc EXCEPT ![t] = next]
          /\ DOMAIN writes' = Requests /\ \A u \in Requests \ {t} : writes'[u] = writes[u]
          /\ IsStore(writes'[t]) /\ KeepsEntities(t)
    <2>1. CASE MoveSubjects(t)
      BY <1>2, <2>1, MoveIs DEF MoveSubjects
    <2>2. CASE MoveObjects(t)
      BY <1>2, <2>2, MoveIs DEF MoveObjects
    <2> QED BY <2>1, <2>2
  <1>4. By(t)
    BY <1>3 DEF By, TypeInvariant, TypeOK, Places
  <1>5. pc'[t] = next
    BY <1>3 DEF TypeInvariant, TypeOK
  <1>6. KnownFound(t)'
    BY <1>1, <1>3, KnownKept DEF KeepsEntities
  <1> QED BY <1>1, <1>3, <1>4, <1>5, <1>6 DEF Control, Open, Holds, Survivor, Loser

(* t writes a row of entity e. *)
Puts(t, e, row) ==
  /\ DOMAIN writes'[t].entities = DOMAIN writes[t].entities \cup {e}
  /\ writes'[t].entities[e] = row
  /\ \A x \in DOMAIN writes[t].entities \ {e} : writes'[t].entities[x] = writes[t].entities[x]

LEMMA PutIs ==
  ASSUME NEW t \in Requests, NEW e, NEW row,
         writes'[t].entities = Overlay(writes[t].entities, [x \in {e} |-> row])
  PROVE  Puts(t, e, row)
  <1> DEFINE rows == [x \in {e} |-> row]
  <1>1. DOMAIN rows = {e} /\ rows[e] = row
    OBVIOUS
  <1> HIDE DEF rows
  <1>2. /\ DOMAIN Overlay(writes[t].entities, rows) = DOMAIN writes[t].entities \cup DOMAIN rows
        /\ \A x \in DOMAIN rows : Overlay(writes[t].entities, rows)[x] = rows[x]
        /\ \A x \in DOMAIN writes[t].entities \ DOMAIN rows :
             Overlay(writes[t].entities, rows)[x] = writes[t].entities[x]
    BY OverlayIs
  <1>3. writes'[t].entities = Overlay(writes[t].entities, rows)
    BY DEF rows
  <1> QED BY <1>1, <1>2, <1>3 DEF Puts

(* An entity a request has resolved has a row. *)
LEMMA FoundIs ==
  ASSUME TypeInvariant, NEW t \in Requests, NEW i \in DOMAIN found[t], found[t][i] \in Entities,
         EntityAssumption
  PROVE  /\ found[t][i] \in DOMAIN View(t).entities
         /\ View(t).entities[found[t][i]] \in Entity
  <1>1. KnownFound(t) /\ IsStore(View(t))
    BY ViewTyped DEF TypeInvariant
  <1>2. found[t][i] \in DOMAIN db.entities \cup DOMAIN writes[t].entities
    BY <1>1 DEF KnownFound, EntityAssumption
  <1>3. found[t][i] \in DOMAIN View(t).entities
    BY <1>2, ViewIs
  <1> QED BY <1>1, <1>3 DEF IsStore

LEMMA PairIs ==
  ASSUME EntityAssumption, TypeInvariant, NEW t \in Requests, NEW n \in {1, 2}, Holds(t, n)
  PROVE  /\ DOMAIN found[t] = 1..n
         /\ \A i \in 1..n : /\ found[t][i] \in Entities
                            /\ found[t][i] \in DOMAIN View(t).entities
                            /\ View(t).entities[found[t][i]] \in Entity
  <1>1. DOMAIN found[t] = 1..n /\ \A i \in 1..n : found[t][i] \in Entities
    <2>1. found[t] \in Seq(Entities \cup {NoEntity})
      BY DEF TypeInvariant, TypeOK
    <2> QED BY <2>1, LenProperties DEF Holds
  <1> QED BY <1>1, FoundIs

LEMMA TypeMarkMerged ==
  ASSUME EntityAssumption, TypeInvariant, NEW t \in Requests, MarkMerged(t)
  PROVE  LET s == Survivor(t)
             l == Loser(t)
         IN /\ By(t) /\ Control(t)' /\ KnownFound(t)'
            /\ UNCHANGED <<db, call, found>> /\ pc[t] = "mark" /\ pc'[t] = "check"
            /\ s \in Entities /\ l \in Entities /\ s # l
            /\ l \in DOMAIN View(t).entities /\ View(t).entities[l] \in Entity
            /\ Puts(t, l, MarkedAs(View(t).entities[l], s))
            /\ writes'[t].audit = writes[t].audit \cup {<<s, l>>}
  <1> DEFINE s   == Survivor(t)
             l   == Loser(t)
             row == MarkedAs(View(t).entities[l], s)
             new == Overlay(writes[t].entities, [e \in {l} |-> row])
             w   == [[writes[t] EXCEPT !["entities"] = new] EXCEPT !["audit"] = @ \cup {<<s, l>>}]
  <1>1. Control(t) /\ KnownFound(t) /\ pc[t] = "mark" /\ TypeOK
    BY DEF TypeInvariant, MarkMerged
  <1>2. Holds(t, 2) /\ s # l
    BY <1>1 DEF Control
  <1>3. /\ s \in Entities /\ l \in Entities
        /\ l \in DOMAIN View(t).entities /\ View(t).entities[l] \in Entity
    BY <1>2, PairIs DEF Survivor, Loser
  <1>4. row \in Entity
    BY <1>3 DEF MarkedAs, Entity
  <1>5. /\ writes' = [writes EXCEPT ![t].entities = new, ![t].audit = @ \cup {<<s, l>>}]
        /\ wanted' = [wanted EXCEPT ![t] = <<s>>]
        /\ pc' = [pc EXCEPT ![t] = "check"]
        /\ UNCHANGED <<db, call, found>>
    BY DEF MarkMerged, Goto
  <1>6. IsStore(writes[t]) /\ DOMAIN writes[t] = {"entities", "edges", "refs", "audit", "linked"}
        /\ DOMAIN writes = Requests
    BY <1>1 DEF TypeOK, IsStore, Nothing, TypeInvariant
  <1>7. DOMAIN [e \in {l} |-> row] \subseteq Entities
        /\ \A i \in DOMAIN [e \in {l} |-> row] : [e \in {l} |-> row][i] \in Entity
    BY <1>3, <1>4
  <1>8. /\ DOMAIN new \subseteq Entities
        /\ \A e \in DOMAIN new : new[e] \in Entity
    <2> DEFINE rows == [e \in {l} |-> row]
    <2>1. DOMAIN rows \subseteq Entities /\ \A e \in DOMAIN rows : rows[e] \in Entity
      BY <1>7
    <2> HIDE DEF rows
    <2>2. /\ DOMAIN Overlay(writes[t].entities, rows) \subseteq Entities
          /\ \A e \in DOMAIN Overlay(writes[t].entities, rows) :
               Overlay(writes[t].entities, rows)[e] \in Entity
      BY <1>6, <2>1, OverlayTyped DEF IsStore
    <2> QED BY <2>2 DEF rows
  <1> HIDE DEF new, s, l
  <1>9. /\ DOMAIN writes' = Requests /\ \A u \in Requests \ {t} : writes'[u] = writes[u]
        /\ DOMAIN writes'[t] = DOMAIN writes[t]
        /\ writes'[t].entities = new /\ writes'[t].audit = writes[t].audit \cup {<<s, l>>}
        /\ writes'[t].edges = writes[t].edges /\ writes'[t].refs = writes[t].refs
        /\ writes'[t].linked = writes[t].linked
    BY <1>5, <1>6
  <1>10. IsStore(writes'[t])
    BY <1>3, <1>6, <1>8, <1>9 DEF IsStore
  <1>11. <<s>> \in Seq(Entities \cup Names) /\ Len(<<s>>) = 1
    BY <1>3
  <1>12. By(t)
    BY <1>1, <1>5, <1>9, <1>10, <1>11 DEF By, TypeOK, Places
  <1>13. pc'[t] = "check" /\ wanted'[t] = <<s>>
    BY <1>1, <1>5 DEF TypeOK
  <1>14. Puts(t, l, row)
    BY <1>9, PutIs DEF new
  <1>15. KnownFound(t)'
    BY <1>1, <1>5, <1>14, KnownKept DEF Puts
  <1>16. Control(t)'
    BY <1>1, <1>2, <1>5, <1>11, <1>13 DEF Control, Open, Holds, Survivor, Loser, s, l
  <1> QED BY <1>1, <1>2, <1>3, <1>5, <1>9, <1>12, <1>13, <1>14, <1>15, <1>16 DEF s, l

LEMMA TypeDelete ==
  ASSUME EntityAssumption, TypeInvariant, NEW t \in Requests, SoftDelete(t)
  PROVE  LET e == found[t][1]
         IN /\ By(t) /\ Control(t)' /\ KnownFound(t)'
            /\ UNCHANGED <<db, call, found>> /\ pc[t] = "delete" /\ pc'[t] = "done"
            /\ call[t].kind = "delete"
            /\ e \in DOMAIN View(t).entities /\ View(t).entities[e] \in Entity
            /\ Puts(t, e, [View(t).entities[e] EXCEPT !.deleted = TRUE])
            /\ writes'[t].audit = writes[t].audit
  <1> DEFINE e    == found[t][1]
             row  == [View(t).entities[e] EXCEPT !.deleted = TRUE]
             rows == [x \in {e} |-> row]
  <1>1. Control(t) /\ KnownFound(t) /\ pc[t] = "delete" /\ TypeOK
    BY DEF TypeInvariant, SoftDelete
  <1>2. Holds(t, 1) /\ call[t].kind = "delete"
    BY <1>1 DEF Control
  <1>3. /\ e \in Entities /\ e \in DOMAIN View(t).entities /\ View(t).entities[e] \in Entity
    BY <1>2, PairIs
  <1>4. row \in Entity
    BY <1>3 DEF Entity
  <1>5. /\ Write(t, "entities", rows)
        /\ pc' = [pc EXCEPT ![t] = "done"]
        /\ UNCHANGED <<db, call, wanted, found>>
    BY DEF SoftDelete, Goto
  <1>6. DOMAIN rows \subseteq Entities /\ \A x \in DOMAIN rows : rows[x] \in Entity
    BY <1>3, <1>4
  <1> HIDE DEF row, e
  <1>7. /\ DOMAIN writes' = Requests /\ \A u \in Requests \ {t} : writes'[u] = writes[u]
        /\ IsStore(writes'[t]) /\ writes'[t].audit = writes[t].audit
        /\ writes'[t].entities = Overlay(writes[t].entities, rows)
    <2> HIDE DEF rows
    <2>1. /\ DOMAIN writes' = Requests
          /\ \A u \in Requests \ {t} : writes'[u] = writes[u]
          /\ writes'[t] = [writes[t] EXCEPT !["entities"] = Overlay(writes[t]["entities"], rows)]
      BY <1>5, WriteIs
    <2> DEFINE w == [writes[t] EXCEPT !["entities"] = Overlay(writes[t]["entities"], rows)]
    <2>2. IsStore(writes[t])
      BY <1>1 DEF TypeOK
    <2>3. IsStore(w) /\ w.entities = Overlay(writes[t].entities, rows) /\ w.audit = writes[t].audit
      BY <1>6, <2>2, EntitiesTyped
    <2> HIDE DEF w
    <2>4. writes'[t] = w
      BY <2>1 DEF w
    <2> QED BY <2>1, <2>3, <2>4
  <1>8. Puts(t, e, row)
    BY <1>7, PutIs
  <1>9. By(t)
    BY <1>1, <1>5, <1>7 DEF By, TypeOK, Places
  <1>10. pc'[t] = "done"
    BY <1>1, <1>5 DEF TypeOK
  <1>11. KnownFound(t)'
    BY <1>1, <1>5, <1>8, KnownKept DEF Puts
  <1>12. Control(t)'
    BY <1>1, <1>5, <1>10 DEF Control, Open
  <1> QED BY <1>1, <1>2, <1>3, <1>5, <1>7, <1>8, <1>9, <1>10, <1>11, <1>12 DEF row, e

LEMMA TypeAddFact ==
  ASSUME EntityAssumption, TypeInvariant, NEW t \in Requests, AddFact(t)
  PROVE  /\ By(t) /\ Control(t)' /\ KnownFound(t)'
         /\ UNCHANGED <<db, call, found>> /\ KeepsEntities(t)
         /\ pc[t] = "fact" /\ pc'[t] = "done" /\ call[t].kind = "fact"
  <1> DEFINE fact == [subject |-> found[t][1], object |-> found[t][2]]
  <1>1. Control(t) /\ KnownFound(t) /\ pc[t] = "fact" /\ TypeOK
    BY DEF TypeInvariant, AddFact
  <1>2. Holds(t, 2) /\ call[t].kind = "fact"
    BY <1>1 DEF Control
  <1>3. fact \in [subject : Entities, object : Entities]
    BY <1>2, PairIs
  <1>4. /\ UNCHANGED writes \/ \E f \in Edges : Write(t, "edges", [x \in {f} |-> fact])
        /\ pc' = [pc EXCEPT ![t] = "done"]
        /\ UNCHANGED <<db, call, wanted, found>>
    BY DEF AddFact, Goto, Fresh
  <1>5. IsStore(writes[t])
    BY <1>1 DEF TypeOK
  <1> HIDE DEF fact
  <1>6. /\ DOMAIN writes' = Requests /\ \A u \in Requests \ {t} : writes'[u] = writes[u]
        /\ IsStore(writes'[t]) /\ KeepsEntities(t)
    <2>1. CASE UNCHANGED writes
      BY <1>5, <2>1 DEF KeepsEntities, TypeInvariant
    <2>2. CASE \E f \in Edges : Write(t, "edges", [x \in {f} |-> fact])
      <3>1. PICK f \in Edges : Write(t, "edges", [x \in {f} |-> fact])
        BY <2>2
      <3> DEFINE rows == [x \in {f} |-> fact]
                 w    == [writes[t] EXCEPT !["edges"] = Overlay(writes[t]["edges"], rows)]
      <3>2. DOMAIN rows \subseteq Edges
            /\ \A x \in DOMAIN rows : rows[x] \in [subject : Entities, object : Entities]
        BY <1>3
      <3> HIDE DEF rows
      <3>3. /\ DOMAIN writes' = Requests
            /\ \A u \in Requests \ {t} : writes'[u] = writes[u]
            /\ writes'[t] = [writes[t] EXCEPT !["edges"] = Overlay(writes[t]["edges"], rows)]
        BY <3>1, WriteIs DEF rows
      <3>4. IsStore(w) /\ w.entities = writes[t].entities /\ w.audit = writes[t].audit
        BY <1>5, <3>2, EdgesTyped
      <3>5. writes'[t] = w
        BY <3>3
      <3> HIDE DEF w
      <3> QED BY <3>3, <3>4, <3>5 DEF KeepsEntities
    <2> QED BY <1>4, <2>1, <2>2
  <1>7. By(t)
    BY <1>1, <1>4, <1>6 DEF By, TypeOK, Places
  <1>8. pc'[t] = "done"
    BY <1>1, <1>4 DEF TypeOK
  <1>9. KnownFound(t)'
    BY <1>1, <1>4, <1>6, KnownKept DEF KeepsEntities
  <1>10. Control(t)'
    BY <1>1, <1>4, <1>8 DEF Control, Open
  <1> QED BY <1>1, <1>2, <1>4, <1>6, <1>7, <1>8, <1>9, <1>10

(* What a request refers to: the identifier names e from here on. *)
Referred(t, e) ==
  LET v == call[t].value
  IN /\ writes'[t].refs = IF v = NoIdentifier THEN writes[t].refs
                          ELSE Overlay(writes[t].refs, [x \in {v} |-> e])
     /\ writes'[t].linked = IF v = NoIdentifier THEN writes[t].linked
                            ELSE writes[t].linked \cup {<<v, e>>}

LEMMA ReferIs ==
  ASSUME EntityAssumption, TypeInvariant, NEW t \in Requests, NEW e \in Entities, NEW rows,
         DOMAIN rows \subseteq Entities, \A x \in DOMAIN rows : rows[x] \in Entity,
         pc[t] \in {"link", "create"}, Refer(t, e, rows)
  PROVE  /\ By(t) /\ Control(t)' /\ KnownFound(t)'
         /\ UNCHANGED <<db, call, found>> /\ pc'[t] = "done" /\ call[t].kind = "ingest"
         /\ writes'[t].entities = Overlay(writes[t].entities, rows)
         /\ writes'[t].audit = writes[t].audit
         /\ Referred(t, e)
  <1> DEFINE v   == call[t].value
             new == Overlay(writes[t].entities, rows)
             refs == IF v = NoIdentifier THEN writes[t].refs
                     ELSE Overlay(writes[t].refs, [x \in {v} |-> e])
             linked == IF v = NoIdentifier THEN writes[t].linked
                       ELSE writes[t].linked \cup {<<v, e>>}
  <1>1. Control(t) /\ KnownFound(t) /\ TypeOK
    BY DEF TypeInvariant
  <1>2. call[t].kind = "ingest" /\ call[t] \in Calls /\ v \in Identifiers \cup {NoIdentifier}
    BY <1>1, CallIs DEF Control, Open
  <1>3. /\ writes' = [writes EXCEPT ![t].entities = new, ![t].refs = refs, ![t].linked = linked]
        /\ pc' = [pc EXCEPT ![t] = "done"]
        /\ UNCHANGED <<db, call, wanted, found>>
    BY DEF Refer, Goto
  <1>4. IsStore(writes[t]) /\ DOMAIN writes[t] = {"entities", "edges", "refs", "audit", "linked"}
        /\ DOMAIN writes = Requests
    BY <1>1 DEF TypeOK, IsStore, Nothing, TypeInvariant
  <1>5. /\ DOMAIN new \subseteq Entities
        /\ \A x \in DOMAIN new : new[x] \in Entity
    BY <1>4, OverlayTyped DEF IsStore
  <1>6. DOMAIN refs \subseteq Identifiers /\ \A x \in DOMAIN refs : refs[x] \in Entities
    <2>1. CASE v = NoIdentifier
      BY <1>4, <2>1 DEF IsStore
    <2>2. CASE v # NoIdentifier
      <3> DEFINE row == [x \in {v} |-> e]
      <3>1. DOMAIN row \subseteq Identifiers /\ \A x \in DOMAIN row : row[x] \in Entities
        BY <1>2, <2>2
      <3> HIDE DEF row
      <3>2. /\ DOMAIN Overlay(writes[t].refs, row) \subseteq Identifiers
            /\ \A x \in DOMAIN Overlay(writes[t].refs, row) : Overlay(writes[t].refs, row)[x] \in Entities
        BY <1>4, <3>1, OverlayTyped DEF IsStore
      <3> QED BY <2>2, <3>2 DEF row
    <2> QED BY <2>1, <2>2
  <1>7. linked \subseteq Identifiers \X Entities
    BY <1>2, <1>4 DEF IsStore
  <1> HIDE DEF new, refs, linked
  <1>8. /\ DOMAIN writes' = Requests /\ \A u \in Requests \ {t} : writes'[u] = writes[u]
        /\ DOMAIN writes'[t] = DOMAIN writes[t]
        /\ writes'[t].entities = new /\ writes'[t].audit = writes[t].audit
        /\ writes'[t].edges = writes[t].edges /\ writes'[t].refs = refs
        /\ writes'[t].linked = linked
    BY <1>3, <1>4
  <1>9. IsStore(writes'[t])
    BY <1>4, <1>5, <1>6, <1>7, <1>8 DEF IsStore
  <1>10. By(t)
    BY <1>1, <1>3, <1>8, <1>9 DEF By, TypeOK, Places
  <1>11. pc'[t] = "done"
    BY <1>1, <1>3 DEF TypeOK
  <1>12. DOMAIN writes[t].entities \subseteq DOMAIN writes'[t].entities
    <2>1. DOMAIN new = DOMAIN writes[t].entities \cup DOMAIN rows
      BY OverlayIs DEF new
    <2> QED BY <1>8, <2>1
  <1>13. KnownFound(t)'
    BY <1>1, <1>3, <1>12, KnownKept
  <1>14. Control(t)'
    BY <1>1, <1>2, <1>3, <1>11 DEF Control, Open
  <1>15. Referred(t, e)
    BY <1>8 DEF Referred, refs, linked
  <1> QED BY <1>2, <1>3, <1>8, <1>10, <1>11, <1>13, <1>14, <1>15 DEF new

LEMMA TypeLink ==
  ASSUME EntityAssumption, TypeInvariant, NEW t \in Requests, Link(t)
  PROVE  /\ By(t) /\ Control(t)' /\ KnownFound(t)'
         /\ UNCHANGED <<db, call, found>> /\ KeepsEntities(t)
         /\ pc[t] = "link" /\ pc'[t] = "done" /\ call[t].kind = "ingest"
         /\ Referred(t, found[t][1])
  <1>1. Control(t) /\ pc[t] = "link" /\ Refer(t, found[t][1], << >>)
    BY DEF TypeInvariant, Link
  <1>2. found[t][1] \in Entities
    BY <1>1 DEF Control, Holds
  <1> PICK none : none = << >>
    OBVIOUS
  <1>3. DOMAIN none = {}
    OBVIOUS
  <1>4. DOMAIN none \subseteq Entities /\ \A x \in DOMAIN none : none[x] \in Entity
    BY <1>3
  <1>5. /\ By(t) /\ Control(t)' /\ KnownFound(t)'
        /\ UNCHANGED <<db, call, found>> /\ pc'[t] = "done" /\ call[t].kind = "ingest"
        /\ writes'[t].entities = Overlay(writes[t].entities, none)
        /\ writes'[t].audit = writes[t].audit /\ Referred(t, found[t][1])
    BY <1>1, <1>2, <1>4, ReferIs
  <1>6. /\ DOMAIN writes'[t].entities = DOMAIN writes[t].entities
        /\ \A x \in DOMAIN writes[t].entities : writes'[t].entities[x] = writes[t].entities[x]
    <2> DEFINE old == writes[t].entities
    <2>1. /\ DOMAIN Overlay(old, none) = DOMAIN old
          /\ \A x \in DOMAIN old : Overlay(old, none)[x] = old[x]
      BY <1>3, OverlayNone
    <2> QED BY <1>3, <1>5, <2>1
  <1> QED BY <1>1, <1>5, <1>6 DEF KeepsEntities

LEMMA TypeCreate ==
  ASSUME EntityAssumption, TypeInvariant, NEW t \in Requests, Create(t)
  PROVE  \E e \in Entities, row \in Entity :
            /\ By(t) /\ Control(t)' /\ KnownFound(t)'
            /\ UNCHANGED <<db, call, found>> /\ pc[t] = "create" /\ pc'[t] = "done"
            /\ call[t].kind = "ingest"
            /\ e \notin DOMAIN db.entities /\ \A u \in Requests : e \notin DOMAIN writes[u].entities
            /\ row.merged = NoEntity /\ Puts(t, e, row)
            /\ writes'[t].audit = writes[t].audit /\ Referred(t, e)
  <1> DEFINE row == [name |-> call[t].name, merged |-> NoEntity, deleted |-> FALSE]
  <1>1. Control(t) /\ pc[t] = "create" /\ TypeOK
    BY DEF TypeInvariant, Create
  <1>2. call[t] \in Calls /\ call[t].name \in Names
    BY <1>1, CallIs DEF Control, Open
  <1>3. row \in Entity /\ row.merged = NoEntity
    BY <1>2 DEF Entity
  <1>4. PICK e \in Fresh(Entities, "entities") : Refer(t, e, [x \in {e} |-> row])
    BY DEF Create
  <1>5. /\ e \in Entities /\ e \notin DOMAIN db.entities
        /\ \A u \in Requests : e \notin DOMAIN writes[u].entities
    BY DEF Fresh
  <1> HIDE DEF row
  <1> DEFINE rows == [x \in {e} |-> row]
  <1>6. DOMAIN rows \subseteq Entities /\ \A x \in DOMAIN rows : rows[x] \in Entity
    BY <1>3, <1>5
  <1>7. Refer(t, e, rows)
    BY <1>4
  <1> HIDE DEF rows
  <1>8. /\ By(t) /\ Control(t)' /\ KnownFound(t)'
        /\ UNCHANGED <<db, call, found>> /\ pc'[t] = "done" /\ call[t].kind = "ingest"
        /\ writes'[t].entities = Overlay(writes[t].entities, rows)
        /\ writes'[t].audit = writes[t].audit /\ Referred(t, e)
    BY <1>1, <1>5, <1>6, <1>7, ReferIs
  <1>9. Puts(t, e, row)
    BY <1>8, PutIs DEF rows
  <1> QED BY <1>1, <1>3, <1>5, <1>8, <1>9

LEMMA EndIs ==
  ASSUME TypeInvariant, NEW t \in Requests, End(t), Open(t), IsStore(db')
  PROVE  /\ By(t) /\ Control(t)' /\ KnownFound(t)'
         /\ UNCHANGED call /\ pc'[t] = "ended" /\ writes'[t] = Nothing
  <1>1. /\ pc' = [pc EXCEPT ![t] = "ended"]
        /\ wanted' = [wanted EXCEPT ![t] = << >>]
        /\ found' = [found EXCEPT ![t] = << >>]
        /\ writes' = [writes EXCEPT ![t] = Nothing]
        /\ UNCHANGED call
    BY DEF End, Goto
  <1>2. << >> \in Seq(Entities \cup Names) /\ << >> \in Seq(Entities \cup {NoEntity})
    BY EmptySeq
  <1>3. By(t)
    BY <1>1, <1>2, NothingIs DEF By, TypeInvariant, TypeOK, Places
  <1>4. pc'[t] = "ended" /\ found'[t] = << >> /\ writes'[t] = Nothing
    BY <1>1 DEF TypeInvariant, TypeOK
  <1>5. Control(t)'
    BY <1>4 DEF Control, Open
  <1>6. KnownFound(t)'
    BY <1>4 DEF KnownFound
  <1> QED BY <1>1, <1>3, <1>4, <1>5, <1>6

(* The other requests keep everything; what t ends with, or writes, is     *)
(* committed or not.                                                       *)
LEMMA TypeEnd ==
  ASSUME TypeInvariant, NEW t \in Requests, Commit(t) \/ Rollback(t) \/ Crash(t)
  PROVE  /\ By(t) /\ Control(t)' /\ KnownFound(t)'
         /\ UNCHANGED call /\ pc'[t] = "ended" /\ writes'[t] = Nothing /\ Open(t)
         /\ db' = db \/ (db' = View(t) /\ pc[t] = "done")
         /\ DOMAIN db.entities \subseteq DOMAIN db'.entities
  <1>1. End(t) /\ Open(t) /\ (db' = db \/ (db' = View(t) /\ pc[t] = "done"))
    BY DEF Commit, Rollback, Crash, Open
  <1>2. IsStore(db) /\ IsStore(View(t))
    BY ViewTyped DEF TypeInvariant, TypeOK
  <1>3. IsStore(db') /\ DOMAIN db.entities \subseteq DOMAIN db'.entities
    BY <1>1, <1>2, ViewIs
  <1> QED BY <1>1, <1>3, EndIs

LEMMA TypeStep ==
  ASSUME EntityAssumption, TypeInvariant, [Next]_vars
  PROVE  TypeInvariant'
<1>1. CASE UNCHANGED vars
  BY <1>1 DEF vars, TypeInvariant, TypeOK, Control, KnownFound, Holds, Open, Survivor, Loser
<1>2. ASSUME NEW t \in Requests, Receive(t) \/ Step(t)
      PROVE  By(t) /\ Control(t)' /\ KnownFound(t)' /\ UNCHANGED db
  <2>1. CASE Receive(t)
    <3>1. UNCHANGED <<db, found, writes>> /\ KnownFound(t)
      BY <2>1 DEF Receive, TypeInvariant
    <3> QED BY <2>1, <3>1, TypeReceive, KnownKept
  <2>2. CASE ByIdentifier(t) \/ ByName(t) \/ BySimilarity(t)
    <3>1. /\ pc[t] \in {"identifier", "name", "similar"} /\ UNCHANGED <<db, writes>>
          /\ By(t) /\ Control(t)'
      BY <2>2, ResolverOutcomes, TypeResolver
    <3>2. found[t] = << >> /\ found'[t] = << >>
      <4>1. UNCHANGED found
        BY <2>2, ResolverOutcomes DEF Settles, Passes
      <4> QED BY <3>1, <4>1 DEF TypeInvariant, Control
    <3> QED BY <3>1, <3>2 DEF KnownFound
  <2>3. CASE Get(t)
    BY <2>3, TypeGet DEF Get
  <2>4. CASE MoveSubjects(t) \/ MoveObjects(t)
    BY <2>4, TypeMove
  <2>5. CASE MarkMerged(t)
    BY <2>5, TypeMarkMerged
  <2>6. CASE SoftDelete(t)
    BY <2>6, TypeDelete
  <2>7. CASE AddFact(t)
    BY <2>7, TypeAddFact
  <2>8. CASE Link(t)
    BY <2>8, TypeLink
  <2>9. CASE Create(t)
    BY <2>9, TypeCreate
  <2> QED BY <1>2, <2>1, <2>2, <2>3, <2>4, <2>5, <2>6, <2>7, <2>8, <2>9 DEF Step
<1>3. ASSUME NEW t \in Requests, Receive(t) \/ Step(t) PROVE TypeInvariant'
  BY <1>2, <1>3, TypedBy
<1>4. ASSUME NEW t \in Requests, Commit(t) \/ Rollback(t) \/ Crash(t) PROVE TypeInvariant'
  BY <1>4, TypeEnd, TypedBy
<1> QED BY <1>1, <1>3, <1>4 DEF Next, Quiet

LEMMA TypeInit == ASSUME EntityAssumption, Init PROVE TypeInvariant
  <1>1. << >> \in Seq(Entities \cup Names) /\ << >> \in Seq(Entities \cup {NoEntity})
    BY EmptySeq
  <1>2. IsStore(db)
    <2> DEFINE rows == [e \in DOMAIN Stored |->
                          [name |-> Stored[e], merged |-> NoEntity, deleted |-> FALSE]]
    <2>1. DOMAIN rows \subseteq Entities /\ \A e \in DOMAIN rows : rows[e] \in Entity
      BY DEF EntityAssumption, Entity
    <2> HIDE DEF rows
    <2>2. db = [Nothing EXCEPT !.entities = rows]
      BY DEF Init, rows
    <2>3. /\ DOMAIN db = DOMAIN Nothing /\ db.entities = rows /\ db.edges = Nothing.edges
          /\ db.refs = Nothing.refs /\ db.audit = Nothing.audit /\ db.linked = Nothing.linked
      BY <2>2 DEF Nothing
    <2> QED BY <2>1, <2>3, NothingIs DEF IsStore
  <1>3. TypeOK
    BY <1>1, <1>2, NothingIs DEF Init, TypeOK
  <1>4. DOMAIN writes = Requests /\ \A t \in Requests : Control(t) /\ KnownFound(t)
    BY DEF Init, Control, KnownFound, Open
  <1> QED BY <1>3, <1>4 DEF TypeInvariant

LEMMA TypeAlways == Spec => []TypeInvariant
<1>1. Init => TypeInvariant
  BY TypeInit, EntityAssumption
<1>2. TypeInvariant /\ [Next]_vars => TypeInvariant'
  BY TypeStep, EntityAssumption
<1> QED BY <1>1, <1>2, PTL DEF Spec

(* Every request finds in its variables what its statement needs.          *)
THEOREM IdentityTypes == Spec => []TypeOK
<1>1. TypeInvariant => TypeOK
  BY DEF TypeInvariant
<1> QED BY <1>1, TypeAlways, PTL

-----------------------------------------------------------------------------
(* Decisions about entities *)

(* What a statement of t may do to the rows of entities. *)
RowEffect(t) ==
  \/ KeepsEntities(t)
  \/ \E e \in Entities, row \in Entity :
       /\ Puts(t, e, row)
       /\ \A u \in Requests \ {t} : e \notin DOMAIN writes[u].entities
       /\ e \in DOMAIN View(t).entities => Follows(View(t).entities[e], row)

LEMMA StepEffect ==
  ASSUME EntityAssumption, TypeInvariant, NEW t \in Requests, Receive(t) \/ Step(t)
  PROVE  By(t) /\ UNCHANGED db /\ RowEffect(t)
  <1>1. CASE Receive(t)
    BY <1>1, TypeReceive DEF Receive, RowEffect, KeepsEntities
  <1>2. CASE ByIdentifier(t) \/ ByName(t) \/ BySimilarity(t)
    BY <1>2, ResolverOutcomes, TypeResolver DEF RowEffect, KeepsEntities
  <1>3. CASE Get(t)
    <2>1. UNCHANGED <<db, writes>>
      BY <1>3, GetOutcomes
    <2> QED BY <1>3, <2>1, TypeGet DEF RowEffect, KeepsEntities
  <1>4. CASE MoveSubjects(t) \/ MoveObjects(t)
    BY <1>4, TypeMove DEF RowEffect
  <1>5. CASE MarkMerged(t)
    <2> DEFINE s == Survivor(t)
               l == Loser(t)
               row == MarkedAs(View(t).entities[l], s)
    <2>1. /\ By(t) /\ UNCHANGED db /\ s \in Entities /\ l \in Entities
          /\ View(t).entities[l] \in Entity /\ Puts(t, l, row)
      BY <1>5, TypeMarkMerged
    <2>2. row \in Entity /\ Follows(View(t).entities[l], row)
      BY <2>1 DEF MarkedAs, Entity, Follows
    <2>3. \A u \in Requests \ {t} : l \notin DOMAIN writes[u].entities
      BY <1>5 DEF MarkMerged, EntityFree
    <2> HIDE DEF s, l, row
    <2> QED BY <2>1, <2>2, <2>3 DEF RowEffect, l
  <1>6. CASE SoftDelete(t)
    <2> DEFINE e == found[t][1]
               row == [View(t).entities[e] EXCEPT !.deleted = TRUE]
    <2>1. /\ By(t) /\ UNCHANGED db /\ e \in DOMAIN View(t).entities
          /\ View(t).entities[e] \in Entity /\ Puts(t, e, row)
      BY <1>6, TypeDelete
    <2>2. row \in Entity /\ Follows(View(t).entities[e], row)
      BY <2>1 DEF Entity, Follows
    <2>3. \A u \in Requests \ {t} : e \notin DOMAIN writes[u].entities
      BY <1>6 DEF SoftDelete, EntityFree
    <2>4. e \in Entities
      BY <2>1, ViewTyped DEF TypeInvariant, IsStore
    <2> HIDE DEF e, row
    <2> QED BY <2>1, <2>2, <2>3, <2>4 DEF RowEffect
  <1>7. CASE AddFact(t)
    BY <1>7, TypeAddFact DEF RowEffect
  <1>8. CASE Link(t)
    BY <1>8, TypeLink DEF RowEffect
  <1>9. CASE Create(t)
    <2>1. PICK e \in Entities, row \in Entity :
            /\ By(t) /\ UNCHANGED db
            /\ e \notin DOMAIN db.entities /\ \A u \in Requests : e \notin DOMAIN writes[u].entities
            /\ Puts(t, e, row)
      BY <1>9, TypeCreate
    <2>2. e \notin DOMAIN View(t).entities
      BY <2>1, ViewIs
    <2> QED BY <2>1, <2>2 DEF RowEffect
  <1> QED BY <1>1, <1>2, <1>3, <1>4, <1>5, <1>6, <1>7, <1>8, <1>9 DEF Step

LEMMA RowsStep ==
  ASSUME EntityAssumption, RowInvariant, NEW t \in Requests, Receive(t) \/ Step(t)
  PROVE  EntitiesApart' /\ \A u \in Requests : RowsFollow(u)'
  <1>1. By(t) /\ UNCHANGED db /\ RowEffect(t)
    BY StepEffect DEF RowInvariant
  <1>2. \A u \in Requests \ {t} : writes'[u] = writes[u]
    BY <1>1 DEF By
  <1>3. ASSUME NEW u \in Requests \ {t} PROVE RowsFollow(u)'
    <2>1. RowsFollow(u) /\ writes'[u] = writes[u]
      BY <1>2 DEF RowInvariant
    <2> QED BY <1>1, <2>1 DEF RowsFollow
  <1>4. RowsFollow(t)
    BY DEF RowInvariant
  <1>5. CASE KeepsEntities(t)
    <2>1. EntitiesApart'
      BY <1>2, <1>5 DEF RowInvariant, EntitiesApart, KeepsEntities
    <2>2. RowsFollow(t)'
      BY <1>1, <1>4, <1>5 DEF RowsFollow, KeepsEntities
    <2>3. \A u \in Requests : RowsFollow(u)'
      <3> TAKE u \in Requests
      <3>1. CASE u = t
        BY <2>2, <3>1 DEF RowsFollow
      <3> QED BY <1>3, <3>1
    <2> QED BY <2>1, <2>3
  <1>6. CASE ~KeepsEntities(t)
    <2>1. PICK e \in Entities, row \in Entity :
            /\ Puts(t, e, row)
            /\ \A u \in Requests \ {t} : e \notin DOMAIN writes[u].entities
            /\ e \in DOMAIN View(t).entities => Follows(View(t).entities[e], row)
      BY <1>1, <1>6 DEF RowEffect
    <2>2. EntitiesApart'
      <3> SUFFICES ASSUME NEW u \in Requests, NEW v \in Requests, u # v
                   PROVE  DOMAIN writes'[u].entities \cap DOMAIN writes'[v].entities = {}
        BY DEF EntitiesApart
      <3>1. DOMAIN writes[u].entities \cap DOMAIN writes[v].entities = {}
        BY DEF RowInvariant, EntitiesApart
      <3>2. CASE u # t /\ v # t
        BY <1>2, <3>1, <3>2
      <3>3. CASE u = t
        BY <1>2, <2>1, <3>1, <3>3 DEF Puts
      <3>4. CASE v = t
        BY <1>2, <2>1, <3>1, <3>4 DEF Puts
      <3> QED BY <3>2, <3>3, <3>4
    <2>3. ASSUME NEW x \in DOMAIN writes'[t].entities \cap DOMAIN db'.entities
          PROVE  Follows(db'.entities[x], writes'[t].entities[x])
      <3>1. CASE x # e
        BY <1>1, <1>4, <2>1, <2>3, <3>1 DEF Puts, RowsFollow
      <3>2. CASE x = e
        <4>1. e \in DOMAIN db.entities /\ writes'[t].entities[x] = row
          BY <1>1, <2>1, <2>3, <3>2 DEF Puts
        <4>2. CASE e \in DOMAIN writes[t].entities
          <5>1. Follows(db.entities[e], writes[t].entities[e])
            BY <1>4, <4>1, <4>2 DEF RowsFollow
          <5>2. Follows(writes[t].entities[e], row)
            BY <2>1, <4>1, <4>2, ViewIs
          <5> QED BY <1>1, <3>2, <4>1, <5>1, <5>2 DEF Follows
        <4>3. CASE e \notin DOMAIN writes[t].entities
          BY <1>1, <2>1, <3>2, <4>1, <4>3, ViewIs
        <4> QED BY <4>2, <4>3
      <3> QED BY <3>1, <3>2
    <2>4. \A u \in Requests : RowsFollow(u)'
      <3> TAKE u \in Requests
      <3>1. CASE u = t
        BY <2>3, <3>1 DEF RowsFollow
      <3> QED BY <1>3, <3>1
    <2> QED BY <2>2, <2>4
  <1> QED BY <1>5, <1>6

(* What a commit makes of the entities. *)
LEMMA CommitIs ==
  ASSUME EntityAssumption, RowInvariant, NEW t \in Requests,
         Commit(t) \/ Rollback(t) \/ Crash(t)
  PROVE  /\ \A e \in DOMAIN db.entities : /\ e \in DOMAIN db'.entities
                                          /\ Follows(db.entities[e], db'.entities[e])
         /\ \A u \in Requests \ {t} : \A e \in DOMAIN writes[u].entities :
              /\ e \in DOMAIN db'.entities <=> e \in DOMAIN db.entities
              /\ db'.entities[e] = db.entities[e] \/ e \notin DOMAIN db.entities
  <1>1. db' = db \/ db' = View(t)
    BY TypeEnd DEF RowInvariant
  <1>2. RowsFollow(t) /\ EntitiesApart
    BY DEF RowInvariant
  <1>3. CASE db' = db
    BY <1>3 DEF Follows
  <1>4. CASE db' = View(t)
    <2>1. /\ DOMAIN db'.entities = DOMAIN db.entities \cup DOMAIN writes[t].entities
          /\ \A e \in DOMAIN writes[t].entities : db'.entities[e] = writes[t].entities[e]
          /\ \A e \in DOMAIN db.entities \ DOMAIN writes[t].entities :
               db'.entities[e] = db.entities[e]
      BY <1>4, ViewIs
    <2>2. \A e \in DOMAIN db.entities : Follows(db.entities[e], db'.entities[e])
      BY <1>2, <2>1 DEF RowsFollow, Follows
    <2>3. \A u \in Requests \ {t} : \A e \in DOMAIN writes[u].entities : e \notin DOMAIN writes[t].entities
      BY <1>2 DEF EntitiesApart
    <2> QED BY <2>1, <2>2, <2>3
  <1> QED BY <1>1, <1>3, <1>4

LEMMA RowsEnd ==
  ASSUME EntityAssumption, RowInvariant, NEW t \in Requests,
         Commit(t) \/ Rollback(t) \/ Crash(t)
  PROVE  EntitiesApart' /\ \A u \in Requests : RowsFollow(u)'
  <1>1. /\ By(t) /\ writes'[t] = Nothing
    BY TypeEnd DEF RowInvariant
  <1>2. /\ DOMAIN writes'[t].entities = {}
        /\ \A u \in Requests \ {t} : writes'[u] = writes[u]
    BY <1>1, NothingIs DEF By
  <1>3. EntitiesApart'
    BY <1>2 DEF RowInvariant, EntitiesApart
  <1>4. ASSUME NEW u \in Requests, NEW e \in DOMAIN writes'[u].entities \cap DOMAIN db'.entities
        PROVE  Follows(db'.entities[e], writes'[u].entities[e])
    <2>1. u # t /\ writes'[u] = writes[u] /\ e \in DOMAIN writes[u].entities
      BY <1>2, <1>4
    <2>2. RowsFollow(u)
      BY DEF RowInvariant
    <2>3. e \in DOMAIN db.entities /\ db'.entities[e] = db.entities[e]
      BY <1>4, <2>1, CommitIs
    <2> QED BY <2>1, <2>2, <2>3 DEF RowsFollow
  <1>5. \A u \in Requests : RowsFollow(u)'
    BY <1>4 DEF RowsFollow
  <1> QED BY <1>3, <1>5

LEMMA RowsNext ==
  ASSUME EntityAssumption, RowInvariant, [Next]_vars
  PROVE  RowInvariant'
  <1>1. TypeInvariant'
    BY TypeStep DEF RowInvariant
  <1>2. CASE UNCHANGED vars
    BY <1>1, <1>2 DEF vars, RowInvariant, EntitiesApart, RowsFollow
  <1>3. ASSUME NEW t \in Requests, Receive(t) \/ Step(t)
        PROVE  EntitiesApart' /\ \A u \in Requests : RowsFollow(u)'
    BY <1>3, RowsStep
  <1>4. ASSUME NEW t \in Requests, Commit(t) \/ Rollback(t) \/ Crash(t)
        PROVE  EntitiesApart' /\ \A u \in Requests : RowsFollow(u)'
    BY <1>4, RowsEnd
  <1> QED BY <1>1, <1>2, <1>3, <1>4 DEF Next, Quiet, RowInvariant

LEMMA RowsAlways == Spec => []RowInvariant
<1>1. Init => RowInvariant
  <2> SUFFICES ASSUME Init PROVE RowInvariant
    OBVIOUS
  <2>1. TypeInvariant
    BY TypeInit, EntityAssumption
  <2>2. \A t \in Requests : DOMAIN writes[t].entities = {}
    BY NothingIs DEF Init
  <2> QED BY <2>1, <2>2 DEF RowInvariant, EntitiesApart, RowsFollow
<1>2. RowInvariant /\ [Next]_vars => RowInvariant'
  BY RowsNext, EntityAssumption
<1> QED BY <1>1, <1>2, PTL DEF Spec

(* A merge or a deletion somebody committed is not undone by a request     *)
(* that read the entity before, whoever merges, deletes, ingests or writes *)
(* facts at the time.                                                      *)
THEOREM DecisionsAlwaysStay == Spec => DecisionsStay
<1>1. RowInvariant /\ [Next]_vars
        => [\A e \in DOMAIN db.entities :
              /\ db.entities[e].merged # NoEntity => db'.entities[e].merged = db.entities[e].merged
              /\ db.entities[e].deleted => db'.entities[e].deleted]_db
  <2> SUFFICES ASSUME RowInvariant, [Next]_vars, db' # db, NEW e \in DOMAIN db.entities
               PROVE  Follows(db.entities[e], db'.entities[e])
    BY DEF Follows
  <2>1. \A t \in Requests : Receive(t) \/ Step(t) => UNCHANGED db
    BY StepEffect, EntityAssumption DEF RowInvariant
  <2>2. PICK t \in Requests : Commit(t) \/ Rollback(t) \/ Crash(t)
    BY <2>1 DEF Next, Quiet, vars
  <2> QED BY <2>2, CommitIs, EntityAssumption
<1> QED BY <1>1, RowsAlways, PTL DEF Spec, DecisionsStay

-----------------------------------------------------------------------------
(* Merge pointers, one merge at a time *)

LEMMA StepOpen ==
  ASSUME EntityAssumption, TypeInvariant, NEW t \in Requests, Step(t)
  PROVE  Open(t) /\ Open(t)' /\ UNCHANGED <<db, call>>
  <1>1. CASE ByIdentifier(t) \/ ByName(t) \/ BySimilarity(t)
    <2>1. /\ pc[t] \in {"identifier", "name", "similar"} /\ UNCHANGED <<db, call, writes>>
          /\ Settles(t) \/ Passes(t)
      BY <1>1, ResolverOutcomes
    <2>2. pc'[t] \in {"get", "name", "similar", "create"}
      BY <2>1 DEF Settles, Passes, TypeInvariant, TypeOK
    <2> QED BY <2>1, <2>2 DEF Open
  <1>2. CASE Get(t)
    <2>1. /\ pc[t] \in {"get", "check"} /\ UNCHANGED <<db, call, writes>>
          /\ \/ \E e \in Entities \cup {NoEntity} : Answered(t, e)
             \/ \E e \in Entities : Followed(t, e)
      BY <1>2, GetOutcomes
    <2>2. pc'[t] \notin {"new", "ended"}
      BY <2>1, TypeAnswered DEF Followed
    <2> QED BY <2>1, <2>2 DEF Open
  <1>3. CASE MoveSubjects(t) \/ MoveObjects(t)
    BY <1>3, TypeMove DEF Open
  <1>4. CASE MarkMerged(t)
    BY <1>4, TypeMarkMerged DEF Open
  <1>5. CASE SoftDelete(t)
    BY <1>5, TypeDelete DEF Open
  <1>6. CASE AddFact(t)
    BY <1>6, TypeAddFact DEF Open
  <1>7. CASE Link(t)
    BY <1>7, TypeLink DEF Open
  <1>8. CASE Create(t)
    BY <1>8, TypeCreate DEF Open
  <1> QED BY <1>1, <1>2, <1>3, <1>4, <1>5, <1>6, <1>7, <1>8 DEF Step

LEMMA KindStep ==
  ASSUME EntityAssumption, TypeInvariant, NEW kind \in Kinds, NEW t \in Requests, Step(t)
  PROVE  InProgress(kind)' = InProgress(kind)
  <1>1. By(t) /\ Open(t) /\ Open(t)' /\ UNCHANGED call
    BY StepOpen, StepEffect
  <1>2. \A u \in Requests : Open(u)' <=> Open(u)
    BY <1>1 DEF By, Open
  <1> QED BY <1>1, <1>2 DEF InProgress, Open

LEMMA KindReceive ==
  ASSUME EntityAssumption, TypeInvariant, NEW kind \in Kinds, MaxOpen[kind] <= 1, Sole(kind),
         NEW t \in Requests, Receive(t)
  PROVE  Sole(kind)' /\ \A u \in Requests \ {t} : u \in InProgress(kind)' <=> u \in InProgress(kind)
  <1>1. PICK c \in Calls :
          /\ pc[t] = "new"
          /\ Cardinality({u \in Requests : Open(u) /\ call[u].kind = c.kind}) < MaxOpen[c.kind]
          /\ call' = [call EXCEPT ![t] = c]
    BY DEF Receive
  <1>2. By(t)
    BY TypeReceive
  <1>3. call'[t] = c
    BY <1>1 DEF TypeInvariant, TypeOK
  <1>4. \A u \in Requests \ {t} : u \in InProgress(kind)' <=> u \in InProgress(kind)
    BY <1>2 DEF By, InProgress, Open
  <1>5. t \notin InProgress(kind)
    BY <1>1 DEF InProgress, Open
  <1>6. CASE c.kind = kind
    <2>1. Cardinality(InProgress(kind)) < MaxOpen[kind]
      BY <1>1, <1>6 DEF InProgress
    <2>2. Cardinality(InProgress(kind)) \in Nat /\ MaxOpen[kind] \in Nat
      BY FS_CardinalityType DEF Sole, EntityAssumption
    <2>3. Cardinality(InProgress(kind)) = 0
      BY <2>1, <2>2
    <2>4. InProgress(kind) = {}
      BY <2>3, FS_EmptySet DEF Sole
    <2>5. InProgress(kind)' \subseteq {t}
      BY <1>4, <2>4 DEF InProgress
    <2>6. IsFiniteSet({t}) /\ InProgress(kind)' \in SUBSET {t}
      BY <2>5, FS_Singleton
    <2>7. IsFiniteSet(InProgress(kind)')
      BY <2>6, FS_Subset
    <2> QED BY <1>4, <2>5, <2>7 DEF Sole
  <1>7. CASE c.kind # kind
    <2>1. t \notin InProgress(kind)'
      BY <1>3, <1>7 DEF InProgress
    <2>2. InProgress(kind)' = InProgress(kind)
      BY <1>4, <1>5, <2>1 DEF InProgress
    <2> QED BY <1>4, <2>2 DEF Sole
  <1> QED BY <1>6, <1>7

LEMMA KindEnd ==
  ASSUME EntityAssumption, TypeInvariant, NEW kind \in Kinds, Sole(kind), NEW t \in Requests,
         Commit(t) \/ Rollback(t) \/ Crash(t)
  PROVE  /\ Sole(kind)' /\ t \notin InProgress(kind)'
         /\ \A u \in Requests \ {t} : u \in InProgress(kind)' <=> u \in InProgress(kind)
  <1>1. By(t) /\ pc'[t] = "ended"
    BY TypeEnd
  <1>2. \A u \in Requests \ {t} : u \in InProgress(kind)' <=> u \in InProgress(kind)
    BY <1>1 DEF By, InProgress, Open
  <1>3. t \notin InProgress(kind)'
    BY <1>1 DEF InProgress, Open
  <1>4. InProgress(kind)' \subseteq InProgress(kind)
    BY <1>2, <1>3 DEF InProgress
  <1>5. InProgress(kind)' \in SUBSET InProgress(kind)
    BY <1>4
  <1>6. IsFiniteSet(InProgress(kind)')
    BY <1>5, FS_Subset DEF Sole
  <1> QED BY <1>2, <1>3, <1>4, <1>6 DEF Sole

LEMMA MergingStep ==
  ASSUME EntityAssumption, TypeInvariant, NEW t \in Requests, Step(t)
  PROVE  Merging' = Merging
  BY KindStep DEF Merging, Kinds

LEMMA MergingReceive ==
  ASSUME EntityAssumption, OneMergeAtATime, TypeInvariant, Alone, NEW t \in Requests, Receive(t)
  PROVE  Alone' /\ \A u \in Requests \ {t} : u \in Merging' <=> u \in Merging
  BY KindReceive DEF Merging, Alone, OneMergeAtATime, Kinds

LEMMA MergingEnd ==
  ASSUME EntityAssumption, TypeInvariant, Alone, NEW t \in Requests,
         Commit(t) \/ Rollback(t) \/ Crash(t)
  PROVE  Alone' /\ t \notin Merging' /\ \A u \in Requests \ {t} : u \in Merging' <=> u \in Merging
  BY KindEnd DEF Merging, Alone, Kinds

LEMMA PointersOther ==
  ASSUME NEW t \in Requests, By(t), UNCHANGED db, NEW u \in Requests \ {t},
         Pointers(u), u \in Merging' <=> u \in Merging
  PROVE  Pointers(u)'
  <1>1. pc'[u] = pc[u] /\ found'[u] = found[u] /\ writes'[u] = writes[u] /\ db' = db
    BY DEF By
  <1>2. Unmarked(u) => Unmarked(u)'
    BY <1>1 DEF Unmarked, IsRoot
  <1>3. \A s, l \in Entities : Marked(u, s, l) => Marked(u, s, l)'
    BY <1>1 DEF Marked, IsRoot
  <1>4. PointersKept(u) => PointersKept(u)'
    BY <1>1 DEF PointersKept
  <1> QED BY <1>1, <1>2, <1>3, <1>4 DEF Pointers

(* A statement of a request that merges nothing. *)
LEMMA PointersElse ==
  ASSUME EntityAssumption, TypeInvariant, NEW t \in Requests, Step(t), Pointers(t), t \notin Merging
  PROVE  Pointers(t)'
  <1>1. Open(t) /\ Open(t)' /\ UNCHANGED <<db, call>> /\ t \notin Merging' /\ Control(t)
    BY StepOpen, MergingStep DEF TypeInvariant
  <1>2. call[t].kind # "merge"
    BY <1>1 DEF Merging, InProgress
  <1>3. PointersKept(t)
    BY DEF Pointers
  <1>4. ASSUME KeepsEntities(t) PROVE PointersKept(t)'
    BY <1>1, <1>3, <1>4 DEF PointersKept, KeepsEntities
  <1>5. PointersKept(t)'
    <2>1. CASE ByIdentifier(t) \/ ByName(t) \/ BySimilarity(t)
      BY <1>4, <2>1, ResolverOutcomes DEF KeepsEntities
    <2>2. CASE Get(t)
      BY <1>4, <2>2, GetOutcomes DEF KeepsEntities
    <2>3. CASE MoveSubjects(t) \/ MoveObjects(t)
      BY <1>4, <2>3, TypeMove
    <2>4. ~MarkMerged(t)
      BY <1>1, <1>2 DEF MarkMerged, Control
    <2>5. CASE SoftDelete(t)
      <3> DEFINE e == found[t][1]
                 row == [View(t).entities[e] EXCEPT !.deleted = TRUE]
      <3>1. /\ e \in DOMAIN View(t).entities /\ View(t).entities[e] \in Entity
            /\ Puts(t, e, row) /\ writes'[t].audit = writes[t].audit
        BY <2>5, TypeDelete
      <3>2. row.merged = View(t).entities[e].merged
        BY <3>1 DEF Entity
      <3>3. row.merged = IF e \in DOMAIN db.entities THEN db.entities[e].merged ELSE NoEntity
        BY <1>3, <3>1, <3>2, ViewIs DEF PointersKept
      <3> HIDE DEF row, e
      <3> QED BY <1>1, <1>3, <3>1, <3>3 DEF PointersKept, Puts
    <2>6. CASE AddFact(t)
      BY <1>4, <2>6, TypeAddFact
    <2>7. CASE Link(t)
      BY <1>4, <2>7, TypeLink
    <2>8. CASE Create(t)
      <3>1. PICK e \in Entities, row \in Entity :
              /\ e \notin DOMAIN db.entities
              /\ row.merged = NoEntity /\ Puts(t, e, row)
              /\ writes'[t].audit = writes[t].audit
        BY <2>8, TypeCreate
      <3> QED BY <1>1, <1>3, <3>1 DEF PointersKept, Puts
    <2> QED BY <2>1, <2>2, <2>3, <2>4, <2>5, <2>6, <2>7, <2>8 DEF Step
  <1>6. pc'[t] # "new"
    BY <1>1 DEF Open
  <1> QED BY <1>1, <1>5, <1>6 DEF Pointers

(* The merge resolves its pair, moves the edges and marks the loser.       *)
LEMMA PointersMerge ==
  ASSUME EntityAssumption, TypeInvariant, NEW t \in Requests, Step(t), Pointers(t), t \in Merging
  PROVE  Pointers(t)'
  <1>1. Open(t)' /\ UNCHANGED <<db, call>> /\ t \in Merging' /\ Control(t) /\ KnownFound(t)
    BY StepOpen, MergingStep DEF TypeInvariant
  <1>2. call[t].kind = "merge" /\ call[t] \in Calls
    BY <1>1 DEF Merging, InProgress, Control
  <1>3. Unmarked(t) \/ \E s, l \in Entities : Marked(t, s, l)
    BY DEF Pointers
  <1> SUFFICES Unmarked(t)' \/ \E s, l \in Entities : Marked(t, s, l)'
    BY <1>1 DEF Pointers, Open
  <1>4. CASE ByIdentifier(t) \/ ByName(t) \/ BySimilarity(t)
    BY <1>1, <1>2, <1>4, ResolverOutcomes DEF Control
  <1>5. CASE Get(t)
    <2>1. /\ pc[t] \in {"get", "check"} /\ UNCHANGED <<db, call, writes>>
          /\ \/ \E e \in Entities \cup {NoEntity} :
                  (e = NoEntity \/ SeesRoot(t, e)) /\ Answered(t, e)
             \/ \E e \in Entities : Followed(t, e)
      BY <1>5, GetOutcomes
    <2>2. ASSUME NEW e \in Entities, Followed(t, e)
          PROVE  Unmarked(t)' \/ \E s, l \in Entities : Marked(t, s, l)'
      BY <1>3, <2>1, <2>2 DEF Followed, Unmarked, Marked, IsRoot
    <2>3. ASSUME NEW e \in Entities \cup {NoEntity}, e = NoEntity \/ SeesRoot(t, e), Answered(t, e)
          PROVE  Unmarked(t)' \/ \E s, l \in Entities : Marked(t, s, l)'
      <3>1. /\ found'[t] = Append(found[t], e)
            /\ pc[t] = "check" => pc'[t] \in {"done", "failed"}
            /\ pc[t] = "get" => pc'[t] \in {"get", "subjects", "failed"}
        BY <1>2, <2>1, <2>3, TypeAnswered
      <3>2. CASE Unmarked(t)
        <4>1. pc'[t] \in {"get", "subjects", "failed"} /\ pc[t] = "get"
          BY <2>1, <3>1, <3>2 DEF Unmarked
        <4>2. e = NoEntity \/ IsRoot(e)
          BY <2>3, <3>2, ViewIs DEF Unmarked, SeesRoot, IsRoot
        <4>3. /\ DOMAIN Append(found[t], e) = 1..(Len(found[t]) + 1) /\ DOMAIN found[t] = 1..Len(found[t])
              /\ Append(found[t], e)[Len(found[t]) + 1] = e
              /\ \A i \in 1..Len(found[t]) : Append(found[t], e)[i] = found[t][i]
              /\ Len(found[t]) \in Nat
          BY AppendIs, LenProperties DEF TypeInvariant, TypeOK
        <4>4. \A i \in DOMAIN Append(found[t], e) :
                i \in DOMAIN found[t] \/ i = Len(found[t]) + 1
          BY <4>3
        <4>5. \A i \in DOMAIN found'[t] : found'[t][i] # NoEntity => IsRoot(found'[t][i])
          BY <3>1, <3>2, <4>1, <4>2, <4>3, <4>4 DEF Unmarked
        <4> QED BY <2>1, <3>2, <4>1, <4>5 DEF Unmarked, IsRoot
      <3>3. CASE ~Unmarked(t)
        BY <1>3, <2>1, <3>1, <3>3 DEF Marked, IsRoot
      <3> QED BY <3>2, <3>3
    <2> QED BY <2>1, <2>2, <2>3
  <1>6. CASE MoveSubjects(t) \/ MoveObjects(t)
    <2>1. /\ UNCHANGED <<db, call, found>> /\ KeepsEntities(t)
          /\ pc[t] \in {"subjects", "objects"} /\ pc'[t] \in {"objects", "mark", "failed"}
      BY <1>6, TypeMove
    <2>2. Unmarked(t)
      BY <1>3, <2>1 DEF Marked
    <2> QED BY <2>1, <2>2 DEF Unmarked, KeepsEntities, IsRoot
  <1>7. CASE MarkMerged(t)
    <2> DEFINE s == Survivor(t)
               l == Loser(t)
               row == MarkedAs(View(t).entities[l], s)
    <2>1. /\ UNCHANGED <<db, call, found>> /\ pc[t] = "mark" /\ pc'[t] = "check"
          /\ s \in Entities /\ l \in Entities /\ s # l
          /\ View(t).entities[l] \in Entity
          /\ Puts(t, l, row)
          /\ writes'[t].audit = writes[t].audit \cup {<<s, l>>}
      BY <1>7, TypeMarkMerged
    <2>2. Unmarked(t)
      BY <1>3, <2>1 DEF Marked
    <2>3. Holds(t, 2)
      BY <1>1, <2>1 DEF Control
    <2>4. DOMAIN found[t] = 1..2
      BY <2>3, PairIs
    <2>5. IsRoot(s) /\ IsRoot(l)
      BY <2>1, <2>2, <2>4 DEF Unmarked, Survivor, Loser, EntityAssumption
    <2>6. View(t).entities[l] = db.entities[l]
      BY <2>2, <2>5, ViewIs DEF Unmarked, IsRoot
    <2>7. row.merged = s
      BY <2>1, <2>5, <2>6 DEF MarkedAs, IsRoot, Entity
    <2> HIDE DEF s, l, row
    <2>8. DOMAIN writes'[t].entities = {l} /\ writes'[t].entities[l].merged = s
          /\ writes'[t].audit = {<<s, l>>}
      BY <2>1, <2>2, <2>7 DEF Puts, Unmarked
    <2> PICK a \in Entities, b \in Entities : a = s /\ b = l
      BY <2>1
    <2>9. Marked(t, a, b)'
      BY <2>1, <2>5, <2>8 DEF Marked, IsRoot
    <2> QED BY <2>9
  <1>8. ~SoftDelete(t) /\ ~AddFact(t)
    BY <1>1, <1>2 DEF SoftDelete, AddFact, Control
  <1>9. ~Link(t) /\ ~Create(t)
    BY <1>1, <1>2 DEF Link, Create, Control
  <1> QED BY <1>4, <1>5, <1>6, <1>7, <1>8, <1>9 DEF Step

LEMMA PointersReceive ==
  ASSUME EntityAssumption, TypeInvariant, NEW t \in Requests, Receive(t), Pointers(t)
  PROVE  Pointers(t)'
  <1>1. /\ pc[t] = "new" /\ UNCHANGED <<db, found, writes>>
        /\ pc'[t] \in {"identifier", "get"}
        /\ pc'[t] = "identifier" => call'[t].kind = "ingest"
    <2>1. PICK c \in Calls :
            /\ pc[t] = "new" /\ UNCHANGED <<db, found, writes>>
            /\ call' = [call EXCEPT ![t] = c]
            /\ pc' = [pc EXCEPT ![t] = IF c.kind = "ingest" THEN "identifier" ELSE "get"]
      BY DEF Receive, Goto
    <2> QED BY <2>1 DEF TypeInvariant, TypeOK
  <1>2. found[t] = << >> /\ t \notin Merging
    BY <1>1 DEF TypeInvariant, Control, Merging, InProgress, Open
  <1>3. DOMAIN writes[t].entities = {} /\ writes[t].audit = {}
    BY <1>1, <1>2 DEF Pointers, PointersKept
  <1>4. t \in Merging' => Unmarked(t)'
    BY <1>1, <1>2, <1>3 DEF Merging, InProgress, Unmarked
  <1>5. PointersKept(t)'
    BY <1>1, <1>3 DEF PointersKept
  <1> QED BY <1>1, <1>3, <1>4, <1>5 DEF Pointers

(* What a commit makes of the pointers. *)
LEMMA CommitPointers ==
  ASSUME EntityAssumption, RowInvariant, NEW t \in Requests, Pointers(t),
         Commit(t) \/ Rollback(t) \/ Crash(t)
  PROVE  \/ /\ db'.audit = db.audit
            /\ \A e \in DOMAIN db.entities : db'.entities[e].merged = db.entities[e].merged
            /\ \A e \in DOMAIN db'.entities \ DOMAIN db.entities : db'.entities[e].merged = NoEntity
         \/ /\ t \in Merging
            /\ \E s, l \in Entities :
                 /\ db'.audit = db.audit \cup {<<s, l>>}
                 /\ IsRoot(s) /\ IsRoot(l) /\ s # l /\ db'.entities[l].merged = s
                 /\ DOMAIN db'.entities = DOMAIN db.entities
                 /\ \A e \in DOMAIN db.entities \ {l} :
                      db'.entities[e].merged = db.entities[e].merged
  <1>1. (db' = db \/ db' = View(t)) /\ Open(t)
    BY TypeEnd DEF RowInvariant
  <1>2. CASE db' = db
    BY <1>2
  <1>3. ASSUME db' = View(t)
        PROVE  /\ db'.audit = db.audit \cup writes[t].audit
               /\ DOMAIN db'.entities = DOMAIN db.entities \cup DOMAIN writes[t].entities
               /\ \A e \in DOMAIN writes[t].entities : db'.entities[e] = writes[t].entities[e]
               /\ \A e \in DOMAIN db.entities \ DOMAIN writes[t].entities :
                    db'.entities[e] = db.entities[e]
    BY <1>3, ViewIs
  <1>4. CASE db' = View(t) /\ t \notin Merging
    <2>1. PointersKept(t)
      BY <1>4 DEF Pointers
    <2> QED BY <1>3, <1>4, <2>1 DEF PointersKept
  <1>5. CASE db' = View(t) /\ t \in Merging /\ Unmarked(t)
    BY <1>3, <1>5 DEF Unmarked
  <1>6. CASE db' = View(t) /\ t \in Merging /\ ~Unmarked(t)
    <2>1. PICK s \in Entities, l \in Entities : Marked(t, s, l)
      BY <1>6 DEF Pointers
    <2>2. /\ DOMAIN writes[t].entities = {l} /\ writes[t].entities[l].merged = s
          /\ writes[t].audit = {<<s, l>>} /\ IsRoot(s) /\ IsRoot(l) /\ s # l
      BY <2>1 DEF Marked
    <2>3. l \in DOMAIN db.entities
      BY <2>2 DEF IsRoot
    <2>4. /\ db'.audit = db.audit \cup {<<s, l>>} /\ db'.entities[l].merged = s
          /\ DOMAIN db'.entities = DOMAIN db.entities
          /\ \A e \in DOMAIN db.entities \ {l} : db'.entities[e].merged = db.entities[e].merged
      BY <1>3, <1>6, <2>2, <2>3
    <2> QED BY <1>6, <2>2, <2>4
  <1> QED BY <1>1, <1>2, <1>4, <1>5, <1>6

LEMMA PointersEnd ==
  ASSUME EntityAssumption, MergeInvariant, NEW t \in Requests,
         Commit(t) \/ Rollback(t) \/ Crash(t)
  PROVE  \A u \in Requests : Pointers(u)'
  <1>1. By(t) /\ pc'[t] = "ended" /\ writes'[t] = Nothing
    BY TypeEnd DEF MergeInvariant, RowInvariant
  <1>2. t \notin Merging' /\ \A u \in Requests \ {t} : u \in Merging' <=> u \in Merging
    BY MergingEnd DEF MergeInvariant, RowInvariant
  <1>3. ASSUME NEW u \in Requests, u = t PROVE Pointers(u)'
    <2>1. PointersKept(u)'
      BY <1>1, <1>3, NothingIs DEF PointersKept
    <2>2. u \notin Merging' /\ pc'[u] # "new"
      BY <1>1, <1>2, <1>3
    <2> QED BY <2>1, <2>2 DEF Pointers
  <1>4. ASSUME NEW u \in Requests, u # t PROVE Pointers(u)'
    <2>1. /\ pc'[u] = pc[u] /\ found'[u] = found[u] /\ writes'[u] = writes[u]
          /\ u \in Merging' <=> u \in Merging
      BY <1>1, <1>2, <1>4 DEF By
    <2>2. Pointers(u)
      BY DEF MergeInvariant
    <2>3. \A e \in DOMAIN writes[u].entities :
            /\ e \in DOMAIN db'.entities <=> e \in DOMAIN db.entities
            /\ db'.entities[e] = db.entities[e] \/ e \notin DOMAIN db.entities
      BY <1>4, CommitIs DEF MergeInvariant
    <2>4. CASE u \notin Merging
      <3>1. PointersKept(u)
        BY <2>2, <2>4 DEF Pointers
      <3>2. PointersKept(u)'
        BY <2>1, <2>3, <3>1 DEF PointersKept
      <3> QED BY <2>1, <2>2, <2>4, <3>2 DEF Pointers
    <2>5. CASE u \in Merging
      <3>1. t \notin Merging
        BY <1>4, <2>5 DEF MergeInvariant, Alone, Sole, Merging
      <3>2. Pointers(t) /\ RowInvariant
        BY DEF MergeInvariant
      <3>3. \A e \in DOMAIN db.entities : db'.entities[e].merged = db.entities[e].merged
        BY <3>1, <3>2, CommitPointers
      <3>4. \A e \in DOMAIN db.entities : e \in DOMAIN db'.entities
        BY <3>2, CommitIs
      <3>5. \A e : IsRoot(e) => IsRoot(e)'
        BY <3>3, <3>4 DEF IsRoot
      <3>6. Unmarked(u) => Unmarked(u)'
        BY <2>1, <3>5 DEF Unmarked, IsRoot
      <3>7. \A s, l \in Entities : Marked(u, s, l) => Marked(u, s, l)'
        BY <2>1, <3>5 DEF Marked, IsRoot
      <3> QED BY <2>1, <2>2, <2>5, <3>6, <3>7 DEF Pointers
    <2> QED BY <2>4, <2>5
  <1> QED BY <1>3, <1>4

LEMMA AuditEnd ==
  ASSUME EntityAssumption, MergeInvariant, NEW t \in Requests,
         Commit(t) \/ Rollback(t) \/ Crash(t)
  PROVE  AuditTrue' /\ PointersRise'
  <1>1. RowInvariant /\ TypeOK /\ Pointers(t) /\ AuditTrue
    BY DEF MergeInvariant, RowInvariant, TypeInvariant
  <1>2. \A e \in DOMAIN db.entities : e \in DOMAIN db'.entities
    BY <1>1, CommitIs
  <1>3. /\ \A m \in db.audit : m[1] \in Entities
        /\ \A e \in DOMAIN db.entities : db.entities[e].merged \in Entities \cup {NoEntity} /\ e \in Entities
    BY <1>1 DEF TypeOK, IsStore, Entity
  <1>4. PICK rank \in [Entities -> Nat] : Rising(rank)
    BY DEF MergeInvariant, PointersRise
  <1>5. CASE /\ db'.audit = db.audit
             /\ \A e \in DOMAIN db.entities : db'.entities[e].merged = db.entities[e].merged
             /\ \A e \in DOMAIN db'.entities \ DOMAIN db.entities : db'.entities[e].merged = NoEntity
    <2>1. AuditTrue'
      BY <1>1, <1>2, <1>5 DEF AuditTrue
    <2>2. Rising(rank)'
      BY <1>4, <1>5 DEF Rising
    <2> QED BY <2>1, <2>2 DEF PointersRise
  <1>6. ASSUME NEW s \in Entities, NEW l \in Entities,
               db'.audit = db.audit \cup {<<s, l>>},
               IsRoot(s), IsRoot(l), s # l, db'.entities[l].merged = s,
               DOMAIN db'.entities = DOMAIN db.entities,
               \A e \in DOMAIN db.entities \ {l} : db'.entities[e].merged = db.entities[e].merged
        PROVE  AuditTrue' /\ PointersRise'
    <2>1. ASSUME NEW m \in db'.audit
          PROVE  m[2] \in DOMAIN db'.entities /\ db'.entities[m[2]].merged = m[1]
      <3>1. CASE m \in db.audit
        BY <1>1, <1>3, <1>6, <3>1 DEF AuditTrue, IsRoot, EntityAssumption
      <3>2. CASE m = <<s, l>>
        BY <1>6, <3>2 DEF IsRoot
      <3> QED BY <1>6, <2>1, <3>1, <3>2
    <2> DEFINE higher == [rank EXCEPT ![s] = rank[s] + rank[l] + 1]
    <2>2. /\ higher \in [Entities -> Nat] /\ higher[s] = rank[s] + rank[l] + 1
          /\ \A e \in Entities \ {s} : higher[e] = rank[e]
          /\ \A e \in Entities : rank[e] <= higher[e] /\ rank[e] \in Nat
      <3>1. rank[s] \in Nat /\ rank[l] \in Nat
        OBVIOUS
      <3>2. rank[s] + rank[l] + 1 \in Nat /\ rank[s] <= rank[s] + rank[l] + 1
        BY <3>1
      <3> QED BY <3>2
    <2> HIDE DEF higher
    <2>3. ASSUME NEW e \in DOMAIN db'.entities, db'.entities[e].merged # NoEntity
          PROVE  higher[e] < higher[db'.entities[e].merged]
      <3>1. CASE e = l
        <4>1. higher[l] = rank[l] /\ rank[l] \in Nat /\ rank[s] \in Nat
          BY <1>6, <2>2
        <4> QED BY <1>6, <2>2, <3>1, <4>1
      <3>2. CASE e # l
        <4> DEFINE p == db.entities[e].merged
        <4>1. e \in DOMAIN db.entities /\ db'.entities[e].merged = p /\ p # NoEntity
          BY <1>6, <2>3, <3>2
        <4>2. e # s /\ e \in Entities /\ p \in Entities
          BY <1>3, <1>6, <4>1 DEF IsRoot
        <4>3. rank[e] < rank[p]
          BY <1>4, <4>1 DEF Rising
        <4> HIDE DEF p
        <4>4. higher[e] = rank[e] /\ rank[p] <= higher[p] /\ higher[p] \in Nat
              /\ rank[p] \in Nat /\ rank[e] \in Nat
          BY <2>2, <4>2
        <4> QED BY <4>1, <4>3, <4>4
      <3> QED BY <3>1, <3>2
    <2>4. AuditTrue'
      BY <2>1 DEF AuditTrue
    <2>5. Rising(higher)'
      BY <2>3 DEF Rising
    <2> QED BY <2>2, <2>4, <2>5 DEF PointersRise
  <1> QED BY <1>1, <1>5, <1>6, CommitPointers

LEMMA MergeStep ==
  ASSUME EntityAssumption, OneMergeAtATime, MergeInvariant, [Next]_vars
  PROVE  MergeInvariant'
<1>1. RowInvariant' /\ TypeInvariant /\ RowInvariant
  BY RowsNext DEF MergeInvariant, RowInvariant
<1>2. CASE UNCHANGED vars
  <2>1. Merging' = Merging
    BY <1>2 DEF vars, Merging, InProgress, Open
  <2>2. Alone' /\ AuditTrue' /\ PointersRise'
    BY <1>2, <2>1 DEF vars, MergeInvariant, Alone, Sole, Merging, AuditTrue, PointersRise, Rising
  <2>3. \A t \in Requests : Pointers(t)'
    BY <1>2, <2>1 DEF vars, MergeInvariant, Pointers, Unmarked, Marked, PointersKept, IsRoot
  <2> QED BY <1>1, <2>2, <2>3 DEF MergeInvariant
<1>3. ASSUME NEW t \in Requests, Receive(t) \/ Step(t)
      PROVE  MergeInvariant'
  <2>1. By(t) /\ UNCHANGED db
    BY <1>1, <1>3, StepEffect
  <2>2. Alone' /\ \A u \in Requests \ {t} : u \in Merging' <=> u \in Merging
    <3>1. CASE Receive(t)
      BY <1>1, <3>1, MergingReceive DEF MergeInvariant
    <3>2. CASE Step(t)
      <4>1. Merging' = Merging
        BY <1>1, <3>2, MergingStep
      <4> QED BY <4>1 DEF MergeInvariant, Alone, Sole, Merging
    <3> QED BY <1>3, <3>1, <3>2
  <2>3. Pointers(t)'
    <3>1. Pointers(t)
      BY DEF MergeInvariant
    <3> QED BY <1>1, <1>3, <3>1, PointersReceive, PointersElse, PointersMerge
  <2>4. ASSUME NEW u \in Requests PROVE Pointers(u)'
    <3>1. CASE u = t
      BY <2>3, <3>1 DEF Pointers, Unmarked, Marked, PointersKept, IsRoot
    <3>2. CASE u # t
      <4>1. Pointers(u)
        BY DEF MergeInvariant
      <4> QED BY <2>1, <2>2, <3>2, <4>1, PointersOther
    <3> QED BY <3>1, <3>2
  <2>5. AuditTrue' /\ PointersRise'
    BY <2>1 DEF MergeInvariant, AuditTrue, PointersRise, Rising
  <2> QED BY <1>1, <2>2, <2>4, <2>5 DEF MergeInvariant
<1>4. ASSUME NEW t \in Requests, Commit(t) \/ Rollback(t) \/ Crash(t)
      PROVE  MergeInvariant'
  <2>1. Alone'
    BY <1>1, <1>4, MergingEnd DEF MergeInvariant
  <2> QED BY <1>1, <1>4, <2>1, PointersEnd, AuditEnd DEF MergeInvariant
<1> QED BY <1>2, <1>3, <1>4 DEF Next, Quiet

LEMMA MergeInit ==
  ASSUME EntityAssumption, Init
  PROVE  MergeInvariant
  <1>1. RowInvariant
    <2>1. TypeInvariant
      BY TypeInit
    <2>2. \A t \in Requests : DOMAIN writes[t].entities = {}
      BY NothingIs DEF Init
    <2> QED BY <2>1, <2>2 DEF RowInvariant, EntitiesApart, RowsFollow
  <1>2. Merging = {}
    BY DEF Init, Merging, InProgress, Open
  <1>3. Alone
    BY <1>2, FS_EmptySet DEF Alone, Sole, Merging
  <1>4. \A t \in Requests : Pointers(t)
    BY <1>2, NothingIs DEF Init, Pointers, PointersKept
  <1>5. db.audit = {} /\ \A e \in DOMAIN db.entities : db.entities[e].merged = NoEntity
    <2> DEFINE rows == [e \in DOMAIN Stored |->
                          [name |-> Stored[e], merged |-> NoEntity, deleted |-> FALSE]]
    <2>1. \A e \in DOMAIN rows : rows[e].merged = NoEntity
      OBVIOUS
    <2> HIDE DEF rows
    <2>2. db = [Nothing EXCEPT !.entities = rows]
      BY DEF Init, rows
    <2>3. db.entities = rows /\ db.audit = {}
      BY <2>2 DEF Nothing
    <2> QED BY <2>1, <2>3
  <1>6. [e \in Entities |-> 0] \in [Entities -> Nat]
    OBVIOUS
  <1>7. PointersRise
    BY <1>5, <1>6 DEF PointersRise, Rising
  <1> QED BY <1>1, <1>3, <1>4, <1>5, <1>7 DEF MergeInvariant, AuditTrue

LEMMA MergeAlways == OneMergeAtATime => (Spec => []MergeInvariant)
<1> SUFFICES ASSUME OneMergeAtATime PROVE Spec => []MergeInvariant
  OBVIOUS
<1>1. Init => MergeInvariant
  BY MergeInit, EntityAssumption
<1>2. MergeInvariant /\ [Next]_vars => MergeInvariant'
  BY MergeStep, EntityAssumption
<1> QED BY <1>1, <1>2, PTL DEF Spec

(* With one merge at a time, the loser of an audited merge points at the   *)
(* survivor named there, whatever was deleted, ingested or lost meanwhile. *)
THEOREM AuditedMergesAreReal == OneMergeAtATime => (Spec => []AuditedMergesHappened)
<1>1. MergeInvariant => AuditedMergesHappened
  BY DEF MergeInvariant, AuditTrue, AuditedMergesHappened
<1> QED BY <1>1, MergeAlways, PTL

(* ... and the entities can be ranked so that every pointer goes up: later *)
(* merges of the survivor, or of the loser again, never close a cycle.     *)
THEOREM MergePointersRise == OneMergeAtATime => (Spec => []PointersRise)
<1>1. MergeInvariant => PointersRise
  BY DEF MergeInvariant
<1> QED BY <1>1, MergeAlways, PTL

-----------------------------------------------------------------------------
(* Ways along the pointers *)

(* Induction: a set of numbers has a least one.                            *)
LEMMA Least ==
  ASSUME NEW S \in SUBSET Nat, S # {}
  PROVE  \E m \in S : \A k \in S : m <= k
  <1>1. PICK m \in S : \A k \in S : <<k, m>> \notin OpToRel(<, Nat)
    BY WFMin, NatLessThanWellFounded, Zenon
  <1>2. \A k \in S : ~(k < m)
    BY <1>1, Zenon DEF OpToRel
  <1> QED BY <1>2

Iterates(f, S, F, e) == f \in [Nat -> S] /\ f[0] = e /\ \A n \in Nat : f[n + 1] = F[f[n]]

(* A function can be iterated: recursive functions of numbers exist.       *)
LEMMA IterateExists ==
  ASSUME NEW S, NEW F \in [S -> S], NEW e \in S
  PROVE  \E f : Iterates(f, S, F, e)
  <1> DEFINE Upto(g, k) == g[0] = e /\ \A n \in Nat : n < k => g[n + 1] = F[g[n]]
             Good == {k \in Nat : \E g \in [Nat -> S] : Upto(g, k)}
             Bad == Nat \ Good
  <1>1. Good = Nat
    <2> SUFFICES ASSUME Bad # {} PROVE FALSE
      OBVIOUS
    <2>1. Bad \in SUBSET Nat
      OBVIOUS
    <2> HIDE DEF Bad
    <2>2. PICK m \in Bad : \A k \in Bad : m <= k
      BY <2>1, Least
    <2> USE DEF Bad
    <2>3. 0 \in Good
      <3>1. [n \in Nat |-> e] \in [Nat -> S] /\ Upto([n \in Nat |-> e], 0)
        OBVIOUS
      <3> QED BY <3>1
    <2>4. m # 0 /\ m \in Nat /\ m - 1 \in Nat /\ ~(m <= m - 1)
      BY <2>2, <2>3
    <2>5. m - 1 \in Good
      BY <2>2, <2>4
    <2>6. PICK g \in [Nat -> S] : Upto(g, m - 1)
      BY <2>5
    <2> DEFINE h == [g EXCEPT ![m] = F[g[m - 1]]]
    <2>7. h \in [Nat -> S]
      BY <2>4
    <2>8. Upto(h, m)
      <3>1. h[0] = e
        BY <2>4, <2>6
      <3>2. ASSUME NEW n \in Nat, n < m PROVE h[n + 1] = F[h[n]]
        <4>1. n # m /\ h[n] = g[n]
          BY <3>2
        <4>2. CASE n = m - 1
          BY <4>1, <4>2, <2>4
        <4>3. CASE n < m - 1
          BY <4>1, <4>3, <2>4, <2>6
        <4> QED BY <4>2, <4>3, <3>2, <2>4
      <3> QED BY <3>1, <3>2
    <2>9. m \in Good
      BY <2>7, <2>8, <2>4
    <2> QED BY <2>2, <2>9
  <1> DEFINE part(k) == CHOOSE g \in [Nat -> S] : Upto(g, k)
             f == [n \in Nat |-> part(n)[n]]
  <1>2. \A k \in Nat : part(k) \in [Nat -> S] /\ Upto(part(k), k)
    <2> TAKE k \in Nat
    <2>1. \E g \in [Nat -> S] : Upto(g, k)
      BY <1>1
    <2> HIDE DEF Upto
    <2> QED BY <2>1
  <1>3. ASSUME NEW k \in Nat PROVE part(k)[k] = part(k + 1)[k]
    <2> DEFINE D == {n \in 0..k : part(k)[n] # part(k + 1)[n]}
    <2>1. Upto(part(k), k) /\ Upto(part(k + 1), k + 1)
      <3>1. k + 1 \in Nat
        OBVIOUS
      <3> HIDE DEF part, Upto
      <3> QED BY <1>2, <3>1
    <2> HIDE DEF part, Good, Bad, f
    <2> SUFFICES ASSUME D # {} PROVE FALSE
      OBVIOUS
    <2>2. D \in SUBSET Nat
      OBVIOUS
    <2> HIDE DEF D
    <2>3. PICK m \in D : \A n \in D : m <= n
      BY <2>2, Least
    <2> USE DEF D
    <2>4. m # 0 /\ m \in Nat /\ m <= k /\ m - 1 \in Nat /\ ~(m <= m - 1)
      BY <2>1, <2>3
    <2>5. part(k)[m - 1] = part(k + 1)[m - 1]
      BY <2>3, <2>4
    <2>6. part(k)[(m - 1) + 1] = part(k + 1)[(m - 1) + 1]
      BY <2>1, <2>4, <2>5
    <2> QED BY <2>3, <2>4, <2>6
  <1>4. f \in [Nat -> S]
    BY <1>2
  <1>5. f[0] = e
    BY <1>2
  <1>6. ASSUME NEW n \in Nat PROVE f[n + 1] = F[f[n]]
    <2>1. part(n + 1)[n + 1] = F[part(n + 1)[n]]
      <3>1. n + 1 \in Nat /\ n < n + 1
        OBVIOUS
      <3>2. Upto(part(n + 1), n + 1)
        BY <1>2, <3>1
      <3> HIDE DEF part
      <3> QED BY <3>1, <3>2
    <2> HIDE DEF part, Upto
    <2> QED BY <2>1, <1>3
  <1> HIDE DEF f
  <1> QED BY <1>4, <1>5, <1>6 DEF Iterates

Somewhere == Entities \cup {NoEntity}

LEMMA OnwardTyped ==
  ASSUME EntityAssumption, TypeOK, NEW x
  PROVE  /\ Onward(x) \in Somewhere /\ Onward(NoEntity) = NoEntity
         /\ DOMAIN db.entities \subseteq Entities
  <1>1. /\ DOMAIN db.entities \subseteq Entities
        /\ \A e \in DOMAIN db.entities : db.entities[e].merged \in Entities \cup {NoEntity}
    BY DEF TypeOK, IsStore, Entity
  <1> QED BY <1>1 DEF Onward, Somewhere, EntityAssumption

LEMMA WayIs ==
  ASSUME EntityAssumption, TypeOK, NEW e \in Entities
  PROVE  Way(e)[0] = e /\ \A n \in Nat : Way(e)[n + 1] = Onward(Way(e)[n])
  <1> DEFINE F == [x \in Somewhere |-> Onward(x)]
  <1>1. F \in [Somewhere -> Somewhere] /\ e \in Somewhere
    BY OnwardTyped DEF Somewhere
  <1>2. \A x \in Somewhere : F[x] = Onward(x)
    OBVIOUS
  <1> HIDE DEF F
  <1>3. PICK f : Iterates(f, Somewhere, F, e)
    BY <1>1, IterateExists
  <1>4. f \in [Nat -> Somewhere] /\ f[0] = e /\ \A n \in Nat : f[n + 1] = Onward(f[n])
    BY <1>2, <1>3 DEF Iterates
  <1>5. f = [n \in Nat |-> IF n = 0 THEN e ELSE Onward(f[n - 1])]
    <2>1. ASSUME NEW n \in Nat PROVE f[n] = IF n = 0 THEN e ELSE Onward(f[n - 1])
      <3>1. CASE n # 0
        <4>1. n - 1 \in Nat /\ (n - 1) + 1 = n
          BY <3>1
        <4>2. f[(n - 1) + 1] = Onward(f[n - 1])
          BY <1>4, <4>1
        <4> QED BY <3>1, <4>1, <4>2
      <3> QED BY <1>4, <3>1
    <2> QED BY <1>4, <2>1
  <1> DEFINE P(w) == w = [n \in Nat |-> IF n = 0 THEN e ELSE Onward(w[n - 1])]
  <1>6. P(CHOOSE w : P(w))
    BY <1>5
  <1>7. Way(e) = CHOOSE w : P(w)
    BY DEF Way
  <1> HIDE DEF P
  <1>8. P(Way(e))
    BY <1>6, <1>7
  <1>9. Way(e) = [n \in Nat |-> IF n = 0 THEN e ELSE Onward(Way(e)[n - 1])]
    BY <1>8 DEF P
  <1> DEFINE w == Way(e)
  <1>10. w = [n \in Nat |-> IF n = 0 THEN e ELSE Onward(w[n - 1])]
    BY <1>9
  <1> HIDE DEF w
  <1>11. w[0] = e
    BY <1>10
  <1>12. ASSUME NEW n \in Nat PROVE w[n + 1] = Onward(w[n])
    <2>1. n + 1 \in Nat /\ n + 1 # 0 /\ (n + 1) - 1 = n
      OBVIOUS
    <2>2. w[n + 1] = Onward(w[(n + 1) - 1])
      BY <1>10, <2>1
    <2> QED BY <2>1, <2>2
  <1> QED BY <1>11, <1>12 DEF w

(* Once it goes no further, the way stays there.                           *)
LEMMA WayStays ==
  ASSUME EntityAssumption, TypeOK, NEW e \in Entities,
         NEW i \in Nat, Onward(Way(e)[i]) = Way(e)[i]
  PROVE  \A n \in Nat : i <= n => Way(e)[n] = Way(e)[i]
  <1> DEFINE w == Way(e)
             Bad == {n \in Nat : i <= n /\ w[n] # w[i]}
  <1>1. \A n \in Nat : w[n + 1] = Onward(w[n])
    BY WayIs
  <1>2. Onward(w[i]) = w[i]
    OBVIOUS
  <1> HIDE DEF w
  <1> SUFFICES ASSUME Bad # {} PROVE FALSE
    BY DEF w
  <1>3. Bad \in SUBSET Nat
    OBVIOUS
  <1> HIDE DEF Bad
  <1>4. PICK m \in Bad : \A k \in Bad : m <= k
    BY <1>3, Least
  <1> USE DEF Bad
  <1>5. m \in Nat /\ i <= m /\ m # i
    BY <1>4
  <1>6. m - 1 \in Nat /\ i <= m - 1 /\ ~(m <= m - 1) /\ (m - 1) + 1 = m
    BY <1>5
  <1>7. w[m - 1] = w[i]
    BY <1>4, <1>6
  <1>8. w[(m - 1) + 1] = Onward(w[m - 1])
    BY <1>1, <1>6
  <1> QED BY <1>2, <1>4, <1>6, <1>7, <1>8

LEMMA WayTyped ==
  ASSUME EntityAssumption, TypeOK, NEW e \in Entities
  PROVE  \A n \in Nat : Way(e)[n] \in Somewhere
  <1> DEFINE w == Way(e)
  <1>1. w[0] = e /\ \A n \in Nat : w[n + 1] = Onward(w[n])
    BY WayIs
  <1>2. ASSUME NEW n \in Nat PROVE w[n] \in Somewhere
    <2>1. CASE n = 0
      BY <1>1, <2>1 DEF Somewhere
    <2>2. CASE n # 0
      <3>1. n - 1 \in Nat /\ (n - 1) + 1 = n
        BY <2>2
      <3> HIDE DEF w
      <3>2. w[(n - 1) + 1] = Onward(w[n - 1])
        BY <1>1, <3>1
      <3> QED BY <3>1, <3>2, OnwardTyped
    <2> QED BY <2>1, <2>2
  <1> QED BY <1>2

(* It goes no further: an entity that survives, or nowhere.                *)
Ends(x) == Onward(x) = x

LEMMA GoesOn ==
  ASSUME EntityAssumption, TypeOK, NEW rank \in [Entities -> Nat], Rising(rank), NEW x \in Somewhere,
         ~Ends(x), Onward(x) # NoEntity
  PROVE  x \in Entities /\ Onward(x) \in Entities /\ rank[x] < rank[Onward(x)]
  <1>1. x \in DOMAIN db.entities /\ ~db.entities[x].deleted /\ db.entities[x].merged # NoEntity
    BY DEF Onward, Ends
  <1>2. Onward(x) = db.entities[x].merged
    BY <1>1 DEF Onward
  <1>3. rank[x] < rank[db.entities[x].merged]
    BY <1>1 DEF Rising
  <1> QED BY <1>1, <1>2, <1>3, OnwardTyped DEF Somewhere

(* A way that rises as long as it goes on ends within as many steps as     *)
(* there are entities.                                                     *)
LEMMA WayEnds ==
  ASSUME EntityAssumption, TypeOK, IsFiniteSet(Entities), PointersRise, NEW e \in Entities
  PROVE  Ends(Reach(e))
  <1> DEFINE w == Way(e)
             last == Cardinality(Entities) + 1
  <1>1. Cardinality(Entities) \in Nat /\ last \in Nat /\ Cardinality(Entities) < last
    BY FS_CardinalityType
  <1>2. /\ w[0] = e /\ \A n \in Nat : w[n + 1] = Onward(w[n])
        /\ \A n \in Nat : w[n] \in Somewhere
    BY WayIs, WayTyped
  <1>3. ASSUME NEW i \in Nat, i <= last, Ends(w[i]) PROVE Ends(Reach(e))
    <2>1. Way(e)[last] = Way(e)[i]
      BY <1>1, <1>3, WayStays DEF Ends
    <2> QED BY <1>3, <2>1 DEF Reach
  <1> SUFFICES ASSUME \A i \in Nat : i <= last => ~Ends(w[i]) PROVE FALSE
    BY <1>3
  <1>4. PICK rank \in [Entities -> Nat] : Rising(rank)
    BY DEF PointersRise
  <1> HIDE DEF w, last
  <1>5. \A i \in Nat : i <= last => w[i] # NoEntity
    BY OnwardTyped DEF Ends
  <1>6. ASSUME NEW i \in Nat, i < last
        PROVE  w[i] \in Entities /\ w[i + 1] \in Entities /\ rank[w[i]] < rank[w[i + 1]]
    <2>1. w[i + 1] = Onward(w[i]) /\ w[i] \in Somewhere
      BY <1>2
    <2>2. ~Ends(w[i])
      BY <1>1, <1>6
    <2>3. i + 1 \in Nat /\ i + 1 <= last
      BY <1>1, <1>6
    <2>4. Onward(w[i]) # NoEntity
      BY <1>5, <2>1, <2>3
    <2> QED BY <1>4, <2>1, <2>2, <2>4, GoesOn
  <1>7. ASSUME NEW i \in Nat, NEW j \in Nat, i < j, j < last
        PROVE  rank[w[i]] < rank[w[j]]
    <2> DEFINE Bad == {n \in Nat : i < n /\ n < last /\ ~(rank[w[i]] < rank[w[n]])}
    <2> SUFFICES ASSUME Bad # {} PROVE FALSE
      BY <1>7
    <2>1. Bad \in SUBSET Nat
      OBVIOUS
    <2> HIDE DEF Bad
    <2>2. PICK m \in Bad : \A k \in Bad : m <= k
      BY <2>1, Least
    <2> USE DEF Bad
    <2>3. m \in Nat /\ i < m /\ m < last /\ ~(rank[w[i]] < rank[w[m]])
      BY <2>2
    <2>4. m - 1 \in Nat /\ i <= m - 1 /\ m - 1 < last /\ ~(m <= m - 1) /\ (m - 1) + 1 = m
      BY <1>1, <2>3
    <2>5. rank[w[m - 1]] < rank[w[m]] /\ w[m - 1] \in Entities /\ w[m] \in Entities
      BY <1>6, <2>4
    <2>6. w[i] \in Entities
      <3>1. i < last
        BY <1>1, <1>7
      <3> QED BY <1>6, <3>1
    <2>7. rank[w[i]] \in Nat /\ rank[w[m - 1]] \in Nat /\ rank[w[m]] \in Nat
      BY <2>5, <2>6
    <2>8. i = m - 1 \/ rank[w[i]] < rank[w[m - 1]]
      BY <2>2, <2>4
    <2> QED BY <2>3, <2>5, <2>7, <2>8
  <1> DEFINE before == 0..Cardinality(Entities)
             g == [i \in before |-> w[i]]
  <1>8. g \in [before -> Entities]
    BY <1>1, <1>6 DEF last
  <1>9. IsFiniteSet(before) /\ Cardinality(before) = Cardinality(Entities) + 1
    BY <1>1, FS_Interval
  <1>10. PICK i \in before, j \in before : i # j /\ g[i] = g[j]
    <2> HIDE DEF g, before
    <2>1. Cardinality(Entities) < Cardinality(before)
      BY <1>1, <1>9
    <2> QED BY <1>8, <1>9, <2>1, FS_PigeonHole
  <1>11. i \in Nat /\ j \in Nat /\ i < last /\ j < last /\ w[i] = w[j] /\ (i < j \/ j < i)
    BY <1>1, <1>10 DEF last
  <1>12. w[i] \in Entities
    BY <1>6, <1>11
  <1>13. rank[w[i]] < rank[w[j]] \/ rank[w[j]] < rank[w[i]]
    BY <1>7, <1>11
  <1>14. rank[w[i]] \in Nat
    BY <1>12
  <1> QED BY <1>11, <1>13, <1>14

(* What Reach comes to, without recursion.                                 *)
LEMMA ReachIs ==
  ASSUME EntityAssumption, TypeOK, IsFiniteSet(Entities), PointersRise, NEW e \in Entities
  PROVE  /\ Reach(e) # NoEntity => /\ Reach(e) \in DOMAIN db.entities
                                   /\ ~db.entities[Reach(e)].deleted
                                   /\ db.entities[Reach(e)].merged = NoEntity
         /\ e \notin DOMAIN db.entities \/ db.entities[e].deleted => Reach(e) = NoEntity
         /\ e \in DOMAIN db.entities /\ ~db.entities[e].deleted /\ db.entities[e].merged # NoEntity
              => Reach(e) = Reach(db.entities[e].merged)
  <1> DEFINE last == Cardinality(Entities) + 1
  <1>1. last \in Nat /\ 0 <= last /\ 1 <= last
    BY FS_CardinalityType
  <1>2. Way(e)[0] = e /\ \A n \in Nat : Way(e)[n + 1] = Onward(Way(e)[n])
    BY WayIs
  <1>3. Ends(Reach(e))
    BY WayEnds
  <1>4. PICK rank \in [Entities -> Nat] : Rising(rank)
    BY DEF PointersRise
  <1>5. ASSUME Reach(e) # NoEntity
        PROVE  /\ Reach(e) \in DOMAIN db.entities
               /\ ~db.entities[Reach(e)].deleted
               /\ db.entities[Reach(e)].merged = NoEntity
    <2> DEFINE x == Reach(e)
    <2>1. x \in DOMAIN db.entities /\ ~db.entities[x].deleted
      BY <1>3, <1>5 DEF Ends, Onward
    <2>2. ASSUME db.entities[x].merged # NoEntity PROVE FALSE
      <3> HIDE DEF x
      <3>1. db.entities[x].merged = x
        BY <1>3, <2>1, <2>2 DEF Ends, Onward, x
      <3>2. rank[x] < rank[x]
        BY <1>4, <2>1, <2>2, <3>1 DEF Rising
      <3>3. x \in Entities
        BY <2>1, OnwardTyped
      <3>4. rank[x] \in Nat
        BY <3>3
      <3> QED BY <3>2, <3>4
    <2> QED BY <2>1, <2>2
  <1>6. ASSUME e \notin DOMAIN db.entities \/ db.entities[e].deleted
        PROVE  Reach(e) = NoEntity
    <2>1. Way(e)[0 + 1] = NoEntity
      BY <1>2, <1>6 DEF Onward
    <2>2. Way(e)[1] = NoEntity
      BY <2>1
    <2>3. Onward(Way(e)[1]) = Way(e)[1]
      BY <2>2, OnwardTyped
    <2>4. Way(e)[last] = Way(e)[1]
      BY <1>1, <2>3, WayStays
    <2> QED BY <2>2, <2>4 DEF Reach
  <1>7. ASSUME e \in DOMAIN db.entities, ~db.entities[e].deleted, db.entities[e].merged # NoEntity
        PROVE  Reach(e) = Reach(db.entities[e].merged)
    <2> DEFINE p == db.entities[e].merged
    <2>1. p \in Entities /\ Onward(e) = p
      <3>1. Onward(e) = p /\ p # NoEntity
        BY <1>7 DEF Onward
      <3>2. Onward(e) \in Somewhere
        BY OnwardTyped
      <3> QED BY <3>1, <3>2 DEF Somewhere
    <2> HIDE DEF p
    <2>2. Way(p)[0] = p /\ \A n \in Nat : Way(p)[n + 1] = Onward(Way(p)[n])
      BY <2>1, WayIs
    <2>3. \A n \in Nat : Way(p)[n] = Way(e)[n + 1]
      <3> DEFINE v == Way(p)  w == Way(e)
                 Bad == {n \in Nat : v[n] # w[n + 1]}
      <3>1. v[0] = p /\ (\A n \in Nat : v[n + 1] = Onward(v[n]))
            /\ w[0] = e /\ (\A n \in Nat : w[n + 1] = Onward(w[n]))
        BY <1>2, <2>2
      <3> HIDE DEF v, w
      <3> SUFFICES ASSUME Bad # {} PROVE FALSE
        BY DEF v, w
      <3>2. Bad \in SUBSET Nat
        OBVIOUS
      <3> HIDE DEF Bad
      <3>3. PICK m \in Bad : \A k \in Bad : m <= k
        BY <3>2, Least
      <3> USE DEF Bad
      <3>4. v[0] = w[0 + 1]
        BY <2>1, <3>1
      <3>5. m # 0 /\ m \in Nat
        BY <3>3, <3>4
      <3>6. m - 1 \in Nat /\ ~(m <= m - 1) /\ (m - 1) + 1 = m
        BY <3>5
      <3>7. v[m - 1] = w[m]
        BY <3>3, <3>6
      <3>8. v[m] = Onward(v[m - 1]) /\ w[m + 1] = Onward(w[m])
        BY <3>1, <3>5, <3>6
      <3> QED BY <3>3, <3>7, <3>8
    <2>4. Reach(p) = Way(e)[last + 1]
      BY <1>1, <2>3 DEF Reach
    <2>5. Way(e)[last + 1] = Onward(Way(e)[last])
      BY <1>1, <1>2
    <2>6. Onward(Way(e)[last]) = Way(e)[last]
      BY <1>3 DEF Ends, Reach
    <2>7. Reach(e) = Reach(p)
      BY <2>4, <2>5, <2>6 DEF Reach
    <2> QED BY <2>7 DEF p
  <1> QED BY <1>5, <1>6, <1>7

(* Following merge pointers ends at a survivor: for any finite number of   *)
(* entities, merges one at a time never close a cycle, whatever else is    *)
(* deleted, ingested or merged again.                                      *)
THEOREM FollowingEnds ==
  OneMergeAtATime /\ IsFiniteSet(Entities) => (Spec => []NoMergeCycle)
  <1> SUFFICES ASSUME OneMergeAtATime, IsFiniteSet(Entities)
               PROVE  Spec => []NoMergeCycle
    OBVIOUS
  <1>1. MergeInvariant => NoMergeCycle
    <2> SUFFICES ASSUME MergeInvariant, NEW e \in DOMAIN db.entities, Reach(e) # NoEntity
                 PROVE  db.entities[Reach(e)].merged = NoEntity
      BY DEF NoMergeCycle
    <2>1. TypeOK /\ PointersRise /\ EntityAssumption
      BY EntityAssumption DEF MergeInvariant, RowInvariant, TypeInvariant
    <2>2. e \in Entities
      BY <2>1, OnwardTyped
    <2> QED BY <2>1, <2>2, ReachIs
  <1> QED BY <1>1, MergeAlways, PTL

-----------------------------------------------------------------------------
(* Identifiers, one ingestion at a time *)

(* What the theorem about identifiers supposes besides: ingestions do not  *)
(* overlap.  The identifier is looked up tiers before it is written, so    *)
(* two that bring the same one both find nothing and create an entity.     *)
OneIngestionAtATime == MaxOpen["ingest"] <= 1

Ingesting == InProgress("ingest")

Closed(S) ==
  \A x \in S \cap DOMAIN db.entities :
    db.entities[x].merged # NoEntity => db.entities[x].merged \in S

(* Following the pointers from a one comes to b.                           *)
OnWay(a, b) == \A S \in SUBSET Entities : a \in S /\ Closed(S) => b \in S

(* ... or to an entity that was deleted, and so to none.                   *)
Lost(a) == \E b \in DOMAIN db.entities : db.entities[b].deleted /\ OnWay(a, b)

PointersKnown ==
  \A e \in DOMAIN db.entities :
    db.entities[e].merged # NoEntity => db.entities[e].merged \in DOMAIN db.entities

RefsKnown == \A v \in DOMAIN db.refs : db.refs[v] \in DOMAIN db.entities

(* From the entity of each ingestion one comes to the entity its           *)
(* identifier names now.                                                   *)
LinksLead ==
  \A m \in db.linked :
    m[1] \in DOMAIN db.refs /\ (Lost(m[2]) \/ OnWay(m[2], db.refs[m[1]]))

(* One comes to e from the entity the identifier of t names.               *)
Comes(t, e) ==
  call[t].value \in DOMAIN db.refs =>
    Lost(db.refs[call[t].value]) \/ OnWay(db.refs[call[t].value], e)

Unreferred(t) == DOMAIN writes[t].refs = {} /\ writes[t].linked = {}

(* t, which may come to e, has written that its identifier names it.       *)
Refers(t, e) ==
  LET v == call[t].value
  IN /\ DOMAIN writes[t].refs = {v} /\ writes[t].refs[v] = e
     /\ writes[t].linked = {<<v, e>>}
     /\ e \in DOMAIN db.entities \cup DOMAIN writes[t].entities
     /\ Comes(t, e)

(* What an ingestion knows at each statement.                              *)
Ingests(t) ==
  /\ pc[t] \in {"identifier", "name", "similar", "get", "link", "create"} =>
       DOMAIN writes[t].entities = {} /\ Unreferred(t)
  /\ pc[t] \in {"name", "similar"} => call[t].value \notin DOMAIN db.refs
  /\ pc[t] = "get" => wanted[t][1] \in DOMAIN db.entities /\ Comes(t, wanted[t][1])
  /\ pc[t] = "link" => found[t][1] \in DOMAIN db.entities /\ Comes(t, found[t][1])
  /\ pc[t] = "create" /\ call[t].value \in DOMAIN db.refs => Lost(db.refs[call[t].value])
  /\ pc[t] = "done" => IF call[t].value = NoIdentifier THEN Unreferred(t)
                       ELSE \E e \in Entities : Refers(t, e)

LinkInvariant ==
  /\ Sole("ingest") /\ PointersKnown /\ RefsKnown /\ LinksLead
  /\ \A t \in Requests : IF t \in Ingesting THEN Ingests(t) ELSE Unreferred(t)

LEMMA WayOnward ==
  ASSUME NEW a, NEW b, NEW c
  PROVE  /\ OnWay(a, a)
         /\ OnWay(a, b) /\ OnWay(b, c) => OnWay(a, c)
         /\ OnWay(a, b) /\ Lost(b) => Lost(a)
         /\ a \in DOMAIN db.entities /\ db.entities[a].merged = b /\ b # NoEntity => OnWay(a, b)
  <1>1. OnWay(a, a)
    BY DEF OnWay
  <1>2. \A d : OnWay(a, b) /\ OnWay(b, d) => OnWay(a, d)
    BY DEF OnWay
  <1>3. OnWay(a, b) /\ Lost(b) => Lost(a)
    BY <1>2 DEF Lost
  <1>4. a \in DOMAIN db.entities /\ db.entities[a].merged = b /\ b # NoEntity => OnWay(a, b)
    BY DEF OnWay, Closed
  <1> QED BY <1>1, <1>2, <1>3, <1>4

(* Rows that keep what was decided keep the ways as well.                  *)
LEMMA WaysKept ==
  ASSUME \A e \in DOMAIN db.entities : /\ e \in DOMAIN db'.entities
                                       /\ Follows(db.entities[e], db'.entities[e])
  PROVE  /\ \A a, b : OnWay(a, b) => OnWay(a, b)'
         /\ \A a : Lost(a) => Lost(a)'
  <1>1. ASSUME NEW S, Closed(S)' PROVE Closed(S)
    BY <1>1 DEF Closed, Follows
  <1>2. ASSUME NEW a, NEW b, OnWay(a, b) PROVE OnWay(a, b)'
    BY <1>1, <1>2 DEF OnWay
  <1>3. ASSUME NEW a, Lost(a) PROVE Lost(a)'
    <2>1. PICK b \in DOMAIN db.entities : db.entities[b].deleted /\ OnWay(a, b)
      BY <1>3 DEF Lost
    <2>2. b \in DOMAIN db'.entities /\ db'.entities[b].deleted
      BY <2>1 DEF Follows
    <2> QED BY <1>2, <2>1, <2>2 DEF Lost
  <1> QED BY <1>2, <1>3

(* Two entities on one way come to the same, unless to none.               *)
LEMMA WayReaches ==
  ASSUME EntityAssumption, TypeOK, IsFiniteSet(Entities), PointersRise,
         NEW a \in Entities, Reach(a) # NoEntity
  PROVE  /\ \A b : OnWay(a, b) => b \in Entities /\ Reach(b) = Reach(a)
         /\ ~Lost(a)
  <1> DEFINE S == {x \in Entities : Reach(x) = Reach(a)}
  <1>1. Closed(S)
    <2> SUFFICES ASSUME NEW x \in S \cap DOMAIN db.entities, db.entities[x].merged # NoEntity
                 PROVE  db.entities[x].merged \in S
      BY DEF Closed
    <2>1. x \in Entities /\ Reach(x) # NoEntity
      OBVIOUS
    <2>2. ~db.entities[x].deleted
      BY <2>1, ReachIs
    <2>3. Reach(x) = Reach(db.entities[x].merged)
      BY <2>1, <2>2, ReachIs
    <2>4. db.entities[x].merged \in Entities
      BY DEF TypeOK, IsStore, Entity
    <2> QED BY <2>3, <2>4
  <1>2. ASSUME NEW b, OnWay(a, b) PROVE b \in Entities /\ Reach(b) = Reach(a)
    <2>1. S \in SUBSET Entities /\ a \in S
      OBVIOUS
    <2>2. b \in S
      BY <1>1, <1>2, <2>1 DEF OnWay
    <2> QED BY <2>2
  <1>3. ASSUME Lost(a) PROVE FALSE
    <2>1. PICK b \in DOMAIN db.entities : db.entities[b].deleted /\ OnWay(a, b)
      BY <1>3 DEF Lost
    <2>2. b \in Entities /\ Reach(b) = Reach(a)
      BY <1>2, <2>1
    <2> QED BY <2>1, <2>2, ReachIs
  <1> QED BY <1>2, <1>3

LEMMA LinksAgree ==
  ASSUME EntityAssumption, TypeOK, IsFiniteSet(Entities), PointersRise, LinksLead
  PROVE  IdentifierNamesOne
  <1> SUFFICES ASSUME NEW m \in db.linked, NEW n \in db.linked, m[1] = n[1],
                      Reach(m[2]) # NoEntity, Reach(n[2]) # NoEntity
               PROVE  Reach(m[2]) = Reach(n[2])
    BY DEF IdentifierNamesOne
  <1>1. m[2] \in Entities /\ n[2] \in Entities
    BY DEF TypeOK, IsStore
  <1>2. ~Lost(m[2]) /\ ~Lost(n[2])
    BY <1>1, WayReaches
  <1>3. OnWay(m[2], db.refs[m[1]]) /\ OnWay(n[2], db.refs[m[1]])
    BY <1>2 DEF LinksLead
  <1> QED BY <1>1, <1>3, WayReaches

(* Only ingestions write about identifiers. *)
LEMMA ReferringSteps ==
  ASSUME EntityAssumption, TypeInvariant, NEW t \in Requests, Step(t), ~Link(t), ~Create(t)
  PROVE  writes'[t].refs = writes[t].refs /\ writes'[t].linked = writes[t].linked
  <1>1. DOMAIN writes[t] = {"entities", "edges", "refs", "audit", "linked"} /\ DOMAIN writes = Requests
    BY DEF TypeInvariant, TypeOK, IsStore, Nothing
  <1>2. ASSUME NEW table \in {"entities", "edges"}, NEW rows, Write(t, table, rows)
        PROVE  writes'[t].refs = writes[t].refs /\ writes'[t].linked = writes[t].linked
    <2>1. writes'[t] = [writes[t] EXCEPT ![table] = Overlay(writes[t][table], rows)]
      BY <1>2, WriteIs
    <2> QED BY <1>1, <2>1
  <1>3. CASE ByIdentifier(t) \/ ByName(t) \/ BySimilarity(t)
    BY <1>3, ResolverOutcomes
  <1>4. CASE Get(t)
    BY <1>4, GetOutcomes
  <1>5. CASE MoveSubjects(t)
    BY <1>2, <1>5 DEF MoveSubjects, Move
  <1>6. CASE MoveObjects(t)
    BY <1>2, <1>6 DEF MoveObjects, Move
  <1>7. CASE MarkMerged(t)
    <2>1. \E rows, log : writes' = [writes EXCEPT ![t].entities = rows, ![t].audit = log]
      BY <1>7 DEF MarkMerged
    <2> QED BY <1>1, <2>1
  <1>8. CASE SoftDelete(t)
    BY <1>2, <1>8 DEF SoftDelete
  <1>9. CASE AddFact(t)
    BY <1>2, <1>9 DEF AddFact
  <1> QED BY <1>3, <1>4, <1>5, <1>6, <1>7, <1>8, <1>9 DEF Step

(* What a transaction that has not written sees.                           *)
LEMMA UnwrittenView ==
  ASSUME NEW t \in Requests, DOMAIN writes[t].entities = {}, Unreferred(t)
  PROVE  /\ DOMAIN View(t).entities = DOMAIN db.entities
         /\ \A e \in DOMAIN db.entities : View(t).entities[e] = db.entities[e]
         /\ DOMAIN View(t).refs = DOMAIN db.refs
         /\ \A v \in DOMAIN db.refs : View(t).refs[v] = db.refs[v]
  <1>1. View(t).refs = Overlay(db.refs, writes[t].refs)
    BY DEF View
  <1>2. /\ DOMAIN Overlay(db.refs, writes[t].refs) = DOMAIN db.refs
        /\ \A v \in DOMAIN db.refs : Overlay(db.refs, writes[t].refs)[v] = db.refs[v]
    BY OverlayNone DEF Unreferred
  <1> QED BY <1>1, <1>2, ViewIs

(* The resolver keeps to what the identifier names.                        *)
LEMMA IngestsResolver ==
  ASSUME EntityAssumption, TypeInvariant, RefsKnown, NEW t \in Requests, Ingests(t),
         ByIdentifier(t) \/ ByName(t) \/ BySimilarity(t)
  PROVE  Ingests(t)'
  <1> DEFINE v == call[t].value
  <1>1. /\ pc[t] \in {"identifier", "name", "similar"} /\ UNCHANGED <<db, call, writes>>
    BY ResolverOutcomes
  <1>2. DOMAIN writes[t].entities = {} /\ Unreferred(t)
    BY <1>1 DEF Ingests
  <1>3. /\ DOMAIN View(t).entities = DOMAIN db.entities
        /\ DOMAIN View(t).refs = DOMAIN db.refs
        /\ \A x \in DOMAIN db.refs : View(t).refs[x] = db.refs[x]
    BY <1>2, UnwrittenView
  <1>4. (DOMAIN writes[t].entities = {} /\ Unreferred(t))'
    BY <1>1, <1>2 DEF Unreferred
  <1>5. ASSUME NEW e, Match(t, e), e \in DOMAIN db.entities, Comes(t, e)
        PROVE  Ingests(t)'
    <2>1. pc'[t] = "get" /\ wanted'[t] = <<e>>
      BY <1>5 DEF Match, Goto, TypeInvariant, TypeOK
    <2>2. wanted'[t][1] = e
      BY <2>1
    <2>3. Comes(t, e)'
      BY <1>1, <1>5 DEF Comes, Lost, OnWay, Closed
    <2>4. Comes(t, wanted[t][1])'
      BY <2>2, <2>3 DEF Comes
    <2> QED BY <1>1, <1>4, <1>5, <2>1, <2>2, <2>4 DEF Ingests
  <1>6. ASSUME NEW next \in {"name", "similar", "create"}, Pass(t, next), v \notin DOMAIN db.refs
        PROVE  Ingests(t)'
    <2>1. pc'[t] = next
      BY <1>6 DEF Pass, Goto, TypeInvariant, TypeOK
    <2>2. call'[t].value \notin DOMAIN db'.refs
      BY <1>1, <1>6
    <2> QED BY <1>4, <2>1, <2>2 DEF Ingests
  <1>7. pc[t] \in {"name", "similar"} => v \notin DOMAIN db.refs
    BY DEF Ingests
  <1>8. v \notin DOMAIN db.refs => \A e : Comes(t, e)
    BY DEF Comes
  <1>9. CASE ByIdentifier(t)
    <2>1. CASE v \in DOMAIN db.refs
      <3>1. Match(t, db.refs[v])
        BY <1>3, <1>9, <2>1 DEF ByIdentifier, Referenced
      <3>2. db.refs[v] \in DOMAIN db.entities /\ Comes(t, db.refs[v])
        BY <2>1, WayOnward DEF RefsKnown, Comes
      <3> QED BY <1>5, <3>1, <3>2
    <2>2. CASE v \notin DOMAIN db.refs
      <3>1. Pass(t, "name")
        BY <1>3, <1>9, <2>2 DEF ByIdentifier, Referenced
      <3> QED BY <1>6, <2>2, <3>1
    <2> QED BY <2>1, <2>2
  <1>10. CASE ByName(t)
    <2>1. Pass(t, "similar") \/ \E e \in DOMAIN View(t).entities : Match(t, e)
      BY <1>10 DEF ByName, Survivors
    <2> QED BY <1>3, <1>5, <1>6, <1>7, <1>8, <1>10, <2>1 DEF ByName
  <1>11. CASE BySimilarity(t)
    <2>1. Pass(t, "create") \/ \E e \in DOMAIN View(t).entities : Match(t, e)
      BY <1>11 DEF BySimilarity, Survivors
    <2> QED BY <1>3, <1>5, <1>6, <1>7, <1>8, <1>11, <2>1 DEF BySimilarity
  <1> QED BY <1>9, <1>10, <1>11

(* ... and so does get, which finds no entity only if it was deleted.      *)
LEMMA IngestsGet ==
  ASSUME EntityAssumption, TypeInvariant, PointersKnown, NEW t \in Ingesting, Ingests(t), Get(t)
  PROVE  Ingests(t)'
  <1> DEFINE v == call[t].value
             view == View(t)
  <1> PICK w : w = wanted[t][1]
    OBVIOUS
  <1>1. t \in Requests /\ call[t].kind = "ingest" /\ Control(t)
    BY DEF Ingesting, InProgress, TypeInvariant
  <1>2. pc[t] = "get" /\ UNCHANGED <<db, call, writes>>
    BY <1>1 DEF Get, Control
  <1>3. DOMAIN writes[t].entities = {} /\ Unreferred(t) /\ w \in DOMAIN db.entities /\ Comes(t, w)
    BY <1>2 DEF Ingests
  <1>4. (DOMAIN writes[t].entities = {} /\ Unreferred(t))'
    BY <1>2, <1>3 DEF Unreferred
  <1>5. DOMAIN view.entities = DOMAIN db.entities
        /\ \A e \in DOMAIN db.entities : view.entities[e] = db.entities[e]
    BY <1>1, <1>3, UnwrittenView
  <1>6. /\ wanted[t] \in Seq(Entities \cup Names) /\ found[t] \in Seq(Entities \cup {NoEntity})
        /\ wanted[t] # << >> /\ Len(found[t]) + Len(wanted[t]) = 1
    BY <1>1, <1>2 DEF Control, TypeInvariant, TypeOK, Needed, Arity
  <1>7. Len(wanted[t]) = 1 /\ Len(found[t]) = 0 /\ Head(wanted[t]) = w
    <2>1. Len(wanted[t]) \in Nat \ {0} /\ Len(found[t]) \in Nat
      BY <1>6, LenProperties, EmptySeq
    <2>2. \A m \in Nat \ {0}, n \in Nat : n + m = 1 => m = 1 /\ n = 0
      OBVIOUS
    <2>3. Len(wanted[t]) = 1 /\ Len(found[t]) = 0
      BY <1>6, <2>1, <2>2
    <2> QED BY <1>6, <2>3
  <1>8. found[t] = << >>
    BY <1>6, <1>7, EmptySeq
  <1>9. w \in Entities /\ w \notin Names /\ w # NoEntity
        /\ \A e \in DOMAIN db.entities : db.entities[e].name \in Names
    BY <1>1, <1>3 DEF TypeInvariant, TypeOK, IsStore, Entity, EntityAssumption
  <1>10. Hits(view, w) \subseteq {w} /\ (Hits(view, w) = {} => db.entities[w].deleted)
    BY <1>3, <1>5, <1>9 DEF Hits
  <1>11. ASSUME NEW x
         PROVE  /\ Append(<< >>, x) = <<x>>
                /\ Resolved("ingest", <<x>>) = IF x = NoEntity THEN "create" ELSE "link"
    BY DEF Resolved, AfterMatch
  <1>12. ASSUME NEW x, Answered(t, x)
         PROVE  pc'[t] = (IF x = NoEntity THEN "create" ELSE "link") /\ found'[t] = <<x>>
    <2>1. pc'[t] = NextPlace(t, x) /\ found'[t] = <<x>>
      BY <1>1, <1>8, <1>11, <1>12 DEF Answered, TypeInvariant, TypeOK
    <2>2. NextPlace(t, x) = Resolved("ingest", <<x>>)
      BY <1>1, <1>2, <1>7, <1>8, <1>11 DEF NextPlace
    <2> QED BY <1>11, <2>1, <2>2
  <1>13. \A x : Comes(t, x) => Comes(t, x)'
    BY <1>2 DEF Comes, Lost, OnWay, Closed
  <1>14. \A x : Lost(x) => Lost(x)'
    BY <1>2 DEF Lost, OnWay, Closed
  <1> HIDE DEF view
  <1>15. \/ Hits(view, w) = {} /\ Answered(t, NoEntity)
         \/ w \in Hits(view, w) /\ IF Pointer(view, w) = NoEntity THEN Answered(t, w)
                                   ELSE Followed(t, Pointer(view, w))
    <2>1. \/ Hits(view, w) = {} /\ Answered(t, NoEntity)
          \/ \E e \in Hits(view, w) : IF Pointer(view, e) = NoEntity THEN Answered(t, e)
                                      ELSE Followed(t, Pointer(view, e))
      BY <1>7 DEF Get, Answered, Followed, NextPlace, Goto, view
    <2> QED BY <1>10, <2>1
  <1>16. CASE Hits(view, w) = {} /\ Answered(t, NoEntity)
    <2>1. pc'[t] = "create"
      BY <1>12, <1>16
    <2>2. Lost(w)
      BY <1>3, <1>10, <1>16, WayOnward DEF Lost
    <2>3. v \in DOMAIN db.refs => Lost(db.refs[v])
      BY <1>3, <2>2, WayOnward DEF Comes
    <2>4. call'[t].value \in DOMAIN db'.refs => Lost(db.refs[call[t].value])'
      BY <1>2, <1>14, <2>3
    <2> QED BY <1>4, <2>1, <2>4 DEF Ingests
  <1>17. CASE w \in Hits(view, w) /\ Pointer(view, w) = NoEntity /\ Answered(t, w)
    <2>1. pc'[t] = "link" /\ found'[t] = <<w>>
      BY <1>9, <1>12, <1>17
    <2>2. found'[t][1] = w
      BY <2>1
    <2>3. Comes(t, w)'
      BY <1>3, <1>13
    <2>4. Comes(t, found[t][1])'
      BY <2>2, <2>3 DEF Comes
    <2>5. found'[t][1] \in DOMAIN db'.entities
      BY <1>2, <1>3, <2>2
    <2> QED BY <1>4, <2>1, <2>4, <2>5 DEF Ingests
  <1>18. CASE w \in Hits(view, w) /\ Pointer(view, w) # NoEntity /\ Followed(t, Pointer(view, w))
    <2> PICK p : p = db.entities[w].merged
      OBVIOUS
    <2>1. Pointer(view, w) = p
      BY <1>3, <1>5 DEF Pointer
    <2>2. p # NoEntity /\ p \in DOMAIN db.entities /\ OnWay(w, p)
      BY <1>3, <1>18, <2>1, WayOnward DEF PointersKnown
    <2>3. Comes(t, p)
      BY <1>3, <2>2, WayOnward DEF Comes
    <2>4. wanted' = [wanted EXCEPT ![t] = <<p>> \o Tail(wanted[t])] /\ pc'[t] = "get"
      BY <1>2, <1>18, <2>1 DEF Followed
    <2>5. wanted'[t] = <<p>> \o Tail(wanted[t])
      BY <1>1, <2>4 DEF TypeInvariant, TypeOK
    <2>6. (<<p>> \o Tail(wanted[t]))[1] = p
      <3>1. Tail(wanted[t]) \in Seq(Entities \cup Names) /\ <<p>> \in Seq({p})
        BY <1>6, HeadTailProperties
      <3>2. Tail(wanted[t]) \in Seq(Entities \cup Names \cup {p}) /\ <<p>> \in Seq(Entities \cup Names \cup {p})
        BY <3>1
      <3> QED BY <3>2, ConcatProperties
    <2>7. Comes(t, p)'
      BY <1>13, <2>3
    <2>8. Comes(t, wanted[t][1])'
      BY <2>5, <2>6, <2>7 DEF Comes
    <2>9. wanted'[t][1] \in DOMAIN db'.entities
      BY <1>2, <2>2, <2>5, <2>6
    <2> QED BY <1>4, <2>4, <2>8, <2>9 DEF Ingests
  <1> QED BY <1>15, <1>16, <1>17, <1>18

(* Referring, with nothing written before.                                 *)
LEMMA IngestsRefer ==
  ASSUME EntityAssumption, TypeInvariant, NEW t \in Requests, NEW e \in Entities,
         Unreferred(t), Referred(t, e), UNCHANGED <<db, call>>, pc'[t] = "done",
         e \in DOMAIN db.entities \cup DOMAIN writes'[t].entities, Comes(t, e)
  PROVE  Ingests(t)'
  <1> PICK v : v = call[t].value
    OBVIOUS
  <1>1. CASE v = NoIdentifier
    <2>1. writes'[t].refs = writes[t].refs /\ writes'[t].linked = writes[t].linked
      BY <1>1 DEF Referred
    <2>2. Unreferred(t)' /\ call'[t].value = NoIdentifier
      BY <1>1, <2>1 DEF Unreferred
    <2> QED BY <2>2 DEF Ingests
  <1>2. CASE v # NoIdentifier
    <2> DEFINE row == [x \in {v} |-> e]
    <2>1. /\ writes'[t].refs = Overlay(writes[t].refs, row)
          /\ writes'[t].linked = writes[t].linked \cup {<<v, e>>}
      BY <1>2 DEF Referred
    <2>2. DOMAIN row = {v} /\ row[v] = e
      OBVIOUS
    <2> HIDE DEF row
    <2>3. DOMAIN writes'[t].refs = {v} /\ writes'[t].refs[v] = e
      <3>1. /\ DOMAIN Overlay(writes[t].refs, row) = DOMAIN writes[t].refs \cup DOMAIN row
            /\ \A x \in DOMAIN row : Overlay(writes[t].refs, row)[x] = row[x]
            /\ \A x \in DOMAIN writes[t].refs \ DOMAIN row :
                 Overlay(writes[t].refs, row)[x] = writes[t].refs[x]
        BY OverlayIs
      <3> QED BY <2>1, <2>2, <3>1 DEF Unreferred
    <2>4. writes'[t].linked = {<<v, e>>}
      BY <2>1 DEF Unreferred
    <2>5. Comes(t, e)'
      BY DEF Comes, Lost, OnWay, Closed
    <2>6. call'[t].value = v
      OBVIOUS
    <2>7. Refers(t, e)'
      BY <2>3, <2>4, <2>5, <2>6 DEF Refers
    <2> QED BY <1>2, <2>6, <2>7 DEF Ingests
  <1> QED BY <1>1, <1>2

LEMMA IngestsStep ==
  ASSUME EntityAssumption, TypeInvariant, PointersKnown, RefsKnown, NEW t \in Ingesting,
         Ingests(t), Step(t)
  PROVE  Ingests(t)'
  <1>1. t \in Requests /\ call[t].kind = "ingest" /\ Control(t) /\ KnownFound(t)
    BY DEF Ingesting, InProgress, TypeInvariant
  <1>2. CASE ByIdentifier(t) \/ ByName(t) \/ BySimilarity(t)
    BY <1>1, <1>2, IngestsResolver
  <1>3. CASE Get(t)
    BY <1>3, IngestsGet
  <1>4. CASE Link(t)
    <2> PICK e : e = found[t][1]
      OBVIOUS
    <2>1. pc[t] = "link" /\ UNCHANGED <<db, call>> /\ pc'[t] = "done" /\ Referred(t, e)
      BY <1>1, <1>4, TypeLink
    <2>2. Unreferred(t) /\ e \in DOMAIN db.entities /\ Comes(t, e)
      BY <2>1 DEF Ingests
    <2>3. e \in Entities
      BY <2>2 DEF TypeInvariant, TypeOK, IsStore
    <2> QED BY <1>1, <2>1, <2>2, <2>3, IngestsRefer
  <1>5. CASE Create(t)
    <2>1. PICK e \in Entities, row \in Entity :
            /\ UNCHANGED <<db, call>> /\ pc[t] = "create" /\ pc'[t] = "done"
            /\ Puts(t, e, row) /\ Referred(t, e)
      BY <1>1, <1>5, TypeCreate
    <2>2. Unreferred(t) /\ Comes(t, e)
      BY <2>1 DEF Ingests, Comes
    <2>3. e \in DOMAIN writes'[t].entities
      BY <2>1 DEF Puts
    <2> QED BY <1>1, <2>1, <2>2, <2>3, IngestsRefer
  <1>6. CASE MoveSubjects(t) \/ MoveObjects(t) \/ MarkMerged(t) \/ SoftDelete(t) \/ AddFact(t)
    BY <1>1, <1>6 DEF MoveSubjects, MoveObjects, MarkMerged, SoftDelete, AddFact, Control
  <1> QED BY <1>2, <1>3, <1>4, <1>5, <1>6 DEF Step

(* A statement of t leaves identifiers in order.                           *)
LEMMA LinksStep ==
  ASSUME EntityAssumption, OneIngestionAtATime, MergeInvariant, LinkInvariant,
         NEW t \in Requests, Receive(t) \/ Step(t)
  PROVE  LinkInvariant'
  <1>1. TypeInvariant /\ Pointers(t)
    BY DEF MergeInvariant, RowInvariant
  <1>2. By(t) /\ UNCHANGED db
    BY <1>1, StepEffect
  <1>3. PointersKnown' /\ RefsKnown' /\ LinksLead'
    BY <1>2 DEF LinkInvariant, PointersKnown, RefsKnown, LinksLead, Lost, OnWay, Closed
  <1>4. Sole("ingest")' /\ \A u \in Requests \ {t} : u \in Ingesting' <=> u \in Ingesting
    <2>1. Sole("ingest") /\ "ingest" \in Kinds
      BY DEF LinkInvariant, Kinds
    <2>2. CASE Receive(t)
      BY <1>1, <2>1, <2>2, KindReceive DEF Ingesting, OneIngestionAtATime
    <2>3. CASE Step(t)
      <3>1. InProgress("ingest")' = InProgress("ingest")
        BY <1>1, <2>1, <2>3, KindStep
      <3> QED BY <2>1, <3>1 DEF Ingesting, Sole
    <2> QED BY <2>2, <2>3
  <1>5. ASSUME NEW u \in Requests \ {t}
        PROVE  IF u \in Ingesting' THEN Ingests(u)' ELSE Unreferred(u)'
    <2>1. /\ pc'[u] = pc[u] /\ call'[u] = call[u] /\ wanted'[u] = wanted[u] /\ found'[u] = found[u]
          /\ writes'[u] = writes[u] /\ db' = db
      BY <1>2, <1>5 DEF By
    <2>2. IF u \in Ingesting THEN Ingests(u) ELSE Unreferred(u)
      BY DEF LinkInvariant
    <2>3. Unreferred(u) => Unreferred(u)'
      BY <2>1 DEF Unreferred
    <2>4. Ingests(u) => Ingests(u)'
      BY <2>1 DEF Ingests, Unreferred, Refers, Comes, Lost, OnWay, Closed
    <2> QED BY <1>4, <1>5, <2>2, <2>3, <2>4
  <1>6. IF t \in Ingesting' THEN Ingests(t)' ELSE Unreferred(t)'
    <2>1. IF t \in Ingesting THEN Ingests(t) ELSE Unreferred(t)
      BY DEF LinkInvariant
    <2>2. CASE Receive(t)
      <3>1. PICK c \in Calls :
              /\ pc[t] = "new" /\ call' = [call EXCEPT ![t] = c] /\ UNCHANGED writes
              /\ pc' = [pc EXCEPT ![t] = IF c.kind = "ingest" THEN "identifier" ELSE "get"]
        BY <2>2 DEF Receive, Goto
      <3>2. call'[t] = c /\ pc'[t] = IF c.kind = "ingest" THEN "identifier" ELSE "get"
        BY <1>1, <3>1 DEF TypeInvariant, TypeOK
      <3>3. t \notin Ingesting
        BY <3>1 DEF Ingesting, InProgress, Open
      <3>4. (DOMAIN writes[t].entities = {} /\ Unreferred(t))'
        BY <1>1, <2>1, <3>1, <3>3 DEF Pointers, Unreferred
      <3>5. t \in Ingesting' => pc'[t] = "identifier"
        BY <3>2 DEF Ingesting, InProgress
      <3> QED BY <3>4, <3>5 DEF Ingests
    <2>3. CASE Step(t) /\ t \in Ingesting
      <3>1. Ingests(t)'
        BY <1>1, <2>1, <2>3, IngestsStep DEF LinkInvariant
      <3>2. t \in Ingesting'
        BY <1>1, <2>3, KindStep DEF Ingesting, Kinds
      <3> QED BY <3>1, <3>2
    <2>4. CASE Step(t) /\ t \notin Ingesting
      <3>1. Open(t) /\ Control(t)
        BY <1>1, <2>4, StepOpen DEF TypeInvariant
      <3>2. ~Link(t) /\ ~Create(t)
        BY <2>4, <3>1 DEF Ingesting, InProgress, Link, Create, Control
      <3>3. Unreferred(t)'
        BY <1>1, <2>1, <2>4, <3>2, ReferringSteps DEF Unreferred
      <3>4. t \notin Ingesting'
        BY <1>1, <2>4, KindStep DEF Ingesting, Kinds
      <3> QED BY <3>3, <3>4
    <2> QED BY <2>2, <2>3, <2>4
  <1>7. \A u \in Requests : IF u \in Ingesting' THEN Ingests(u)' ELSE Unreferred(u)'
    <2> TAKE u \in Requests
    <2>1. CASE u = t
      BY <1>6, <2>1 DEF Ingests, Unreferred, Refers, Comes
    <2> QED BY <1>5, <2>1
  <1> QED BY <1>3, <1>4, <1>7 DEF LinkInvariant

(* What is committed about identifiers: nothing, or that the one of an     *)
(* ingestion names e.                                                      *)
LEMMA CommitRefers ==
  ASSUME EntityAssumption, TypeInvariant, LinkInvariant, NEW t \in Requests,
         Commit(t) \/ Rollback(t) \/ Crash(t)
  PROVE  \/ /\ DOMAIN db'.refs = DOMAIN db.refs /\ \A v \in DOMAIN db.refs : db'.refs[v] = db.refs[v]
            /\ db'.linked = db.linked
         \/ /\ t \in Ingesting
            /\ \E v, e :
                 /\ DOMAIN db'.refs = DOMAIN db.refs \cup {v} /\ db'.refs[v] = e
                 /\ \A x \in DOMAIN db.refs \ {v} : db'.refs[x] = db.refs[x]
                 /\ db'.linked = db.linked \cup {<<v, e>>} /\ e \in DOMAIN db'.entities
                 /\ v \in DOMAIN db.refs => Lost(db.refs[v]) \/ OnWay(db.refs[v], e)
  <1>1. Open(t) /\ (db' = db \/ (db' = View(t) /\ pc[t] = "done"))
    BY TypeEnd
  <1>2. CASE db' = db
    BY <1>2
  <1>3. CASE db' = View(t) /\ pc[t] = "done"
    <2>1. /\ db'.refs = Overlay(db.refs, writes[t].refs)
          /\ db'.linked = db.linked \cup writes[t].linked
          /\ DOMAIN db'.entities = DOMAIN db.entities \cup DOMAIN writes[t].entities
      BY <1>3, ViewIs DEF View
    <2>2. CASE Unreferred(t)
      <3>1. DOMAIN writes[t].refs = {} /\ writes[t].linked = {}
        BY <2>2 DEF Unreferred
      <3>2. /\ DOMAIN Overlay(db.refs, writes[t].refs) = DOMAIN db.refs
            /\ \A v \in DOMAIN db.refs : Overlay(db.refs, writes[t].refs)[v] = db.refs[v]
        BY <3>1, OverlayNone
      <3> QED BY <2>1, <3>1, <3>2
    <2>3. CASE ~Unreferred(t)
      <3>1. t \in Ingesting /\ Ingests(t)
        BY <2>3 DEF LinkInvariant
      <3>2. PICK e \in Entities : Refers(t, e)
        BY <1>3, <2>3, <3>1 DEF Ingests
      <3> PICK v : v = call[t].value
        OBVIOUS
      <3>3. /\ DOMAIN writes[t].refs = {v} /\ writes[t].refs[v] = e /\ writes[t].linked = {<<v, e>>}
            /\ e \in DOMAIN db.entities \cup DOMAIN writes[t].entities
            /\ v \in DOMAIN db.refs => Lost(db.refs[v]) \/ OnWay(db.refs[v], e)
        BY <3>2 DEF Refers, Comes
      <3>4. /\ DOMAIN Overlay(db.refs, writes[t].refs) = DOMAIN db.refs \cup DOMAIN writes[t].refs
            /\ \A x \in DOMAIN writes[t].refs : Overlay(db.refs, writes[t].refs)[x] = writes[t].refs[x]
            /\ \A x \in DOMAIN db.refs \ DOMAIN writes[t].refs :
                 Overlay(db.refs, writes[t].refs)[x] = db.refs[x]
        BY OverlayIs
      <3>5. /\ DOMAIN db'.refs = DOMAIN db.refs \cup {v} /\ db'.refs[v] = e
            /\ \A x \in DOMAIN db.refs \ {v} : db'.refs[x] = db.refs[x]
            /\ db'.linked = db.linked \cup {<<v, e>>} /\ e \in DOMAIN db'.entities
        BY <2>1, <3>3, <3>4
      <3> QED BY <3>1, <3>3, <3>5
    <2> QED BY <2>2, <2>3
  <1> QED BY <1>1, <1>2, <1>3

LEMMA LinksEnd ==
  ASSUME EntityAssumption, MergeInvariant, LinkInvariant, NEW t \in Requests,
         Commit(t) \/ Rollback(t) \/ Crash(t)
  PROVE  LinkInvariant'
  <1>1. RowInvariant /\ TypeInvariant
    BY DEF MergeInvariant, RowInvariant
  <1>2. \A e \in DOMAIN db.entities : /\ e \in DOMAIN db'.entities
                                      /\ Follows(db.entities[e], db'.entities[e])
    BY <1>1, CommitIs
  <1>3. /\ \A a, b : OnWay(a, b) => OnWay(a, b)'
        /\ \A a : Lost(a) => Lost(a)'
    BY <1>2, WaysKept
  <1>4. By(t) /\ writes'[t] = Nothing
    BY <1>1, TypeEnd
  <1>5. /\ Sole("ingest")' /\ t \notin Ingesting'
        /\ \A u \in Requests \ {t} : u \in Ingesting' <=> u \in Ingesting
    BY <1>1, KindEnd DEF LinkInvariant, Ingesting, Kinds
  <1>6. PointersKnown'
    <2>1. \A e \in DOMAIN db.entities : db.entities[e].merged # NoEntity =>
            db.entities[e].merged \in DOMAIN db'.entities
      BY <1>2 DEF LinkInvariant, PointersKnown
    <2>2. CASE /\ \A e \in DOMAIN db.entities : db'.entities[e].merged = db.entities[e].merged
               /\ \A e \in DOMAIN db'.entities \ DOMAIN db.entities : db'.entities[e].merged = NoEntity
      BY <2>1, <2>2 DEF PointersKnown
    <2>3. ASSUME NEW s, NEW l, IsRoot(s), db'.entities[l].merged = s,
                 DOMAIN db'.entities = DOMAIN db.entities,
                 \A e \in DOMAIN db.entities \ {l} : db'.entities[e].merged = db.entities[e].merged
          PROVE  PointersKnown'
      BY <2>1, <2>3 DEF PointersKnown, IsRoot
    <2>4. \A u \in Requests : Pointers(u)
      BY DEF MergeInvariant
    <2>5. \/ /\ \A e \in DOMAIN db.entities : db'.entities[e].merged = db.entities[e].merged
             /\ \A e \in DOMAIN db'.entities \ DOMAIN db.entities : db'.entities[e].merged = NoEntity
          \/ \E s, l \in Entities :
               /\ IsRoot(s) /\ db'.entities[l].merged = s
               /\ DOMAIN db'.entities = DOMAIN db.entities
               /\ \A e \in DOMAIN db.entities \ {l} :
                    db'.entities[e].merged = db.entities[e].merged
      BY <1>1, <2>4, CommitPointers
    <2> QED BY <2>2, <2>3, <2>5
  <1>7. RefsKnown' /\ LinksLead'
    <2>1. RefsKnown /\ LinksLead
      BY DEF LinkInvariant
    <2>2. ASSUME NEW a, NEW b, Lost(a) \/ OnWay(a, b) PROVE (Lost(a) \/ OnWay(a, b))'
      BY <1>3, <2>2
    <2>3. CASE /\ DOMAIN db'.refs = DOMAIN db.refs
               /\ \A v \in DOMAIN db.refs : db'.refs[v] = db.refs[v]
               /\ db'.linked = db.linked
      <3>1. RefsKnown'
        BY <1>2, <2>1, <2>3 DEF RefsKnown
      <3>2. ASSUME NEW m \in db'.linked
            PROVE  m[1] \in DOMAIN db'.refs /\ (Lost(m[2]) \/ OnWay(m[2], db.refs[m[1]]))'
        <4> PICK b : b = db.refs[m[1]]
          OBVIOUS
        <4>1. m[1] \in DOMAIN db.refs /\ (Lost(m[2]) \/ OnWay(m[2], b))
          BY <2>1, <2>3, <3>2 DEF LinksLead
        <4>2. db'.refs[m[1]] = b
          BY <2>3, <4>1
        <4>3. Lost(m[2])' \/ OnWay(m[2], b)'
          BY <2>2, <4>1
        <4> QED BY <2>3, <4>1, <4>2, <4>3
      <3> QED BY <3>1, <3>2 DEF LinksLead
    <2>4. ASSUME NEW v, NEW e,
                 DOMAIN db'.refs = DOMAIN db.refs \cup {v}, db'.refs[v] = e,
                 \A x \in DOMAIN db.refs \ {v} : db'.refs[x] = db.refs[x],
                 db'.linked = db.linked \cup {<<v, e>>}, e \in DOMAIN db'.entities,
                 v \in DOMAIN db.refs => Lost(db.refs[v]) \/ OnWay(db.refs[v], e)
          PROVE  RefsKnown' /\ LinksLead'
      <3>1. RefsKnown'
        BY <1>2, <2>1, <2>4 DEF RefsKnown
      <3>2. ASSUME NEW m \in db'.linked
            PROVE  m[1] \in DOMAIN db'.refs /\ (Lost(m[2]) \/ OnWay(m[2], db.refs[m[1]]))'
        <4> PICK b : b = db'.refs[m[1]]
          OBVIOUS
        <4>1. m[1] \in DOMAIN db'.refs
          BY <2>1, <2>4, <3>2 DEF LinksLead
        <4>2. Lost(m[2]) \/ OnWay(m[2], b)
          <5>1. CASE m \in db.linked /\ m[1] # v
            BY <2>1, <2>4, <5>1 DEF LinksLead
          <5>2. CASE m \in db.linked /\ m[1] = v
            <6>1. v \in DOMAIN db.refs /\ (Lost(m[2]) \/ OnWay(m[2], db.refs[v])) /\ b = e
              BY <2>1, <2>4, <5>2 DEF LinksLead
            <6>2. Lost(db.refs[v]) \/ OnWay(db.refs[v], e)
              BY <2>4, <6>1
            <6> QED BY <6>1, <6>2, WayOnward
          <5>3. CASE m = <<v, e>>
            BY <2>4, <5>3, WayOnward
          <5> QED BY <2>4, <3>2, <5>1, <5>2, <5>3
        <4>3. Lost(m[2])' \/ OnWay(m[2], b)'
          BY <2>2, <4>2
        <4> QED BY <4>1, <4>3
      <3> QED BY <3>1, <3>2 DEF LinksLead
    <2> QED BY <1>1, <2>3, <2>4, CommitRefers
  <1>8. ASSUME NEW u \in Requests
        PROVE  IF u \in Ingesting' THEN Ingests(u)' ELSE Unreferred(u)'
    <2>1. IF u \in Ingesting THEN Ingests(u) ELSE Unreferred(u)
      BY DEF LinkInvariant
    <2>2. CASE u = t
      <3>1. Unreferred(u)'
        BY <1>4, <2>2 DEF Unreferred, Nothing
      <3> QED BY <1>5, <2>2, <3>1
    <2>3. CASE u # t
      <3>1. /\ pc'[u] = pc[u] /\ call'[u] = call[u] /\ wanted'[u] = wanted[u]
            /\ found'[u] = found[u] /\ writes'[u] = writes[u]
        BY <1>4, <2>3 DEF By
      <3>2. Unreferred(u) => Unreferred(u)'
        BY <3>1 DEF Unreferred
      <3>3. CASE u \in Ingesting
        <4>1. t \notin Ingesting
          BY <2>3, <3>3 DEF LinkInvariant, Sole, Ingesting
        <4>2. DOMAIN db'.refs = DOMAIN db.refs /\ \A v \in DOMAIN db.refs : db'.refs[v] = db.refs[v]
          BY <1>1, <4>1, CommitRefers
        <4> PICK v : v = call[u].value
          OBVIOUS
        <4> PICK r : r = db.refs[v]
          OBVIOUS
        <4>3. v \in DOMAIN db.refs => db'.refs[v] = r
          BY <4>2
        <4>4. ASSUME NEW x, Comes(u, x) PROVE Comes(u, x)'
          <5>1. v \in DOMAIN db.refs => Lost(r) \/ OnWay(r, x)
            BY <4>4 DEF Comes
          <5>2. v \in DOMAIN db.refs => Lost(r)' \/ OnWay(r, x)'
            BY <1>3, <5>1
          <5>3. v \in DOMAIN db'.refs => (Lost(db.refs[v]) \/ OnWay(db.refs[v], x))'
            BY <4>2, <4>3, <5>2
          <5>4. v = call'[u].value
            BY <3>1
          <5> QED BY <5>3, <5>4 DEF Comes
        <4>5. ASSUME v \in DOMAIN db.refs => Lost(db.refs[v])
              PROVE  v \in DOMAIN db'.refs => Lost(db.refs[v])'
          BY <1>3, <4>2, <4>3, <4>5
        <4>6. Ingests(u)'
          <5> PICK w : w = wanted[u][1]
            OBVIOUS
          <5> PICK f : f = found[u][1]
            OBVIOUS
          <5>1. v = call'[u].value /\ w = wanted'[u][1] /\ f = found'[u][1] /\ pc'[u] = pc[u]
                /\ writes'[u] = writes[u]
            BY <3>1
          <5>2. pc[u] = "get" => w \in DOMAIN db'.entities /\ Comes(u, w)'
            BY <1>2, <2>1, <3>3, <4>4 DEF Ingests
          <5>3. pc[u] = "get" => (wanted[u][1] \in DOMAIN db.entities /\ Comes(u, wanted[u][1]))'
            BY <5>1, <5>2
          <5>4. pc[u] = "link" => f \in DOMAIN db'.entities /\ Comes(u, f)'
            BY <1>2, <2>1, <3>3, <4>4 DEF Ingests
          <5>5. pc[u] = "link" => (found[u][1] \in DOMAIN db.entities /\ Comes(u, found[u][1]))'
            BY <5>1, <5>4
          <5>6. pc[u] = "create" /\ v \in DOMAIN db'.refs => Lost(db.refs[v])'
            BY <2>1, <3>3, <4>5 DEF Ingests
          <5>7. pc[u] = "create" /\ v \in DOMAIN db'.refs => Lost(db.refs[call[u].value])'
            BY <5>1, <5>6
          <5>8. pc[u] \in {"name", "similar"} => v \notin DOMAIN db'.refs
            BY <2>1, <3>3, <4>2 DEF Ingests
          <5>9. ASSUME NEW x \in Entities, Refers(u, x) PROVE Refers(u, x)'
            BY <1>2, <3>1, <4>4, <5>9 DEF Refers
          <5>10. pc[u] = "done" => IF v = NoIdentifier THEN Unreferred(u)'
                                   ELSE \E x \in Entities : Refers(u, x)'
            BY <2>1, <3>2, <3>3, <5>9 DEF Ingests
          <5>11. pc[u] \in {"identifier", "name", "similar", "get", "link", "create"} =>
                   (DOMAIN writes[u].entities = {} /\ Unreferred(u))'
            BY <2>1, <3>1, <3>2, <3>3 DEF Ingests
          <5> QED BY <5>1, <5>3, <5>5, <5>7, <5>8, <5>10, <5>11 DEF Ingests
        <4> QED BY <1>5, <2>3, <3>3, <4>6
      <3> QED BY <1>5, <2>1, <2>3, <3>2, <3>3
    <2> QED BY <2>2, <2>3
  <1> QED BY <1>5, <1>6, <1>7, <1>8 DEF LinkInvariant

LEMMA LinksNext ==
  ASSUME EntityAssumption, OneIngestionAtATime, MergeInvariant, LinkInvariant, [Next]_vars
  PROVE  LinkInvariant'
<1>1. CASE UNCHANGED vars
  <2>1. UNCHANGED db /\ Ingesting' = Ingesting /\ InProgress("ingest")' = InProgress("ingest")
    BY <1>1 DEF vars, Ingesting, InProgress, Open
  <2>2. PointersKnown' /\ RefsKnown' /\ LinksLead' /\ Sole("ingest")'
    BY <2>1 DEF LinkInvariant, Sole, PointersKnown, RefsKnown, LinksLead, Lost, OnWay, Closed
  <2>3. ASSUME NEW t \in Requests
        PROVE  (Ingests(t) => Ingests(t)') /\ (Unreferred(t) => Unreferred(t)')
    BY <1>1 DEF vars, Ingests, Unreferred, Refers, Comes, Lost, OnWay, Closed
  <2> QED BY <2>1, <2>2, <2>3 DEF LinkInvariant
<1>2. ASSUME NEW t \in Requests, Receive(t) \/ Step(t)
      PROVE  LinkInvariant'
  BY <1>2, LinksStep
<1>3. ASSUME NEW t \in Requests, Commit(t) \/ Rollback(t) \/ Crash(t)
      PROVE  LinkInvariant'
  BY <1>3, LinksEnd
<1> QED BY <1>1, <1>2, <1>3 DEF Next, Quiet

LEMMA LinksInit ==
  ASSUME EntityAssumption, Init
  PROVE  LinkInvariant
  <1>1. InProgress("ingest") = {}
    BY DEF Init, InProgress, Open
  <1>2. Sole("ingest")
    BY <1>1, FS_EmptySet DEF Sole
  <1>3. /\ DOMAIN db.refs = {} /\ db.linked = {}
        /\ \A e \in DOMAIN db.entities : db.entities[e].merged = NoEntity
    <2> DEFINE rows == [e \in DOMAIN Stored |->
                          [name |-> Stored[e], merged |-> NoEntity, deleted |-> FALSE]]
    <2>1. \A e \in DOMAIN rows : rows[e].merged = NoEntity
      OBVIOUS
    <2> HIDE DEF rows
    <2>2. db = [Nothing EXCEPT !.entities = rows]
      BY DEF Init, rows
    <2>3. db.entities = rows /\ DOMAIN db.refs = {} /\ db.linked = {}
      BY <2>2 DEF Nothing
    <2> QED BY <2>1, <2>3
  <1>4. \A t \in Requests : Unreferred(t)
    BY DEF Init, Unreferred, Nothing
  <1> QED BY <1>1, <1>2, <1>3, <1>4
           DEF LinkInvariant, Ingesting, PointersKnown, RefsKnown, LinksLead

(* Ingestions of one identifier come to one entity, as long as it can be   *)
(* found: for any finite number of entities, with merges and ingestions    *)
(* one at a time, a merge before, between or during two ingestions does    *)
(* not make the second start another entity.                               *)
THEOREM IdentifiersAgree ==
  OneMergeAtATime /\ OneIngestionAtATime /\ IsFiniteSet(Entities)
    => (Spec => []IdentifierNamesOne)
<1> SUFFICES ASSUME OneMergeAtATime, OneIngestionAtATime, IsFiniteSet(Entities)
             PROVE  Spec => []IdentifierNamesOne
  OBVIOUS
<1>1. Init => LinkInvariant
  BY LinksInit, EntityAssumption
<1>2. MergeInvariant /\ LinkInvariant /\ [Next]_vars => LinkInvariant'
  BY LinksNext, EntityAssumption
<1>3. MergeInvariant /\ LinkInvariant => IdentifierNamesOne
  <2> SUFFICES ASSUME MergeInvariant, LinkInvariant PROVE IdentifierNamesOne
    OBVIOUS
  <2> QED BY LinksAgree, EntityAssumption DEF MergeInvariant, RowInvariant, TypeInvariant, LinkInvariant
<1>4. Spec => []MergeInvariant
  BY MergeAlways
<1> QED BY <1>1, <1>2, <1>3, <1>4, PTL DEF Spec

=============================================================================
