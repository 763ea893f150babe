--------------------------- MODULE ReviewQueueProofs ---------------------------
(***************************************************************************)
(* Proofs about the review queue, for every set of proposals, reviewers    *)
(* and requests, single and bulk: an approved fact is in the store, only   *)
(* requests that overlap decide a proposal again, and the queue implements *)
(* FactLedger if an approval is of one proposal.                           *)
(***************************************************************************)
EXTENDS ReviewQueue, TLAPS, FiniteSetTheorems

(* Where a request has a proposal at hand, and where it has found it       *)
(* pending and not decided it yet.                                         *)
AtItem == {"read", "source", "land", "mark"}

Resolving == {"source", "land", "mark"}

Control(t) ==
  /\ pc[t] \in AtItem => todo[t] # << >>
  /\ t \in Active => body[t] \in Bodies

TypeInvariant ==
  /\ TypeOK
  /\ DOMAIN todo = Requests /\ DOMAIN writes = Requests /\ DOMAIN marks = Requests
  /\ \A t \in Requests : Control(t)

-----------------------------------------------------------------------------
(* Approval *)

(* Edge e of view says what proposal p said. *)
Landed(view, e, p) == e \in DOMAIN view /\ SameTriple(view[e], ProposedFact[p])

(* A row in flight says what the committed one does, and a row two         *)
(* requests have in flight is committed already.                           *)
TriplesKept ==
  /\ \A t \in Requests : \A e \in DOMAIN writes[t] \cap DOMAIN edges :
       SameTriple(writes[t][e], edges[e])
  /\ \A t, u \in Requests : t # u => DOMAIN writes[t] \cap DOMAIN writes[u] \subseteq DOMAIN edges

(* What t is about to call approved has landed. *)
ApprovalsLand(t) ==
  /\ \A p \in DOMAIN marks[t] :
       marks[t][p].status = "approved" => Landed(View(t), marks[t][p].edge, p)
  /\ pc[t] = "mark" /\ body[t].verb = "approve" => Landed(View(t), landed[t], Item(t))

LandInvariant ==
  /\ TypeInvariant /\ TriplesKept
  /\ \A t \in Requests : ApprovalsLand(t)
  /\ ApprovedFactsLanded

-----------------------------------------------------------------------------
(* Decisions *)

(* What t has decided and not committed, once for each proposal.           *)
DecidesOnce(t) ==
  /\ \A p \in DOMAIN marks[t] : marks[t][p].status # "pending"
  /\ pc[t] \in Resolving => Item(t) \notin DOMAIN marks[t]
  /\ \A d \in log[t] : d.request = t /\ d.proposal \in DOMAIN marks[t]
  /\ \A c, d \in log[t] : c.proposal = d.proposal => c = d
  /\ t \notin Active => log[t] = {} /\ DOMAIN marks[t] = {}

(* The decisions in the audit log. *)
AuditDecides ==
  /\ \A d \in audit : pc[d.request] = "ended" /\ reviews[d.proposal].status # "pending"
  /\ \A c, d \in audit : c.request = d.request /\ c.proposal = d.proposal => c = d

(* Who has decided p, and who is about to.                                 *)
Deciders(p) == {d.request : d \in {x \in audit : x.proposal = p}}

Deciding(p) ==
  {t \in Requests : p \in DOMAIN marks[t] \/ (pc[t] \in Resolving /\ Item(t) = p)}

AtMost(S) == IsFiniteSet(S) /\ Cardinality(S) <= MaxActive

DecisionInvariant ==
  /\ TypeInvariant
  /\ \A t \in Requests : DecidesOnce(t)
  /\ AuditDecides
  /\ AtMost(Active)
  /\ \A p \in Proposals : AtMost(Deciders(p) \cup Deciding(p))

-----------------------------------------------------------------------------
(* Rows *)

LEMMA OverlayIs ==
  ASSUME NEW old, NEW new
  PROVE  /\ DOMAIN Overlay(old, new) = DOMAIN old \cup DOMAIN new
         /\ \A e \in DOMAIN new : Overlay(old, new)[e] = new[e]
         /\ \A e \in DOMAIN old \ DOMAIN new : Overlay(old, new)[e] = old[e]
  BY DEF Overlay

LEMMA ViewTyped ==
  ASSUME TypeOK, NEW t \in Requests
  PROVE  /\ DOMAIN View(t) \subseteq EdgeIds
         /\ \A e \in DOMAIN View(t) : View(t)[e] \in Row
         /\ DOMAIN View(t) = DOMAIN edges \cup DOMAIN writes[t]
         /\ \A e \in DOMAIN writes[t] : View(t)[e] = writes[t][e]
         /\ \A e \in DOMAIN edges \ DOMAIN writes[t] : View(t)[e] = edges[e]
  <1>1. /\ DOMAIN View(t) = DOMAIN edges \cup DOMAIN writes[t]
        /\ \A e \in DOMAIN writes[t] : View(t)[e] = writes[t][e]
        /\ \A e \in DOMAIN edges \ DOMAIN writes[t] : View(t)[e] = edges[e]
    BY OverlayIs DEF View
  <1> QED BY <1>1 DEF TypeOK

LEMMA ReviewsTyped ==
  ASSUME TypeOK, NEW t \in Requests
  PROVE  /\ DOMAIN Reviews(t) = Proposals
         /\ \A p \in Proposals : Reviews(t)[p] \in Review
         /\ \A p \in DOMAIN marks[t] : Reviews(t)[p] = marks[t][p]
         /\ \A p \in Proposals \ DOMAIN marks[t] : Reviews(t)[p] = reviews[p]
  <1>1. /\ DOMAIN Reviews(t) = DOMAIN reviews \cup DOMAIN marks[t]
        /\ \A p \in DOMAIN marks[t] : Reviews(t)[p] = marks[t][p]
        /\ \A p \in DOMAIN reviews \ DOMAIN marks[t] : Reviews(t)[p] = reviews[p]
    BY OverlayIs DEF Reviews
  <1> QED BY <1>1 DEF TypeOK

(* The row of a new fact. *)
LEMMA NewRowTyped ==
  ASSUME NEW f \in Fact, NEW at \in Nat
  PROVE  /\ NewRow(f, at) \in Row
         /\ SameTriple(NewRow(f, at), f) /\ Key(NewRow(f, at)) = Key(f)
         /\ Live(NewRow(f, at)) /\ NewRow(f, at).sys_from = at
         /\ NewRow(f, at).valid_from = f.valid_from /\ NewRow(f, at).predicate = f.predicate
         /\ NewRow(f, at).invalidated_by = NoEdge
  BY DEF NewRow, Row, Fact, Instant, Endpoint, SameTriple, Key, Live

(* b is a closed because its fact is contradicted, or replaced by row e.   *)
ContradictedBy(a, b, f) ==
  /\ f.predicate \in HighStakes
  /\ b = [a EXCEPT !.sys_to = now, !.valid_to = f.valid_from]

ReplacedBy(a, b, f, e) ==
  /\ Exclusive(f.predicate) /\ Overlaps(a, NewRow(f, now + 1))
  /\ b = [a EXCEPT !.sys_to = now + 2, !.invalidated_by = e]

(* What add_fact writes: one new row, and live rows of its key, closed.    *)
LandedAs(view, f, e, new) ==
  /\ e \in DOMAIN new /\ new[e] = NewRow(f, now + 1)
  /\ \A c \in DOMAIN new \ {e} :
       /\ c \in LiveIds(view) /\ Key(view[c]) = Key(f)
       /\ ContradictedBy(view[c], new[c], f) \/ ReplacedBy(view[c], new[c], f, e)
  /\ Exclusive(f.predicate) =>
       \A c \in DOMAIN view \ DOMAIN new :
         Live(view[c]) /\ Key(view[c]) = Key(f) => ~Overlaps(view[c], new[e])

LEMMA LandedRowsAre ==
  ASSUME NEW view, NEW f \in Fact, NEW e \in EdgeIds, e \notin DOMAIN view, now \in Nat,
         \A c \in DOMAIN view : view[c] \in Row,
         NEW ended \in SUBSET Candidates(view, f)
  PROVE  LandedAs(view, f, e, LandedRows(view, f, e, ended))
  <1> DEFINE closed   == [c \in ended |-> [view[c] EXCEPT !.sys_to = now, !.valid_to = f.valid_from]]
             row      == NewRow(f, now + 1)
             added    == [i \in {e} |-> row]
             inserted == Overlay(closed, added)
             seen     == Overlay(view, inserted)
             replaced == IF Exclusive(f.predicate) THEN Superseded(seen, e) ELSE {}
             ends     == [r \in replaced |-> [seen[r] EXCEPT !.sys_to = now + 2, !.invalidated_by = e]]
             new      == Overlay(inserted, ends)
  <1>1. LandedRows(view, f, e, ended) = new
    BY DEF LandedRows
  <1>2. /\ ended \subseteq LiveIds(view) /\ LiveIds(view) \subseteq DOMAIN view
        /\ \A c \in ended : Key(view[c]) = Key(f) /\ f.predicate \in HighStakes
        /\ e \notin ended
    BY DEF Candidates, LiveIds
  <1>3. /\ DOMAIN closed = ended
        /\ \A c \in ended : closed[c] = [view[c] EXCEPT !.sys_to = now, !.valid_to = f.valid_from]
    OBVIOUS
  <1>4. /\ row \in Row /\ Key(row) = Key(f)
        /\ \A c \in ended : ~Live(closed[c])
    <2>1. \A c \in ended : closed[c].sys_to = now
      BY <1>2, <1>3 DEF Row
    <2>2. now # Infinity
      BY InfinityAssumption
    <2>3. row \in Row /\ Key(row) = Key(f)
      BY NewRowTyped
    <2> QED BY <2>1, <2>2, <2>3 DEF Live
  <1>5. DOMAIN added = {e} /\ added[e] = row
    OBVIOUS
  <1> HIDE DEF closed, row, added
  <1>6. /\ DOMAIN inserted = ended \cup {e}
        /\ inserted[e] = row
        /\ \A c \in ended : inserted[c] = closed[c]
    <2>1. /\ DOMAIN Overlay(closed, added) = DOMAIN closed \cup DOMAIN added
          /\ \A c \in DOMAIN added : Overlay(closed, added)[c] = added[c]
          /\ \A c \in DOMAIN closed \ DOMAIN added : Overlay(closed, added)[c] = closed[c]
      BY OverlayIs
    <2> QED BY <1>2, <1>3, <1>5, <2>1
  <1> HIDE DEF inserted
  <1>7. /\ DOMAIN seen = DOMAIN view \cup {e}
        /\ seen[e] = row
        /\ \A c \in ended : seen[c] = closed[c]
        /\ \A c \in DOMAIN view \ ended : seen[c] = view[c]
    <2>1. /\ DOMAIN Overlay(view, inserted) = DOMAIN view \cup DOMAIN inserted
          /\ \A c \in DOMAIN inserted : Overlay(view, inserted)[c] = inserted[c]
          /\ \A c \in DOMAIN view \ DOMAIN inserted : Overlay(view, inserted)[c] = view[c]
      BY OverlayIs
    <2> QED BY <1>2, <1>6, <2>1
  <1> HIDE DEF seen
  <1>8. \A r \in replaced : /\ r \in LiveIds(view) \ ended /\ r # e /\ Key(view[r]) = Key(f)
                            /\ Exclusive(f.predicate) /\ Overlaps(view[r], row)
                            /\ seen[r] = view[r]
    BY <1>4, <1>7 DEF Superseded, LiveIds
  <1>9. /\ DOMAIN ends = replaced
        /\ \A r \in replaced : ends[r] = [view[r] EXCEPT !.sys_to = now + 2, !.invalidated_by = e]
    BY <1>8
  <1>10. Exclusive(f.predicate) =>
           \A c \in DOMAIN view \ (ended \cup replaced) :
             Live(view[c]) /\ Key(view[c]) = Key(f) => ~Overlaps(view[c], row)
    BY <1>2, <1>4, <1>7 DEF Superseded, LiveIds
  <1> HIDE DEF replaced, ends
  <1>11. /\ DOMAIN new = ended \cup {e} \cup replaced
         /\ new[e] = row
         /\ \A c \in ended : new[c] = closed[c]
         /\ \A r \in replaced : new[r] = ends[r]
    <2>1. /\ DOMAIN Overlay(inserted, ends) = DOMAIN inserted \cup DOMAIN ends
          /\ \A c \in DOMAIN ends : Overlay(inserted, ends)[c] = ends[c]
          /\ \A c \in DOMAIN inserted \ DOMAIN ends : Overlay(inserted, ends)[c] = inserted[c]
      BY OverlayIs
    <2> QED BY <1>6, <1>8, <1>9, <2>1
  <1> HIDE DEF new
  <1>12. \A c \in DOMAIN new \ {e} :
           /\ c \in LiveIds(view) /\ Key(view[c]) = Key(f)
           /\ ContradictedBy(view[c], new[c], f) \/ ReplacedBy(view[c], new[c], f, e)
    <2> TAKE c \in DOMAIN new \ {e}
    <2>1. CASE c \in ended
      BY <1>2, <1>3, <1>11, <2>1 DEF ContradictedBy
    <2>2. CASE c \in replaced
      BY <1>8, <1>9, <1>11, <2>2 DEF ReplacedBy, row
    <2> QED BY <1>11, <2>1, <2>2
  <1> QED BY <1>1, <1>10, <1>11, <1>12 DEF row, LandedAs

(* Those rows are typed, and the closed ones keep their triple. *)
LEMMA LandedRowsTyped ==
  ASSUME NEW view, NEW f \in Fact, NEW e \in EdgeIds, e \notin DOMAIN view, now \in Nat,
         DOMAIN view \subseteq EdgeIds, \A c \in DOMAIN view : view[c] \in Row,
         NEW ended \in SUBSET Candidates(view, f)
  PROVE  LET new == LandedRows(view, f, e, ended)
         IN /\ DOMAIN new \subseteq EdgeIds
            /\ \A c \in DOMAIN new : new[c] \in Row
            /\ e \in DOMAIN new /\ SameTriple(new[e], f)
            /\ \A c \in DOMAIN new \ {e} : c \in DOMAIN view /\ SameTriple(new[c], view[c])
  <1>. PICK new : new = LandedRows(view, f, e, ended)
    OBVIOUS
  <1>1. /\ e \in DOMAIN new /\ new[e] = NewRow(f, now + 1)
        /\ \A c \in DOMAIN new \ {e} :
             /\ c \in LiveIds(view)
             /\ ContradictedBy(view[c], new[c], f) \/ ReplacedBy(view[c], new[c], f, e)
    <2>1. LandedAs(view, f, e, new)
      BY LandedRowsAre
    <2> QED BY <2>1 DEF LandedAs
  <1>2. new[e] \in Row /\ SameTriple(new[e], f)
    BY <1>1, NewRowTyped
  <1>3. ASSUME NEW c \in DOMAIN new \ {e}
        PROVE  c \in DOMAIN view /\ new[c] \in Row /\ SameTriple(new[c], view[c])
    <2>1. c \in DOMAIN view /\ view[c] \in Row
      BY <1>1 DEF LiveIds
    <2>2. f.valid_from \in Instant
      BY DEF Fact
    <2>3. ASSUME ContradictedBy(view[c], new[c], f)
          PROVE  new[c] \in Row /\ SameTriple(new[c], view[c])
      BY <2>1, <2>2, <2>3 DEF ContradictedBy, Row, SameTriple, Key, Instant, Endpoint
    <2>4. ASSUME ReplacedBy(view[c], new[c], f, e)
          PROVE  new[c] \in Row /\ SameTriple(new[c], view[c])
      <3>1. new[c] = [view[c] EXCEPT !.sys_to = now + 2, !.invalidated_by = e]
        BY <2>4 DEF ReplacedBy
      <3>2. now + 2 \in Endpoint /\ e \in EdgeIds \cup {NoEdge}
        BY DEF Endpoint
      <3> QED BY <2>1, <3>1, <3>2 DEF Row, SameTriple, Key
    <2> QED BY <1>1, <2>1, <2>3, <2>4
  <1> QED BY <1>1, <1>2, <1>3

-----------------------------------------------------------------------------
(* Types *)

Places == {"new", "read", "source", "land", "mark", "done", "failed", "ended"}

LEMMA BodyIs ==
  ASSUME QueueAssumption, NEW b \in Bodies
  PROVE  /\ b.verb \in {"approve", "reject"} /\ b.ids \in Seq(Proposals) /\ b.ids # << >>
  BY DEF QueueAssumption, Body

LEMMA ItemIs ==
  ASSUME TypeInvariant, NEW t \in Requests, pc[t] \in AtItem
  PROVE  /\ Item(t) \in Proposals /\ Tail(todo[t]) \in Seq(Proposals)
         /\ body[t] \in Bodies
  <1>1. todo[t] \in Seq(Proposals) /\ todo[t] # << >>
    BY DEF TypeInvariant, TypeOK, Control
  <1>2. t \in Active
    BY DEF Active, AtItem
  <1> QED BY <1>1, <1>2 DEF Item, TypeInvariant, Control

LEMMA FactIs == ASSUME QueueAssumption, NEW p \in Proposals PROVE ProposedFact[p] \in Fact
  BY DEF QueueAssumption

(* t goes on: to the next proposal, to the end, or to a failure.           *)
Goes(t) ==
  /\ pc' \in [Requests -> Places] /\ landed' \in [Requests -> EdgeIds \cup {NoEdge}]
  /\ DOMAIN todo' = Requests /\ todo'[t] \in Seq(Proposals)
  /\ \A u \in Requests \ {t} : /\ pc'[u] = pc[u] /\ todo'[u] = todo[u]
                               /\ landed'[u] = landed[u]
  /\ pc'[t] \in AtItem => todo'[t] # << >>
  /\ pc'[t] # "new" /\ pc'[t] # "ended"

LEMMA NextItemGoes ==
  ASSUME TypeInvariant, NEW t \in Requests, pc[t] \in AtItem, NextItem(t)
  PROVE  Goes(t) /\ pc'[t] \in {"read", "done"}
  <1>1. Tail(todo[t]) \in Seq(Proposals)
    BY ItemIs
  <1>2. DOMAIN todo = Requests /\ pc \in [Requests -> Places]
        /\ landed \in [Requests -> EdgeIds \cup {NoEdge}]
    BY DEF TypeInvariant, TypeOK, Places
  <1>3. /\ todo' = [todo EXCEPT ![t] = Tail(todo[t])]
        /\ landed' = [landed EXCEPT ![t] = NoEdge]
        /\ pc' = [pc EXCEPT ![t] = IF Tail(todo[t]) = << >> THEN "done" ELSE "read"]
    BY DEF NextItem, Goto
  <1> QED BY <1>1, <1>2, <1>3 DEF Goes, Places, AtItem

LEMMA RefuseGoes ==
  ASSUME TypeInvariant, NEW t \in Requests, pc[t] \in AtItem, Refuse(t)
  PROVE  Goes(t) /\ pc'[t] \in {"read", "done", "failed"}
<1>1. CASE body[t].bulk
  BY <1>1, NextItemGoes DEF Refuse
<1>2. CASE ~body[t].bulk
  <2>1. /\ pc' = [pc EXCEPT ![t] = "failed"] /\ todo' = todo /\ landed' = landed
    BY <1>2 DEF Refuse, Goto
  <2> QED BY <2>1 DEF Goes, TypeInvariant, TypeOK, Places, AtItem
<1> QED BY <1>1, <1>2

LEMMA GoesOn ==
  ASSUME TypeInvariant, NEW t \in Requests, NEW next \in AtItem \cup {"done", "failed"},
         pc[t] \in AtItem, Goto(t, next), UNCHANGED todo,
         landed' \in [Requests -> EdgeIds \cup {NoEdge}],
         \A u \in Requests \ {t} : landed'[u] = landed[u]
  PROVE  Goes(t) /\ pc'[t] = next
  BY DEF Goto, Goes, TypeInvariant, TypeOK, Places, AtItem, Control

(* What is left to check of a statement of t. *)
LEMMA GoesTyped ==
  ASSUME TypeInvariant, NEW t \in Requests, pc[t] \in AtItem, Goes(t),
         UNCHANGED <<edges, reviews, audit, deleted, body>>,
         locks' \in [Keys -> Requests \cup {NoRequest}], now' \in Nat,
         DOMAIN writes' = Requests, DOMAIN marks' = Requests,
         \A u \in Requests : /\ DOMAIN writes'[u] \subseteq EdgeIds
                             /\ \A e \in DOMAIN writes'[u] : writes'[u][e] \in Row
                             /\ DOMAIN marks'[u] \subseteq Proposals
                             /\ \A p \in DOMAIN marks'[u] : marks'[u][p] \in Review,
         log' \in [Requests -> SUBSET Decision]
  PROVE  TypeInvariant'
  <1>1. \A u \in Requests : todo'[u] \in Seq(Proposals)
    BY DEF Goes, TypeInvariant, TypeOK
  <1>2. TypeOK'
    BY <1>1 DEF Goes, TypeInvariant, TypeOK, Places
  <1>3. \A u \in Requests : Control(u)'
    BY DEF Goes, TypeInvariant, Control, Active, AtItem
  <1> QED BY <1>2, <1>3 DEF Goes, TypeInvariant

LEMMA TypeQuiet ==
  ASSUME TypeInvariant, NEW t \in Requests, ReadStatus(t) \/ CheckSource(t)
  PROVE  TypeInvariant' /\ Goes(t)
  <1>1. pc[t] \in AtItem
    BY DEF ReadStatus, CheckSource, AtItem
  <1>2. CASE Refuse(t)
    <2>1. Goes(t)
      BY <1>1, <1>2, RefuseGoes
    <2>2. UNCHANGED <<edges, reviews, audit, deleted, locks, now, body, writes, marks, log>>
      BY DEF ReadStatus, CheckSource
    <2> QED BY <1>1, <2>1, <2>2, GoesTyped DEF TypeInvariant, TypeOK
  <1>3. CASE ~Refuse(t)
    <2>1. PICK next \in AtItem : Goto(t, next) /\ UNCHANGED <<todo, landed>>
      BY <1>3 DEF ReadStatus, CheckSource, AtItem
    <2>2. Goes(t)
      BY <1>1, <2>1, GoesOn DEF TypeInvariant, TypeOK
    <2>3. UNCHANGED <<edges, reviews, audit, deleted, locks, now, body, writes, marks, log>>
      BY DEF ReadStatus, CheckSource
    <2> QED BY <1>1, <2>2, <2>3, GoesTyped DEF TypeInvariant, TypeOK
  <1> QED BY <1>2, <1>3

(* t writes the rows of the fact at hand, the new one under id e. *)
Writing(t, e, ended) ==
  /\ e \in EdgeIds \ UsedIds
  /\ ended \subseteq Candidates(View(t), ProposedFact[Item(t)])
  /\ writes' = [writes EXCEPT ![t] =
       Overlay(@, LandedRows(View(t), ProposedFact[Item(t)], e, ended))]

(* The outcomes of add_fact: the proposal has landed, or its request fails. *)
LEMMA LandOutcomes ==
  ASSUME QueueAssumption, TypeInvariant, NEW t \in Requests, Land(t)
  PROVE  /\ UNCHANGED <<edges, reviews, audit, deleted, body, todo, marks, log>>
         /\ \/ /\ Goto(t, "failed") /\ UNCHANGED <<landed, writes, now>>
            \/ \E e \in Duplicates(View(t), ProposedFact[Item(t)]) :
                 /\ landed' = [landed EXCEPT ![t] = e] /\ Goto(t, "mark")
                 /\ UNCHANGED <<writes, now>>
            \/ \E e, ended :
                 /\ Duplicates(View(t), ProposedFact[Item(t)]) = {}
                 /\ landed' = [landed EXCEPT ![t] = e] /\ Goto(t, "mark")
                 /\ Writing(t, e, ended) /\ now' = now + 3
         /\ Grantable(t, Key(ProposedFact[Item(t)]))
         /\ locks' = [locks EXCEPT ![Key(ProposedFact[Item(t)])] = t]
  BY DEF Land, Writing

(* The rows t has in flight after the fact at hand has landed as row e.    *)
WrittenAs(t, e, new) ==
  /\ e \notin DOMAIN View(t)
  /\ DOMAIN new \subseteq EdgeIds /\ \A c \in DOMAIN new : new[c] \in Row
  /\ e \in DOMAIN new /\ SameTriple(new[e], ProposedFact[Item(t)])
  /\ \A c \in DOMAIN new \ {e} : c \in DOMAIN View(t) /\ SameTriple(new[c], View(t)[c])
  /\ DOMAIN writes' = Requests
  /\ \A u \in Requests \ {t} : writes'[u] = writes[u]
  /\ DOMAIN writes'[t] = DOMAIN writes[t] \cup DOMAIN new
  /\ \A c \in DOMAIN new : writes'[t][c] = new[c]
  /\ \A c \in DOMAIN writes[t] \ DOMAIN new : writes'[t][c] = writes[t][c]

LEMMA LandWrites ==
  ASSUME QueueAssumption, TypeInvariant, NEW t \in Requests, pc[t] \in AtItem,
         NEW e, NEW ended, Writing(t, e, ended)
  PROVE  WrittenAs(t, e, LandedRows(View(t), ProposedFact[Item(t)], e, ended))
  <1>. PICK new : new = LandedRows(View(t), ProposedFact[Item(t)], e, ended)
    OBVIOUS
  <1>1. TypeOK /\ DOMAIN writes = Requests
    BY DEF TypeInvariant
  <1>2. /\ DOMAIN View(t) = DOMAIN edges \cup DOMAIN writes[t]
        /\ DOMAIN View(t) \subseteq EdgeIds /\ \A c \in DOMAIN View(t) : View(t)[c] \in Row
    BY <1>1, ViewTyped
  <1>3. e \notin DOMAIN View(t)
    BY <1>2 DEF UsedIds, Writing
  <1>4. ProposedFact[Item(t)] \in Fact /\ now \in Nat
    BY <1>1, ItemIs, FactIs DEF TypeOK
  <1>5. /\ DOMAIN new \subseteq EdgeIds /\ \A c \in DOMAIN new : new[c] \in Row
        /\ e \in DOMAIN new /\ SameTriple(new[e], ProposedFact[Item(t)])
        /\ \A c \in DOMAIN new \ {e} : c \in DOMAIN View(t) /\ SameTriple(new[c], View(t)[c])
    <2>1. e \in EdgeIds /\ ended \in SUBSET Candidates(View(t), ProposedFact[Item(t)])
      BY DEF Writing
    <2> QED BY <1>2, <1>3, <1>4, <2>1, LandedRowsTyped
  <1>6. /\ DOMAIN writes' = Requests
        /\ \A u \in Requests \ {t} : writes'[u] = writes[u]
        /\ writes'[t] = Overlay(writes[t], new)
    BY <1>1 DEF Writing
  <1>7. /\ DOMAIN writes'[t] = DOMAIN writes[t] \cup DOMAIN new
        /\ \A c \in DOMAIN new : writes'[t][c] = new[c]
        /\ \A c \in DOMAIN writes[t] \ DOMAIN new : writes'[t][c] = writes[t][c]
    <2>1. /\ DOMAIN Overlay(writes[t], new) = DOMAIN writes[t] \cup DOMAIN new
          /\ \A c \in DOMAIN new : Overlay(writes[t], new)[c] = new[c]
          /\ \A c \in DOMAIN writes[t] \ DOMAIN new : Overlay(writes[t], new)[c] = writes[t][c]
      BY DEF Overlay
    <2> QED BY <1>6, <2>1
  <1> QED BY <1>3, <1>5, <1>6, <1>7 DEF WrittenAs

LEMMA TypeLand ==
  ASSUME QueueAssumption, TypeInvariant, NEW t \in Requests, Land(t)
  PROVE  TypeInvariant' /\ Goes(t)
  <1>1. pc[t] \in AtItem
    BY DEF Land, AtItem
  <1>2. UNCHANGED <<edges, reviews, audit, deleted, body, todo, marks, log>>
    BY LandOutcomes
  <1>3. locks' \in [Keys -> Requests \cup {NoRequest}]
    <2>1. Key(ProposedFact[Item(t)]) \in Keys
      BY <1>1, ItemIs, FactIs DEF Key, Keys, Fact
    <2>2. locks' = [locks EXCEPT ![Key(ProposedFact[Item(t)])] = t]
      BY LandOutcomes
    <2> QED BY <2>1, <2>2 DEF TypeInvariant, TypeOK
  <1>4. TypeOK /\ DOMAIN writes = Requests /\ DOMAIN marks = Requests
    BY DEF TypeInvariant
  <1>5. CASE Goto(t, "failed") /\ UNCHANGED <<landed, writes, now>>
    <2>1. Goes(t)
      BY <1>1, <1>2, <1>4, <1>5, GoesOn DEF TypeOK
    <2> QED BY <1>1, <1>2, <1>3, <1>4, <1>5, <2>1, GoesTyped DEF TypeOK
  <1>6. CASE \E e \in Duplicates(View(t), ProposedFact[Item(t)]) :
               /\ landed' = [landed EXCEPT ![t] = e] /\ Goto(t, "mark")
               /\ UNCHANGED <<writes, now>>
    <2>1. Duplicates(View(t), ProposedFact[Item(t)]) \subseteq EdgeIds
      BY <1>4, ViewTyped DEF Duplicates, LiveIds
    <2>2. landed' \in [Requests -> EdgeIds \cup {NoEdge}]
          /\ \A u \in Requests \ {t} : landed'[u] = landed[u]
      BY <1>4, <1>6, <2>1 DEF TypeOK
    <2>3. Goes(t)
      BY <1>1, <1>2, <1>6, <2>2, GoesOn DEF AtItem
    <2> QED BY <1>1, <1>2, <1>3, <1>4, <1>6, <2>3, GoesTyped DEF TypeOK
  <1>7. ASSUME NEW e, NEW ended,
               landed' = [landed EXCEPT ![t] = e], Goto(t, "mark"), now' = now + 3,
               Writing(t, e, ended)
        PROVE  TypeInvariant' /\ Goes(t)
    <2>1. landed' \in [Requests -> EdgeIds \cup {NoEdge}]
          /\ \A u \in Requests \ {t} : landed'[u] = landed[u]
      BY <1>4, <1>7 DEF TypeOK, Writing
    <2>2. Goes(t)
      BY <1>1, <1>2, <1>7, <2>1, GoesOn DEF AtItem
    <2>3. /\ DOMAIN writes' = Requests
          /\ \A u \in Requests : /\ DOMAIN writes'[u] \subseteq EdgeIds
                                 /\ \A c \in DOMAIN writes'[u] : writes'[u][c] \in Row
      <3>1. PICK new : WrittenAs(t, e, new)
        BY <1>1, <1>7, LandWrites
      <3> QED BY <1>4, <3>1 DEF TypeOK, WrittenAs
    <2>4. now' \in Nat
      BY <1>4, <1>7 DEF TypeOK
    <2> QED BY <1>1, <1>2, <1>3, <1>4, <2>2, <2>3, <2>4, GoesTyped DEF TypeOK
  <1> QED BY <1>5, <1>6, <1>7, LandOutcomes

(* The mark t has in flight after a decision.                              *)
MarkedAs(t, p, review) ==
  /\ p = Item(t) /\ p \in Proposals /\ p \notin UNION {DOMAIN marks[u] : u \in Requests \ {t}}
  /\ review \in Review
  /\ review = Decided(Reviews(t)[p], body[t].verb, landed[t])
  /\ review.status = IF body[t].verb = "approve" THEN "approved" ELSE "rejected"
  /\ DOMAIN marks' = Requests
  /\ \A u \in Requests \ {t} : marks'[u] = marks[u] /\ log'[u] = log[u]
  /\ DOMAIN marks'[t] = DOMAIN marks[t] \cup {p} /\ marks'[t][p] = review
  /\ \A q \in DOMAIN marks[t] \ {p} : marks'[t][q] = marks[t][q]

LEMMA MarkWrites ==
  ASSUME QueueAssumption, TypeInvariant, NEW t \in Requests, Mark(t)
  PROVE  \E p, review : MarkedAs(t, p, review)
  <1> DEFINE p      == Item(t)
             review == Decided(Reviews(t)[p], body[t].verb, landed[t])
             new    == [i \in {p} |-> review]
  <1>1. TypeOK /\ DOMAIN marks = Requests /\ pc[t] \in AtItem
    BY DEF TypeInvariant, Mark, AtItem
  <1>2. p \in Proposals /\ body[t].verb \in {"approve", "reject"}
    BY <1>1, ItemIs, BodyIs
  <1>3. Reviews(t)[p] \in Review /\ landed[t] \in EdgeIds \cup {NoEdge}
    BY <1>1, <1>2, ReviewsTyped DEF TypeOK
  <1>4. /\ review \in Review
        /\ review.status = IF body[t].verb = "approve" THEN "approved" ELSE "rejected"
    <2> HIDE DEF p
    <2>1. CASE body[t].verb = "approve"
      BY <1>3, <2>1 DEF Decided, Review
    <2>2. CASE body[t].verb # "approve"
      <3>1. review = [Reviews(t)[p] EXCEPT !.status = "rejected"]
        BY <2>2 DEF Decided
      <3> HIDE DEF review
      <3> QED BY <1>3, <2>2, <3>1 DEF Review
    <2> QED BY <2>1, <2>2
  <1>5. /\ \A u \in Requests \ {t} : p \notin DOMAIN marks[u]
        /\ marks' = [marks EXCEPT ![t] = Overlay(@, new)]
        /\ log' = [log EXCEPT ![t] = @ \cup
             {[request |-> t, verb |-> body[t].verb, proposal |-> p, edge |-> landed[t]]}]
    BY DEF Mark
  <1>6. DOMAIN new = {p} /\ new[p] = review
    OBVIOUS
  <1> HIDE DEF review, new, p
  <1>7. /\ DOMAIN marks' = Requests /\ marks'[t] = Overlay(marks[t], new)
        /\ \A u \in Requests \ {t} : marks'[u] = marks[u] /\ log'[u] = log[u]
    BY <1>1, <1>5 DEF TypeOK
  <1>8. /\ DOMAIN marks'[t] = DOMAIN marks[t] \cup {p} /\ marks'[t][p] = review
        /\ \A q \in DOMAIN marks[t] \ {p} : marks'[t][q] = marks[t][q]
    <2>1. /\ DOMAIN Overlay(marks[t], new) = DOMAIN marks[t] \cup DOMAIN new
          /\ \A q \in DOMAIN new : Overlay(marks[t], new)[q] = new[q]
          /\ \A q \in DOMAIN marks[t] \ DOMAIN new : Overlay(marks[t], new)[q] = marks[t][q]
      BY DEF Overlay
    <2> QED BY <1>6, <1>7, <2>1
  <1>9. MarkedAs(t, p, review)
    BY <1>2, <1>4, <1>5, <1>7, <1>8 DEF MarkedAs, p, review
  <1> QED BY <1>9

LEMMA TypeMark ==
  ASSUME QueueAssumption, TypeInvariant, NEW t \in Requests, Mark(t)
  PROVE  TypeInvariant' /\ Goes(t) /\ pc'[t] \in {"read", "done"}
  <1>1. TypeOK /\ DOMAIN marks = Requests /\ pc[t] \in AtItem
    BY DEF TypeInvariant, Mark, AtItem
  <1>2. Goes(t) /\ pc'[t] \in {"read", "done"}
    BY <1>1, NextItemGoes DEF Mark
  <1>. PICK p, review : MarkedAs(t, p, review)
    BY MarkWrites
  <1>3. /\ DOMAIN marks' = Requests
        /\ \A u \in Requests : /\ DOMAIN marks'[u] \subseteq Proposals
                               /\ \A q \in DOMAIN marks'[u] : marks'[u][q] \in Review
    BY <1>1 DEF MarkedAs, TypeOK
  <1>4. log' \in [Requests -> SUBSET Decision]
    <2>1. body[t].verb \in {"approve", "reject"} /\ landed[t] \in EdgeIds \cup {NoEdge}
          /\ Item(t) \in Proposals
      BY <1>1, ItemIs, BodyIs DEF TypeOK
    <2> DEFINE d == [request |-> t, verb |-> body[t].verb, proposal |-> Item(t),
                     edge |-> landed[t]]
    <2>2. d \in Decision
      BY <2>1 DEF Decision
    <2>3. log' = [log EXCEPT ![t] = @ \cup {d}]
      BY DEF Mark
    <2> HIDE DEF d
    <2> QED BY <1>1, <2>2, <2>3 DEF TypeOK
  <1>5. UNCHANGED <<edges, reviews, audit, deleted, locks, now, body, writes>>
    BY DEF Mark
  <1> QED BY <1>1, <1>2, <1>3, <1>4, <1>5, GoesTyped DEF TypeOK, TypeInvariant

(* The end of a request leaves nothing of it in flight. *)
LEMMA EndClears ==
  ASSUME TypeInvariant, NEW t \in Requests, End(t)
  PROVE  /\ UNCHANGED <<deleted, now>>
         /\ DOMAIN todo' = Requests /\ DOMAIN writes' = Requests /\ DOMAIN marks' = Requests
         /\ pc'[t] = "ended" /\ writes'[t] = << >> /\ marks'[t] = << >> /\ log'[t] = {}
         /\ \A u \in Requests \ {t} :
              /\ pc'[u] = pc[u] /\ body'[u] = body[u] /\ todo'[u] = todo[u]
              /\ landed'[u] = landed[u] /\ writes'[u] = writes[u] /\ marks'[u] = marks[u]
              /\ log'[u] = log[u]
  BY DEF End, Goto, TypeInvariant, TypeOK

LEMMA TypeEnd ==
  ASSUME QueueAssumption, TypeInvariant, NEW t \in Requests, End(t),
         DOMAIN edges' \subseteq EdgeIds, \A e \in DOMAIN edges' : edges'[e] \in Row,
         reviews' \in [Proposals -> Review], audit' \subseteq Decision
  PROVE  TypeInvariant'
  <1>1. TypeOK
    BY DEF TypeInvariant
  <1>2. /\ pc' = [pc EXCEPT ![t] = "ended"] /\ body' = [body EXCEPT ![t] = NoBody]
        /\ landed' = [landed EXCEPT ![t] = NoEdge] /\ log' = [log EXCEPT ![t] = {}]
        /\ locks' = [k \in Keys |-> IF locks[k] = t THEN NoRequest ELSE locks[k]]
        /\ todo' = [todo EXCEPT ![t] = << >>]
    BY DEF End, Goto
  <1>3. /\ pc' \in [Requests -> Places] /\ body' \in [Requests -> Bodies \cup {NoBody}]
        /\ landed' \in [Requests -> EdgeIds \cup {NoEdge}]
        /\ log' \in [Requests -> SUBSET Decision]
        /\ locks' \in [Keys -> Requests \cup {NoRequest}]
    BY <1>1, <1>2 DEF TypeOK, Places
  <1>4. \A u \in Requests : todo'[u] \in Seq(Proposals)
    BY <1>1, <1>2 DEF TypeOK, TypeInvariant
  <1>5. TypeOK'
    <2>1. UNCHANGED <<deleted, now>>
      BY EndClears
    <2>2. \A u \in Requests : /\ DOMAIN writes'[u] \subseteq EdgeIds
                              /\ \A e \in DOMAIN writes'[u] : writes'[u][e] \in Row
                              /\ DOMAIN marks'[u] \subseteq Proposals
                              /\ \A p \in DOMAIN marks'[u] : marks'[u][p] \in Review
      BY <1>1, EndClears DEF TypeOK
    <2> QED BY <1>1, <1>3, <1>4, <2>1, <2>2 DEF TypeOK, Places
  <1>6. \A u \in Requests : Control(u)'
    BY EndClears DEF TypeInvariant, Control, Active, AtItem
  <1> QED BY <1>5, <1>6, EndClears DEF TypeInvariant

LEMMA TypeCommit ==
  ASSUME QueueAssumption, TypeInvariant, NEW t \in Requests, Commit(t)
  PROVE  TypeInvariant'
  <1>1. TypeOK /\ End(t)
    BY DEF TypeInvariant, Commit
  <1>2. DOMAIN edges' \subseteq EdgeIds /\ \A e \in DOMAIN edges' : edges'[e] \in Row
    BY <1>1, ViewTyped DEF Commit
  <1>3. reviews' \in [Proposals -> Review]
    <2>1. reviews' = Overlay(reviews, marks[t])
      BY DEF Commit, Reviews
    <2>2. DOMAIN reviews = Proposals /\ DOMAIN marks[t] \subseteq Proposals
      BY <1>1 DEF TypeOK
    <2>3. reviews' = [p \in Proposals |-> IF p \in DOMAIN marks[t] THEN marks[t][p] ELSE reviews[p]]
      BY <2>1, <2>2 DEF Overlay
    <2> QED BY <1>1, <2>3 DEF TypeOK
  <1>4. audit' \subseteq Decision
    BY <1>1 DEF Commit, TypeOK
  <1> QED BY <1>1, <1>2, <1>3, <1>4, TypeEnd

LEMMA TypeReceive ==
  ASSUME QueueAssumption, TypeInvariant, NEW t \in Requests, Receive(t)
  PROVE  TypeInvariant'
  <1>. PICK b \in Bodies :
         /\ body' = [body EXCEPT ![t] = b]
         /\ todo' = [todo EXCEPT ![t] = b.ids]
         /\ pc' = [pc EXCEPT ![t] = "read"]
         /\ UNCHANGED <<edges, reviews, audit, deleted, locks, now, landed, writes, marks, log>>
    BY DEF Receive, Goto
  <1>1. b.ids \in Seq(Proposals) /\ b.ids # << >>
    BY BodyIs
  <1>2. TypeOK'
    BY <1>1 DEF TypeInvariant, TypeOK
  <1>3. \A u \in Requests : Control(u)'
    BY <1>1 DEF TypeInvariant, TypeOK, Control, Active, AtItem
  <1> QED BY <1>2, <1>3 DEF TypeInvariant

LEMMA TypeStep ==
  ASSUME QueueAssumption, TypeInvariant, [Next]_vars
  PROVE  TypeInvariant'
<1>1. ASSUME NEW t \in Requests, Receive(t)
      PROVE  TypeInvariant'
  BY <1>1, TypeReceive
<1>2. ASSUME NEW t \in Requests, Step(t)
      PROVE  TypeInvariant'
  BY <1>2, TypeQuiet, TypeLand, TypeMark DEF Step
<1>3. ASSUME NEW t \in Requests, Commit(t)
      PROVE  TypeInvariant'
  BY <1>3, TypeCommit
<1>4. ASSUME NEW t \in Requests, Rollback(t) \/ Crash(t) \/ DeadlockVictim(t)
      PROVE  TypeInvariant'
  <2>1. End(t) /\ UNCHANGED <<edges, reviews, audit>>
    BY <1>4 DEF Rollback, Crash, DeadlockVictim
  <2> QED BY <2>1, TypeEnd DEF TypeInvariant, TypeOK
<1>5. CASE DeleteSource
  BY <1>5 DEF DeleteSource, TypeInvariant, TypeOK, Control, Active
<1>6. CASE UNCHANGED vars
  BY <1>6 DEF vars, TypeInvariant, TypeOK, Control, Active
<1> QED BY <1>1, <1>2, <1>3, <1>4, <1>5, <1>6 DEF Next, Quiet

LEMMA TypeInit == ASSUME QueueAssumption, Init PROVE TypeInvariant
  <1>1. TypeOK
    BY DEF Init, QueueAssumption, TypeOK, Review
  <1>2. \A t \in Requests : Control(t)
    BY DEF Init, Control, Active, AtItem
  <1> QED BY <1>1, <1>2 DEF Init, TypeInvariant

LEMMA TypeAlways == Spec => []TypeInvariant
<1>1. Init => TypeInvariant
  BY TypeInit, QueueAssumption
<1>2. TypeInvariant /\ [Next]_vars => TypeInvariant'
  BY TypeStep, QueueAssumption
<1> QED BY <1>1, <1>2, PTL DEF Spec

(* Types, for every instance: no request reads a proposal it does not have *)
(* or writes a row that is none.                                           *)
THEOREM QueueTypes == Spec => []TypeOK
<1>1. TypeInvariant => TypeOK
  BY DEF TypeInvariant
<1> QED BY <1>1, TypeAlways, PTL

-----------------------------------------------------------------------------
(* Approved facts have landed *)

(* The rows of view are still there and say what they said. *)
KeepsTriples(old, new) ==
  DOMAIN old \subseteq DOMAIN new /\ \A e \in DOMAIN old : SameTriple(new[e], old[e])

LEMMA LandedKept ==
  ASSUME NEW old, NEW new, KeepsTriples(old, new), NEW e, NEW p, Landed(old, e, p)
  PROVE  Landed(new, e, p)
  BY DEF KeepsTriples, Landed, SameTriple, Key

(* A step of another request that keeps the view of u. *)
LEMMA OthersLand ==
  ASSUME NEW u \in Requests, ApprovalsLand(u), KeepsTriples(View(u), View(u)'),
         marks'[u] = marks[u], pc'[u] = pc[u], body'[u] = body[u], landed'[u] = landed[u],
         todo'[u] = todo[u]
  PROVE  ApprovalsLand(u)'
  <1>1. \A p \in DOMAIN marks'[u] :
          marks'[u][p].status = "approved" => Landed(View(u)', marks'[u][p].edge, p)
    BY LandedKept DEF ApprovalsLand
  <1>2. Item(u)' = Item(u)
    BY DEF Item
  <1>3. pc'[u] = "mark" /\ body'[u].verb = "approve" => Landed(View(u)', landed'[u], Item(u)')
    BY <1>2, LandedKept DEF ApprovalsLand
  <1> QED BY <1>1, <1>3 DEF ApprovalsLand, Landed

LEMMA SameView ==
  ASSUME NEW u \in Requests, edges' = edges, writes'[u] = writes[u]
  PROVE  View(u)' = View(u) /\ KeepsTriples(View(u), View(u)')
  BY DEF View, KeepsTriples, SameTriple, Key

(* The view of t after a commit of its rows or of those of another.        *)
LEMMA CommitKeeps ==
  ASSUME TypeInvariant, TriplesKept, NEW t \in Requests, edges' = View(t)
  PROVE  /\ KeepsTriples(edges, edges')
         /\ \A u \in Requests \ {t} :
              writes'[u] = writes[u] => KeepsTriples(View(u), View(u)')
  <1>1. TypeOK
    BY DEF TypeInvariant
  <1>2. KeepsTriples(edges, edges')
    <2>1. /\ DOMAIN edges' = DOMAIN edges \cup DOMAIN writes[t]
          /\ \A e \in DOMAIN writes[t] : edges'[e] = writes[t][e]
          /\ \A e \in DOMAIN edges \ DOMAIN writes[t] : edges'[e] = edges[e]
      BY <1>1, ViewTyped
    <2> QED BY <2>1 DEF KeepsTriples, TriplesKept, SameTriple, Key
  <1>3. ASSUME NEW u \in Requests \ {t}, writes'[u] = writes[u]
        PROVE  KeepsTriples(View(u), View(u)')
    <2>1. /\ DOMAIN View(u)' = DOMAIN edges' \cup DOMAIN writes[u]
          /\ \A e \in DOMAIN writes[u] : View(u)'[e] = writes[u][e]
          /\ \A e \in DOMAIN edges' \ DOMAIN writes[u] : View(u)'[e] = edges'[e]
      BY <1>3 DEF View, Overlay
    <2>2. /\ DOMAIN View(u) = DOMAIN edges \cup DOMAIN writes[u]
          /\ \A e \in DOMAIN writes[u] : View(u)[e] = writes[u][e]
          /\ \A e \in DOMAIN edges \ DOMAIN writes[u] : View(u)[e] = edges[e]
      BY <1>1, ViewTyped
    <2> QED BY <1>2, <2>1, <2>2 DEF KeepsTriples, SameTriple, Key
  <1> QED BY <1>2, <1>3

LEMMA LandQuiet ==
  ASSUME LandInvariant, NEW t \in Requests, Receive(t) \/ ReadStatus(t) \/ CheckSource(t)
  PROVE  /\ TriplesKept' /\ ApprovedFactsLanded'
         /\ \A u \in Requests : ApprovalsLand(u)'
  <1>1. TypeInvariant /\ TypeOK /\ DOMAIN todo = Requests
    BY DEF LandInvariant, TypeInvariant
  <1>2. UNCHANGED <<edges, reviews, writes, marks>>
    BY DEF Receive, ReadStatus, CheckSource
  <1>3. TriplesKept' /\ ApprovedFactsLanded'
    BY <1>2 DEF LandInvariant, TriplesKept, ApprovedFactsLanded
  <1>4. \A u \in Requests \ {t} : /\ pc'[u] = pc[u] /\ body'[u] = body[u]
                                  /\ landed'[u] = landed[u] /\ todo'[u] = todo[u]
    <2>1. CASE Receive(t)
      BY <1>1, <2>1 DEF Receive, Goto, TypeOK
    <2>2. CASE ReadStatus(t) \/ CheckSource(t)
      BY <1>1, <2>2, TypeQuiet DEF Goes, ReadStatus, CheckSource
    <2> QED BY <2>1, <2>2
  <1>5. \A u \in Requests : View(u)' = View(u) /\ KeepsTriples(View(u), View(u)')
    BY <1>2, SameView
  <1>6. \A u \in Requests \ {t} : ApprovalsLand(u)'
    BY <1>2, <1>4, <1>5, OthersLand DEF LandInvariant
  <1>7. ~(pc'[t] = "mark" /\ body'[t].verb = "approve")
    <2>1. CASE Receive(t)
      BY <1>1, <2>1 DEF Receive, Goto, TypeOK
    <2>2. CASE Refuse(t) /\ (ReadStatus(t) \/ CheckSource(t))
      <3>1. pc[t] \in AtItem
        BY <2>2 DEF ReadStatus, CheckSource, AtItem
      <3> QED BY <1>1, <2>2, <3>1, RefuseGoes
    <2>3. CASE ~Refuse(t) /\ ReadStatus(t)
      BY <1>1, <2>3 DEF ReadStatus, Goto, TypeOK
    <2>4. CASE ~Refuse(t) /\ CheckSource(t)
      BY <1>1, <2>4 DEF CheckSource, Goto, TypeOK
    <2> QED BY <2>1, <2>2, <2>3, <2>4
  <1>8. ApprovalsLand(t)'
    BY <1>2, <1>5, <1>7, LandedKept DEF LandInvariant, ApprovalsLand
  <1> QED BY <1>3, <1>6, <1>8

LEMMA LandLand ==
  ASSUME QueueAssumption, LandInvariant, NEW t \in Requests, Land(t)
  PROVE  /\ TriplesKept' /\ ApprovedFactsLanded'
         /\ \A u \in Requests : ApprovalsLand(u)'
  <1>1. TypeInvariant /\ TypeOK /\ pc[t] \in AtItem
    BY DEF LandInvariant, TypeInvariant, Land, AtItem
  <1>2. UNCHANGED <<edges, reviews, audit, deleted, body, todo, marks, log>>
    BY <1>1, LandOutcomes
  <1>3. \A u \in Requests \ {t} : pc'[u] = pc[u] /\ landed'[u] = landed[u]
    BY <1>1, TypeLand DEF Goes
  <1>4. ApprovedFactsLanded'
    BY <1>2 DEF LandInvariant, ApprovedFactsLanded
  <1>5. ASSUME UNCHANGED writes
        PROVE  /\ TriplesKept'
               /\ \A u \in Requests : View(u)' = View(u) /\ KeepsTriples(View(u), View(u)')
    BY <1>2, <1>5, SameView DEF LandInvariant, TriplesKept
  <1>6. ASSUME \A u \in Requests \ {t} : writes'[u] = writes[u]
        PROVE  \A u \in Requests \ {t} : ApprovalsLand(u)'
    BY <1>2, <1>3, <1>6, SameView, OthersLand DEF LandInvariant
  <1>7. Item(t)' = Item(t)
    BY <1>2 DEF Item
  <1>8. CASE Goto(t, "failed") /\ UNCHANGED <<landed, writes, now>>
    <2>1. pc'[t] = "failed"
      BY <1>1, <1>8 DEF Goto, TypeOK
    <2>2. ApprovalsLand(t)'
      BY <1>2, <1>5, <1>8, <2>1 DEF LandInvariant, ApprovalsLand
    <2> QED BY <1>4, <1>5, <1>6, <1>8, <2>2
  <1>9. CASE \E e \in Duplicates(View(t), ProposedFact[Item(t)]) :
               /\ landed' = [landed EXCEPT ![t] = e] /\ Goto(t, "mark")
               /\ UNCHANGED <<writes, now>>
    <2>1. Landed(View(t), landed'[t], Item(t))
      BY <1>1, <1>9 DEF Landed, Duplicates, LiveIds, TypeOK
    <2>2. ApprovalsLand(t)'
      <3>1. View(t)' = View(t) /\ marks' = marks
        BY <1>2, <1>5, <1>9
      <3> QED BY <1>7, <2>1, <3>1 DEF LandInvariant, ApprovalsLand
    <2> QED BY <1>4, <1>5, <1>6, <1>9, <2>2
  <1>10. ASSUME NEW e, NEW ended, landed' = [landed EXCEPT ![t] = e], Writing(t, e, ended)
         PROVE  /\ TriplesKept' /\ \A u \in Requests : ApprovalsLand(u)'
    <2>1. PICK new : WrittenAs(t, e, new)
      BY <1>1, <1>10, LandWrites
    <2>2. /\ DOMAIN View(t) = DOMAIN edges \cup DOMAIN writes[t]
          /\ \A c \in DOMAIN writes[t] : View(t)[c] = writes[t][c]
          /\ \A c \in DOMAIN edges \ DOMAIN writes[t] : View(t)[c] = edges[c]
      BY <1>1, ViewTyped
    <2>3. /\ DOMAIN View(t)' = DOMAIN edges \cup DOMAIN writes'[t]
          /\ \A c \in DOMAIN writes'[t] : View(t)'[c] = writes'[t][c]
          /\ \A c \in DOMAIN edges \ DOMAIN writes'[t] : View(t)'[c] = edges[c]
      BY <1>2 DEF View, Overlay
    <2>4. e \in EdgeIds /\ e \notin DOMAIN edges /\ \A u \in Requests : e \notin DOMAIN writes[u]
      BY <1>10 DEF Writing, UsedIds
    <2>5. KeepsTriples(View(t), View(t)')
      BY <2>1, <2>2, <2>3 DEF WrittenAs, KeepsTriples, SameTriple, Key
    <2>6. \A c \in DOMAIN writes'[t] \cap DOMAIN edges : SameTriple(writes'[t][c], edges[c])
      BY <2>1, <2>2, <2>4 DEF WrittenAs, LandInvariant, TriplesKept, SameTriple, Key
    <2>7. \A u \in Requests \ {t} : DOMAIN writes'[t] \cap DOMAIN writes[u] \subseteq DOMAIN edges
      BY <2>1, <2>2, <2>4 DEF WrittenAs, LandInvariant, TriplesKept
    <2>8. TriplesKept'
      BY <1>2, <2>1, <2>6, <2>7 DEF WrittenAs, LandInvariant, TriplesKept
    <2>9. Landed(View(t)', e, Item(t))
      <3>1. e \in DOMAIN new /\ SameTriple(new[e], ProposedFact[Item(t)])
            /\ e \in DOMAIN writes'[t] /\ writes'[t][e] = new[e]
        BY <2>1 DEF WrittenAs
      <3> QED BY <2>3, <3>1 DEF Landed
    <2>10. landed'[t] = e
      BY <1>1, <1>10 DEF TypeOK
    <2>11. ApprovalsLand(t)'
      BY <1>2, <1>7, <2>5, <2>9, <2>10, LandedKept DEF LandInvariant, ApprovalsLand
    <2>12. \A u \in Requests \ {t} : writes'[u] = writes[u]
      BY <2>1 DEF WrittenAs
    <2> QED BY <1>6, <2>8, <2>11, <2>12
  <1> QED BY <1>1, <1>4, <1>8, <1>9, <1>10, LandOutcomes

LEMMA LandMark ==
  ASSUME QueueAssumption, LandInvariant, NEW t \in Requests, Mark(t)
  PROVE  /\ TriplesKept' /\ ApprovedFactsLanded'
         /\ \A u \in Requests : ApprovalsLand(u)'
  <1>1. TypeInvariant /\ TypeOK
    BY DEF LandInvariant, TypeInvariant
  <1>2. UNCHANGED <<edges, reviews, body, writes>> /\ pc[t] = "mark"
    BY DEF Mark
  <1>3. /\ pc'[t] \in {"read", "done"}
        /\ \A u \in Requests \ {t} : /\ pc'[u] = pc[u] /\ landed'[u] = landed[u]
                                     /\ todo'[u] = todo[u]
    BY <1>1, TypeMark DEF Goes
  <1>4. \A u \in Requests : View(u)' = View(u) /\ KeepsTriples(View(u), View(u)')
    BY <1>2, SameView
  <1>. PICK p, review : MarkedAs(t, p, review)
    BY <1>1, MarkWrites
  <1>5. \A u \in Requests \ {t} : ApprovalsLand(u)'
    BY <1>2, <1>3, <1>4, OthersLand DEF LandInvariant, MarkedAs
  <1>6. review.status = "approved" => Landed(View(t), review.edge, p)
    <2> SUFFICES ASSUME review.status = "approved"
                 PROVE  Landed(View(t), review.edge, p)
      OBVIOUS
    <2>1. body[t].verb = "approve" /\ review.edge = landed[t] /\ p = Item(t)
      BY DEF MarkedAs, Decided
    <2> QED BY <1>2, <2>1 DEF LandInvariant, ApprovalsLand
  <1>7. ApprovalsLand(t)'
    BY <1>3, <1>4, <1>6 DEF LandInvariant, ApprovalsLand, MarkedAs
  <1> QED BY <1>2, <1>5, <1>7 DEF LandInvariant, TriplesKept, ApprovedFactsLanded

LEMMA LandCommit ==
  ASSUME QueueAssumption, LandInvariant, NEW t \in Requests, Commit(t)
  PROVE  /\ TriplesKept' /\ ApprovedFactsLanded'
         /\ \A u \in Requests : ApprovalsLand(u)'
  <1>1. TypeInvariant /\ TypeOK /\ TriplesKept /\ End(t) /\ edges' = View(t)
    BY DEF LandInvariant, TypeInvariant, Commit
  <1>2. /\ pc'[t] = "ended" /\ writes'[t] = << >> /\ marks'[t] = << >>
        /\ \A u \in Requests \ {t} :
              /\ pc'[u] = pc[u] /\ body'[u] = body[u] /\ todo'[u] = todo[u]
              /\ landed'[u] = landed[u] /\ writes'[u] = writes[u] /\ marks'[u] = marks[u]
    BY <1>1, EndClears
  <1>3. /\ KeepsTriples(edges, edges')
        /\ \A u \in Requests \ {t} : KeepsTriples(View(u), View(u)')
    BY <1>1, <1>2, CommitKeeps
  <1>4. \A u \in Requests \ {t} : ApprovalsLand(u)'
    BY <1>2, <1>3, OthersLand DEF LandInvariant
  <1>5. ApprovalsLand(t)'
    BY <1>2 DEF ApprovalsLand
  <1>6. /\ DOMAIN edges' = DOMAIN edges \cup DOMAIN writes[t]
    BY <1>1, ViewTyped
  <1>7. TriplesKept'
    <2>1. ASSUME NEW u \in Requests, NEW e \in DOMAIN writes'[u] \cap DOMAIN edges'
          PROVE  SameTriple(writes'[u][e], edges'[e])
      <3>1. u # t /\ e \in DOMAIN edges
        BY <1>2, <1>6 DEF TriplesKept, LandInvariant
      <3>2. SameTriple(writes'[u][e], edges[e])
        BY <1>1, <1>2, <3>1 DEF TriplesKept
      <3> QED BY <1>3, <3>1, <3>2 DEF KeepsTriples, SameTriple, Key
    <2>2. \A u, v \in Requests :
            u # v => DOMAIN writes'[u] \cap DOMAIN writes'[v] \subseteq DOMAIN edges'
      BY <1>1, <1>2, <1>6 DEF TriplesKept
    <2> QED BY <2>1, <2>2 DEF TriplesKept
  <1>8. ApprovedFactsLanded'
    <2> SUFFICES ASSUME NEW p \in Proposals, reviews'[p].status = "approved"
                 PROVE  Landed(edges', reviews'[p].edge, p)
      BY DEF ApprovedFactsLanded, Landed
    <2>1. reviews' = Reviews(t)
      BY DEF Commit
    <2>2. CASE p \in DOMAIN marks[t]
      <3>1. reviews'[p] = marks[t][p]
        BY <1>1, <2>1, <2>2, ReviewsTyped
      <3> QED BY <1>1, <2>2, <3>1 DEF LandInvariant, ApprovalsLand
    <2>3. CASE p \notin DOMAIN marks[t]
      <3>1. reviews'[p] = reviews[p]
        BY <1>1, <2>1, <2>3, ReviewsTyped
      <3>2. Landed(edges, reviews[p].edge, p)
        BY <3>1 DEF LandInvariant, ApprovedFactsLanded, Landed
      <3> QED BY <1>3, <3>1, <3>2, LandedKept
    <2> QED BY <2>2, <2>3
  <1> QED BY <1>4, <1>5, <1>7, <1>8

LEMMA LandAbort ==
  ASSUME LandInvariant, NEW t \in Requests, End(t), UNCHANGED <<edges, reviews, audit>>
  PROVE  /\ TriplesKept' /\ ApprovedFactsLanded'
         /\ \A u \in Requests : ApprovalsLand(u)'
  <1>1. TypeInvariant
    BY DEF LandInvariant
  <1>2. /\ pc'[t] = "ended" /\ writes'[t] = << >> /\ marks'[t] = << >>
        /\ \A u \in Requests \ {t} :
              /\ pc'[u] = pc[u] /\ body'[u] = body[u] /\ todo'[u] = todo[u]
              /\ landed'[u] = landed[u] /\ writes'[u] = writes[u] /\ marks'[u] = marks[u]
    BY <1>1, EndClears
  <1>3. \A u \in Requests \ {t} : ApprovalsLand(u)'
    BY <1>2, SameView, OthersLand DEF LandInvariant
  <1>4. ApprovalsLand(t)'
    BY <1>2 DEF ApprovalsLand
  <1>5. TriplesKept' /\ ApprovedFactsLanded'
    BY <1>2 DEF LandInvariant, TriplesKept, ApprovedFactsLanded
  <1> QED BY <1>3, <1>4, <1>5

LEMMA LandStep ==
  ASSUME QueueAssumption, LandInvariant, [Next]_vars
  PROVE  LandInvariant'
<1>1. TypeInvariant'
  BY TypeStep DEF LandInvariant
<1>2. SUFFICES /\ TriplesKept' /\ ApprovedFactsLanded'
               /\ \A u \in Requests : ApprovalsLand(u)'
  BY <1>1 DEF LandInvariant
<1>3. CASE DeleteSource \/ UNCHANGED vars
  <2>1. UNCHANGED <<edges, reviews, pc, body, todo, landed, writes, marks>>
    BY <1>3 DEF DeleteSource, vars
  <2> QED BY <2>1
    DEF LandInvariant, TriplesKept, ApprovedFactsLanded, ApprovalsLand, View, Item
<1>4. ASSUME NEW t \in Requests, Rollback(t) \/ Crash(t) \/ DeadlockVictim(t)
      PROVE  /\ TriplesKept' /\ ApprovedFactsLanded'
             /\ \A u \in Requests : ApprovalsLand(u)'
  <2>1. End(t) /\ UNCHANGED <<edges, reviews, audit>>
    BY <1>4 DEF Rollback, Crash, DeadlockVictim
  <2> QED BY <2>1, LandAbort
<1> QED BY <1>3, <1>4, LandQuiet, LandLand, LandMark, LandCommit DEF Next, Step, Quiet

LEMMA LandInit == ASSUME QueueAssumption, Init PROVE LandInvariant
  <1>1. TypeInvariant
    BY TypeInit
  <1> QED BY <1>1
    DEF Init, LandInvariant, TriplesKept, ApprovalsLand, ApprovedFactsLanded

LEMMA LandAlways == Spec => []LandInvariant
<1>1. Init => LandInvariant
  BY LandInit, QueueAssumption
<1>2. LandInvariant /\ [Next]_vars => LandInvariant'
  BY LandStep, QueueAssumption
<1> QED BY <1>1, <1>2, PTL DEF Spec

(* An approved proposal points at an edge that is in the store and says    *)
(* what the proposal said, however many reviewers approve, reject and      *)
(* write at once.                                                          *)
THEOREM ApprovedAlwaysLanded == Spec => []ApprovedFactsLanded
<1>1. LandInvariant => ApprovedFactsLanded
  BY DEF LandInvariant
<1> QED BY <1>1, LandAlways, PTL

-----------------------------------------------------------------------------
(* Decisions *)

LEMMA AtMostSubset ==
  ASSUME QueueAssumption, NEW S, AtMost(S), NEW T \in SUBSET S
  PROVE  AtMost(T)
  <1>1. IsFiniteSet(T) /\ Cardinality(T) <= Cardinality(S)
    BY FS_Subset DEF AtMost
  <1>2. Cardinality(T) \in Nat /\ Cardinality(S) \in Nat
    BY <1>1, FS_CardinalityType DEF AtMost
  <1> QED BY <1>1, <1>2 DEF AtMost, QueueAssumption

LEMMA ActiveStep ==
  ASSUME QueueAssumption, TypeInvariant, AtMost(Active), [Next]_vars
  PROVE  AtMost(Active)'
<1>1. ASSUME NEW t \in Requests, Receive(t)
      PROVE  AtMost(Active)'
  <2>1. Cardinality(Active) < MaxActive /\ Active' \subseteq Active \cup {t}
    BY <1>1 DEF Receive, Goto, Active, TypeInvariant, TypeOK
  <2>2. AtMost(Active \cup {t})
    <3>1. IsFiniteSet(Active) /\ Cardinality(Active) \in Nat
      BY FS_CardinalityType DEF AtMost
    <3>2. /\ IsFiniteSet(Active \cup {t})
          /\ Cardinality(Active \cup {t}) =
               IF t \in Active THEN Cardinality(Active) ELSE Cardinality(Active) + 1
      BY <3>1, FS_AddElement
    <3> QED BY <2>1, <3>1, <3>2 DEF AtMost, QueueAssumption
  <2>3. AtMost(Active')
    BY <2>1, <2>2, AtMostSubset
  <2> QED BY <2>3 DEF AtMost
<1>2. CASE Active' \subseteq Active
  <2>1. AtMost(Active')
    BY <1>2, AtMostSubset
  <2> QED BY <2>1 DEF AtMost
<1>3. ASSUME NEW t \in Requests, Step(t)
      PROVE  Active' \subseteq Active
  <2>1. t \in Active
    BY <1>3 DEF Step, ReadStatus, CheckSource, Land, Mark, Active
  <2>2. \A u \in Requests \ {t} : pc'[u] = pc[u]
    BY <1>3, TypeQuiet, TypeLand, TypeMark DEF Step, Goes
  <2> QED BY <2>1, <2>2 DEF Active
<1>4. ASSUME NEW t \in Requests, End(t)
      PROVE  Active' \subseteq Active
  BY <1>4, EndClears DEF Active
<1>5. CASE DeleteSource \/ UNCHANGED vars
  BY <1>5 DEF DeleteSource, vars, Active
<1> QED
  BY <1>1, <1>2, <1>3, <1>4, <1>5
  DEF Next, Commit, Rollback, Crash, DeadlockVictim, Quiet

(* A step of another request. *)
LEMMA OthersDecide ==
  ASSUME NEW u \in Requests, DecidesOnce(u), marks'[u] = marks[u], log'[u] = log[u],
         pc'[u] = pc[u], todo'[u] = todo[u]
  PROVE  DecidesOnce(u)'
  BY DEF DecidesOnce, Resolving, Item, Active

(* ... and what it is deciding. *)
LEMMA OthersDeciding ==
  ASSUME NEW u \in Requests, NEW p, marks'[u] = marks[u], pc'[u] = pc[u], todo'[u] = todo[u]
  PROVE  u \in Deciding(p)' <=> u \in Deciding(p)
  BY DEF Deciding, Item

(* Nothing is decided that was not being decided. *)
NoneTakenUp == \A p \in Proposals : Deciding(p)' \subseteq Deciding(p)

LEMMA DecideReceive ==
  ASSUME DecisionInvariant, NEW t \in Requests, Receive(t)
  PROVE  UNCHANGED <<reviews, audit>> /\ NoneTakenUp /\ \A u \in Requests : DecidesOnce(u)'
  <1>1. TypeOK /\ DOMAIN todo = Requests
    BY DEF DecisionInvariant, TypeInvariant
  <1>2. /\ pc[t] = "new" /\ pc'[t] = "read" /\ UNCHANGED <<reviews, audit, marks, log>>
        /\ \A u \in Requests \ {t} : pc'[u] = pc[u] /\ todo'[u] = todo[u]
    BY <1>1 DEF Receive, Goto, TypeOK
  <1>3. \A u \in Requests \ {t} : DecidesOnce(u)'
    BY <1>2, OthersDecide DEF DecisionInvariant
  <1>4. log[t] = {} /\ DOMAIN marks[t] = {}
    BY <1>2 DEF DecisionInvariant, DecidesOnce, Active
  <1>5. DecidesOnce(t)'
    BY <1>2, <1>4 DEF DecidesOnce, Resolving
  <1>6. NoneTakenUp
    BY <1>2, <1>4, OthersDeciding DEF NoneTakenUp, Deciding, Resolving
  <1> QED BY <1>2, <1>3, <1>5, <1>6

(* A proposal a request goes on to decide is pending, and it has not       *)
(* decided it.                                                             *)
LEMMA DecideRead ==
  ASSUME DecisionInvariant, NEW t \in Requests, ReadStatus(t) \/ CheckSource(t) \/ Land(t),
         QueueAssumption
  PROVE  /\ UNCHANGED <<reviews, audit>> /\ \A u \in Requests : DecidesOnce(u)'
         /\ \A p \in Proposals : \/ Deciding(p)' \subseteq Deciding(p)
                                 \/ reviews[p].status = "pending"
  <1>1. TypeInvariant /\ TypeOK /\ pc[t] \in AtItem
    BY DEF DecisionInvariant, TypeInvariant, ReadStatus, CheckSource, Land, AtItem
  <1>2. Goes(t) /\ UNCHANGED <<reviews, audit, marks, log>>
    BY <1>1, TypeQuiet, TypeLand DEF ReadStatus, CheckSource, Land
  <1>3. \A u \in Requests \ {t} : /\ pc'[u] = pc[u] /\ todo'[u] = todo[u]
                                  /\ DecidesOnce(u)'
    BY <1>2, OthersDecide DEF DecisionInvariant, Goes
  <1>4. DecidesOnce(t)
    BY DEF DecisionInvariant
  <1>5. Item(t) \in Proposals
    BY <1>1, ItemIs
  <1>6. pc'[t] \in Resolving =>
          /\ Item(t)' = Item(t)
          /\ \/ pc[t] \in Resolving
             \/ Item(t) \notin DOMAIN marks[t] /\ reviews[Item(t)].status = "pending"
    <2>1. CASE Refuse(t) /\ ~Land(t)
      BY <1>1, <2>1, RefuseGoes DEF Resolving
    <2>2. CASE ~Refuse(t) /\ ReadStatus(t)
      <3>1. Open(Reviews(t), Item(t)) /\ todo' = todo
        BY <2>2 DEF ReadStatus
      <3>2. Item(t) \notin DOMAIN marks[t] /\ reviews[Item(t)].status = "pending"
        BY <1>1, <1>4, <1>5, <3>1, ReviewsTyped DEF Open, DecidesOnce
      <3> QED BY <3>1, <3>2 DEF Item
    <2>3. CASE ~Refuse(t) /\ CheckSource(t)
      <3>1. pc[t] = "source" /\ todo' = todo
        BY <2>3 DEF CheckSource
      <3> QED BY <3>1 DEF Resolving, Item
    <2>4. CASE Land(t)
      <3>1. pc[t] = "land" /\ todo' = todo
        BY <2>4 DEF Land
      <3> QED BY <3>1 DEF Resolving, Item
    <2> QED BY <2>1, <2>2, <2>3, <2>4
  <1>7. DecidesOnce(t)'
    <2>1. pc'[t] \in Resolving => Item(t)' \notin DOMAIN marks'[t]
      BY <1>2, <1>4, <1>6 DEF DecidesOnce
    <2>2. t \in Active'
      BY <1>2 DEF Goes, Active
    <2> QED BY <1>2, <1>4, <2>1, <2>2 DEF DecidesOnce
  <1>8. ASSUME NEW p \in Proposals, reviews[p].status # "pending", NEW u \in Deciding(p)'
        PROVE  u \in Deciding(p)
    <2>1. CASE u # t
      BY <1>2, <1>3, <1>8, <2>1, OthersDeciding DEF Deciding
    <2>2. CASE u = t
      BY <1>2, <1>6, <1>8, <2>2 DEF Deciding
    <2> QED BY <2>1, <2>2
  <1> QED BY <1>2, <1>3, <1>7, <1>8

LEMMA DecideMark ==
  ASSUME QueueAssumption, DecisionInvariant, NEW t \in Requests, Mark(t)
  PROVE  UNCHANGED <<reviews, audit>> /\ NoneTakenUp /\ \A u \in Requests : DecidesOnce(u)'
  <1>1. TypeInvariant /\ TypeOK /\ DecidesOnce(t) /\ pc[t] = "mark"
    BY DEF DecisionInvariant, TypeInvariant, Mark
  <1>2. Goes(t) /\ pc'[t] \in {"read", "done"}
    BY <1>1, TypeMark
  <1>3. UNCHANGED <<reviews, audit>>
    BY DEF Mark
  <1>. PICK p, review : MarkedAs(t, p, review)
    BY <1>1, MarkWrites
  <1>4. \A u \in Requests \ {t} : /\ marks'[u] = marks[u] /\ log'[u] = log[u]
                                  /\ pc'[u] = pc[u] /\ todo'[u] = todo[u]
    BY <1>2 DEF MarkedAs, Goes
  <1>5. \A u \in Requests \ {t} : DecidesOnce(u)'
    BY <1>4, OthersDecide DEF DecisionInvariant
  <1>6. p = Item(t) /\ p \notin DOMAIN marks[t] /\ t \in Deciding(p)
    BY <1>1 DEF DecidesOnce, Resolving, MarkedAs, Deciding
  <1>7. /\ \A q \in DOMAIN marks'[t] : marks'[t][q].status # "pending"
        /\ DOMAIN marks'[t] = DOMAIN marks[t] \cup {p}
    BY <1>1 DEF MarkedAs, DecidesOnce
  <1>8. \E d : d.request = t /\ d.proposal = p /\ log'[t] = log[t] \cup {d}
    <2> DEFINE d == [request |-> t, verb |-> body[t].verb, proposal |-> Item(t),
                     edge |-> landed[t]]
    <2>1. log' = [log EXCEPT ![t] = @ \cup {d}]
      BY DEF Mark
    <2>2. d.request = t /\ d.proposal = p
      BY <1>6
    <2> HIDE DEF d
    <2>3. log'[t] = log[t] \cup {d}
      BY <1>1, <2>1 DEF TypeOK
    <2> QED BY <2>2, <2>3
  <1>9. /\ \A d \in log'[t] : d.request = t /\ d.proposal \in DOMAIN marks'[t]
        /\ \A c, d \in log'[t] : c.proposal = d.proposal => c = d
    BY <1>1, <1>6, <1>7, <1>8 DEF DecidesOnce
  <1>10. DecidesOnce(t)'
    BY <1>2, <1>7, <1>9 DEF DecidesOnce, Resolving, Active, Goes
  <1>11. NoneTakenUp
    <2> SUFFICES ASSUME NEW q \in Proposals, NEW u \in Deciding(q)'
                 PROVE  u \in Deciding(q)
      BY DEF NoneTakenUp
    <2>1. CASE u # t
      BY <1>4, <2>1, OthersDeciding DEF Deciding
    <2>2. CASE u = t
      BY <1>2, <1>6, <1>7, <2>2 DEF Deciding, Resolving
    <2> QED BY <2>1, <2>2
  <1> QED BY <1>3, <1>5, <1>10, <1>11

LEMMA DecideEnd ==
  ASSUME DecisionInvariant, NEW t \in Requests, End(t)
  PROVE  NoneTakenUp /\ \A u \in Requests : DecidesOnce(u)'
  <1>1. TypeInvariant
    BY DEF DecisionInvariant
  <1>2. /\ pc'[t] = "ended" /\ marks'[t] = << >> /\ log'[t] = {}
        /\ \A u \in Requests \ {t} :
              /\ pc'[u] = pc[u] /\ todo'[u] = todo[u] /\ marks'[u] = marks[u]
              /\ log'[u] = log[u]
    BY <1>1, EndClears
  <1>3. \A u \in Requests \ {t} : DecidesOnce(u)'
    BY <1>2, OthersDecide DEF DecisionInvariant
  <1>4. DecidesOnce(t)'
    BY <1>2 DEF DecidesOnce, Resolving
  <1>5. NoneTakenUp
    BY <1>2, OthersDeciding DEF NoneTakenUp, Deciding, Resolving
  <1> QED BY <1>3, <1>4, <1>5

(* The decisions of t reach the audit log with the reviews.                *)
LEMMA AuditCommit ==
  ASSUME QueueAssumption, DecisionInvariant, NEW t \in Requests, Commit(t)
  PROVE  /\ AuditDecides'
         /\ \A p \in Proposals :
              Deciders(p)' \cup Deciding(p)' \subseteq Deciders(p) \cup Deciding(p)
  <1>1. TypeInvariant /\ TypeOK /\ DecidesOnce(t) /\ End(t) /\ pc[t] = "done"
    BY DEF DecisionInvariant, TypeInvariant, Commit
  <1>2. audit' = audit \cup log[t] /\ reviews' = Reviews(t)
    BY DEF Commit
  <1>3. pc'[t] = "ended" /\ \A u \in Requests \ {t} : pc'[u] = pc[u]
    BY <1>1, EndClears
  <1>4. \A d \in audit : d.request \in Requests \ {t} /\ d.proposal \in Proposals
    <2>1. \A d \in audit : d.request \in Requests /\ d.proposal \in Proposals
      BY <1>1 DEF TypeOK, Decision
    <2> QED BY <1>1, <2>1 DEF DecisionInvariant, AuditDecides
  <1>5. \A d \in log[t] : d.request = t /\ d.proposal \in DOMAIN marks[t]
    BY <1>1 DEF DecidesOnce
  <1>6. DOMAIN marks[t] \subseteq Proposals
    BY <1>1 DEF TypeOK
  <1>7. \A p \in Proposals :
          p \in DOMAIN marks[t] \/ reviews[p].status # "pending" => reviews'[p].status # "pending"
    BY <1>1, <1>2, ReviewsTyped DEF DecidesOnce
  <1>8. \A d \in audit' : pc'[d.request] = "ended" /\ reviews'[d.proposal].status # "pending"
    BY <1>2, <1>3, <1>4, <1>5, <1>6, <1>7 DEF DecisionInvariant, AuditDecides
  <1>9. \A c, d \in audit' : c.request = d.request /\ c.proposal = d.proposal => c = d
    BY <1>1, <1>2, <1>4, <1>5 DEF DecisionInvariant, AuditDecides, DecidesOnce
  <1>10. ASSUME NEW p \in Proposals
         PROVE  Deciders(p)' \cup Deciding(p)' \subseteq Deciders(p) \cup Deciding(p)
    <2>1. Deciders(p)' \subseteq Deciders(p) \cup Deciding(p)
      BY <1>2, <1>5 DEF Deciders, Deciding
    <2>2. Deciding(p)' \subseteq Deciding(p)
      BY <1>1, DecideEnd DEF NoneTakenUp
    <2> QED BY <2>1, <2>2
  <1> QED BY <1>8, <1>9, <1>10 DEF AuditDecides

(* A step that leaves the audit log alone.                                 *)
LEMMA AuditStays ==
  ASSUME DecisionInvariant, UNCHANGED <<reviews, audit>>,
         \A u \in Requests : pc[u] = "ended" => pc'[u] = "ended"
  PROVE  AuditDecides' /\ \A p \in Proposals : Deciders(p)' = Deciders(p)
  <1>1. \A d \in audit : d.request \in Requests
    BY DEF DecisionInvariant, TypeInvariant, TypeOK, Decision
  <1> QED BY <1>1 DEF DecisionInvariant, AuditDecides, Deciders

LEMMA EndedStays ==
  ASSUME QueueAssumption, TypeInvariant, [Next]_vars
  PROVE  \A u \in Requests : pc[u] = "ended" => pc'[u] = "ended"
<1>1. ASSUME NEW t \in Requests, Receive(t)
      PROVE  \A u \in Requests : pc[u] = "ended" => pc'[u] = "ended"
  BY <1>1 DEF Receive, Goto, TypeInvariant, TypeOK
<1>2. ASSUME NEW t \in Requests, Step(t)
      PROVE  \A u \in Requests : pc[u] = "ended" => pc'[u] = "ended"
  <2>1. pc[t] # "ended" /\ Goes(t)
    BY <1>2, TypeQuiet, TypeLand, TypeMark DEF Step, ReadStatus, CheckSource, Land, Mark
  <2> QED BY <2>1 DEF Goes
<1>3. ASSUME NEW t \in Requests, End(t)
      PROVE  \A u \in Requests : pc[u] = "ended" => pc'[u] = "ended"
  BY <1>3, EndClears
<1>4. CASE DeleteSource \/ UNCHANGED vars
  BY <1>4 DEF DeleteSource, vars
<1> QED
  BY <1>1, <1>2, <1>3, <1>4 DEF Next, Commit, Rollback, Crash, DeadlockVictim, Quiet

LEMMA DecisionStep ==
  ASSUME QueueAssumption, DecisionInvariant, [Next]_vars
  PROVE  DecisionInvariant'
<1>1. TypeInvariant' /\ AtMost(Active)'
  BY TypeStep, ActiveStep DEF DecisionInvariant
<1>2. \A u \in Requests : pc[u] = "ended" => pc'[u] = "ended"
  BY EndedStays DEF DecisionInvariant
<1>3. SUFFICES /\ \A u \in Requests : DecidesOnce(u)'
               /\ AuditDecides'
               /\ \A p \in Proposals : \/ Deciders(p)' \cup Deciding(p)' \subseteq Deciders(p) \cup Deciding(p)
                                       \/ Deciders(p)' = {}
  <2> SUFFICES ASSUME NEW p \in Proposals
               PROVE  AtMost(Deciders(p)' \cup Deciding(p)')
    BY <1>1, <1>3 DEF DecisionInvariant, AtMost
  <2>1. CASE Deciders(p)' \cup Deciding(p)' \subseteq Deciders(p) \cup Deciding(p)
    BY <2>1, AtMostSubset DEF DecisionInvariant
  <2>2. CASE Deciders(p)' = {}
    <3>1. Deciding(p)' \subseteq Active'
      BY <1>3 DEF Deciding, DecidesOnce, Resolving, Active
    <3>2. AtMost(Active')
      BY <1>1 DEF AtMost
    <3> QED BY <2>2, <3>1, <3>2, AtMostSubset
  <2> QED BY <1>3, <2>1, <2>2
<1>4. ASSUME UNCHANGED <<reviews, audit>>
      PROVE  /\ AuditDecides'
             /\ \A p \in Proposals : /\ Deciders(p)' = Deciders(p)
                                     /\ reviews[p].status = "pending" => Deciders(p) = {}
  BY <1>2, <1>4, AuditStays DEF DecisionInvariant, AuditDecides, Deciders
<1>5. CASE \E t \in Requests : Receive(t)
  BY <1>4, <1>5, DecideReceive DEF NoneTakenUp
<1>6. CASE \E t \in Requests : ReadStatus(t) \/ CheckSource(t) \/ Land(t)
  <2>1. PICK t \in Requests : ReadStatus(t) \/ CheckSource(t) \/ Land(t)
    BY <1>6
  <2>2. /\ UNCHANGED <<reviews, audit>> /\ \A u \in Requests : DecidesOnce(u)'
        /\ \A p \in Proposals : \/ Deciding(p)' \subseteq Deciding(p)
                                \/ reviews[p].status = "pending"
    BY <2>1, DecideRead
  <2> QED BY <1>4, <2>2
<1>7. CASE \E t \in Requests : Mark(t)
  BY <1>4, <1>7, DecideMark DEF NoneTakenUp
<1>8. CASE \E t \in Requests : Commit(t)
  BY <1>8, AuditCommit, DecideEnd DEF Commit
<1>9. CASE \E t \in Requests : Rollback(t) \/ Crash(t) \/ DeadlockVictim(t)
  <2>1. PICK t \in Requests : End(t) /\ UNCHANGED <<reviews, audit>>
    BY <1>9 DEF Rollback, Crash, DeadlockVictim
  <2> QED BY <1>4, <2>1, DecideEnd DEF NoneTakenUp
<1>10. CASE DeleteSource \/ UNCHANGED vars
  <2>1. UNCHANGED <<reviews, audit, pc, todo, marks, log>>
    BY <1>10 DEF DeleteSource, vars
  <2>2. /\ \A u \in Requests : DecidesOnce(u)'
        /\ \A p \in Proposals : Deciding(p)' = Deciding(p)
    BY <2>1 DEF DecisionInvariant, DecidesOnce, Deciding, Item, Active
  <2> QED BY <1>4, <2>1, <2>2
<1> QED BY <1>5, <1>6, <1>7, <1>8, <1>9, <1>10 DEF Next, Step, Quiet

LEMMA DecisionInit == ASSUME QueueAssumption, Init PROVE DecisionInvariant
  <1>1. TypeInvariant
    BY TypeInit
  <1>2. Active = {} /\ \A p \in Proposals : Deciders(p) \cup Deciding(p) = {}
    BY DEF Init, Active, Deciders, Deciding, Resolving
  <1>3. AtMost({})
    BY FS_EmptySet DEF AtMost, QueueAssumption
  <1>4. AtMost(Active) /\ \A p \in Proposals : AtMost(Deciders(p) \cup Deciding(p))
    BY <1>2, <1>3
  <1>5. AuditDecides /\ \A t \in Requests : DecidesOnce(t)
    BY DEF Init, AuditDecides, DecidesOnce, Resolving
  <1> QED BY <1>1, <1>4, <1>5 DEF DecisionInvariant

LEMMA DecidedBy ==
  ASSUME QueueAssumption, DecisionInvariant, NEW p \in Proposals
  PROVE  Cardinality({d \in audit : d.proposal = p}) <= MaxActive
  <1> DEFINE D == {d \in audit : d.proposal = p}
             f == [r \in Deciders(p) |-> CHOOSE d \in D : d.request = r]
  <1>1. AtMost(Deciders(p))
    <2>1. AtMost(Deciders(p) \cup Deciding(p))
      BY DEF DecisionInvariant
    <2>2. Deciders(p) \subseteq Deciders(p) \cup Deciding(p)
      OBVIOUS
    <2> QED BY <2>1, <2>2, AtMostSubset
  <1>2. \A r \in Deciders(p) : \E d \in D : d.request = r
    BY DEF Deciders
  <1>3. \A c, d \in D : c.request = d.request => c = d
    BY DEF DecisionInvariant, AuditDecides
  <1>4. \A d \in D : d.request \in Deciders(p)
    BY DEF Deciders
  <1>5. \A r \in Deciders(p) : f[r] \in D /\ f[r].request = r
    BY <1>2
  <1>6. \A d \in D : f[d.request] = d
    BY <1>3, <1>4, <1>5
  <1>7. f \in [Deciders(p) -> D]
    BY <1>5
  <1> HIDE DEF D, f
  <1>8. f \in Surjection(Deciders(p), D)
    BY <1>4, <1>6, <1>7 DEF Surjection
  <1>9. IsFiniteSet(D) /\ Cardinality(D) <= Cardinality(Deciders(p))
    BY <1>1, <1>8, FS_Surjection DEF AtMost
  <1>10. Cardinality(D) \in Nat /\ Cardinality(Deciders(p)) \in Nat
    BY <1>1, <1>9, FS_CardinalityType DEF AtMost
  <1>11. Cardinality(D) <= MaxActive
    BY <1>1, <1>9, <1>10 DEF AtMost, QueueAssumption
  <1> QED BY <1>11 DEF D

LEMMA DecisionAlways == Spec => []DecisionInvariant
<1>1. Init => DecisionInvariant
  BY DecisionInit, QueueAssumption
<1>2. DecisionInvariant /\ [Next]_vars => DecisionInvariant'
  BY DecisionStep, QueueAssumption
<1> QED BY <1>1, <1>2, PTL DEF Spec

(* A proposal is decided again only by requests that overlap the first     *)
(* decision: there are never more decisions than requests may overlap, in  *)
(* a history of any length.                                                *)
THEOREM DecidedByOverlapping == Spec => []DecidedTogether
<1>1. DecisionInvariant => DecidedTogether
  BY DecidedBy, QueueAssumption DEF DecidedTogether
<1> QED BY <1>1, DecisionAlways, PTL

-----------------------------------------------------------------------------
(* Approval is assertion *)

(* What the refinement supposes: an approval is of one proposal, perhaps   *)
(* named repeatedly.  A bulk approval of several commits several           *)
(* assertions at once, which the ledger does not know.                     *)
OneApproval ==
  \A b \in Bodies : b.verb = "approve" => \A i, j \in DOMAIN b.ids : b.ids[i] = b.ids[j]

(* The clock has passed the start of a row, and while it is believed it    *)
(* names no successor.                                                     *)
RowPast(row) == row.sys_from < now /\ (Live(row) => row.invalidated_by = NoEdge)

ClockPast ==
  /\ \A e \in DOMAIN edges : RowPast(edges[e])
  /\ \A t \in Requests : \A e \in DOMAIN writes[t] : RowPast(writes[t][e])

(* What t has in flight is one assertion of the ledger, of row e, and the  *)
(* lock of its key keeps it so.                                            *)
Asserting(t, e) ==
  LET new == writes[t][e]
  IN /\ e \in DOMAIN writes[t] \ DOMAIN edges
     /\ locks[Key(new)] = t
     /\ Live(new)
     /\ \A a \in DOMAIN writes[t] \ {e} :
          /\ a \in DOMAIN edges /\ Key(edges[a]) = Key(new)
          /\ Ledger!Ended(edges[a], writes[t][a])
          /\ \/ Exclusive(new.predicate) /\ Ledger!Replaced(edges[a], writes[t][a], e, new)
             \/ new.predicate \in HighStakes /\ Ledger!Contradicted(edges[a], writes[t][a], new)
     /\ \A a \in DOMAIN edges \ DOMAIN writes[t] : Live(edges[a]) /\ Key(edges[a]) = Key(new) =>
          /\ Exclusive(new.predicate) => ~Overlaps(edges[a], new)
          /\ SameTriple(edges[a], new) => ~ValidAt(edges[a], new.valid_from)

SameItems(t) == \A i, j \in DOMAIN todo[t] : todo[t][i] = todo[t][j]

(* Everything left to do has been decided by t itself, and is refused.     *)
OnlyRefusals(t) == \A i \in DOMAIN todo[t] : todo[t][i] \in DOMAIN marks[t]

(* Only approvals write rows, once.                                        *)
Approving(t) ==
  /\ pc[t] \in {"source", "land"} => body[t].verb = "approve"
  /\ t \in Active /\ body[t].verb = "approve" => SameItems(t)
  /\ DOMAIN writes[t] # {} => /\ t \in Active /\ body[t].verb = "approve"
                              /\ pc[t] = "mark" \/ OnlyRefusals(t)
                              /\ \E e \in EdgeIds : Asserting(t, e)

ApprovalInvariant == ClockPast /\ \A t \in Requests : Approving(t)

(* The ledger's words for those of the store. *)
LEMMA LedgerWords ==
  /\ Ledger!Kept = DOMAIN edges
  /\ Ledger!Added = DOMAIN edges' \ DOMAIN edges
  /\ Ledger!Touched = {e \in DOMAIN edges : edges'[e] # edges[e]}
  /\ \A row : Ledger!Live(row) <=> Live(row)
  /\ \A row : Ledger!About(row) = Key(row)
  /\ \A a, b : Ledger!SameFact(a, b) <=> SameTriple(a, b)
  /\ \A a, b : Ledger!Overlaps(a, b) <=> Overlaps(a, b)
  /\ \A a, at : Ledger!ValidAt(a, at) <=> ValidAt(a, at)
  /\ \A a, b : Ledger!Ended(a, b) <=>
       /\ Live(a) /\ ~Live(b) /\ Before(a.sys_from, b.sys_to)
       /\ b = [a EXCEPT !.sys_to = b.sys_to, !.valid_to = b.valid_to,
                        !.invalidated_by = b.invalidated_by]
  /\ \A a, b, e, new : Ledger!Replaced(a, b, e, new) <=>
       /\ Overlaps(a, new) /\ b.invalidated_by = e /\ b.valid_to = a.valid_to
       /\ Before(new.sys_from, b.sys_to)
  /\ \A a, b, new : Ledger!Contradicted(a, b, new) <=>
       b.invalidated_by = NoEdge /\ b.valid_to = new.valid_from
  <1>1. \A a, b : Ledger!Before(a, b) <=> Before(a, b)
    BY DEF Ledger!Before, Before
  <1>2. /\ \A a, b : Ledger!Overlaps(a, b) <=> Overlaps(a, b)
        /\ \A a, at : Ledger!ValidAt(a, at) <=> ValidAt(a, at)
    BY <1>1 DEF Ledger!Overlaps, Overlaps, Ledger!ValidAt, ValidAt
  <1>3. /\ \A row : Ledger!Live(row) <=> Live(row)
        /\ \A row : Ledger!About(row) = Key(row)
    BY DEF Ledger!Live, Live, Ledger!About, Key
  <1>4. \A a, b : Ledger!SameFact(a, b) <=> SameTriple(a, b)
    BY <1>3 DEF Ledger!SameFact, SameTriple
  <1>5. \A a, b : Ledger!Ended(a, b) <=>
          /\ Live(a) /\ ~Live(b) /\ Before(a.sys_from, b.sys_to)
          /\ b = [a EXCEPT !.sys_to = b.sys_to, !.valid_to = b.valid_to,
                           !.invalidated_by = b.invalidated_by]
    BY <1>1, <1>3 DEF Ledger!Ended
  <1> QED BY <1>1, <1>2, <1>3, <1>4, <1>5
          DEF Ledger!Kept, Ledger!Added, Ledger!Touched, Ledger!Replaced, Ledger!Contradicted

(* All rows of an assertion are of one key. *)
LEMMA AssertingKeys ==
  ASSUME TypeInvariant, NEW t \in Requests, NEW e, Asserting(t, e)
  PROVE  \A a \in DOMAIN writes[t] : /\ Key(writes[t][a]) = Key(writes[t][e])
                                     /\ a # e => ~Live(writes[t][a])
  <1> SUFFICES ASSUME NEW a \in DOMAIN writes[t] \ {e}
               PROVE  Key(writes[t][a]) = Key(writes[t][e]) /\ ~Live(writes[t][a])
    OBVIOUS
  <1>1. /\ a \in DOMAIN edges /\ Key(edges[a]) = Key(writes[t][e])
        /\ Ledger!Ended(edges[a], writes[t][a])
    BY DEF Asserting
  <1>2. edges[a] \in Row
    BY <1>1 DEF TypeInvariant, TypeOK
  <1>. PICK b : b = writes[t][a]
    OBVIOUS
  <1>3. /\ ~Live(b)
        /\ b = [edges[a] EXCEPT !.sys_to = b.sys_to, !.valid_to = b.valid_to,
                                !.invalidated_by = b.invalidated_by]
    BY <1>1, LedgerWords
  <1>4. Key(b) = Key(edges[a])
    BY <1>2, <1>3 DEF Key, Row
  <1> QED BY <1>1, <1>3, <1>4

(* The assertion t has in flight stands, as long as t holds the lock and   *)
(* nobody commits a row of its key.                                        *)
LEMMA AssertingStands ==
  ASSUME NEW t \in Requests, NEW e, Asserting(t, e),
         writes'[t] = writes[t], locks'[Key(writes[t][e])] = t,
         e \notin DOMAIN edges', DOMAIN edges \subseteq DOMAIN edges',
         \A a \in DOMAIN edges : Key(edges[a]) = Key(writes[t][e]) => edges'[a] = edges[a],
         \A a \in DOMAIN edges' : Key(edges'[a]) = Key(writes[t][e]) =>
           a \in DOMAIN edges /\ edges'[a] = edges[a]
  PROVE  Asserting(t, e)'
  <1>. PICK new : new = writes[t][e]
    OBVIOUS
  <1>1. /\ e \in DOMAIN writes'[t] \ DOMAIN edges'
        /\ locks'[Key(new)] = t /\ Live(new) /\ writes'[t][e] = new
    BY DEF Asserting
  <1>2. \A a \in DOMAIN writes'[t] \ {e} :
          /\ a \in DOMAIN edges' /\ Key(edges'[a]) = Key(new)
          /\ Ledger!Ended(edges'[a], writes'[t][a])
          /\ \/ Exclusive(new.predicate) /\ Ledger!Replaced(edges'[a], writes'[t][a], e, new)
             \/ new.predicate \in HighStakes /\ Ledger!Contradicted(edges'[a], writes'[t][a], new)
    BY DEF Asserting
  <1>3. \A a \in DOMAIN edges' \ DOMAIN writes'[t] : Live(edges'[a]) /\ Key(edges'[a]) = Key(new) =>
          /\ Exclusive(new.predicate) => ~Overlaps(edges'[a], new)
          /\ SameTriple(edges'[a], new) => ~ValidAt(edges'[a], new.valid_from)
    BY DEF Asserting
  <1> QED BY <1>1, <1>2, <1>3 DEF Asserting

(* A step of another request leaves an approval alone if its assertion     *)
(* stands.                                                                 *)
LEMMA OthersApprove ==
  ASSUME NEW u \in Requests, Approving(u), writes'[u] = writes[u], marks'[u] = marks[u],
         pc'[u] = pc[u], body'[u] = body[u], todo'[u] = todo[u],
         \A e \in EdgeIds : Asserting(u, e) => Asserting(u, e)'
  PROVE  Approving(u)'
  BY DEF Approving, Active, SameItems, OnlyRefusals

(* Nobody takes a lock another request holds.                              *)
LEMMA LocksStay ==
  ASSUME QueueAssumption, TypeInvariant, NEW t \in Requests,
         Receive(t) \/ Step(t) \/ End(t), NEW u \in Requests \ {t}, NEW k \in Keys, locks[k] = u
  PROVE  locks'[k] = u
<1>1. locks \in [Keys -> Requests \cup {NoRequest}] /\ NoRequest \notin Requests
  BY DEF TypeInvariant, TypeOK, QueueAssumption
<1>2. CASE Receive(t) \/ ReadStatus(t) \/ CheckSource(t) \/ Mark(t)
  BY <1>2 DEF Receive, ReadStatus, CheckSource, Mark
<1>3. CASE Land(t)
  BY <1>1, <1>3, LandOutcomes DEF Grantable
<1>4. CASE End(t)
  BY <1>1, <1>4 DEF End
<1> QED BY <1>2, <1>3, <1>4 DEF Step

LEMMA AssertingSame ==
  ASSUME NEW t \in Requests, NEW e, Asserting(t, e),
         edges' = edges, writes'[t] = writes[t], locks'[Key(writes[t][e])] = t
  PROVE  Asserting(t, e)'
  BY AssertingStands DEF Asserting

(* Asserted rows are of keys. *)
LEMMA AssertingKey ==
  ASSUME TypeInvariant, NEW t \in Requests, NEW e, Asserting(t, e)
  PROVE  Key(writes[t][e]) \in Keys
  BY DEF Asserting, TypeInvariant, TypeOK, Key, Keys, Row

(* The proposals still to handle after this one. *)
LEMMA TailItems ==
  ASSUME TypeInvariant, NEW t \in Requests, pc[t] \in AtItem
  PROVE  /\ \A i \in DOMAIN Tail(todo[t]) : \E j \in DOMAIN todo[t] : Tail(todo[t])[i] = todo[t][j]
         /\ 1 \in DOMAIN todo[t] /\ todo[t][1] = Item(t)
  <1>1. todo[t] \in Seq(Proposals) /\ todo[t] # << >>
    BY DEF TypeInvariant, TypeOK, Control
  <1>. PICK s \in Seq(Proposals) : s = todo[t] /\ s # << >>
    BY <1>1
  <1>2. /\ DOMAIN Tail(s) = 1..(Len(s) - 1) /\ DOMAIN s = 1..Len(s) /\ Len(s) \in Nat /\ Len(s) > 0
        /\ \A i \in 1..(Len(s) - 1) : Tail(s)[i] = s[i + 1]
    OBVIOUS
  <1>3. \A i \in DOMAIN Tail(s) : i + 1 \in DOMAIN s /\ Tail(s)[i] = s[i + 1]
    BY <1>2
  <1>4. 1 \in DOMAIN s
    BY <1>2
  <1> QED BY <1>3, <1>4 DEF Item

(* A request that goes on without writing a row. *)
LEMMA ApprovingGoes ==
  ASSUME QueueAssumption, TypeInvariant, NEW t \in Requests, pc[t] \in AtItem, Approving(t),
         edges' = edges, locks' = locks, writes' = writes, body' = body,
         DOMAIN marks[t] \subseteq DOMAIN marks'[t],
         \/ todo'[t] = todo[t] /\ pc'[t] # "new" /\ pc'[t] # "ended"
         \/ todo'[t] = Tail(todo[t]) /\ pc'[t] \in {"read", "done"},
         DOMAIN writes[t] # {} => OnlyRefusals(t)',
         pc'[t] \in {"source", "land"} => body[t].verb = "approve"
  PROVE  Approving(t)'
  <1>1. t \in Active /\ t \in Active'
    BY DEF Active, AtItem
  <1>2. SameItems(t) => SameItems(t)'
    <2>1. \A i \in DOMAIN Tail(todo[t]) : \E j \in DOMAIN todo[t] : Tail(todo[t])[i] = todo[t][j]
      BY TailItems
    <2>2. \A i \in DOMAIN todo'[t] : \E j \in DOMAIN todo[t] : todo'[t][i] = todo[t][j]
      BY <2>1
    <2> QED BY <2>2 DEF SameItems
  <1>3. \A e \in EdgeIds : Asserting(t, e) => Asserting(t, e)'
    BY AssertingSame DEF Asserting
  <1>4. t \in Active' /\ body'[t].verb = "approve" => SameItems(t)'
    BY <1>1, <1>2 DEF Approving
  <1>5. DOMAIN writes'[t] # {} => /\ t \in Active' /\ body'[t].verb = "approve"
                                  /\ OnlyRefusals(t)'
                                  /\ \E e \in EdgeIds : Asserting(t, e)'
    BY <1>1, <1>3 DEF Approving
  <1> QED BY <1>4, <1>5 DEF Approving

LEMMA ApprovingRead ==
  ASSUME QueueAssumption, DecisionInvariant, NEW t \in Requests, Approving(t),
         ReadStatus(t) \/ CheckSource(t)
  PROVE  Approving(t)'
  <1>1. TypeInvariant /\ TypeOK /\ DecidesOnce(t) /\ pc[t] \in AtItem /\ pc[t] # "mark"
    BY DEF DecisionInvariant, TypeInvariant, ReadStatus, CheckSource, AtItem
  <1>2. /\ UNCHANGED <<edges, reviews, locks, body, writes, marks>>
        /\ \A i \in DOMAIN Tail(todo[t]) : \E j \in DOMAIN todo[t] : Tail(todo[t])[i] = todo[t][j]
        /\ 1 \in DOMAIN todo[t] /\ todo[t][1] = Item(t) /\ Item(t) \in Proposals
    BY <1>1, TailItems, ItemIs DEF ReadStatus, CheckSource
  <1>3. CASE Refuse(t)
    <2>1. \/ todo'[t] = todo[t] /\ pc'[t] = "failed"
          \/ todo'[t] = Tail(todo[t]) /\ pc'[t] \in {"read", "done"}
      BY <1>1, <1>3 DEF Refuse, NextItem, Goto, TypeInvariant, TypeOK
    <2>2. DOMAIN writes[t] # {} => OnlyRefusals(t)
      BY <1>1 DEF Approving
    <2>3. OnlyRefusals(t) => OnlyRefusals(t)'
      BY <1>2, <2>1 DEF OnlyRefusals
    <2> QED BY <1>1, <1>2, <2>1, <2>2, <2>3, ApprovingGoes
  <1>4. CASE ~Refuse(t)
    <2>1. Item(t) \notin DOMAIN marks[t]
      <3>1. CASE ReadStatus(t)
        <4>1. Open(Reviews(t), Item(t))
          BY <1>4, <3>1 DEF ReadStatus
        <4> QED BY <1>1, <1>2, <4>1, ReviewsTyped DEF Open, DecidesOnce
      <3>2. CASE CheckSource(t)
        BY <1>1, <3>2 DEF CheckSource, DecidesOnce, Resolving
      <3> QED BY <3>1, <3>2
    <2>2. DOMAIN writes[t] = {}
      BY <1>1, <1>2, <2>1 DEF Approving, OnlyRefusals
    <2>3. /\ todo' = todo /\ pc'[t] # "new" /\ pc'[t] # "ended"
          /\ pc'[t] \in {"source", "land"} => body[t].verb = "approve"
      <3>1. CASE ReadStatus(t)
        BY <1>1, <1>4, <3>1 DEF ReadStatus, Goto, TypeOK
      <3>2. CASE CheckSource(t)
        BY <1>1, <1>4, <3>2 DEF CheckSource, Goto, TypeOK, Approving
      <3> QED BY <3>1, <3>2
    <2> QED BY <1>1, <1>2, <2>2, <2>3, ApprovingGoes
  <1> QED BY <1>3, <1>4

LEMMA ApprovingReceive ==
  ASSUME QueueAssumption, OneApproval, TypeInvariant, NEW t \in Requests, Approving(t), Receive(t)
  PROVE  Approving(t)'
  <1>1. DOMAIN writes[t] = {}
    BY DEF Receive, Approving, Active
  <1>2. PICK b \in Bodies : /\ body' = [body EXCEPT ![t] = b]
                            /\ todo' = [todo EXCEPT ![t] = b.ids]
                            /\ pc' = [pc EXCEPT ![t] = "read"]
    BY DEF Receive, Goto
  <1>3. body'[t] = b /\ todo'[t] = b.ids /\ pc'[t] = "read" /\ writes' = writes
    BY <1>2 DEF TypeInvariant, TypeOK, Receive
  <1>4. b.verb = "approve" => \A i, j \in DOMAIN b.ids : b.ids[i] = b.ids[j]
    BY DEF OneApproval
  <1> QED BY <1>1, <1>3, <1>4 DEF Approving, SameItems

(* Marking the one proposal leaves refusals only.                          *)
LEMMA ApprovingMark ==
  ASSUME QueueAssumption, TypeInvariant, NEW t \in Requests, Approving(t), Mark(t)
  PROVE  Approving(t)'
  <1>1. TypeOK /\ pc[t] \in AtItem /\ pc[t] = "mark" /\ t \in Active
    BY DEF TypeInvariant, Mark, AtItem, Active
  <1>2. PICK p, review : MarkedAs(t, p, review)
    BY MarkWrites
  <1>3. p = Item(t) /\ p \in DOMAIN marks'[t] /\ DOMAIN marks[t] \subseteq DOMAIN marks'[t]
    BY <1>2 DEF MarkedAs
  <1>4. /\ UNCHANGED <<edges, locks, body, writes>>
        /\ todo'[t] = Tail(todo[t]) /\ pc'[t] \in {"read", "done"}
    BY <1>1 DEF Mark, NextItem, Goto, TypeInvariant, TypeOK
  <1>5. SameItems(t) => OnlyRefusals(t)'
    BY <1>1, <1>3, <1>4, TailItems DEF SameItems, OnlyRefusals
  <1>6. DOMAIN writes[t] # {} => OnlyRefusals(t)'
    BY <1>1, <1>5 DEF Approving
  <1> QED BY <1>1, <1>3, <1>4, <1>6, ApprovingGoes

(* What add_fact does to a row it closes is what the ledger says.          *)
LEMMA EndedAs ==
  ASSUME now \in Nat, NEW a \in Row, Live(a), RowPast(a), NEW f \in Fact, NEW e \in EdgeIds, NEW b,
         ContradictedBy(a, b, f) \/ ReplacedBy(a, b, f, e)
  PROVE  /\ Ledger!Ended(a, b)
         /\ \/ Exclusive(f.predicate) /\ Ledger!Replaced(a, b, e, NewRow(f, now + 1))
            \/ f.predicate \in HighStakes /\ Ledger!Contradicted(a, b, NewRow(f, now + 1))
         /\ b.sys_from = a.sys_from /\ ~Live(b)
  <1>1. /\ now # Infinity /\ now + 2 # Infinity /\ now + 1 \in Nat
        /\ a.sys_from \in Nat /\ a.sys_from < now /\ a.sys_from < now + 2 /\ now + 1 < now + 2
        /\ a.invalidated_by = NoEdge
    BY InfinityAssumption DEF RowPast, Row, Instant
  <1>2. NewRow(f, now + 1).sys_from = now + 1 /\ NewRow(f, now + 1).valid_from = f.valid_from
    BY <1>1, NewRowTyped
  <1>3. CASE ContradictedBy(a, b, f)
    <2>1. b = [a EXCEPT !.sys_to = now, !.valid_to = f.valid_from] /\ f.predicate \in HighStakes
      BY <1>3 DEF ContradictedBy
    <2>2. /\ b.sys_to = now /\ b.valid_to = f.valid_from /\ b.invalidated_by = NoEdge
          /\ b.sys_from = a.sys_from
      BY <1>1, <2>1 DEF Row
    <2>3. b = [a EXCEPT !.sys_to = b.sys_to, !.valid_to = b.valid_to,
                        !.invalidated_by = b.invalidated_by]
      BY <1>1, <2>1, <2>2 DEF Row
    <2>4. ~Live(b) /\ Before(a.sys_from, b.sys_to)
      BY <1>1, <2>2 DEF Live, Before
    <2>5. Ledger!Ended(a, b)
      BY <2>3, <2>4, LedgerWords
    <2>6. Ledger!Contradicted(a, b, NewRow(f, now + 1))
      BY <1>2, <2>2, LedgerWords
    <2> QED BY <2>1, <2>2, <2>4, <2>5, <2>6
  <1>4. CASE ReplacedBy(a, b, f, e)
    <2>1. /\ b = [a EXCEPT !.sys_to = now + 2, !.invalidated_by = e]
          /\ Exclusive(f.predicate) /\ Overlaps(a, NewRow(f, now + 1))
      BY <1>4 DEF ReplacedBy
    <2>2. /\ b.sys_to = now + 2 /\ b.invalidated_by = e
          /\ b.sys_from = a.sys_from /\ b.valid_to = a.valid_to
      BY <2>1 DEF Row
    <2>3. b = [a EXCEPT !.sys_to = b.sys_to, !.valid_to = b.valid_to,
                        !.invalidated_by = b.invalidated_by]
      BY <2>1, <2>2 DEF Row
    <2>4. ~Live(b) /\ Before(a.sys_from, b.sys_to) /\ Before(now + 1, b.sys_to)
      BY <1>1, <2>2 DEF Live, Before
    <2>5. Ledger!Ended(a, b)
      BY <2>3, <2>4, LedgerWords
    <2>6. PICK new : new = NewRow(f, now + 1)
      OBVIOUS
    <2>7. Ledger!Replaced(a, b, e, new)
      <3>1. Overlaps(a, new) /\ Before(new.sys_from, b.sys_to)
        BY <1>2, <2>1, <2>4, <2>6
      <3> QED BY <2>2, <3>1, LedgerWords
    <2> QED BY <2>1, <2>2, <2>4, <2>5, <2>6, <2>7
  <1> QED BY <1>3, <1>4

(* Before its fact has landed, an approval sees what is committed.         *)
LEMMA NothingWritten ==
  ASSUME QueueAssumption, DecisionInvariant, NEW t \in Requests, Approving(t), pc[t] = "land"
  PROVE  /\ DOMAIN writes[t] = {} /\ body[t].verb = "approve"
         /\ DOMAIN View(t) = DOMAIN edges
         /\ \A e \in DOMAIN edges : View(t)[e] = edges[e]
  <1>1. TypeInvariant /\ TypeOK /\ pc[t] \in AtItem /\ Item(t) \notin DOMAIN marks[t]
    BY DEF DecisionInvariant, TypeInvariant, AtItem, DecidesOnce, Resolving
  <1>2. 1 \in DOMAIN todo[t] /\ todo[t][1] = Item(t)
    BY <1>1, TailItems
  <1>3. DOMAIN writes[t] = {} /\ body[t].verb = "approve"
    BY <1>1, <1>2 DEF Approving, OnlyRefusals
  <1> QED BY <1>1, <1>3, ViewTyped

(* The fact at hand lands as one assertion.                                *)
LEMMA LandAsserts ==
  ASSUME QueueAssumption, DecisionInvariant, ClockPast, NEW t \in Requests, Approving(t), Land(t),
         NEW e, NEW ended, Writing(t, e, ended),
         Duplicates(View(t), ProposedFact[Item(t)]) = {}
  PROVE  /\ Asserting(t, e)'
         /\ \A a \in DOMAIN writes'[t] : /\ writes'[t][a].sys_from <= now + 1
                                         /\ Live(writes'[t][a]) => writes'[t][a].invalidated_by = NoEdge
  <1>. PICK f : f = ProposedFact[Item(t)]
    OBVIOUS
  <1>. PICK view : view = View(t)
    OBVIOUS
  <1>. PICK new : new = LandedRows(view, f, e, ended)
    OBVIOUS
  <1>1. /\ TypeInvariant /\ TypeOK /\ pc[t] \in AtItem /\ f \in Fact
        /\ now \in Nat /\ e \in EdgeIds /\ ended \in SUBSET Candidates(view, f)
    BY ItemIs, FactIs DEF DecisionInvariant, TypeInvariant, TypeOK, Land, AtItem, Writing
  <1>2. /\ DOMAIN writes[t] = {} /\ DOMAIN view = DOMAIN edges
        /\ \A a \in DOMAIN edges : view[a] = edges[a] /\ edges[a] \in Row
    BY <1>1, NothingWritten DEF Land, TypeOK
  <1>3. /\ e \notin DOMAIN view /\ DOMAIN writes'[t] = DOMAIN new
        /\ \A a \in DOMAIN new : writes'[t][a] = new[a]
    <2>1. WrittenAs(t, e, LandedRows(View(t), ProposedFact[Item(t)], e, ended))
      BY <1>1, LandWrites
    <2>2. WrittenAs(t, e, new)
      BY <2>1
    <2> QED BY <1>2, <2>2 DEF WrittenAs
  <1>4. /\ e \in DOMAIN new /\ new[e] = NewRow(f, now + 1)
        /\ \A a \in DOMAIN new \ {e} :
             /\ a \in LiveIds(view) /\ Key(view[a]) = Key(f)
             /\ ContradictedBy(view[a], new[a], f) \/ ReplacedBy(view[a], new[a], f, e)
        /\ Exclusive(f.predicate) =>
             \A a \in DOMAIN view \ DOMAIN new :
               Live(view[a]) /\ Key(view[a]) = Key(f) => ~Overlaps(view[a], new[e])
    <2>1. \A a \in DOMAIN view : view[a] \in Row
      BY <1>2
    <2>2. /\ f \in Fact /\ now \in Nat /\ e \in EdgeIds /\ e \notin DOMAIN view
          /\ ended \in SUBSET Candidates(view, f)
      BY <1>1, <1>3
    <2>3. LandedAs(view, f, e, new)
      BY <2>1, <2>2, LandedRowsAre
    <2> QED BY <2>3 DEF LandedAs
  <1>5. /\ SameTriple(new[e], f) /\ Key(new[e]) = Key(f) /\ Live(new[e])
        /\ new[e].sys_from = now + 1 /\ new[e].valid_from = f.valid_from
        /\ new[e].predicate = f.predicate /\ new[e].invalidated_by = NoEdge
    BY <1>1, <1>4, NewRowTyped
  <1>6. locks'[Key(new[e])] = t
    <2>1. Key(f) \in Keys /\ locks' = [locks EXCEPT ![Key(f)] = t]
      BY <1>1, LandOutcomes DEF Key, Keys, Fact
    <2> QED BY <1>1, <1>5, <2>1 DEF TypeOK
  <1>7. edges' = edges
    BY <1>1, LandOutcomes
  <1>8. ASSUME NEW a \in DOMAIN new \ {e}
        PROVE  /\ a \in DOMAIN edges /\ Key(edges[a]) = Key(new[e])
               /\ Ledger!Ended(edges[a], new[a])
               /\ \/ Exclusive(new[e].predicate) /\ Ledger!Replaced(edges[a], new[a], e, new[e])
                  \/ new[e].predicate \in HighStakes /\ Ledger!Contradicted(edges[a], new[a], new[e])
               /\ new[a].sys_from <= now + 1 /\ ~Live(new[a])
    <2>1. /\ a \in DOMAIN edges /\ Live(edges[a]) /\ edges[a] \in Row /\ Key(edges[a]) = Key(f)
          /\ ContradictedBy(edges[a], new[a], f) \/ ReplacedBy(edges[a], new[a], f, e)
      BY <1>2, <1>4 DEF LiveIds
    <2>2. RowPast(edges[a])
      BY <2>1 DEF ClockPast
    <2>3. /\ Ledger!Ended(edges[a], new[a])
          /\ \/ Exclusive(f.predicate) /\ Ledger!Replaced(edges[a], new[a], e, NewRow(f, now + 1))
             \/ f.predicate \in HighStakes /\ Ledger!Contradicted(edges[a], new[a], NewRow(f, now + 1))
          /\ new[a].sys_from = edges[a].sys_from /\ ~Live(new[a])
      BY <1>1, <2>1, <2>2, EndedAs
    <2>4. edges[a].sys_from <= now + 1
      BY <1>1, <2>1, <2>2 DEF RowPast, Row, Instant
    <2> QED BY <1>4, <1>5, <2>1, <2>3, <2>4
  <1>9. ASSUME NEW a \in DOMAIN edges \ DOMAIN new, Live(edges[a]), Key(edges[a]) = Key(new[e])
        PROVE  /\ Exclusive(new[e].predicate) => ~Overlaps(edges[a], new[e])
               /\ SameTriple(edges[a], new[e]) => ~ValidAt(edges[a], new[e].valid_from)
    <2>1. Exclusive(new[e].predicate) => ~Overlaps(edges[a], new[e])
      BY <1>2, <1>4, <1>5, <1>9
    <2>2. ASSUME SameTriple(edges[a], new[e]), ValidAt(edges[a], new[e].valid_from)
          PROVE  FALSE
      <3>1. a \in LiveIds(view) /\ SameTriple(view[a], f) /\ ValidAt(view[a], f.valid_from)
        BY <1>2, <1>5, <1>9, <2>2 DEF LiveIds, SameTriple
      <3> QED BY <3>1 DEF Duplicates
    <2> QED BY <2>1, <2>2
  <1>10. Asserting(t, e)'
    BY <1>2, <1>3, <1>4, <1>5, <1>6, <1>7, <1>8, <1>9 DEF Asserting
  <1>11. now + 1 <= now + 1
    BY <1>1
  <1> QED BY <1>3, <1>5, <1>8, <1>10, <1>11

LEMMA ApprovingLand ==
  ASSUME QueueAssumption, DecisionInvariant, ClockPast, NEW t \in Requests, Approving(t), Land(t)
  PROVE  Approving(t)'
  <1>1. /\ TypeInvariant /\ TypeOK /\ pc[t] = "land" /\ t \in Active
        /\ DOMAIN writes[t] = {} /\ body[t].verb = "approve" /\ SameItems(t)
    BY NothingWritten DEF DecisionInvariant, TypeInvariant, Land, Active, Approving
  <1>2. UNCHANGED <<edges, body, todo, marks>>
    BY <1>1, LandOutcomes
  <1>3. SameItems(t)' /\ body'[t].verb = "approve"
    BY <1>1, <1>2 DEF SameItems
  <1>4. CASE pc'[t] \in {"failed", "mark"} /\ UNCHANGED writes
    BY <1>1, <1>3, <1>4 DEF Approving
  <1>5. ASSUME NEW e, NEW ended, Writing(t, e, ended), pc'[t] = "mark",
               Duplicates(View(t), ProposedFact[Item(t)]) = {}
        PROVE  Approving(t)'
    <2>1. Asserting(t, e)' /\ e \in EdgeIds
      BY <1>5, LandAsserts DEF Writing
    <2> QED BY <1>3, <1>5, <2>1 DEF Approving, Active
  <1>6. \A next : Goto(t, next) => pc'[t] = next
    BY <1>1 DEF Goto, TypeOK
  <1> QED BY <1>1, <1>4, <1>5, <1>6, LandOutcomes

(* The end of a request. *)
LEMMA ApprovingEnd ==
  ASSUME TypeInvariant, NEW t \in Requests, End(t)
  PROVE  Approving(t)'
  BY EndClears DEF Approving, Active

(* What others have in flight stands while t takes a step, and when it     *)
(* gives up.                                                               *)
LEMMA OthersGoOn ==
  ASSUME QueueAssumption, TypeInvariant, NEW t \in Requests, NEW u \in Requests \ {t},
         Receive(t) \/ Step(t) \/ End(t)
  PROVE  /\ writes'[u] = writes[u] /\ marks'[u] = marks[u] /\ pc'[u] = pc[u]
         /\ body'[u] = body[u] /\ todo'[u] = todo[u]
         /\ ~End(t) => edges' = edges
  <1>1. TypeOK /\ DOMAIN todo = Requests
    BY DEF TypeInvariant
  <1>2. CASE Receive(t)
    BY <1>1, <1>2 DEF Receive, Goto, TypeOK
  <1>3. CASE ReadStatus(t) \/ CheckSource(t)
    BY <1>3, TypeQuiet DEF Goes, ReadStatus, CheckSource
  <1>4. CASE Land(t)
    <2>1. Goes(t) /\ UNCHANGED <<edges, body, marks>>
      BY <1>4, TypeLand, LandOutcomes
    <2>2. UNCHANGED writes \/ \E e, ended : Writing(t, e, ended)
      BY <1>4, LandOutcomes
    <2>3. writes'[u] = writes[u]
      BY <1>1, <2>2 DEF Writing, TypeInvariant
    <2> QED BY <2>1, <2>3 DEF Goes
  <1>5. CASE Mark(t)
    <2>1. PICK p, review : MarkedAs(t, p, review)
      BY <1>5, MarkWrites
    <2> QED BY <1>5, <2>1, TypeMark DEF Goes, MarkedAs, Mark
  <1>6. CASE End(t)
    BY <1>6, EndClears
  <1> QED BY <1>2, <1>3, <1>4, <1>5, <1>6 DEF Step

LEMMA OthersStand ==
  ASSUME QueueAssumption, TypeInvariant, NEW t \in Requests, NEW u \in Requests \ {t},
         Receive(t) \/ Step(t) \/ End(t), edges' = edges, Approving(u)
  PROVE  Approving(u)'
  <1>1. ASSUME NEW e \in EdgeIds, Asserting(u, e)
        PROVE  Asserting(u, e)'
    <2>1. Key(writes[u][e]) \in Keys /\ locks[Key(writes[u][e])] = u
      BY <1>1, AssertingKey DEF Asserting
    <2>2. locks'[Key(writes[u][e])] = u
      BY <2>1, LocksStay
    <2> QED BY <1>1, <2>2, OthersGoOn, AssertingSame
  <1> QED BY <1>1, OthersGoOn, OthersApprove

(* A commit of t is under other locks.                                     *)
LEMMA CommitLeaves ==
  ASSUME QueueAssumption, LandInvariant, NEW t \in Requests, Commit(t), Approving(t),
         NEW u \in Requests \ {t}, NEW e \in EdgeIds, Asserting(u, e)
  PROVE  Asserting(u, e)'
  <1>1. TypeInvariant /\ TypeOK /\ TriplesKept /\ End(t)
    BY DEF LandInvariant, TypeInvariant, Commit
  <1>2. /\ DOMAIN edges' = DOMAIN edges \cup DOMAIN writes[t]
        /\ \A a \in DOMAIN writes[t] : edges'[a] = writes[t][a]
        /\ \A a \in DOMAIN edges \ DOMAIN writes[t] : edges'[a] = edges[a]
    BY <1>1, ViewTyped DEF Commit
  <1>. PICK k : k = Key(writes[u][e])
    OBVIOUS
  <1>3. /\ k \in Keys /\ locks[k] = u /\ e \in DOMAIN writes[u] \ DOMAIN edges
        /\ writes'[u] = writes[u] /\ locks'[k] = u
    <2>1. k \in Keys /\ locks[k] = u /\ e \in DOMAIN writes[u] \ DOMAIN edges
      BY <1>1, AssertingKey DEF Asserting
    <2> QED BY <1>1, <2>1, LocksStay, OthersGoOn
  <1>4. \A a \in DOMAIN writes[t] : Key(writes[t][a]) # k
    <2>1. DOMAIN writes[t] # {} => \E n \in EdgeIds : Asserting(t, n)
      BY DEF Approving
    <2>2. ASSUME NEW n \in EdgeIds, Asserting(t, n)
          PROVE  \A a \in DOMAIN writes[t] : Key(writes[t][a]) # k
      <3>1. locks[Key(writes[t][n])] = t
        BY <2>2 DEF Asserting
      <3>2. Key(writes[t][n]) # k
        BY <1>3, <3>1
      <3> QED BY <1>1, <2>2, <3>2, AssertingKeys
    <2> QED BY <2>1, <2>2
  <1>5. e \notin DOMAIN edges'
    BY <1>1, <1>2, <1>3 DEF TriplesKept
  <1>6. \A a \in DOMAIN edges : Key(edges[a]) = k => edges'[a] = edges[a]
    <2> SUFFICES ASSUME NEW a \in DOMAIN edges, Key(edges[a]) = k, a \in DOMAIN writes[t]
                 PROVE  FALSE
      BY <1>2
    <2>1. SameTriple(writes[t][a], edges[a])
      BY <1>1 DEF TriplesKept
    <2> QED BY <1>4, <2>1 DEF SameTriple
  <1>7. \A a \in DOMAIN edges' : Key(edges'[a]) = k => a \in DOMAIN edges /\ edges'[a] = edges[a]
    BY <1>2, <1>4
  <1> QED BY <1>2, <1>3, <1>5, <1>6, <1>7, AssertingStands

LEMMA ClockStep ==
  ASSUME QueueAssumption, DecisionInvariant, ApprovalInvariant, [Next]_vars
  PROVE  ClockPast'
  <1>1. TypeInvariant /\ TypeOK /\ ClockPast
    BY DEF DecisionInvariant, TypeInvariant, ApprovalInvariant
  <1>2. ASSUME now' \in Nat, now <= now', NEW row \in Row, RowPast(row)
        PROVE  row.sys_from < now' /\ (Live(row) => row.invalidated_by = NoEdge)
    BY <1>1, <1>2 DEF RowPast, Row, Instant, TypeOK
  \* no row is written
  <1>3. ASSUME edges' = edges, now' = now,
               \A u \in Requests : writes'[u] = writes[u] \/ writes'[u] = << >>
        PROVE  ClockPast'
    BY <1>1, <1>3 DEF ClockPast, RowPast, Live
  <1>4. ASSUME NEW t \in Requests, Receive(t) \/ ReadStatus(t) \/ CheckSource(t) \/ Mark(t)
        PROVE  ClockPast'
    BY <1>3, <1>4 DEF Receive, ReadStatus, CheckSource, Mark
  <1>5. ASSUME NEW t \in Requests, Land(t)
        PROVE  ClockPast'
    <2>1. UNCHANGED edges
      BY <1>1, <1>5, LandOutcomes
    <2>2. CASE UNCHANGED <<writes, now>>
      BY <1>3, <2>1, <2>2
    <2>3. ASSUME NEW e, NEW ended, Writing(t, e, ended), now' = now + 3,
                 Duplicates(View(t), ProposedFact[Item(t)]) = {}
          PROVE  ClockPast'
      <3>1. now \in Nat /\ now' \in Nat /\ now <= now' /\ now + 1 < now'
        BY <1>1, <2>3 DEF TypeOK
      <3>2. \A a \in DOMAIN writes'[t] :
              /\ writes'[t][a].sys_from <= now + 1
              /\ Live(writes'[t][a]) => writes'[t][a].invalidated_by = NoEdge
        BY <1>1, <1>5, <2>3, LandAsserts DEF ApprovalInvariant
      <3>3. \A a \in DOMAIN writes'[t] : writes'[t][a].sys_from \in Nat
        BY <1>1, <1>5, TypeLand DEF TypeInvariant, TypeOK, Row, Instant
      <3>4. \A a \in DOMAIN writes'[t] : writes'[t][a].sys_from < now'
        BY <3>1, <3>2, <3>3
      <3>5. \A u \in Requests \ {t} : writes'[u] = writes[u]
        BY <1>1, <2>3 DEF Writing, TypeInvariant
      <3>6. \A a \in DOMAIN edges : edges[a] \in Row /\ RowPast(edges[a])
        BY <1>1 DEF TypeOK, ClockPast
      <3>7. \A u \in Requests : \A a \in DOMAIN writes[u] :
              writes[u][a] \in Row /\ RowPast(writes[u][a])
        BY <1>1 DEF TypeOK, ClockPast
      <3>8. \A a \in DOMAIN edges' : /\ edges'[a].sys_from < now'
                                     /\ Live(edges'[a]) => edges'[a].invalidated_by = NoEdge
        BY <1>2, <2>1, <3>1, <3>6
      <3>9. \A u \in Requests : \A a \in DOMAIN writes'[u] :
              /\ writes'[u][a].sys_from < now'
              /\ Live(writes'[u][a]) => writes'[u][a].invalidated_by = NoEdge
        BY <1>2, <3>1, <3>2, <3>4, <3>5, <3>7
      <3> QED BY <3>8, <3>9 DEF ClockPast, RowPast
    <2> QED BY <1>1, <1>5, <2>2, <2>3, LandOutcomes
  <1>6. ASSUME NEW t \in Requests, Commit(t)
        PROVE  ClockPast'
    <2>1. /\ DOMAIN edges' = DOMAIN edges \cup DOMAIN writes[t]
          /\ \A a \in DOMAIN writes[t] : edges'[a] = writes[t][a]
          /\ \A a \in DOMAIN edges \ DOMAIN writes[t] : edges'[a] = edges[a]
      BY <1>1, <1>6, ViewTyped DEF Commit
    <2>2. now' = now /\ \A u \in Requests : writes'[u] = writes[u] \/ writes'[u] = << >>
      BY <1>1, <1>6, EndClears DEF Commit
    <2>3. \A a \in DOMAIN edges' : RowPast(edges'[a])
      BY <1>1, <2>1 DEF ClockPast
    <2>4. \A u \in Requests : \A a \in DOMAIN writes'[u] : RowPast(writes'[u][a])
      BY <1>1, <2>2 DEF ClockPast
    <2> QED BY <2>2, <2>3, <2>4 DEF ClockPast, RowPast
  <1>7. ASSUME NEW t \in Requests, Rollback(t) \/ Crash(t) \/ DeadlockVictim(t)
        PROVE  ClockPast'
    <2>1. End(t) /\ edges' = edges
      BY <1>7 DEF Rollback, Crash, DeadlockVictim
    <2>2. now' = now /\ \A u \in Requests : writes'[u] = writes[u] \/ writes'[u] = << >>
      BY <1>1, <2>1, EndClears
    <2> QED BY <1>3, <2>1, <2>2
  <1>8. CASE DeleteSource \/ UNCHANGED vars
    BY <1>3, <1>8 DEF DeleteSource, vars
  <1> QED BY <1>4, <1>5, <1>6, <1>7, <1>8 DEF Next, Step, Quiet

LEMMA ApprovalStep ==
  ASSUME QueueAssumption, OneApproval, LandInvariant, DecisionInvariant, ApprovalInvariant,
         [Next]_vars
  PROVE  ApprovalInvariant'
  <1>1. TypeInvariant /\ ClockPast /\ \A t \in Requests : Approving(t)
    BY DEF DecisionInvariant, ApprovalInvariant
  <1>2. ClockPast'
    BY ClockStep
  <1>3. SUFFICES \A u \in Requests : Approving(u)'
    BY <1>2 DEF ApprovalInvariant
  <1>4. ASSUME NEW t \in Requests, Receive(t) \/ Step(t)
        PROVE  \A u \in Requests : Approving(u)'
    <2>1. t \in Active \/ pc[t] = "new"
      BY <1>4 DEF Step, ReadStatus, CheckSource, Land, Mark, Active, Receive
    <2>2. edges' = edges
      BY <1>1, <1>4, LandOutcomes DEF Step, ReadStatus, CheckSource, Mark, Receive
    <2>3. Approving(t)'
      BY <1>1, <1>4, ApprovingReceive, ApprovingRead, ApprovingLand, ApprovingMark DEF Step
    <2> QED BY <1>1, <1>4, <2>2, <2>3, OthersStand
  <1>5. ASSUME NEW t \in Requests, Commit(t)
        PROVE  \A u \in Requests : Approving(u)'
    <2>1. End(t)
      BY <1>5 DEF Commit
    <2>2. ASSUME NEW u \in Requests \ {t}
          PROVE  Approving(u)'
      <3>1. \A e \in EdgeIds : Asserting(u, e) => Asserting(u, e)'
        BY <1>1, <1>5, CommitLeaves
      <3> QED BY <1>1, <2>1, <3>1, OthersGoOn, OthersApprove
    <2> QED BY <1>1, <2>1, <2>2, ApprovingEnd
  <1>6. ASSUME NEW t \in Requests, Rollback(t) \/ Crash(t) \/ DeadlockVictim(t)
        PROVE  \A u \in Requests : Approving(u)'
    <2>1. End(t) /\ edges' = edges
      BY <1>6 DEF Rollback, Crash, DeadlockVictim
    <2> QED BY <1>1, <2>1, ApprovingEnd, OthersStand
  <1>7. CASE DeleteSource \/ UNCHANGED vars
    <2>1. UNCHANGED <<edges, locks, pc, body, todo, writes, marks>>
      BY <1>7 DEF DeleteSource, vars
    <2>2. \A u \in Requests, e \in EdgeIds : Asserting(u, e) => Asserting(u, e)'
      BY <2>1, AssertingSame DEF Asserting
    <2> QED BY <1>1, <2>1, <2>2, OthersApprove
  <1> QED BY <1>4, <1>5, <1>6, <1>7 DEF Next, Quiet

-----------------------------------------------------------------------------
(* The refinement *)

(* A commit keeps every row and touches those its request has in flight.   *)
LEMMA CommitTouches ==
  ASSUME TypeInvariant, NEW t \in Requests, Commit(t)
  PROVE  /\ Ledger!Kept \subseteq DOMAIN edges'
         /\ Ledger!Added = DOMAIN writes[t] \ DOMAIN edges
         /\ Ledger!Touched \subseteq DOMAIN writes[t] \cap DOMAIN edges
         /\ \A a \in DOMAIN writes[t] : edges'[a] = writes[t][a]
         /\ \A a \in DOMAIN edges \ DOMAIN writes[t] : edges'[a] = edges[a]
  <1>1. /\ DOMAIN edges' = DOMAIN edges \cup DOMAIN writes[t]
        /\ \A a \in DOMAIN writes[t] : edges'[a] = writes[t][a]
        /\ \A a \in DOMAIN edges \ DOMAIN writes[t] : edges'[a] = edges[a]
    BY ViewTyped DEF Commit, TypeInvariant
  <1> QED BY <1>1, LedgerWords

LEMMA CommitAsserts ==
  ASSUME TypeInvariant, NEW t \in Requests, Commit(t), NEW e \in EdgeIds, Asserting(t, e)
  PROVE  Ledger!Assert
  <1>. PICK new : new = writes[t][e]
    OBVIOUS
  <1>1. e \in Ledger!Added /\ edges'[e] = new /\ Ledger!Added \ {e} = {}
    BY CommitTouches DEF Asserting
  <1>2. {edges'[m] : m \in Ledger!Added \ {e}} = NoMirror(new)
    BY <1>1 DEF NoMirror
  <1>3. \A m \in Ledger!Added : Ledger!Live(edges'[m])
    BY <1>1, LedgerWords DEF Asserting
  <1>4. ASSUME NEW a \in DOMAIN edges, Live(edges'[a])
        PROVE  a \notin DOMAIN writes[t] /\ edges'[a] = edges[a]
    BY <1>1, <1>4, CommitTouches, AssertingKeys DEF Asserting
  <1>5. ~\E a \in Ledger!Kept : /\ Ledger!Live(edges[a]) /\ Ledger!Live(edges'[a])
                                /\ Ledger!SameFact(edges[a], new)
                                /\ Ledger!ValidAt(edges[a], new.valid_from)
    <2> SUFFICES ASSUME NEW a \in DOMAIN edges, Live(edges[a]), Live(edges'[a]),
                        SameTriple(edges[a], new), ValidAt(edges[a], new.valid_from)
                 PROVE  FALSE
      BY LedgerWords
    <2>1. a \in DOMAIN edges \ DOMAIN writes[t] /\ Key(edges[a]) = Key(new)
      BY <1>4 DEF SameTriple
    <2> QED BY <2>1 DEF Asserting
  <1>6. \A a \in Ledger!Touched :
          /\ Ledger!About(edges[a]) = Ledger!About(new)
          /\ Ledger!Ended(edges[a], edges'[a])
          /\ \/ Exclusive(new.predicate) /\ Ledger!Replaced(edges[a], edges'[a], e, new)
             \/ new.predicate \in HighStakes /\ Ledger!Contradicted(edges[a], edges'[a], new)
    <2> TAKE a \in Ledger!Touched
    <2>1. a \in DOMAIN writes[t] \ {e} /\ edges'[a] = writes[t][a]
      BY CommitTouches DEF Asserting
    <2>2. Ledger!About(edges[a]) = Ledger!About(new)
      <3>1. Key(edges[a]) = Key(new)
        BY <2>1 DEF Asserting
      <3> QED BY <3>1, LedgerWords
    <2> QED BY <2>1, <2>2 DEF Asserting
  <1>7. Exclusive(new.predicate) =>
          \A a \in Ledger!Kept : Ledger!Live(edges'[a]) /\ Ledger!About(edges[a]) = Ledger!About(new)
                                   => ~Ledger!Overlaps(edges[a], new)
    <2> SUFFICES ASSUME Exclusive(new.predicate), NEW a \in DOMAIN edges, Live(edges'[a]),
                        Key(edges[a]) = Key(new)
                 PROVE  ~Overlaps(edges[a], new)
      BY LedgerWords
    <2>1. a \in DOMAIN edges \ DOMAIN writes[t] /\ Live(edges[a])
      BY <1>4
    <2> QED BY <2>1 DEF Asserting
  <1> QED BY <1>1, <1>2, <1>3, <1>5, <1>6, <1>7 DEF Ledger!Assert

(* A commit is the assertion in flight, or changes no row.                 *)
LEMMA LedgerStep ==
  ASSUME QueueAssumption, TypeInvariant, ApprovalInvariant, [Next]_vars
  PROVE  [Ledger!LedgerNext]_edges
  <1>1. edges' = edges \/ \E t \in Requests : Commit(t)
    BY LandOutcomes DEF Next, Quiet, vars, Receive, Step, ReadStatus, CheckSource, Mark, Rollback,
       Crash, DeadlockVictim, DeleteSource
  <1>2. ASSUME NEW t \in Requests, Commit(t)
        PROVE  Ledger!LedgerNext
    <2>1. Approving(t)
      BY DEF ApprovalInvariant
    <2>2. CASE DOMAIN writes[t] = {}
      <3>1. Ledger!Added = {} /\ Ledger!Touched = {}
        BY <1>2, <2>2, CommitTouches
      <3>2. Ledger!Retraction
        BY <3>1 DEF Ledger!Retraction
      <3> QED BY <1>2, <3>2, CommitTouches DEF Ledger!LedgerNext
    <2>3. CASE DOMAIN writes[t] # {}
      <3>1. PICK e \in EdgeIds : Asserting(t, e)
        BY <2>1, <2>3 DEF Approving
      <3> QED BY <1>2, <3>1, CommitAsserts, CommitTouches DEF Ledger!LedgerNext
    <2> QED BY <2>2, <2>3
  <1> QED BY <1>1, <1>2

(* The review queue implements the ledger, for every instance in which an  *)
(* approval is of one proposal: whichever requests approve, reject, fail   *)
(* or are cancelled at once, an approval is one assertion, and a rejection *)
(* changes no fact.                                                        *)
THEOREM ReviewsImplementLedger == OneApproval => (Spec => LedgerSpec)
<1> SUFFICES ASSUME OneApproval
             PROVE  Spec => LedgerSpec
  OBVIOUS
<1>1. Init => ApprovalInvariant
  BY DEF Init, ApprovalInvariant, ClockPast, Approving, Active
<1>2. LandInvariant /\ DecisionInvariant /\ ApprovalInvariant /\ [Next]_vars => ApprovalInvariant'
  BY ApprovalStep, QueueAssumption
<1>3. Init => Ledger!LedgerInit
  BY DEF Init, Ledger!LedgerInit
<1>4. DecisionInvariant /\ ApprovalInvariant /\ [Next]_vars => [Ledger!LedgerNext]_edges
  BY LedgerStep, QueueAssumption DEF DecisionInvariant
<1> QED BY <1>1, <1>2, <1>3, <1>4, LandAlways, DecisionAlways, PTL
        DEF Spec, LedgerSpec, Ledger!LedgerSpec

=============================================================================
