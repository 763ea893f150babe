------------------------------ MODULE Retrieval -------------------------------
(***************************************************************************)
(* A search, and the sensitivity labels that govern it: search of          *)
(* app/retrieval/hybrid.py with app/retrieval/rerank.py, the labels and    *)
(* policies of app/domain/sensitivity.py, edited through                   *)
(* app/api/rest/labels.py.                                                 *)
(*                                                                         *)
(* A search is one transaction at READ COMMITTED that issues a query per   *)
(* kind and ranking, follows the edges of the entities it found, reads the *)
(* policies, then the labels of what it found, and after the choice of the *)
(* final hits the labels once more.  Labels, policies and facts change     *)
(* between any two of these statements.  Which stored items match a query, *)
(* and how they rank, is data: a query returns any of the visible ones.    *)
(***************************************************************************)
EXTENDS Naturals, Sequences, FiniteSets

CONSTANTS
  Items,        \* what can be found
  KindOf,       \* its kind: entity, edge, episode or block
  Ends,         \* the entities each edge relates
  Labels, Policies,
  Rule,         \* the rule of each policy
  Assigned,     \* the items and labels assigned at the start
  Enabled,      \* the policies there are at the start
  Roles,        \* roles of callers
  NoRole,
  Searches,     \* requests that search
  Editors,      \* requests that assign a label
  Queries,      \* the kinds, the expansion and the limit clients ask for
  MaxRows,      \* bound: label rows ever created under one slug
  MaxChanges    \* bound: labels, policies, assignments and facts that change

(* Labels are assigned to facts and episodes alone. *)
Targets == {i \in Items : KindOf[i] \in {"edge", "episode"}}

RetrievalAssumption ==
  /\ KindOf \in [Items -> {"entity", "edge", "episode", "block"}]
  /\ Ends \in [Items -> SUBSET Items]
  /\ Rule \in [Policies -> [kind : {"mutually_exclusive", "requires_role"},
                            labels : SUBSET Labels, roles : SUBSET Roles,
                            action : {"drop", "warn", "block"}]]
  /\ \A p \in Policies : IsFiniteSet(Rule[p].labels)
  /\ Assigned \subseteq Targets \X Labels /\ Enabled \subseteq Policies
  /\ NoRole \notin Roles
  /\ \A q \in Queries : q \in [kinds : SUBSET {"entity", "edge", "episode", "block"},
                               expand : BOOLEAN, limit : Nat \ {0}]
  /\ MaxRows \in Nat \ {0} /\ MaxChanges \in Nat

VARIABLES
  visible,   \* items that are live
  row,       \* the current row of each label slug, 0 for none
  made,      \* rows made under each slug so far
  assigned,  \* which row is assigned to which item
  enabled,   \* policies there are
  search,    \* each search's progress
  held,      \* the policies and assignments that have stood since it began
  edit,      \* each assignment's progress
  changes    \* how many changes there were

vars == <<visible, row, made, assigned, enabled, search, held, edit, changes>>

Assignment == [item : Targets, label : Labels, row : 1..MaxRows]

NoSearch == [pc |-> "new", query |-> CHOOSE q \in Queries : TRUE, role |-> NoRole, bypass |-> FALSE,
             todo |-> << >>, hits |-> {}, policies |-> {}, labels |-> {}, warnings |-> {}, shown |-> {}]

NoEdit == [pc |-> "new", label |-> CHOOSE l \in Labels : TRUE, row |-> 0, todo |-> {}, draft |-> {}]

TypeOK ==
  /\ visible \subseteq Items
  /\ row \in [Labels -> 0..MaxRows] /\ made \in [Labels -> 0..MaxRows]
  /\ assigned \subseteq Assignment
  /\ enabled \subseteq Policies
  /\ changes \in 0..MaxChanges
  /\ \A s \in Searches :
       /\ search[s].pc \in {"new", "query", "expand", "policies", "edge labels",
                            "episode labels", "rank", "enrich", "ended"}
       /\ search[s].hits \subseteq Items
       /\ search[s].policies \subseteq Policies
       /\ search[s].labels \subseteq Targets \X Labels
       /\ search[s].warnings \subseteq Items \X Policies
       /\ held[s].policies \subseteq Policies /\ held[s].assigned \subseteq Assignment
  /\ \A t \in Editors :
       /\ edit[t].pc \in {"new", "get", "insert", "ended"}
       /\ edit[t].draft \subseteq Assignment

Init ==
  /\ visible = Items
  /\ row = [l \in Labels |-> 1] /\ made = row
  /\ assigned = {[item |-> a[1], label |-> a[2], row |-> 1] : a \in Assigned}
  /\ enabled = Enabled
  /\ changes = 0
  /\ search = [s \in Searches |-> NoSearch]
  /\ held = [s \in Searches |-> [policies |-> {}, assigned |-> {}]]
  /\ edit = [t \in Editors |-> NoEdit]

-----------------------------------------------------------------------------
(* Labels and policies *)

Change == changes < MaxChanges /\ changes' = changes + 1

(* What stands is whatever was neither deleted nor unassigned.             *)
Stand(policies, assignments) ==
  held' = [s \in Searches |-> [policies |-> held[s].policies \cap policies,
                               assigned |-> held[s].assigned \cap assignments]]

CreateLabel(l) ==
  /\ Change /\ row[l] = 0 /\ made[l] < MaxRows
  /\ made' = [made EXCEPT ![l] = @ + 1]
  /\ row' = [row EXCEPT ![l] = made[l] + 1]
  /\ UNCHANGED <<visible, assigned, enabled, search, held, edit>>

(* The delete waits for assignments in progress, and cascades to the rest. *)
DeleteLabel(l) ==
  LET left == {a \in assigned : a.label # l}
  IN /\ Change /\ row[l] # 0
     /\ \A t \in Editors : \A a \in edit[t].draft : a.label # l
     /\ row' = [row EXCEPT ![l] = 0]
     /\ assigned' = left
     /\ Stand(enabled, left)
     /\ UNCHANGED <<visible, made, enabled, search, edit>>

(* assign and bulk_assign: for every target, the label is looked up, then  *)
(* the assignment inserted.                                                *)
BeginAssign(t) ==
  \E l \in Labels, targets \in SUBSET Targets \ {{}} :
    /\ edit[t].pc = "new"
    /\ edit' = [edit EXCEPT ![t] = [NoEdit EXCEPT !.pc = "get", !.label = l, !.todo = targets]]
    /\ UNCHANGED <<visible, row, made, assigned, enabled, search, held, changes>>

(* No label: 500, or a failure of this target among others.                *)
GetLabel(t) ==
  LET e == edit[t]
      left == Cardinality(e.todo)
  IN /\ e.pc = "get" /\ e.todo # {}
     /\ \E i \in e.todo :
          edit' = [edit EXCEPT ![t] =
            IF row[e.label] # 0 THEN [e EXCEPT !.pc = "insert", !.row = row[e.label]]
                                ELSE [e EXCEPT !.todo = @ \ {i}]]
     /\ UNCHANGED <<visible, row, made, assigned, enabled, search, held, changes>>

(* The row has been deleted meanwhile: the foreign key fails, and with it  *)
(* the transaction, whatever the targets of before.                        *)
Insert(t) ==
  LET e == edit[t]
  IN /\ e.pc = "insert"
     /\ \E i \in e.todo :
          edit' = [edit EXCEPT ![t] =
            IF row[e.label] = e.row
              THEN [e EXCEPT !.pc = "get", !.todo = @ \ {i},
                             !.draft = @ \cup {[item |-> i, label |-> e.label, row |-> e.row]}]
              ELSE [NoEdit EXCEPT !.pc = "ended"]]
     /\ UNCHANGED <<visible, row, made, assigned, enabled, search, held, changes>>

CommitAssign(t) ==
  /\ edit[t].pc = "get" /\ edit[t].todo = {}
  /\ assigned' = assigned \cup edit[t].draft
  /\ edit' = [edit EXCEPT ![t] = [NoEdit EXCEPT !.pc = "ended"]]
  /\ UNCHANGED <<visible, row, made, enabled, search, held, changes>>

CrashAssign(t) ==
  /\ edit[t].pc \in {"get", "insert"}
  /\ edit' = [edit EXCEPT ![t] = [NoEdit EXCEPT !.pc = "ended"]]
  /\ UNCHANGED <<visible, row, made, assigned, enabled, search, held, changes>>

UnassignLabel(a) ==
  /\ Change /\ a \in assigned
  /\ assigned' = assigned \ {a}
  /\ Stand(enabled, assigned')
  /\ UNCHANGED <<visible, row, made, enabled, search, edit>>

CreatePolicy(p) ==
  /\ Change /\ p \notin enabled
  /\ enabled' = enabled \cup {p}
  /\ UNCHANGED <<visible, row, made, assigned, search, held, edit>>

DeletePolicy(p) ==
  /\ Change /\ p \in enabled
  /\ enabled' = enabled \ {p}
  /\ Stand(enabled', assigned)
  /\ UNCHANGED <<visible, row, made, assigned, search, edit>>

(* A fact is closed, an entity merged or deleted, a block replaced.        *)
Vanish(i) ==
  /\ Change /\ i \in visible
  /\ visible' = visible \ {i}
  /\ UNCHANGED <<row, made, assigned, enabled, search, held, edit>>

-----------------------------------------------------------------------------
(* The search *)

(* Vector and text for entities, edges and episodes, text for blocks.      *)
Statements(kinds) ==
  LET twice(k) == IF k \in kinds THEN <<k, k>> ELSE << >>
  IN twice("entity") \o twice("edge") \o twice("episode")
       \o (IF "block" \in kinds THEN <<"block">> ELSE << >>)

World == <<visible, row, made, assigned, enabled, edit, changes>>

Step(s, next) == search' = [search EXCEPT ![s] = next] /\ UNCHANGED <<World, held>>

Begin(s) ==
  \E q \in Queries, role \in Roles \cup {NoRole}, bypass \in BOOLEAN :
    /\ search[s].pc = "new"
    /\ search' = [search EXCEPT ![s] = [NoSearch EXCEPT !.pc = "query", !.query = q, !.role = role,
                                          !.bypass = bypass, !.todo = Statements(q.kinds)]]
    /\ held' = [held EXCEPT ![s] = [policies |-> enabled, assigned |-> assigned]]
    /\ UNCHANGED World

(* One query; the fusion keeps one hit per key.                            *)
Query(s) ==
  LET x == search[s]
  IN /\ x.pc = "query" /\ x.todo # << >>
     /\ \E found \in SUBSET {i \in visible : KindOf[i] = x.todo[1]} :
          Step(s, [x EXCEPT !.hits = @ \cup found, !.todo = Tail(@),
                            !.pc = IF Len(x.todo) = 1 THEN "expand" ELSE "query"])

Smaller(m, n) == IF m < n THEN m ELSE n

(* _graph_expand: current edges of the entities found, up to twice the     *)
(* limit of them.                                                          *)
Expand(s) ==
  LET x == search[s]
      near == {e \in visible : KindOf[e] = "edge" /\ Ends[e] \cap x.hits # {}}
  IN /\ x.pc = "expand"
     /\ \E found \in SUBSET near :
          /\ IF x.query.expand THEN Cardinality(found) = Smaller(2 * x.query.limit, Cardinality(near))
                               ELSE found = {}
          /\ Step(s, [x EXCEPT !.hits = @ \cup found, !.pc = "policies"])

\* Fault: no policy binds callers whose role is not known.
Refused_Known(role, r) == role # NoRole /\ role \notin r.roles

(* requires_role: a caller without a role is refused.                      *)
Refused(role, r) == role = NoRole \/ role \notin r.roles

Triggers(p, labels, role) ==
  LET r == Rule[p]
      hit == labels \cap r.labels
  IN \/ r.kind = "mutually_exclusive" /\ Cardinality(hit) >= 2
     \/ r.kind = "requires_role" /\ hit # {} /\ Refused(role, r)

(* apply_label_policy: nothing found, a privileged caller or no policy     *)
(* leaves the hits as they are.                                            *)
ReadPolicies(s) ==
  LET x == search[s]
  IN /\ x.pc = "policies"
     /\ Step(s, IF x.hits = {} \/ x.bypass \/ enabled = {} THEN [x EXCEPT !.pc = "rank"]
                ELSE [x EXCEPT !.pc = "edge labels", !.policies = enabled])

(* The labels of one kind of hit, by slug.                                 *)
LabelsOf(hits, kind) ==
  {<<a.item, a.label>> : a \in {a \in assigned : a.item \in hits /\ KindOf[a.item] = kind}}

ReadEdgeLabels(s) ==
  LET x == search[s]
  IN /\ x.pc = "edge labels"
     /\ Step(s, [x EXCEPT !.pc = "episode labels", !.labels = LabelsOf(x.hits, "edge")])

Slugs(pairs, i) == {p[2] : p \in {p \in pairs : p[1] = i}}

Drops(p) == Rule[p].action \in {"drop", "block"}

(* The episodes' labels, and the verdict on every hit.                     *)
ReadEpisodeLabels(s) ==
  LET x == search[s]
      labels == x.labels \cup LabelsOf(x.hits, "episode")
      fires(p, i) == Triggers(p, Slugs(labels, i), x.role)
      kept == {i \in x.hits : \A p \in x.policies : ~(fires(p, i) /\ Drops(p))}
  IN /\ x.pc = "episode labels"
     /\ Step(s, [x EXCEPT !.pc = "rank", !.hits = kept, !.labels = {},
                          !.warnings = {w \in kept \X x.policies :
                                          fires(w[2], w[1]) /\ Rule[w[2]].action = "warn"}])

(* The reranker, when it does not fail, and MMR put the hits in another    *)
(* order; as many as the limit allows remain.                              *)
Rank(s) ==
  LET x == search[s]
  IN /\ x.pc = "rank"
     /\ \E final \in SUBSET x.hits :
          /\ Cardinality(final) = Smaller(x.query.limit, Cardinality(x.hits))
          /\ Step(s, [x EXCEPT !.hits = final, !.pc = IF final = {} THEN "ended" ELSE "enrich"])

(* _enrich_payload: the labels shown with a hit are those of now.          *)
Enrich(s) ==
  LET x == search[s]
  IN /\ x.pc = "enrich"
     /\ Step(s, [x EXCEPT !.shown = LabelsOf(x.hits, "edge") \cup LabelsOf(x.hits, "episode"),
                          !.pc = "ended"])

Next ==
  \/ \E l \in Labels : CreateLabel(l) \/ DeleteLabel(l)
  \/ \E t \in Editors : \/ BeginAssign(t) \/ GetLabel(t) \/ Insert(t)
                        \/ CommitAssign(t) \/ CrashAssign(t)
  \/ \E a \in assigned : UnassignLabel(a)
  \/ \E p \in Policies : CreatePolicy(p) \/ DeletePolicy(p)
  \/ \E i \in Items : Vanish(i)
  \/ \E s \in Searches : \/ Begin(s) \/ Query(s) \/ Expand(s) \/ ReadPolicies(s)
                         \/ ReadEdgeLabels(s) \/ ReadEpisodeLabels(s) \/ Rank(s) \/ Enrich(s)

Spec == Init /\ [][Next]_vars

-----------------------------------------------------------------------------
(* Properties *)

(* What a rule has against a set of labels.                                *)
Against(r, labels, role) ==
  IF r.kind = "requires_role" THEN r.labels \cap labels # {} /\ role \notin r.roles
  ELSE \E l, m \in r.labels \cap labels : l # m

(* A policy and the labels of a hit that stood for the whole of a search   *)
(* govern its answer, whatever else was edited meanwhile and whichever     *)
(* query or expansion found the hit: what the policy drops or blocks for   *)
(* this caller is not among the hits, what it warns of carries the         *)
(* warning.                                                                *)
StandingPoliciesGovern ==
  \A s \in Searches :
    LET x == search[s]
        labels(i) == {a.label : a \in {a \in held[s].assigned : a.item = i}}
    IN x.pc = "ended" /\ ~x.bypass =>
         \A i \in x.hits, p \in held[s].policies :
           Against(Rule[p], labels(i), x.role) => Rule[p].action = "warn" /\ <<i, p>> \in x.warnings

=============================================================================
