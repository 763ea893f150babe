------------------------------- MODULE GraphWalk -------------------------------
(***************************************************************************)
(* Graph traversal: app/retrieval/graph.py behind app/api/rest/graph.py    *)
(* and the graph_query tool.  Two queries of one transaction, at READ      *)
(* COMMITTED: a recursive one that enumerates paths without a repeated     *)
(* node, and one for the edges among the nodes it kept.                    *)
(*                                                                         *)
(* An edge is a pair of entities, live and visible to the caller; times,   *)
(* predicates and access lists decide which edges those are and are left   *)
(* out, and so is the filter on types, applied to the nodes afterwards.    *)
(***************************************************************************)
EXTENDS Naturals, Sequences, FiniteSets, FiniteSetsExt, Functions

CONSTANTS
  Nodes,     \* entity ids
  Queries,   \* what callers ask
  MaxNodes   \* max_nodes

VARIABLES
  edges,    \* live edges
  gone,     \* deleted entities
  query,    \* what was asked
  seen,     \* edges and gone when the first query ran
  nodes,    \* its result: the distance of each node
  between,  \* the result of the second
  pc

vars == <<edges, gone, query, seen, nodes, between, pc>>

Edges == {e \in Nodes \X Nodes : e[1] # e[2]}

Query == [seeds : SUBSET Nodes, hops : Nat, direction : {"out", "in", "both"}]

GraphAssumption ==
  IsFiniteSet(Nodes) /\ MaxNodes \in Nat \ {0} /\ \A q \in Queries : q \in Query

TypeOK ==
  /\ edges \subseteq Edges /\ gone \subseteq Nodes
  /\ query \in Queries
  /\ seen \in [edges : SUBSET Edges, gone : SUBSET Nodes]
  /\ DOMAIN nodes \subseteq Nodes /\ \A x \in DOMAIN nodes : nodes[x] \in Nat
  /\ between \subseteq Edges
  /\ pc \in {"walk", "edges", "done"}

Init ==
  /\ edges \in SUBSET Edges
  /\ gone \in {{}} \cup {{x} : x \in Nodes}
  /\ query \in Queries
  /\ seen = [edges |-> {}, gone |-> {}]
  /\ nodes = << >> /\ between = {}
  /\ pc = "walk"

-----------------------------------------------------------------------------

(* The entities one edge away from x.                                      *)
Neighbours(es, direction, x) ==
  {y \in Nodes : \/ direction # "in" /\ <<x, y>> \in es
                 \/ direction # "out" /\ <<y, x>> \in es}

\* Fault: the bound is tested one step late.
Extended_Late(d, hops) == d <= hops

(* Whether a path of d steps is extended.                                  *)
Extended(d, hops) == d < hops

(* The rows of the recursive query: a path of d steps from a seed, none of *)
(* whose nodes repeats.  Only seeds are tested for deletion here.          *)
Paths(es, dead, q) ==
  LET next(p) == {y \in Neighbours(es, q.direction, p[Len(p)]) : \A i \in 1..Len(p) : p[i] # y}
      of[d \in 0..Cardinality(Nodes)] ==
        IF d = 0 THEN {<<x>> : x \in q.seeds \ dead}
        ELSE IF Extended(d - 1, q.hops) THEN UNION {{Append(p, y) : y \in next(p)} : p \in of[d - 1]}
        ELSE {}
  IN UNION {of[d] : d \in 0..Cardinality(Nodes)}

(* The nodes at the ends of the paths, and the distance of each.           *)
Found(es, dead, q) ==
  LET paths == Paths(es, dead, q)
  IN [x \in {p[Len(p)] : p \in paths} \ dead |-> Min({Len(p) - 1 : p \in {p \in paths : p[Len(p)] = x}})]

(* LIMIT without an ORDER BY: any max_nodes of them.                       *)
Limited(found) ==
  {Restrict(found, kept) : kept \in
     {kept \in SUBSET DOMAIN found :
        Cardinality(kept) = Min({MaxNodes, Cardinality(DOMAIN found)})}}

(* No seeds, or no hops: an empty answer without a query.                  *)
Walk ==
  /\ pc = "walk"
  /\ seen' = [edges |-> edges, gone |-> gone]
  /\ nodes' \in IF query.seeds = {} \/ query.hops < 1 THEN {<< >>}
               ELSE Limited(Found(edges, gone, query))
  /\ pc' = IF DOMAIN nodes' = {} THEN "done" ELSE "edges"
  /\ UNCHANGED <<edges, gone, query, between>>

FetchEdges ==
  /\ pc = "edges"
  /\ between' = {e \in edges : e[1] \in DOMAIN nodes /\ e[2] \in DOMAIN nodes}
  /\ pc' = "done"
  /\ UNCHANGED <<edges, gone, query, seen, nodes>>

(* Another transaction closes an edge or adds one between the two queries. *)
Elsewhere ==
  /\ pc = "edges" /\ edges = seen.edges
  /\ \E e \in Edges : edges' = IF e \in edges THEN edges \ {e} ELSE edges \cup {e}
  /\ UNCHANGED <<gone, query, seen, nodes, between, pc>>

Next == Walk \/ FetchEdges \/ Elsewhere

Spec == Init /\ [][Next]_vars

-----------------------------------------------------------------------------

(* What the caller is promised: the entities within so many steps.         *)
Within(d) ==
  LET ball[i \in 0..d] ==
        IF i = 0 THEN query.seeds \ seen.gone
        ELSE ball[i - 1] \cup
               UNION {Neighbours(seen.edges, query.direction, x) : x \in ball[i - 1]}
  IN ball[d]

(* The distance reported for a node is that of a shortest walk, though the *)
(* query enumerates paths without repetition and keeps the rows of one     *)
(* node only; a full answer leaves out no live entity within max_hops; and *)
(* no edge of the answer lacks an end, whatever commits in between.        *)
AnswerIsNeighbourhood ==
  /\ \A x \in DOMAIN nodes :
       /\ nodes[x] <= query.hops
       /\ x \in Within(nodes[x]) \ seen.gone
       /\ nodes[x] > 0 => x \notin Within(nodes[x] - 1)
  /\ pc # "walk" /\ query.hops > 0 /\ Cardinality(DOMAIN nodes) < MaxNodes =>
       Within(query.hops) \ seen.gone \subseteq DOMAIN nodes
  /\ \A e \in between : e[1] \in DOMAIN nodes /\ e[2] \in DOMAIN nodes
=============================================================================
