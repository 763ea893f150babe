------------------------------ MODULE ContentMC ------------------------------
(***************************************************************************)
(* Small instances of the components of Content.  A behaviour picks one of *)
(* them, the focus, and the others stay where they started: the run        *)
(* explores each component by itself, and not the product of all.          *)
(***************************************************************************)
EXTENDS Content, TLC

CONSTANTS
  Parts,      \* the components this run may pick
  NoId

VARIABLE focus

-----------------------------------------------------------------------------
(* Documents: d1 has one block that mentions e1, d2 is uploaded. *)

Block(b, m) == [block |-> b, mention |-> m]

Stored == "d1" :> <<Block("b1", "e1")>>
Typed  == "d1" :> {<<Block("b2", "e1")>>, << >>} @@ "d2" :> {}

Ask(kind, d, tree) == [kind |-> kind, doc |-> d, tree |-> tree]

(* Two replacements name the same blocks in opposite orders. *)
Asked ==
  {Ask("put", "d1", <<Block("b2", "e1"), Block("b1", "none")>>),
   Ask("put", "d1", <<Block("b1", "e1"), Block("b2", "none")>>),
   Ask("upload", "d2", <<Block("b3", "none")>>),
   Ask("save", "d1", << >>), Ask("restore", "d1", << >>), Ask("delete", "d1", << >>)}

-----------------------------------------------------------------------------
(* Bulk reviews that lock two subjects in either order, beside a rejection *)
(* of what they approve: p1 and p2 are about bob, p4 about ann.            *)

Works(who, where, from) ==
  [subject |-> who, predicate |-> "works_at", object |-> where, valid_from |-> from,
   valid_to |-> Infinity]

Bulk(verb, ps) == [verb |-> verb, ids |-> ps, bulk |-> TRUE]

PeopleAndFirms == {"ann", "bob", "acme", "globex"}
Facts     == "p1" :> Works("bob", "acme", 1) @@ "p2" :> Works("bob", "globex", 3)
             @@ "p4" :> Works("ann", "acme", 3)
Extracted == "p1" :> NoId @@ "p2" :> "n1" @@ "p4" :> NoId

Crossing == {Bulk("approve", <<"p1", "p4">>), Bulk("approve", <<"p4", "p2">>),
             Bulk("reject", <<"p2", "p1">>)}

-----------------------------------------------------------------------------
(* The walk: every graph of three entities, from the one in the middle and *)
(* from both ends.                                                         *)

Walks  == {[seeds |-> {2}, hops |-> h, direction |-> d] : h \in 0..2, d \in {"out", "both"}}
          \cup {[seeds |-> {1, 3}, hops |-> 1, direction |-> "in"]}

ASSUME ContentAssumption

-----------------------------------------------------------------------------

(* The walk starts in any graph if it is the focus. *)
FocusInit ==
  /\ focus \in Parts
  /\ ContentInit
  /\ focus # "walk" => graph = {} /\ gone = {} /\ query = CHOOSE q \in Walks : TRUE

(* The requests of the focus are over; reviews have a disjunct of their    *)
(* own for this.                                                           *)
Over ==
  /\ \/ focus = "documents" /\ \A t \in Requests : pc[t] = "ended"
     \/ focus = "walk" /\ walkPc = "done"
     \/ focus = "seeding" /\ \A c \in Seeders : seedPc[c] \in {"done", "failed"}
  /\ UNCHANGED contentVars

FocusNext ==
  /\ UNCHANGED focus
  /\ \/ focus = "documents" /\ DocumentSteps
     \/ focus = "reviews" /\ ReviewSteps
     \/ focus = "walk" /\ WalkSteps
     \/ focus = "seeding" /\ SeedSteps
     \/ Over

(* A request on documents or proposals that has begun runs on: the         *)
(* fairness of these components, of which the focus alone has steps.       *)
ContentFairness ==
  \A t \in Requests :
    /\ WF_vars(focus = "documents" /\ Statement(t))
    /\ WF_reviewVars(focus = "reviews" /\ Reviewing!Step(t))
    /\ WF_reviewVars(focus = "reviews" /\ Reviewing!Commit(t))
    /\ WF_reviewVars(focus = "reviews" /\ Reviewing!Rollback(t))
    /\ WF_reviewVars(focus = "reviews" /\ Reviewing!DeadlockVictim(t))

FocusSpec == FocusInit /\ [][FocusNext]_<<focus, contentVars>> /\ ContentFairness

-----------------------------------------------------------------------------
(* Liveness; the invariants are those of Content. *)

Begun(t) == pc[t] \notin {"new", "ended"} \/ reviewPc[t] \notin {"new", "ended"}

(* Documents and reviews: requests that lock the same blocks, facts or     *)
(* proposals in opposite orders all end, because Postgres breaks the       *)
(* deadlock.                                                               *)
ContentRequestsEnd == \A t \in Requests : Begun(t) ~> ~Begun(t)

=============================================================================
