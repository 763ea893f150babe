------------------------------ MODULE DemoSeeder ------------------------------
(***************************************************************************)
(* The demo dataset of a workspace: app/domain/demo_seeder.py behind the   *)
(* seed-demo route of app/api/rest/workspaces.py.  A call is one           *)
(* transaction that looks each item up and inserts what it does not find.  *)
(*                                                                         *)
(* One item of a kind stands for its list: the lists are constants of the  *)
(* source and are always handled in the same order.  Rows are named by the *)
(* call that inserted them.  Texts, embeddings and the content of blocks   *)
(* are left out, and so is the contradictor: of a high-stakes relation the *)
(* list has two facts of one subject only where they name one object.      *)
(***************************************************************************)
EXTENDS Naturals, FiniteSets

CONSTANT Calls

(* Where rows are kept.  "iri" holds the entity rows that have the IRI of  *)
(* the demo document, deleted ones too; "state" is the Yjs state of the    *)
(* document.  "fact" is a fact that nothing closes.  The list also has     *)
(* pairs of one triple, a fact with invalidate_at ("closed") and then the  *)
(* one that is true after it ("open"): "replaced" holds rows of the latter *)
(* that a later call has closed.                                           *)
Tables == {"type", "entity", "iri", "document", "state", "episode", "fact", "closed", "open",
           "replaced", "session"}

(* Tables with a unique index over the key of the item.                    *)
Unique == {"type", "entity", "iri", "episode"}

VARIABLES
  rows,   \* committed rows
  pc,     \* the next statement of each call
  mine    \* what it has written and not committed

vars == <<rows, pc, mine>>

Empty == [x \in Tables |-> {}]

Places == {"new", "type", "add_type", "entity", "add_entity", "update", "document",
           "add_document", "retitle", "hydrate", "episode", "add_episode", "add_fact",
           "add_closed", "invalidate", "add_open", "session", "add_session", "commit", "done", "failed"}

TypeOK ==
  /\ rows \in [Tables -> SUBSET Calls]
  /\ pc \in [Calls -> Places]
  /\ mine \in [Calls -> [Tables -> BOOLEAN]]

Init ==
  /\ rows = Empty
  /\ pc = [c \in Calls |-> "new"]
  /\ mine = [c \in Calls |-> [x \in Tables |-> FALSE]]

-----------------------------------------------------------------------------

Goto(c, next) == pc' = [pc EXCEPT ![c] = next]

Active(c) == pc[c] \notin {"new", "done", "failed"}

Found(c, x) == rows[x] # {} \/ mine[c][x]

(* A SELECT by the key of the item.                                        *)
LookUp(c, x, here, found, missing) ==
  /\ pc[c] = here
  /\ Goto(c, IF Found(c, x) THEN found ELSE missing)
  /\ UNCHANGED <<rows, mine>>

(* INSERTs into tables xs: a unique index makes them wait for an           *)
(* uncommitted row with the key, and refuses them when it is committed.    *)
Insert(c, xs, here, next) ==
  /\ pc[c] = here
  /\ \A d \in Calls \ {c} : \A x \in xs \cap Unique : ~mine[d][x]
  /\ IF \E x \in xs \cap Unique : rows[x] # {}
       THEN /\ Goto(c, "failed")
            /\ mine' = [mine EXCEPT ![c] = [x \in Tables |-> FALSE]]
       ELSE /\ Goto(c, next)
            /\ mine' = [mine EXCEPT ![c] = [x \in Tables |-> @[x] \/ x \in xs]]
  /\ UNCHANGED rows

(* The first entity of the dataset is updated by a call that finds it:     *)
(* the row stays locked until that call commits.                           *)
Updated == {"document", "add_document", "retitle", "hydrate", "episode", "add_episode",
            "add_fact", "add_closed", "invalidate", "add_open", "session", "add_session", "commit"}

EntityLocked(c) == \E d \in Calls \ {c} : pc[d] \in Updated

(* A call keeps the advisory lock of a subject and predicate from its      *)
(* first fact about them to its end.                                       *)
FactsBegun == {"add_closed", "invalidate", "add_open", "session", "add_session", "commit"}

FactLocked(c) == \E d \in Calls \ {c} : pc[d] \in FactsBegun

PairLocked(c) == \E d \in Calls \ {c} : pc[d] \in FactsBegun \ {"add_closed"}

(* The rows of a table once the call commits: it closes what is live of    *)
(* the triple of a pair, and adds its own.                                 *)
Written(c, x) == IF ~mine[c][x] THEN {} ELSE IF x = "replaced" THEN rows["open"] ELSE {c}

Remaining(c, x) == IF x = "open" /\ mine[c]["replaced"] THEN {} ELSE rows[x]

Outcome(c) == [x \in Tables |-> Remaining(c, x) \cup Written(c, x)]

-----------------------------------------------------------------------------

Begin(c) == pc[c] = "new" /\ Goto(c, "type") /\ UNCHANGED <<rows, mine>>

FindType(c)   == LookUp(c, "type", "type", "entity", "add_type")
CreateType(c) == Insert(c, {"type"}, "add_type", "entity")

FindEntity(c)   == LookUp(c, "entity", "entity", "update", "add_entity")
CreateEntity(c) == Insert(c, {"entity"}, "add_entity", "document")

UpdateEntity(c) ==
  /\ pc[c] = "update"
  /\ ~EntityLocked(c)
  /\ Goto(c, "document")
  /\ UNCHANGED <<rows, mine>>

FindDocument(c)   == LookUp(c, "document", "document", "retitle", "add_document")
CreateDocument(c) == Insert(c, {"iri", "document"}, "add_document", "hydrate")

(* The title, then the blocks, which refer to a document that may be gone. *)
Retitle(c) ==
  /\ pc[c] = "retitle"
  /\ Goto(c, IF Found(c, "document") THEN "hydrate" ELSE "failed")
  /\ mine' = IF Found(c, "document") THEN mine
             ELSE [mine EXCEPT ![c] = [x \in Tables |-> FALSE]]
  /\ UNCHANGED rows

\* Fault: what was written is committed before the collaboration server is
\* called.
Hydrate_Commits(c) ==
  /\ pc[c] = "hydrate"
  /\ Goto(c, "episode")
  /\ rows' = Outcome(c)
  /\ mine' = [mine EXCEPT ![c] = [x \in Tables |-> FALSE]]

(* The collaboration server answers or does not; the call goes on.         *)
Hydrate(c) ==
  /\ pc[c] = "hydrate"
  /\ Goto(c, "episode")
  /\ mine' \in {mine, [mine EXCEPT ![c]["state"] = TRUE]}
  /\ UNCHANGED rows

FindEpisode(c) == LookUp(c, "episode", "episode", "add_fact", "add_episode")

(* ON CONFLICT DO NOTHING.                                                 *)
CreateEpisode(c) ==
  /\ pc[c] = "add_episode"
  /\ \A d \in Calls \ {c} : ~mine[d]["episode"]
  /\ Goto(c, "add_fact")
  /\ mine' = IF rows["episode"] = {} THEN [mine EXCEPT ![c]["episode"] = TRUE] ELSE mine
  /\ UNCHANGED rows

(* add_fact returns a live row of the triple that is valid at the start of *)
(* the new fact, and writes one if there is none.                          *)
AddFact(c) ==
  /\ pc[c] = "add_fact"
  /\ ~FactLocked(c)
  /\ Goto(c, "add_closed")
  /\ mine' = IF rows["fact"] = {} THEN [mine EXCEPT ![c]["fact"] = TRUE] ELSE mine
  /\ UNCHANGED rows

(* What is live of the triple of a pair begins after its first fact, which *)
(* is therefore written by every call ...                                  *)
AddClosedFact(c) ==
  /\ pc[c] = "add_closed"
  /\ ~PairLocked(c)
  /\ Goto(c, "invalidate")
  /\ mine' = [mine EXCEPT ![c]["closed"] = TRUE]
  /\ UNCHANGED rows

(* ... and invalidated at once, with every other live row of its triple.   *)
CloseFact(c) ==
  /\ pc[c] = "invalidate"
  /\ Goto(c, "add_open")
  /\ mine' = [mine EXCEPT ![c]["replaced"] = TRUE]
  /\ UNCHANGED rows

(* The second fact is then found only if it was not closed.                *)
AddOpenFact(c) ==
  /\ pc[c] = "add_open"
  /\ Goto(c, "session")
  /\ mine' = IF Remaining(c, "open") = {} THEN [mine EXCEPT ![c]["open"] = TRUE] ELSE mine
  /\ UNCHANGED rows

FindSession(c)   == LookUp(c, "session", "session", "commit", "add_session")
CreateSession(c) == Insert(c, {"session"}, "add_session", "commit")

(* After the merge and the deletion of phase 6.                            *)
Commit(c) ==
  /\ pc[c] = "commit"
  /\ Goto(c, "done")
  /\ rows' = Outcome(c)
  /\ mine' = [mine EXCEPT ![c] = [x \in Tables |-> FALSE]]

Abort(c) ==
  /\ Active(c)
  /\ Goto(c, "failed")
  /\ mine' = [mine EXCEPT ![c] = [x \in Tables |-> FALSE]]
  /\ UNCHANGED rows

(* A user deletes the demo document: its entity keeps the IRI.             *)
DeleteDocument ==
  /\ rows["document"] # {}
  /\ rows' = [rows EXCEPT !["document"] = {}, !["state"] = {}]
  /\ UNCHANGED <<pc, mine>>

Step(c) ==
  \/ FindType(c) \/ CreateType(c)
  \/ FindEntity(c) \/ CreateEntity(c) \/ UpdateEntity(c)
  \/ FindDocument(c) \/ CreateDocument(c) \/ Retitle(c) \/ Hydrate(c)
  \/ FindEpisode(c) \/ CreateEpisode(c)
  \/ AddFact(c) \/ AddClosedFact(c) \/ CloseFact(c) \/ AddOpenFact(c)
  \/ FindSession(c) \/ CreateSession(c)
  \/ Commit(c)

Next ==
  \/ \E c \in Calls : Begin(c) \/ Step(c) \/ Abort(c)
  \/ DeleteDocument

Spec == Init /\ [][Next]_vars

-----------------------------------------------------------------------------

(* Tables of what a user sees of the dataset.                              *)
Live == {"type", "entity", "iri", "document", "episode", "fact", "open", "session"}

Completed == {c \in Calls : pc[c] = "done"}

(* Calling twice, at once or again after a failure, leaves all of the live *)
(* dataset or none of it, and each item once.  No unique index covers the  *)
(* documents of the dataset or its agent sessions: their look-ups are safe *)
(* only because the entities before them are committed with them.  History *)
(* grows: every completed call leaves a closed fact of its own and one     *)
(* that is true after it, of which only the last is live.                  *)
OneLiveDataset ==
  /\ \A x \in Live : Cardinality(rows[x]) <= 1
  /\ rows["entity"] # {} => \A x \in Live \ {"document"} : rows[x] # {}
  /\ rows["closed"] = Completed
  /\ rows["open"] \cup rows["replaced"] = Completed
  /\ rows["open"] \cap rows["replaced"] = {}

(* "Re-running the seeder against the same workspace matches existing rows *)
(* by IRI" (module docstring): the IRI of a row that is there fails no     *)
(* call.                                                                   *)
IrisMatched ==
  [][\A c \in Calls : CreateDocument(c) => pc'[c] # "failed"]_vars
===============================================================================
