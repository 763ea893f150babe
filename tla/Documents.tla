------------------------------ MODULE Documents -------------------------------
(***************************************************************************)
(* Documents: the block rows of app/domain/document.py behind              *)
(* app/api/rest/documents.py, their revisions, the references from blocks  *)
(* to the entities they mention, and the collaboration server of           *)
(* collab/src, which keeps a document in memory, stores its Yjs state and  *)
(* projects it into the same rows.                                         *)
(*                                                                         *)
(* A REST request and a projection are one transaction at READ COMMITTED   *)
(* each.  A tree is a sequence of blocks, each with the entity it mentions *)
(* or none; the Yjs state of a document is the tree it stands for.  Every  *)
(* edit of a document that is open reaches the server's one copy of it.    *)
(***************************************************************************)
EXTENDS Naturals, Sequences, FiniteSets, ReadCommitted

CONSTANTS
  Docs, Blocks, Entities,
  NoMention,
  Initial,       \* the trees of the documents there are at the start
  Drafts,        \* the trees people edit a document to
  Calls,         \* what clients send
  NoCall,
  Requests,
  MaxEdits       \* bound: edits in open documents

Node == [block : Blocks, mention : Entities \cup {NoMention}]

Call == [kind : {"put", "upload", "save", "restore", "delete", "project"},
         doc : Docs, tree : Seq(Node)]

(* A block row; "gone" stands for none.                                    *)
Row == [doc : Docs, mention : Entities \cup {NoMention}, at : Nat,
        state : {"live", "deleted", "gone"}]

ASSUME DocumentAssumption ==
  /\ NoMention \notin Entities
  /\ Docs # {} /\ IsFiniteSet(Blocks)
  /\ DOMAIN Initial \subseteq Docs /\ \A d \in DOMAIN Initial : Initial[d] \in Seq(Node)
  /\ \A d \in Docs : Drafts[d] \subseteq Seq(Node)
  /\ NoCall \notin Call /\ \A c \in Calls : c \in Call /\ c.kind # "project"
  /\ MaxEdits \in Nat

VARIABLES
  db,       \* committed: documents, block rows, references, revisions
  yjs,      \* document.yjs_state, as a tree
  editor,   \* the collaboration server's copy of each document
  edits,    \* how many edits there were
  astray,   \* documents whose rows something else wrote since the last store,
            \* whose projection failed, or whose server died with edits to store
  pc, call,
  todo,     \* the blocks a request has yet to upsert
  scanned,  \* the rows its UPDATE or DELETE has found
  listed,   \* the tree it has read for a revision
  draft     \* what it has written and not committed

vars == <<db, yjs, editor, edits, astray, pc, call, todo, scanned, listed, draft>>

Pairs == Blocks \X Entities

BlocksOf(tree) == {tree[i].block : i \in 1..Len(tree)}

MentionsOf(tree) ==
  {<<tree[i].block, tree[i].mention>> : i \in {i \in 1..Len(tree) : tree[i].mention # NoMention}}

Nothing == [docs |-> << >>, blocks |-> << >>, refs |-> << >>, revisions |-> {}]

Closed == [open |-> FALSE, tree |-> << >>, dirty |-> FALSE, saving |-> FALSE]

TypeOK ==
  /\ db.docs \in [Docs -> {"absent", "live", "gone"}]
  /\ db.blocks \in [Blocks -> Row]
  /\ db.refs \in [Pairs -> BOOLEAN]
  /\ db.revisions \subseteq Docs \X Seq(Node)
  /\ yjs \in [Docs -> Seq(Node)]
  /\ editor \in [Docs -> [open : BOOLEAN, tree : Seq(Node), dirty : BOOLEAN, saving : BOOLEAN]]
  /\ edits \in 0..MaxEdits
  /\ astray \subseteq Docs
  /\ pc \in [Requests -> {"new", "get", "create", "revision", "list", "stash", "scan", "sweep",
                          "upsert", "scan refs", "clear", "refer", "drop", "cascade",
                          "done", "failed", "ended"}]
  /\ \A t \in Requests :
       /\ call[t] \in Call \cup {NoCall}
       /\ todo[t] \in Seq(Node)
       /\ scanned[t] \subseteq Blocks \/ scanned[t] \subseteq Pairs
       /\ listed[t] \in Seq(Node)
       /\ DOMAIN draft[t].blocks \subseteq Blocks /\ DOMAIN draft[t].refs \subseteq Pairs

Init ==
  LET has(b, d) == b \in BlocksOf(Initial[d])
      place(b, d) == CHOOSE i \in 1..Len(Initial[d]) : Initial[d][i].block = b
      anyDoc == CHOOSE d \in Docs : TRUE
  IN /\ db = [docs |-> [d \in Docs |-> IF d \in DOMAIN Initial THEN "live" ELSE "absent"],
              blocks |-> [b \in Blocks |->
                IF \E d \in DOMAIN Initial : has(b, d)
                  THEN LET d == CHOOSE d \in DOMAIN Initial : has(b, d)
                       IN [doc |-> d, mention |-> Initial[d][place(b, d)].mention,
                           at |-> place(b, d), state |-> "live"]
                  ELSE [doc |-> anyDoc, mention |-> NoMention, at |-> 0, state |-> "gone"]],
              refs |-> [p \in Pairs |-> \E d \in DOMAIN Initial : p \in MentionsOf(Initial[d])],
              revisions |-> {}]
     /\ yjs = [d \in Docs |-> IF d \in DOMAIN Initial THEN Initial[d] ELSE << >>]
     /\ editor = [d \in Docs |-> Closed]
     /\ edits = 0 /\ astray = {}
     /\ pc = [t \in Requests |-> "new"] /\ call = [t \in Requests |-> NoCall]
     /\ todo = [t \in Requests |-> << >>] /\ scanned = [t \in Requests |-> {}]
     /\ listed = [t \in Requests |-> << >>]
     /\ draft = [t \in Requests |-> Nothing]

-----------------------------------------------------------------------------

View(t) ==
  [docs      |-> Overlay(db.docs, draft[t].docs),
   blocks    |-> Overlay(db.blocks, draft[t].blocks),
   refs      |-> Overlay(db.refs, draft[t].refs),
   revisions |-> db.revisions \cup draft[t].revisions]

LiveBlocks(view, d) == {b \in Blocks : view.blocks[b].doc = d /\ view.blocks[b].state = "live"}

(* list_blocks: by position, which two blocks may share.                   *)
Listings(view, d) ==
  LET n == Cardinality(LiveBlocks(view, d))
      orders == {o \in [1..n -> LiveBlocks(view, d)] :
                   \A i, j \in 1..n : i < j => /\ o[i] # o[j]
                                              /\ view.blocks[o[i]].at <= view.blocks[o[j]].at}
  IN {[i \in 1..n |-> [block |-> o[i], mention |-> view.blocks[o[i]].mention]] : o \in orders}

Doc(t) == call[t].doc

Goto(t, next) == pc' = [pc EXCEPT ![t] = next]

Collab == <<yjs, editor, edits>>

Writes(t, table, rows) == draft' = [draft EXCEPT ![t][table] = Overlay(@, rows)]

(* A statement that only reads, or only finds the rows it will write.      *)
Reads == UNCHANGED <<db, Collab, astray, listed, draft>>

(* An upload is for a document that is not there yet.                      *)
Receive(t) ==
  \E c \in Calls :
    /\ pc[t] = "new"
    /\ c.kind = "upload" => \A u \in Requests : call[u] # c
    /\ call' = [call EXCEPT ![t] = c]
    /\ todo' = [todo EXCEPT ![t] = c.tree]
    /\ Goto(t, IF c.kind = "upload" THEN "create" ELSE "get")
    /\ Reads /\ UNCHANGED scanned

(* get_document, behind every route. *)
Get(t) ==
  /\ pc[t] = "get"
  /\ Goto(t, IF View(t).docs[Doc(t)] # "live" THEN "failed"
             ELSE CASE call[t].kind = "put"     -> "scan"
                    [] call[t].kind = "save"    -> "list"
                    [] call[t].kind = "restore" -> "revision"
                    [] call[t].kind = "delete"  -> "drop")
  /\ Reads /\ UNCHANGED <<call, todo, scanned>>

(* create_document: an entity and a document row with new ids. *)
Create(t) ==
  /\ pc[t] = "create"
  /\ Writes(t, "docs", [d \in {Doc(t)} |-> "live"])
  /\ Goto(t, "scan")
  /\ UNCHANGED <<db, Collab, astray, call, todo, scanned, listed>>

(* restore_revision: the snapshot that is asked for. *)
Revision(t) ==
  LET trees == {r[2] : r \in {r \in View(t).revisions : r[1] = Doc(t)}}
  IN /\ pc[t] = "revision"
     /\ \/ \E tree \in trees :
             /\ call' = [call EXCEPT ![t].tree = tree]
             /\ todo' = [todo EXCEPT ![t] = tree]
             /\ Goto(t, "list")
        \/ trees = {} /\ Goto(t, "failed") /\ UNCHANGED <<call, todo>>
     /\ Reads /\ UNCHANGED scanned

(* snapshot_revision reads the block rows, and inserts them as a revision. *)
List(t) ==
  /\ pc[t] = "list"
  /\ \E tree \in Listings(View(t), Doc(t)) : listed' = [listed EXCEPT ![t] = tree]
  /\ Goto(t, "stash")
  /\ UNCHANGED <<db, Collab, astray, call, todo, scanned, draft>>

-----------------------------------------------------------------------------
(* Locks: whom a statement waits for *)

Drops(u, d) == d \in DOMAIN draft[u].docs

(* It has inserted a row that refers to the document.                      *)
Shares(u, d) ==
  \/ \E r \in draft[u].revisions : r[1] = d
  \/ \E b \in DOMAIN draft[u].blocks : db.blocks[b].state = "gone" /\ draft[u].blocks[b].doc = d

DocRows(view, d) == {b \in Blocks : view.blocks[b].doc = d /\ view.blocks[b].state # "gone"}

DocRefs(view, d) == {p \in Pairs : view.refs[p] /\ p[1] \in DocRows(view, d)}

Blockers(t) ==
  LET d == Doc(t)
      on(blocks, refs) == {u \in Requests \ {t} : \/ DOMAIN draft[u].blocks \cap blocks # {}
                                                  \/ DOMAIN draft[u].refs \cap refs # {}}
      drops == {u \in Requests \ {t} : Drops(u, d)}
  IN CASE pc[t] = "stash"   -> drops
       [] pc[t] = "sweep"   -> on(scanned[t], {})
       [] pc[t] = "upsert"  -> LET b == todo[t][1].block
                               IN on({b}, {}) \cup (IF View(t).blocks[b].state = "gone" THEN drops ELSE {})
       [] pc[t] = "clear"   -> on({}, scanned[t])
       [] pc[t] = "refer"   -> on({}, MentionsOf(call[t].tree))
       [] pc[t] = "drop"    -> drops \cup {u \in Requests \ {t} : Shares(u, d)}
       [] pc[t] = "cascade" -> on(DocRows(View(t), d), DocRefs(View(t), d))
       [] OTHER             -> {}

Stash(t) ==
  /\ pc[t] = "stash" /\ Blockers(t) = {}
  /\ \/ /\ View(t).docs[Doc(t)] # "live"
        /\ Goto(t, "failed") /\ UNCHANGED draft
     \/ /\ View(t).docs[Doc(t)] = "live"
        /\ draft' = [draft EXCEPT ![t].revisions = @ \cup {<<Doc(t), listed[t]>>}]
        /\ Goto(t, IF call[t].kind = "save" THEN "done" ELSE "scan")
  /\ UNCHANGED <<db, Collab, astray, call, todo, scanned, listed>>

-----------------------------------------------------------------------------
(* replace_block_tree, and persistBlocks of the collaboration server *)

(* The live blocks that are not in the tree.                               *)
Leaving(view, d, tree) == LiveBlocks(view, d) \ BlocksOf(tree)

(* The UPDATE finds them when it starts, and then waits for their locks.   *)
Scan(t) ==
  /\ pc[t] = "scan"
  /\ scanned' = [scanned EXCEPT ![t] = Leaving(View(t), Doc(t), call[t].tree)]
  /\ Goto(t, "sweep")
  /\ Reads /\ UNCHANGED <<call, todo>>

Sweep(t) ==
  /\ pc[t] = "sweep" /\ Blockers(t) = {}
  /\ Writes(t, "blocks", [b \in scanned[t] \cap LiveBlocks(View(t), Doc(t)) |->
                            [View(t).blocks[b] EXCEPT !.state = "deleted"]])
  /\ scanned' = [scanned EXCEPT ![t] = {}]
  /\ Goto(t, IF todo[t] = << >> THEN "scan refs" ELSE "upsert")
  /\ UNCHANGED <<db, Collab, astray, call, todo, listed>>

(* INSERT ON CONFLICT (id) DO UPDATE.  A new row needs the document.       *)
Upsert(t) ==
  LET node == todo[t][1]
      row == View(t).blocks[node.block]
      new == row.state = "gone"
      gone == new /\ View(t).docs[Doc(t)] # "live"
  IN /\ pc[t] = "upsert" /\ Blockers(t) = {}
     /\ IF gone
          THEN Goto(t, "failed") /\ UNCHANGED <<draft, todo>>
          ELSE /\ Writes(t, "blocks", [b \in {node.block} |->
                    [doc |-> IF new THEN Doc(t) ELSE row.doc, mention |-> node.mention,
                     at |-> 1 + Len(call[t].tree) - Len(todo[t]), state |-> "live"]])
               /\ todo' = [todo EXCEPT ![t] = Tail(@)]
               /\ Goto(t, IF Len(todo[t]) = 1 THEN "scan refs" ELSE "upsert")
     /\ UNCHANGED <<db, Collab, astray, call, scanned, listed>>

\* Fault: only the references of the blocks of the new tree are rebuilt.
Rebuilt_Tree(t) == {p \in Pairs : View(t).refs[p] /\ p[1] \in BlocksOf(call[t].tree)}

(* DELETE FROM block_entity_ref for the document's blocks, deleted or not. *)
Rebuilt(t) == DocRefs(View(t), Doc(t))

ScanRefs(t) ==
  /\ pc[t] = "scan refs"
  /\ scanned' = [scanned EXCEPT ![t] = Rebuilt(t)]
  /\ Goto(t, "clear")
  /\ Reads /\ UNCHANGED <<call, todo>>

(* The DELETE, and get_document once more.                                 *)
Clear(t) ==
  /\ pc[t] = "clear" /\ Blockers(t) = {}
  /\ Writes(t, "refs", [p \in scanned[t] |-> FALSE])
  /\ scanned' = [scanned EXCEPT ![t] = {}]
  /\ Goto(t, IF View(t).docs[Doc(t)] = "live" \/ call[t].kind = "project" THEN "refer" ELSE "failed")
  /\ UNCHANGED <<db, Collab, astray, call, todo, listed>>

(* INSERT ON CONFLICT DO NOTHING, for every mention; a block that is gone  *)
(* breaks the foreign key.                                                 *)
Refer(t) ==
  LET pairs == MentionsOf(call[t].tree)
  IN /\ pc[t] = "refer" /\ Blockers(t) = {}
     /\ IF \E p \in pairs : View(t).blocks[p[1]].state = "gone"
          THEN Goto(t, "failed") /\ UNCHANGED draft
          ELSE Writes(t, "refs", [p \in pairs |-> TRUE]) /\ Goto(t, "done")
     /\ UNCHANGED <<db, Collab, astray, call, todo, scanned, listed>>

-----------------------------------------------------------------------------
(* delete_document, which soft-deletes the entity in the same transaction *)

Drop(t) ==
  /\ pc[t] = "drop" /\ Blockers(t) = {}
  /\ \/ /\ View(t).docs[Doc(t)] # "live"
        /\ Goto(t, "done") /\ UNCHANGED draft
     \/ /\ View(t).docs[Doc(t)] = "live"
        /\ Writes(t, "docs", [d \in {Doc(t)} |-> "gone"])
        /\ Goto(t, "cascade")
  /\ UNCHANGED <<db, Collab, astray, call, todo, scanned, listed>>

(* ON DELETE CASCADE takes the blocks and their references along; the      *)
(* revisions go when the request commits.                                  *)
Cascade(t) ==
  LET rows == DocRows(View(t), Doc(t))
  IN /\ pc[t] = "cascade" /\ Blockers(t) = {}
     /\ draft' = [draft EXCEPT
          ![t].blocks = Overlay(@, [b \in rows |-> [View(t).blocks[b] EXCEPT !.state = "gone"]]),
          ![t].refs = Overlay(@, [p \in DocRefs(View(t), Doc(t)) |-> FALSE])]
     /\ Goto(t, "done")
     /\ UNCHANGED <<db, Collab, astray, call, todo, scanned, listed>>

-----------------------------------------------------------------------------

(* The request is over; a store of the collaboration server goes with its  *)
(* projection.                                                             *)
Close(t) ==
  /\ Goto(t, "ended")
  /\ draft' = [draft EXCEPT ![t] = Nothing]
  /\ editor' = IF call[t].kind = "project" THEN [editor EXCEPT ![Doc(t)].saving = FALSE] ELSE editor
  /\ UNCHANGED <<yjs, edits, call, todo, scanned, listed>>

Commit(t) ==
  LET view == View(t)
  IN /\ pc[t] = "done"
     /\ db' = [view EXCEPT !.revisions = {r \in @ : view.docs[r[1]] = "live"}]
     /\ astray' = IF call[t].kind \in {"put", "upload", "restore"} THEN astray \cup {Doc(t)} ELSE astray
     /\ Close(t)

(* A failed projection is logged, and that is all.                         *)
Fail(t) ==
  /\ astray' = IF call[t].kind = "project" THEN astray \cup {Doc(t)} ELSE astray
  /\ Close(t) /\ UNCHANGED db

Rollback(t) == pc[t] = "failed" /\ Fail(t)

Crash(t) == pc[t] \notin {"new", "ended"} /\ Fail(t)

\* Fault: nobody notices that transactions wait for one another.
Deadlocked_Never(t) == FALSE

Deadlocked(t) == \E S \in SUBSET Requests : t \in S /\ \A u \in S : Blockers(u) \cap S # {}

DeadlockVictim(t) ==
  /\ Deadlocked(t)
  /\ Goto(t, "failed")
  /\ Reads /\ UNCHANGED <<call, todo, scanned>>

-----------------------------------------------------------------------------
(* The collaboration server *)

Quiet == UNCHANGED <<db, pc, call, todo, scanned, listed, draft>>

(* Database.fetch: the Yjs state, whatever the block rows are. *)
Open(d) ==
  /\ ~editor[d].open /\ db.docs[d] = "live"
  /\ editor' = [editor EXCEPT ![d].open = TRUE, ![d].tree = yjs[d]]
  /\ Quiet /\ UNCHANGED <<yjs, edits, astray>>

Edit(d) ==
  \E tree \in Drafts[d] :
    /\ editor[d].open /\ edits < MaxEdits
    /\ editor' = [editor EXCEPT ![d].tree = tree, ![d].dirty = TRUE]
    /\ edits' = edits + 1
    /\ Quiet /\ UNCHANGED <<yjs, astray>>

\* Fault: a second store does not wait for the first one.
Stores_Overlap(d) == editor[d].dirty

(* Stores of one document exclude one another.                             *)
Stores(d) == editor[d].dirty /\ ~editor[d].saving

(* Database.store: the UPDATE of yjs_state is committed by itself.         *)
Store(d) ==
  /\ Stores(d) /\ \A u \in Requests : ~Drops(u, d)
  /\ editor' = [editor EXCEPT ![d].dirty = FALSE, ![d].saving = TRUE]
  /\ yjs' = [yjs EXCEPT ![d] = IF db.docs[d] = "live" THEN editor[d].tree ELSE @]
  /\ astray' = astray \ {d}
  /\ Quiet /\ UNCHANGED edits

Projecting(d) == \E t \in Requests : call[t] # NoCall /\ pc[t] # "ended"
                                     /\ call[t].kind = "project" /\ Doc(t) = d

(* Then the document, as it is by now, is projected in a transaction.      *)
Project(t, d) ==
  /\ editor[d].saving /\ ~Projecting(d) /\ pc[t] = "new"
  /\ IF db.docs[d] = "live"
       THEN /\ call' = [call EXCEPT ![t] = [kind |-> "project", doc |-> d, tree |-> editor[d].tree]]
            /\ todo' = [todo EXCEPT ![t] = editor[d].tree]
            /\ Goto(t, "scan")
            /\ UNCHANGED editor
       ELSE editor' = [editor EXCEPT ![d].saving = FALSE] /\ UNCHANGED <<call, todo, pc>>
  /\ UNCHANGED <<db, yjs, edits, astray, scanned, listed, draft>>

(* The last connection closes once all is stored.                          *)
Unload(d) ==
  /\ editor[d].open /\ ~editor[d].dirty /\ ~editor[d].saving
  /\ editor' = [editor EXCEPT ![d] = Closed]
  /\ Quiet /\ UNCHANGED <<yjs, edits, astray>>

(* The server dies: what it had not stored is lost, though a projection    *)
(* may have held some of it, and a projection it owes is not made up for.  *)
LoseServer(d) ==
  /\ editor[d].open /\ ~Projecting(d)
  /\ editor' = [editor EXCEPT ![d] = Closed]
  /\ astray' = IF editor[d].dirty \/ editor[d].saving THEN astray \cup {d} ELSE astray
  /\ Quiet /\ UNCHANGED <<yjs, edits>>

Statement(t) ==
  \/ Get(t) \/ Create(t) \/ Revision(t) \/ List(t) \/ Stash(t) \/ Scan(t) \/ Sweep(t) \/ Upsert(t)
  \/ ScanRefs(t) \/ Clear(t) \/ Refer(t) \/ Drop(t) \/ Cascade(t)
  \/ Commit(t) \/ Rollback(t) \/ DeadlockVictim(t)

Next ==
  \/ \E t \in Requests : Receive(t) \/ Statement(t) \/ Crash(t)
  \/ \E d \in Docs : \/ Open(d) \/ Edit(d) \/ Store(d) \/ Unload(d) \/ LoseServer(d)
                     \/ \E t \in Requests : Project(t, d)

Spec == Init /\ [][Next]_vars

(* A coroutine goes on while its loop runs, and a lock that is released is *)
(* granted.                                                                *)
Fairness == \A t \in Requests : WF_vars(Statement(t))

FairSpec == Spec /\ Fairness

-----------------------------------------------------------------------------
(* Properties *)

(* However replacements, restores, deletions and projections of a document *)
(* are interleaved, a reference in block_entity_ref, which backlinks of an *)
(* entity read, is of a live block that mentions the entity.               *)
NoStaleBacklinks ==
  \A p \in Pairs :
    db.refs[p] => db.blocks[p[1]].state = "live" /\ db.blocks[p[1]].mention = p[2]

(* When nothing is left to store, and only the collaboration server wrote  *)
(* the rows since it stored the document, they are the document's blocks.  *)
ProjectionFollowsStore ==
  \A d \in Docs :
    db.docs[d] = "live" /\ d \notin astray /\ ~editor[d].dirty /\ ~editor[d].saving
      => /\ LiveBlocks(db, d) = BlocksOf(yjs[d])
         /\ \A i \in 1..Len(yjs[d]) : db.blocks[yjs[d][i].block].mention = yjs[d][i].mention

(* Every request on documents ends: two replacements that upsert the same  *)
(* blocks in opposite orders do not wait for one another for ever.         *)
RequestsEnd == \A t \in Requests : pc[t] # "new" ~> pc[t] = "ended"

(* The block tree is a projection of the Yjs document: with nothing in     *)
(* progress, the rows of a document are the blocks of its Yjs state.       *)
BlocksProjectYjs ==
  \A d \in Docs :
    db.docs[d] = "live" /\ ~editor[d].dirty /\ ~editor[d].saving
      /\ (\A t \in Requests : pc[t] \in {"new", "ended"})
      => LiveBlocks(db, d) = BlocksOf(yjs[d])

(* A block that is live and mentions an entity is among its backlinks.     *)
BacklinksComplete ==
  \A b \in Blocks :
    db.blocks[b].state = "live" /\ db.blocks[b].mention # NoMention
      => db.refs[<<b, db.blocks[b].mention>>]

=============================================================================
