---------------------------- MODULE DocumentsProofs ----------------------------
(***************************************************************************)
(* Proofs about documents, for every set of documents, blocks, trees and   *)
(* requests: a reference is of a live block that mentions the entity, and  *)
(* the rows of a document follow what the collaboration server stored.     *)
(***************************************************************************)
EXTENDS Documents, TLAPS, FiniteSetTheorems, SequenceTheorems

(* The trees clients and people come up with for a document.               *)
Trees(d) ==
  {c.tree : c \in {c \in Calls : c.doc = d}} \cup Drafts[d]
    \cup (IF d \in DOMAIN Initial THEN {Initial[d]} ELSE {})

(* A tree says one thing about a block. *)
Plain(tree) ==
  \A i, j \in 1..Len(tree) : tree[i].block = tree[j].block => tree[i].mention = tree[j].mention

Home(d) == UNION {BlocksOf(tree) : tree \in Trees(d)}

(* What the theorems suppose: a tree says one thing about a block, and     *)
(* block ids, which the editor makes up, are of one document.  An upsert   *)
(* by id takes a block of another document over without its references,    *)
(* and of two nodes with one id the references of both are inserted.       *)
TreesApart ==
  /\ \A d \in Docs : \A tree \in Trees(d) : Plain(tree)
  /\ \A c, d \in Docs : c # d => Home(c) \cap Home(d) = {}

-----------------------------------------------------------------------------
(* The invariants *)

DraftOK(w) ==
  /\ w = [docs |-> w.docs, blocks |-> w.blocks, refs |-> w.refs, revisions |-> w.revisions]
  /\ DOMAIN w.docs \subseteq Docs /\ \A d \in DOMAIN w.docs : w.docs[d] \in {"live", "gone"}
  /\ DOMAIN w.blocks \subseteq Blocks /\ \A b \in DOMAIN w.blocks : w.blocks[b] \in Row
  /\ DOMAIN w.refs \subseteq Pairs /\ \A p \in DOMAIN w.refs : w.refs[p] \in BOOLEAN
  /\ w.revisions \subseteq Docs \X Seq(Node)

Replacing == {"put", "upload", "restore", "project"}

(* Statements before the first write of blocks, and before the first       *)
(* upsert.                                                                 *)
Early == {"new", "get", "create", "revision", "list", "stash", "scan", "sweep"}

Rebuilding == {"scan refs", "clear", "refer"}

(* What each statement finds in the variables of its request.              *)
Control(t) ==
  /\ IF pc[t] = "new" THEN call[t] = NoCall ELSE call[t] \in Call
  /\ pc[t] = "sweep" => scanned[t] \subseteq Blocks
  /\ pc[t] = "clear" => scanned[t] \subseteq Pairs
  /\ pc[t] \in Early \ {"new"} => todo[t] = call[t].tree
  /\ pc[t] = "upsert" => /\ todo[t] # << >> /\ Len(todo[t]) <= Len(call[t].tree)
                         /\ \A k \in 1..Len(todo[t]) :
                              todo[t][k] = call[t].tree[Len(call[t].tree) - Len(todo[t]) + k]
  /\ pc[t] # "new" /\ call[t].kind = "project" =>
       pc[t] \in {"scan", "sweep", "upsert", "done", "failed", "ended"} \cup Rebuilding
  /\ pc[t] # "new" /\ call[t].kind = "save" =>
       pc[t] \in {"get", "list", "stash", "done", "failed", "ended"}
  /\ pc[t] # "new" /\ call[t].kind = "delete" =>
       pc[t] \in {"get", "drop", "cascade", "done", "failed", "ended"}
  /\ pc[t] = "get" => call[t].kind \in {"put", "save", "restore", "delete"}
  /\ pc[t] = "create" => call[t].kind = "upload"
  /\ pc[t] \in {"drop", "cascade"} => call[t].kind = "delete"

TypeInvariant ==
  /\ TypeOK
  /\ call \in [Requests -> Call \cup {NoCall}]
  /\ todo \in [Requests -> Seq(Node)] /\ listed \in [Requests -> Seq(Node)]
  /\ DOMAIN scanned = Requests /\ DOMAIN draft = Requests
  /\ \A t \in Requests : DraftOK(draft[t]) /\ Control(t)

(* A tree of document d.                                                   *)
Kept(d, tree) == Plain(tree) /\ BlocksOf(tree) \subseteq Home(d)

(* The row of a block, and whether there is a reference, to who has        *)
(* written new over old.                                                   *)
RowSeen(old, new, b) == IF b \in DOMAIN new.blocks THEN new.blocks[b] ELSE old.blocks[b]

RefSeen(old, new, p) == IF p \in DOMAIN new.refs THEN new.refs[p] ELSE old.refs[p]

Points(old, new, p) ==
  RefSeen(old, new, p) => /\ RowSeen(old, new, p[1]).state = "live"
                          /\ RowSeen(old, new, p[1]).mention = p[2]

(* The node has been upserted.                                             *)
Stands(t, node) ==
  /\ node.block \in DOMAIN draft[t].blocks
  /\ draft[t].blocks[node.block].state = "live"
  /\ draft[t].blocks[node.block].mention = node.mention

(* How many nodes of its tree t has upserted.                              *)
Written(t) == IF pc[t] = "upsert" THEN Len(call[t].tree) - Len(todo[t]) ELSE Len(call[t].tree)

(* Trees of the document a request is about.                               *)
OwnTrees(t) ==
  /\ pc[t] # "new" => Kept(Doc(t), call[t].tree)
  /\ pc[t] = "stash" => Kept(Doc(t), listed[t])
  /\ \A r \in draft[t].revisions : Kept(r[1], r[2])

(* What it has written: blocks of its document, first blocks and then      *)
(* references of them.                                                     *)
OwnRows(t) ==
  /\ \A b \in DOMAIN draft[t].blocks : b \in Home(Doc(t)) /\ draft[t].blocks[b].doc = Doc(t)
  /\ \A p \in DOMAIN draft[t].refs : draft[t].refs[p] => p[1] \in DOMAIN draft[t].blocks
  /\ pc[t] \in Early \cup {"drop", "cascade", "ended"} => DOMAIN draft[t].blocks = {}
  /\ pc[t] \in Early \cup {"upsert", "scan refs", "clear", "drop", "cascade", "ended"} =>
       DOMAIN draft[t].refs = {}

Placed(t) ==
  \/ pc[t] \in {"upsert"} \cup Rebuilding
  \/ pc[t] = "done" /\ call[t].kind \in Replacing
  => \A i \in 1..Written(t) : Stands(t, call[t].tree[i])

(* A reference it sees may be stale, but only of a block it has written    *)
(* and on its way out.                                                     *)
Pointing(t) ==
  pc[t] # "failed" =>
    \A p \in Pairs :
      \/ Points(db, draft[t], p)
      \/ /\ p[1] \in DOMAIN draft[t].blocks
         /\ \/ /\ pc[t] \in {"upsert", "scan refs"}
               /\ draft[t].blocks[p[1]].state # "gone"
            \/ pc[t] = "clear" /\ p \in scanned[t]

Own(t) == OwnTrees(t) /\ OwnRows(t) /\ Placed(t) /\ Pointing(t)

(* Row locks.                                                              *)
WritesApart ==
  \A t, u \in Requests : t # u => DOMAIN draft[t].blocks \cap DOMAIN draft[u].blocks = {}

(* Documents keep their blocks.                                            *)
TreesKept == \A d \in Docs : Kept(d, yjs[d]) /\ Kept(d, editor[d].tree)

RowsKept ==
  /\ \A b \in Blocks : db.blocks[b].state # "gone" => b \in Home(db.blocks[b].doc)
  /\ \A r \in db.revisions : Kept(r[1], r[2])

(* The inductive invariant behind NoStaleBacklinks. *)
BacklinkInvariant ==
  /\ TreesKept /\ RowsKept
  /\ WritesApart
  /\ \A t \in Requests : Own(t)
  /\ NoStaleBacklinks

(* Nothing but the collaboration server has written the rows of d since    *)
(* its last store.                                                         *)
Led(d) == db.docs[d] = "live" /\ d \notin astray

ProjectionOf(t, d) == pc[t] \notin {"new", "ended"} /\ call[t].kind = "project" /\ Doc(t) = d

(* A projection in progress: the document it is of is being saved, what it *)
(* writes is what was stored unless there was another edit, and only its   *)
(* own blocks are left.                                                    *)
Projects(t, d) ==
  /\ editor[d].saving
  /\ Led(d) /\ ~editor[d].dirty => call[t].tree = yjs[d]
  /\ Led(d) /\ pc[t] = "sweep" => scanned[t] = Leaving(db, d, call[t].tree)
  /\ Led(d) /\ pc[t] \in {"upsert", "done"} \cup Rebuilding =>
       \A b \in Blocks : RowSeen(db, draft[t], b).doc = d /\ RowSeen(db, draft[t], b).state = "live"
                         => b \in BlocksOf(call[t].tree)

(* The documents a request writes.                                         *)
WritesDocs(t) ==
  /\ \A d \in DOMAIN draft[t].docs :
       d = Doc(t) /\ (draft[t].docs[d] = "live" => call[t].kind = "upload")
  /\ pc[t] # "new" /\ call[t].kind = "delete" /\ DOMAIN draft[t].blocks # {} =>
       Doc(t) \in DOMAIN draft[t].docs /\ draft[t].docs[Doc(t)] = "gone"
  /\ pc[t] # "new" /\ call[t].kind = "save" => DOMAIN draft[t].blocks = {}
  /\ pc[t] = "cascade" => Doc(t) \in DOMAIN draft[t].docs /\ draft[t].docs[Doc(t)] = "gone"
  /\ pc[t] \in {"new", "ended"} => DOMAIN draft[t].docs = {}

(* The inductive invariant behind ProjectionFollowsStore. *)
ProjectionInvariant ==
  /\ \A t \in Requests : WritesDocs(t)
  /\ \A t \in Requests, d \in Docs : ProjectionOf(t, d) => Projects(t, d)
  /\ \A t, u \in Requests, d \in Docs : ProjectionOf(t, d) /\ ProjectionOf(u, d) => t = u
  /\ \A d \in Docs : Led(d) /\ editor[d].saving /\ ~editor[d].dirty => editor[d].tree = yjs[d]
  /\ ProjectionFollowsStore

-----------------------------------------------------------------------------
(* Types *)

Places == {"new", "get", "create", "revision", "list", "stash", "scan", "sweep", "upsert",
           "scan refs", "clear", "refer", "drop", "cascade", "done", "failed", "ended"}

LEMMA OverlayFacts ==
  ASSUME NEW old, NEW new
  PROVE  /\ DOMAIN Overlay(old, new) = DOMAIN old \cup DOMAIN new
         /\ \A x \in DOMAIN new : Overlay(old, new)[x] = new[x]
         /\ \A x \in DOMAIN old \ DOMAIN new : Overlay(old, new)[x] = old[x]
  BY DEF Overlay

(* What a request sees has the types of the tables.                        *)
LEMMA ViewTypes ==
  ASSUME TypeInvariant, NEW t \in Requests
  PROVE  /\ View(t).docs \in [Docs -> {"absent", "live", "gone"}]
         /\ View(t).blocks \in [Blocks -> Row]
         /\ View(t).refs \in [Pairs -> BOOLEAN]
         /\ View(t).revisions \subseteq Docs \X Seq(Node)
  <1>1. DraftOK(draft[t]) /\ TypeOK
    BY DEF TypeInvariant
  <1>2. View(t).docs \in [Docs -> {"absent", "live", "gone"}]
    BY <1>1 DEF View, Overlay, DraftOK, TypeOK
  <1>3. View(t).blocks \in [Blocks -> Row]
    BY <1>1 DEF View, Overlay, DraftOK, TypeOK
  <1>4. View(t).refs \in [Pairs -> BOOLEAN]
    BY <1>1 DEF View, Overlay, DraftOK, TypeOK
  <1>5. View(t).revisions \subseteq Docs \X Seq(Node)
    BY <1>1 DEF View, DraftOK, TypeOK
  <1> QED BY <1>2, <1>3, <1>4, <1>5

(* The drafts after a write: one table of one request.                     *)
OnlyDraft(t) ==
  /\ DOMAIN draft' = Requests
  /\ \A u \in Requests \ {t} : draft'[u] = draft[u]

LEMMA WritesOne ==
  ASSUME TypeInvariant, NEW t \in Requests, NEW rows
  PROVE  /\ Writes(t, "docs", rows) =>
              OnlyDraft(t) /\ draft'[t] = [draft[t] EXCEPT !.docs = Overlay(@, rows)]
         /\ Writes(t, "blocks", rows) =>
              OnlyDraft(t) /\ draft'[t] = [draft[t] EXCEPT !.blocks = Overlay(@, rows)]
         /\ Writes(t, "refs", rows) =>
              OnlyDraft(t) /\ draft'[t] = [draft[t] EXCEPT !.refs = Overlay(@, rows)]
  BY DEF TypeInvariant, Writes, OnlyDraft

LEMMA DocsWritten ==
  ASSUME NEW w, DraftOK(w), NEW rows, DOMAIN rows \subseteq Docs,
         \A x \in DOMAIN rows : rows[x] \in {"live", "gone"},
         NEW v, v = [w EXCEPT !.docs = Overlay(@, rows)]
  PROVE  /\ DraftOK(v) /\ v.docs = Overlay(w.docs, rows)
         /\ v.blocks = w.blocks /\ v.refs = w.refs /\ v.revisions = w.revisions
  <1>1. /\ DOMAIN w = {"docs", "blocks", "refs", "revisions"}
        /\ w = [docs |-> w.docs, blocks |-> w.blocks, refs |-> w.refs, revisions |-> w.revisions]
    BY DEF DraftOK
  <1>2. /\ DOMAIN Overlay(w.docs, rows) \subseteq Docs
        /\ \A x \in DOMAIN Overlay(w.docs, rows) : Overlay(w.docs, rows)[x] \in {"live", "gone"}
    BY DEF DraftOK, Overlay
  <1>3. v = [docs |-> Overlay(w.docs, rows), blocks |-> w.blocks, refs |-> w.refs,
             revisions |-> w.revisions]
    BY <1>1
  <1> QED BY <1>2, <1>3 DEF DraftOK

LEMMA BlocksWritten ==
  ASSUME NEW w, DraftOK(w), NEW rows, DOMAIN rows \subseteq Blocks,
         \A x \in DOMAIN rows : rows[x] \in Row,
         NEW v, v = [w EXCEPT !.blocks = Overlay(@, rows)]
  PROVE  /\ DraftOK(v) /\ v.blocks = Overlay(w.blocks, rows)
         /\ v.docs = w.docs /\ v.refs = w.refs /\ v.revisions = w.revisions
  <1>1. /\ DOMAIN w = {"docs", "blocks", "refs", "revisions"}
        /\ w = [docs |-> w.docs, blocks |-> w.blocks, refs |-> w.refs, revisions |-> w.revisions]
    BY DEF DraftOK
  <1>2. /\ DOMAIN Overlay(w.blocks, rows) \subseteq Blocks
        /\ \A x \in DOMAIN Overlay(w.blocks, rows) : Overlay(w.blocks, rows)[x] \in Row
    BY DEF DraftOK, Overlay
  <1>3. v = [docs |-> w.docs, blocks |-> Overlay(w.blocks, rows), refs |-> w.refs,
             revisions |-> w.revisions]
    BY <1>1
  <1> QED BY <1>2, <1>3 DEF DraftOK

LEMMA RefsWritten ==
  ASSUME NEW w, DraftOK(w), NEW rows, DOMAIN rows \subseteq Pairs,
         \A x \in DOMAIN rows : rows[x] \in BOOLEAN,
         NEW v, v = [w EXCEPT !.refs = Overlay(@, rows)]
  PROVE  /\ DraftOK(v) /\ v.refs = Overlay(w.refs, rows)
         /\ v.docs = w.docs /\ v.blocks = w.blocks /\ v.revisions = w.revisions
  <1>1. /\ DOMAIN w = {"docs", "blocks", "refs", "revisions"}
        /\ w = [docs |-> w.docs, blocks |-> w.blocks, refs |-> w.refs, revisions |-> w.revisions]
    BY DEF DraftOK
  <1>2. /\ DOMAIN Overlay(w.refs, rows) \subseteq Pairs
        /\ \A x \in DOMAIN Overlay(w.refs, rows) : Overlay(w.refs, rows)[x] \in BOOLEAN
    BY DEF DraftOK, Overlay
  <1>3. v = [docs |-> w.docs, blocks |-> w.blocks, refs |-> Overlay(w.refs, rows),
             revisions |-> w.revisions]
    BY <1>1
  <1> QED BY <1>2, <1>3 DEF DraftOK

LEMMA RowState ==
  ASSUME NEW r \in Row, NEW s \in {"live", "deleted", "gone"}
  PROVE  /\ [r EXCEPT !.state = s] \in Row /\ [r EXCEPT !.state = s].state = s
         /\ [r EXCEPT !.state = s].doc = r.doc /\ [r EXCEPT !.state = s].mention = r.mention
  BY DEF Row

(* A step of one request.                                                  *)
LEMMA TypeFrame ==
  ASSUME TypeInvariant, NEW t \in Requests, NEW next \in Places,
         db' = db \/ (db'.docs \in [Docs -> {"absent", "live", "gone"}]
                       /\ db'.blocks \in [Blocks -> Row] /\ db'.refs \in [Pairs -> BOOLEAN]
                       /\ db'.revisions \subseteq Docs \X Seq(Node)),
         yjs' = yjs, edits' = edits, astray' \subseteq Docs,
         editor' \in [Docs -> [open : BOOLEAN, tree : Seq(Node), dirty : BOOLEAN, saving : BOOLEAN]],
         Goto(t, next), OnlyDraft(t), DraftOK(draft'[t]), Control(t)',
         call' \in [Requests -> Call \cup {NoCall}],
         todo' \in [Requests -> Seq(Node)], listed' \in [Requests -> Seq(Node)],
         DOMAIN scanned' = Requests,
         scanned'[t] \subseteq Blocks \/ scanned'[t] \subseteq Pairs,
         \A u \in Requests \ {t} : /\ call'[u] = call[u] /\ todo'[u] = todo[u]
                                   /\ listed'[u] = listed[u] /\ scanned'[u] = scanned[u]
  PROVE  TypeInvariant'
  <1>1. /\ pc' \in [Requests -> Places] /\ \A u \in Requests \ {t} : pc'[u] = pc[u]
    BY DEF Goto, TypeInvariant, TypeOK, Places
  <1>2. \A u \in Requests \ {t} : Control(u)' /\ DraftOK(draft'[u])
    <2> SUFFICES ASSUME NEW u \in Requests \ {t}
                 PROVE  Control(u)' /\ DraftOK(draft'[u])
      OBVIOUS
    <2>1. /\ pc'[u] = pc[u] /\ call'[u] = call[u] /\ todo'[u] = todo[u]
          /\ scanned'[u] = scanned[u] /\ draft'[u] = draft[u]
      BY <1>1 DEF OnlyDraft
    <2>2. Control(u) /\ DraftOK(draft[u])
      BY DEF TypeInvariant
    <2> QED BY <2>1, <2>2 DEF Control, Early, Rebuilding
  <1>3. \A u \in Requests : DraftOK(draft'[u]) /\ Control(u)'
    BY <1>2
  <1>4. \A u \in Requests : /\ call'[u] \in Call \cup {NoCall} /\ todo'[u] \in Seq(Node)
                            /\ listed'[u] \in Seq(Node)
                            /\ scanned'[u] \subseteq Blocks \/ scanned'[u] \subseteq Pairs
                            /\ DOMAIN draft'[u].blocks \subseteq Blocks
                            /\ DOMAIN draft'[u].refs \subseteq Pairs
    BY <1>3 DEF TypeInvariant, TypeOK, DraftOK
  <1>5. /\ db'.docs \in [Docs -> {"absent", "live", "gone"}]
        /\ db'.blocks \in [Blocks -> Row] /\ db'.refs \in [Pairs -> BOOLEAN]
        /\ db'.revisions \subseteq Docs \X Seq(Node)
        /\ yjs' \in [Docs -> Seq(Node)] /\ edits' \in 0..MaxEdits
    BY DEF TypeInvariant, TypeOK
  <1>6. TypeOK'
    BY <1>1, <1>4, <1>5 DEF TypeOK, Places
  <1> QED BY <1>3, <1>6 DEF TypeInvariant, OnlyDraft

LEMMA TypeInit == Init => TypeInvariant
  <1> SUFFICES ASSUME Init PROVE TypeInvariant
    OBVIOUS
  <1> DEFINE has(b, d) == b \in BlocksOf(Initial[d])
             place(b, d) == CHOOSE i \in 1..Len(Initial[d]) : Initial[d][i].block = b
             home(b) == CHOOSE d \in DOMAIN Initial : has(b, d)
             anyDoc == CHOOSE d \in Docs : TRUE
  <1>1. anyDoc \in Docs
    BY DocumentAssumption
  <1>2. \A b \in Blocks : (\E d \in DOMAIN Initial : has(b, d)) =>
          /\ home(b) \in DOMAIN Initial /\ has(b, home(b))
          /\ place(b, home(b)) \in 1..Len(Initial[home(b)])
    BY DEF BlocksOf
  <1>3. \A d \in DOMAIN Initial : Initial[d] \in Seq(Node) /\ d \in Docs
    BY DocumentAssumption
  <1>4. \A b \in Blocks : (\E d \in DOMAIN Initial : has(b, d)) =>
          [doc |-> home(b), mention |-> Initial[home(b)][place(b, home(b))].mention,
           at |-> place(b, home(b)), state |-> "live"] \in Row
    <2> SUFFICES ASSUME NEW b \in Blocks, \E d \in DOMAIN Initial : has(b, d)
                 PROVE  [doc |-> home(b), mention |-> Initial[home(b)][place(b, home(b))].mention,
                         at |-> place(b, home(b)), state |-> "live"] \in Row
      OBVIOUS
    <2>1. home(b) \in Docs /\ Initial[home(b)] \in Seq(Node)
      BY <1>2, <1>3
    <2>2. place(b, home(b)) \in Nat /\ Initial[home(b)][place(b, home(b))] \in Node
      <3> DEFINE d == home(b)
                 i == place(b, home(b))
      <3>1. i \in 1..Len(Initial[d]) /\ Initial[d] \in Seq(Node)
        BY <1>2, <2>1
      <3> HIDE DEF d, i
      <3>2. i \in Nat /\ Initial[d][i] \in Node
        BY <3>1
      <3> QED BY <3>2 DEF d, i
    <2>3. Initial[home(b)][place(b, home(b))].mention \in Entities \cup {NoMention}
      BY <2>2 DEF Node
    <2> HIDE DEF home, place
    <2> QED BY <2>1, <2>2, <2>3 DEF Row
  <1>5. [doc |-> anyDoc, mention |-> NoMention, at |-> 0, state |-> "gone"] \in Row
    BY <1>1 DEF Row
  <1>6. db.blocks = [b \in Blocks |->
                       IF \E d \in DOMAIN Initial : has(b, d)
                         THEN [doc |-> home(b), mention |-> Initial[home(b)][place(b, home(b))].mention,
                               at |-> place(b, home(b)), state |-> "live"]
                         ELSE [doc |-> anyDoc, mention |-> NoMention, at |-> 0, state |-> "gone"]]
    BY DEF Init
  <1>7. db.blocks \in [Blocks -> Row]
    <2> HIDE DEF home, place, anyDoc, has
    <2> QED BY <1>4, <1>5, <1>6
  <1>8. /\ db.docs \in [Docs -> {"absent", "live", "gone"}] /\ db.refs \in [Pairs -> BOOLEAN]
        /\ db.revisions \subseteq Docs \X Seq(Node)
    BY DEF Init
  <1>9. /\ yjs \in [Docs -> Seq(Node)]
        /\ editor \in [Docs -> [open : BOOLEAN, tree : Seq(Node), dirty : BOOLEAN, saving : BOOLEAN]]
        /\ edits \in 0..MaxEdits /\ astray \subseteq Docs
    BY <1>3, DocumentAssumption DEF Init, Closed
  <1>10. /\ draft = [t \in Requests |-> Nothing] /\ pc = [t \in Requests |-> "new"]
         /\ call = [t \in Requests |-> NoCall] /\ todo = [t \in Requests |-> << >>]
         /\ scanned = [t \in Requests |-> {}] /\ listed = [t \in Requests |-> << >>]
    BY DEF Init
  <1>11. DraftOK(Nothing)
    BY DEF DraftOK, Nothing
  <1>12. \A t \in Requests : DraftOK(draft[t]) /\ Control(t)
    BY <1>10, <1>11 DEF Control, Early, Rebuilding
  <1>13. TypeOK
    BY <1>7, <1>8, <1>9, <1>10, <1>12 DEF TypeOK, DraftOK
  <1> QED BY <1>10, <1>12, <1>13 DEF TypeInvariant

(* A request that only reads, or whose write is known.                     *)
LEMMA ReadsTypes ==
  ASSUME TypeInvariant, NEW t \in Requests, Reads
  PROVE  /\ OnlyDraft(t) /\ DraftOK(draft'[t])
         /\ db' = db /\ yjs' = yjs /\ edits' = edits /\ astray' \subseteq Docs
         /\ editor' \in [Docs -> [open : BOOLEAN, tree : Seq(Node), dirty : BOOLEAN, saving : BOOLEAN]]
         /\ listed' \in [Requests -> Seq(Node)] /\ listed' = listed
  BY DEF Reads, Collab, OnlyDraft, TypeInvariant, TypeOK

(* What a request is about. *)
LEMMA CallTypes ==
  ASSUME TypeInvariant, NEW t \in Requests, pc[t] # "new"
  PROVE  /\ call[t] \in Call /\ Doc(t) \in Docs /\ call[t].tree \in Seq(Node)
         /\ Control(t) /\ DraftOK(draft[t]) /\ todo[t] \in Seq(Node)
  BY DEF TypeInvariant, Control, Call, Doc

LEMMA ReadingTypes ==
  ASSUME TypeInvariant, NEW t \in Requests, Get(t) \/ Scan(t) \/ ScanRefs(t) \/ DeadlockVictim(t)
  PROVE  TypeInvariant'
  <1>1. /\ Reads /\ call' = call /\ todo' = todo
        /\ DOMAIN scanned' = Requests /\ \A u \in Requests \ {t} : scanned'[u] = scanned[u]
    BY DEF Get, Scan, ScanRefs, DeadlockVictim, TypeInvariant
  <1>2. \A next \in Places : Goto(t, next) => pc'[t] = next
    BY DEF Goto, TypeInvariant, TypeOK
  <1>3. Control(t) /\ (scanned[t] \subseteq Blocks \/ scanned[t] \subseteq Pairs)
    BY DEF TypeInvariant, TypeOK
  <1>4. \E next \in Places :
          /\ Goto(t, next) /\ Control(t)'
          /\ scanned'[t] \subseteq Blocks \/ scanned'[t] \subseteq Pairs
    <2>1. CASE Get(t)
      <3>1. PICK next \in {"failed", "scan", "list", "revision", "drop"} :
              /\ Goto(t, next)
              /\ next = "scan" => call[t].kind = "put"
              /\ next = "list" => call[t].kind = "save"
              /\ next = "revision" => call[t].kind = "restore"
              /\ next = "drop" => call[t].kind = "delete"
        BY <1>3, <2>1 DEF Get, Control
      <3>2. pc[t] = "get" /\ pc'[t] = next /\ scanned' = scanned
        BY <1>2, <2>1, <3>1 DEF Get, Places
      <3> QED BY <1>1, <1>3, <3>1, <3>2 DEF Control, Early, Rebuilding, Places
    <2>2. CASE Scan(t)
      <3>1. scanned'[t] \subseteq Blocks
        BY <2>2 DEF Scan, Leaving, LiveBlocks, TypeInvariant
      <3>2. pc[t] = "scan" /\ Goto(t, "sweep") /\ pc'[t] = "sweep"
        BY <1>2, <2>2 DEF Scan, Places
      <3> QED BY <1>1, <1>3, <3>1, <3>2 DEF Control, Early, Rebuilding, Places
    <2>3. CASE ScanRefs(t)
      <3>1. scanned'[t] \subseteq Pairs
        BY <2>3 DEF ScanRefs, Rebuilt, DocRefs, TypeInvariant
      <3>2. pc[t] = "scan refs" /\ Goto(t, "clear") /\ pc'[t] = "clear"
        BY <1>2, <2>3 DEF ScanRefs, Places
      <3> QED BY <1>1, <1>3, <3>1, <3>2 DEF Control, Early, Rebuilding, Places
    <2>4. CASE DeadlockVictim(t)
      <3>1. Blockers(t) # {}
        BY <2>4 DEF DeadlockVictim, Deadlocked
      <3>2. pc[t] # "new"
        BY <3>1 DEF Blockers
      <3>3. Goto(t, "failed") /\ pc'[t] = "failed" /\ scanned' = scanned
        BY <1>2, <2>4 DEF DeadlockVictim, Places
      <3> QED BY <1>1, <1>3, <3>2, <3>3 DEF Control, Early, Rebuilding, Places
    <2> QED BY <2>1, <2>2, <2>3, <2>4
  <1> QED BY <1>1, <1>4, ReadsTypes, TypeFrame DEF TypeInvariant

LEMMA ReceiveTypes ==
  ASSUME TypeInvariant, NEW t \in Requests, Receive(t)
  PROVE  TypeInvariant'
  <1>1. PICK c \in Calls :
          /\ pc[t] = "new" /\ call' = [call EXCEPT ![t] = c] /\ todo' = [todo EXCEPT ![t] = c.tree]
          /\ Goto(t, IF c.kind = "upload" THEN "create" ELSE "get")
          /\ Reads /\ UNCHANGED scanned
    BY DEF Receive
  <1>2. c \in Call /\ c.kind # "project" /\ c.tree \in Seq(Node)
    BY DocumentAssumption DEF Call
  <1>3. /\ call' \in [Requests -> Call \cup {NoCall}] /\ todo' \in [Requests -> Seq(Node)]
        /\ call'[t] = c /\ todo'[t] = c.tree
        /\ \A u \in Requests \ {t} : call'[u] = call[u] /\ todo'[u] = todo[u]
    BY <1>1, <1>2 DEF TypeInvariant
  <1>4. PICK next \in {"create", "get"} : Goto(t, next) /\ (next = "create" <=> c.kind = "upload")
    BY <1>1
  <1>5. pc'[t] = next
    BY <1>4 DEF Goto, TypeInvariant, TypeOK
  <1>6. Control(t)'
    BY <1>1, <1>2, <1>3, <1>4, <1>5 DEF Control, Early, Rebuilding, Call
  <1>7. scanned' = scanned /\ (scanned[t] \subseteq Blocks \/ scanned[t] \subseteq Pairs)
    BY <1>1 DEF TypeInvariant, TypeOK
  <1> QED BY <1>1, <1>3, <1>4, <1>6, <1>7, ReadsTypes, TypeFrame DEF TypeInvariant, Places

(* A statement that writes rows of one table.                              *)
LEMMA WriteTypes ==
  ASSUME TypeInvariant, NEW t \in Requests,
         UNCHANGED <<db, Collab, astray, call, listed>>,
         todo' \in [Requests -> Seq(Node)], \A u \in Requests \ {t} : todo'[u] = todo[u],
         scanned' = scanned \/ scanned' = [scanned EXCEPT ![t] = {}],
         OnlyDraft(t), DraftOK(draft'[t]),
         NEW next \in Places, Goto(t, next), pc'[t] = next => Control(t)'
  PROVE  TypeInvariant'
  <1>1. pc'[t] = next
    BY DEF Goto, TypeInvariant, TypeOK
  <1>2. /\ DOMAIN scanned' = Requests /\ \A u \in Requests \ {t} : scanned'[u] = scanned[u]
        /\ scanned'[t] \subseteq Blocks \/ scanned'[t] \subseteq Pairs
    BY DEF TypeInvariant, TypeOK
  <1>3. /\ yjs' = yjs /\ edits' = edits /\ astray' \subseteq Docs
        /\ editor' \in [Docs -> [open : BOOLEAN, tree : Seq(Node), dirty : BOOLEAN, saving : BOOLEAN]]
        /\ call' \in [Requests -> Call \cup {NoCall}] /\ listed' \in [Requests -> Seq(Node)]
    BY DEF Collab, TypeInvariant, TypeOK
  <1> QED BY <1>1, <1>2, <1>3, TypeFrame

(* The statements that write, one by one: the draft after them.            *)
LEMMA CreateWrites ==
  ASSUME TypeInvariant, NEW t \in Requests, Create(t)
  PROVE  /\ pc[t] = "create" /\ pc'[t] = "scan" /\ OnlyDraft(t) /\ DraftOK(draft'[t])
         /\ draft'[t].docs = Overlay(draft[t].docs, [d \in {Doc(t)} |-> "live"])
         /\ draft'[t].blocks = draft[t].blocks /\ draft'[t].refs = draft[t].refs
         /\ draft'[t].revisions = draft[t].revisions
  <1>1. Writes(t, "docs", [d \in {Doc(t)} |-> "live"]) /\ pc[t] = "create" /\ Goto(t, "scan")
    BY DEF Create
  <1>2. Doc(t) \in Docs /\ DraftOK(draft[t])
    BY <1>1, CallTypes
  <1>3. /\ DOMAIN [d \in {Doc(t)} |-> "live"] \subseteq Docs
        /\ \A e \in DOMAIN [d \in {Doc(t)} |-> "live"] : [d \in {Doc(t)} |-> "live"][e] \in {"live", "gone"}
    BY <1>2
  <1>4. OnlyDraft(t) /\ draft'[t] = [draft[t] EXCEPT !.docs = Overlay(@, [d \in {Doc(t)} |-> "live"])]
    BY <1>1, WritesOne
  <1>5. pc'[t] = "scan"
    BY <1>1 DEF Goto, TypeInvariant, TypeOK
  <1> HIDE DEF Create
  <1> QED BY <1>1, <1>2, <1>3, <1>4, <1>5, DocsWritten

LEMMA SweepWrites ==
  ASSUME TypeInvariant, NEW t \in Requests, Sweep(t)
  PROVE  \E rows :
           /\ pc[t] = "sweep" /\ Blockers(t) = {} /\ OnlyDraft(t) /\ DraftOK(draft'[t])
           /\ draft'[t].blocks = Overlay(draft[t].blocks, rows)
           /\ draft'[t].docs = draft[t].docs /\ draft'[t].refs = draft[t].refs
           /\ draft'[t].revisions = draft[t].revisions
           /\ DOMAIN rows = scanned[t] \cap LiveBlocks(View(t), Doc(t))
           /\ \A b \in DOMAIN rows : rows[b] = [View(t).blocks[b] EXCEPT !.state = "deleted"]
           /\ pc'[t] = IF todo[t] = << >> THEN "scan refs" ELSE "upsert"
  <1> DEFINE rows == [b \in scanned[t] \cap LiveBlocks(View(t), Doc(t)) |->
                        [View(t).blocks[b] EXCEPT !.state = "deleted"]]
  <1>1. /\ pc[t] = "sweep" /\ Blockers(t) = {} /\ Writes(t, "blocks", rows)
        /\ Goto(t, IF todo[t] = << >> THEN "scan refs" ELSE "upsert")
    BY DEF Sweep
  <1>2. DraftOK(draft[t])
    BY DEF TypeInvariant
  <1>3. DOMAIN rows \subseteq Blocks
    BY DEF LiveBlocks
  <1>4. \A b \in DOMAIN rows : rows[b] \in Row
    <2> SUFFICES ASSUME NEW b \in DOMAIN rows PROVE rows[b] \in Row
      OBVIOUS
    <2>1. View(t).blocks[b] \in Row
      BY <1>3, ViewTypes
    <2> QED BY <2>1, RowState
  <1>5. pc'[t] = IF todo[t] = << >> THEN "scan refs" ELSE "upsert"
    BY <1>1 DEF Goto, TypeInvariant, TypeOK
  <1>6. /\ DOMAIN rows = scanned[t] \cap LiveBlocks(View(t), Doc(t))
        /\ \A b \in DOMAIN rows : rows[b] = [View(t).blocks[b] EXCEPT !.state = "deleted"]
    OBVIOUS
  <1> HIDE DEF rows
  <1>7. OnlyDraft(t) /\ draft'[t] = [draft[t] EXCEPT !.blocks = Overlay(@, rows)]
    BY <1>1, WritesOne
  <1>8. /\ DraftOK(draft'[t]) /\ draft'[t].blocks = Overlay(draft[t].blocks, rows)
        /\ draft'[t].docs = draft[t].docs /\ draft'[t].refs = draft[t].refs
        /\ draft'[t].revisions = draft[t].revisions
    BY <1>2, <1>3, <1>4, <1>7, BlocksWritten
  <1> QED BY <1>1, <1>5, <1>6, <1>7, <1>8

LEMMA UpsertWrites ==
  ASSUME TypeInvariant, NEW t \in Requests, Upsert(t), pc'[t] # "failed"
  PROVE  LET node == todo[t][1]
             row == View(t).blocks[node.block]
         IN /\ pc[t] = "upsert" /\ Blockers(t) = {} /\ OnlyDraft(t) /\ DraftOK(draft'[t])
            /\ draft'[t].docs = draft[t].docs /\ draft'[t].refs = draft[t].refs
            /\ draft'[t].revisions = draft[t].revisions
            /\ DOMAIN draft'[t].blocks = DOMAIN draft[t].blocks \cup {node.block}
            /\ \A b \in DOMAIN draft[t].blocks \ {node.block} : draft'[t].blocks[b] = draft[t].blocks[b]
            /\ draft'[t].blocks[node.block].state = "live"
            /\ draft'[t].blocks[node.block].mention = node.mention
            /\ draft'[t].blocks[node.block].doc = IF row.state = "gone" THEN Doc(t) ELSE row.doc
            /\ todo' = [todo EXCEPT ![t] = Tail(@)]
            /\ pc'[t] = IF Len(todo[t]) = 1 THEN "scan refs" ELSE "upsert"
            /\ node \in Node
  <1> DEFINE node == todo[t][1]
             row == View(t).blocks[node.block]
             new == row.state = "gone"
             put == [doc |-> IF new THEN Doc(t) ELSE row.doc, mention |-> node.mention,
                     at |-> 1 + Len(call[t].tree) - Len(todo[t]), state |-> "live"]
             rows == [b \in {node.block} |-> put]
  <1>1. /\ pc[t] = "upsert" /\ Blockers(t) = {}
        /\ \/ Goto(t, "failed")
           \/ /\ Writes(t, "blocks", rows) /\ todo' = [todo EXCEPT ![t] = Tail(@)]
              /\ Goto(t, IF Len(todo[t]) = 1 THEN "scan refs" ELSE "upsert")
    BY DEF Upsert
  <1>2. ~Goto(t, "failed")
    BY DEF Goto, TypeInvariant, TypeOK
  <1>3. pc'[t] = IF Len(todo[t]) = 1 THEN "scan refs" ELSE "upsert"
    BY <1>1, <1>2 DEF Goto, TypeInvariant, TypeOK
  <1>4. /\ todo[t] \in Seq(Node) /\ todo[t] # << >> /\ Len(todo[t]) <= Len(call[t].tree)
        /\ call[t].tree \in Seq(Node) /\ Doc(t) \in Docs /\ DraftOK(draft[t])
    BY <1>1, CallTypes DEF Control
  <1>5. node \in Node /\ node.block \in Blocks
    <2>1. Len(todo[t]) \in Nat /\ Len(todo[t]) # 0
      BY <1>4
    <2>2. 1 \in 1..Len(todo[t])
      BY <2>1
    <2>3. todo[t][1] \in Node
      BY <1>4, <2>2
    <2> QED BY <2>3 DEF Node
  <1>6. row \in Row
    BY <1>5, ViewTypes
  <1>7. put \in Row
    <2>1. 1 + Len(call[t].tree) - Len(todo[t]) \in Nat
      BY <1>4
    <2>2. node.mention \in Entities \cup {NoMention} /\ row.doc \in Docs
      BY <1>5, <1>6 DEF Node, Row
    <2> HIDE DEF node, row, new
    <2> QED BY <1>4, <2>1, <2>2 DEF Row
  <1>8. put.state = "live" /\ put.mention = node.mention /\ put.doc = IF new THEN Doc(t) ELSE row.doc
    OBVIOUS
  <1> HIDE DEF put
  <1>9. DOMAIN rows = {node.block} /\ rows[node.block] = put
    OBVIOUS
  <1>10. Writes(t, "blocks", rows) /\ todo' = [todo EXCEPT ![t] = Tail(@)]
    BY <1>1, <1>2
  <1> HIDE DEF rows
  <1>11. OnlyDraft(t) /\ draft'[t] = [draft[t] EXCEPT !.blocks = Overlay(@, rows)]
    BY <1>10, WritesOne
  <1>12. /\ DraftOK(draft'[t]) /\ draft'[t].blocks = Overlay(draft[t].blocks, rows)
         /\ draft'[t].docs = draft[t].docs /\ draft'[t].refs = draft[t].refs
         /\ draft'[t].revisions = draft[t].revisions
    BY <1>4, <1>5, <1>7, <1>9, <1>11, BlocksWritten
  <1>13. /\ DOMAIN draft'[t].blocks = DOMAIN draft[t].blocks \cup {node.block}
         /\ draft'[t].blocks[node.block] = put
         /\ \A b \in DOMAIN draft[t].blocks \ {node.block} : draft'[t].blocks[b] = draft[t].blocks[b]
    BY <1>9, <1>12 DEF Overlay
  <1> QED BY <1>1, <1>3, <1>5, <1>8, <1>10, <1>11, <1>12, <1>13

LEMMA ClearWrites ==
  ASSUME TypeInvariant, NEW t \in Requests, Clear(t)
  PROVE  /\ pc[t] = "clear" /\ OnlyDraft(t) /\ DraftOK(draft'[t])
         /\ pc'[t] \in {"refer", "failed"} /\ (call[t].kind = "project" => pc'[t] = "refer")
         /\ draft'[t].docs = draft[t].docs /\ draft'[t].blocks = draft[t].blocks
         /\ draft'[t].revisions = draft[t].revisions
         /\ DOMAIN draft'[t].refs = DOMAIN draft[t].refs \cup scanned[t]
         /\ \A p \in scanned[t] : ~draft'[t].refs[p]
         /\ \A p \in DOMAIN draft[t].refs \ scanned[t] : draft'[t].refs[p] = draft[t].refs[p]
  <1> DEFINE rows == [p \in scanned[t] |-> FALSE]
             next == IF View(t).docs[Doc(t)] = "live" \/ call[t].kind = "project" THEN "refer" ELSE "failed"
  <1>1. pc[t] = "clear" /\ Writes(t, "refs", rows) /\ Goto(t, next)
    BY DEF Clear
  <1>2. DraftOK(draft[t]) /\ scanned[t] \subseteq Pairs
    BY <1>1 DEF TypeInvariant, Control
  <1>3. pc'[t] = next
    BY <1>1 DEF Goto, TypeInvariant, TypeOK
  <1>4. /\ DOMAIN rows = scanned[t] /\ \A p \in scanned[t] : rows[p] = FALSE
        /\ \A p \in DOMAIN rows : rows[p] \in BOOLEAN
    OBVIOUS
  <1> HIDE DEF rows
  <1>5. OnlyDraft(t) /\ draft'[t] = [draft[t] EXCEPT !.refs = Overlay(@, rows)]
    BY <1>1, WritesOne
  <1>6. /\ DraftOK(draft'[t]) /\ draft'[t].refs = Overlay(draft[t].refs, rows)
        /\ draft'[t].docs = draft[t].docs /\ draft'[t].blocks = draft[t].blocks
        /\ draft'[t].revisions = draft[t].revisions
    BY <1>2, <1>4, <1>5, RefsWritten
  <1> QED BY <1>1, <1>3, <1>4, <1>5, <1>6 DEF Overlay

LEMMA ReferWrites ==
  ASSUME TypeInvariant, NEW t \in Requests, Refer(t), pc'[t] # "failed"
  PROVE  LET pairs == MentionsOf(call[t].tree)
         IN /\ pc[t] = "refer" /\ OnlyDraft(t) /\ DraftOK(draft'[t]) /\ pc'[t] = "done"
            /\ draft'[t].docs = draft[t].docs /\ draft'[t].blocks = draft[t].blocks
            /\ draft'[t].revisions = draft[t].revisions
            /\ DOMAIN draft'[t].refs = DOMAIN draft[t].refs \cup pairs
            /\ \A p \in pairs : draft'[t].refs[p]
            /\ \A p \in DOMAIN draft[t].refs \ pairs : draft'[t].refs[p] = draft[t].refs[p]
            /\ pairs \subseteq Pairs
  <1> DEFINE pairs == MentionsOf(call[t].tree)
             rows == [p \in pairs |-> TRUE]
  <1>1. pc[t] = "refer" /\ Writes(t, "refs", rows) /\ Goto(t, "done")
    BY DEF Refer, Goto, TypeInvariant, TypeOK
  <1>2. DraftOK(draft[t]) /\ call[t].tree \in Seq(Node)
    BY <1>1, CallTypes
  <1>3. pc'[t] = "done"
    BY <1>1 DEF Goto, TypeInvariant, TypeOK
  <1>4. pairs \subseteq Pairs
    <2>1. \A i \in 1..Len(call[t].tree) : call[t].tree[i] \in Node
      BY <1>2
    <2> QED BY <2>1 DEF MentionsOf, Pairs, Node
  <1> HIDE DEF pairs
  <1>5. /\ DOMAIN rows = pairs /\ \A p \in pairs : rows[p] = TRUE
        /\ \A p \in DOMAIN rows : rows[p] \in BOOLEAN
    OBVIOUS
  <1> HIDE DEF rows
  <1>6. OnlyDraft(t) /\ draft'[t] = [draft[t] EXCEPT !.refs = Overlay(@, rows)]
    BY <1>1, WritesOne
  <1>7. /\ DraftOK(draft'[t]) /\ draft'[t].refs = Overlay(draft[t].refs, rows)
        /\ draft'[t].docs = draft[t].docs /\ draft'[t].blocks = draft[t].blocks
        /\ draft'[t].revisions = draft[t].revisions
    BY <1>2, <1>4, <1>5, <1>6, RefsWritten
  <1>8. /\ DOMAIN draft'[t].refs = DOMAIN draft[t].refs \cup pairs
        /\ \A p \in pairs : draft'[t].refs[p]
        /\ \A p \in DOMAIN draft[t].refs \ pairs : draft'[t].refs[p] = draft[t].refs[p]
    BY <1>5, <1>7 DEF Overlay
  <1> QED BY <1>1, <1>3, <1>4, <1>6, <1>7, <1>8 DEF pairs

(* The deletion of a document: first its row, then what goes with it.      *)
LEMMA DropWrites ==
  ASSUME TypeInvariant, NEW t \in Requests, Drop(t)
  PROVE  /\ pc[t] = "drop" /\ pc'[t] \in {"done", "cascade"} /\ OnlyDraft(t) /\ DraftOK(draft'[t])
         /\ draft'[t].blocks = draft[t].blocks /\ draft'[t].refs = draft[t].refs
         /\ draft'[t].revisions = draft[t].revisions
         /\ pc'[t] = "done" => draft'[t].docs = draft[t].docs
         /\ pc'[t] = "cascade" =>
              draft'[t].docs = Overlay(draft[t].docs, [d \in {Doc(t)} |-> "gone"])
  <1> DEFINE rows == [d \in {Doc(t)} |-> "gone"]
  <1>1. /\ pc[t] = "drop"
        /\ \/ Goto(t, "done") /\ draft' = draft
           \/ Goto(t, "cascade") /\ Writes(t, "docs", rows)
    BY DEF Drop
  <1>2. Doc(t) \in Docs /\ DraftOK(draft[t]) /\ DOMAIN draft = Requests
    BY <1>1, CallTypes DEF TypeInvariant
  <1>3. CASE Goto(t, "done") /\ draft' = draft
    <2>1. pc'[t] = "done"
      BY <1>3 DEF Goto, TypeInvariant, TypeOK
    <2> QED BY <1>1, <1>2, <1>3, <2>1 DEF OnlyDraft
  <1>4. CASE Goto(t, "cascade") /\ Writes(t, "docs", rows)
    <2>1. pc'[t] = "cascade"
      BY <1>4 DEF Goto, TypeInvariant, TypeOK
    <2>2. DOMAIN rows \subseteq Docs /\ \A d \in DOMAIN rows : rows[d] \in {"live", "gone"}
      BY <1>2
    <2> HIDE DEF rows
    <2>3. OnlyDraft(t) /\ draft'[t] = [draft[t] EXCEPT !.docs = Overlay(@, rows)]
      BY <1>4, WritesOne
    <2>4. /\ DraftOK(draft'[t]) /\ draft'[t].docs = Overlay(draft[t].docs, rows)
          /\ draft'[t].blocks = draft[t].blocks /\ draft'[t].refs = draft[t].refs
          /\ draft'[t].revisions = draft[t].revisions
      BY <1>2, <2>2, <2>3, DocsWritten
    <2> QED BY <1>1, <2>1, <2>3, <2>4 DEF rows
  <1> QED BY <1>1, <1>3, <1>4

LEMMA CascadeWrites ==
  ASSUME TypeInvariant, NEW t \in Requests, Cascade(t)
  PROVE  LET gone == DocRows(View(t), Doc(t))
             refs == DocRefs(View(t), Doc(t))
         IN /\ pc[t] = "cascade" /\ pc'[t] = "done" /\ Blockers(t) = {}
            /\ OnlyDraft(t) /\ DraftOK(draft'[t])
            /\ draft'[t].docs = draft[t].docs /\ draft'[t].revisions = draft[t].revisions
            /\ DOMAIN draft'[t].blocks = DOMAIN draft[t].blocks \cup gone
            /\ \A b \in gone : /\ draft'[t].blocks[b].state = "gone"
                               /\ draft'[t].blocks[b].doc = View(t).blocks[b].doc
            /\ \A b \in DOMAIN draft[t].blocks \ gone : draft'[t].blocks[b] = draft[t].blocks[b]
            /\ DOMAIN draft'[t].refs = DOMAIN draft[t].refs \cup refs
            /\ \A p \in refs : ~draft'[t].refs[p]
            /\ \A p \in DOMAIN draft[t].refs \ refs : draft'[t].refs[p] = draft[t].refs[p]
  <1> DEFINE gone == DocRows(View(t), Doc(t))
             refs == DocRefs(View(t), Doc(t))
             rows == [b \in gone |-> [View(t).blocks[b] EXCEPT !.state = "gone"]]
             none == [p \in refs |-> FALSE]
             w    == draft[t]
  <1>1. /\ pc[t] = "cascade" /\ Blockers(t) = {} /\ Goto(t, "done")
        /\ draft' = [draft EXCEPT ![t].blocks = Overlay(@, rows), ![t].refs = Overlay(@, none)]
    BY DEF Cascade
  <1>2. DraftOK(w) /\ DOMAIN draft = Requests
    BY DEF TypeInvariant
  <1>3. pc'[t] = "done"
    BY <1>1 DEF Goto, TypeInvariant, TypeOK
  <1>4. gone \subseteq Blocks /\ refs \subseteq Pairs
    BY DEF DocRows, DocRefs
  <1>5. \A b \in gone : /\ rows[b] \in Row /\ rows[b].state = "gone"
                        /\ rows[b].doc = View(t).blocks[b].doc
    <2> SUFFICES ASSUME NEW b \in gone
                 PROVE  /\ rows[b] \in Row /\ rows[b].state = "gone"
                        /\ rows[b].doc = View(t).blocks[b].doc
      OBVIOUS
    <2>1. View(t).blocks[b] \in Row
      BY <1>4, ViewTypes
    <2> HIDE DEF gone
    <2> QED BY <2>1, RowState
  <1>6. /\ DOMAIN rows = gone /\ DOMAIN none = refs /\ \A p \in refs : none[p] = FALSE
        /\ \A p \in DOMAIN none : none[p] \in BOOLEAN
    OBVIOUS
  <1> HIDE DEF rows, none, gone, refs
  <1> DEFINE v == [w EXCEPT !.blocks = Overlay(@, rows)]
  <1>7. /\ DraftOK(v) /\ v.blocks = Overlay(w.blocks, rows)
        /\ v.docs = w.docs /\ v.refs = w.refs /\ v.revisions = w.revisions
    BY <1>2, <1>4, <1>5, <1>6, BlocksWritten
  <1>8. OnlyDraft(t) /\ draft'[t] = [v EXCEPT !.refs = Overlay(@, none)]
    BY <1>1, <1>2 DEF OnlyDraft
  <1> HIDE DEF v
  <1>9. /\ DraftOK(draft'[t]) /\ draft'[t].refs = Overlay(v.refs, none)
        /\ draft'[t].docs = v.docs /\ draft'[t].blocks = v.blocks
        /\ draft'[t].revisions = v.revisions
    BY <1>4, <1>6, <1>7, <1>8, RefsWritten
  <1>10. /\ DOMAIN draft'[t].blocks = DOMAIN w.blocks \cup gone
         /\ \A b \in gone : draft'[t].blocks[b] = rows[b]
         /\ \A b \in DOMAIN w.blocks \ gone : draft'[t].blocks[b] = w.blocks[b]
    BY <1>6, <1>7, <1>9 DEF Overlay
  <1>11. /\ DOMAIN draft'[t].refs = DOMAIN w.refs \cup refs
         /\ \A p \in refs : ~draft'[t].refs[p]
         /\ \A p \in DOMAIN w.refs \ refs : draft'[t].refs[p] = w.refs[p]
    BY <1>6, <1>7, <1>9 DEF Overlay
  <1> QED BY <1>1, <1>3, <1>5, <1>7, <1>8, <1>9, <1>10, <1>11 DEF gone, refs

(* The tree a revision is made of. *)
LEMMA ListingTypes ==
  ASSUME TypeInvariant, NEW t \in Requests, NEW d \in Docs, NEW tree \in Listings(View(t), d)
  PROVE  tree \in Seq(Node) /\ Plain(tree) /\ BlocksOf(tree) \subseteq LiveBlocks(View(t), d)
  <1> DEFINE live == LiveBlocks(View(t), d)
             n == Cardinality(live)
  <1>1. PICK o \in [1..n -> live] :
          tree = [i \in 1..n |-> [block |-> o[i], mention |-> View(t).blocks[o[i]].mention]]
    BY DEF Listings
  <1>2. live \subseteq Blocks
    BY DEF LiveBlocks
  <1>3. n \in Nat
    BY <1>2, DocumentAssumption, FS_Subset, FS_CardinalityType
  <1> HIDE DEF live, n
  <1>4. \A i \in 1..n : tree[i].block = o[i] /\ tree[i].mention = View(t).blocks[o[i]].mention
    BY <1>1
  <1>5. \A i \in 1..n : tree[i] \in Node
    <2> SUFFICES ASSUME NEW i \in 1..n PROVE tree[i] \in Node
      OBVIOUS
    <2>1. o[i] \in Blocks /\ View(t).blocks[o[i]] \in Row
      BY <1>2, ViewTypes
    <2> QED BY <1>1, <2>1 DEF Node, Row
  <1>6. tree \in Seq(Node) /\ Len(tree) = n
    <2>1. tree \in [1..n -> Node]
      BY <1>1, <1>5
    <2> QED BY <1>3, <2>1
  <1>7. Plain(tree)
    BY <1>4, <1>6 DEF Plain
  <1>8. BlocksOf(tree) \subseteq live
    BY <1>4, <1>6 DEF BlocksOf
  <1> QED BY <1>6, <1>7, <1>8 DEF live

(* Taking a snapshot. *)
LEMMA ListTypes ==
  ASSUME TypeInvariant, NEW t \in Requests, List(t)
  PROVE  /\ TypeInvariant'
         /\ pc[t] = "list" /\ pc'[t] = "stash" /\ Plain(listed'[t])
         /\ BlocksOf(listed'[t]) \subseteq LiveBlocks(View(t), Doc(t))
  <1>1. PICK tree \in Listings(View(t), Doc(t)) : listed' = [listed EXCEPT ![t] = tree]
    BY DEF List
  <1>2. /\ pc[t] = "list" /\ Goto(t, "stash")
        /\ UNCHANGED <<db, Collab, astray, call, todo, scanned, draft>>
    BY DEF List
  <1>3. Doc(t) \in Docs /\ Control(t) /\ DraftOK(draft[t])
    BY <1>2, CallTypes
  <1>4. /\ tree \in Seq(Node) /\ Plain(tree)
        /\ BlocksOf(tree) \subseteq LiveBlocks(View(t), Doc(t))
    BY <1>3, ListingTypes
  <1>5. /\ listed' \in [Requests -> Seq(Node)] /\ listed'[t] = tree
        /\ \A u \in Requests \ {t} : listed'[u] = listed[u]
    BY <1>1, <1>4 DEF TypeInvariant
  <1>6. pc'[t] = "stash"
    BY <1>2 DEF Goto, TypeInvariant, TypeOK
  <1>7. Control(t)'
    BY <1>2, <1>3, <1>6 DEF Control, Early, Rebuilding
  <1>8. TypeInvariant'
    BY <1>2, <1>3, <1>5, <1>7, TypeFrame DEF TypeInvariant, TypeOK, Collab, OnlyDraft, Places
  <1> QED BY <1>2, <1>4, <1>5, <1>6, <1>8

LEMMA StashWrites ==
  ASSUME TypeInvariant, NEW t \in Requests, Stash(t)
  PROVE  /\ TypeInvariant' /\ pc[t] = "stash" /\ OnlyDraft(t)
         /\ pc'[t] \in {"failed", "done", "scan"}
         /\ pc'[t] = "done" => call[t].kind = "save"
         /\ draft'[t].docs = draft[t].docs /\ draft'[t].blocks = draft[t].blocks
         /\ draft'[t].refs = draft[t].refs
         /\ draft'[t].revisions \subseteq draft[t].revisions \cup {<<Doc(t), listed[t]>>}
  <1> DEFINE w == draft[t]
             new == <<Doc(t), listed[t]>>
  <1>1. /\ pc[t] = "stash" /\ UNCHANGED <<db, Collab, astray, call, todo, scanned, listed>>
        /\ \/ Goto(t, "failed") /\ draft' = draft
           \/ /\ draft' = [draft EXCEPT ![t].revisions = @ \cup {new}]
              /\ Goto(t, IF call[t].kind = "save" THEN "done" ELSE "scan")
    BY DEF Stash
  <1>2. /\ DraftOK(w) /\ DOMAIN draft = Requests /\ Control(t)
        /\ new \in Docs \X Seq(Node) /\ call[t].kind \notin {"project", "delete"}
    BY <1>1, CallTypes DEF TypeInvariant, Control, Rebuilding
  <1>3. PICK next \in {"failed", "done", "scan"} :
          Goto(t, next) /\ (next = "done" => call[t].kind = "save") /\ (next = "scan" => call[t].kind # "save")
    BY <1>1
  <1>4. pc'[t] = next
    BY <1>3 DEF Goto, TypeInvariant, TypeOK
  <1> HIDE DEF new
  <1>5. \/ draft'[t] = w
        \/ draft'[t] = [docs |-> w.docs, blocks |-> w.blocks, refs |-> w.refs,
                        revisions |-> w.revisions \cup {new}]
    BY <1>1, <1>2 DEF DraftOK
  <1>6. OnlyDraft(t)
    BY <1>1, <1>2 DEF OnlyDraft
  <1>7. DraftOK(draft'[t])
    BY <1>2, <1>5 DEF DraftOK
  <1>8. Control(t)'
    BY <1>1, <1>2, <1>3, <1>4 DEF Control, Early, Rebuilding
  <1>9. TypeInvariant'
    BY <1>1, <1>3, <1>6, <1>7, <1>8, TypeFrame DEF TypeInvariant, TypeOK, Collab, Places
  <1> QED BY <1>1, <1>3, <1>4, <1>5, <1>6, <1>9 DEF new

(* What an upsert leaves of the nodes it has to do. *)
LEMMA TailFacts ==
  ASSUME NEW s \in Seq(Node), NEW tree \in Seq(Node), s # << >>, Len(s) <= Len(tree),
         \A k \in 1..Len(s) : s[k] = tree[Len(tree) - Len(s) + k]
  PROVE  /\ Len(s) \in Nat /\ Len(s) > 0 /\ Len(tree) \in Nat
         /\ Tail(s) \in Seq(Node) /\ Len(Tail(s)) = Len(s) - 1
         /\ Len(s) # 1 => Tail(s) # << >>
         /\ \A k \in 1..Len(Tail(s)) : Tail(s)[k] = tree[Len(tree) - Len(Tail(s)) + k]
  <1>1. Len(s) \in Nat /\ Len(tree) \in Nat
    OBVIOUS
  <1>2. Len(s) # 0
    BY EmptySeq
  <1>3. /\ Tail(s) \in Seq(Node) /\ Len(Tail(s)) = Len(s) - 1
        /\ \A k \in 1..Len(Tail(s)) : Tail(s)[k] = s[k + 1]
    BY HeadTailProperties
  <1>4. ASSUME Tail(s) = << >> PROVE Len(s) = 1
    <2>1. Len(Tail(s)) = 0
      BY <1>4, EmptySeq
    <2> QED BY <1>1, <1>3, <2>1
  <1>5. ASSUME NEW k \in 1..Len(Tail(s))
        PROVE  Tail(s)[k] = tree[Len(tree) - Len(Tail(s)) + k]
    <2>1. k + 1 \in 1..Len(s) /\ Tail(s)[k] = s[k + 1]
      BY <1>1, <1>3
    <2>2. Len(tree) - Len(Tail(s)) + k = Len(tree) - Len(s) + (k + 1)
      BY <1>1, <1>3
    <2> QED BY <2>1, <2>2
  <1> QED BY <1>1, <1>2, <1>3, <1>4, <1>5

LEMMA FirstToDo ==
  ASSUME NEW s \in Seq(Node), NEW tree \in Seq(Node), s # << >>, Len(s) <= Len(tree),
         \A k \in 1..Len(s) : s[k] = tree[Len(tree) - Len(s) + k]
  PROVE  s[1].block \in BlocksOf(tree)
  <1>1. Len(s) \in Nat /\ Len(s) > 0 /\ Len(tree) \in Nat
    BY TailFacts
  <1>2. 1 \in 1..Len(s) /\ Len(tree) - Len(s) + 1 \in 1..Len(tree)
    BY <1>1
  <1>3. s[1] = tree[Len(tree) - Len(s) + 1]
    BY <1>2
  <1> QED BY <1>2, <1>3 DEF BlocksOf

LEMMA AllToDo ==
  ASSUME NEW s \in Seq(Node), NEW tree, s = tree
  PROVE  /\ Len(s) <= Len(tree)
         /\ \A k \in 1..Len(s) : s[k] = tree[Len(tree) - Len(s) + k]
  <1>1. Len(s) \in Nat
    OBVIOUS
  <1>2. \A k \in 1..Len(s) : Len(s) - Len(s) + k = k
    BY <1>1
  <1> QED BY <1>1, <1>2

(* The statements that write keep the types. *)
LEMMA WritingTypes ==
  ASSUME TypeInvariant, NEW t \in Requests,
         \/ Create(t) \/ Sweep(t) \/ Upsert(t) \/ Clear(t) \/ Refer(t) \/ Drop(t) \/ Cascade(t)
  PROVE  TypeInvariant'
  <1>1. UNCHANGED <<db, Collab, astray, call, listed>>
    BY DEF Create, Sweep, Upsert, Clear, Refer, Drop, Cascade
  <1>2. Control(t)
    BY DEF TypeInvariant
  <1>3. /\ db' = db /\ yjs' = yjs /\ edits' = edits /\ astray' \subseteq Docs
        /\ editor' \in [Docs -> [open : BOOLEAN, tree : Seq(Node), dirty : BOOLEAN, saving : BOOLEAN]]
        /\ call' = call /\ call' \in [Requests -> Call \cup {NoCall}]
        /\ listed' = listed /\ listed' \in [Requests -> Seq(Node)]
    BY <1>1 DEF Collab, TypeInvariant, TypeOK
  <1>4. ASSUME NEW next \in Places, Goto(t, next), OnlyDraft(t), DraftOK(draft'[t]), Control(t)',
               todo' \in [Requests -> Seq(Node)], \A u \in Requests \ {t} : todo'[u] = todo[u],
               scanned' = scanned \/ scanned' = [scanned EXCEPT ![t] = {}]
        PROVE  TypeInvariant'
    <2>1. /\ DOMAIN scanned' = Requests /\ \A u \in Requests \ {t} : scanned'[u] = scanned[u]
          /\ scanned'[t] \subseteq Blocks \/ scanned'[t] \subseteq Pairs
      BY <1>4 DEF TypeInvariant, TypeOK
    <2> QED BY <1>3, <1>4, <2>1, TypeFrame
  <1>5. \A next \in Places : Goto(t, next) => pc'[t] = next
    BY DEF Goto, TypeInvariant, TypeOK
  <1>6. todo \in [Requests -> Seq(Node)]
    BY DEF TypeInvariant
  <1>7. CASE Create(t)
    <2>1. Goto(t, "scan") /\ todo' = todo /\ scanned' = scanned /\ pc[t] = "create" /\ pc'[t] = "scan"
      BY <1>5, <1>7 DEF Create, Places
    <2>2. Control(t)'
      BY <1>2, <1>3, <2>1 DEF Control, Early, Rebuilding
    <2> QED BY <1>4, <1>6, <1>7, <2>1, <2>2, CreateWrites DEF Places
  <1>8. CASE Sweep(t)
    <2>1. PICK next \in {"scan refs", "upsert"} :
            Goto(t, next) /\ (next = "scan refs" <=> todo[t] = << >>)
      BY <1>8 DEF Sweep
    <2>2. /\ pc[t] = "sweep" /\ pc'[t] = next /\ todo' = todo
          /\ scanned' = [scanned EXCEPT ![t] = {}]
      BY <1>5, <1>8, <2>1 DEF Sweep, Places
    <2>3. todo[t] = call[t].tree /\ todo[t] \in Seq(Node)
      BY <1>2, <1>6, <2>2 DEF Control, Early
    <2>4. /\ next = "upsert" => todo[t] # << >>
          /\ Len(todo[t]) <= Len(call[t].tree)
          /\ \A k \in 1..Len(todo[t]) :
               todo[t][k] = call[t].tree[Len(call[t].tree) - Len(todo[t]) + k]
      <3>1. next = "upsert" => todo[t] # << >>
        BY <2>1, Zenon
      <3> QED BY <2>3, <3>1, AllToDo, Zenon
    <2>5. Control(t)'
      BY <1>2, <1>3, <2>1, <2>2, <2>3, <2>4 DEF Control, Early, Rebuilding
    <2>6. OnlyDraft(t) /\ DraftOK(draft'[t])
      BY <1>8, SweepWrites
    <2> QED BY <1>4, <1>6, <2>1, <2>2, <2>5, <2>6 DEF Places
  <1>9. CASE Upsert(t)
    <2>1. pc[t] = "upsert" /\ scanned' = scanned /\ todo[t] \in Seq(Node) /\ call[t].tree \in Seq(Node)
      BY <1>9, CallTypes DEF Upsert
    <2>2. /\ todo[t] # << >> /\ Len(todo[t]) <= Len(call[t].tree)
          /\ \A k \in 1..Len(todo[t]) :
               todo[t][k] = call[t].tree[Len(call[t].tree) - Len(todo[t]) + k]
      BY <1>2, <2>1 DEF Control
    <2>3. CASE pc'[t] = "failed"
      <3>1. Goto(t, "failed") /\ todo' = todo /\ draft' = draft
        BY <1>5, <1>9, <2>3 DEF Upsert, Places
      <3>2. Control(t)'
        BY <1>2, <1>3, <2>1, <2>3, <3>1 DEF Control, Early, Rebuilding
      <3>3. OnlyDraft(t) /\ DraftOK(draft'[t])
        BY <3>1 DEF TypeInvariant, OnlyDraft
      <3> QED BY <1>4, <1>6, <2>1, <3>1, <3>2, <3>3 DEF Places
    <2>4. CASE pc'[t] # "failed"
      <3>1. PICK next \in {"scan refs", "upsert"} :
              Goto(t, next) /\ (next = "scan refs" <=> Len(todo[t]) = 1)
        BY <1>5, <1>9, <2>4 DEF Upsert, Places
      <3>2. todo' = [todo EXCEPT ![t] = Tail(@)] /\ pc'[t] = next
        BY <1>5, <1>9, <2>4, <3>1, UpsertWrites DEF Places
      <3>4. /\ Tail(todo[t]) \in Seq(Node) /\ Len(Tail(todo[t])) = Len(todo[t]) - 1
            /\ Len(todo[t]) \in Nat /\ Len(todo[t]) > 0
            /\ Len(todo[t]) # 1 => Tail(todo[t]) # << >>
            /\ \A k \in 1..Len(Tail(todo[t])) :
                 Tail(todo[t])[k] = call[t].tree[Len(call[t].tree) - Len(Tail(todo[t])) + k]
        BY <2>1, <2>2, TailFacts
      <3>5. next = "upsert" => Tail(todo[t]) # << >> /\ Len(Tail(todo[t])) <= Len(call[t].tree)
        <4>1. Len(call[t].tree) \in Nat
          BY <2>1, LenProperties
        <4> QED BY <2>2, <3>1, <3>4, <4>1
      <3>6. /\ todo' \in [Requests -> Seq(Node)] /\ todo'[t] = Tail(todo[t])
            /\ \A u \in Requests \ {t} : todo'[u] = todo[u]
        BY <1>6, <3>2, <3>4
      <3>7. Control(t)'
        BY <1>2, <1>3, <2>1, <3>1, <3>2, <3>4, <3>5, <3>6 DEF Control, Early, Rebuilding
      <3>8. OnlyDraft(t) /\ DraftOK(draft'[t])
        BY <1>9, <2>4, UpsertWrites
      <3> QED BY <1>4, <2>1, <3>1, <3>6, <3>7, <3>8 DEF Places
    <2> QED BY <2>3, <2>4
  <1>10. CASE Clear(t)
    <2>1. PICK next \in {"refer", "failed"} : Goto(t, next)
      BY <1>10 DEF Clear
    <2>2. /\ pc[t] = "clear" /\ pc'[t] = next /\ todo' = todo /\ scanned' = [scanned EXCEPT ![t] = {}]
      BY <1>5, <1>10, <2>1 DEF Clear, Places
    <2>3. Control(t)'
      BY <1>2, <1>3, <2>2 DEF Control, Early, Rebuilding
    <2>4. OnlyDraft(t) /\ DraftOK(draft'[t])
      BY <1>10, ClearWrites
    <2> QED BY <1>4, <1>6, <2>1, <2>2, <2>3, <2>4 DEF Places
  <1>11. CASE Refer(t)
    <2>1. PICK next \in {"done", "failed"} :
            Goto(t, next) /\ (next = "failed" => draft' = draft)
      BY <1>11 DEF Refer
    <2>2. pc[t] = "refer" /\ pc'[t] = next /\ todo' = todo /\ scanned' = scanned
      BY <1>5, <1>11, <2>1 DEF Refer, Places
    <2>3. Control(t)'
      BY <1>2, <1>3, <2>2 DEF Control, Early, Rebuilding
    <2>4. OnlyDraft(t) /\ DraftOK(draft'[t])
      BY <1>11, <2>1, <2>2, ReferWrites DEF TypeInvariant, OnlyDraft
    <2> QED BY <1>4, <1>6, <2>1, <2>2, <2>3, <2>4 DEF Places
  <1>12. CASE Drop(t)
    <2>1. PICK next \in {"done", "cascade"} : Goto(t, next)
      BY <1>12 DEF Drop
    <2>2. pc[t] = "drop" /\ pc'[t] = next /\ todo' = todo /\ scanned' = scanned
      BY <1>5, <1>12, <2>1 DEF Drop, Places
    <2>3. Control(t)'
      BY <1>2, <1>3, <2>2 DEF Control, Early, Rebuilding
    <2>4. OnlyDraft(t) /\ DraftOK(draft'[t])
      BY <1>12, DropWrites
    <2> QED BY <1>4, <1>6, <2>1, <2>2, <2>3, <2>4 DEF Places
  <1>13. CASE Cascade(t)
    <2>1. /\ Goto(t, "done") /\ pc[t] = "cascade" /\ pc'[t] = "done"
          /\ todo' = todo /\ scanned' = scanned
      BY <1>5, <1>13 DEF Cascade, Places
    <2>2. Control(t)'
      BY <1>2, <1>3, <2>1 DEF Control, Early, Rebuilding
    <2>3. OnlyDraft(t) /\ DraftOK(draft'[t])
      BY <1>13, CascadeWrites
    <2> QED BY <1>4, <1>6, <2>1, <2>2, <2>3 DEF Places
  <1> QED BY <1>7, <1>8, <1>9, <1>10, <1>11, <1>12, <1>13

LEMMA RevisionTypes ==
  ASSUME TypeInvariant, NEW t \in Requests, Revision(t)
  PROVE  /\ TypeInvariant' /\ pc[t] = "revision" /\ Reads /\ scanned' = scanned
         /\ pc'[t] \in {"list", "failed"} /\ \A u \in Requests \ {t} : call'[u] = call[u]
         /\ call'[t].kind = call[t].kind /\ Doc(t)' = Doc(t)
         /\ \/ call'[t].tree = call[t].tree
            \/ \E r \in View(t).revisions : r[1] = Doc(t) /\ call'[t].tree = r[2]
  <1>1. pc[t] = "revision" /\ Reads /\ scanned' = scanned
    BY DEF Revision
  <1>2. /\ call[t] \in Call /\ Control(t)
        /\ call[t] = [kind |-> call[t].kind, doc |-> call[t].doc, tree |-> call[t].tree]
    BY <1>1, CallTypes DEF Call
  <1>3. Control(t) /\ (scanned[t] \subseteq Blocks \/ scanned[t] \subseteq Pairs)
    BY DEF TypeInvariant, TypeOK
  <1>4. ASSUME NEW r \in View(t).revisions, r[1] = Doc(t),
               call' = [call EXCEPT ![t].tree = r[2]], todo' = [todo EXCEPT ![t] = r[2]],
               Goto(t, "list")
        PROVE  /\ TypeInvariant' /\ pc'[t] = "list" /\ \A u \in Requests \ {t} : call'[u] = call[u]
               /\ call'[t].kind = call[t].kind /\ Doc(t)' = Doc(t) /\ call'[t].tree = r[2]
    <2>1. r[2] \in Seq(Node)
      BY ViewTypes
    <2>2. pc'[t] = "list"
      BY <1>4 DEF Goto, TypeInvariant, TypeOK
    <2>3. /\ call'[t] = [kind |-> call[t].kind, doc |-> call[t].doc, tree |-> r[2]]
          /\ todo'[t] = r[2] /\ DOMAIN call' = Requests
          /\ \A u \in Requests \ {t} : call'[u] = call[u] /\ todo'[u] = todo[u]
          /\ todo' \in [Requests -> Seq(Node)]
      BY <1>2, <1>4, <2>1 DEF TypeInvariant
    <2>4. call'[t] \in Call /\ call' \in [Requests -> Call \cup {NoCall}]
      <3>1. call'[t] \in Call
        BY <1>2, <2>1, <2>3 DEF Call
      <3> QED BY <1>4, <2>3, <3>1 DEF TypeInvariant
    <2>5. Control(t)'
      BY <1>1, <1>3, <2>2, <2>3, <2>4 DEF Control, Early, Rebuilding
    <2>6. TypeInvariant'
      BY <1>1, <1>3, <1>4, <2>3, <2>4, <2>5, ReadsTypes, TypeFrame DEF TypeInvariant, Places
    <2> QED BY <2>2, <2>3, <2>6 DEF Doc
  <1>5. ASSUME Goto(t, "failed"), call' = call, todo' = todo
        PROVE  TypeInvariant' /\ pc'[t] = "failed"
    <2>1. pc'[t] = "failed"
      BY <1>5 DEF Goto, TypeInvariant, TypeOK
    <2>2. Control(t)'
      BY <1>1, <1>3, <1>5, <2>1 DEF Control, Early, Rebuilding
    <2> QED BY <1>1, <1>3, <1>5, <2>1, <2>2, ReadsTypes, TypeFrame DEF TypeInvariant, Places
  <1>6. \/ \E r \in View(t).revisions :
             /\ r[1] = Doc(t) /\ Goto(t, "list")
             /\ call' = [call EXCEPT ![t].tree = r[2]] /\ todo' = [todo EXCEPT ![t] = r[2]]
        \/ Goto(t, "failed") /\ call' = call /\ todo' = todo
    BY DEF Revision
  <1> QED BY <1>1, <1>4, <1>5, <1>6 DEF Doc

(* The end of a request. *)
LEMMA CloseTypes ==
  ASSUME TypeInvariant, NEW t \in Requests, pc[t] # "new", Close(t), astray' \subseteq Docs,
         db' = db \/ (db'.docs \in [Docs -> {"absent", "live", "gone"}]
                       /\ db'.blocks \in [Blocks -> Row] /\ db'.refs \in [Pairs -> BOOLEAN]
                       /\ db'.revisions \subseteq Docs \X Seq(Node))
  PROVE  /\ TypeInvariant' /\ pc'[t] = "ended" /\ OnlyDraft(t) /\ draft'[t] = Nothing
         /\ \A u \in Requests \ {t} : pc'[u] = pc[u]
         /\ \A d \in Docs : /\ editor'[d].tree = editor[d].tree /\ editor'[d].dirty = editor[d].dirty
                            /\ editor'[d].saving =>
                                 editor[d].saving /\ (call[t].kind # "project" \/ d # Doc(t))
                            /\ editor'[d].saving # editor[d].saving =>
                                 call[t].kind = "project" /\ d = Doc(t)
  <1>1. /\ Goto(t, "ended") /\ draft' = [draft EXCEPT ![t] = Nothing]
        /\ UNCHANGED <<yjs, edits, call, todo, scanned, listed>>
        /\ editor' = editor \/ editor' = [editor EXCEPT ![Doc(t)].saving = FALSE]
        /\ call[t].kind = "project" => editor' = [editor EXCEPT ![Doc(t)].saving = FALSE]
        /\ call[t].kind # "project" => editor' = editor
    BY DEF Close
  <1>2. Doc(t) \in Docs /\ Control(t)
    BY CallTypes
  <1>3. pc'[t] = "ended" /\ \A u \in Requests \ {t} : pc'[u] = pc[u]
    BY <1>1 DEF Goto, TypeInvariant, TypeOK
  <1>4. OnlyDraft(t) /\ draft'[t] = Nothing /\ DraftOK(Nothing)
    BY <1>1 DEF OnlyDraft, TypeInvariant, DraftOK, Nothing
  <1>5. editor \in [Docs -> [open : BOOLEAN, tree : Seq(Node), dirty : BOOLEAN, saving : BOOLEAN]]
    BY DEF TypeInvariant, TypeOK
  <1>6. editor' \in [Docs -> [open : BOOLEAN, tree : Seq(Node), dirty : BOOLEAN, saving : BOOLEAN]]
    BY <1>1, <1>5
  <1>7. \A d \in Docs : /\ editor'[d].tree = editor[d].tree /\ editor'[d].dirty = editor[d].dirty
                        /\ editor'[d].saving =>
                             editor[d].saving /\ (call[t].kind # "project" \/ d # Doc(t))
                        /\ editor'[d].saving # editor[d].saving =>
                             call[t].kind = "project" /\ d = Doc(t)
    BY <1>1, <1>2, <1>5
  <1>8. Control(t)'
    BY <1>1, <1>2, <1>3 DEF Control, Early, Rebuilding
  <1>9. TypeInvariant'
    BY <1>1, <1>4, <1>6, <1>8, TypeFrame DEF TypeInvariant, TypeOK, Places
  <1> QED BY <1>3, <1>4, <1>7, <1>9

LEMMA CommitFacts ==
  ASSUME TypeInvariant, NEW t \in Requests, Commit(t)
  PROVE  /\ TypeInvariant' /\ Close(t) /\ pc[t] = "done"
         /\ db'.docs = View(t).docs /\ db'.blocks = View(t).blocks /\ db'.refs = View(t).refs
         /\ db'.revisions = {r \in View(t).revisions : View(t).docs[r[1]] = "live"}
         /\ astray' = IF call[t].kind \in {"put", "upload", "restore"} THEN astray \cup {Doc(t)} ELSE astray
  <1>1. /\ pc[t] = "done" /\ Close(t)
        /\ db' = [View(t) EXCEPT !.revisions = {r \in @ : View(t).docs[r[1]] = "live"}]
        /\ astray' = IF call[t].kind \in {"put", "upload", "restore"} THEN astray \cup {Doc(t)} ELSE astray
    BY DEF Commit
  <1>2. View(t) = [docs |-> View(t).docs, blocks |-> View(t).blocks, refs |-> View(t).refs,
                   revisions |-> View(t).revisions]
    BY DEF View
  <1> HIDE DEF View
  <1>3. /\ db'.docs = View(t).docs /\ db'.blocks = View(t).blocks /\ db'.refs = View(t).refs
        /\ db'.revisions = {r \in View(t).revisions : View(t).docs[r[1]] = "live"}
    BY <1>1, <1>2
  <1>4. /\ db'.docs \in [Docs -> {"absent", "live", "gone"}]
        /\ db'.blocks \in [Blocks -> Row] /\ db'.refs \in [Pairs -> BOOLEAN]
        /\ db'.revisions \subseteq Docs \X Seq(Node)
    BY <1>3, ViewTypes
  <1>5. astray' \subseteq Docs
    BY <1>1, CallTypes DEF TypeInvariant, TypeOK
  <1>6. TypeInvariant'
    BY <1>1, <1>4, <1>5, CloseTypes
  <1> QED BY <1>1, <1>3, <1>6

LEMMA FailFacts ==
  ASSUME TypeInvariant, NEW t \in Requests, Rollback(t) \/ Crash(t)
  PROVE  /\ TypeInvariant' /\ Close(t) /\ db' = db /\ pc[t] \notin {"new", "ended"}
         /\ astray' = IF call[t].kind = "project" THEN astray \cup {Doc(t)} ELSE astray
  <1>1. /\ Close(t) /\ db' = db /\ pc[t] \notin {"new", "ended"}
        /\ astray' = IF call[t].kind = "project" THEN astray \cup {Doc(t)} ELSE astray
    BY DEF Rollback, Crash, Fail
  <1>2. astray' \subseteq Docs
    BY <1>1, CallTypes DEF TypeInvariant, TypeOK
  <1> QED BY <1>1, <1>2, CloseTypes

(* The steps of the collaboration server. *)
LEMMA QuietTypes ==
  ASSUME TypeInvariant, Quiet, yjs' \in [Docs -> Seq(Node)], edits' \in 0..MaxEdits,
         astray' \subseteq Docs,
         editor' \in [Docs -> [open : BOOLEAN, tree : Seq(Node), dirty : BOOLEAN, saving : BOOLEAN]]
  PROVE  TypeInvariant'
  <1>1. \A t \in Requests : Control(t)'
    BY DEF TypeInvariant, Control, Quiet, Early, Rebuilding
  <1> QED BY <1>1 DEF TypeInvariant, TypeOK, Quiet

LEMMA ServerTypes ==
  ASSUME TypeInvariant, NEW d \in Docs,
         Open(d) \/ Edit(d) \/ Store(d) \/ Unload(d) \/ LoseServer(d)
  PROVE  TypeInvariant'
  <1> DEFINE Editor == [open : BOOLEAN, tree : Seq(Node), dirty : BOOLEAN, saving : BOOLEAN]
  <1>1. /\ editor \in [Docs -> Editor] /\ yjs \in [Docs -> Seq(Node)] /\ edits \in 0..MaxEdits
        /\ astray \subseteq Docs /\ MaxEdits \in Nat
    BY DocumentAssumption DEF TypeInvariant, TypeOK
  <1>2. Closed \in Editor
    BY DEF Closed
  <1>3. Quiet
    BY DEF Open, Edit, Store, Unload, LoseServer
  <1>4. astray' \subseteq Docs
    <2>1. astray' = astray \/ astray' = astray \ {d} \/ astray' = astray \cup {d}
      BY DEF Open, Edit, Store, Unload, LoseServer
    <2> QED BY <1>1, <2>1
  <1>5. edits' \in 0..MaxEdits
    <2>1. edits' = edits \/ (edits' = edits + 1 /\ edits < MaxEdits)
      BY DEF Open, Edit, Store, Unload, LoseServer
    <2> QED BY <1>1, <2>1
  <1>6. editor' \in [Docs -> Editor]
    <2>1. CASE Open(d)
      <3>1. editor' = [editor EXCEPT ![d].open = TRUE, ![d].tree = yjs[d]]
        BY <2>1 DEF Open
      <3> QED BY <1>1, <3>1
    <2>2. CASE Edit(d)
      <3>1. PICK tree \in Drafts[d] : editor' = [editor EXCEPT ![d].tree = tree, ![d].dirty = TRUE]
        BY <2>2 DEF Edit
      <3>2. tree \in Seq(Node)
        BY DocumentAssumption
      <3> QED BY <1>1, <3>1, <3>2
    <2>3. CASE Store(d)
      <3>1. editor' = [editor EXCEPT ![d].dirty = FALSE, ![d].saving = TRUE]
        BY <2>3 DEF Store
      <3> QED BY <1>1, <3>1
    <2>4. CASE Unload(d) \/ LoseServer(d)
      <3>1. editor' = [editor EXCEPT ![d] = Closed]
        BY <2>4 DEF Unload, LoseServer
      <3> QED BY <1>1, <1>2, <3>1
    <2> QED BY <2>1, <2>2, <2>3, <2>4
  <1>7. yjs' \in [Docs -> Seq(Node)]
    <2>1. CASE Store(d)
      <3>1. yjs' = [yjs EXCEPT ![d] = IF db.docs[d] = "live" THEN editor[d].tree ELSE @]
        BY <2>1 DEF Store
      <3>2. editor[d].tree \in Seq(Node) /\ yjs[d] \in Seq(Node)
        BY <1>1
      <3> QED BY <1>1, <3>1, <3>2
    <2>2. CASE ~Store(d)
      BY <1>1, <2>2 DEF Open, Edit, Unload, LoseServer
    <2> QED BY <2>1, <2>2
  <1> QED BY <1>3, <1>4, <1>5, <1>6, <1>7, QuietTypes

LEMMA ProjectTypes ==
  ASSUME TypeInvariant, NEW t \in Requests, NEW d \in Docs, Project(t, d)
  PROVE  TypeInvariant'
  <1> DEFINE Editor == [open : BOOLEAN, tree : Seq(Node), dirty : BOOLEAN, saving : BOOLEAN]
             c == [kind |-> "project", doc |-> d, tree |-> editor[d].tree]
  <1>1. /\ pc[t] = "new" /\ UNCHANGED <<db, yjs, edits, astray, scanned, listed, draft>>
        /\ \/ /\ call' = [call EXCEPT ![t] = c] /\ todo' = [todo EXCEPT ![t] = editor[d].tree]
              /\ Goto(t, "scan") /\ editor' = editor
           \/ editor' = [editor EXCEPT ![d].saving = FALSE] /\ UNCHANGED <<call, todo, pc>>
    BY DEF Project
  <1>2. editor \in [Docs -> Editor] /\ editor[d].tree \in Seq(Node)
    BY DEF TypeInvariant, TypeOK
  <1>3. CASE /\ call' = [call EXCEPT ![t] = c] /\ todo' = [todo EXCEPT ![t] = editor[d].tree]
             /\ Goto(t, "scan") /\ editor' = editor
    <2>1. c \in Call /\ c.kind = "project" /\ c.tree = editor[d].tree
      BY <1>2 DEF Call
    <2> HIDE DEF c
    <2>2. /\ call'[t] = c /\ call' \in [Requests -> Call \cup {NoCall}]
          /\ todo'[t] = editor[d].tree /\ todo' \in [Requests -> Seq(Node)]
          /\ \A u \in Requests \ {t} : call'[u] = call[u] /\ todo'[u] = todo[u]
      BY <1>2, <1>3, <2>1 DEF TypeInvariant
    <2>3. pc'[t] = "scan"
      BY <1>3 DEF Goto, TypeInvariant, TypeOK
    <2>4. Control(t)'
      BY <2>1, <2>2, <2>3 DEF Control, Early, Rebuilding
    <2>5. OnlyDraft(t) /\ DraftOK(draft'[t])
      BY <1>1 DEF OnlyDraft, TypeInvariant
    <2> QED BY <1>1, <1>2, <1>3, <2>2, <2>4, <2>5, TypeFrame DEF TypeInvariant, TypeOK, Places
  <1>4. CASE editor' = [editor EXCEPT ![d].saving = FALSE] /\ UNCHANGED <<call, todo, pc>>
    <2>1. editor' \in [Docs -> Editor]
      BY <1>2, <1>4
    <2>2. \A u \in Requests : Control(u)'
      BY <1>1, <1>4 DEF TypeInvariant, Control, Early, Rebuilding
    <2> QED BY <1>1, <1>4, <2>1, <2>2 DEF TypeInvariant, TypeOK
  <1> QED BY <1>1, <1>3, <1>4

LEMMA TypeStep == TypeInvariant /\ [Next]_vars => TypeInvariant'
  <1> SUFFICES ASSUME TypeInvariant, [Next]_vars PROVE TypeInvariant'
    OBVIOUS
  <1>1. CASE UNCHANGED vars
    <2>1. \A t \in Requests : Control(t)'
      BY <1>1 DEF TypeInvariant, Control, vars, Early, Rebuilding
    <2> QED BY <1>1, <2>1 DEF TypeInvariant, TypeOK, vars
  <1>2. ASSUME NEW t \in Requests, Receive(t) \/ Statement(t) \/ Crash(t) PROVE TypeInvariant'
    BY <1>2, ReceiveTypes, ReadingTypes, RevisionTypes, ListTypes, StashWrites, WritingTypes,
       CommitFacts, FailFacts DEF Statement
  <1>3. ASSUME NEW d \in Docs, NEW t \in Requests, Project(t, d) PROVE TypeInvariant'
    BY <1>3, ProjectTypes
  <1>4. ASSUME NEW d \in Docs, Open(d) \/ Edit(d) \/ Store(d) \/ Unload(d) \/ LoseServer(d)
        PROVE  TypeInvariant'
    BY <1>4, ServerTypes
  <1> QED BY <1>1, <1>2, <1>3, <1>4 DEF Next

(* Types: what every statement of a request finds in its variables, as the *)
(* routes of app/api/rest/documents.py and the collaboration server go on. *)
THEOREM DocumentTypes == Spec => []TypeOK
  <1>1. TypeInvariant => TypeOK
    BY DEF TypeInvariant
  <1> QED BY <1>1, TypeInit, TypeStep, PTL DEF Spec

-----------------------------------------------------------------------------
(* Backlinks *)

(* What a request sees, row by row. *)
LEMMA Seen ==
  ASSUME TypeInvariant, NEW t \in Requests
  PROVE  /\ \A b \in Blocks : View(t).blocks[b] = RowSeen(db, draft[t], b)
         /\ \A p \in Pairs : View(t).refs[p] = RefSeen(db, draft[t], p)
  BY DEF View, Overlay, RowSeen, RefSeen, TypeInvariant, TypeOK

(* The trees that there are at all are of their documents. *)
LEMMA TreesAreKept ==
  ASSUME TreesApart, NEW d \in Docs, NEW tree \in Trees(d)
  PROVE  Kept(d, tree)
  BY DEF TreesApart, Kept, Home

LEMMA EmptyKept == \A d : Kept(d, << >>)
  BY DEF Kept, Plain, BlocksOf

(* A block belongs to one document. *)
LEMMA OneHome ==
  ASSUME TreesApart, NEW c \in Docs, NEW d \in Docs, NEW b \in Home(c), b \in Home(d)
  PROVE  c = d
  BY DEF TreesApart

(* The other requests, when one writes rows it has not committed.          *)
LEMMA OthersOwn ==
  ASSUME NEW u \in Requests, Own(u), db' = db,
         pc'[u] = pc[u], call'[u] = call[u], todo'[u] = todo[u], listed'[u] = listed[u],
         scanned'[u] = scanned[u], draft'[u] = draft[u]
  PROVE  Own(u)'
  <1>1. OwnTrees(u)'
    BY DEF Own, OwnTrees, Doc
  <1>2. OwnRows(u)'
    BY DEF Own, OwnRows, Doc, Early
  <1>3. Placed(u)'
    BY DEF Own, Placed, Written, Stands, Rebuilding, Replacing
  <1>4. Pointing(u)'
    BY DEF Own, Pointing
  <1> QED BY <1>1, <1>2, <1>3, <1>4 DEF Own

(* A request that has written no rows of blocks and writes none, or fails. *)
LEMMA NothingWritten ==
  ASSUME NEW t \in Requests, Own(t), db' = db,
         draft'[t].blocks = draft[t].blocks, draft'[t].refs = draft[t].refs,
         OwnTrees(t)',
         \/ /\ pc[t] \in Early \cup {"drop"}
            /\ \/ pc'[t] \in Early \cup {"drop", "cascade", "failed"}
               \/ pc'[t] = "done" /\ call'[t].kind \notin Replacing
         \/ pc'[t] = "failed" /\ Doc(t)' = Doc(t)
  PROVE  Own(t)'
  <1>1. CASE pc'[t] = "failed" /\ Doc(t)' = Doc(t)
    <2>1. OwnRows(t)'
      BY <1>1 DEF Own, OwnRows, Early
    <2>2. Placed(t)' /\ Pointing(t)'
      BY <1>1 DEF Placed, Pointing, Rebuilding
    <2> QED BY <2>1, <2>2 DEF Own
  <1>2. CASE pc[t] \in Early \cup {"drop"}
    <2>1. /\ DOMAIN draft[t].blocks = {} /\ DOMAIN draft[t].refs = {}
          /\ \A p \in Pairs : Points(db, draft[t], p)
      BY <1>2 DEF Own, OwnRows, Pointing, Early
    <2>2. OwnRows(t)'
      BY <2>1 DEF OwnRows
    <2>3. \A p \in Pairs : Points(db', draft'[t], p)
      BY <2>1 DEF Points, RowSeen, RefSeen
    <2>4. Pointing(t)'
      BY <2>3 DEF Pointing
    <2>5. Placed(t)'
      BY <1>2 DEF Placed, Early, Rebuilding
    <2> QED BY <2>2, <2>4, <2>5 DEF Own
  <1> QED BY <1>1, <1>2

LEMMA ReceiveOwn ==
  ASSUME TypeInvariant, TreesApart, NEW t \in Requests, Own(t), Receive(t)
  PROVE  Own(t)' /\ draft' = draft
  <1>1. PICK c \in Calls :
          /\ pc[t] = "new" /\ call' = [call EXCEPT ![t] = c] /\ Reads
          /\ Goto(t, IF c.kind = "upload" THEN "create" ELSE "get")
    BY DEF Receive
  <1>2. c \in Call /\ c.doc \in Docs /\ c.tree \in Trees(c.doc)
    BY DocumentAssumption DEF Call, Trees
  <1>3. pc'[t] \in {"create", "get"} /\ call'[t] = c
    BY <1>1, <1>2 DEF Goto, TypeInvariant, TypeOK
  <1>4. draft' = draft /\ db' = db
    BY <1>1 DEF Reads
  <1>5. Kept(c.doc, c.tree)
    BY <1>2, TreesAreKept
  <1>6. OwnTrees(t)'
    BY <1>3, <1>4, <1>5 DEF Own, OwnTrees, Doc
  <1> QED BY <1>1, <1>3, <1>4, <1>6, NothingWritten DEF Early

LEMMA ReadingOwn ==
  ASSUME TypeInvariant, NEW t \in Requests, Own(t), Get(t) \/ Scan(t) \/ DeadlockVictim(t)
  PROVE  Own(t)' /\ draft' = draft
  <1>1. draft' = draft /\ db' = db /\ call' = call /\ listed' = listed
    BY DEF Get, Scan, DeadlockVictim, Reads
  <1>2. \/ pc[t] \in {"get", "scan"} /\ pc'[t] \in {"failed", "scan", "list", "revision", "drop", "sweep"}
        \/ pc[t] # "new" /\ pc'[t] = "failed"
    <2>1. \A next \in Places : Goto(t, next) => pc'[t] = next
      BY DEF Goto, TypeInvariant, TypeOK
    <2>2. CASE Get(t)
      <3>1. pc[t] = "get" /\ Control(t)
        BY <2>2 DEF Get, TypeInvariant
      <3>2. PICK next \in {"failed", "scan", "list", "revision", "drop"} : Goto(t, next)
        BY <2>2, <3>1 DEF Get, Control
      <3> QED BY <2>1, <3>1, <3>2 DEF Places
    <2>3. CASE Scan(t)
      BY <2>1, <2>3 DEF Scan, Places
    <2>4. CASE DeadlockVictim(t)
      <3>1. Blockers(t) # {} /\ Goto(t, "failed")
        BY <2>4 DEF DeadlockVictim, Deadlocked
      <3>2. pc[t] # "new"
        BY <3>1 DEF Blockers
      <3> QED BY <2>1, <3>1, <3>2 DEF Places
    <2> QED BY <2>2, <2>3, <2>4
  <1>3. OwnTrees(t)'
    BY <1>1, <1>2 DEF Own, OwnTrees, Doc
  <1> QED BY <1>1, <1>2, <1>3, NothingWritten DEF Early, Doc

(* A revision that is restored, and one that is taken. *)
LEMMA RevisionOwn ==
  ASSUME TypeInvariant, RowsKept, NEW t \in Requests, Own(t), Revision(t)
  PROVE  Own(t)' /\ draft' = draft
  <1>1. /\ draft' = draft /\ db' = db /\ pc[t] = "revision" /\ pc'[t] \in {"list", "failed"}
        /\ Doc(t)' = Doc(t)
        /\ \/ call'[t].tree = call[t].tree
           \/ \E r \in View(t).revisions : r[1] = Doc(t) /\ call'[t].tree = r[2]
    BY RevisionTypes DEF Reads
  <1>2. \A r \in View(t).revisions : Kept(r[1], r[2])
    BY DEF View, RowsKept, Own, OwnTrees
  <1>3. Kept(Doc(t), call'[t].tree)
    BY <1>1, <1>2 DEF Own, OwnTrees
  <1>4. OwnTrees(t)'
    BY <1>1, <1>3 DEF Own, OwnTrees
  <1> QED BY <1>1, <1>4, NothingWritten DEF Early

LEMMA ListOwn ==
  ASSUME TypeInvariant, RowsKept, NEW t \in Requests, Own(t), List(t)
  PROVE  Own(t)' /\ draft' = draft
  <1>1. /\ draft' = draft /\ db' = db /\ call' = call /\ pc[t] = "list" /\ pc'[t] = "stash"
        /\ Plain(listed'[t]) /\ BlocksOf(listed'[t]) \subseteq LiveBlocks(View(t), Doc(t))
    BY ListTypes DEF List
  <1>2. DOMAIN draft[t].blocks = {}
    BY <1>1 DEF Own, OwnRows, Early
  <1>3. \A b \in LiveBlocks(View(t), Doc(t)) : b \in Home(Doc(t))
    BY <1>2, Seen DEF LiveBlocks, RowSeen, RowsKept
  <1>4. Kept(Doc(t), listed'[t])
    BY <1>1, <1>3 DEF Kept
  <1>5. OwnTrees(t)'
    BY <1>1, <1>4 DEF Own, OwnTrees, Doc
  <1> QED BY <1>1, <1>5, NothingWritten DEF Early

LEMMA StashOwn ==
  ASSUME TypeInvariant, NEW t \in Requests, Own(t), Stash(t)
  PROVE  Own(t)' /\ OnlyDraft(t) /\ draft'[t].blocks = draft[t].blocks
  <1>1. /\ pc[t] = "stash" /\ OnlyDraft(t) /\ pc'[t] \in {"failed", "done", "scan"}
        /\ pc'[t] = "done" => call[t].kind = "save"
        /\ draft'[t].blocks = draft[t].blocks /\ draft'[t].refs = draft[t].refs
        /\ draft'[t].revisions \subseteq draft[t].revisions \cup {<<Doc(t), listed[t]>>}
    BY StashWrites
  <1>2. db' = db /\ call' = call
    BY DEF Stash
  <1>3. Kept(Doc(t), listed[t]) /\ Kept(Doc(t), call[t].tree)
    BY <1>1 DEF Own, OwnTrees
  <1>4. \A r \in draft'[t].revisions : Kept(r[1], r[2])
    BY <1>1, <1>3 DEF Own, OwnTrees
  <1>5. OwnTrees(t)'
    BY <1>1, <1>2, <1>3, <1>4 DEF OwnTrees, Doc
  <1> QED BY <1>1, <1>2, <1>5, NothingWritten DEF Early, Replacing, Doc

(* The statements that write the document. *)
LEMMA DocOwn ==
  ASSUME TypeInvariant, NEW t \in Requests, Own(t), Create(t) \/ Drop(t)
  PROVE  Own(t)' /\ OnlyDraft(t) /\ draft'[t].blocks = draft[t].blocks
  <1>1. /\ OnlyDraft(t) /\ draft'[t].blocks = draft[t].blocks /\ draft'[t].refs = draft[t].refs
        /\ draft'[t].revisions = draft[t].revisions
        /\ \/ pc[t] = "create" /\ pc'[t] = "scan"
           \/ pc[t] = "drop" /\ pc'[t] \in {"done", "cascade"}
    BY CreateWrites, DropWrites
  <1>2. db' = db /\ call' = call
    BY DEF Create, Drop
  <1>3. pc[t] = "drop" => call[t].kind \notin Replacing
    BY DEF TypeInvariant, Control, Replacing
  <1>4. OwnTrees(t)'
    BY <1>1, <1>2 DEF Own, OwnTrees, Doc
  <1> QED BY <1>1, <1>2, <1>3, <1>4, NothingWritten DEF Early, Doc

(* The blocks that leave the tree. *)
LEMMA SweepOwn ==
  ASSUME TypeInvariant, RowsKept, NEW t \in Requests, Own(t), Sweep(t)
  PROVE  /\ Own(t)' /\ OnlyDraft(t)
         /\ \A u \in Requests \ {t} : DOMAIN draft'[t].blocks \cap DOMAIN draft[u].blocks = {}
  <1>1. PICK rows :
          /\ pc[t] = "sweep" /\ Blockers(t) = {} /\ OnlyDraft(t) /\ DraftOK(draft'[t])
          /\ draft'[t].blocks = Overlay(draft[t].blocks, rows)
          /\ draft'[t].docs = draft[t].docs /\ draft'[t].refs = draft[t].refs
          /\ draft'[t].revisions = draft[t].revisions
          /\ DOMAIN rows = scanned[t] \cap LiveBlocks(View(t), Doc(t))
          /\ \A b \in DOMAIN rows : rows[b] = [View(t).blocks[b] EXCEPT !.state = "deleted"]
          /\ pc'[t] = IF todo[t] = << >> THEN "scan refs" ELSE "upsert"
    BY SweepWrites, Zenon
  <1>2. db' = db /\ call' = call /\ todo' = todo
    BY DEF Sweep
  <1>3. /\ DOMAIN draft[t].blocks = {} /\ DOMAIN draft[t].refs = {}
        /\ \A p \in Pairs : Points(db, draft[t], p)
    BY <1>1 DEF Own, OwnRows, Pointing, Early
  <1>4. /\ DOMAIN draft'[t].blocks = DOMAIN rows /\ \A b \in DOMAIN rows : draft'[t].blocks[b] = rows[b]
    BY <1>1, <1>3 DEF Overlay
  <1>5. \A b \in DOMAIN rows :
          /\ b \in Home(Doc(t)) /\ rows[b].doc = Doc(t) /\ rows[b].state = "deleted"
    <2> SUFFICES ASSUME NEW b \in DOMAIN rows
                 PROVE  b \in Home(Doc(t)) /\ rows[b].doc = Doc(t) /\ rows[b].state = "deleted"
      OBVIOUS
    <2>1. b \in Blocks /\ View(t).blocks[b].doc = Doc(t) /\ View(t).blocks[b].state = "live"
      BY <1>1 DEF LiveBlocks
    <2>2. View(t).blocks[b] \in Row /\ View(t).blocks[b] = db.blocks[b]
      BY <1>3, <2>1, ViewTypes, Seen DEF RowSeen
    <2>3. b \in Home(Doc(t))
      BY <2>1, <2>2 DEF RowsKept
    <2>4. rows[b] = [View(t).blocks[b] EXCEPT !.state = "deleted"]
      BY <1>1
    <2> QED BY <2>1, <2>2, <2>3, <2>4, RowState
  <1>6. OwnTrees(t)'
    BY <1>1, <1>2 DEF Own, OwnTrees, Doc
  <1>7. OwnRows(t)'
    BY <1>1, <1>2, <1>3, <1>4, <1>5 DEF OwnRows, Doc, Early
  <1>8. Placed(t)'
    <2>1. /\ todo[t] = call[t].tree /\ todo[t] \in Seq(Node) /\ call[t].tree \in Seq(Node)
      BY <1>1, CallTypes DEF Control, Early
    <2>2. Written(t)' = 0
      <3>1. Len(todo[t]) \in Nat /\ Len(call[t].tree) = Len(todo[t])
        BY <2>1, LenProperties, Zenon
      <3>2. CASE todo[t] = << >>
        <4>1. Len(todo[t]) = 0
          BY <3>2, EmptySeq
        <4> QED BY <1>1, <1>2, <3>1, <3>2, <4>1 DEF Written
      <3>3. CASE todo[t] # << >>
        <4>1. pc'[t] = "upsert"
          BY <1>1, <3>3
        <4>2. Len(todo[t]) - Len(todo[t]) = 0
          BY <3>1
        <4> QED BY <1>2, <3>1, <4>1, <4>2 DEF Written
      <3> QED BY <3>2, <3>3
    <2> QED BY <2>2 DEF Placed
  <1>9. Pointing(t)'
    <2> SUFFICES ASSUME NEW p \in Pairs
                 PROVE  \/ Points(db, draft'[t], p)
                        \/ p[1] \in DOMAIN draft'[t].blocks /\ draft'[t].blocks[p[1]].state # "gone"
      BY <1>1, <1>2 DEF Pointing
    <2>1. CASE p[1] \in DOMAIN rows
      BY <1>4, <1>5, <2>1
    <2>2. CASE p[1] \notin DOMAIN rows
      BY <1>1, <1>3, <1>4, <2>2 DEF Points, RefSeen, RowSeen
    <2> QED BY <2>1, <2>2
  <1>10. \A u \in Requests \ {t} : DOMAIN draft[u].blocks \cap scanned[t] = {}
    BY <1>1 DEF Blockers
  <1> QED BY <1>1, <1>4, <1>6, <1>7, <1>8, <1>9, <1>10 DEF Own

(* The blocks of the tree, one by one. *)
LEMMA UpsertOwn ==
  ASSUME TypeInvariant, TreesApart, RowsKept, NEW t \in Requests, Own(t), Upsert(t)
  PROVE  /\ Own(t)' /\ OnlyDraft(t)
         /\ \A u \in Requests \ {t} : DOMAIN draft'[t].blocks \cap DOMAIN draft[u].blocks
                                        \subseteq DOMAIN draft[t].blocks
  <1>1. pc[t] = "upsert" /\ db' = db /\ call' = call /\ listed' = listed /\ Doc(t)' = Doc(t)
    BY DEF Upsert, Doc
  <1>2. CASE pc'[t] = "failed"
    <2>1. draft' = draft
      BY <1>2 DEF Upsert, Goto, TypeInvariant, TypeOK
    <2>2. OwnTrees(t)'
      BY <1>1, <1>2, <2>1 DEF Own, OwnTrees
    <2>3. OnlyDraft(t)
      BY <2>1 DEF OnlyDraft, TypeInvariant
    <2>4. Own(t)'
      BY <1>1, <1>2, <2>1, <2>2, NothingWritten
    <2> QED BY <2>1, <2>3, <2>4
  <1>3. CASE pc'[t] # "failed"
    <2> DEFINE node == todo[t][1]
               row == View(t).blocks[node.block]
               tree == call[t].tree
    <2>1. /\ Blockers(t) = {} /\ OnlyDraft(t)
          /\ draft'[t].refs = draft[t].refs /\ draft'[t].revisions = draft[t].revisions
          /\ DOMAIN draft'[t].blocks = DOMAIN draft[t].blocks \cup {node.block}
          /\ \A b \in DOMAIN draft[t].blocks \ {node.block} : draft'[t].blocks[b] = draft[t].blocks[b]
          /\ draft'[t].blocks[node.block].state = "live"
          /\ draft'[t].blocks[node.block].mention = node.mention
          /\ draft'[t].blocks[node.block].doc = IF row.state = "gone" THEN Doc(t) ELSE row.doc
          /\ todo' = [todo EXCEPT ![t] = Tail(@)]
          /\ pc'[t] = IF Len(todo[t]) = 1 THEN "scan refs" ELSE "upsert"
          /\ node \in Node
      BY <1>3, UpsertWrites
    <2>2. /\ todo[t] \in Seq(Node) /\ tree \in Seq(Node) /\ Doc(t) \in Docs
          /\ todo[t] # << >> /\ Len(todo[t]) <= Len(tree)
          /\ \A k \in 1..Len(todo[t]) : todo[t][k] = tree[Len(tree) - Len(todo[t]) + k]
      BY <1>1, CallTypes DEF Control
    <2> DEFINE l == Len(todo[t])
               n == Len(tree)
               m == n - l
    <2>3. l \in Nat /\ l > 0 /\ n \in Nat /\ l <= n /\ Len(Tail(todo[t])) = l - 1
      BY <2>2, TailFacts
    <2>a. /\ \A k \in 1..l : todo[t][k] = tree[m + k]
          /\ pc'[t] = IF l = 1 THEN "scan refs" ELSE "upsert"
          /\ 1..n = 1..Len(tree)
      BY <2>1, <2>2, Zenon
    <2>b. Written(t)' = IF pc'[t] = "upsert" THEN n - (l - 1) ELSE n
      <3>1. todo'[t] = Tail(todo[t])
        BY <2>1 DEF TypeInvariant
      <3> QED BY <1>1, <2>3, <3>1, Zenon DEF Written
    <2>c. \A i \in 1..m : Stands(t, tree[i])
      BY <1>1 DEF Own, Placed, Written
    <2> HIDE DEF l, n
    <2>4. /\ m \in Nat /\ m + 1 \in 1..n /\ node = tree[m + 1]
          /\ \A i \in 1..(m + 1) : i \in 1..n /\ (i # m + 1 => i \in 1..m)
      <3>1. 1 \in 1..l
        BY <2>3
      <3>2. node = tree[m + 1]
        BY <2>a, <3>1
      <3> QED BY <2>3, <3>2
    <2>5. Kept(Doc(t), tree)
      BY <1>1 DEF Own, OwnTrees
    <2>6. node.block \in Home(Doc(t)) /\ node.block \in Blocks
      BY <2>1, <2>a, <2>4, <2>5 DEF Kept, BlocksOf, Node
    <2>7. /\ \A b \in DOMAIN draft[t].blocks : b \in Home(Doc(t)) /\ draft[t].blocks[b].doc = Doc(t)
          /\ DOMAIN draft[t].refs = {}
      BY <1>1 DEF Own, OwnRows
    <2>8. draft'[t].blocks[node.block].doc = Doc(t)
      <3>1. row \in Row /\ row = RowSeen(db, draft[t], node.block)
        BY <2>6, ViewTypes, Seen
      <3>2. CASE node.block \in DOMAIN draft[t].blocks
        BY <2>1, <2>7, <3>1, <3>2 DEF RowSeen
      <3>3. CASE node.block \notin DOMAIN draft[t].blocks /\ row.state # "gone"
        <4>1. row = db.blocks[node.block]
          BY <3>1, <3>3 DEF RowSeen
        <4>2. node.block \in Home(row.doc) /\ row.doc \in Docs
          BY <2>6, <3>1, <3>3, <4>1 DEF RowsKept, Row
        <4>3. row.doc = Doc(t)
          BY <2>2, <2>6, <4>2, OneHome
        <4> QED BY <2>1, <3>3, <4>3
      <3>4. CASE row.state = "gone"
        BY <2>1, <3>4
      <3> QED BY <3>2, <3>3, <3>4
    <2>9. OwnTrees(t)'
      BY <1>1, <2>1 DEF Own, OwnTrees
    <2> HIDE DEF node, row
    <2>10. OwnRows(t)'
      BY <1>1, <2>1, <2>6, <2>7, <2>8 DEF OwnRows, Early
    <2>11. Written(t)' = m + 1
      <3>1. n - (l - 1) = m + 1 /\ (l = 1 => n = m + 1)
        BY <2>3
      <3>2. CASE l = 1
        <4>1. pc'[t] # "upsert"
          BY <2>a, <3>2
        <4> QED BY <2>b, <3>1, <3>2, <4>1, Zenon
      <3>3. CASE l # 1
        <4>1. pc'[t] = "upsert"
          BY <2>a, <3>3
        <4> QED BY <2>b, <3>1, <4>1, Zenon
      <3> QED BY <3>2, <3>3
    <2>12. \A i \in 1..(m + 1) : Stands(t, tree[i])'
      <3> SUFFICES ASSUME NEW i \in 1..(m + 1) PROVE Stands(t, tree[i])'
        BY <1>1 DEF Stands
      <3>1. i \in 1..Len(tree) /\ m + 1 \in 1..Len(tree)
        BY <2>a, <2>4
      <3>2. CASE tree[i].block = node.block
        <4>1. tree[i].mention = node.mention
          BY <2>4, <2>5, <3>1, <3>2 DEF Kept, Plain
        <4> QED BY <1>1, <2>1, <3>2, <4>1 DEF Stands
      <3>3. CASE tree[i].block # node.block
        <4>1. i \in 1..m
          BY <2>4, <3>3
        <4>2. Stands(t, tree[i])
          BY <2>c, <4>1
        <4> QED BY <1>1, <2>1, <3>3, <4>2 DEF Stands
      <3> QED BY <3>2, <3>3
    <2>13. Placed(t)'
      BY <1>1, <2>11, <2>12 DEF Placed
    <2>14. Pointing(t)'
      <3> SUFFICES ASSUME NEW p \in Pairs
                   PROVE  \/ Points(db, draft'[t], p)
                          \/ p[1] \in DOMAIN draft'[t].blocks /\ draft'[t].blocks[p[1]].state # "gone"
        BY <1>1, <2>1 DEF Pointing
      <3>1. CASE p[1] = node.block
        BY <2>1, <3>1
      <3>2. CASE p[1] # node.block
        <4>1. \/ Points(db, draft[t], p)
              \/ p[1] \in DOMAIN draft[t].blocks /\ draft[t].blocks[p[1]].state # "gone"
          BY <1>1 DEF Own, Pointing
        <4> QED BY <2>1, <3>2, <4>1 DEF Points, RefSeen, RowSeen
      <3> QED BY <3>1, <3>2
    <2>15. \A u \in Requests \ {t} : node.block \notin DOMAIN draft[u].blocks
      BY <1>1, <2>1 DEF Blockers, node
    <2> QED BY <2>1, <2>9, <2>10, <2>13, <2>14, <2>15 DEF Own
  <1> QED BY <1>2, <1>3

(* The references of the document's blocks: found, deleted, inserted.      *)
LEMMA ScanRefsOwn ==
  ASSUME TypeInvariant, NEW t \in Requests, Own(t), ScanRefs(t)
  PROVE  Own(t)' /\ draft' = draft
  <1>1. /\ pc[t] = "scan refs" /\ pc'[t] = "clear" /\ scanned'[t] = DocRefs(View(t), Doc(t))
        /\ db' = db /\ draft' = draft /\ call' = call /\ listed' = listed
    BY DEF ScanRefs, Rebuilt, Reads, Goto, TypeInvariant, TypeOK
  <1>2. OwnTrees(t)'
    BY <1>1 DEF Own, OwnTrees, Doc
  <1>3. OwnRows(t)'
    BY <1>1 DEF Own, OwnRows, Doc, Early
  <1>4. Placed(t)'
    BY <1>1 DEF Own, Placed, Written, Stands, Rebuilding
  <1>5. Pointing(t)'
    <2> SUFFICES ASSUME NEW p \in Pairs, ~Points(db, draft[t], p)
                 PROVE  p[1] \in DOMAIN draft[t].blocks /\ p \in DocRefs(View(t), Doc(t))
      BY <1>1 DEF Pointing
    <2>1. p[1] \in DOMAIN draft[t].blocks /\ draft[t].blocks[p[1]].state # "gone"
      BY <1>1 DEF Own, Pointing
    <2>2. RefSeen(db, draft[t], p)
      BY DEF Points
    <2>3. p[1] \in Blocks /\ View(t).refs[p]
      BY <2>2, Seen DEF Pairs
    <2>4. View(t).blocks[p[1]] = draft[t].blocks[p[1]] /\ draft[t].blocks[p[1]].doc = Doc(t)
      BY <2>1, <2>3, Seen DEF RowSeen, Own, OwnRows
    <2> QED BY <2>1, <2>3, <2>4 DEF DocRefs, DocRows
  <1> QED BY <1>1, <1>2, <1>3, <1>4, <1>5 DEF Own

LEMMA ClearOwn ==
  ASSUME TypeInvariant, NEW t \in Requests, Own(t), Clear(t)
  PROVE  Own(t)' /\ OnlyDraft(t) /\ draft'[t].blocks = draft[t].blocks
  <1>1. /\ pc[t] = "clear" /\ OnlyDraft(t) /\ pc'[t] \in {"refer", "failed"}
        /\ draft'[t].blocks = draft[t].blocks /\ draft'[t].revisions = draft[t].revisions
        /\ DOMAIN draft'[t].refs = DOMAIN draft[t].refs \cup scanned[t]
        /\ \A p \in scanned[t] : ~draft'[t].refs[p]
    BY ClearWrites
  <1>2. db' = db /\ call' = call
    BY DEF Clear
  <1>3. DOMAIN draft[t].refs = {} /\ DOMAIN draft'[t].refs = scanned[t]
    BY <1>1 DEF Own, OwnRows
  <1>4. OwnTrees(t)'
    BY <1>1, <1>2 DEF Own, OwnTrees, Doc
  <1>5. OwnRows(t)'
    BY <1>1, <1>2, <1>3 DEF Own, OwnRows, Doc, Early
  <1>6. Placed(t)'
    BY <1>1, <1>2 DEF Own, Placed, Written, Stands, Rebuilding
  <1>7. Pointing(t)'
    <2> SUFFICES ASSUME NEW p \in Pairs PROVE Points(db, draft'[t], p)
      BY <1>1, <1>2 DEF Pointing
    <2>1. CASE p \in scanned[t]
      BY <1>1, <1>3, <2>1 DEF Points, RefSeen
    <2>2. CASE p \notin scanned[t]
      <3>1. Points(db, draft[t], p)
        BY <1>1, <2>2 DEF Own, Pointing
      <3> QED BY <1>1, <1>3, <2>2, <3>1 DEF Points, RefSeen, RowSeen
    <2> QED BY <2>1, <2>2
  <1> QED BY <1>1, <1>4, <1>5, <1>6, <1>7 DEF Own

LEMMA ReferOwn ==
  ASSUME TypeInvariant, NEW t \in Requests, Own(t), Refer(t)
  PROVE  Own(t)' /\ OnlyDraft(t) /\ draft'[t].blocks = draft[t].blocks
  <1>1. pc[t] = "refer" /\ db' = db /\ call' = call /\ listed' = listed /\ Doc(t)' = Doc(t)
    BY DEF Refer, Doc
  <1>2. CASE pc'[t] = "failed"
    <2>1. draft' = draft
      BY <1>2 DEF Refer, Goto, TypeInvariant, TypeOK
    <2>2. OwnTrees(t)'
      BY <1>1, <1>2, <2>1 DEF Own, OwnTrees
    <2>3. OnlyDraft(t)
      BY <2>1 DEF OnlyDraft, TypeInvariant
    <2>4. Own(t)'
      BY <1>1, <1>2, <2>1, <2>2, NothingWritten
    <2> QED BY <2>1, <2>3, <2>4
  <1>3. CASE pc'[t] # "failed"
    <2> DEFINE pairs == MentionsOf(call[t].tree)
    <2>1. /\ OnlyDraft(t) /\ pc'[t] = "done"
          /\ draft'[t].blocks = draft[t].blocks /\ draft'[t].revisions = draft[t].revisions
          /\ DOMAIN draft'[t].refs = DOMAIN draft[t].refs \cup pairs
          /\ \A p \in pairs : draft'[t].refs[p]
          /\ \A p \in DOMAIN draft[t].refs \ pairs : draft'[t].refs[p] = draft[t].refs[p]
      BY <1>3, ReferWrites
    <2>2. \A p \in pairs : /\ p[1] \in DOMAIN draft[t].blocks
                           /\ draft[t].blocks[p[1]].state = "live"
                           /\ draft[t].blocks[p[1]].mention = p[2]
      BY <1>1 DEF MentionsOf, Own, Placed, Rebuilding, Written, Stands
    <2> HIDE DEF pairs
    <2>3. OwnTrees(t)'
      BY <1>1, <2>1 DEF Own, OwnTrees
    <2>4. OwnRows(t)'
      BY <1>1, <2>1, <2>2 DEF Own, OwnRows, Early
    <2>5. Placed(t)'
      BY <1>1, <2>1 DEF Own, Placed, Written, Stands, Rebuilding
    <2>6. Pointing(t)'
      <3> SUFFICES ASSUME NEW p \in Pairs PROVE Points(db, draft'[t], p)
        BY <1>1 DEF Pointing
      <3>1. CASE p \in pairs
        BY <2>1, <2>2, <3>1 DEF Points, RowSeen
      <3>2. CASE p \notin pairs
        <4>1. Points(db, draft[t], p)
          BY <1>1 DEF Own, Pointing
        <4> QED BY <2>1, <3>2, <4>1 DEF Points, RefSeen, RowSeen
      <3> QED BY <3>1, <3>2
    <2> QED BY <2>1, <2>3, <2>4, <2>5, <2>6 DEF Own
  <1> QED BY <1>2, <1>3

(* What goes with a document. *)
LEMMA CascadeOwn ==
  ASSUME TypeInvariant, RowsKept, NEW t \in Requests, Own(t), Cascade(t)
  PROVE  /\ Own(t)' /\ OnlyDraft(t)
         /\ \A u \in Requests \ {t} : DOMAIN draft'[t].blocks \cap DOMAIN draft[u].blocks = {}
  <1> DEFINE gone == DocRows(View(t), Doc(t))
             refs == DocRefs(View(t), Doc(t))
  <1>1. /\ pc[t] = "cascade" /\ pc'[t] = "done" /\ Blockers(t) = {} /\ OnlyDraft(t)
        /\ draft'[t].revisions = draft[t].revisions
        /\ DOMAIN draft'[t].blocks = DOMAIN draft[t].blocks \cup gone
        /\ \A b \in gone : draft'[t].blocks[b].doc = View(t).blocks[b].doc
        /\ DOMAIN draft'[t].refs = DOMAIN draft[t].refs \cup refs
        /\ \A p \in refs : ~draft'[t].refs[p]
    BY CascadeWrites
  <1>2. db' = db /\ call' = call
    BY DEF Cascade
  <1>3. /\ DOMAIN draft[t].blocks = {} /\ DOMAIN draft[t].refs = {}
        /\ \A p \in Pairs : Points(db, draft[t], p)
    BY <1>1 DEF Own, OwnRows, Pointing
  <1>4. \A b \in gone : b \in Home(Doc(t)) /\ draft'[t].blocks[b].doc = Doc(t)
    BY <1>1, <1>3, Seen DEF DocRows, RowSeen, RowsKept
  <1>5. call[t].kind \notin Replacing
    BY <1>1 DEF TypeInvariant, Control, Replacing
  <1>6. \A p \in Pairs : p[1] \in gone /\ RefSeen(db, draft[t], p) => p \in refs
    BY Seen DEF DocRefs
  <1>7. \A u \in Requests \ {t} : DOMAIN draft[u].blocks \cap gone = {}
    BY <1>1 DEF Blockers
  <1> HIDE DEF gone, refs
  <1>8. OwnTrees(t)'
    BY <1>1, <1>2 DEF Own, OwnTrees, Doc
  <1>9. OwnRows(t)'
    BY <1>1, <1>2, <1>3, <1>4 DEF OwnRows, Doc, Early
  <1>10. Placed(t)'
    BY <1>1, <1>2, <1>5 DEF Placed, Rebuilding
  <1>11. Pointing(t)'
    <2> SUFFICES ASSUME NEW p \in Pairs PROVE Points(db, draft'[t], p)
      BY <1>2 DEF Pointing
    <2>1. CASE p \in refs
      BY <1>1, <2>1 DEF Points, RefSeen
    <2>2. CASE p \notin refs
      BY <1>1, <1>3, <1>6, <2>2 DEF Points, RefSeen, RowSeen
    <2> QED BY <2>1, <2>2
  <1> QED BY <1>1, <1>3, <1>7, <1>8, <1>9, <1>10, <1>11 DEF Own

(* What a request leaves when it is over: no rows of its own.              *)
LEMMA EndOwn ==
  ASSUME TypeInvariant, NEW t \in Requests, Own(t), pc[t] # "new", call' = call,
         pc'[t] = "ended", draft'[t] = Nothing,
         \A p \in Pairs : db'.refs[p] =>
           db'.blocks[p[1]].state = "live" /\ db'.blocks[p[1]].mention = p[2]
  PROVE  Own(t)'
  <1>1. /\ DOMAIN Nothing.blocks = {} /\ DOMAIN Nothing.refs = {} /\ Nothing.revisions = {}
    BY DEF Nothing
  <1>2. OwnTrees(t)' /\ OwnRows(t)' /\ Placed(t)'
    BY <1>1 DEF Own, OwnTrees, OwnRows, Placed, Doc, Early, Rebuilding
  <1>3. \A p \in Pairs : Points(db', Nothing, p)
    BY <1>1 DEF Points, RefSeen, RowSeen
  <1>4. Pointing(t)'
    BY <1>3 DEF Pointing
  <1> QED BY <1>2, <1>4 DEF Own

(* A commit: what others have written is of other blocks, and what they    *)
(* see of the rest is what the committer saw.                              *)
LEMMA CommitOwn ==
  ASSUME TypeInvariant, BacklinkInvariant, NEW t \in Requests, Commit(t)
  PROVE  BacklinkInvariant'
  <1>1. /\ Close(t) /\ pc[t] = "done" /\ db'.blocks = View(t).blocks /\ db'.refs = View(t).refs
        /\ db'.revisions = {r \in View(t).revisions : View(t).docs[r[1]] = "live"}
    BY CommitFacts
  <1>2. astray' \subseteq Docs /\ TypeInvariant'
    BY CommitFacts DEF TypeInvariant, TypeOK
  <1>3. /\ db'.docs \in [Docs -> {"absent", "live", "gone"}]
        /\ db'.blocks \in [Blocks -> Row] /\ db'.refs \in [Pairs -> BOOLEAN]
        /\ db'.revisions \subseteq Docs \X Seq(Node)
    BY <1>2 DEF TypeInvariant, TypeOK
  <1>4. /\ pc'[t] = "ended" /\ OnlyDraft(t) /\ draft'[t] = Nothing
        /\ \A u \in Requests \ {t} : pc'[u] = pc[u]
        /\ \A d \in Docs : editor'[d].tree = editor[d].tree
    BY <1>1, <1>2, <1>3, CloseTypes
  <1>5. UNCHANGED <<yjs, edits, call, todo, scanned, listed>>
    BY <1>1 DEF Close
  <1>6. /\ \A b \in Blocks : db'.blocks[b] = RowSeen(db, draft[t], b)
        /\ \A p \in Pairs : db'.refs[p] = RefSeen(db, draft[t], p)
    BY <1>1, Seen
  <1>7. \A p \in Pairs : Points(db, draft[t], p)
    BY <1>1 DEF BacklinkInvariant, Own, Pointing
  <1>8. NoStaleBacklinks'
    <2> SUFFICES ASSUME NEW p \in Pairs, db'.refs[p]
                 PROVE  db'.blocks[p[1]].state = "live" /\ db'.blocks[p[1]].mention = p[2]
      BY DEF NoStaleBacklinks
    <2>1. p[1] \in Blocks /\ RefSeen(db, draft[t], p)
      BY <1>6 DEF Pairs
    <2> QED BY <1>6, <1>7, <2>1 DEF Points
  <1>9. Own(t)'
    BY <1>1, <1>4, <1>5, <1>8, EndOwn DEF BacklinkInvariant, NoStaleBacklinks
  <1>10. \A u \in Requests \ {t} : Own(u)'
    <2> SUFFICES ASSUME NEW u \in Requests \ {t} PROVE Own(u)'
      OBVIOUS
    <2>1. Own(u) /\ OwnRows(t)
      BY DEF BacklinkInvariant, Own
    <2>2. /\ draft'[u] = draft[u] /\ pc'[u] = pc[u] /\ call' = call /\ todo' = todo
          /\ listed' = listed /\ scanned' = scanned
      BY <1>4, <1>5 DEF OnlyDraft
    <2>3. OwnTrees(u)'
      BY <2>1, <2>2 DEF Own, OwnTrees, Doc
    <2>4. OwnRows(u)'
      BY <2>1, <2>2 DEF Own, OwnRows, Doc, Early
    <2>5. Placed(u)'
      BY <2>1, <2>2 DEF Own, Placed, Written, Stands, Rebuilding, Replacing
    <2>6. Pointing(u)'
      <3> SUFFICES ASSUME pc[u] # "failed", NEW p \in Pairs, ~Points(db', draft[u], p)
                   PROVE  /\ ~Points(db, draft[u], p)
        BY <2>1, <2>2 DEF Own, Pointing
      <3>1. p[1] \in Blocks /\ RefSeen(db', draft[u], p)
        BY DEF Points, Pairs
      <3>2. CASE p[1] \in DOMAIN draft[u].blocks
        <4>1. p[1] \notin DOMAIN draft[t].blocks
          BY <3>2 DEF BacklinkInvariant, WritesApart
        <4>2. p \in DOMAIN draft[t].refs => ~draft[t].refs[p]
          BY <2>1, <4>1 DEF OwnRows
        <4>3. RefSeen(db, draft[u], p)
          BY <1>6, <3>1, <4>2 DEF RefSeen
        <4>4. RowSeen(db, draft[u], p[1]) = RowSeen(db', draft[u], p[1])
          BY <3>2 DEF RowSeen
        <4> QED BY <4>3, <4>4 DEF Points
      <3>3. CASE p[1] \notin DOMAIN draft[u].blocks
        <4>1. p \in DOMAIN draft[u].refs => ~draft[u].refs[p]
          BY <2>1, <3>3 DEF Own, OwnRows
        <4>2. RefSeen(db, draft[t], p)
          BY <1>6, <3>1, <4>1 DEF RefSeen
        <4>3. RowSeen(db', draft[u], p[1]) = RowSeen(db, draft[t], p[1])
          BY <1>6, <3>1, <3>3 DEF RowSeen
        <4>4. Points(db', draft[u], p)
          BY <1>7, <4>2, <4>3 DEF Points
        <4> QED BY <4>4
      <3> QED BY <3>2, <3>3
    <2> QED BY <2>3, <2>4, <2>5, <2>6 DEF Own
  <1>11. WritesApart'
    <2>1. DOMAIN draft'[t].blocks = {}
      BY <1>4 DEF Nothing
    <2> QED BY <1>4, <2>1 DEF BacklinkInvariant, WritesApart, OnlyDraft
  <1>12. TreesKept'
    BY <1>4, <1>5 DEF BacklinkInvariant, TreesKept
  <1>13. RowsKept'
    <2>1. ASSUME NEW b \in Blocks, db'.blocks[b].state # "gone"
          PROVE  b \in Home(db'.blocks[b].doc)
      BY <1>6, <2>1 DEF RowSeen, BacklinkInvariant, RowsKept, Own, OwnRows
    <2>2. \A r \in db'.revisions : Kept(r[1], r[2])
      BY <1>1 DEF View, BacklinkInvariant, RowsKept, Own, OwnTrees
    <2> QED BY <2>1, <2>2 DEF RowsKept
  <1> QED BY <1>8, <1>9, <1>10, <1>11, <1>12, <1>13 DEF BacklinkInvariant

(* A step of one request that commits nothing. *)
LEMMA StepKeeps ==
  ASSUME TypeInvariant, BacklinkInvariant, NEW t \in Requests, db' = db, OnlyDraft(t), Own(t)',
         \A u \in Requests \ {t} :
           /\ DOMAIN draft'[t].blocks \cap DOMAIN draft[u].blocks \subseteq DOMAIN draft[t].blocks
           /\ pc'[u] = pc[u] /\ call'[u] = call[u] /\ todo'[u] = todo[u]
           /\ listed'[u] = listed[u] /\ scanned'[u] = scanned[u],
         TreesKept'
  PROVE  BacklinkInvariant'
  <1>1. \A u \in Requests \ {t} : Own(u)'
    BY OthersOwn DEF BacklinkInvariant, OnlyDraft
  <1>2. WritesApart'
    BY DEF BacklinkInvariant, WritesApart, OnlyDraft
  <1>3. RowsKept' /\ NoStaleBacklinks'
    BY DEF BacklinkInvariant, RowsKept, NoStaleBacklinks
  <1> QED BY <1>1, <1>2, <1>3 DEF BacklinkInvariant

(* The rows there are at the start. *)
LEMMA InitialRows ==
  ASSUME TreesApart, Init, NEW b \in Blocks
  PROVE  /\ db.blocks[b].state \in {"live", "gone"}
         /\ db.blocks[b].state = "live" => db.blocks[b].doc \in DOMAIN Initial
         /\ \A d \in DOMAIN Initial :
              /\ b \in BlocksOf(Initial[d]) <=>
                   db.blocks[b].state = "live" /\ db.blocks[b].doc = d
              /\ \A i \in 1..Len(Initial[d]) :
                   Initial[d][i].block = b => db.blocks[b].mention = Initial[d][i].mention
  <1> DEFINE has(d) == b \in BlocksOf(Initial[d])
             place(d) == CHOOSE i \in 1..Len(Initial[d]) : Initial[d][i].block = b
             home == CHOOSE d \in DOMAIN Initial : has(d)
             known == \E d \in DOMAIN Initial : has(d)
             m == Initial[home][place(home)].mention
  <1>1. /\ known => db.blocks[b] = [doc |-> home, mention |-> m, at |-> place(home), state |-> "live"]
        /\ ~known => db.blocks[b].state = "gone"
    BY DEF Init
  <1>2. known => home \in DOMAIN Initial /\ has(home)
    OBVIOUS
  <1>3. \A d \in DOMAIN Initial : d \in Docs /\ Kept(d, Initial[d])
    BY DocumentAssumption, TreesAreKept DEF Trees
  <1>4. \A d \in DOMAIN Initial : has(d) => known /\ home = d
    <2> SUFFICES ASSUME NEW d \in DOMAIN Initial, has(d) PROVE known /\ home = d
      OBVIOUS
    <2>1. known
      OBVIOUS
    <2>2. b \in Home(d) /\ b \in Home(home) /\ home \in Docs /\ d \in Docs
      BY <1>2, <1>3, <2>1 DEF Kept
    <2> HIDE DEF home
    <2> QED BY <2>1, <2>2, OneHome
  <1>5. \A d \in DOMAIN Initial : has(d) =>
          place(d) \in 1..Len(Initial[d]) /\ Initial[d][place(d)].block = b
    BY DEF BlocksOf
  <1>6. \A d \in DOMAIN Initial : \A i \in 1..Len(Initial[d]) :
          Initial[d][i].block = b => has(d)
    BY DEF BlocksOf
  <1>7. ASSUME NEW d \in DOMAIN Initial, NEW i \in 1..Len(Initial[d]), Initial[d][i].block = b
        PROVE  known /\ m = Initial[d][i].mention
    <2>1. has(d) /\ known /\ home = d
      BY <1>4, <1>6, <1>7
    <2>2. place(d) \in 1..Len(Initial[d]) /\ Initial[d][place(d)].block = b
      BY <1>5, <2>1
    <2>3. Initial[d][place(d)].mention = Initial[d][i].mention
      <3> HIDE DEF place
      <3> QED BY <1>3, <1>7, <2>2 DEF Kept, Plain
    <2> QED BY <2>1, <2>3
  <1> HIDE DEF has, place, home, known, m
  <1>8. known => /\ db.blocks[b].doc = home /\ db.blocks[b].state = "live"
                 /\ db.blocks[b].mention = m
    BY <1>1
  <1> QED BY <1>1, <1>2, <1>4, <1>7, <1>8 DEF has

LEMMA BacklinkInit ==
  ASSUME TreesApart, Init
  PROVE  BacklinkInvariant
  <1>1. /\ draft = [t \in Requests |-> Nothing] /\ pc = [t \in Requests |-> "new"]
        /\ yjs = [d \in Docs |-> IF d \in DOMAIN Initial THEN Initial[d] ELSE << >>]
        /\ editor = [d \in Docs |-> Closed]
        /\ db.refs = [p \in Pairs |-> \E d \in DOMAIN Initial : p \in MentionsOf(Initial[d])]
        /\ db.revisions = {}
    BY DEF Init
  <1>2. \A d \in DOMAIN Initial : Kept(d, Initial[d])
    BY DocumentAssumption, TreesAreKept DEF Trees
  <1>3. TreesKept
    BY <1>1, <1>2, EmptyKept DEF TreesKept, Closed
  <1>4. RowsKept
    BY <1>1, <1>2, InitialRows DEF RowsKept, Kept
  <1>5. NoStaleBacklinks
    <2> SUFFICES ASSUME NEW p \in Pairs, db.refs[p]
                 PROVE  db.blocks[p[1]].state = "live" /\ db.blocks[p[1]].mention = p[2]
      BY DEF NoStaleBacklinks
    <2>1. PICK d \in DOMAIN Initial : p \in MentionsOf(Initial[d])
      BY <1>1
    <2>2. PICK i \in 1..Len(Initial[d]) : p = <<Initial[d][i].block, Initial[d][i].mention>>
      BY <2>1 DEF MentionsOf
    <2>3. p[1] \in Blocks /\ p[1] \in BlocksOf(Initial[d])
          /\ Initial[d][i].block = p[1] /\ Initial[d][i].mention = p[2]
      BY <2>2 DEF Pairs, BlocksOf
    <2> QED BY <2>3, InitialRows
  <1>6. \A t \in Requests : Own(t)
    <2> SUFFICES ASSUME NEW t \in Requests PROVE Own(t)
      OBVIOUS
    <2>1. /\ pc[t] = "new" /\ draft[t] = Nothing
          /\ DOMAIN Nothing.blocks = {} /\ DOMAIN Nothing.refs = {} /\ Nothing.revisions = {}
      BY <1>1 DEF Nothing
    <2>2. OwnTrees(t) /\ OwnRows(t) /\ Placed(t)
      BY <2>1 DEF OwnTrees, OwnRows, Placed, Rebuilding
    <2>3. Pointing(t)
      BY <1>5, <2>1 DEF Pointing, Points, RefSeen, RowSeen, NoStaleBacklinks
    <2> QED BY <2>2, <2>3 DEF Own
  <1>7. WritesApart
    BY <1>1 DEF WritesApart, Nothing
  <1> QED BY <1>3, <1>4, <1>5, <1>6, <1>7 DEF BacklinkInvariant

(* The collaboration server keeps trees of the document.                   *)
LEMMA ServerBacklinks ==
  ASSUME TypeInvariant, TreesApart, BacklinkInvariant, NEW d \in Docs,
         Open(d) \/ Edit(d) \/ Store(d) \/ Unload(d) \/ LoseServer(d)
  PROVE  BacklinkInvariant'
  <1>1. UNCHANGED <<db, pc, call, todo, scanned, listed, draft>>
    BY DEF Open, Edit, Store, Unload, LoseServer, Quiet
  <1>2. /\ DOMAIN editor = Docs /\ DOMAIN yjs = Docs
        /\ editor \in [Docs -> [open : BOOLEAN, tree : Seq(Node), dirty : BOOLEAN, saving : BOOLEAN]]
    BY DEF TypeInvariant, TypeOK
  <1>3. Kept(d, yjs[d]) /\ Kept(d, editor[d].tree) /\ Kept(d, << >>)
    BY EmptyKept DEF BacklinkInvariant, TreesKept
  <1>4. Kept(d, yjs'[d]) /\ \A c \in Docs \ {d} : yjs'[c] = yjs[c]
    <2>1. yjs' = yjs \/ yjs' = [yjs EXCEPT ![d] = IF db.docs[d] = "live" THEN editor[d].tree ELSE @]
      BY DEF Open, Edit, Store, Unload, LoseServer
    <2> QED BY <1>2, <1>3, <2>1
  <1>5. Kept(d, editor'[d].tree) /\ \A c \in Docs \ {d} : editor'[c] = editor[c]
    <2>1. CASE Open(d)
      <3>1. editor' = [editor EXCEPT ![d].open = TRUE, ![d].tree = yjs[d]]
        BY <2>1 DEF Open
      <3> QED BY <1>2, <1>3, <3>1
    <2>2. CASE Edit(d)
      <3>1. PICK tree \in Drafts[d] : editor' = [editor EXCEPT ![d].tree = tree, ![d].dirty = TRUE]
        BY <2>2 DEF Edit
      <3>2. Kept(d, tree)
        BY TreesAreKept DEF Trees
      <3> QED BY <1>2, <3>1, <3>2
    <2>3. CASE Store(d)
      <3>1. editor' = [editor EXCEPT ![d].dirty = FALSE, ![d].saving = TRUE]
        BY <2>3 DEF Store
      <3> QED BY <1>2, <1>3, <3>1
    <2>4. CASE Unload(d) \/ LoseServer(d)
      <3>1. editor' = [editor EXCEPT ![d] = Closed]
        BY <2>4 DEF Unload, LoseServer
      <3> QED BY <1>2, <1>3, <3>1 DEF Closed
    <2> QED BY <2>1, <2>2, <2>3, <2>4
  <1>6. TreesKept'
    BY <1>4, <1>5 DEF BacklinkInvariant, TreesKept
  <1>7. \A t \in Requests : Own(t)'
    BY <1>1, OthersOwn DEF BacklinkInvariant
  <1> QED BY <1>1, <1>6, <1>7 DEF BacklinkInvariant, RowsKept, WritesApart, NoStaleBacklinks

LEMMA ProjectBacklinks ==
  ASSUME TypeInvariant, BacklinkInvariant, NEW t \in Requests, NEW d \in Docs, Project(t, d)
  PROVE  BacklinkInvariant'
  <1> DEFINE c == [kind |-> "project", doc |-> d, tree |-> editor[d].tree]
  <1>1. /\ pc[t] = "new" /\ UNCHANGED <<db, yjs, scanned, listed, draft>>
        /\ \/ /\ call' = [call EXCEPT ![t] = c] /\ todo' = [todo EXCEPT ![t] = editor[d].tree]
              /\ Goto(t, "scan") /\ editor' = editor
           \/ editor' = [editor EXCEPT ![d].saving = FALSE] /\ UNCHANGED <<call, todo, pc>>
    BY DEF Project
  <1>2. /\ editor \in [Docs -> [open : BOOLEAN, tree : Seq(Node), dirty : BOOLEAN, saving : BOOLEAN]]
        /\ Kept(d, editor[d].tree) /\ Own(t)
    BY DEF TypeInvariant, TypeOK, BacklinkInvariant, TreesKept
  <1>3. TreesKept'
    BY <1>1, <1>2 DEF BacklinkInvariant, TreesKept
  <1>4. \A u \in Requests \ {t} : pc'[u] = pc[u] /\ call'[u] = call[u] /\ todo'[u] = todo[u]
    BY <1>1 DEF Goto, TypeInvariant, TypeOK
  <1>5. Own(t)'
    <2>1. CASE /\ call' = [call EXCEPT ![t] = c] /\ todo' = [todo EXCEPT ![t] = editor[d].tree]
               /\ Goto(t, "scan") /\ editor' = editor
      <3>1. pc'[t] = "scan" /\ call'[t].doc = d /\ call'[t].tree = editor[d].tree
        BY <2>1 DEF Goto, TypeInvariant, TypeOK
      <3>2. OwnTrees(t)'
        BY <1>1, <1>2, <3>1 DEF Own, OwnTrees, Doc
      <3> QED BY <1>1, <1>2, <3>1, <3>2, NothingWritten DEF Early
    <2>2. CASE UNCHANGED <<call, todo, pc>>
      BY <1>1, <1>2, <2>2, OthersOwn
    <2> QED BY <1>1, <2>1, <2>2
  <1>6. OnlyDraft(t)
    BY <1>1 DEF OnlyDraft, TypeInvariant
  <1> QED BY <1>1, <1>3, <1>4, <1>5, <1>6, StepKeeps

LEMMA StatementBacklinks ==
  ASSUME TypeInvariant, TreesApart, BacklinkInvariant, NEW t \in Requests,
         Receive(t) \/ Statement(t) \/ Crash(t)
  PROVE  BacklinkInvariant'
  <1>1. /\ Own(t) /\ RowsKept /\ TreesKept /\ NoStaleBacklinks
        /\ draft' = draft => OnlyDraft(t)
    BY DEF BacklinkInvariant, OnlyDraft, TypeInvariant
  <1>2. CASE Commit(t)
    BY <1>2, CommitOwn
  <1>3. CASE Rollback(t) \/ Crash(t)
    <2>1. TypeInvariant' /\ Close(t) /\ db' = db /\ pc[t] \notin {"new", "ended"}
      BY <1>3, FailFacts
    <2>2. astray' \subseteq Docs
      BY <2>1 DEF TypeInvariant, TypeOK
    <2>3. /\ pc'[t] = "ended" /\ OnlyDraft(t) /\ draft'[t] = Nothing
          /\ \A u \in Requests \ {t} : pc'[u] = pc[u]
          /\ \A d \in Docs : editor'[d].tree = editor[d].tree
      BY <2>1, <2>2, CloseTypes
    <2>4. UNCHANGED <<yjs, call, todo, scanned, listed>>
      BY <2>1 DEF Close
    <2>5. Own(t)'
      BY <1>1, <2>1, <2>3, <2>4, EndOwn DEF NoStaleBacklinks
    <2>6. TreesKept'
      BY <1>1, <2>3, <2>4 DEF TreesKept
    <2>7. DOMAIN draft'[t].blocks = {}
      BY <2>3 DEF Nothing
    <2> QED BY <2>1, <2>3, <2>4, <2>5, <2>6, <2>7, StepKeeps
  <1>4. CASE /\ ~Commit(t) /\ ~Rollback(t) /\ ~Crash(t)
    <2>1. /\ db' = db /\ UNCHANGED Collab
          /\ \A u \in Requests \ {t} : /\ pc'[u] = pc[u] /\ call'[u] = call[u] /\ todo'[u] = todo[u]
                                       /\ listed'[u] = listed[u] /\ scanned'[u] = scanned[u]
      <3>1. db' = db /\ UNCHANGED Collab
        BY <1>4 DEF Statement, Receive, Get, Create, Revision, List, Stash, Scan, Sweep, Upsert,
                    ScanRefs, Clear, Refer, Drop, Cascade, DeadlockVictim, Reads
      <3>2. \A next : Goto(t, next) => \A u \in Requests \ {t} : pc'[u] = pc[u]
        BY DEF Goto, TypeInvariant, TypeOK
      <3>3. \E next : Goto(t, next)
        BY <1>4 DEF Statement, Receive, Get, Create, Revision, List, Stash, Scan, Sweep, Upsert,
                    ScanRefs, Clear, Refer, Drop, Cascade, DeadlockVictim
      <3>4. \A u \in Requests \ {t} : call'[u] = call[u] /\ todo'[u] = todo[u]
        BY <1>4 DEF Statement, Receive, Get, Create, Revision, List, Stash, Scan, Sweep, Upsert,
                    ScanRefs, Clear, Refer, Drop, Cascade, DeadlockVictim, TypeInvariant
      <3>5. \A u \in Requests \ {t} : listed'[u] = listed[u] /\ scanned'[u] = scanned[u]
        BY <1>4 DEF Statement, Receive, Get, Create, Revision, List, Stash, Scan, Sweep, Upsert,
                    ScanRefs, Clear, Refer, Drop, Cascade, DeadlockVictim, Reads, TypeInvariant
      <3> QED BY <3>1, <3>2, <3>3, <3>4, <3>5
    <2>2. /\ Own(t)' /\ OnlyDraft(t)
          /\ \A u \in Requests \ {t} : DOMAIN draft'[t].blocks \cap DOMAIN draft[u].blocks
                                         \subseteq DOMAIN draft[t].blocks
      <3>1. CASE \/ Receive(t) \/ Get(t) \/ Scan(t) \/ DeadlockVictim(t) \/ Revision(t) \/ List(t)
                 \/ ScanRefs(t)
        <4>1. Own(t)' /\ draft' = draft
          BY <1>1, <3>1, ReceiveOwn, ReadingOwn, RevisionOwn, ListOwn, ScanRefsOwn
        <4> QED BY <1>1, <4>1
      <3>2. CASE Stash(t) \/ Create(t) \/ Drop(t) \/ Clear(t) \/ Refer(t)
        <4>1. Own(t)' /\ OnlyDraft(t) /\ draft'[t].blocks = draft[t].blocks
          BY <1>1, <3>2, StashOwn, DocOwn, ClearOwn, ReferOwn
        <4> QED BY <4>1
      <3>3. CASE Sweep(t) \/ Cascade(t)
        BY <1>1, <3>3, SweepOwn, CascadeOwn
      <3>4. CASE Upsert(t)
        BY <1>1, <3>4, UpsertOwn
      <3> QED BY <1>4, <3>1, <3>2, <3>3, <3>4 DEF Statement
    <2>3. TreesKept'
      BY <1>1, <2>1 DEF TreesKept, Collab
    <2> QED BY <2>1, <2>2, <2>3, StepKeeps
  <1> QED BY <1>2, <1>3, <1>4

LEMMA BacklinkStep ==
  ASSUME TypeInvariant, TreesApart, BacklinkInvariant, [Next]_vars
  PROVE  BacklinkInvariant'
  <1>1. CASE UNCHANGED vars
    <2>1. \A t \in Requests : Own(t)'
      BY <1>1, OthersOwn DEF BacklinkInvariant, vars
    <2> QED BY <1>1, <2>1 DEF BacklinkInvariant, TreesKept, RowsKept, WritesApart, NoStaleBacklinks, vars
  <1>2. ASSUME NEW t \in Requests, Receive(t) \/ Statement(t) \/ Crash(t) PROVE BacklinkInvariant'
    BY <1>2, StatementBacklinks
  <1>3. ASSUME NEW d \in Docs, NEW t \in Requests, Project(t, d) PROVE BacklinkInvariant'
    BY <1>3, ProjectBacklinks
  <1>4. ASSUME NEW d \in Docs, Open(d) \/ Edit(d) \/ Store(d) \/ Unload(d) \/ LoseServer(d)
        PROVE  BacklinkInvariant'
    BY <1>4, ServerBacklinks
  <1> QED BY <1>1, <1>2, <1>3, <1>4 DEF Next

(* However replace_block_tree, restore_revision, delete_document and the   *)
(* projections of the collaboration server are interleaved, crash and roll *)
(* back, a row of block_entity_ref is of a live block that mentions the    *)
(* entity, if block ids are of one document and a tree names one once.     *)
THEOREM BacklinksNeverStale == TreesApart => (Spec => []NoStaleBacklinks)
  <1> SUFFICES ASSUME TreesApart PROVE Spec => []NoStaleBacklinks
    OBVIOUS
  <1>1. Init => TypeInvariant /\ BacklinkInvariant
    BY TypeInit, BacklinkInit
  <1>2. TypeInvariant /\ BacklinkInvariant /\ [Next]_vars => (TypeInvariant /\ BacklinkInvariant)'
    BY TypeStep, BacklinkStep
  <1>3. BacklinkInvariant => NoStaleBacklinks
    BY DEF BacklinkInvariant
  <1> QED BY <1>1, <1>2, <1>3, PTL DEF Spec

-----------------------------------------------------------------------------
(* Projections *)

LEMMA BlocksOfTypes ==
  ASSUME NEW tree \in Seq(Node)
  PROVE  BlocksOf(tree) \subseteq Blocks
  <1>1. \A i \in 1..Len(tree) : tree[i] \in Node
    OBVIOUS
  <1> QED BY <1>1 DEF BlocksOf, Node

LEMMA ProjectionInit ==
  ASSUME TreesApart, Init
  PROVE  ProjectionInvariant
  <1>1. /\ draft = [t \in Requests |-> Nothing] /\ pc = [t \in Requests |-> "new"]
        /\ yjs = [d \in Docs |-> IF d \in DOMAIN Initial THEN Initial[d] ELSE << >>]
        /\ editor = [d \in Docs |-> Closed]
        /\ db.docs = [d \in Docs |-> IF d \in DOMAIN Initial THEN "live" ELSE "absent"]
    BY DEF Init
  <1>2. \A t \in Requests : WritesDocs(t)
    BY <1>1 DEF WritesDocs, Nothing
  <1>3. \A t \in Requests, d \in Docs : ~ProjectionOf(t, d)
    BY <1>1 DEF ProjectionOf
  <1>4. \A d \in Docs : ~editor[d].saving
    BY <1>1 DEF Closed
  <1>5. ProjectionFollowsStore
    <2> SUFFICES ASSUME NEW d \in Docs, db.docs[d] = "live"
                 PROVE  /\ LiveBlocks(db, d) = BlocksOf(yjs[d])
                        /\ \A i \in 1..Len(yjs[d]) : db.blocks[yjs[d][i].block].mention = yjs[d][i].mention
      BY DEF ProjectionFollowsStore
    <2>1. d \in DOMAIN Initial /\ yjs[d] = Initial[d]
      BY <1>1
    <2>2. Initial[d] \in Seq(Node) /\ BlocksOf(Initial[d]) \subseteq Blocks
      BY <2>1, DocumentAssumption, BlocksOfTypes
    <2>3. LiveBlocks(db, d) = BlocksOf(Initial[d])
      BY <2>1, <2>2, InitialRows DEF LiveBlocks
    <2>4. \A i \in 1..Len(Initial[d]) : db.blocks[Initial[d][i].block].mention = Initial[d][i].mention
      <3> SUFFICES ASSUME NEW i \in 1..Len(Initial[d])
                   PROVE  db.blocks[Initial[d][i].block].mention = Initial[d][i].mention
        OBVIOUS
      <3>1. Initial[d][i].block \in Blocks
        BY <2>2 DEF BlocksOf
      <3> QED BY <2>1, <3>1, InitialRows
    <2> QED BY <2>1, <2>3, <2>4
  <1> QED BY <1>2, <1>3, <1>4, <1>5 DEF ProjectionInvariant

(* Nothing is projected of a document that is not being saved.             *)
LEMMA ServerProjections ==
  ASSUME TypeInvariant, ProjectionInvariant, NEW d \in Docs,
         Open(d) \/ Edit(d) \/ Store(d) \/ Unload(d) \/ LoseServer(d)
  PROVE  ProjectionInvariant'
  <1>1. UNCHANGED <<db, pc, call, todo, scanned, listed, draft>>
    BY DEF Open, Edit, Store, Unload, LoseServer, Quiet
  <1>2. /\ editor \in [Docs -> [open : BOOLEAN, tree : Seq(Node), dirty : BOOLEAN, saving : BOOLEAN]]
        /\ yjs \in [Docs -> Seq(Node)]
    BY DEF TypeInvariant, TypeOK
  <1>3. /\ \A c \in Docs \ {d} : editor'[c] = editor[c] /\ yjs'[c] = yjs[c]
        /\ \A c \in Docs \ {d} : c \in astray' <=> c \in astray
    <2>1. \/ editor' = [editor EXCEPT ![d].open = TRUE, ![d].tree = yjs[d]]
          \/ \E tree \in Drafts[d] : editor' = [editor EXCEPT ![d].tree = tree, ![d].dirty = TRUE]
          \/ editor' = [editor EXCEPT ![d].dirty = FALSE, ![d].saving = TRUE]
          \/ editor' = [editor EXCEPT ![d] = Closed]
      BY DEF Open, Edit, Store, Unload, LoseServer
    <2>2. yjs' = yjs \/ yjs' = [yjs EXCEPT ![d] = IF db.docs[d] = "live" THEN editor[d].tree ELSE @]
      BY DEF Open, Edit, Store, Unload, LoseServer
    <2>3. astray' = astray \/ astray' = astray \ {d} \/ astray' = astray \cup {d}
      BY DEF Open, Edit, Store, Unload, LoseServer
    <2>4. \A c \in Docs \ {d} : editor'[c] = editor[c]
      BY <1>2, <2>1
    <2>5. \A c \in Docs \ {d} : yjs'[c] = yjs[c]
      BY <1>2, <2>2
    <2> QED BY <2>3, <2>4, <2>5
  <1>4. \A t \in Requests, c \in Docs : ProjectionOf(t, c)' <=> ProjectionOf(t, c)
    BY <1>1 DEF ProjectionOf, Doc
  <1>5. \A t \in Requests : ProjectionOf(t, d) => Projecting(d)
    <2> SUFFICES ASSUME NEW t \in Requests, ProjectionOf(t, d) PROVE Projecting(d)
      OBVIOUS
    <2>1. pc[t] # "new" /\ pc[t] # "ended" /\ call[t].kind = "project" /\ Doc(t) = d
      BY DEF ProjectionOf
    <2>2. call[t] # NoCall
      BY <2>1, CallTypes, DocumentAssumption
    <2> QED BY <2>1, <2>2 DEF Projecting
  <1>6. /\ \A t \in Requests : ProjectionOf(t, d) => Projects(t, d)'
        /\ Led(d)' /\ editor'[d].saving /\ ~editor'[d].dirty => editor'[d].tree = yjs'[d]
        /\ Led(d)' /\ ~editor'[d].saving /\ ~editor'[d].dirty =>
             Led(d) /\ ~editor[d].saving /\ ~editor[d].dirty /\ yjs'[d] = yjs[d]
    <2>0. /\ \A t \in Requests : ProjectionOf(t, d) => Projects(t, d)
          /\ Led(d) /\ editor[d].saving /\ ~editor[d].dirty => editor[d].tree = yjs[d]
          /\ editor[d].saving \in BOOLEAN /\ editor[d].dirty \in BOOLEAN
      BY <1>2 DEF ProjectionInvariant
    <2>1. CASE Open(d)
      <3>1. /\ editor' = [editor EXCEPT ![d].open = TRUE, ![d].tree = yjs[d]]
            /\ yjs' = yjs /\ astray' = astray
        BY <2>1 DEF Open
      <3>2. /\ editor'[d].tree = yjs[d] /\ editor'[d].dirty = editor[d].dirty
            /\ editor'[d].saving = editor[d].saving
        BY <1>2, <3>1
      <3> QED BY <1>1, <2>0, <3>1, <3>2 DEF Projects, Led, Rebuilding
    <2>2. CASE Edit(d)
      <3>1. PICK tree \in Drafts[d] : editor' = [editor EXCEPT ![d].tree = tree, ![d].dirty = TRUE]
        BY <2>2 DEF Edit
      <3>2. editor'[d].dirty = TRUE /\ editor'[d].saving = editor[d].saving
        BY <1>2, <3>1
      <3>3. astray' = astray
        BY <2>2 DEF Edit
      <3> QED BY <1>1, <2>0, <3>2, <3>3 DEF Projects, Led, Rebuilding
    <2>3. CASE Store(d)
      <3>1. /\ editor' = [editor EXCEPT ![d].dirty = FALSE, ![d].saving = TRUE]
            /\ yjs' = [yjs EXCEPT ![d] = IF db.docs[d] = "live" THEN editor[d].tree ELSE @]
            /\ ~editor[d].saving
        BY <2>3 DEF Store, Stores
      <3>2. editor'[d].saving = TRUE /\ editor'[d].tree = editor[d].tree
        BY <1>2, <3>1
      <3>3. \A t \in Requests : ~ProjectionOf(t, d)
        BY <2>0, <3>1 DEF Projects
      <3>4. db.docs[d] = "live" => yjs'[d] = editor[d].tree
        BY <1>2, <3>1
      <3> QED BY <1>1, <3>2, <3>3, <3>4 DEF Led
    <2>4. CASE Unload(d) \/ LoseServer(d)
      <3>1. /\ editor' = [editor EXCEPT ![d] = Closed] /\ yjs' = yjs
            /\ \/ ~editor[d].dirty /\ ~editor[d].saving /\ astray' = astray
               \/ ~Projecting(d)
            /\ \/ ~editor[d].dirty /\ ~editor[d].saving /\ astray' = astray
               \/ astray' = astray \cup {d}
        BY <2>4 DEF Unload, LoseServer
      <3>2. editor'[d].saving = FALSE /\ editor'[d].dirty = FALSE
        BY <1>2, <3>1 DEF Closed
      <3>3. \A t \in Requests : ~ProjectionOf(t, d)
        BY <1>5, <2>0, <3>1 DEF Projects
      <3> QED BY <1>1, <3>1, <3>2, <3>3 DEF Led
    <2> QED BY <2>1, <2>2, <2>3, <2>4
  <1>7. \A c \in Docs \ {d} : Led(c)' <=> Led(c)
    BY <1>1, <1>3 DEF Led
  <1>8. \A t \in Requests, c \in Docs \ {d} : ProjectionOf(t, c) => Projects(t, c)'
    BY <1>1, <1>3, <1>7 DEF ProjectionInvariant, Projects, Rebuilding
  <1>9. \A t \in Requests : WritesDocs(t)'
    BY <1>1 DEF ProjectionInvariant, WritesDocs, Doc
  <1>10. ProjectionFollowsStore'
    <2> SUFFICES ASSUME NEW c \in Docs, Led(c)', ~editor'[c].dirty, ~editor'[c].saving
                 PROVE  /\ LiveBlocks(db', c) = BlocksOf(yjs'[c])
                        /\ \A i \in 1..Len(yjs'[c]) :
                             db'.blocks[yjs'[c][i].block].mention = yjs'[c][i].mention
      BY DEF ProjectionFollowsStore, Led
    <2>1. Led(c) /\ ~editor[c].dirty /\ ~editor[c].saving /\ yjs'[c] = yjs[c]
      BY <1>3, <1>6, <1>7
    <2> QED BY <1>1, <2>1 DEF ProjectionInvariant, ProjectionFollowsStore, Led
  <1>11. \A c \in Docs : Led(c)' /\ editor'[c].saving /\ ~editor'[c].dirty => editor'[c].tree = yjs'[c]
    BY <1>3, <1>6, <1>7 DEF ProjectionInvariant
  <1>12. \A t \in Requests, c \in Docs : ProjectionOf(t, c)' => Projects(t, c)'
    BY <1>4, <1>6, <1>8
  <1>13. \A t, u \in Requests, c \in Docs : ProjectionOf(t, c)' /\ ProjectionOf(u, c)' => t = u
    BY <1>4 DEF ProjectionInvariant
  <1> QED BY <1>9, <1>10, <1>11, <1>12, <1>13 DEF ProjectionInvariant

LEMMA ProjectsOn ==
  ASSUME NEW u \in Requests, NEW d \in Docs, Projects(u, d), db' = db, yjs' = yjs,
         editor' = editor, astray' = astray, pc'[u] = pc[u], call'[u] = call[u],
         scanned'[u] = scanned[u], draft'[u] = draft[u]
  PROVE  Projects(u, d)'
  <1>1. Led(d)' <=> Led(d)
    BY DEF Led
  <1>2. editor'[d].saving /\ (Led(d)' /\ ~editor'[d].dirty => call'[u].tree = yjs'[d])
    BY <1>1 DEF Projects
  <1>3. Led(d)' /\ pc'[u] = "sweep" => scanned'[u] = Leaving(db', d, call'[u].tree)
    BY <1>1 DEF Projects
  <1>4. Led(d)' /\ pc'[u] \in {"upsert", "done"} \cup Rebuilding =>
          \A b \in Blocks :
            RowSeen(db', draft'[u], b).doc = d /\ RowSeen(db', draft'[u], b).state = "live"
              => b \in BlocksOf(call'[u].tree)
    BY <1>1 DEF Projects
  <1> QED BY <1>2, <1>3, <1>4 DEF Projects

(* A projection begins with what the server has stored, unless it was      *)
(* edited since.                                                           *)
LEMMA ProjectProjections ==
  ASSUME TypeInvariant, BacklinkInvariant, ProjectionInvariant,
         NEW t \in Requests, NEW d \in Docs, Project(t, d)
  PROVE  ProjectionInvariant'
  <1> DEFINE c == [kind |-> "project", doc |-> d, tree |-> editor[d].tree]
  <1>1. /\ pc[t] = "new" /\ UNCHANGED <<db, yjs, astray, scanned, draft>>
        /\ editor[d].saving /\ ~Projecting(d)
        /\ \/ /\ call' = [call EXCEPT ![t] = c] /\ Goto(t, "scan") /\ editor' = editor
           \/ /\ db.docs[d] # "live"
              /\ editor' = [editor EXCEPT ![d].saving = FALSE] /\ UNCHANGED <<call, pc>>
    BY DEF Project
  <1>2. editor \in [Docs -> [open : BOOLEAN, tree : Seq(Node), dirty : BOOLEAN, saving : BOOLEAN]]
    BY DEF TypeInvariant, TypeOK
  <1>3. \A u \in Requests : ~ProjectionOf(u, d)
    <2> SUFFICES ASSUME NEW u \in Requests, ProjectionOf(u, d) PROVE FALSE
      OBVIOUS
    <2>1. pc[u] # "new" /\ pc[u] # "ended" /\ call[u].kind = "project" /\ Doc(u) = d
      BY DEF ProjectionOf
    <2>2. call[u] # NoCall
      BY <2>1, CallTypes, DocumentAssumption
    <2> QED BY <1>1, <2>1, <2>2 DEF Projecting
  <1>4. DOMAIN draft[t].docs = {} /\ DOMAIN draft[t].blocks = {} /\ ~ProjectionOf(t, d)
    BY <1>1, <1>3 DEF ProjectionInvariant, WritesDocs, BacklinkInvariant, Own, OwnRows, Early
  <1>5. CASE call' = [call EXCEPT ![t] = c] /\ Goto(t, "scan") /\ editor' = editor
    <2>1. /\ pc'[t] = "scan" /\ call'[t] = c
          /\ \A u \in Requests \ {t} : pc'[u] = pc[u] /\ call'[u] = call[u]
      BY <1>5 DEF Goto, TypeInvariant, TypeOK
    <2>2. call'[t].kind = "project" /\ call'[t].doc = d /\ call'[t].tree = editor[d].tree
      BY <2>1
    <2> HIDE DEF c
    <2>3. /\ \A u \in Requests \ {t}, e \in Docs : ProjectionOf(u, e)' <=> ProjectionOf(u, e)
          /\ \A e \in Docs : ProjectionOf(t, e)' <=> e = d
      BY <2>1, <2>2 DEF ProjectionOf, Doc
    <2>4. \A e \in Docs : Led(e)' <=> Led(e)
      BY <1>1 DEF Led
    <2>5. Projects(t, d)'
      BY <1>1, <1>5, <2>1, <2>2, <2>4 DEF Projects, Rebuilding, ProjectionInvariant
    <2>6. \A u \in Requests \ {t}, e \in Docs : ProjectionOf(u, e) => Projects(u, e)'
      BY <1>1, <1>5, <2>1, ProjectsOn DEF ProjectionInvariant
    <2>7. WritesDocs(t)'
      BY <1>1, <1>4, <2>1, <2>2 DEF WritesDocs
    <2>8. \A u \in Requests \ {t} : WritesDocs(u)'
      BY <1>1, <2>1 DEF ProjectionInvariant, WritesDocs, Doc
    <2>9. \A u, v \in Requests, e \in Docs : ProjectionOf(u, e)' /\ ProjectionOf(v, e)' => u = v
      BY <1>3, <2>3 DEF ProjectionInvariant
    <2>10. \A u \in Requests, e \in Docs : ProjectionOf(u, e)' => Projects(u, e)'
      BY <2>3, <2>5, <2>6
    <2>11. \A u \in Requests : WritesDocs(u)'
      BY <2>7, <2>8
    <2>12. /\ ProjectionFollowsStore'
           /\ \A e \in Docs : Led(e)' /\ editor'[e].saving /\ ~editor'[e].dirty => editor'[e].tree = yjs'[e]
      BY <1>1, <1>5, <2>4 DEF ProjectionInvariant, ProjectionFollowsStore
    <2> QED BY <2>9, <2>10, <2>11, <2>12 DEF ProjectionInvariant
  <1>6. CASE db.docs[d] # "live" /\ editor' = [editor EXCEPT ![d].saving = FALSE] /\ UNCHANGED <<call, pc>>
    <2>1. /\ \A e \in Docs \ {d} : editor'[e] = editor[e]
          /\ ~Led(d) /\ ~Led(d)'
      BY <1>1, <1>2, <1>6 DEF Led
    <2>2. \A e \in Docs : Led(e)' <=> Led(e)
      BY <1>1 DEF Led
    <2>3. \A u \in Requests, e \in Docs : ProjectionOf(u, e)' <=> ProjectionOf(u, e)
      BY <1>6 DEF ProjectionOf, Doc
    <2>4. \A u \in Requests, e \in Docs \ {d} : ProjectionOf(u, e) => Projects(u, e)'
      BY <1>1, <1>6, <2>1, <2>2 DEF ProjectionInvariant, Projects, Rebuilding
    <2>5. \A u \in Requests, e \in Docs : ProjectionOf(u, e)' => Projects(u, e)'
      BY <1>3, <2>3, <2>4
    <2>6. \A u \in Requests : WritesDocs(u)'
      BY <1>1, <1>6 DEF ProjectionInvariant, WritesDocs, Doc
    <2>7. \A e \in Docs : Led(e)' /\ editor'[e].saving /\ ~editor'[e].dirty => editor'[e].tree = yjs'[e]
      BY <1>1, <2>1, <2>2 DEF ProjectionInvariant
    <2>8. ProjectionFollowsStore'
      BY <1>1, <1>6, <2>1 DEF ProjectionInvariant, ProjectionFollowsStore, Led
    <2>9. \A u, v \in Requests, e \in Docs : ProjectionOf(u, e)' /\ ProjectionOf(v, e)' => u = v
      BY <2>3 DEF ProjectionInvariant
    <2> QED BY <2>5, <2>6, <2>7, <2>8, <2>9 DEF ProjectionInvariant
  <1> QED BY <1>1, <1>5, <1>6

(* A request, while it goes on. *)
LEMMA GoesOn ==
  ASSUME ProjectionInvariant, NEW t \in Requests, OnlyDraft(t),
         UNCHANGED <<db, yjs, editor, astray>>,
         \A u \in Requests \ {t} : pc'[u] = pc[u] /\ call'[u] = call[u] /\ scanned'[u] = scanned[u],
         WritesDocs(t)',
         \A d \in Docs : ProjectionOf(t, d)' => ProjectionOf(t, d) /\ Projects(t, d)'
  PROVE  ProjectionInvariant'
  <1>1. \A d \in Docs : Led(d)' <=> Led(d)
    BY DEF Led
  <1>2. \A u \in Requests \ {t}, d \in Docs : ProjectionOf(u, d)' <=> ProjectionOf(u, d)
    BY DEF ProjectionOf, Doc
  <1>3. \A u \in Requests \ {t}, d \in Docs : Projects(u, d) => Projects(u, d)'
    BY ProjectsOn DEF OnlyDraft
  <1>4. \A u \in Requests \ {t} : WritesDocs(u)'
    BY DEF ProjectionInvariant, WritesDocs, OnlyDraft, Doc
  <1>5. \A u \in Requests : WritesDocs(u)'
    BY <1>4
  <1>6. \A u \in Requests, d \in Docs : ProjectionOf(u, d)' => Projects(u, d)'
    BY <1>2, <1>3 DEF ProjectionInvariant
  <1>7. \A u, v \in Requests, d \in Docs : ProjectionOf(u, d)' /\ ProjectionOf(v, d)' => u = v
    BY <1>2 DEF ProjectionInvariant
  <1>8. /\ ProjectionFollowsStore'
        /\ \A d \in Docs : Led(d)' /\ editor'[d].saving /\ ~editor'[d].dirty => editor'[d].tree = yjs'[d]
    BY <1>1 DEF ProjectionInvariant, ProjectionFollowsStore
  <1> QED BY <1>5, <1>6, <1>7, <1>8 DEF ProjectionInvariant

LEMMA DocsStay ==
  ASSUME NEW t \in Requests, WritesDocs(t), OwnRows(t), draft'[t].docs = draft[t].docs,
         draft'[t].blocks = draft[t].blocks, pc'[t] \notin {"new", "ended", "cascade"},
         pc[t] = "new" \/ (call'[t].kind = call[t].kind /\ Doc(t)' = Doc(t))
  PROVE  WritesDocs(t)'
  <1>1. CASE pc[t] = "new"
    <2>1. DOMAIN draft[t].docs = {} /\ DOMAIN draft[t].blocks = {}
      BY <1>1 DEF WritesDocs, OwnRows, Early
    <2> QED BY <2>1 DEF WritesDocs
  <1>2. CASE pc[t] # "new"
    BY <1>2 DEF WritesDocs
  <1> QED BY <1>1, <1>2

(* Requests that are no projections. *)
LEMMA OtherStatements ==
  ASSUME TypeInvariant, BacklinkInvariant, ProjectionInvariant, NEW t \in Requests,
         \/ Receive(t) \/ Get(t) \/ Create(t) \/ Revision(t) \/ List(t) \/ Stash(t) \/ Drop(t) \/ Cascade(t)
  PROVE  WritesDocs(t)' /\ \A d \in Docs : ~ProjectionOf(t, d)'
  <1>1. Control(t) /\ WritesDocs(t) /\ OwnRows(t)
    BY DEF TypeInvariant, ProjectionInvariant, BacklinkInvariant, Own
  <1>2. \A next : Goto(t, next) => pc'[t] = next
    BY DEF Goto, TypeInvariant, TypeOK
  <1>3. CASE Receive(t)
    <2>1. PICK c \in Calls :
            /\ pc[t] = "new" /\ call' = [call EXCEPT ![t] = c] /\ draft' = draft
            /\ Goto(t, IF c.kind = "upload" THEN "create" ELSE "get")
      BY <1>3 DEF Receive, Reads
    <2>2. call'[t] = c /\ c.kind # "project" /\ pc'[t] \in {"create", "get"}
      BY <1>2, <2>1, DocumentAssumption DEF TypeInvariant
    <2> QED BY <1>1, <2>1, <2>2, DocsStay DEF ProjectionOf
  <1>4. CASE Get(t)
    <2>1. pc[t] = "get" /\ call' = call /\ draft' = draft
      BY <1>4 DEF Get, Reads
    <2>2. pc'[t] \in {"failed", "scan", "list", "revision", "drop"}
      BY <1>1, <1>2, <1>4, <2>1 DEF Get, Control
    <2>3. call[t].kind # "project"
      BY <1>1, <2>1 DEF Control
    <2> QED BY <1>1, <2>1, <2>2, <2>3, DocsStay DEF ProjectionOf, Doc
  <1>5. CASE Create(t)
    <2>1. /\ pc[t] = "create" /\ pc'[t] = "scan" /\ draft'[t].blocks = draft[t].blocks
          /\ draft'[t].docs = Overlay(draft[t].docs, [d \in {Doc(t)} |-> "live"])
      BY <1>5, CreateWrites
    <2>2. call' = call /\ call[t].kind = "upload"
      BY <1>1, <1>5, <2>1 DEF Create, Control
    <2>3. \A d \in DOMAIN draft'[t].docs : d = Doc(t)
      BY <1>1, <2>1 DEF Overlay, WritesDocs
    <2>4. WritesDocs(t)'
      BY <2>1, <2>2, <2>3 DEF WritesDocs, Doc
    <2> QED BY <2>2, <2>4 DEF ProjectionOf
  <1>6. CASE Revision(t)
    <2>1. /\ pc[t] = "revision" /\ pc'[t] \in {"list", "failed"} /\ draft' = draft
          /\ call'[t].kind = call[t].kind /\ Doc(t)' = Doc(t)
      BY <1>6, RevisionTypes DEF Reads
    <2>2. call[t].kind # "project"
      BY <1>1, <2>1 DEF Control, Rebuilding
    <2> QED BY <1>1, <2>1, <2>2, DocsStay DEF ProjectionOf
  <1>7. CASE List(t) \/ Stash(t)
    <2>1. /\ pc[t] \in {"list", "stash"} /\ pc'[t] \in {"stash", "failed", "done", "scan"}
          /\ draft'[t].docs = draft[t].docs /\ draft'[t].blocks = draft[t].blocks
      BY <1>7, ListTypes, StashWrites DEF List
    <2>2. call' = call /\ call[t].kind # "project"
      BY <1>1, <1>7, <2>1 DEF List, Stash, Control, Rebuilding
    <2> QED BY <1>1, <2>1, <2>2, DocsStay DEF ProjectionOf, Doc
  <1>8. CASE Drop(t)
    <2>1. /\ pc[t] = "drop" /\ pc'[t] \in {"done", "cascade"} /\ draft'[t].blocks = draft[t].blocks
          /\ pc'[t] = "done" => draft'[t].docs = draft[t].docs
          /\ pc'[t] = "cascade" =>
               draft'[t].docs = Overlay(draft[t].docs, [d \in {Doc(t)} |-> "gone"])
      BY <1>8, DropWrites
    <2>2. call' = call /\ call[t].kind = "delete"
      BY <1>1, <1>8, <2>1 DEF Drop, Control
    <2>3. CASE pc'[t] = "done"
      BY <1>1, <2>1, <2>2, <2>3, DocsStay DEF ProjectionOf, Doc
    <2>4. CASE pc'[t] = "cascade"
      <3>1. /\ \A d \in DOMAIN draft'[t].docs : d = Doc(t)
            /\ Doc(t) \in DOMAIN draft'[t].docs /\ draft'[t].docs[Doc(t)] = "gone"
        BY <1>1, <2>1, <2>4 DEF Overlay, WritesDocs
      <3>2. WritesDocs(t)'
        BY <2>2, <2>4, <3>1 DEF WritesDocs, Doc
      <3> QED BY <2>2, <3>2 DEF ProjectionOf
    <2> QED BY <2>1, <2>3, <2>4
  <1>9. CASE Cascade(t)
    <2>1. pc[t] = "cascade" /\ pc'[t] = "done" /\ draft'[t].docs = draft[t].docs
      BY <1>9, CascadeWrites
    <2>2. call' = call /\ call[t].kind = "delete"
      BY <1>1, <1>9, <2>1 DEF Cascade, Control
    <2>3. WritesDocs(t)'
      BY <1>1, <2>1, <2>2 DEF WritesDocs, Doc
    <2> QED BY <2>2, <2>3 DEF ProjectionOf
  <1> QED BY <1>3, <1>4, <1>5, <1>6, <1>7, <1>8, <1>9

(* The statements of a projection; others go through them, too.            *)
LEMMA SweepProjects ==
  ASSUME TypeInvariant, BacklinkInvariant, ProjectionInvariant, NEW t \in Requests, Sweep(t)
  PROVE  WritesDocs(t)' /\ \A d \in Docs : ProjectionOf(t, d)' => ProjectionOf(t, d) /\ Projects(t, d)'
  <1>1. PICK rows :
          /\ pc[t] = "sweep" /\ Blockers(t) = {} /\ OnlyDraft(t) /\ DraftOK(draft'[t])
          /\ draft'[t].blocks = Overlay(draft[t].blocks, rows)
          /\ draft'[t].docs = draft[t].docs /\ draft'[t].refs = draft[t].refs
          /\ draft'[t].revisions = draft[t].revisions
          /\ DOMAIN rows = scanned[t] \cap LiveBlocks(View(t), Doc(t))
          /\ \A b \in DOMAIN rows : rows[b] = [View(t).blocks[b] EXCEPT !.state = "deleted"]
          /\ pc'[t] = IF todo[t] = << >> THEN "scan refs" ELSE "upsert"
    BY SweepWrites, Zenon
  <1>2. /\ call' = call /\ UNCHANGED <<db, yjs, editor, astray>>
        /\ pc'[t] \in {"scan refs", "upsert"}
    BY <1>1 DEF Sweep, Collab
  <1>3. Control(t) /\ WritesDocs(t) /\ DOMAIN draft[t].blocks = {}
    BY <1>1 DEF TypeInvariant, ProjectionInvariant, BacklinkInvariant, Own, OwnRows, Early
  <1>4. call[t].kind \notin {"save", "delete"}
    BY <1>1, <1>3 DEF Control
  <1>5. WritesDocs(t)'
    BY <1>1, <1>2, <1>3, <1>4 DEF WritesDocs, Doc
  <1>6. ASSUME NEW d \in Docs, ProjectionOf(t, d)'
        PROVE  ProjectionOf(t, d) /\ Projects(t, d)'
    <2>1. ProjectionOf(t, d) /\ d = Doc(t) /\ (Led(d)' <=> Led(d))
      BY <1>1, <1>2, <1>6 DEF ProjectionOf, Doc, Led
    <2>2. Projects(t, d)
      BY <2>1 DEF ProjectionInvariant
    <2>3. ASSUME Led(d), NEW b \in Blocks,
                 RowSeen(db, draft'[t], b).doc = d, RowSeen(db, draft'[t], b).state = "live"
          PROVE  b \in BlocksOf(call[t].tree)
      <3>1. scanned[t] = LiveBlocks(db, d) \ BlocksOf(call[t].tree)
        BY <1>1, <2>2, <2>3 DEF Projects, Leaving
      <3>2. \A x \in Blocks : View(t).blocks[x] = db.blocks[x] /\ View(t).blocks[x] \in Row
        BY <1>3, Seen, ViewTypes DEF RowSeen
      <3>3. LiveBlocks(View(t), d) = LiveBlocks(db, d)
        BY <3>2 DEF LiveBlocks
      <3>4. DOMAIN rows = LiveBlocks(db, d) \ BlocksOf(call[t].tree)
        BY <1>1, <2>1, <3>1, <3>3
      <3>5. CASE b \in DOMAIN rows
        <4>1. draft'[t].blocks[b] = [View(t).blocks[b] EXCEPT !.state = "deleted"]
          BY <1>1, <3>5 DEF Overlay
        <4>2. RowSeen(db, draft'[t], b).state = "deleted"
          <5>1. [View(t).blocks[b] EXCEPT !.state = "deleted"].state = "deleted"
            BY <3>2, RowState
          <5>2. b \in DOMAIN draft'[t].blocks
            BY <1>1, <3>5 DEF Overlay
          <5> QED BY <4>1, <5>1, <5>2 DEF RowSeen
        <4> QED BY <2>3, <4>2
      <3>6. CASE b \notin DOMAIN rows
        <4>1. RowSeen(db, draft'[t], b) = db.blocks[b]
          BY <1>1, <1>3, <3>6 DEF RowSeen, Overlay
        <4> QED BY <2>3, <3>4, <3>6, <4>1 DEF LiveBlocks
      <3> QED BY <3>5, <3>6
    <2>4. Projects(t, d)'
      BY <1>2, <2>1, <2>2, <2>3 DEF Projects
    <2> QED BY <2>1, <2>4
  <1> QED BY <1>5, <1>6

LEMMA RestProjects ==
  ASSUME TypeInvariant, BacklinkInvariant, ProjectionInvariant, NEW t \in Requests,
         Scan(t) \/ Upsert(t) \/ ScanRefs(t) \/ Clear(t) \/ Refer(t) \/ DeadlockVictim(t)
  PROVE  WritesDocs(t)' /\ \A d \in Docs : ProjectionOf(t, d)' => ProjectionOf(t, d) /\ Projects(t, d)'
  <1>1. Control(t) /\ WritesDocs(t) /\ OwnRows(t)
    BY DEF TypeInvariant, ProjectionInvariant, BacklinkInvariant, Own
  <1>2. \A next : Goto(t, next) => pc'[t] = next
    BY DEF Goto, TypeInvariant, TypeOK
  <1>3. call' = call /\ UNCHANGED <<db, yjs, editor, astray>>
    BY DEF Scan, Upsert, ScanRefs, Clear, Refer, DeadlockVictim, Reads, Collab
  <1>4. \A d \in Docs : Led(d)' <=> Led(d)
    BY <1>3 DEF Led
  <1>5. ASSUME pc[t] \notin {"new", "ended"}, pc'[t] \in {"clear", "refer", "done", "failed"},
               pc'[t] # "failed" => pc[t] \in Rebuilding,
               draft'[t].docs = draft[t].docs, draft'[t].blocks = draft[t].blocks
        PROVE  WritesDocs(t)' /\ \A d \in Docs : ProjectionOf(t, d)' => ProjectionOf(t, d) /\ Projects(t, d)'
    <2>1. WritesDocs(t)'
      BY <1>1, <1>3, <1>5, DocsStay DEF Doc
    <2>2. ASSUME NEW d \in Docs, ProjectionOf(t, d)' PROVE ProjectionOf(t, d) /\ Projects(t, d)'
      <3>1. ProjectionOf(t, d)
        BY <1>3, <1>5, <2>2 DEF ProjectionOf, Doc
      <3>2. Projects(t, d)
        BY <3>1 DEF ProjectionInvariant
      <3>3. Led(d)' /\ ~editor'[d].dirty => call'[t].tree = yjs'[d]
        BY <1>3, <1>4, <3>2 DEF Projects
      <3>4. Led(d)' /\ pc'[t] # "failed" =>
              \A b \in Blocks :
                RowSeen(db', draft'[t], b).doc = d /\ RowSeen(db', draft'[t], b).state = "live"
                  => b \in BlocksOf(call'[t].tree)
        BY <1>3, <1>4, <1>5, <3>2 DEF Projects, RowSeen
      <3>5. editor'[d].saving
        BY <1>3, <3>2 DEF Projects
      <3> QED BY <1>5, <3>1, <3>3, <3>4, <3>5 DEF Projects, Rebuilding
    <2> QED BY <2>1, <2>2
  <1>6. CASE Scan(t)
    <2>1. /\ pc[t] = "scan" /\ pc'[t] = "sweep" /\ draft' = draft
          /\ scanned'[t] = Leaving(View(t), Doc(t), call[t].tree)
      BY <1>2, <1>6 DEF Scan, Reads, TypeInvariant
    <2>2. WritesDocs(t)'
      BY <1>1, <1>3, <2>1, DocsStay DEF Doc
    <2>3. ASSUME NEW d \in Docs, ProjectionOf(t, d)' PROVE ProjectionOf(t, d) /\ Projects(t, d)'
      <3>1. ProjectionOf(t, d) /\ Doc(t) = d
        BY <1>3, <2>1, <2>3 DEF ProjectionOf, Doc
      <3>2. Projects(t, d)
        BY <3>1 DEF ProjectionInvariant
      <3>3. DOMAIN draft[t].blocks = {}
        BY <1>1, <2>1 DEF OwnRows, Early
      <3>4. LiveBlocks(View(t), d) = LiveBlocks(db, d)
        BY <3>3, Seen DEF LiveBlocks, RowSeen
      <3>5. scanned'[t] = Leaving(db, d, call[t].tree)
        BY <2>1, <3>1, <3>4 DEF Leaving
      <3> QED BY <1>3, <1>4, <2>1, <3>1, <3>2, <3>5 DEF Projects, Rebuilding
    <2> QED BY <2>2, <2>3
  <1>7. CASE ScanRefs(t)
    <2>1. pc[t] = "scan refs" /\ pc'[t] = "clear" /\ draft' = draft
      BY <1>2, <1>7 DEF ScanRefs, Reads
    <2> QED BY <1>5, <2>1 DEF Rebuilding
  <1>8. CASE Clear(t)
    <2>1. /\ pc[t] = "clear" /\ pc'[t] \in {"refer", "failed"}
          /\ draft'[t].docs = draft[t].docs /\ draft'[t].blocks = draft[t].blocks
      BY <1>8, ClearWrites
    <2> QED BY <1>5, <2>1 DEF Rebuilding
  <1>9. CASE Refer(t)
    <2>1. pc[t] = "refer"
      BY <1>9 DEF Refer
    <2>2. pc'[t] = "failed" => draft' = draft
      BY <1>2, <1>9 DEF Refer
    <2>3. pc'[t] # "failed" =>
            /\ pc'[t] = "done"
            /\ draft'[t].docs = draft[t].docs /\ draft'[t].blocks = draft[t].blocks
      BY <1>9, ReferWrites
    <2> QED BY <1>5, <2>1, <2>2, <2>3 DEF Rebuilding
  <1>10. CASE DeadlockVictim(t)
    <2>1. Blockers(t) # {}
      BY <1>10 DEF DeadlockVictim, Deadlocked
    <2>2. pc[t] \notin {"new", "ended"}
      BY <2>1 DEF Blockers
    <2>3. pc'[t] = "failed" /\ draft' = draft
      BY <1>2, <1>10 DEF DeadlockVictim, Reads
    <2> QED BY <1>5, <2>2, <2>3
  <1>11. CASE Upsert(t)
    <2>1. pc[t] = "upsert"
      BY <1>11 DEF Upsert
    <2>2. CASE pc'[t] = "failed"
      <3>1. draft' = draft
        BY <1>2, <1>11, <2>2 DEF Upsert
      <3> QED BY <1>5, <2>1, <2>2, <3>1
    <2>3. CASE pc'[t] # "failed"
      <3> DEFINE node == todo[t][1]
      <3>1. /\ draft'[t].docs = draft[t].docs
            /\ DOMAIN draft'[t].blocks = DOMAIN draft[t].blocks \cup {node.block}
            /\ \A b \in DOMAIN draft[t].blocks \ {node.block} : draft'[t].blocks[b] = draft[t].blocks[b]
            /\ pc'[t] \in {"scan refs", "upsert"}
        BY <1>11, <2>3, UpsertWrites
      <3>2. call[t].kind \notin {"save", "delete"}
        BY <1>1, <2>1 DEF Control
      <3>3. WritesDocs(t)'
        BY <1>1, <1>3, <2>1, <3>1, <3>2 DEF WritesDocs, Doc
      <3>4. node.block \in BlocksOf(call[t].tree)
        <4>1. /\ todo[t] \in Seq(Node) /\ todo[t] # << >> /\ call[t].tree \in Seq(Node)
              /\ Len(todo[t]) <= Len(call[t].tree)
              /\ \A k \in 1..Len(todo[t]) :
                   todo[t][k] = call[t].tree[Len(call[t].tree) - Len(todo[t]) + k]
          BY <1>1, <2>1, CallTypes DEF Control
        <4> QED BY <4>1, FirstToDo
      <3> HIDE DEF node
      <3>5. ASSUME NEW d \in Docs, ProjectionOf(t, d)' PROVE ProjectionOf(t, d) /\ Projects(t, d)'
        <4>1. ProjectionOf(t, d)
          BY <1>3, <2>1, <3>5 DEF ProjectionOf, Doc
        <4>2. Projects(t, d)
          BY <4>1 DEF ProjectionInvariant
        <4>3. ASSUME Led(d), NEW b \in Blocks,
                     RowSeen(db, draft'[t], b).doc = d, RowSeen(db, draft'[t], b).state = "live"
              PROVE  b \in BlocksOf(call[t].tree)
          <5>1. CASE b = node.block
            BY <3>4, <5>1
          <5>2. CASE b # node.block
            <6>1. RowSeen(db, draft'[t], b) = RowSeen(db, draft[t], b)
              BY <3>1, <5>2 DEF RowSeen
            <6> QED BY <2>1, <4>2, <4>3, <6>1 DEF Projects
          <5> QED BY <5>1, <5>2
        <4>4. /\ editor'[d].saving /\ (Led(d)' /\ ~editor'[d].dirty => call'[t].tree = yjs'[d])
              /\ pc'[t] # "sweep"
          BY <1>3, <1>4, <3>1, <4>2 DEF Projects
        <4>5. Projects(t, d)'
          BY <1>3, <1>4, <4>3, <4>4 DEF Projects
        <4> QED BY <4>1, <4>5
      <3> QED BY <3>3, <3>5
    <2> QED BY <2>2, <2>3
  <1> QED BY <1>6, <1>7, <1>8, <1>9, <1>10, <1>11

(* A commit of anything but a projection of d leaves d's rows as they are, *)
(* or d is astray.                                                         *)
LEMMA CommitRows ==
  ASSUME TypeInvariant, TreesApart, BacklinkInvariant, ProjectionInvariant,
         NEW t \in Requests, Commit(t), NEW d \in Docs, Led(d)'
  PROVE  /\ Led(d)
         /\ ~ProjectionOf(t, d) => \A b \in Blocks :
              /\ db'.blocks[b].state = "live" /\ db'.blocks[b].doc = d <=>
                   db.blocks[b].state = "live" /\ db.blocks[b].doc = d
              /\ b \in Home(d) => db'.blocks[b] = db.blocks[b]
  <1>1. /\ pc[t] = "done" /\ db'.docs = View(t).docs /\ db'.blocks = View(t).blocks
        /\ astray' = IF call[t].kind \in {"put", "upload", "restore"} THEN astray \cup {Doc(t)} ELSE astray
    BY CommitFacts
  <1>2. WritesDocs(t) /\ OwnRows(t) /\ RowsKept /\ DraftOK(draft[t])
    BY DEF ProjectionInvariant, BacklinkInvariant, Own, TypeInvariant
  <1>3. call[t] \in Call /\ Doc(t) \in Docs
    BY <1>1, CallTypes
  <1>4. db'.docs[d] = "live" /\ d \notin astray'
    BY DEF Led
  <1>5. d \notin DOMAIN draft[t].docs /\ db.docs[d] = "live"
    <2>1. db'.docs[d] = IF d \in DOMAIN draft[t].docs THEN draft[t].docs[d] ELSE db.docs[d]
      BY <1>1 DEF View, Overlay, TypeInvariant, TypeOK
    <2> QED BY <1>1, <1>2, <1>4, <2>1 DEF WritesDocs
  <1>6. Led(d)
    BY <1>1, <1>4, <1>5 DEF Led
  <1>7. ASSUME ~ProjectionOf(t, d), DOMAIN draft[t].blocks # {} PROVE Doc(t) # d
    <2>1. call[t].kind \in {"put", "upload", "save", "restore", "delete", "project"}
      BY <1>3 DEF Call
    <2>2. call[t].kind # "save"
      BY <1>1, <1>2, <1>7 DEF WritesDocs
    <2>3. CASE call[t].kind \in {"put", "upload", "restore"}
      BY <1>1, <1>4, <2>3
    <2>4. CASE call[t].kind = "delete"
      BY <1>1, <1>2, <1>5, <1>7, <2>4 DEF WritesDocs
    <2>5. CASE call[t].kind = "project"
      BY <1>1, <1>7, <2>5 DEF ProjectionOf
    <2> QED BY <2>1, <2>2, <2>3, <2>4, <2>5
  <1>8. ASSUME ~ProjectionOf(t, d), NEW b \in Blocks
        PROVE  /\ db'.blocks[b].state = "live" /\ db'.blocks[b].doc = d <=>
                    db.blocks[b].state = "live" /\ db.blocks[b].doc = d
               /\ b \in Home(d) => db'.blocks[b] = db.blocks[b]
    <2>1. db'.blocks[b] = RowSeen(db, draft[t], b)
      BY <1>1, Seen
    <2>2. CASE b \notin DOMAIN draft[t].blocks
      BY <2>1, <2>2 DEF RowSeen
    <2>3. CASE b \in DOMAIN draft[t].blocks
      <3>1. Doc(t) # d
        BY <1>7, <1>8, <2>3
      <3>2. db'.blocks[b].doc = Doc(t) /\ b \in Home(Doc(t))
        BY <1>2, <2>1, <2>3 DEF RowSeen, OwnRows
      <3>3. b \notin Home(d)
        BY <1>3, <3>1, <3>2, OneHome
      <3>4. db.blocks[b].state = "live" => db.blocks[b].doc # d
        BY <1>2, <3>3 DEF RowsKept
      <3> QED BY <3>1, <3>2, <3>3, <3>4
    <2> QED BY <2>2, <2>3
  <1> QED BY <1>6, <1>8

LEMMA CommitProjections ==
  ASSUME TypeInvariant, TreesApart, BacklinkInvariant, ProjectionInvariant,
         NEW t \in Requests, Commit(t)
  PROVE  ProjectionInvariant'
  <1>1. /\ Close(t) /\ pc[t] = "done" /\ db'.blocks = View(t).blocks /\ TypeInvariant'
    BY CommitFacts
  <1>2. /\ astray' \subseteq Docs
        /\ db'.docs \in [Docs -> {"absent", "live", "gone"}]
        /\ db'.blocks \in [Blocks -> Row] /\ db'.refs \in [Pairs -> BOOLEAN]
        /\ db'.revisions \subseteq Docs \X Seq(Node)
    BY <1>1 DEF TypeInvariant, TypeOK
  <1>3. /\ pc'[t] = "ended" /\ OnlyDraft(t) /\ draft'[t] = Nothing
        /\ \A u \in Requests \ {t} : pc'[u] = pc[u]
        /\ \A d \in Docs : /\ editor'[d].tree = editor[d].tree /\ editor'[d].dirty = editor[d].dirty
                           /\ editor'[d].saving =>
                                editor[d].saving /\ (call[t].kind # "project" \/ d # Doc(t))
                           /\ editor'[d].saving # editor[d].saving =>
                                call[t].kind = "project" /\ d = Doc(t)
    BY <1>1, <1>2, CloseTypes
  <1>4. UNCHANGED <<yjs, call, todo, scanned, listed>>
    BY <1>1 DEF Close
  <1>5. /\ \A u \in Requests \ {t}, d \in Docs : ProjectionOf(u, d)' <=> ProjectionOf(u, d)
        /\ \A d \in Docs : ~ProjectionOf(t, d)'
        /\ \A d \in Docs : ProjectionOf(t, d) <=> call[t].kind = "project" /\ d = Doc(t)
    BY <1>1, <1>3, <1>4 DEF ProjectionOf, Doc
  <1>6. \A u \in Requests : WritesDocs(u)'
    <2>1. WritesDocs(t)'
      BY <1>3 DEF WritesDocs, Nothing
    <2>2. \A u \in Requests \ {t} : WritesDocs(u)'
      BY <1>3, <1>4 DEF ProjectionInvariant, WritesDocs, OnlyDraft, Doc
    <2> QED BY <2>1, <2>2
  <1>7. ASSUME NEW u \in Requests \ {t}, NEW d \in Docs, ProjectionOf(u, d)
        PROVE  Projects(u, d)'
    <2>1. Projects(u, d) /\ ~ProjectionOf(t, d)
      BY <1>7 DEF ProjectionInvariant
    <2>2. editor'[d].saving
      BY <1>3, <1>5, <2>1 DEF Projects, TypeInvariant, TypeOK
    <2>3. pc'[u] = pc[u] /\ draft'[u] = draft[u]
      BY <1>3 DEF OnlyDraft
    <2>4. ASSUME Led(d)'
          PROVE  /\ Led(d)
                 /\ \A b \in Blocks :
                      db'.blocks[b].state = "live" /\ db'.blocks[b].doc = d <=>
                        db.blocks[b].state = "live" /\ db.blocks[b].doc = d
      BY <2>1, <2>4, CommitRows
    <2>5. Led(d)' => LiveBlocks(db', d) = LiveBlocks(db, d)
      BY <2>4 DEF LiveBlocks
    <2>6. Led(d)' /\ ~editor'[d].dirty => call'[u].tree = yjs'[d]
      BY <1>3, <1>4, <2>1, <2>4 DEF Projects
    <2>7. Led(d)' /\ pc'[u] = "sweep" => scanned'[u] = Leaving(db', d, call'[u].tree)
      BY <1>4, <2>1, <2>3, <2>4, <2>5 DEF Projects, Leaving
    <2>8. Led(d)' /\ pc'[u] \in {"upsert", "done"} \cup Rebuilding =>
            \A b \in Blocks :
              RowSeen(db', draft'[u], b).doc = d /\ RowSeen(db', draft'[u], b).state = "live"
                => b \in BlocksOf(call'[u].tree)
      BY <1>4, <2>1, <2>3, <2>4 DEF Projects, RowSeen
    <2> QED BY <2>2, <2>6, <2>7, <2>8 DEF Projects
  <1>8. \A u \in Requests, d \in Docs : ProjectionOf(u, d)' => Projects(u, d)'
    BY <1>5, <1>7
  <1>9. \A u, v \in Requests, d \in Docs : ProjectionOf(u, d)' /\ ProjectionOf(v, d)' => u = v
    BY <1>5 DEF ProjectionInvariant
  <1>10. \A d \in Docs : Led(d)' /\ editor'[d].saving /\ ~editor'[d].dirty => editor'[d].tree = yjs'[d]
    BY <1>3, <1>4, CommitRows DEF ProjectionInvariant
  <1>11. ASSUME NEW d \in Docs, Led(d)', ~editor'[d].dirty, ~editor'[d].saving
         PROVE  /\ LiveBlocks(db', d) = BlocksOf(yjs'[d])
                /\ \A i \in 1..Len(yjs'[d]) : db'.blocks[yjs'[d][i].block].mention = yjs'[d][i].mention
    <2>0. Led(d) /\ ~editor[d].dirty /\ yjs'[d] = yjs[d] /\ yjs[d] \in Seq(Node)
      BY <1>3, <1>4, <1>11, CommitRows DEF TypeInvariant, TypeOK
    <2>1. CASE ~ProjectionOf(t, d)
      <3>1. ~editor[d].saving
        BY <1>3, <1>5, <1>11, <2>1 DEF TypeInvariant, TypeOK
      <3>2. /\ LiveBlocks(db, d) = BlocksOf(yjs[d])
            /\ \A i \in 1..Len(yjs[d]) : db.blocks[yjs[d][i].block].mention = yjs[d][i].mention
        BY <2>0, <3>1 DEF ProjectionInvariant, ProjectionFollowsStore, Led
      <3>3. \A b \in Blocks :
              /\ db'.blocks[b].state = "live" /\ db'.blocks[b].doc = d <=>
                   db.blocks[b].state = "live" /\ db.blocks[b].doc = d
              /\ b \in Home(d) => db'.blocks[b] = db.blocks[b]
        BY <1>11, <2>1, CommitRows
      <3>4. LiveBlocks(db', d) = LiveBlocks(db, d)
        BY <3>3 DEF LiveBlocks
      <3>5. \A i \in 1..Len(yjs[d]) : yjs[d][i].block \in Blocks /\ yjs[d][i].block \in Home(d)
        BY <2>0, BlocksOfTypes DEF BlocksOf, BacklinkInvariant, TreesKept, Kept
      <3> QED BY <2>0, <3>2, <3>3, <3>4, <3>5
    <2>2. CASE ProjectionOf(t, d)
      <3>1. call[t].tree = yjs[d] /\ Doc(t) = d /\ call[t].kind = "project"
        BY <2>0, <2>2 DEF ProjectionInvariant, Projects, ProjectionOf
      <3>2. \A b \in Blocks : db'.blocks[b] = RowSeen(db, draft[t], b)
        BY <1>1, Seen
      <3>3. LiveBlocks(db', d) \subseteq BlocksOf(yjs[d])
        BY <1>1, <2>0, <2>2, <3>1, <3>2 DEF ProjectionInvariant, Projects, LiveBlocks
      <3>4. ASSUME NEW i \in 1..Len(yjs[d])
            PROVE  /\ yjs[d][i].block \in LiveBlocks(db', d)
                   /\ db'.blocks[yjs[d][i].block].mention = yjs[d][i].mention
        <4>1. Stands(t, yjs[d][i])
          BY <1>1, <3>1 DEF BacklinkInvariant, Own, Placed, Written, Replacing
        <4>2. yjs[d][i].block \in Blocks
          BY <2>0, BlocksOfTypes DEF BlocksOf
        <4>3. db'.blocks[yjs[d][i].block] = draft[t].blocks[yjs[d][i].block]
          BY <3>2, <4>1, <4>2 DEF RowSeen, Stands
        <4>4. draft[t].blocks[yjs[d][i].block].doc = d
          BY <3>1, <4>1 DEF Stands, BacklinkInvariant, Own, OwnRows
        <4> QED BY <4>1, <4>2, <4>3, <4>4 DEF Stands, LiveBlocks
      <3>5. BlocksOf(yjs[d]) \subseteq LiveBlocks(db', d)
        BY <3>4 DEF BlocksOf
      <3> QED BY <2>0, <3>3, <3>4, <3>5
    <2> QED BY <2>1, <2>2
  <1>12. ProjectionFollowsStore'
    BY <1>11 DEF ProjectionFollowsStore, Led
  <1> QED BY <1>6, <1>8, <1>9, <1>10, <1>12 DEF ProjectionInvariant

(* A projection that fails leaves its document astray. *)
LEMMA FailProjections ==
  ASSUME TypeInvariant, ProjectionInvariant, NEW t \in Requests, Rollback(t) \/ Crash(t)
  PROVE  ProjectionInvariant'
  <1>1. /\ TypeInvariant' /\ Close(t) /\ db' = db /\ pc[t] \notin {"new", "ended"}
        /\ astray' = IF call[t].kind = "project" THEN astray \cup {Doc(t)} ELSE astray
    BY FailFacts
  <1>2. astray' \subseteq Docs
    BY <1>1 DEF TypeInvariant, TypeOK
  <1>3. /\ pc'[t] = "ended" /\ OnlyDraft(t) /\ draft'[t] = Nothing
        /\ \A u \in Requests \ {t} : pc'[u] = pc[u]
        /\ \A d \in Docs : /\ editor'[d].tree = editor[d].tree /\ editor'[d].dirty = editor[d].dirty
                           /\ editor'[d].saving =>
                                editor[d].saving /\ (call[t].kind # "project" \/ d # Doc(t))
                           /\ editor'[d].saving # editor[d].saving =>
                                call[t].kind = "project" /\ d = Doc(t)
    BY <1>1, <1>2, CloseTypes
  <1>4. UNCHANGED <<yjs, call, todo, scanned, listed>>
    BY <1>1 DEF Close
  <1>5. /\ \A u \in Requests \ {t}, d \in Docs : ProjectionOf(u, d)' <=> ProjectionOf(u, d)
        /\ \A d \in Docs : ~ProjectionOf(t, d)'
        /\ \A d \in Docs : ProjectionOf(t, d) <=> call[t].kind = "project" /\ d = Doc(t)
    BY <1>1, <1>3, <1>4 DEF ProjectionOf, Doc
  <1>6. \A u \in Requests : WritesDocs(u)'
    <2>1. WritesDocs(t)'
      BY <1>3 DEF WritesDocs, Nothing
    <2>2. \A u \in Requests \ {t} : WritesDocs(u)'
      BY <1>3, <1>4 DEF ProjectionInvariant, WritesDocs, OnlyDraft, Doc
    <2> QED BY <2>1, <2>2
  <1>7. \A d \in Docs : Led(d)' => Led(d) /\ ~ProjectionOf(t, d)
    BY <1>1, <1>5 DEF Led
  <1>8. ASSUME NEW u \in Requests \ {t}, NEW d \in Docs, ProjectionOf(u, d)
        PROVE  Projects(u, d)'
    <2>1. Projects(u, d) /\ ~ProjectionOf(t, d)
      BY <1>8 DEF ProjectionInvariant
    <2>2. editor'[d].saving
      BY <1>3, <1>5, <2>1 DEF Projects, TypeInvariant, TypeOK
    <2>3. pc'[u] = pc[u] /\ draft'[u] = draft[u]
      BY <1>3 DEF OnlyDraft
    <2>4. Led(d)' /\ ~editor'[d].dirty => call'[u].tree = yjs'[d]
      BY <1>3, <1>4, <1>7, <2>1 DEF Projects
    <2>5. Led(d)' /\ pc'[u] = "sweep" => scanned'[u] = Leaving(db', d, call'[u].tree)
      BY <1>1, <1>4, <1>7, <2>1, <2>3 DEF Projects
    <2>6. Led(d)' /\ pc'[u] \in {"upsert", "done"} \cup Rebuilding =>
            \A b \in Blocks :
              RowSeen(db', draft'[u], b).doc = d /\ RowSeen(db', draft'[u], b).state = "live"
                => b \in BlocksOf(call'[u].tree)
      BY <1>1, <1>4, <1>7, <2>1, <2>3 DEF Projects
    <2> QED BY <2>2, <2>4, <2>5, <2>6 DEF Projects
  <1>9. \A u \in Requests, d \in Docs : ProjectionOf(u, d)' => Projects(u, d)'
    BY <1>5, <1>8
  <1>10. \A u, v \in Requests, d \in Docs : ProjectionOf(u, d)' /\ ProjectionOf(v, d)' => u = v
    BY <1>5 DEF ProjectionInvariant
  <1>11. \A d \in Docs : Led(d)' /\ editor'[d].saving /\ ~editor'[d].dirty => editor'[d].tree = yjs'[d]
    BY <1>3, <1>4, <1>7 DEF ProjectionInvariant
  <1>12. \A d \in Docs : Led(d)' /\ ~editor'[d].saving => ~editor[d].saving
    BY <1>3, <1>5, <1>7 DEF TypeInvariant, TypeOK
  <1>13. ProjectionFollowsStore'
    <2> SUFFICES ASSUME NEW d \in Docs, Led(d)', ~editor'[d].dirty, ~editor'[d].saving
                 PROVE  /\ LiveBlocks(db', d) = BlocksOf(yjs'[d])
                        /\ \A i \in 1..Len(yjs'[d]) :
                             db'.blocks[yjs'[d][i].block].mention = yjs'[d][i].mention
      BY DEF ProjectionFollowsStore, Led
    <2>1. Led(d) /\ ~editor[d].dirty /\ ~editor[d].saving /\ yjs' = yjs
      BY <1>3, <1>4, <1>7, <1>12
    <2> QED BY <1>1, <2>1 DEF ProjectionInvariant, ProjectionFollowsStore, Led
  <1> QED BY <1>6, <1>9, <1>10, <1>11, <1>13 DEF ProjectionInvariant

LEMMA StatementProjections ==
  ASSUME TypeInvariant, TreesApart, BacklinkInvariant, ProjectionInvariant, NEW t \in Requests,
         Receive(t) \/ Statement(t) \/ Crash(t)
  PROVE  ProjectionInvariant'
  <1>1. CASE Commit(t)
    BY <1>1, CommitProjections
  <1>2. CASE Rollback(t) \/ Crash(t)
    BY <1>2, FailProjections
  <1>3. CASE ~Commit(t) /\ ~Rollback(t) /\ ~Crash(t)
    <2>1. UNCHANGED <<db, yjs, editor, astray>>
      BY <1>3 DEF Statement, Receive, Get, Create, Revision, List, Stash, Scan, Sweep, Upsert,
                  ScanRefs, Clear, Refer, Drop, Cascade, DeadlockVictim, Reads, Collab
    <2>2. \A next : Goto(t, next) => \A u \in Requests \ {t} : pc'[u] = pc[u]
      BY DEF Goto, TypeInvariant, TypeOK
    <2>3. \E next : Goto(t, next)
      BY <1>3 DEF Statement, Receive, Get, Create, Revision, List, Stash, Scan, Sweep, Upsert,
                  ScanRefs, Clear, Refer, Drop, Cascade, DeadlockVictim
    <2>4. \A u \in Requests \ {t} : call'[u] = call[u] /\ scanned'[u] = scanned[u]
      BY <1>3 DEF Statement, Receive, Get, Create, Revision, List, Stash, Scan, Sweep, Upsert,
                  ScanRefs, Clear, Refer, Drop, Cascade, DeadlockVictim, TypeInvariant
    <2>5. OnlyDraft(t)
      <3>1. Own(t) /\ RowsKept /\ (draft' = draft => OnlyDraft(t))
        BY DEF BacklinkInvariant, OnlyDraft, TypeInvariant
      <3>2. CASE \/ Receive(t) \/ Get(t) \/ Scan(t) \/ DeadlockVictim(t) \/ Revision(t) \/ List(t)
                 \/ ScanRefs(t)
        BY <3>1, <3>2, ReceiveOwn, ReadingOwn, RevisionOwn, ListOwn, ScanRefsOwn
      <3>3. CASE \/ Stash(t) \/ Create(t) \/ Drop(t) \/ Clear(t) \/ Refer(t) \/ Sweep(t) \/ Cascade(t)
                 \/ Upsert(t)
        BY <3>1, <3>3, StashOwn, DocOwn, ClearOwn, ReferOwn, SweepOwn, CascadeOwn, UpsertOwn
      <3> QED BY <1>3, <3>2, <3>3 DEF Statement
    <2>6. /\ WritesDocs(t)'
          /\ \A d \in Docs : ProjectionOf(t, d)' => ProjectionOf(t, d) /\ Projects(t, d)'
      BY <1>3, OtherStatements, SweepProjects, RestProjects DEF Statement
    <2> QED BY <2>1, <2>2, <2>3, <2>4, <2>5, <2>6, GoesOn
  <1> QED BY <1>1, <1>2, <1>3

LEMMA ProjectionStep ==
  ASSUME TypeInvariant, TreesApart, BacklinkInvariant, ProjectionInvariant, [Next]_vars
  PROVE  ProjectionInvariant'
  <1>1. CASE UNCHANGED vars
    <2>1. \A t \in Requests : WritesDocs(t)'
      BY <1>1 DEF ProjectionInvariant, WritesDocs, vars, Doc
    <2>2. \A t \in Requests, d \in Docs : ProjectionOf(t, d)' <=> ProjectionOf(t, d)
      BY <1>1 DEF ProjectionOf, vars, Doc
    <2>3. \A t \in Requests, d \in Docs : ProjectionOf(t, d)' => Projects(t, d)'
      BY <1>1, <2>2, ProjectsOn DEF ProjectionInvariant, vars
    <2>4. \A t, u \in Requests, d \in Docs : ProjectionOf(t, d)' /\ ProjectionOf(u, d)' => t = u
      BY <2>2 DEF ProjectionInvariant
    <2>5. /\ ProjectionFollowsStore'
          /\ \A d \in Docs : Led(d)' /\ editor'[d].saving /\ ~editor'[d].dirty => editor'[d].tree = yjs'[d]
      BY <1>1 DEF ProjectionInvariant, ProjectionFollowsStore, Led, vars
    <2> QED BY <2>1, <2>3, <2>4, <2>5 DEF ProjectionInvariant
  <1>2. ASSUME NEW t \in Requests, Receive(t) \/ Statement(t) \/ Crash(t) PROVE ProjectionInvariant'
    BY <1>2, StatementProjections
  <1>3. ASSUME NEW d \in Docs, NEW t \in Requests, Project(t, d) PROVE ProjectionInvariant'
    BY <1>3, ProjectProjections
  <1>4. ASSUME NEW d \in Docs, Open(d) \/ Edit(d) \/ Store(d) \/ Unload(d) \/ LoseServer(d)
        PROVE  ProjectionInvariant'
    BY <1>4, ServerProjections
  <1> QED BY <1>1, <1>2, <1>3, <1>4 DEF Next

(* When nothing is left to store and nothing else wrote the rows since,    *)
(* the block rows of a document are the blocks of its Yjs state, whatever  *)
(* edits, stores, projections and requests on other documents, crashes and *)
(* restarts of the collaboration server there were.                        *)
THEOREM ProjectionFollows == TreesApart => (Spec => []ProjectionFollowsStore)
  <1> SUFFICES ASSUME TreesApart PROVE Spec => []ProjectionFollowsStore
    OBVIOUS
  <1> DEFINE Inv == TypeInvariant /\ BacklinkInvariant /\ ProjectionInvariant
  <1>1. Init => Inv
    BY TypeInit, BacklinkInit, ProjectionInit
  <1>2. Inv /\ [Next]_vars => Inv'
    BY TypeStep, BacklinkStep, ProjectionStep
  <1>3. Inv => ProjectionFollowsStore
    BY DEF ProjectionInvariant
  <1> QED BY <1>1, <1>2, <1>3, PTL DEF Spec

=============================================================================
