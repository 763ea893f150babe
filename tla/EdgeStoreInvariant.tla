-------------------------- MODULE EdgeStoreInvariant --------------------------
(***************************************************************************)
(* Inductive invariants of the edge store.  The first says why it keeps    *)
(* cardinality one, and EdgeStoreProofs proves it; HistoryInvariant is     *)
(* about time, the audit log and duplicates, and ReviewInvariant about     *)
(* what the pipeline replaces on its own (EdgeHistoryProofs);              *)
(* ShapeInvariant is about what one operation has written                  *)
(* (EdgeHistoryProofs too).  TLC checks them on the small instances.       *)
(*                                                                         *)
(* Cardinality one: once a transaction has inserted a row of an exclusive  *)
(* predicate, it holds the lock of the row's key until it ends, so no      *)
(* other transaction has rows of that key in flight.  All other writes in  *)
(* flight only close rows, and no two transactions write the same row.     *)
(* Hence what a transaction sees keeps cardinality one by itself, but for  *)
(* the row whose add_fact has yet to close the rows it replaces, and a     *)
(* commit by another transaction leaves it so.                             *)
(***************************************************************************)
EXTENDS EdgeStore

(* Statements of an add_fact, and those of them that hold the lock. *)
Locked == {"dedup", "contradict", "judge", "insert", "supersede"}
Adding == {"lock"} \cup Locked

(* What each statement finds in the local variables of its operation. *)
ControlOK ==
  \A t \in Txns :
    /\ pc[t] = "guard" => op[t] \in Fact
    /\ pc[t] \in Adding => op[t] \in Fact /\ op[t].valid_from \in Instant
    /\ pc[t] \in {"retract", "duplicates"} => op[t] \in Negation \cup Invalidation
    /\ pc[t] \in {"supersede", "duplicates"} => edge[t] \in DOMAIN View(t)
    /\ todo[t] \subseteq DOMAIN View(t)

TypeInv == TypeOK /\ ControlOK

(* The rows t has inserted and not yet committed. *)
Fresh(t) == DOMAIN writes[t] \ DOMAIN edges

(* b is a with its ranges closed. *)
Closes(a, b) ==
  /\ Live(a) /\ ~Live(b)
  /\ b = [a EXCEPT !.sys_to = b.sys_to, !.valid_to = b.valid_to,
                   !.invalidated_by = b.invalidated_by]

(* An add_fact past its lock statement holds the lock. *)
LockHeld == \A t \in Txns : pc[t] \in Locked => locks[OpKey(t)] = t

(* A row of an exclusive predicate in flight is covered by its lock. *)
InsertsLocked ==
  \A t \in Txns : \A e \in Fresh(t) :
    Exclusive(writes[t][e].predicate) => locks[Key(writes[t][e])] = t

(* No two transactions have written the same row. *)
WritesApart ==
  \A t, u \in Txns : t # u => DOMAIN writes[t] \cap DOMAIN writes[u] = {}

(* A write in flight to a committed row closes it. *)
UpdatesClose ==
  \A t \in Txns : \A e \in DOMAIN writes[t] \cap DOMAIN edges : Closes(edges[e], writes[t][e])

(* The inductive invariant behind HistoryAppendOnly. *)
AppendInvariant == WritesApart /\ UpdatesClose

(* Rows a and b of a view do not hold two values at once. *)
Compatible(view, a, b) ==
  a # b /\ Key(view[a]) = Key(view[b]) /\ Exclusive(view[a].predicate)
    => ~Overlaps(view[a], view[b])

(* The row an add_fact has inserted and not yet made room for. *)
Entering(t) == IF pc[t] = "supersede" THEN {edge[t]} ELSE {}

ViewsCompatible ==
  \A t \in Txns : \A a, b \in LiveIds(View(t)) \ Entering(t) : Compatible(View(t), a, b)

(* The inductive invariant behind OneValuePerTime: locks cover inserts in  *)
(* flight, and the view of every transaction keeps cardinality one.        *)
CardinalityInvariant ==
  /\ LockHeld
  /\ InsertsLocked
  /\ AppendInvariant
  /\ ViewsCompatible
  /\ OneValuePerTime

-----------------------------------------------------------------------------
(* Time and audit *)

(* The predicates whose rows only add_fact inserts, under its lock: the    *)
(* mirror trigger never produces one.                                      *)
Guarded(p) == p \notin Symmetric /\ \A q \in Predicates : InverseOf[q] # p

(* A belief begins, and ends, in the past and in that order, and a row     *)
(* that is still believed names no successor.                              *)
Ordered(row, at) ==
  /\ row.sys_from < at
  /\ IF Live(row) THEN row.invalidated_by = NoEdge
                  ELSE row.sys_from < row.sys_to /\ row.sys_to < at

RowsOrdered ==
  /\ \A e \in DOMAIN edges : Ordered(edges[e], now)
  /\ \A t \in Txns : \A e \in DOMAIN writes[t] : Ordered(writes[t][e], now)

ClosedIn(view, e) == e \in DOMAIN view /\ ~Live(view[e])

(* The inductive invariant behind AuditedAreClosed: an audit row, also one *)
(* in flight, is about an edge its transaction sees closed.                *)
AuditInvariant ==
  /\ AuditedAreClosed
  /\ \A t \in Txns : /\ \A e \in audited[t] : ClosedIn(View(t), e)
                     /\ pc[t] = "duplicates" => ClosedIn(View(t), edge[t])

(* A row t has inserted of a guarded predicate is under its lock. *)
GuardedLocked ==
  \A t \in Txns : \A e \in Fresh(t) :
    Guarded(writes[t][e].predicate) => locks[Key(writes[t][e])] = t

(* Row e of a view was believed after every other row of its key. *)
Newest(view, e) ==
  \A a \in DOMAIN view \ {e} : Key(view[a]) = Key(view[e]) => view[a].sys_from < view[e].sys_from

EnteringNewest ==
  \A t \in Txns : \A e \in Entering(t) :
    /\ Key(View(t)[e]) = OpKey(t) /\ Exclusive(View(t)[e].predicate)
    /\ Newest(View(t), e)

(* ClosuresExplained for one closed row of a view, given the audit rows.   *)
Explained(view, log, e) ==
  LET n == view[e].invalidated_by
  IN IF n = NoEdge THEN e \in log
     ELSE /\ n \in DOMAIN view
          /\ Key(view[n]) = Key(view[e])
          /\ view[e].sys_from < view[n].sys_from
          /\ view[n].sys_from < view[e].sys_to

(* The row invalidate has closed and not written the audit row of yet.     *)
Unaudited(t) == IF pc[t] = "duplicates" THEN {edge[t]} ELSE {}

(* The inductive invariant behind ClosuresExplained.                       *)
ExplainedInvariant ==
  /\ ClosuresExplained
  /\ \A t \in Txns : \A e \in DOMAIN View(t) :
       ~Live(View(t)[e]) => Explained(View(t), audit \cup audited[t] \cup Unaudited(t), e)

(* No live row of a view starts inside an earlier live copy of it. *)
DuplicateFree(view) ==
  \A a, b \in LiveIds(view) :
    /\ SameTriple(view[a], view[b])
    /\ ~Mirrored(view[a].predicate)
    /\ view[a].sys_from < view[b].sys_from
    => ~ValidAt(view[a], view[b].valid_from)

(* Past its dedup query an add_fact goes on only if there is no copy, and  *)
(* while it holds the lock none appears.                                   *)
Deduped ==
  \A t \in Txns :
    pc[t] \in {"contradict", "judge", "insert"} /\ ~Mirrored(op[t].predicate)
      => Duplicates(View(t), op[t]) = {}

(* The inductive invariant behind NoLiveDuplicate.                         *)
DedupInvariant ==
  /\ DuplicateFree(edges)
  /\ \A t \in Txns : DuplicateFree(View(t))
  /\ Deduped

HistoryInvariant ==
  RowsOrdered /\ AuditInvariant /\ GuardedLocked /\ EnteringNewest /\ ExplainedInvariant
    /\ DedupInvariant

-----------------------------------------------------------------------------
(* Whole operations *)

(* The writes of an add_fact before its INSERT: closures by the            *)
(* contradictor of rows of its key.                                        *)
Contradicting(t) ==
  \A e \in DOMAIN writes[t] :
    /\ e \in DOMAIN edges /\ Key(edges[e]) = OpKey(t)
    /\ op[t].predicate \in HighStakes
    /\ writes[t][e].invalidated_by = NoEdge
    /\ writes[t][e].valid_to = op[t].valid_from

(* Those of an invalidation: closures of rows of one key. *)
Retracting(t) ==
  /\ DOMAIN writes[t] \subseteq DOMAIN edges
  /\ \A a \in DOMAIN writes[t] : writes[t][a].invalidated_by = NoEdge
  /\ \A a, b \in DOMAIN writes[t] : Key(writes[t][a]) = Key(writes[t][b])

(* Those of an add_fact that has inserted row e: the rows it brings along, *)
(* the rows it replaces and those the contradictor closed; no copy of it   *)
(* has come since.                                                         *)
Asserting(t, e) ==
  LET new == writes[t][e]
  IN /\ e \in Fresh(t)
     /\ \A m \in Fresh(t) : Live(writes[t][m])
     /\ {writes[t][m] : m \in Fresh(t) \ {e}} = Mirror(new)
     /\ \A a \in DOMAIN writes[t] \cap DOMAIN edges :
          /\ Key(edges[a]) = Key(new)
          /\ \/ /\ Exclusive(new.predicate) /\ Overlaps(edges[a], new)
                /\ writes[t][a].invalidated_by = e
                /\ writes[t][a].valid_to = edges[a].valid_to
                /\ new.sys_from < writes[t][a].sys_to
             \/ /\ new.predicate \in HighStakes
                /\ writes[t][a].invalidated_by = NoEdge
                /\ writes[t][a].valid_to = new.valid_from
     /\ ~Mirrored(new.predicate) => Duplicates(View(t), new) \subseteq {e}

(* The rows a retraction has closed, is closing or will close. *)
Retracted(t) == DOMAIN writes[t] \cup todo[t] \cup Unaudited(t)

(* What the only operation of t has written, statement by statement.       *)
Shape(t) ==
  /\ pc[t] \in {"new", "guard", "lock", "dedup", "contradict"} => DOMAIN writes[t] = {}
  /\ pc[t] = "idle" => ops[t] > 0
  /\ pc[t] \in {"contradict", "judge"} => op[t].predicate \in HighStakes
  /\ pc[t] \in {"judge", "insert"} => Contradicting(t)
  /\ pc[t] = "judge" => \A e \in todo[t] : Key(View(t)[e]) = OpKey(t)
  /\ pc[t] \in {"retract", "duplicates"} =>
       Retracting(t) /\ \A a, b \in Retracted(t) : Key(View(t)[a]) = Key(View(t)[b])
  /\ pc[t] = "supersede" => Asserting(t, edge[t])
  /\ pc[t] = "idle" => Retracting(t) \/ \E e \in Fresh(t) : Asserting(t, e)

(* The inductive invariant behind the refinement of FactLedger, where a    *)
(* transaction has one operation (MaxOps = 1).                             *)
ShapeInvariant == \A t \in Txns : Shape(t)

-----------------------------------------------------------------------------
(* Review *)

(* Proposed facts begin when they are written, facts by hand then or before *)
(* the run: no row of the store begins in the future, where the guard of   *)
(* propose_fact does not look.                                             *)
FactsBegun ==
  \A f \in Facts : f.valid_from = Unset \/ (f.source_kind = "user" /\ f.valid_from <= StartTime)

(* A fact of the pipeline may replace a row.                               *)
MayReplace(f, row) ==
  f.source_kind = "episode" /\ f.object # row.object
    => f.predicate \notin HighStakes /\ f.confidence >= row.confidence + Margin

(* The rows of a view that name a successor are ones it may replace.       *)
Justified(view) ==
  \A e \in DOMAIN view :
    LET n == view[e].invalidated_by
    IN n # NoEdge => n \in DOMAIN view /\ MayReplace(view[n], view[e])

Begun(view) == \A e \in DOMAIN view : view[e].valid_from <= now

(* What add_fact will replace when it has inserted its fact, and when it   *)
(* has.                                                                    *)
Allowed(t) ==
  \A e \in LiveIds(View(t)) :
    /\ Key(View(t)[e]) = OpKey(t) /\ Exclusive(op[t].predicate)
    /\ Overlaps(View(t)[e], op[t])
    => MayReplace(op[t], View(t)[e])

Replacing(t) ==
  \A e \in Superseded(View(t), edge[t]) : MayReplace(View(t)[edge[t]], View(t)[e])

Reviewed(t) ==
  /\ Justified(View(t)) /\ Begun(View(t))
  /\ pc[t] = "guard" => op[t].valid_from = Unset
  /\ pc[t] \in Adding \ {"supersede"} => op[t].valid_from <= now /\ Allowed(t)
  /\ pc[t] = "supersede" => Replacing(t)

(* The inductive invariant behind AutoReplacementsJustified, where one     *)
(* transaction is open at a time (MaxActive = 1).                          *)
ReviewInvariant ==
  /\ \A t, u \in Active : t = u
  /\ \A t \in Txns \ Active : DOMAIN writes[t] = {}
  /\ StartTime <= now
  /\ Justified(edges) /\ Begun(edges)
  /\ \A t \in Active : Reviewed(t)

=============================================================================
