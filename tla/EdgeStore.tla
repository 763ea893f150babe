------------------------------- MODULE EdgeStore -------------------------------
(***************************************************************************)
(* The bi-temporal edge store of the context engine: what concurrent       *)
(* database transactions do to the tables edge, pending_fact and           *)
(* audit_log through app/domain/edge.py.                                   *)
(*                                                                         *)
(* A transaction is one session_scope: a REST request, an MCP tool call or *)
(* one extraction job.  It runs one or more operations (add_fact,          *)
(* propose_fact, invalidate, invalidate_matching_live), each a sequence of *)
(* SQL statements with awaits between them, and then commits or rolls      *)
(* back.  Postgres runs it at READ COMMITTED: a statement sees what is     *)
(* committed when it starts plus the transaction's own writes; an UPDATE   *)
(* waits for a row another transaction has changed and not yet committed;  *)
(* the advisory lock taken by add_fact is held until the transaction ends. *)
(***************************************************************************)
EXTENDS EdgeRows, FiniteSets

CONSTANTS
  Entities,          \* entity ids
  Predicates,        \* relation_type ids
  HighStakes,        \* predicates flagged high_stakes
  InverseOf,         \* [Predicates -> Predicates \cup {NoPredicate}]
  NoPredicate,
  EdgeIds,           \* uuids an edge may get (bounds the rows of a run)
  NoEdge,
  Txns,              \* database transactions
  NoTxn,
  MaxOps,            \* bound: operations in one transaction
  MaxActive,         \* bound: transactions open at once
  StartTime,         \* the clock when the run begins
  Unset,             \* a time the caller leaves to its default, "now"
  AnyObject,         \* a negation without an object
  Facts,             \* facts callers add or propose
  Negations,         \* negations the extraction pipeline applies
  InvalidationTimes, \* times passed to invalidate
  AutoRejectBelow, MinConfidence, Margin   \* extraction_policy and the 0.1 margin

(* A fact as a caller passes it to add_fact (REST or MCP, here "user") or  *)
(* to propose_fact ("episode").  Confidences are in tenths.                *)
Fact == [source_kind : {"user", "episode"}, subject : Entities, predicate : Predicates,
         object : Entities, valid_from : Instant \cup {Unset},
         valid_to : Endpoint, confidence : Nat]

(* "Bob no longer works at Acme", or anywhere when the object is AnyObject. *)
Negation == [subject : Entities, predicate : Predicates,
             object : Entities \cup {AnyObject}, invalidated_at : Instant \cup {Unset}]

(* invalidate is called with an edge id and a time. *)
Invalidation == [edge : EdgeIds, invalidated_at : Instant \cup {Unset}]

Nothing == [none |-> TRUE]   \* no operation in progress

Row == [subject : Entities, predicate : Predicates, object : Entities,
        valid_from : Instant, valid_to : Endpoint,
        sys_from : Instant, sys_to : Endpoint,
        source_kind : {"user", "episode"}, confidence : Nat,
        invalidated_by : EdgeIds \cup {NoEdge}]

Reasons == {"high_stakes_contradiction", "lower_confidence_than_live",
            "ambiguous_confidence_contradiction", "below_threshold",
            "auto_rejected_below_floor"}

(* A pending_fact row: the operation of the transaction that queued it,    *)
(* the fact, and where the review queue puts it.                           *)
PendingFact == [txn : Txns, op : Nat, fact : Fact,
                status : {"pending", "rejected"}, reason : Reasons]

Keys == Entities \X Predicates   \* what the advisory lock is taken on

ASSUME RelationAssumption ==
  /\ One \subseteq Predicates
  /\ Symmetric \subseteq Predicates
  /\ HighStakes \subseteq Predicates
  /\ InverseOf \in [Predicates -> Predicates \cup {NoPredicate}]
  /\ NoPredicate \notin Predicates

ASSUME StoreAssumption ==
  /\ NoEdge \notin EdgeIds
  /\ NoTxn \notin Txns
  /\ MaxOps \in Nat /\ MaxActive \in Nat
  /\ StartTime \in Nat
  /\ Unset \notin Nat
  /\ AnyObject \notin Entities

ASSUME InputAssumption ==
  /\ Facts \subseteq Fact
  /\ Negations \subseteq Negation
  /\ InvalidationTimes \subseteq Instant \cup {Unset}
  /\ AutoRejectBelow \in Nat /\ MinConfidence \in Nat /\ Margin \in Nat

VARIABLES
  edges,    \* committed edge rows, by id
  queue,    \* committed pending_fact rows
  audit,    \* ids of edges with a committed edge.invalidate* audit row
  locks,    \* who holds the advisory lock of each (subject, predicate)
  now,      \* the clock: every write happens at an instant of its own
  pc,       \* the next statement of each transaction
  op,       \* the operation in progress
  ops,      \* operations the transaction has finished
  edge,     \* the row the operation has inserted or is closing
  todo,     \* rows the operation has selected and not handled yet
  writes,   \* uncommitted rows, by id
  queued,   \* uncommitted pending_fact rows
  audited   \* edges with an uncommitted audit row

store   == <<edges, queue, audit>>
control == <<pc, op, ops, edge, todo>>
vars    == <<edges, queue, audit, locks, now, pc, op, ops, edge, todo, writes, queued, audited>>

Statements == {"guard", "lock", "dedup", "contradict", "judge", "insert", "supersede",
               "retract", "duplicates"}

TypeOK ==
  /\ DOMAIN edges \subseteq EdgeIds
  /\ \A e \in DOMAIN edges : edges[e] \in Row
  /\ queue \subseteq PendingFact
  /\ audit \subseteq EdgeIds
  /\ locks \in [Keys -> Txns \cup {NoTxn}]
  /\ now \in Nat
  /\ pc \in [Txns -> {"new", "idle", "failed", "ended"} \cup Statements]
  /\ op \in [Txns -> Fact \cup Negation \cup Invalidation \cup {Nothing}]
  /\ ops \in [Txns -> Nat]
  /\ edge \in [Txns -> EdgeIds \cup {NoEdge}]
  /\ todo \in [Txns -> SUBSET EdgeIds]
  /\ DOMAIN writes = Txns
  /\ \A t \in Txns : /\ DOMAIN writes[t] \subseteq EdgeIds
                     /\ \A e \in DOMAIN writes[t] : writes[t][e] \in Row
  /\ queued \in [Txns -> SUBSET PendingFact]
  /\ audited \in [Txns -> SUBSET EdgeIds]

-----------------------------------------------------------------------------
(* Rows and what a transaction sees of them. *)

(* What a statement of t sees: committed rows overlaid with its own.       *)
View(t) == Overlay(edges, writes[t])

UsedIds == DOMAIN edges \cup UNION {DOMAIN writes[u] : u \in Txns}

(* Rows t may update without waiting for another transaction. *)
Unlocked(t, ids) == \A u \in Txns \ {t} : ids \cap DOMAIN writes[u] = {}

OpKey(t) == <<op[t].subject, op[t].predicate>>

-----------------------------------------------------------------------------
(* Writes.  Closing a row keeps everything but the ends of its ranges.     *)

Write(t, rows) == writes' = [writes EXCEPT ![t] = Overlay(@, rows)]

(* sys_time = tstzrange(lower(sys_time), clock_timestamp()) *)
Close(row) == [row EXCEPT !.sys_to = now]

CloseAll(view, ids) == [e \in ids |-> Close(view[e])]

\* Fault: only the world axis is closed.
CloseAt_ValidOnly(row, at) == [row EXCEPT !.valid_to = at]

(* The UPDATE of invalidate and of the contradictor closes both axes.      *)
CloseAt(row, at) == [row EXCEPT !.sys_to = now, !.valid_to = at]

(* A write statement that changed no row leaves the clock where it is.     *)
Tick(ids) == now' = IF ids = {} THEN now ELSE now + 1

Goto(t, next) == pc' = [pc EXCEPT ![t] = next]

(* The operation returns: the transaction may start another or commit.     *)
Finish(t) ==
  /\ Goto(t, "idle")
  /\ ops'  = [ops EXCEPT ![t] = @ + 1]
  /\ op'   = [op EXCEPT ![t] = Nothing]
  /\ edge' = [edge EXCEPT ![t] = NoEdge]
  /\ todo' = [todo EXCEPT ![t] = {}]

(* A statement raised: the transaction can only roll back.                 *)
Raise(t) == Goto(t, "failed") /\ UNCHANGED <<op, ops, edge, todo, now, writes, audited>>

Active == {t \in Txns : pc[t] \notin {"new", "ended"}}

MayStart(t) ==
  /\ ops[t] < MaxOps
  /\ pc[t] = "idle" \/ (pc[t] = "new" /\ Cardinality(Active) < MaxActive)

\* Fault: a time left out is stored as it came.
OrNow_Unresolved(at) == at

OrNow(at) == IF at = Unset THEN now ELSE at

-----------------------------------------------------------------------------
(* add_fact *)

AddFact(t) ==
  \E f \in Facts :
    /\ MayStart(t)
    /\ f.source_kind = "user"
    /\ op' = [op EXCEPT ![t] = [f EXCEPT !.valid_from = OrNow(@)]]
    /\ Goto(t, "lock")
    /\ UNCHANGED <<store, locks, now, ops, edge, todo, writes, queued, audited>>

\* Fault: the lock statement returns without the lock.
Grantable_NoLock(t, k) == TRUE

Grantable(t, k) == locks[k] \in {NoTxn, t}

(* pg_advisory_xact_lock: waits for any other holder, and is re-entrant.   *)
Lock(t) ==
  /\ pc[t] = "lock"
  /\ Grantable(t, OpKey(t))
  /\ locks' = [locks EXCEPT ![OpKey(t)] = t]
  /\ Goto(t, "dedup")
  /\ UNCHANGED <<store, now, op, ops, edge, todo, writes, queued, audited>>

(* An existing row is returned unchanged; otherwise a high-stakes fact     *)
(* goes to the contradictor.                                               *)
Dedup(t) ==
  /\ pc[t] = "dedup"
  /\ IF Duplicates(View(t), op[t]) # {}
       THEN Finish(t)
       ELSE /\ Goto(t, IF op[t].predicate \in HighStakes THEN "contradict" ELSE "insert")
            /\ UNCHANGED <<op, ops, edge, todo>>
  /\ UNCHANGED <<store, locks, now, writes, queued, audited>>

(* contradictor.run selects the live edges of the subject and predicate.   *)
Contradict(t) ==
  LET candidates == {e \in LiveIds(View(t)) : Key(View(t)[e]) = OpKey(t)}
  IN /\ pc[t] = "contradict"
     /\ todo' = [todo EXCEPT ![t] = candidates]
     /\ Goto(t, IF candidates = {} THEN "insert" ELSE "judge")
     /\ UNCHANGED <<store, locks, now, op, ops, edge, writes, queued, audited>>

(* The model says "contradicts" of one candidate: it is closed if it is    *)
(* still live, and an audit row is written in either case.                 *)
JudgeContradicts(t) ==
  \E e \in todo[t] :
    LET row    == View(t)[e]
        closed == IF Live(row) THEN {e} ELSE {}
    IN /\ pc[t] = "judge"
       /\ Unlocked(t, {e})
       /\ IF Live(row) /\ RangeRefused(row, op[t].valid_from)
            THEN Raise(t)
            ELSE /\ Write(t, [i \in closed |-> CloseAt(row, op[t].valid_from)])
                 /\ Tick(closed)
                 /\ audited' = [audited EXCEPT ![t] = @ \cup {e}]
                 /\ todo' = [todo EXCEPT ![t] = @ \ {e}]
                 /\ Goto(t, IF todo[t] = {e} THEN "insert" ELSE "judge")
                 /\ UNCHANGED <<op, ops, edge>>
       /\ UNCHANGED <<store, locks, queued>>

(* The candidates left are judged compatible, fail in the model call, or   *)
(* were not among the five the query returned.                             *)
JudgeRestCompatible(t) ==
  /\ pc[t] = "judge"
  /\ todo' = [todo EXCEPT ![t] = {}]
  /\ Goto(t, "insert")
  /\ UNCHANGED <<store, locks, now, op, ops, edge, writes, queued, audited>>

(* The row add_fact inserts, and the row the edge_mirror_inverse trigger   *)
(* inserts with it for a symmetric predicate or one with an inverse.       *)
NewRow(f) ==
  [subject |-> f.subject, predicate |-> f.predicate, object |-> f.object,
   valid_from |-> f.valid_from, valid_to |-> f.valid_to,
   sys_from |-> now, sys_to |-> Infinity,
   source_kind |-> f.source_kind, confidence |-> f.confidence,
   invalidated_by |-> NoEdge]

Swapped(row, p) == [row EXCEPT !.subject = row.object, !.object = row.subject, !.predicate = p]

Mirror(row) ==
  CASE row.predicate \in Symmetric /\ row.subject # row.object -> {Swapped(row, row.predicate)}
    [] OTHER -> IF InverseOf[row.predicate] = NoPredicate THEN {}
                ELSE {Swapped(row, InverseOf[row.predicate])}

(* edge_live_triple_uniq: rows that forbid a live row.                     *)
Clashes(view, row) ==
  {e \in LiveIds(view) : SameTriple(view[e], row) /\ view[e].valid_from = row.valid_from}

(* An uncommitted clash makes the INSERT wait for its transaction.         *)
UniqueIndexFree(t, row) ==
  \A u \in Txns \ {t} : \A e \in Clashes(edges, row) \cup Clashes(writes[u], row) :
    e \notin DOMAIN writes[u]

Insert(t) ==
  LET row == NewRow(op[t])
  IN /\ pc[t] = "insert"
     /\ \A r \in {row} \cup Mirror(row) : UniqueIndexFree(t, r)
     /\ IF \/ ~Before(row.valid_from, row.valid_to)
           \/ \E r \in {row} \cup Mirror(row) : Clashes(View(t), r) # {}
          THEN Raise(t)
          ELSE \E e \in EdgeIds \ UsedIds :
                 /\ IF Mirror(row) = {}
                      THEN Write(t, [i \in {e} |-> row])
                      ELSE \E m \in (EdgeIds \ UsedIds) \ {e}, r \in Mirror(row) :
                             Write(t, [i \in {e, m} |-> IF i = e THEN row ELSE r])
                 /\ now' = now + 1
                 /\ UNCHANGED audited
                 /\ IF Exclusive(row.predicate)
                      THEN /\ edge' = [edge EXCEPT ![t] = e]
                           /\ Goto(t, "supersede")
                           /\ UNCHANGED <<op, ops, todo>>
                      ELSE Finish(t)
     /\ UNCHANGED <<store, locks, queued>>

Supersede(t) ==
  LET view == View(t)
      ids  == Superseded(view, edge[t])
  IN /\ pc[t] = "supersede"
     /\ Unlocked(t, ids)
     /\ Write(t, [e \in ids |-> [Close(view[e]) EXCEPT !.invalidated_by = edge[t]]])
     /\ Tick(ids)
     /\ Finish(t)
     /\ UNCHANGED <<store, locks, queued, audited>>

-----------------------------------------------------------------------------
(* propose_fact *)

Propose(t) ==
  \E f \in Facts :
    /\ MayStart(t)
    /\ f.source_kind = "episode"
    /\ op' = [op EXCEPT ![t] = f]
    /\ Goto(t, "guard")
    /\ UNCHANGED <<store, locks, now, ops, edge, todo, writes, queued, audited>>

(* The live rows a proposed fact would contradict right now.               *)
Conflicts(view, f) ==
  IF ~Exclusive(f.predicate) THEN {}
  ELSE {e \in LiveIds(view) : /\ Key(view[e]) = Key(f)
                              /\ view[e].object # f.object
                              /\ ValidAt(view[e], now)}

\* Fault: the high_stakes flag is not consulted.
ContradictionReason_IgnoreStakes(f, existing) ==
  IF f.confidence < existing.confidence THEN "lower_confidence_than_live"
  ELSE IF f.confidence < existing.confidence + Margin THEN "ambiguous_confidence_contradiction"
  ELSE "none"

(* Why a contradicting fact waits for a human, or "none".                  *)
ContradictionReason(f, existing) ==
  IF f.predicate \in HighStakes THEN "high_stakes_contradiction"
  ELSE IF f.confidence < existing.confidence THEN "lower_confidence_than_live"
  ELSE IF f.confidence < existing.confidence + Margin THEN "ambiguous_confidence_contradiction"
  ELSE "none"

(* Why the extraction thresholds keep a fact out of the graph, or "none".  *)
ThresholdReason(f) ==
  IF f.confidence < AutoRejectBelow THEN "auto_rejected_below_floor"
  ELSE IF f.confidence < MinConfidence THEN "below_threshold"
  ELSE "none"

(* The reasons the guard may give: LIMIT 1 picks any conflicting row.      *)
Verdicts(view, f) ==
  LET conflicting == {ContradictionReason(f, view[e]) : e \in Conflicts(view, f)}
      other       == IF conflicting \subseteq {"none"} \/ "none" \in conflicting
                     THEN {ThresholdReason(f)} ELSE {}
  IN (conflicting \ {"none"}) \cup other

(* The pending_fact row.  An unset valid_from becomes the start time of the *)
(* transaction there, which nothing in this module reads.                  *)
Enqueue(t, f, reason) ==
  queued' = [queued EXCEPT ![t] = @ \cup
    {[txn |-> t, op |-> ops[t], fact |-> f, reason |-> reason,
      status |-> IF reason = "auto_rejected_below_floor" THEN "rejected" ELSE "pending"]}]

(* The guard reads before add_fact takes the lock.                         *)
Guard(t) ==
  /\ pc[t] = "guard"
  /\ \E reason \in Verdicts(View(t), op[t]) :
       IF reason = "none"
         THEN /\ op' = [op EXCEPT ![t].valid_from = OrNow(@)]
              /\ Goto(t, "lock")
              /\ UNCHANGED <<ops, edge, todo, queued>>
         ELSE Enqueue(t, op[t], reason) /\ Finish(t)
  /\ UNCHANGED <<store, locks, now, writes, audited>>

-----------------------------------------------------------------------------
(* invalidate and invalidate_matching_live *)

(* invalidate(edge_id): the row is read first and only has to exist.       *)
Invalidate(t) ==
  \E e \in DOMAIN View(t), at \in InvalidationTimes :
    /\ MayStart(t)
    /\ op' = [op EXCEPT ![t] = [edge |-> e, invalidated_at |-> OrNow(at)]]
    /\ todo' = [todo EXCEPT ![t] = {e}]
    /\ Goto(t, "retract")
    /\ UNCHANGED <<store, locks, now, ops, edge, writes, queued, audited>>

MatchingLive(view, n) ==
  {e \in LiveIds(view) : Key(view[e]) = Key(n) /\ n.object \in {view[e].object, AnyObject}}

(* invalidate_matching_live selects the live rows and closes each in turn. *)
Negate(t) ==
  \E n \in Negations :
    LET matching == MatchingLive(View(t), n)
    IN /\ MayStart(t)
       /\ IF matching = {}
            THEN Finish(t)
            ELSE /\ op' = [op EXCEPT ![t] = n]
                 /\ todo' = [todo EXCEPT ![t] = matching]
                 /\ Goto(t, "retract")
                 /\ UNCHANGED <<ops, edge>>
       /\ UNCHANGED <<store, locks, now, writes, queued, audited>>

\* Fault: a row that is already closed is closed again.
Retractable_Any(row) == TRUE

(* ... AND upper(sys_time) = 'infinity' *)
Retractable(row) == Live(row)

(* The first UPDATE of invalidate closes the row itself, if it is live.    *)
Retract(t) ==
  \E e \in todo[t] :
    LET row    == View(t)[e]
        at     == OrNow(op[t].invalidated_at)
        closed == IF Retractable(row) THEN {e} ELSE {}
    IN /\ pc[t] = "retract"
       /\ Unlocked(t, {e})
       /\ IF Retractable(row) /\ RangeRefused(row, at)
            THEN Raise(t)
            ELSE /\ Write(t, [i \in closed |-> CloseAt(row, at)])
                 /\ Tick(closed)
                 /\ edge' = [edge EXCEPT ![t] = e]
                 /\ todo' = [todo EXCEPT ![t] = @ \ {e}]
                 /\ Goto(t, "duplicates")
                 /\ UNCHANGED <<op, ops, audited>>
       /\ UNCHANGED <<store, locks, queued>>

\* Fault: duplicates are closed without an audit row of their own.
AuditedRows_RowOnly(e, dups) == {e}

(* One audit row for the edge and one for each duplicate.                  *)
AuditedRows(e, dups) == {e} \cup dups

(* The second UPDATE closes the live duplicates of the same triple in      *)
(* sys_time only.                                                          *)
RetractDuplicates(t) ==
  LET view == View(t)
      dups == {e \in LiveIds(view) \ {edge[t]} : SameTriple(view[e], view[edge[t]])}
  IN /\ pc[t] = "duplicates"
     /\ Unlocked(t, dups)
     /\ Write(t, CloseAll(view, dups))
     /\ Tick(dups)
     /\ audited' = [audited EXCEPT ![t] = @ \cup AuditedRows(edge[t], dups)]
     /\ IF todo[t] = {}
          THEN Finish(t)
          ELSE Goto(t, "retract") /\ UNCHANGED <<op, ops, edge, todo>>
     /\ UNCHANGED <<store, locks, queued>>

-----------------------------------------------------------------------------
(* Transactions end *)

(* Transaction-scoped advisory locks go with the transaction.              *)
Released(t) == [k \in Keys |-> IF locks[k] = t THEN NoTxn ELSE locks[k]]

End(t) ==
  /\ locks'   = Released(t)
  /\ writes'  = [writes EXCEPT ![t] = << >>]
  /\ queued'  = [queued EXCEPT ![t] = {}]
  /\ audited' = [audited EXCEPT ![t] = {}]
  /\ op'      = [op EXCEPT ![t] = Nothing]
  /\ edge'    = [edge EXCEPT ![t] = NoEdge]
  /\ todo'    = [todo EXCEPT ![t] = {}]
  /\ Goto(t, "ended")
  /\ UNCHANGED <<now, ops>>

Commit(t) ==
  /\ pc[t] = "idle"
  /\ edges' = View(t)
  /\ queue' = queue \cup queued[t]
  /\ audit' = audit \cup audited[t]
  /\ End(t)

(* A statement raised: session_scope rolls the transaction back.           *)
Rollback(t) ==
  /\ pc[t] = "failed"
  /\ End(t)
  /\ UNCHANGED store

(* The request is cancelled, the worker dies or the connection is lost.    *)
Crash(t) ==
  /\ t \in Active
  /\ End(t)
  /\ UNCHANGED store

(* The rows the next statement of t updates, as t sees them.               *)
UpdateTargets(t) ==
  CASE pc[t] = "supersede"  -> Superseded(View(t), edge[t])
    [] pc[t] = "duplicates" -> {e \in LiveIds(View(t)) \ {edge[t]} :
                                  SameTriple(View(t)[e], View(t)[edge[t]])}
    [] pc[t] = "retract"    -> todo[t]
    [] OTHER                -> {}

WaitsFor(t, u) ==
  /\ u # t
  /\ \/ pc[t] = "lock" /\ locks[OpKey(t)] = u
     \/ UpdateTargets(t) \cap DOMAIN writes[u] # {}
     \/ /\ pc[t] = "insert"
        /\ \E r \in {NewRow(op[t])} \cup Mirror(NewRow(op[t])) :
             \E e \in Clashes(edges, r) \cup Clashes(writes[u], r) : e \in DOMAIN writes[u]

Deadlocked(t) ==
  \E S \in SUBSET Txns : t \in S /\ \A x \in S : \E y \in S : WaitsFor(x, y)

\* Fault: nothing breaks a cycle of waiting transactions.
Cancelled_Never(t) == FALSE

(* Postgres breaks a cycle of waiting transactions by cancelling one.      *)
Cancelled(t) == Deadlocked(t)

DeadlockVictim(t) ==
  /\ t \in Active
  /\ Cancelled(t)
  /\ End(t)
  /\ UNCHANGED store

-----------------------------------------------------------------------------

Init ==
  /\ edges   = << >>
  /\ queue   = {}
  /\ audit   = {}
  /\ locks   = [k \in Keys |-> NoTxn]
  /\ now     = StartTime
  /\ pc      = [t \in Txns |-> "new"]
  /\ op      = [t \in Txns |-> Nothing]
  /\ ops     = [t \in Txns |-> 0]
  /\ edge    = [t \in Txns |-> NoEdge]
  /\ todo    = [t \in Txns |-> {}]
  /\ writes  = [t \in Txns |-> << >>]
  /\ queued  = [t \in Txns |-> {}]
  /\ audited = [t \in Txns |-> {}]

Call(t) == AddFact(t) \/ Propose(t) \/ Invalidate(t) \/ Negate(t)

Statement(t) ==
  \/ Guard(t) \/ Lock(t) \/ Dedup(t) \/ Contradict(t)
  \/ JudgeContradicts(t) \/ JudgeRestCompatible(t)
  \/ Insert(t) \/ Supersede(t)
  \/ Retract(t) \/ RetractDuplicates(t)

(* Every transaction of the run is over. *)
Quiet == (\A t \in Txns : pc[t] = "ended") /\ UNCHANGED vars

Next ==
  \/ \E t \in Txns : Call(t) \/ Statement(t) \/ Commit(t) \/ Rollback(t) \/ Crash(t)
                     \/ DeadlockVictim(t)
  \/ Quiet

Spec == Init /\ [][Next]_vars

(* A request handler runs on until its transaction ends: nothing makes it  *)
(* stop between two statements, and Postgres finds every deadlock.  A      *)
(* crash is possible, never required.                                      *)
Fairness ==
  \A t \in Txns : /\ WF_vars(Statement(t))
                  /\ WF_vars(Commit(t))
                  /\ WF_vars(Rollback(t))
                  /\ WF_vars(DeadlockVictim(t))

FairSpec == Spec /\ Fairness

-----------------------------------------------------------------------------
(* Properties *)

Supersedes(n, e) == edges[e].invalidated_by = n

(* Cardinality one: at no valid time do two committed live rows of one     *)
(* subject and exclusive predicate hold together, whatever transactions    *)
(* interleave.  The advisory lock and the overlap UPDATE of add_fact are   *)
(* there for this.                                                         *)
OneValuePerTime ==
  \A a, b \in LiveIds(edges) :
    a # b /\ Key(edges[a]) = Key(edges[b]) /\ Exclusive(edges[a].predicate)
      => ~Overlaps(edges[a], edges[b])

(* Write-time dedup: a committed live row never starts inside an earlier   *)
(* live row of the same triple; concurrent callers converge on one row.    *)
(* Only for predicates no trigger mirrors: the trigger inserts without the *)
(* lock and the dedup query.                                               *)
Mirrored(p) == p \in Symmetric \/ InverseOf[p] # NoPredicate \/ \E q \in Predicates : InverseOf[q] = p

NoLiveDuplicate ==
  \A a, b \in LiveIds(edges) :
    /\ SameTriple(edges[a], edges[b])
    /\ ~Mirrored(edges[a].predicate)
    /\ edges[a].sys_from < edges[b].sys_from
    => ~ValidAt(edges[a], edges[b].valid_from)

(* Parallel calls of add_fact with one triple converge on one row: no two  *)
(* committed live rows of a triple hold at the same time.                  *)
ConcurrentAddsConverge ==
  \A a, b \in LiveIds(edges) :
    a # b /\ SameTriple(edges[a], edges[b]) => ~Overlaps(edges[a], edges[b])

(* Every committed closure is explained: the closing row is linked, was    *)
(* believed before the old one stopped being, and is about the same        *)
(* subject and predicate; or the closure is in the audit log.  Belief      *)
(* passes from row to row without a gap.                                   *)
ClosuresExplained ==
  \A e \in DOMAIN edges : ~Live(edges[e]) =>
    LET n == edges[e].invalidated_by
    IN IF n = NoEdge THEN e \in audit
       ELSE /\ n \in DOMAIN edges
            /\ Key(edges[n]) = Key(edges[e])
            /\ edges[e].sys_from < edges[n].sys_from
            /\ edges[n].sys_from < edges[e].sys_to

(* An audit row about a retraction that left its edge live would be a lie. *)
AuditedAreClosed == \A e \in audit : e \in DOMAIN edges /\ ~Live(edges[e])

(* Append-only history: a committed row is never lost, its identity, start *)
(* and origin never change, and once its sys_time is closed no transaction *)
(* changes it again, not even one that read it while it was live.          *)
HistoryAppendOnly ==
  [][\A e \in DOMAIN edges :
       /\ e \in DOMAIN edges'
       /\ edges'[e] # edges[e] =>
            /\ Live(edges[e]) /\ ~Live(edges'[e])
            /\ edges'[e] = [edges[e] EXCEPT !.sys_to = edges'[e].sys_to,
                                            !.valid_to = edges'[e].valid_to,
                                            !.invalidated_by = edges'[e].invalidated_by]]_vars

(* What review protects: a fact the pipeline wrote on its own has replaced *)
(* another value only if the predicate is not high-stakes and the new      *)
(* confidence exceeds the old by the margin.                               *)
AutoReplacementsJustified ==
  \A e, n \in DOMAIN edges :
    /\ Supersedes(n, e)
    /\ edges[n].source_kind = "episode"
    /\ edges[n].object # edges[e].object
    => /\ edges[n].predicate \notin HighStakes
       /\ edges[n].confidence >= edges[e].confidence + Margin

(* A high-stakes value the pipeline contradicts waits for a human.         *)
HighStakesReviewed ==
  ~\E e, n \in DOMAIN edges :
    /\ Supersedes(n, e)
    /\ edges[n].source_kind = "episode"
    /\ edges[n].object # edges[e].object
    /\ edges[e].predicate \in HighStakes

(* Seen from its readers the store is a ledger of whole assertions and     *)
(* whole retractions: with one operation in a transaction, every commit is *)
(* one of them, taken at the moment of the commit.                         *)
Unmirrored(p) == ~Mirrored(p)

Ledger == INSTANCE FactLedger WITH
  ledger <- edges, Plain <- Unmirrored, MirrorOf <- Mirror

LedgerSpec == Ledger!LedgerSpec

(* No transaction waits for ever, neither for the advisory lock nor for a  *)
(* row.                                                                    *)
TransactionsEnd == \A t \in Txns : t \in Active ~> pc[t] = "ended"

=============================================================================
