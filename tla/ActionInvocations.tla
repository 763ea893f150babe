--------------------------- MODULE ActionInvocations ---------------------------
(***************************************************************************)
(* The action layer of app/domain/action.py: callers invoke action types   *)
(* with an idempotency key and retry when they are unsure, admins approve  *)
(* or reject the invocations of gated types, and the handler of an         *)
(* invocation writes its effects in the transaction that runs it.          *)
(*                                                                         *)
(* The handler is the built-in attach_evidence_to_fact: it appends to the  *)
(* evidence of one edge.  A request is one transaction at READ COMMITTED;  *)
(* an UPDATE waits for a row another request has changed, an INSERT for an *)
(* uncommitted row with the same unique key.                               *)
(***************************************************************************)
EXTENDS Naturals, FiniteSets, ReadCommitted

CONSTANTS
  Types,          \* action_type slugs of the workspace
  Gated,          \* types with requires_approval
  Disabled,       \* types that are not enabled
  Handled,        \* types with a registered handler
  RequiredRole,   \* rank of the role each type asks for
  IdempotencyKeys,
  Edges,          \* edge ids callers attach evidence to
  Existing,       \* those that name an edge
  Invocations,    \* action_invocation ids
  NoInvocation,
  Requests,
  Calls,          \* what callers ask for
  MaxReviews,     \* bound: approvals and rejections in progress at once
  NoCall

(* A call of execute_action; valid tells whether the input satisfies the   *)
(* JSON schema of the type.                                                *)
Call == [type : Types, key : IdempotencyKeys, edge : Edges, role : 0..3, valid : BOOLEAN]

Invocation == [type : Types, key : IdempotencyKeys, edge : Edges,
               status : {"pending", "executing", "completed", "failed", "rejected"}]

ASSUME ActionAssumption ==
  /\ Gated \subseteq Types /\ Disabled \subseteq Types /\ Handled \subseteq Types
  /\ Existing \subseteq Edges
  /\ RequiredRole \in [Types -> 0..3]
  /\ NoInvocation \notin Invocations
  /\ Calls \subseteq Call
  /\ NoCall \notin Calls
  /\ MaxReviews \in Nat

VARIABLES
  table,      \* committed action_invocation rows
  evidence,   \* how often each invocation appears in the evidence of its edge
  pc,         \* the next statement of each request
  verb,       \* what the request does
  call,       \* the call it executes
  target,     \* the invocation it works on
  rows,       \* its uncommitted action_invocation rows
  attached    \* whether it has appended evidence and not committed

vars == <<table, evidence, pc, verb, call, target, rows, attached>>

TypeOK ==
  /\ DOMAIN table \subseteq Invocations
  /\ \A i \in DOMAIN table : table[i] \in Invocation
  /\ evidence \in [Invocations -> Nat]
  /\ pc \in [Requests -> {"new", "lookup", "insert", "read", "claim", "refuse", "handle",
                          "finish", "done", "failed", "ended"}]
  /\ verb \in [Requests -> {"none", "execute", "approve", "reject"}]
  /\ call \in [Requests -> Calls \cup {NoCall}]
  /\ target \in [Requests -> Invocations \cup {NoInvocation}]
  /\ \A t \in Requests : /\ DOMAIN rows[t] \subseteq Invocations
                         /\ \A i \in DOMAIN rows[t] : rows[t][i] \in Invocation
  /\ attached \in [Requests -> BOOLEAN]

-----------------------------------------------------------------------------

View(t) == Overlay(table, rows[t])

SameKey(a, b) == a.type = b.type /\ a.key = b.key

UsedIds == DOMAIN table \cup UNION {DOMAIN rows[u] : u \in Requests}

\* Fault: a request waits for its own uncommitted row.
RowFree_Own(t, i) == \A u \in Requests : i \notin DOMAIN rows[u]

(* No other request has changed row i without committing. *)
RowFree(t, i) == \A u \in Requests \ {t} : i \notin DOMAIN rows[u]

(* ... nor the evidence of edge e.                                         *)
EdgeFree(t, e) == \A u \in Requests \ {t} : attached[u] => View(u)[target[u]].edge # e

Goto(t, next) == pc' = [pc EXCEPT ![t] = next]

SetStatus(t, i, status) ==
  rows' = [rows EXCEPT ![t] = Overlay(@, [j \in {i} |-> [View(t)[i] EXCEPT !.status = status]])]

(* UPDATE action_invocation SET status ... WHERE id: it waits for the row, *)
(* and does not look at the status again.                                  *)
Update(t, status, next) ==
  /\ RowFree(t, target[t])
  /\ SetStatus(t, target[t], status)
  /\ Goto(t, next)
  /\ UNCHANGED <<table, evidence, verb, call, target, attached>>

-----------------------------------------------------------------------------
(* execute_action *)

Execute(t) ==
  \E c \in Calls :
    /\ pc[t] = "new"
    /\ call' = [call EXCEPT ![t] = c]
    /\ verb' = [verb EXCEPT ![t] = "execute"]
    /\ Goto(t, "lookup")
    /\ UNCHANGED <<table, evidence, target, rows, attached>>

(* The type is enabled and the caller's role reaches it. *)
Permitted(c) == c.type \notin Disabled /\ c.role >= RequiredRole[c.type]

(* The invocation that already has the key. *)
Cached(view, c) == {i \in DOMAIN view : SameKey(view[i], c)}

Lookup(t) ==
  LET c == call[t]
  IN /\ pc[t] = "lookup"
     /\ IF ~Permitted(c)
          THEN Goto(t, "failed") /\ UNCHANGED target
          ELSE IF Cached(View(t), c) # {}
            THEN /\ \E i \in Cached(View(t), c) : target' = [target EXCEPT ![t] = i]
                 /\ Goto(t, "done")
            ELSE Goto(t, IF c.valid THEN "insert" ELSE "failed") /\ UNCHANGED target
     /\ UNCHANGED <<table, evidence, verb, call, rows, attached>>

\* Fault: no UNIQUE (workspace_id, action_type_id, idempotency_key).
Taken_Never(view, c) == FALSE

(* The unique constraint refuses a second row with the key. *)
Taken(view, c) == \E i \in DOMAIN view : SameKey(view[i], c)

\* Fault: an invocation that needs no approval starts out approved.
FirstStatus_Approved(c) == IF c.type \in Gated THEN "pending" ELSE "approved"

FirstStatus(c) == IF c.type \in Gated THEN "pending" ELSE "executing"

Insert(t) ==
  LET c == call[t]
  IN /\ pc[t] = "insert"
     /\ \A u \in Requests \ {t} : ~Taken(rows[u], c)
     /\ IF Taken(View(t), c)
          THEN Goto(t, "failed") /\ UNCHANGED <<target, rows>>
          ELSE \E i \in Invocations \ UsedIds :
                 /\ target' = [target EXCEPT ![t] = i]
                 /\ rows' = [rows EXCEPT ![t] = Overlay(@, [j \in {i} |->
                      [type |-> c.type, key |-> c.key, edge |-> c.edge,
                       status |-> FirstStatus(c)]])]
                 /\ Goto(t, IF c.type \in Gated THEN "done" ELSE "handle")
     /\ UNCHANGED <<table, evidence, verb, call, attached>>

-----------------------------------------------------------------------------
(* approve_invocation and reject_invocation *)

Reviewing == {t \in Requests : verb[t] \in {"approve", "reject"} /\ pc[t] # "ended"}

Review(t) ==
  \E i \in DOMAIN table, v \in {"approve", "reject"} :
    /\ pc[t] = "new"
    /\ Cardinality(Reviewing) < MaxReviews
    /\ verb' = [verb EXCEPT ![t] = v]
    /\ target' = [target EXCEPT ![t] = i]
    /\ Goto(t, "read")
    /\ UNCHANGED <<table, evidence, call, rows, attached>>

\* Fault: the status is not looked at.
Pending_Always(row) == TRUE

(* inv.status == "pending" *)
Pending(row) == row.status = "pending"

ReadStatus(t) ==
  /\ pc[t] = "read"
  /\ Goto(t, IF ~Pending(View(t)[target[t]]) THEN "failed"
             ELSE IF verb[t] = "approve" THEN "claim" ELSE "refuse")
  /\ UNCHANGED <<table, evidence, verb, call, target, rows, attached>>

Claim(t) == pc[t] = "claim" /\ Update(t, "executing", "handle")

Refuse(t) == pc[t] = "refuse" /\ Update(t, "rejected", "done")

-----------------------------------------------------------------------------
(* _run_handler *)

(* What becomes of an invocation no handler is registered for. *)
Unhandled(row) == "failed"

NoHandler(t) ==
  /\ pc[t] = "handle"
  /\ View(t)[target[t]].type \notin Handled
  /\ Update(t, Unhandled(View(t)[target[t]]), "done")

(* The handler appends its evidence to the edge, if there is such an edge. *)
Handle(t) ==
  LET row == View(t)[target[t]]
  IN /\ pc[t] = "handle"
     /\ row.type \in Handled
     /\ EdgeFree(t, row.edge)
     /\ attached' = [attached EXCEPT ![t] = row.edge \in Existing]
     /\ Goto(t, "finish")
     /\ UNCHANGED <<table, evidence, verb, call, target, rows>>

(* It raises before it has written anything: the failure is recorded.      *)
HandlerFails(t) ==
  /\ pc[t] = "handle"
  /\ View(t)[target[t]].type \in Handled
  /\ Update(t, "failed", "done")

(* The database refuses one of its statements: the transaction is aborted, *)
(* and the UPDATE that would record the failure raises too.                *)
HandlerAborts(t) ==
  /\ pc[t] \in {"handle", "finish"}
  /\ View(t)[target[t]].type \in Handled
  /\ Goto(t, "failed")
  /\ UNCHANGED <<table, evidence, verb, call, target, rows, attached>>

Complete(t) == pc[t] = "finish" /\ Update(t, "completed", "done")

-----------------------------------------------------------------------------

End(t) ==
  /\ rows'     = [rows EXCEPT ![t] = << >>]
  /\ attached' = [attached EXCEPT ![t] = FALSE]
  /\ target'   = [target EXCEPT ![t] = NoInvocation]
  /\ call'     = [call EXCEPT ![t] = NoCall]
  /\ Goto(t, "ended")
  /\ UNCHANGED verb

Commit(t) ==
  /\ pc[t] = "done"
  /\ table' = View(t)
  /\ evidence' = IF attached[t] THEN [evidence EXCEPT ![target[t]] = @ + 1] ELSE evidence
  /\ End(t)

Rollback(t) == pc[t] = "failed" /\ End(t) /\ UNCHANGED <<table, evidence>>

(* The process or the connection is lost; the caller may call again. *)
Crash(t) == pc[t] \notin {"new", "ended"} /\ End(t) /\ UNCHANGED <<table, evidence>>

-----------------------------------------------------------------------------

Init ==
  /\ table    = << >>
  /\ evidence = [i \in Invocations |-> 0]
  /\ pc       = [t \in Requests |-> "new"]
  /\ verb     = [t \in Requests |-> "none"]
  /\ call     = [t \in Requests |-> NoCall]
  /\ target   = [t \in Requests |-> NoInvocation]
  /\ rows     = [t \in Requests |-> << >>]
  /\ attached = [t \in Requests |-> FALSE]

Step(t) ==
  \/ Lookup(t) \/ Insert(t)
  \/ ReadStatus(t) \/ Claim(t) \/ Refuse(t)
  \/ NoHandler(t) \/ Handle(t) \/ HandlerFails(t) \/ HandlerAborts(t) \/ Complete(t)

Quiet == (\A t \in Requests : pc[t] = "ended") /\ UNCHANGED vars

Next ==
  \/ \E t \in Requests : Execute(t) \/ Review(t) \/ Step(t) \/ Commit(t) \/ Rollback(t) \/ Crash(t)
  \/ Quiet

Spec == Init /\ [][Next]_vars

(* A request that has begun runs on. *)
FairSpec ==
  Spec /\ \A t \in Requests : WF_vars(Step(t)) /\ WF_vars(Commit(t)) /\ WF_vars(Rollback(t))

-----------------------------------------------------------------------------
(* Properties *)

(* A key names one invocation, although two callers may both find it       *)
(* unused.                                                                 *)
OneInvocationPerKey ==
  \A i, j \in DOMAIN table : SameKey(table[i], table[j]) => i = j

(* No crash or failure leaves an invocation that looks as if it ran still. *)
NoneLeftExecuting == \A i \in DOMAIN table : table[i].status # "executing"

(* An invocation has taken effect, once, exactly if it is completed and    *)
(* its edge exists, and none is left executing: a retry, a crash between   *)
(* the effect and the status, or a handler that fails never leaves one     *)
(* without the other.                                                      *)
EffectsMatchStatus ==
  /\ NoneLeftExecuting
  /\ \A i \in Invocations :
       evidence[i] = IF \/ i \notin DOMAIN table
                        \/ table[i].status # "completed"
                        \/ table[i].edge \notin Existing THEN 0 ELSE 1

(* The outcome of an invocation does not change, so that a retry gets the  *)
(* result the first caller got.                                            *)
OutcomesFinal ==
  [][\A i \in DOMAIN table : table[i].status # "pending" => table'[i] = table[i]]_table

(* Requests wait for one another only in the order invocation, edge, so    *)
(* they all end without Postgres having to cancel any.                     *)
RequestsEnd == \A t \in Requests : pc[t] = "lookup" \/ pc[t] = "read" ~> pc[t] = "ended"

=============================================================================
