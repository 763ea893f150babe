------------------------ MODULE ActionInvocationsProofs ------------------------
(***************************************************************************)
(* Proofs about the action layer, for every set of action types, callers   *)
(* and retries: a key names one invocation, and an invocation has taken    *)
(* effect exactly if it says so.                                           *)
(***************************************************************************)
EXTENDS ActionInvocations, TLAPS, FiniteSetTheorems

(* What the theorems about effects suppose: reviews do not overlap.  The   *)
(* status is read without a lock, so of two overlapping approvals both run *)
(* the handler.                                                            *)
OneReviewer == MaxReviews <= 1

(* Where a request has written nothing. *)
Clean == {"new", "lookup", "insert", "read", "claim", "refuse", "ended"}

(* The effect of an invocation belongs with its row. *)
Effective(row) == row.status = "completed" /\ row.edge \in Existing

(* What each statement of t finds in its variables. *)
Flow(t) ==
  /\ pc[t] \in {"lookup", "insert"} => verb[t] = "execute" /\ call[t] \in Calls
  /\ pc[t] \in {"read", "claim", "refuse"} => /\ verb[t] \in {"approve", "reject"}
                                              /\ target[t] \in DOMAIN table
  /\ pc[t] \in {"handle", "finish"} => /\ target[t] \in DOMAIN rows[t]
                                       /\ rows[t][target[t]].status = "executing"
  /\ pc[t] = "done" => /\ target[t] \in DOMAIN View(t)
                       /\ \A i \in DOMAIN rows[t] : rows[t][i].status # "executing"
  /\ pc[t] \in Clean => DOMAIN rows[t] = {}
  /\ DOMAIN rows[t] \subseteq {target[t]}

(* Evidence in flight belongs to a row in flight.                          *)
Attached(t) ==
  /\ pc[t] \notin {"finish", "done", "failed"} => ~attached[t]
  /\ pc[t] = "finish" => (attached[t] <=> rows[t][target[t]].edge \in Existing)
  /\ pc[t] = "done" => (attached[t] <=> \E i \in DOMAIN rows[t] : Effective(rows[t][i]))

(* Row locks keep the rows in flight apart.                                *)
RowsApart == \A t, u \in Requests : t # u => DOMAIN rows[t] \cap DOMAIN rows[u] = {}

(* A row in flight has the key of no other row, committed or in flight.    *)
KeysApart ==
  \A t \in Requests : \A i \in DOMAIN rows[t] :
    /\ \A j \in DOMAIN table : SameKey(rows[t][i], table[j]) => i = j
    /\ \A u \in Requests : \A j \in DOMAIN rows[u] :
         SameKey(rows[t][i], rows[u][j]) => i = j

(* An update changes nothing but the status. *)
KeepsIdentity ==
  \A t \in Requests : \A i \in DOMAIN rows[t] \cap DOMAIN table :
    SameKey(rows[t][i], table[i]) /\ rows[t][i].edge = table[i].edge

RowsInvariant == RowsApart /\ KeysApart /\ KeepsIdentity /\ OneInvocationPerKey

(* The inductive invariant of types, control and keys. *)
KeyInvariant ==
  /\ TypeOK /\ DOMAIN rows = Requests
  /\ \A t \in Requests : Flow(t)
  /\ RowsInvariant

(* At most one request reviews. *)
Alone == IsFiniteSet(Reviewing) /\ \A t, u \in Reviewing : t = u

(* Only a review writes a committed row, and it is pending still.          *)
PendingStill ==
  \A t \in Requests :
    /\ pc[t] \in {"claim", "refuse"} => table[target[t]].status = "pending"
    /\ \A i \in DOMAIN rows[t] \cap DOMAIN table :
         t \in Reviewing /\ table[i].status = "pending"

(* The inductive invariant of effects, with one reviewer. *)
EffectInvariant ==
  /\ KeyInvariant
  /\ \A t \in Requests : Attached(t)
  /\ Alone /\ PendingStill /\ EffectsMatchStatus

-----------------------------------------------------------------------------
(* What a statement sees and writes *)

LEMMA ViewIs ==
  ASSUME NEW t \in Requests
  PROVE  /\ DOMAIN View(t) = DOMAIN table \cup DOMAIN rows[t]
         /\ \A i \in DOMAIN rows[t] : View(t)[i] = rows[t][i]
         /\ \A i \in DOMAIN table \ DOMAIN rows[t] : View(t)[i] = table[i]
  BY DEF View, Overlay

LEMMA ViewTypes ==
  ASSUME TypeOK, NEW t \in Requests
  PROVE  /\ DOMAIN View(t) \subseteq Invocations
         /\ \A i \in DOMAIN View(t) : View(t)[i] \in Invocation
  <1>1. /\ DOMAIN View(t) = DOMAIN table \cup DOMAIN rows[t]
        /\ \A i \in DOMAIN rows[t] : View(t)[i] = rows[t][i]
        /\ \A i \in DOMAIN table \ DOMAIN rows[t] : View(t)[i] = table[i]
    BY ViewIs
  <1> QED BY <1>1 DEF TypeOK

(* t writes row i, and nothing else.                                       *)
WritesOne(t, i, row) ==
  /\ DOMAIN rows' = Requests
  /\ \A u \in Requests \ {t} : rows'[u] = rows[u]
  /\ DOMAIN rows'[t] = DOMAIN rows[t] \cup {i}
  /\ rows'[t][i] = row
  /\ \A j \in DOMAIN rows[t] \ {i} : rows'[t][j] = rows[t][j]

LEMMA OverlayOne ==
  ASSUME DOMAIN rows = Requests, NEW t \in Requests, NEW i, NEW row,
         rows' = [rows EXCEPT ![t] = Overlay(@, [j \in {i} |-> row])]
  PROVE  WritesOne(t, i, row)
  BY DEF WritesOne, Overlay

(* An UPDATE of the status: the row is the same but for it. *)
LEMMA UpdateWrites ==
  ASSUME TypeOK, DOMAIN rows = Requests, NEW t \in Requests, target[t] \in DOMAIN View(t),
         NEW status \in {"executing", "completed", "failed", "rejected"}, NEW next,
         Update(t, status, next)
  PROVE  \E row \in Invocation :
           /\ WritesOne(t, target[t], row)
           /\ SameKey(row, View(t)[target[t]])
           /\ row.edge = View(t)[target[t]].edge
           /\ row.status = status
  <1> DEFINE i == target[t]
             row == [View(t)[i] EXCEPT !.status = status]
  <1>1. View(t)[i] \in Invocation
    BY ViewTypes
  <1>2. /\ row \in Invocation
        /\ SameKey(row, View(t)[i]) /\ row.edge = View(t)[i].edge /\ row.status = status
    BY <1>1 DEF Invocation, SameKey
  <1>3. WritesOne(t, i, row)
    BY OverlayOne DEF Update, SetStatus
  <1> HIDE DEF row
  <1> QED BY <1>2, <1>3

-----------------------------------------------------------------------------
(* Types *)

LEMMA TypeInit == ASSUME ActionAssumption, Init PROVE TypeOK /\ DOMAIN rows = Requests
  BY DEF Init, ActionAssumption, TypeOK

(* A written row of the right type keeps the rows in flight typed. *)
LEMMA WriteTyped ==
  ASSUME TypeOK, NEW t \in Requests, NEW i \in Invocations, NEW row \in Invocation,
         WritesOne(t, i, row)
  PROVE  \A u \in Requests : /\ DOMAIN rows'[u] \subseteq Invocations
                             /\ \A j \in DOMAIN rows'[u] : rows'[u][j] \in Invocation
  BY DEF TypeOK, WritesOne

LEMMA UpdateTyped ==
  ASSUME TypeOK, DOMAIN rows = Requests, NEW t \in Requests, target[t] \in DOMAIN View(t),
         NEW status \in {"executing", "completed", "failed", "rejected"},
         NEW next \in {"handle", "done"}, Update(t, status, next)
  PROVE  TypeOK' /\ DOMAIN rows' = Requests
  <1>. PICK row \in Invocation : WritesOne(t, target[t], row)
    BY UpdateWrites
  <1>1. target[t] \in Invocations
    BY ViewTypes
  <1>2. \A u \in Requests : /\ DOMAIN rows'[u] \subseteq Invocations
                            /\ \A j \in DOMAIN rows'[u] : rows'[u][j] \in Invocation
    BY <1>1, WriteTyped
  <1>3. pc' \in [Requests -> {"new", "lookup", "insert", "read", "claim", "refuse", "handle",
                              "finish", "done", "failed", "ended"}]
    BY DEF Update, Goto, TypeOK
  <1>4. DOMAIN rows' = Requests
    BY DEF WritesOne
  <1> QED BY <1>2, <1>3, <1>4 DEF Update, TypeOK

LEMMA EndTyped ==
  ASSUME TypeOK, DOMAIN rows = Requests, NEW t \in Requests, End(t)
  PROVE  /\ DOMAIN rows' = Requests
         /\ \A u \in Requests : rows'[u] = IF u = t THEN << >> ELSE rows[u]
         /\ \A u \in Requests : /\ DOMAIN rows'[u] \subseteq Invocations
                                /\ \A j \in DOMAIN rows'[u] : rows'[u][j] \in Invocation
         /\ pc' \in [Requests -> {"new", "lookup", "insert", "read", "claim", "refuse",
                                  "handle", "finish", "done", "failed", "ended"}]
         /\ attached' \in [Requests -> BOOLEAN]
         /\ target' \in [Requests -> Invocations \cup {NoInvocation}]
         /\ call' \in [Requests -> Calls \cup {NoCall}]
         /\ verb' = verb
  BY DEF End, Goto, TypeOK

(* Where a request has a target, it is an invocation it sees. *)
LEMMA TargetSeen ==
  ASSUME NEW t \in Requests, Flow(t),
         pc[t] \in {"read", "claim", "refuse", "handle", "finish", "done"}
  PROVE  target[t] \in DOMAIN View(t)
  BY ViewIs DEF Flow

LEMMA TypeStep ==
  ASSUME ActionAssumption, TypeOK, DOMAIN rows = Requests, \A t \in Requests : Flow(t), Next
  PROVE  TypeOK' /\ DOMAIN rows' = Requests
<1>1. ASSUME NEW t \in Requests, Execute(t)
      PROVE  TypeOK' /\ DOMAIN rows' = Requests
  BY <1>1 DEF Execute, Goto, TypeOK
<1>2. ASSUME NEW t \in Requests, Review(t)
      PROVE  TypeOK' /\ DOMAIN rows' = Requests
  BY <1>2 DEF Review, Goto, TypeOK
<1>3. ASSUME NEW t \in Requests, Lookup(t)
      PROVE  TypeOK' /\ DOMAIN rows' = Requests
  <2>1. DOMAIN View(t) \subseteq Invocations
    BY ViewTypes
  <2>2. target' \in [Requests -> Invocations \cup {NoInvocation}]
    BY <1>3, <2>1 DEF Lookup, Cached, TypeOK
  <2>3. pc' \in [Requests -> {"new", "lookup", "insert", "read", "claim", "refuse", "handle",
                              "finish", "done", "failed", "ended"}]
    BY <1>3 DEF Lookup, Goto, TypeOK
  <2> QED BY <1>3, <2>2, <2>3 DEF Lookup, TypeOK
<1>4. ASSUME NEW t \in Requests, Insert(t)
      PROVE  TypeOK' /\ DOMAIN rows' = Requests
  <2>1. CASE Taken(View(t), call[t])
    BY <1>4, <2>1 DEF Insert, Goto, TypeOK
  <2>2. CASE ~Taken(View(t), call[t])
    <3> DEFINE row == [type |-> call[t].type, key |-> call[t].key, edge |-> call[t].edge,
                       status |-> FirstStatus(call[t])]
    <3>1. PICK i \in Invocations \ UsedIds :
            /\ target' = [target EXCEPT ![t] = i]
            /\ rows' = [rows EXCEPT ![t] = Overlay(@, [j \in {i} |-> row])]
            /\ Goto(t, IF call[t].type \in Gated THEN "done" ELSE "handle")
            /\ UNCHANGED <<table, evidence, verb, call, attached>>
      BY <1>4, <2>2 DEF Insert
    <3>2. call[t] \in Call
      BY <1>4 DEF Insert, Flow, ActionAssumption
    <3>3. row \in Invocation
      BY <3>2 DEF Call, Invocation, FirstStatus
    <3> HIDE DEF row
    <3>4. WritesOne(t, i, row)
      BY <3>1, OverlayOne
    <3>5. \A u \in Requests : /\ DOMAIN rows'[u] \subseteq Invocations
                              /\ \A j \in DOMAIN rows'[u] : rows'[u][j] \in Invocation
      BY <3>1, <3>3, <3>4, WriteTyped
    <3>6. /\ pc' \in [Requests -> {"new", "lookup", "insert", "read", "claim", "refuse",
                                   "handle", "finish", "done", "failed", "ended"}]
          /\ target' \in [Requests -> Invocations \cup {NoInvocation}]
      BY <3>1 DEF Goto, TypeOK
    <3>7. DOMAIN rows' = Requests
      BY <3>4 DEF WritesOne
    <3> QED BY <3>1, <3>5, <3>6, <3>7 DEF TypeOK
  <2> QED BY <2>1, <2>2
<1>5. ASSUME NEW t \in Requests, ReadStatus(t)
      PROVE  TypeOK' /\ DOMAIN rows' = Requests
  BY <1>5 DEF ReadStatus, Goto, TypeOK
<1>6. ASSUME NEW t \in Requests,
             Claim(t) \/ Refuse(t) \/ NoHandler(t) \/ HandlerFails(t) \/ Complete(t)
      PROVE  TypeOK' /\ DOMAIN rows' = Requests
  <2>1. \E status \in {"executing", "completed", "failed", "rejected"},
           next \in {"handle", "done"} : Update(t, status, next)
    BY <1>6 DEF Claim, Refuse, NoHandler, Unhandled, HandlerFails, Complete
  <2>2. target[t] \in DOMAIN View(t)
    BY <1>6, TargetSeen DEF Claim, Refuse, NoHandler, HandlerFails, Complete
  <2> QED BY <2>1, <2>2, UpdateTyped
<1>7. ASSUME NEW t \in Requests, Handle(t)
      PROVE  TypeOK' /\ DOMAIN rows' = Requests
  BY <1>7 DEF Handle, Goto, TypeOK
<1>8. ASSUME NEW t \in Requests, HandlerAborts(t)
      PROVE  TypeOK' /\ DOMAIN rows' = Requests
  BY <1>8 DEF HandlerAborts, Goto, TypeOK
<1>9. ASSUME NEW t \in Requests, Commit(t)
      PROVE  TypeOK' /\ DOMAIN rows' = Requests
  <2>1. End(t) /\ table' = View(t)
    BY <1>9 DEF Commit
  <2>2. /\ DOMAIN table' \subseteq Invocations
        /\ \A i \in DOMAIN table' : table'[i] \in Invocation
    BY <2>1, ViewTypes
  <2>3. target[t] \in Invocations
    BY <1>9, TargetSeen, ViewTypes DEF Commit
  <2>4. evidence' \in [Invocations -> Nat]
    BY <1>9, <2>3 DEF Commit, TypeOK
  <2> QED BY <2>1, <2>2, <2>4, EndTyped DEF TypeOK
<1>10. ASSUME NEW t \in Requests, Rollback(t) \/ Crash(t)
       PROVE  TypeOK' /\ DOMAIN rows' = Requests
  <2>1. End(t) /\ UNCHANGED <<table, evidence>>
    BY <1>10 DEF Rollback, Crash
  <2> QED BY <2>1, EndTyped DEF TypeOK
<1>11. CASE Quiet
  BY <1>11 DEF Quiet, vars, TypeOK
<1> QED BY <1>1, <1>2, <1>3, <1>4, <1>5, <1>6, <1>7, <1>8, <1>9, <1>10, <1>11 DEF Next, Step

-----------------------------------------------------------------------------
(* Rows and keys *)

LEMMA UpdateRows ==
  ASSUME TypeOK, DOMAIN rows = Requests, RowsInvariant,
         NEW t \in Requests, target[t] \in DOMAIN View(t),
         NEW status \in {"executing", "completed", "failed", "rejected"}, NEW next,
         Update(t, status, next)
  PROVE  RowsInvariant'
  <1> DEFINE i == target[t]
  <1>1. PICK row \in Invocation :
          /\ WritesOne(t, i, row)
          /\ SameKey(row, View(t)[i]) /\ row.edge = View(t)[i].edge
    BY UpdateWrites
  <1>2. table' = table /\ RowFree(t, i)
    BY DEF Update
  <1> HIDE DEF i
  <1>3. \/ i \in DOMAIN rows[t] /\ View(t)[i] = rows[t][i]
        \/ i \in DOMAIN table /\ i \notin DOMAIN rows[t] /\ View(t)[i] = table[i]
    <2>1. i \in DOMAIN View(t)
      BY DEF i
    <2> QED BY <2>1, ViewIs
  <1>4. RowsApart'
    BY <1>1, <1>2 DEF WritesOne, RowFree, RowsInvariant, RowsApart
  <1>5. KeepsIdentity'
    BY <1>1, <1>2, <1>3 DEF WritesOne, RowsInvariant, KeepsIdentity, SameKey
  <1>6. \A j \in DOMAIN table : SameKey(row, table[j]) => i = j
    BY <1>1, <1>3 DEF RowsInvariant, KeysApart, OneInvocationPerKey, SameKey
  <1>7. \A u \in Requests : \A j \in DOMAIN rows[u] : SameKey(row, rows[u][j]) => i = j
    <2> SUFFICES ASSUME NEW u \in Requests, NEW j \in DOMAIN rows[u], SameKey(row, rows[u][j])
                 PROVE  i = j
      OBVIOUS
    <2>1. SameKey(View(t)[i], rows[u][j]) /\ SameKey(rows[u][j], View(t)[i])
      BY <1>1 DEF SameKey
    <2> QED BY <1>3, <2>1 DEF RowsInvariant, KeysApart
  <1>8. KeysApart'
    <2> SUFFICES ASSUME NEW v \in Requests, NEW k \in DOMAIN rows'[v]
                 PROVE  /\ \A j \in DOMAIN table : SameKey(rows'[v][k], table[j]) => k = j
                        /\ \A u \in Requests : \A j \in DOMAIN rows'[u] :
                             SameKey(rows'[v][k], rows'[u][j]) => k = j
      BY <1>2 DEF KeysApart
    <2>1. \/ k \in DOMAIN rows[v] /\ rows'[v][k] = rows[v][k]
          \/ k = i /\ rows'[v][k] = row
      BY <1>1 DEF WritesOne
    <2>2. \A u \in Requests : \A j \in DOMAIN rows'[u] :
            \/ j \in DOMAIN rows[u] /\ rows'[u][j] = rows[u][j]
            \/ j = i /\ rows'[u][j] = row
      BY <1>1 DEF WritesOne
    <2>3. \A j \in DOMAIN table : SameKey(rows'[v][k], table[j]) => k = j
      BY <1>6, <2>1 DEF RowsInvariant, KeysApart
    <2>4. ASSUME NEW u \in Requests, NEW j \in DOMAIN rows'[u], SameKey(rows'[v][k], rows'[u][j])
          PROVE  k = j
      <3>1. CASE j \in DOMAIN rows[u] /\ rows'[u][j] = rows[u][j]
        BY <1>7, <2>1, <2>4, <3>1 DEF RowsInvariant, KeysApart
      <3>2. CASE j = i /\ rows'[u][j] = row
        BY <1>7, <2>1, <2>4, <3>2 DEF SameKey
      <3> QED BY <2>2, <3>1, <3>2
    <2> QED BY <2>3, <2>4
  <1> QED BY <1>2, <1>4, <1>5, <1>8 DEF RowsInvariant, OneInvocationPerKey

LEMMA InsertRows ==
  ASSUME TypeOK, DOMAIN rows = Requests, RowsInvariant, NEW t \in Requests, Flow(t),
         Insert(t)
  PROVE  RowsInvariant'
<1>1. CASE Taken(View(t), call[t])
  BY <1>1 DEF Insert, RowsInvariant, RowsApart, KeysApart, KeepsIdentity, OneInvocationPerKey
<1>2. CASE ~Taken(View(t), call[t])
  <2> DEFINE row == [type |-> call[t].type, key |-> call[t].key, edge |-> call[t].edge,
                     status |-> FirstStatus(call[t])]
  <2>1. PICK i \in Invocations \ UsedIds :
          /\ rows' = [rows EXCEPT ![t] = Overlay(@, [j \in {i} |-> row])]
          /\ table' = table
    BY <1>2 DEF Insert
  <2>2. row.type = call[t].type /\ row.key = call[t].key
    OBVIOUS
  <2> HIDE DEF row
  <2>3. WritesOne(t, i, row)
    BY <2>1, OverlayOne
  <2>4. i \notin DOMAIN table /\ \A u \in Requests : i \notin DOMAIN rows[u]
    BY DEF UsedIds
  <2>5. DOMAIN rows[t] = {}
    BY DEF Insert, Flow, Clean
  <2>6. \A j \in DOMAIN table : ~SameKey(row, table[j])
    BY <1>2, <2>2, <2>5, ViewIs DEF Taken, SameKey
  <2>7. \A u \in Requests : \A j \in DOMAIN rows[u] :
          ~SameKey(row, rows[u][j]) /\ ~SameKey(rows[u][j], row)
    BY <2>2, <2>5 DEF Insert, Taken, SameKey
  <2>8. RowsApart'
    BY <2>3, <2>4 DEF WritesOne, RowsInvariant, RowsApart
  <2>9. KeepsIdentity'
    BY <2>1, <2>3, <2>4 DEF WritesOne, RowsInvariant, KeepsIdentity
  <2>10. KeysApart'
    BY <2>1, <2>3, <2>5, <2>6, <2>7 DEF WritesOne, RowsInvariant, KeysApart
  <2> QED BY <2>1, <2>8, <2>9, <2>10 DEF RowsInvariant, OneInvocationPerKey
<1> QED BY <1>1, <1>2

LEMMA CommitRows ==
  ASSUME TypeOK, DOMAIN rows = Requests, RowsInvariant, NEW t \in Requests, Commit(t)
  PROVE  RowsInvariant'
  <1>1. /\ DOMAIN table' = DOMAIN table \cup DOMAIN rows[t]
        /\ \A i \in DOMAIN rows[t] : table'[i] = rows[t][i]
        /\ \A i \in DOMAIN table \ DOMAIN rows[t] : table'[i] = table[i]
    BY ViewIs DEF Commit
  <1>2. \A u \in Requests : rows'[u] = IF u = t THEN << >> ELSE rows[u]
    BY EndTyped DEF Commit
  <1>3. RowsApart'
    BY <1>2 DEF RowsInvariant, RowsApart
  <1>4. KeepsIdentity'
    BY <1>1, <1>2 DEF RowsInvariant, RowsApart, KeepsIdentity
  <1>5. KeysApart'
    BY <1>1, <1>2 DEF RowsInvariant, KeysApart
  <1>6. ASSUME NEW i \in DOMAIN table', NEW j \in DOMAIN table', SameKey(table'[i], table'[j])
        PROVE  i = j
    <2>1. CASE i \in DOMAIN rows[t]
      BY <1>1, <1>6, <2>1 DEF RowsInvariant, KeysApart
    <2>2. CASE i \notin DOMAIN rows[t] /\ j \in DOMAIN rows[t]
      <3>1. SameKey(table'[j], table'[i])
        BY <1>6 DEF SameKey
      <3> QED BY <1>1, <2>2, <3>1 DEF RowsInvariant, KeysApart
    <2>3. CASE i \notin DOMAIN rows[t] /\ j \notin DOMAIN rows[t]
      BY <1>1, <1>6, <2>3 DEF RowsInvariant, OneInvocationPerKey
    <2> QED BY <2>1, <2>2, <2>3
  <1> QED BY <1>3, <1>4, <1>5, <1>6 DEF RowsInvariant, OneInvocationPerKey

LEMMA RowsStep == ASSUME KeyInvariant, Next PROVE RowsInvariant'
<1> USE DEF KeyInvariant
<1>1. CASE UNCHANGED <<table, rows>>
  BY <1>1 DEF RowsInvariant, RowsApart, KeysApart, KeepsIdentity, OneInvocationPerKey
<1>2. ASSUME NEW t \in Requests, Insert(t)
      PROVE  RowsInvariant'
  BY <1>2, InsertRows
<1>3. ASSUME NEW t \in Requests,
             Claim(t) \/ Refuse(t) \/ NoHandler(t) \/ HandlerFails(t) \/ Complete(t)
      PROVE  RowsInvariant'
  <2>1. \E status \in {"executing", "completed", "failed", "rejected"},
           next \in {"handle", "done"} : Update(t, status, next)
    BY <1>3 DEF Claim, Refuse, NoHandler, Unhandled, HandlerFails, Complete
  <2>2. target[t] \in DOMAIN View(t)
    BY <1>3, TargetSeen DEF Claim, Refuse, NoHandler, HandlerFails, Complete
  <2> QED BY <2>1, <2>2, UpdateRows
<1>4. ASSUME NEW t \in Requests, Commit(t)
      PROVE  RowsInvariant'
  BY <1>4, CommitRows
<1>5. ASSUME NEW t \in Requests, Rollback(t) \/ Crash(t)
      PROVE  RowsInvariant'
  <2>1. End(t) /\ table' = table
    BY <1>5 DEF Rollback, Crash
  <2>2. \A u \in Requests : rows'[u] = IF u = t THEN << >> ELSE rows[u]
    BY <2>1, EndTyped
  <2> QED BY <2>1, <2>2
      DEF RowsInvariant, RowsApart, KeysApart, KeepsIdentity, OneInvocationPerKey
<1> QED
  BY <1>1, <1>2, <1>3, <1>4, <1>5
  DEF Next, Step, Execute, Review, Lookup, ReadStatus, Handle, HandlerAborts, Quiet, vars

-----------------------------------------------------------------------------
(* What each statement finds *)

(* A step of t leaves the rest as it is, and the table grows. *)
LEMMA OthersFlow ==
  ASSUME NEW t \in Requests, NEW u \in Requests, Flow(u), u # t,
         pc'[u] = pc[u], verb'[u] = verb[u], call'[u] = call[u], target'[u] = target[u],
         rows'[u] = rows[u], DOMAIN table \subseteq DOMAIN table'
  PROVE  Flow(u)'
  <1>1. DOMAIN View(u) = DOMAIN table \cup DOMAIN rows[u]
    BY ViewIs
  <1>2. DOMAIN View(u)' = DOMAIN table' \cup DOMAIN rows'[u]
    BY DEF View, Overlay
  <1> QED BY <1>1, <1>2 DEF Flow, Clean

(* A statement that writes no invocation. *)
LEMMA QuietFlow ==
  ASSUME KeyInvariant, NEW t \in Requests,
         Execute(t) \/ Review(t) \/ Lookup(t) \/ ReadStatus(t) \/ Handle(t) \/ HandlerAborts(t)
  PROVE  \A u \in Requests : Flow(u)'
  <1>1. /\ UNCHANGED <<table, rows>>
        /\ \A u \in Requests \ {t} : /\ pc'[u] = pc[u] /\ verb'[u] = verb[u]
                                     /\ call'[u] = call[u] /\ target'[u] = target[u]
    BY DEF Execute, Review, Lookup, ReadStatus, Handle, HandlerAborts, Goto,
           KeyInvariant, TypeOK
  <1>2. \A u \in Requests \ {t} : Flow(u)'
    BY <1>1, OthersFlow DEF KeyInvariant
  <1> SUFFICES Flow(t)'
    BY <1>2
  <1>3. Flow(t) /\ TypeOK
    BY DEF KeyInvariant
  <1>4. DOMAIN View(t) = DOMAIN table \cup DOMAIN rows[t] /\ View(t)' = View(t)
    BY <1>1, ViewIs DEF View
  <1>5. CASE Execute(t)
    BY <1>1, <1>3, <1>5 DEF Execute, Goto, TypeOK, Flow, Clean
  <1>6. CASE Review(t)
    BY <1>1, <1>3, <1>6 DEF Review, Goto, TypeOK, Flow, Clean
  <1>7. CASE Lookup(t)
    <2>1. Cached(View(t), call[t]) \subseteq DOMAIN View(t)
      BY DEF Cached
    <2>2. DOMAIN rows[t] = {}
      BY <1>3, <1>7 DEF Lookup, Flow, Clean
    <2>3. pc' = [pc EXCEPT ![t] = pc'[t]] /\ pc'[t] \in {"failed", "insert", "done"}
      BY <1>3, <1>7 DEF Lookup, Goto, TypeOK
    <2>4. pc'[t] = "done" => target'[t] \in DOMAIN View(t)
      BY <1>3, <1>7, <2>1 DEF Lookup, Goto, TypeOK
    <2>5. verb'[t] = "execute" /\ call'[t] \in Calls
      BY <1>3, <1>7 DEF Lookup, Flow
    <2> QED BY <1>1, <1>4, <2>2, <2>3, <2>4, <2>5 DEF Flow, Clean
  <1>8. CASE ReadStatus(t)
    BY <1>1, <1>3, <1>8 DEF ReadStatus, Goto, TypeOK, Flow, Clean
  <1>9. CASE Handle(t)
    BY <1>1, <1>3, <1>9 DEF Handle, Goto, TypeOK, Flow, Clean
  <1>10. CASE HandlerAborts(t)
    BY <1>1, <1>3, <1>10 DEF HandlerAborts, Goto, TypeOK, Flow, Clean
  <1> QED BY <1>5, <1>6, <1>7, <1>8, <1>9, <1>10

LEMMA InsertFlow ==
  ASSUME KeyInvariant, NEW t \in Requests, Insert(t)
  PROVE  \A u \in Requests : Flow(u)'
<1>1. TypeOK /\ Flow(t) /\ DOMAIN rows = Requests
  BY DEF KeyInvariant
<1>2. DOMAIN rows[t] = {}
  BY <1>1 DEF Insert, Flow, Clean
<1>3. CASE Taken(View(t), call[t])
  <2>1. /\ UNCHANGED <<table, rows, verb, call, target>>
        /\ pc' = [pc EXCEPT ![t] = "failed"]
    BY <1>3 DEF Insert, Goto
  <2>2. \A u \in Requests \ {t} : Flow(u)'
    BY <1>1, <2>1, OthersFlow DEF KeyInvariant, TypeOK
  <2>3. Flow(t)'
    BY <1>1, <1>2, <2>1 DEF Flow, Clean, TypeOK
  <2> QED BY <2>2, <2>3
<1>4. CASE ~Taken(View(t), call[t])
  <2> DEFINE row == [type |-> call[t].type, key |-> call[t].key, edge |-> call[t].edge,
                     status |-> FirstStatus(call[t])]
  <2>1. PICK i \in Invocations \ UsedIds :
          /\ target' = [target EXCEPT ![t] = i]
          /\ rows' = [rows EXCEPT ![t] = Overlay(@, [j \in {i} |-> row])]
          /\ Goto(t, IF call[t].type \in Gated THEN "done" ELSE "handle")
          /\ UNCHANGED <<table, verb, call>>
    BY <1>4 DEF Insert
  <2>2. row.status = IF call[t].type \in Gated THEN "pending" ELSE "executing"
    BY DEF FirstStatus
  <2> HIDE DEF row
  <2>3. WritesOne(t, i, row)
    BY <1>1, <2>1, OverlayOne
  <2>4. \A u \in Requests \ {t} : Flow(u)'
    BY <1>1, <2>1, <2>3, OthersFlow DEF KeyInvariant, Goto, WritesOne, TypeOK
  <2>5. DOMAIN rows'[t] = {i} /\ rows'[t][i] = row /\ target'[t] = i
    BY <1>1, <1>2, <2>1, <2>3 DEF WritesOne, TypeOK
  <2>6. i \in DOMAIN View(t)'
    BY <2>5 DEF View, Overlay
  <2>7. pc'[t] = IF call[t].type \in Gated THEN "done" ELSE "handle"
    BY <1>1, <2>1 DEF Goto, TypeOK
  <2>8. Flow(t)'
    BY <2>2, <2>5, <2>6, <2>7 DEF Flow, Clean
  <2> QED BY <2>4, <2>8
<1> QED BY <1>3, <1>4

LEMMA UpdateFlow ==
  ASSUME KeyInvariant, NEW t \in Requests, target[t] \in DOMAIN View(t),
         NEW status \in {"executing", "completed", "failed", "rejected"},
         NEW next \in {"handle", "done"}, next = "handle" <=> status = "executing",
         Update(t, status, next)
  PROVE  \A u \in Requests : Flow(u)'
  <1>1. TypeOK /\ Flow(t) /\ DOMAIN rows = Requests
    BY DEF KeyInvariant
  <1>2. PICK row \in Invocation : WritesOne(t, target[t], row) /\ row.status = status
    BY <1>1, UpdateWrites
  <1>3. UNCHANGED <<table, verb, call, target>> /\ pc' = [pc EXCEPT ![t] = next]
    BY DEF Update, Goto
  <1>4. \A u \in Requests \ {t} : Flow(u)'
    BY <1>1, <1>2, <1>3, OthersFlow DEF KeyInvariant, WritesOne, TypeOK
  <1>5. DOMAIN rows'[t] = {target[t]} /\ rows'[t][target[t]] = row /\ pc'[t] = next
    BY <1>1, <1>2, <1>3 DEF WritesOne, Flow, TypeOK
  <1>6. target'[t] \in DOMAIN View(t)'
    BY <1>3, <1>5 DEF View, Overlay
  <1>7. Flow(t)'
    BY <1>2, <1>3, <1>5, <1>6 DEF Flow, Clean
  <1> QED BY <1>4, <1>7

LEMMA EndFlow ==
  ASSUME KeyInvariant, NEW t \in Requests, End(t), DOMAIN table \subseteq DOMAIN table'
  PROVE  \A u \in Requests : Flow(u)'
  <1>1. TypeOK /\ DOMAIN rows = Requests
    BY DEF KeyInvariant
  <1>2. /\ \A u \in Requests \ {t} : /\ pc'[u] = pc[u] /\ verb'[u] = verb[u]
                                     /\ call'[u] = call[u] /\ target'[u] = target[u]
                                     /\ rows'[u] = rows[u]
        /\ pc'[t] = "ended" /\ rows'[t] = << >>
    BY <1>1 DEF End, Goto, TypeOK
  <1>3. \A u \in Requests \ {t} : Flow(u)'
    BY <1>2, OthersFlow DEF KeyInvariant
  <1>4. Flow(t)'
    BY <1>2 DEF Flow, Clean
  <1> QED BY <1>3, <1>4

(* Which statement makes which update. *)
LEMMA Updates ==
  ASSUME NEW t \in Requests, Flow(t),
         Claim(t) \/ Refuse(t) \/ NoHandler(t) \/ HandlerFails(t) \/ Complete(t)
  PROVE  /\ target[t] \in DOMAIN View(t)
         /\ \E status \in {"executing", "completed", "failed", "rejected"},
               next \in {"handle", "done"} :
              /\ next = "handle" <=> status = "executing"
              /\ Update(t, status, next)
  <1>1. target[t] \in DOMAIN View(t)
    BY TargetSeen DEF Claim, Refuse, NoHandler, HandlerFails, Complete
  <1> QED BY <1>1 DEF Claim, Refuse, NoHandler, Unhandled, HandlerFails, Complete

LEMMA FlowStep == ASSUME KeyInvariant, Next PROVE \A u \in Requests : Flow(u)'
<1>1. ASSUME NEW t \in Requests,
             Claim(t) \/ Refuse(t) \/ NoHandler(t) \/ HandlerFails(t) \/ Complete(t)
      PROVE  \A u \in Requests : Flow(u)'
  <2>1. Flow(t)
    BY DEF KeyInvariant
  <2> QED BY <1>1, <2>1, Updates, UpdateFlow
<1>2. ASSUME NEW t \in Requests, Commit(t) \/ Rollback(t) \/ Crash(t)
      PROVE  \A u \in Requests : Flow(u)'
  <2>1. End(t) /\ DOMAIN table \subseteq DOMAIN table'
    BY <1>2, ViewIs DEF Commit, Rollback, Crash
  <2> QED BY <2>1, EndFlow
<1>3. CASE Quiet
  BY <1>3 DEF Quiet, vars, KeyInvariant, Flow, View
<1> QED BY <1>1, <1>2, <1>3, QuietFlow, InsertFlow DEF Next, Step

-----------------------------------------------------------------------------

LEMMA KeyInit == ASSUME ActionAssumption, Init PROVE KeyInvariant
  <1>1. TypeOK /\ DOMAIN rows = Requests
    BY TypeInit
  <1>2. \A t \in Requests : Flow(t)
    BY DEF Init, Flow, Clean
  <1>3. RowsInvariant
    BY DEF Init, RowsInvariant, RowsApart, KeysApart, KeepsIdentity, OneInvocationPerKey
  <1> QED BY <1>1, <1>2, <1>3 DEF KeyInvariant

LEMMA KeyStep == ASSUME ActionAssumption, KeyInvariant, [Next]_vars PROVE KeyInvariant'
<1>1. CASE Next
  <2>1. TypeOK' /\ DOMAIN rows' = Requests
    BY <1>1, TypeStep DEF KeyInvariant
  <2> QED BY <1>1, <2>1, FlowStep, RowsStep DEF KeyInvariant
<1>2. CASE UNCHANGED vars
  BY <1>2
  DEF vars, KeyInvariant, TypeOK, Flow, View, RowsInvariant, RowsApart, KeysApart,
      KeepsIdentity, OneInvocationPerKey
<1> QED BY <1>1, <1>2

LEMMA KeyAlways == Spec => []KeyInvariant
<1>1. Init => KeyInvariant
  BY KeyInit, ActionAssumption
<1>2. KeyInvariant /\ [Next]_vars => KeyInvariant'
  BY KeyStep, ActionAssumption
<1> QED BY <1>1, <1>2, PTL DEF Spec

(* Every request has the variables of its statement: whoever works on an   *)
(* invocation sees it.                                                     *)
THEOREM ActionTypes == Spec => []TypeOK
<1>1. KeyInvariant => TypeOK
  BY DEF KeyInvariant
<1> QED BY <1>1, KeyAlways, PTL

(* A key names one invocation, however many callers retry it at once and   *)
(* however many reviewers there are.                                       *)
THEOREM KeyNamesOne == Spec => []OneInvocationPerKey
<1>1. KeyInvariant => OneInvocationPerKey
  BY DEF KeyInvariant, RowsInvariant
<1> QED BY <1>1, KeyAlways, PTL

-----------------------------------------------------------------------------
(* One reviewer *)

LEMMA ReviewingIs ==
  ASSUME NEW t \in Requests
  PROVE  t \in Reviewing <=> verb[t] \in {"approve", "reject"} /\ pc[t] # "ended"
  BY DEF Reviewing

(* A step of t that is no review begins none. *)
LEMMA ReviewersStay ==
  ASSUME Alone, Reviewing' \subseteq Reviewing
  PROVE  Alone'
  <1>1. IsFiniteSet(Reviewing')
    BY FS_Subset DEF Alone
  <1> QED BY <1>1 DEF Alone

LEMMA AloneStep ==
  ASSUME ActionAssumption, OneReviewer, KeyInvariant, Alone, Next
  PROVE  Alone'
<1> USE DEF KeyInvariant, TypeOK
<1>1. ASSUME NEW t \in Requests, Review(t)
      PROVE  Alone'
  <2>1. Reviewing = {}
    <3>1. Cardinality(Reviewing) \in Nat /\ (Cardinality(Reviewing) = 0 <=> Reviewing = {})
      BY FS_CardinalityType, FS_EmptySet DEF Alone
    <3>2. Cardinality(Reviewing) < MaxReviews /\ MaxReviews \in Nat /\ MaxReviews <= 1
      BY <1>1 DEF Review, ActionAssumption, OneReviewer
    <3> QED BY <3>1, <3>2
  <2>2. Reviewing' \subseteq {t}
    BY <1>1, <2>1 DEF Review, Reviewing, Goto
  <2>3. IsFiniteSet({t})
    BY FS_Singleton
  <2>4. IsFiniteSet(Reviewing')
    BY <2>2, <2>3, FS_Subset
  <2> QED BY <2>2, <2>4 DEF Alone
<1>2. ASSUME NEW t \in Requests, Execute(t)
      PROVE  Alone'
  <2>1. Reviewing' \subseteq Reviewing
    BY <1>2 DEF Execute, Reviewing, Goto
  <2> QED BY <2>1, ReviewersStay
<1>3. ASSUME NEW t \in Requests, NEW next, pc[t] # "ended", Goto(t, next), UNCHANGED verb
      PROVE  Alone'
  <2>1. Reviewing' \subseteq Reviewing
    BY <1>3 DEF Reviewing, Goto
  <2> QED BY <2>1, ReviewersStay
<1>4. ASSUME NEW t \in Requests, Step(t)
      PROVE  Alone'
  <2>1. pc[t] # "ended" /\ UNCHANGED verb
    BY <1>4 DEF Step, Lookup, Insert, ReadStatus, Claim, Refuse, NoHandler, Handle, HandlerFails,
                HandlerAborts, Complete, Update
  <2>2. \E next : Goto(t, next)
    BY <1>4 DEF Step, Lookup, Insert, ReadStatus, Claim, Refuse, NoHandler, Handle, HandlerFails,
                HandlerAborts, Complete, Update
  <2> QED BY <1>3, <2>1, <2>2
<1>5. ASSUME NEW t \in Requests, Commit(t) \/ Rollback(t) \/ Crash(t)
      PROVE  Alone'
  <2>1. pc[t] # "ended" /\ UNCHANGED verb /\ Goto(t, "ended")
    BY <1>5 DEF Commit, Rollback, Crash, End
  <2> QED BY <1>3, <2>1
<1>6. CASE Quiet
  <2>1. Reviewing' = Reviewing
    BY <1>6 DEF Quiet, vars, Reviewing
  <2> QED BY <2>1, ReviewersStay
<1> QED BY <1>1, <1>2, <1>4, <1>5, <1>6 DEF Next

(* A statement of t that leaves the table, its own rows aside, as it is.   *)
LEMMA OthersPending ==
  ASSUME KeyInvariant, PendingStill, NEW t \in Requests, NEW u \in Requests, u # t,
         table' = table,
         pc'[u] = pc[u], verb'[u] = verb[u], target'[u] = target[u], rows'[u] = rows[u]
  PROVE  /\ pc'[u] \in {"claim", "refuse"} => table'[target'[u]].status = "pending"
         /\ \A i \in DOMAIN rows'[u] \cap DOMAIN table' :
              u \in Reviewing' /\ table'[i].status = "pending"
  <1>1. u \in Reviewing' <=> u \in Reviewing
    BY DEF Reviewing
  <1> QED BY <1>1 DEF PendingStill

LEMMA PendingCommit ==
  ASSUME KeyInvariant, Alone, PendingStill, NEW t \in Requests, Commit(t)
  PROVE  PendingStill'
  <1>1. /\ \A i \in DOMAIN rows[t] : table'[i] = rows[t][i]
        /\ \A i \in DOMAIN table \ DOMAIN rows[t] : table'[i] = table[i]
        /\ DOMAIN table' = DOMAIN table \cup DOMAIN rows[t]
    BY ViewIs DEF Commit
  <1>2. /\ \A u \in Requests \ {t} : /\ pc'[u] = pc[u] /\ verb'[u] = verb[u]
                                     /\ target'[u] = target[u] /\ rows'[u] = rows[u]
        /\ pc'[t] = "ended" /\ rows'[t] = << >>
    BY DEF Commit, End, Goto, KeyInvariant, TypeOK
  <1>3. ASSUME NEW u \in Requests \ {t}, pc[u] \in {"claim", "refuse"}
        PROVE  table'[target[u]].status = "pending"
    <2>1. target[u] \in DOMAIN table /\ table[target[u]].status = "pending" /\ u \in Reviewing
      BY <1>3, ReviewingIs DEF KeyInvariant, Flow, PendingStill
    <2>2. target[u] \notin DOMAIN rows[t]
      BY <2>1 DEF PendingStill, Alone
    <2> QED BY <1>1, <2>1, <2>2
  <1>4. ASSUME NEW u \in Requests \ {t}, NEW i \in DOMAIN rows[u] \cap DOMAIN table'
        PROVE  u \in Reviewing' /\ table'[i].status = "pending"
    <2>1. i \notin DOMAIN rows[t]
      BY DEF KeyInvariant, RowsInvariant, RowsApart
    <2>2. u \in Reviewing /\ table'[i].status = "pending"
      BY <1>1, <2>1 DEF PendingStill
    <2>3. u \in Reviewing'
      BY <1>2, <2>2 DEF Reviewing
    <2> QED BY <2>2, <2>3
  <1> QED BY <1>2, <1>3, <1>4 DEF PendingStill

LEMMA PendingStep ==
  ASSUME KeyInvariant, Alone, PendingStill, Next
  PROVE  PendingStill'
<1>1. ASSUME NEW t \in Requests, Commit(t)
      PROVE  PendingStill'
  BY <1>1, PendingCommit
<1>2. CASE Quiet
  BY <1>2 DEF Quiet, vars, PendingStill, Reviewing
<1>3. SUFFICES ASSUME NEW t \in Requests,
                      Execute(t) \/ Review(t) \/ Step(t) \/ Rollback(t) \/ Crash(t)
               PROVE  PendingStill'
  BY <1>1, <1>2 DEF Next
<1>4. TypeOK /\ Flow(t) /\ DOMAIN rows = Requests
  BY DEF KeyInvariant
<1>5. /\ table' = table
      /\ \A u \in Requests \ {t} : /\ pc'[u] = pc[u] /\ verb'[u] = verb[u]
                                   /\ target'[u] = target[u] /\ rows'[u] = rows[u]
  BY <1>3, <1>4
  DEF Execute, Review, Step, Rollback, Crash, End, Lookup, Insert, ReadStatus, Claim, Refuse,
      NoHandler, Handle, HandlerFails, HandlerAborts, Complete, Update, SetStatus, Goto, TypeOK
<1>6. SUFFICES /\ pc'[t] \in {"claim", "refuse"} => table[target'[t]].status = "pending"
               /\ \A i \in DOMAIN rows'[t] \cap DOMAIN table :
                    t \in Reviewing' /\ table[i].status = "pending"
  BY <1>5, OthersPending DEF PendingStill
<1>7. /\ pc[t] \in {"claim", "refuse"} => table[target[t]].status = "pending"
      /\ \A i \in DOMAIN rows[t] \cap DOMAIN table :
           t \in Reviewing /\ table[i].status = "pending"
  BY DEF PendingStill
<1>8. CASE Execute(t) \/ Review(t)
  BY <1>4, <1>8 DEF Execute, Review, Goto, TypeOK, Flow, Clean
<1>9. CASE Lookup(t)
  BY <1>4, <1>9 DEF Lookup, Goto, TypeOK, Flow, Clean
<1>10. CASE Insert(t)
  <2>1. DOMAIN rows[t] = {} /\ pc'[t] \notin {"claim", "refuse"}
    BY <1>4, <1>10 DEF Insert, Goto, TypeOK, Flow, Clean
  <2>2. \A i \in DOMAIN rows'[t] : i \notin DOMAIN table
    <3>1. CASE Taken(View(t), call[t])
      BY <1>10, <2>1, <3>1 DEF Insert
    <3>2. CASE ~Taken(View(t), call[t])
      <4>0. PICK i \in Invocations \ UsedIds :
              \E row : rows' = [rows EXCEPT ![t] = Overlay(@, [j \in {i} |-> row])]
        BY <1>10, <3>2 DEF Insert
      <4>1. PICK row : rows' = [rows EXCEPT ![t] = Overlay(@, [j \in {i} |-> row])]
        BY <4>0
      <4>2. WritesOne(t, i, row)
        BY <1>4, <4>1, OverlayOne
      <4>3. DOMAIN rows'[t] = {i}
        BY <2>1, <4>2 DEF WritesOne
      <4> QED BY <4>3 DEF UsedIds
    <3> QED BY <3>1, <3>2
  <2> QED BY <2>1, <2>2
<1>11. CASE ReadStatus(t)
  <2>1. DOMAIN rows[t] = {} /\ rows' = rows /\ target' = target
    BY <1>4, <1>11 DEF ReadStatus, Flow, Clean
  <2>2. target[t] \in DOMAIN table
    BY <1>4, <1>11 DEF ReadStatus, Flow
  <2>3. View(t)[target[t]] = table[target[t]]
    BY <2>1, <2>2, ViewIs
  <2>4. pc'[t] \in {"claim", "refuse"} => Pending(View(t)[target[t]])
    BY <1>4, <1>11 DEF ReadStatus, Goto, TypeOK
  <2> QED BY <2>1, <2>3, <2>4 DEF Pending
<1>12. CASE Claim(t) \/ Refuse(t) \/ NoHandler(t) \/ HandlerFails(t) \/ Complete(t)
  <2>1. PICK status \in {"executing", "completed", "failed", "rejected"},
             next \in {"handle", "done"} : Update(t, status, next)
    BY <1>4, <1>12, Updates
  <2>2. target[t] \in DOMAIN View(t)
    BY <1>4, <1>12, Updates
  <2>3. DOMAIN rows'[t] = DOMAIN rows[t] \cup {target[t]}
    BY <1>4, <2>1, <2>2, UpdateWrites DEF WritesOne
  <2>4. pc'[t] = next /\ verb'[t] = verb[t]
    BY <1>4, <2>1 DEF Update, Goto, TypeOK
  <2>5. CASE Claim(t) \/ Refuse(t)
    BY <1>4, <1>7, <2>3, <2>4, <2>5 DEF Claim, Refuse, Flow, Clean, Reviewing
  <2>6. CASE NoHandler(t) \/ HandlerFails(t) \/ Complete(t)
    <3>1. target[t] \in DOMAIN rows[t]
      BY <1>4, <2>6 DEF NoHandler, HandlerFails, Complete, Flow
    <3> QED BY <1>7, <2>3, <2>4, <3>1 DEF Reviewing
  <2> QED BY <1>12, <2>5, <2>6
<1>13. CASE Handle(t) \/ HandlerAborts(t)
  BY <1>4, <1>7, <1>13 DEF Handle, HandlerAborts, Goto, TypeOK, Reviewing
<1>14. CASE Rollback(t) \/ Crash(t)
  BY <1>4, <1>14 DEF Rollback, Crash, End, Goto, TypeOK
<1> QED
  BY <1>3, <1>8, <1>9, <1>10, <1>11, <1>12, <1>13, <1>14 DEF Step

-----------------------------------------------------------------------------
(* Evidence *)

LEMMA AttachedStep ==
  ASSUME KeyInvariant, \A u \in Requests : Attached(u), Next
  PROVE  \A u \in Requests : Attached(u)'
<1>1. CASE Quiet
  BY <1>1 DEF Quiet, vars, Attached
<1>2. SUFFICES ASSUME NEW t \in Requests,
                      \/ Execute(t) \/ Review(t) \/ Step(t)
                      \/ Commit(t) \/ Rollback(t) \/ Crash(t)
               PROVE  \A u \in Requests : Attached(u)'
  BY <1>1 DEF Next
<1>3. TypeOK /\ Flow(t) /\ DOMAIN rows = Requests /\ Attached(t)
  BY DEF KeyInvariant
<1>4. \A u \in Requests \ {t} : /\ pc'[u] = pc[u] /\ attached'[u] = attached[u]
                                /\ target'[u] = target[u] /\ rows'[u] = rows[u]
  BY <1>2, <1>3
  DEF Execute, Review, Step, Commit, Rollback, Crash, End, Lookup, Insert, ReadStatus, Claim,
      Refuse, NoHandler, Handle, HandlerFails, HandlerAborts, Complete, Update, SetStatus, Goto,
      TypeOK
<1>5. \A u \in Requests \ {t} : Attached(u)'
  BY <1>4 DEF Attached
<1> SUFFICES Attached(t)'
  BY <1>5
<1>6. CASE Execute(t) \/ Review(t) \/ ReadStatus(t)
  BY <1>3, <1>6 DEF Execute, Review, ReadStatus, Goto, TypeOK, Attached
<1>7. CASE Lookup(t)
  BY <1>3, <1>7 DEF Lookup, Goto, TypeOK, Flow, Clean, Attached
<1>8. CASE Insert(t)
  <2>1. ~attached[t] /\ attached' = attached
    BY <1>3, <1>8 DEF Insert, Attached
  <2>2. CASE Taken(View(t), call[t])
    BY <1>3, <1>8, <2>1, <2>2 DEF Insert, Goto, TypeOK, Attached
  <2>3. CASE ~Taken(View(t), call[t])
    <3> DEFINE row == [type |-> call[t].type, key |-> call[t].key, edge |-> call[t].edge,
                       status |-> FirstStatus(call[t])]
    <3>1. PICK i \in Invocations \ UsedIds :
            /\ rows' = [rows EXCEPT ![t] = Overlay(@, [j \in {i} |-> row])]
            /\ Goto(t, IF call[t].type \in Gated THEN "done" ELSE "handle")
      BY <1>8, <2>3 DEF Insert
    <3>2. row.status # "completed"
      BY DEF FirstStatus
    <3> HIDE DEF row
    <3>3. WritesOne(t, i, row)
      BY <1>3, <3>1, OverlayOne
    <3>4. DOMAIN rows[t] = {}
      BY <1>3, <1>8 DEF Insert, Flow, Clean
    <3>5. \A j \in DOMAIN rows'[t] : ~Effective(rows'[t][j])
      BY <3>2, <3>3, <3>4 DEF WritesOne, Effective
    <3>6. pc'[t] \in {"done", "handle"}
      BY <1>3, <3>1 DEF Goto, TypeOK
    <3> QED BY <2>1, <3>5, <3>6 DEF Attached
  <2> QED BY <2>2, <2>3
<1>9. CASE Claim(t) \/ Refuse(t) \/ NoHandler(t) \/ HandlerFails(t) \/ Complete(t)
  <2>1. target[t] \in DOMAIN View(t)
    BY <1>3, <1>9, Updates
  <2>2. ASSUME NEW status \in {"executing", "completed", "failed", "rejected"},
               NEW next \in {"handle", "done"}, Update(t, status, next)
        PROVE  /\ pc'[t] = next /\ attached' = attached /\ target' = target
               /\ DOMAIN rows'[t] = {target[t]}
               /\ rows'[t][target[t]].status = status
               /\ rows'[t][target[t]].edge = View(t)[target[t]].edge
    <3>1. PICK row \in Invocation :
            /\ WritesOne(t, target[t], row)
            /\ row.status = status /\ row.edge = View(t)[target[t]].edge
      BY <1>3, <2>1, <2>2, UpdateWrites
    <3>2. DOMAIN rows'[t] = {target[t]} /\ rows'[t][target[t]] = row
      BY <1>3, <3>1 DEF WritesOne, Flow
    <3>3. pc'[t] = next /\ attached' = attached /\ target' = target
      BY <1>3, <2>2 DEF Update, Goto, TypeOK
    <3> QED BY <3>1, <3>2, <3>3
  <2>3. CASE Claim(t)
    <3>1. Update(t, "executing", "handle") /\ ~attached[t]
      BY <1>3, <2>3 DEF Claim, Attached
    <3> QED BY <2>2, <3>1 DEF Attached
  <2>4. CASE Refuse(t) \/ NoHandler(t) \/ HandlerFails(t)
    <3>1. PICK status \in {"failed", "rejected"} : Update(t, status, "done")
      BY <2>4 DEF Refuse, NoHandler, Unhandled, HandlerFails
    <3>2. ~attached[t]
      BY <1>3, <2>4 DEF Refuse, NoHandler, HandlerFails, Attached
    <3> QED BY <2>2, <3>1, <3>2 DEF Attached, Effective
  <2>5. CASE Complete(t)
    <3>1. Update(t, "completed", "done")
      BY <2>5 DEF Complete
    <3>2. target[t] \in DOMAIN rows[t] /\ (attached[t] <=> rows[t][target[t]].edge \in Existing)
      BY <1>3, <2>5 DEF Complete, Flow, Attached
    <3>3. View(t)[target[t]] = rows[t][target[t]]
      BY <3>2, ViewIs
    <3> QED BY <2>2, <3>1, <3>2, <3>3 DEF Attached, Effective
  <2> QED BY <1>9, <2>3, <2>4, <2>5
<1>10. CASE Handle(t)
  <2>1. target[t] \in DOMAIN rows[t]
    BY <1>3, <1>10 DEF Handle, Flow
  <2>2. View(t)[target[t]] = rows[t][target[t]]
    BY <2>1, ViewIs
  <2>3. /\ pc'[t] = "finish" /\ rows' = rows /\ target' = target
        /\ attached'[t] = (View(t)[target[t]].edge \in Existing)
    BY <1>3, <1>10 DEF Handle, Goto, TypeOK
  <2> QED BY <2>2, <2>3 DEF Attached
<1>11. CASE HandlerAborts(t)
  BY <1>3, <1>11 DEF HandlerAborts, Goto, TypeOK, Attached
<1>12. CASE Commit(t) \/ Rollback(t) \/ Crash(t)
  BY <1>3, <1>12 DEF Commit, Rollback, Crash, End, Goto, TypeOK, Attached
<1> QED BY <1>2, <1>6, <1>7, <1>8, <1>9, <1>10, <1>11, <1>12 DEF Step

(* Evidence of an invocation, once if it is owed. *)
Owed(i) ==
  IF \/ i \notin DOMAIN table
     \/ table[i].status # "completed"
     \/ table[i].edge \notin Existing THEN 0 ELSE 1

LEMMA EffectsCommit ==
  ASSUME EffectInvariant, NEW t \in Requests, Commit(t)
  PROVE  EffectsMatchStatus'
<1>1. TypeOK /\ Flow(t) /\ Attached(t) /\ DOMAIN rows[t] \subseteq {target[t]}
  BY DEF EffectInvariant, KeyInvariant, Flow
<1>2. /\ DOMAIN table' = DOMAIN table \cup DOMAIN rows[t]
      /\ \A i \in DOMAIN rows[t] : table'[i] = rows[t][i]
      /\ \A i \in DOMAIN table \ DOMAIN rows[t] : table'[i] = table[i]
  BY ViewIs DEF Commit
<1>3. NoneLeftExecuting'
  BY <1>1, <1>2 DEF Commit, Flow, EffectInvariant, EffectsMatchStatus, NoneLeftExecuting
<1>4. attached[t] <=> \E i \in DOMAIN rows[t] : Effective(rows[t][i])
  BY <1>1 DEF Commit, Attached
<1>5. target[t] \in Invocations
  BY <1>1, TargetSeen, ViewTypes DEF Commit
<1>6. \A i \in Invocations : evidence[i] = Owed(i)
  BY DEF EffectInvariant, EffectsMatchStatus, Owed
<1>7. \A i \in Invocations :
        evidence'[i] = IF attached[t] /\ i = target[t] THEN evidence[i] + 1 ELSE evidence[i]
  BY <1>1, <1>5 DEF Commit, TypeOK
<1>8. \A i \in DOMAIN rows[t] : Owed(i) = 0
  BY DEF EffectInvariant, PendingStill, Owed
<1>9. ASSUME NEW i \in Invocations
      PROVE  evidence'[i] = Owed(i)'
  <2>1. CASE i \in DOMAIN rows[t]
    <3>1. i = target[t] /\ (attached[t] <=> Effective(rows[t][i]))
      BY <1>1, <1>4, <2>1
    <3>2. evidence'[i] = IF Effective(rows[t][i]) THEN 1 ELSE 0
      BY <1>6, <1>7, <1>8, <2>1, <3>1
    <3>3. i \in DOMAIN table' /\ table'[i] = rows[t][i]
      BY <1>2, <2>1
    <3> QED BY <3>2, <3>3 DEF Owed, Effective
  <2>2. CASE i \notin DOMAIN rows[t]
    <3>1. ~(attached[t] /\ i = target[t])
      BY <1>1, <1>4, <2>2
    <3>2. evidence'[i] = Owed(i)
      BY <1>6, <1>7, <3>1
    <3>3. Owed(i)' = Owed(i)
      BY <1>2, <2>2 DEF Owed
    <3> QED BY <3>2, <3>3
  <2> QED BY <2>1, <2>2
<1> QED BY <1>3, <1>9 DEF EffectsMatchStatus, Owed

LEMMA EffectStep ==
  ASSUME ActionAssumption, OneReviewer, EffectInvariant, [Next]_vars
  PROVE  EffectInvariant'
<1>1. CASE UNCHANGED vars
  <2>1. KeyInvariant'
    BY KeyStep DEF EffectInvariant
  <2>2. Reviewing' = Reviewing
    BY <1>1 DEF vars, Reviewing
  <2> QED BY <1>1, <2>1, <2>2
    DEF vars, EffectInvariant, Attached, Alone, PendingStill, EffectsMatchStatus, NoneLeftExecuting
<1>2. CASE Next
  <2>1. KeyInvariant'
    BY KeyStep DEF EffectInvariant
  <2>2. \A t \in Requests : Attached(t)'
    BY <1>2, AttachedStep DEF EffectInvariant
  <2>3. Alone' /\ PendingStill'
    BY <1>2, AloneStep, PendingStep DEF EffectInvariant
  <2>4. EffectsMatchStatus'
    <3>1. CASE \E t \in Requests : Commit(t)
      BY <3>1, EffectsCommit
    <3>2. CASE ~\E t \in Requests : Commit(t)
      <4>1. UNCHANGED <<table, evidence>>
        BY <1>2, <3>2
        DEF Next, Execute, Review, Step, Rollback, Crash, Lookup, Insert, ReadStatus, Claim,
            Refuse, NoHandler, Handle, HandlerFails, HandlerAborts, Complete, Update, Quiet, vars
      <4> QED BY <4>1 DEF EffectInvariant, EffectsMatchStatus, NoneLeftExecuting
    <3> QED BY <3>1, <3>2
  <2> QED BY <2>1, <2>2, <2>3, <2>4 DEF EffectInvariant
<1> QED BY <1>1, <1>2

LEMMA EffectInit == ASSUME ActionAssumption, Init PROVE EffectInvariant
  <1>1. KeyInvariant
    BY KeyInit
  <1>2. Alone
    <2>1. Reviewing = {}
      BY DEF Init, Reviewing
    <2> QED BY <2>1, FS_EmptySet DEF Alone
  <1>3. PendingStill
    BY DEF Init, PendingStill
  <1>4. EffectsMatchStatus /\ \A t \in Requests : Attached(t)
    BY DEF Init, EffectsMatchStatus, NoneLeftExecuting, Attached
  <1> QED BY <1>1, <1>2, <1>3, <1>4 DEF EffectInvariant

LEMMA EffectAlways == OneReviewer => (Spec => []EffectInvariant)
<1> SUFFICES ASSUME OneReviewer
             PROVE  Spec => []EffectInvariant
  OBVIOUS
<1>1. Init => EffectInvariant
  BY EffectInit, ActionAssumption
<1>2. EffectInvariant /\ [Next]_vars => EffectInvariant'
  BY EffectStep, ActionAssumption
<1> QED BY <1>1, <1>2, PTL DEF Spec

(* With one reviewer at a time, an invocation has taken effect, once,      *)
(* exactly if it is completed: no retry, crash or failed handler leaves    *)
(* the effect without the status or the status without the effect.         *)
THEOREM EffectsTellTheTruth == OneReviewer => (Spec => []EffectsMatchStatus)
<1>1. EffectInvariant => EffectsMatchStatus
  BY DEF EffectInvariant
<1> QED BY <1>1, EffectAlways, PTL

(* ... and its outcome does not change.                                    *)
THEOREM OutcomesStay == OneReviewer => (Spec => OutcomesFinal)
<1>1. EffectInvariant /\ [Next]_vars
        => [\A i \in DOMAIN table : table[i].status # "pending" => table'[i] = table[i]]_table
  <2> SUFFICES ASSUME EffectInvariant, [Next]_vars, table' # table,
                      NEW i \in DOMAIN table, table[i].status # "pending"
               PROVE  table'[i] = table[i]
    OBVIOUS
  <2>1. PICK t \in Requests : Commit(t)
    BY DEF Next, Execute, Review, Step, Rollback, Crash, Lookup, Insert, ReadStatus, Claim,
           Refuse, NoHandler, Handle, HandlerFails, HandlerAborts, Complete, Update, Quiet, vars
  <2>2. i \notin DOMAIN rows[t]
    BY DEF EffectInvariant, PendingStill
  <2> QED BY <2>1, <2>2, ViewIs DEF Commit
<1> QED BY <1>1, EffectAlways, PTL DEF Spec, OutcomesFinal

=============================================================================
