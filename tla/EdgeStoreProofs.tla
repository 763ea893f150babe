---------------------------- MODULE EdgeStoreProofs ----------------------------
(***************************************************************************)
(* Proofs about the edge store, for every set of entities, predicates,     *)
(* transactions and facts: types and cardinality one first, then the       *)
(* history the store keeps.  What the audit log says is closed, every      *)
(* closure is explained, no fact is stored twice, what the pipeline        *)
(* replaced on its own it was allowed to, and readers see whole operations *)
(* of FactLedger.  The invariants are those of EdgeStoreInvariant.         *)
(***************************************************************************)
EXTENDS EdgeStoreInvariant, TLAPS, FiniteSetTheorems

-----------------------------------------------------------------------------
(* What a transaction sees *)

(* A view has the rows of both layers, the upper one first.                *)
LEMMA OverlayRows ==
  ASSUME NEW old, NEW new
  PROVE  /\ DOMAIN Overlay(old, new) = DOMAIN old \cup DOMAIN new
         /\ \A e \in DOMAIN new : Overlay(old, new)[e] = new[e]
         /\ \A e \in DOMAIN old \ DOMAIN new : Overlay(old, new)[e] = old[e]
  BY DEF Overlay

(* Every row a transaction sees is a row. *)
LEMMA ViewRows ==
  ASSUME TypeOK, NEW t \in Txns
  PROVE  /\ DOMAIN View(t) \subseteq EdgeIds
         /\ \A e \in DOMAIN View(t) : View(t)[e] \in Row
  BY DEF Overlay, View, TypeOK

(* Closing a row leaves a row. *)
LEMMA CloseRows ==
  ASSUME TypeOK, NEW row \in Row, NEW e \in EdgeIds
  PROVE  /\ Close(row) \in Row
         /\ [Close(row) EXCEPT !.invalidated_by = e] \in Row
  BY DEF TypeOK, Close, Row, Instant, Endpoint

LEMMA CloseAtRows ==
  ASSUME TypeOK, NEW row \in Row, NEW at \in Instant
  PROVE  CloseAt(row, at) \in Row
  BY DEF TypeOK, CloseAt, Row, Instant, Endpoint

(* Writing rows keeps the write sets well formed. *)
LEMMA WriteRows ==
  ASSUME TypeOK, NEW t \in Txns, NEW rows, DOMAIN rows \subseteq EdgeIds,
         \A e \in DOMAIN rows : rows[e] \in Row,
         Write(t, rows)
  PROVE  /\ DOMAIN writes' = Txns
         /\ \A u \in Txns : /\ DOMAIN writes'[u] \subseteq EdgeIds
                            /\ \A e \in DOMAIN writes'[u] : writes'[u][e] \in Row
         /\ \A u \in Txns : u # t => writes'[u] = writes[u]
         /\ DOMAIN writes'[t] = DOMAIN writes[t] \cup DOMAIN rows
  BY DEF Overlay, TypeOK, Write

-----------------------------------------------------------------------------
(* Types *)

(* The first rows of a run. *)
LEMMA TypeInit == Init => TypeInv
  BY RelationAssumption, StoreAssumption, InputAssumption
     DEF Init, TypeInv, TypeOK, ControlOK, Statements, Locked, Adding, View, Overlay

(* A transaction whose operation and rows are untouched keeps its control  *)
(* state well typed, whatever another one does.                            *)
LEMMA ControlKept ==
  ASSUME ControlOK, NEW t \in Txns,
         \A u \in Txns \ {t} :
            /\ pc'[u] = pc[u] /\ op'[u] = op[u] /\ edge'[u] = edge[u] /\ todo'[u] = todo[u]
            /\ DOMAIN View(u) \subseteq DOMAIN View(u)',
         /\ pc'[t] = "guard" => op'[t] \in Fact
         /\ pc'[t] \in Adding => op'[t] \in Fact /\ op'[t].valid_from \in Instant
         /\ pc'[t] \in {"retract", "duplicates"} => op'[t] \in Negation \cup Invalidation
         /\ pc'[t] \in {"supersede", "duplicates"} => edge'[t] \in DOMAIN View(t)'
         /\ todo'[t] \subseteq DOMAIN View(t)'
  PROVE  ControlOK'
  BY DEF ControlOK

(* A call starts an operation with typed arguments. *)
LEMMA TypeCall ==
  ASSUME TypeInv, NEW t \in Txns, Call(t)
  PROVE  TypeInv'
  <1>1. CASE AddFact(t)
    <2>1. TypeOK'
      BY <1>1, InputAssumption
         DEF AddFact, TypeInv, TypeOK, store, OrNow, Fact, Instant, Goto, Statements
    <2>2. ControlOK'
      BY <1>1, InputAssumption, ControlKept
         DEF AddFact, TypeInv, TypeOK, ControlOK, store, OrNow, Fact, Instant, Goto, Adding,
             Locked, View
    <2> QED BY <2>1, <2>2 DEF TypeInv
  <1>2. CASE Propose(t)
    <2>1. TypeOK'
      BY <1>2, InputAssumption DEF Propose, TypeInv, TypeOK, store, Goto, Statements
    <2>2. ControlOK'
      BY <1>2, InputAssumption
         DEF Propose, TypeInv, TypeOK, ControlOK, store, Goto, Adding, Locked, View
    <2> QED BY <2>1, <2>2 DEF TypeInv
  <1>3. CASE Invalidate(t)
    <2>. PICK e \in DOMAIN View(t), at \in InvalidationTimes :
           /\ op' = [op EXCEPT ![t] = [edge |-> e, invalidated_at |-> OrNow(at)]]
           /\ todo' = [todo EXCEPT ![t] = {e}]
           /\ Goto(t, "retract")
           /\ UNCHANGED <<store, locks, now, ops, edge, writes, queued, audited>>
      BY <1>3 DEF Invalidate
    <2>1. op'[t] \in Invalidation
      BY ViewRows, InputAssumption DEF TypeInv, TypeOK, Invalidation, OrNow, Instant
    <2>2. e \in EdgeIds
      BY ViewRows DEF TypeInv
    <2>3. TypeOK'
      BY <2>1, <2>2 DEF TypeInv, TypeOK, store, Goto, Statements
    <2>4. ControlOK'
      BY <2>1 DEF TypeInv, TypeOK, ControlOK, store, Goto, Adding, Locked, View
    <2> QED BY <2>3, <2>4 DEF TypeInv
  <1>4. CASE Negate(t)
    <2>. PICK n \in Negations :
           /\ IF MatchingLive(View(t), n) = {}
                THEN Finish(t)
                ELSE /\ op' = [op EXCEPT ![t] = n]
                     /\ todo' = [todo EXCEPT ![t] = MatchingLive(View(t), n)]
                     /\ Goto(t, "retract")
                     /\ UNCHANGED <<ops, edge>>
           /\ UNCHANGED <<store, locks, now, writes, queued, audited>>
      BY <1>4 DEF Negate
    <2>1. MatchingLive(View(t), n) \subseteq DOMAIN View(t) /\ DOMAIN View(t) \subseteq EdgeIds
      BY ViewRows DEF TypeInv, MatchingLive, LiveIds
    <2>2. TypeOK'
      BY <2>1, InputAssumption DEF TypeInv, TypeOK, store, Goto, Statements, Finish
    <2>3. ControlOK'
      BY <2>1, InputAssumption
         DEF TypeInv, TypeOK, ControlOK, store, Goto, Finish, Adding, Locked, View
    <2> QED BY <2>2, <2>3 DEF TypeInv
  <1> QED BY <1>1, <1>2, <1>3, <1>4 DEF Call

(* A statement that writes no edge row. *)
LEMMA TypeRead ==
  ASSUME TypeInv, NEW t \in Txns,
         Guard(t) \/ Lock(t) \/ Dedup(t) \/ Contradict(t) \/ JudgeRestCompatible(t)
  PROVE  TypeInv'
  <1>1. CASE Guard(t)
    <2>. PICK reason \in Verdicts(View(t), op[t]) :
           IF reason = "none"
             THEN /\ op' = [op EXCEPT ![t].valid_from = OrNow(@)]
                  /\ Goto(t, "lock")
                  /\ UNCHANGED <<ops, edge, todo, queued>>
             ELSE Enqueue(t, op[t], reason) /\ Finish(t)
      BY <1>1 DEF Guard
    <2>1. op[t] \in Fact /\ pc[t] = "guard"
      BY <1>1 DEF Guard, TypeInv, ControlOK
    <2>2. reason \in Reasons \cup {"none"}
      BY DEF Verdicts, ContradictionReason, ThresholdReason, Reasons
    <2>3. [op[t] EXCEPT !.valid_from = OrNow(@)] \in Fact
          /\ OrNow(op[t].valid_from) \in Instant
      BY <2>1 DEF OrNow, Fact, Instant, TypeInv, TypeOK
    <2>4. CASE reason = "none"
      <3>1. TypeOK'
        BY <1>1, <2>1, <2>3, <2>4 DEF Guard, TypeInv, TypeOK, store, Goto, Statements
      <3>2. ControlOK'
        BY <1>1, <2>1, <2>3, <2>4
           DEF Guard, TypeInv, TypeOK, ControlOK, store, Goto, Adding, Locked, View, Fact
      <3> QED BY <3>1, <3>2 DEF TypeInv
    <2>5. CASE reason # "none"
      <3>1. queued'[t] \subseteq PendingFact
        BY <2>1, <2>2, <2>5 DEF Enqueue, TypeInv, TypeOK, PendingFact
      <3>2. TypeOK'
        BY <1>1, <2>5, <3>1
           DEF Guard, Enqueue, Finish, TypeInv, TypeOK, store, Goto, Statements
      <3>3. ControlOK'
        BY <1>1, <2>5
           DEF Guard, Finish, TypeInv, TypeOK, ControlOK, store, Goto, Adding, Locked, View
      <3> QED BY <3>2, <3>3 DEF TypeInv
    <2> QED BY <2>4, <2>5
  <1>2. CASE Lock(t)
    <2>1. OpKey(t) \in Keys
      BY <1>2 DEF Lock, TypeInv, ControlOK, Adding, OpKey, Keys, Fact
    <2>2. TypeOK'
      BY <1>2, <2>1 DEF Lock, TypeInv, TypeOK, store, Goto, Statements
    <2>3. ControlOK'
      BY <1>2 DEF Lock, TypeInv, TypeOK, ControlOK, store, Goto, Adding, Locked, View
    <2> QED BY <2>2, <2>3 DEF TypeInv
  <1>3. CASE Dedup(t)
    <2>1. TypeOK'
      <3>1. CASE Duplicates(View(t), op[t]) # {}
        BY <1>3, <3>1 DEF Dedup, Finish, TypeInv, TypeOK, store, Goto, Statements
      <3>2. CASE Duplicates(View(t), op[t]) = {}
        BY <1>3, <3>2 DEF Dedup, TypeInv, TypeOK, store, Goto, Statements
      <3> QED BY <3>1, <3>2
    <2>2. ControlOK'
      BY <1>3 DEF Dedup, Finish, TypeInv, TypeOK, ControlOK, store, Goto, Adding, Locked, View
    <2> QED BY <2>1, <2>2 DEF TypeInv
  <1>4. CASE Contradict(t)
    <2>1. {e \in LiveIds(View(t)) : Key(View(t)[e]) = OpKey(t)} \subseteq DOMAIN View(t)
          /\ DOMAIN View(t) \subseteq EdgeIds
      BY ViewRows DEF TypeInv, LiveIds
    <2>2. TypeOK'
      BY <1>4, <2>1 DEF Contradict, TypeInv, TypeOK, store, Goto, Statements
    <2>3. ControlOK'
      BY <1>4, <2>1
         DEF Contradict, TypeInv, TypeOK, ControlOK, store, Goto, Adding, Locked, View
    <2> QED BY <2>2, <2>3 DEF TypeInv
  <1>5. CASE JudgeRestCompatible(t)
    <2>1. TypeOK'
      BY <1>5 DEF JudgeRestCompatible, TypeInv, TypeOK, store, Goto, Statements
    <2>2. ControlOK'
      BY <1>5
         DEF JudgeRestCompatible, TypeInv, TypeOK, ControlOK, store, Goto, Adding, Locked, View
    <2> QED BY <2>1, <2>2 DEF TypeInv
  <1> QED BY <1>1, <1>2, <1>3, <1>4, <1>5

(* Writing rows and moving on keeps the types, if the new rows, the next   *)
(* statement and the local variables are typed.                            *)
LEMMA TypeWrite ==
  ASSUME TypeInv, NEW t \in Txns, NEW rows, DOMAIN rows \subseteq EdgeIds,
         \A e \in DOMAIN rows : rows[e] \in Row,
         Write(t, rows), now' \in Nat, audited' \in [Txns -> SUBSET EdgeIds],
         pc' \in [Txns -> {"new", "idle", "failed", "ended"} \cup Statements],
         UNCHANGED <<store, locks, queued>>,
         op' = op, ops' = ops, edge' \in [Txns -> EdgeIds \cup {NoEdge}],
         todo' \in [Txns -> SUBSET EdgeIds],
         \A u \in Txns \ {t} : pc'[u] = pc[u] /\ edge'[u] = edge[u] /\ todo'[u] = todo[u],
         pc'[t] \in Adding => pc[t] \in Adding,
         pc'[t] # "guard",
         pc'[t] \in {"retract", "duplicates"} => pc[t] \in {"retract", "duplicates"},
         pc'[t] \in {"supersede", "duplicates"} => edge'[t] \in DOMAIN View(t) \cup DOMAIN rows,
         todo'[t] \subseteq todo[t]
  PROVE  TypeInv'
  <1>1. TypeOK'
    BY WriteRows DEF TypeInv, TypeOK, store
  <1>2. \A u \in Txns : DOMAIN View(u) \subseteq DOMAIN View(u)'
    BY WriteRows DEF TypeInv, TypeOK, View, Overlay, store
  <1>3. DOMAIN rows \subseteq DOMAIN View(t)'
    BY WriteRows DEF TypeInv, TypeOK, View, Overlay, store
  <1>4. ControlOK'
    BY <1>2, <1>3, ControlKept DEF TypeInv, ControlOK
  <1> QED BY <1>1, <1>4 DEF TypeInv

(* The same when the operation returns. *)
LEMMA TypeWriteFinish ==
  ASSUME TypeInv, NEW t \in Txns, NEW rows, DOMAIN rows \subseteq EdgeIds,
         \A e \in DOMAIN rows : rows[e] \in Row,
         Write(t, rows), now' \in Nat, audited' \in [Txns -> SUBSET EdgeIds],
         UNCHANGED <<store, locks, queued>>, Finish(t)
  PROVE  TypeInv'
  <1>1. TypeOK'
    BY WriteRows DEF TypeInv, TypeOK, store, Finish, Goto, Statements
  <1>2. \A u \in Txns : DOMAIN View(u) \subseteq DOMAIN View(u)'
    BY WriteRows DEF TypeInv, TypeOK, View, Overlay, store
  <1>3. ControlOK'
    BY <1>2, ControlKept DEF TypeInv, TypeOK, ControlOK, Finish, Goto, Adding, Locked
  <1> QED BY <1>1, <1>3 DEF TypeInv

(* A raise leaves everything but the next statement alone. *)
LEMMA TypeRaise ==
  ASSUME TypeInv, NEW t \in Txns, Raise(t), UNCHANGED <<store, locks, queued>>
  PROVE  TypeInv'
  <1>1. TypeOK'
    BY DEF TypeInv, TypeOK, Raise, store, Goto, Statements
  <1>2. ControlOK'
    BY DEF TypeInv, TypeOK, ControlOK, Raise, store, Goto, Adding, Locked, View
  <1> QED BY <1>1, <1>2 DEF TypeInv

(* The rows an INSERT may write are rows. *)
LEMMA InsertedRows ==
  ASSUME TypeOK, NEW f \in Fact, f.valid_from \in Instant
  PROVE  /\ NewRow(f) \in Row
         /\ \A r \in Mirror(NewRow(f)) : r \in Row
  <1>1. NewRow(f) \in Row
    BY DEF TypeOK, NewRow, Fact, Row, Instant, Endpoint
  <1>2. \A p \in Predicates : Swapped(NewRow(f), p) \in Row
    BY <1>1 DEF Swapped, Row
  <1>3. NewRow(f).predicate \in Predicates
    BY <1>1 DEF Row
  <1> QED BY <1>1, <1>2, <1>3, RelationAssumption DEF Mirror

(* A statement that writes edge rows. *)
LEMMA TypeJudge ==
  ASSUME TypeInv, NEW t \in Txns, JudgeContradicts(t)
  PROVE  TypeInv'
  <1>. PICK e \in todo[t] :
         LET row    == View(t)[e]
             closed == IF Live(row) THEN {e} ELSE {}
         IN /\ pc[t] = "judge"
            /\ IF Live(row) /\ RangeRefused(row, op[t].valid_from)
                 THEN Raise(t)
                 ELSE /\ Write(t, [i \in closed |-> CloseAt(row, op[t].valid_from)])
                      /\ Tick(closed)
                      /\ audited' = [audited EXCEPT ![t] = @ \cup {e}]
                      /\ todo' = [todo EXCEPT ![t] = @ \ {e}]
                      /\ Goto(t, IF todo[t] = {e} THEN "insert" ELSE "judge")
                      /\ UNCHANGED <<op, ops, edge>>
            /\ UNCHANGED <<store, locks, queued>>
    BY DEF JudgeContradicts
  <1>1. CASE Raise(t)
    BY <1>1, TypeRaise
  <1>2. CASE ~Raise(t)
    <2>1. e \in EdgeIds /\ View(t)[e] \in Row /\ op[t].valid_from \in Instant
      BY ViewRows DEF TypeInv, ControlOK, Adding, Locked
    <2>2. CloseAt(View(t)[e], op[t].valid_from) \in Row
      BY <2>1, CloseAtRows DEF TypeInv
    <2> DEFINE closed == IF Live(View(t)[e]) THEN {e} ELSE {}
               rows   == [i \in closed |-> CloseAt(View(t)[e], op[t].valid_from)]
    <2>3. DOMAIN rows \subseteq EdgeIds /\ \A i \in DOMAIN rows : rows[i] \in Row
      BY <2>1, <2>2
    <2>4. /\ Write(t, rows)
          /\ now' \in Nat
          /\ audited' = [audited EXCEPT ![t] = @ \cup {e}]
          /\ todo' = [todo EXCEPT ![t] = @ \ {e}]
          /\ pc' = [pc EXCEPT ![t] = IF todo[t] = {e} THEN "insert" ELSE "judge"]
          /\ UNCHANGED <<op, ops, edge, store, locks, queued>>
      BY <1>2 DEF Tick, Goto, TypeInv, TypeOK
    <2> HIDE DEF rows
    <2>5. audited' \in [Txns -> SUBSET EdgeIds] /\ todo' \in [Txns -> SUBSET EdgeIds]
      BY <2>1, <2>4 DEF TypeInv, TypeOK
    <2>6. pc' \in [Txns -> {"new", "idle", "failed", "ended"} \cup Statements]
      BY <2>4 DEF TypeInv, TypeOK, Statements
    <2> QED BY <2>3, <2>4, <2>5, <2>6, TypeWrite DEF TypeInv, TypeOK, Adding, Locked
  <1> QED BY <1>1, <1>2

LEMMA TypeInsert ==
  ASSUME TypeInv, NEW t \in Txns, Insert(t)
  PROVE  TypeInv'
  <1> DEFINE row == NewRow(op[t])
  <1>1. CASE Raise(t)
    BY <1>1, TypeRaise DEF Insert
  <1>2. CASE ~Raise(t)
    <2>1. row \in Row /\ \A r \in Mirror(row) : r \in Row
      BY InsertedRows DEF Insert, TypeInv, ControlOK, Adding, Locked
    <2>. PICK e \in EdgeIds \ UsedIds :
           /\ IF Mirror(row) = {}
                THEN Write(t, [i \in {e} |-> row])
                ELSE \E m \in (EdgeIds \ UsedIds) \ {e}, r \in Mirror(row) :
                       Write(t, [i \in {e, m} |-> IF i = e THEN row ELSE r])
           /\ now' = now + 1
           /\ UNCHANGED audited
           /\ IF Exclusive(row.predicate)
                THEN /\ edge' = [edge EXCEPT ![t] = e]
                     /\ Goto(t, "supersede")
                     /\ UNCHANGED <<op, ops, todo>>
                ELSE Finish(t)
      BY <1>2 DEF Insert
    <2>2. PICK rows : /\ Write(t, rows)
                      /\ e \in DOMAIN rows
                      /\ DOMAIN rows \subseteq EdgeIds
                      /\ \A i \in DOMAIN rows : rows[i] \in Row
      <3>1. CASE Mirror(row) = {}
        BY <2>1, <3>1
      <3>2. CASE Mirror(row) # {}
        <4>. PICK m \in (EdgeIds \ UsedIds) \ {e}, r \in Mirror(row) :
               Write(t, [i \in {e, m} |-> IF i = e THEN row ELSE r])
          BY <3>2
        <4> QED BY <2>1
      <3> QED BY <3>1, <3>2
    <2>3. now' \in Nat /\ audited' \in [Txns -> SUBSET EdgeIds] /\ UNCHANGED <<store, locks, queued>>
      BY DEF Insert, TypeInv, TypeOK
    <2>4. CASE Exclusive(row.predicate)
      <3>1. /\ pc' = [pc EXCEPT ![t] = "supersede"] /\ edge' = [edge EXCEPT ![t] = e]
            /\ UNCHANGED <<op, ops, todo>> /\ pc[t] = "insert"
        BY <2>4 DEF Goto, Insert
      <3>2. /\ pc' \in [Txns -> {"new", "idle", "failed", "ended"} \cup Statements]
            /\ edge' \in [Txns -> EdgeIds \cup {NoEdge}]
        BY <3>1 DEF TypeInv, TypeOK, Statements
      <3> QED BY <2>2, <2>3, <3>1, <3>2, TypeWrite DEF TypeInv, TypeOK, Adding, Locked
    <2>5. CASE ~Exclusive(row.predicate)
      BY <2>2, <2>3, <2>5, TypeWriteFinish
    <2> QED BY <2>4, <2>5
  <1> QED BY <1>1, <1>2

LEMMA TypeSupersede ==
  ASSUME TypeInv, NEW t \in Txns, Supersede(t)
  PROVE  TypeInv'
  <1> DEFINE ids  == Superseded(View(t), edge[t])
             rows == [e \in ids |-> [Close(View(t)[e]) EXCEPT !.invalidated_by = edge[t]]]
  <1>1. ids \subseteq EdgeIds /\ edge[t] \in EdgeIds /\ \A e \in ids : View(t)[e] \in Row
    BY ViewRows DEF Superseded, LiveIds, Supersede, TypeInv, ControlOK
  <1>2. DOMAIN rows \subseteq EdgeIds /\ \A e \in DOMAIN rows : rows[e] \in Row
    <2>1. \A e \in ids : [Close(View(t)[e]) EXCEPT !.invalidated_by = edge[t]] \in Row
      BY <1>1, CloseRows DEF TypeInv
    <2> QED BY <1>1, <2>1
  <1>3. /\ Write(t, rows) /\ now' \in Nat /\ audited' \in [Txns -> SUBSET EdgeIds]
        /\ UNCHANGED <<store, locks, queued>> /\ Finish(t)
    BY DEF Supersede, Tick, TypeInv, TypeOK
  <1> HIDE DEF rows
  <1> QED BY <1>2, <1>3, TypeWriteFinish

LEMMA TypeRetract ==
  ASSUME TypeInv, NEW t \in Txns, Retract(t)
  PROVE  TypeInv'
  <1>. PICK e \in todo[t] :
         LET row    == View(t)[e]
             at     == OrNow(op[t].invalidated_at)
             closed == IF Retractable(row) THEN {e} ELSE {}
         IN /\ pc[t] = "retract"
            /\ IF Retractable(row) /\ RangeRefused(row, at)
                 THEN Raise(t)
                 ELSE /\ Write(t, [i \in closed |-> CloseAt(row, at)])
                      /\ Tick(closed)
                      /\ edge' = [edge EXCEPT ![t] = e]
                      /\ todo' = [todo EXCEPT ![t] = @ \ {e}]
                      /\ Goto(t, "duplicates")
                      /\ UNCHANGED <<op, ops, audited>>
            /\ UNCHANGED <<store, locks, queued>>
    BY DEF Retract
  <1>1. CASE Raise(t)
    BY <1>1, TypeRaise
  <1>2. CASE ~Raise(t)
    <2> DEFINE at     == OrNow(op[t].invalidated_at)
               closed == IF Retractable(View(t)[e]) THEN {e} ELSE {}
               rows   == [i \in closed |-> CloseAt(View(t)[e], at)]
    <2>1. e \in EdgeIds /\ e \in DOMAIN View(t) /\ View(t)[e] \in Row
      BY ViewRows DEF TypeInv, ControlOK
    <2>2. at \in Instant
      <3>1. op[t].invalidated_at \in Instant \cup {Unset}
        BY DEF TypeInv, ControlOK, Negation, Invalidation
      <3> QED BY <3>1 DEF OrNow, TypeInv, TypeOK, Instant
    <2>3. CloseAt(View(t)[e], at) \in Row
      BY <2>1, <2>2, CloseAtRows DEF TypeInv
    <2>4. DOMAIN rows \subseteq EdgeIds /\ \A i \in DOMAIN rows : rows[i] \in Row
      BY <2>1, <2>3
    <2>5. /\ Write(t, rows)
          /\ now' \in Nat
          /\ edge' = [edge EXCEPT ![t] = e]
          /\ todo' = [todo EXCEPT ![t] = @ \ {e}]
          /\ pc' = [pc EXCEPT ![t] = "duplicates"]
          /\ UNCHANGED <<op, ops, audited, store, locks, queued>>
      BY <1>2 DEF Tick, Goto, TypeInv, TypeOK
    <2> HIDE DEF rows
    <2>6. /\ edge' \in [Txns -> EdgeIds \cup {NoEdge}] /\ todo' \in [Txns -> SUBSET EdgeIds]
          /\ pc' \in [Txns -> {"new", "idle", "failed", "ended"} \cup Statements]
      BY <2>1, <2>5 DEF TypeInv, TypeOK, Statements
    <2> QED BY <2>1, <2>4, <2>5, <2>6, TypeWrite DEF TypeInv, TypeOK, Adding, Locked
  <1> QED BY <1>1, <1>2

LEMMA TypeRetractDuplicates ==
  ASSUME TypeInv, NEW t \in Txns, RetractDuplicates(t)
  PROVE  TypeInv'
  <1> DEFINE dups == {e \in LiveIds(View(t)) \ {edge[t]} :
                        SameTriple(View(t)[e], View(t)[edge[t]])}
             rows == CloseAll(View(t), dups)
  <1>1. dups \subseteq EdgeIds /\ edge[t] \in EdgeIds /\ \A e \in dups : View(t)[e] \in Row
    BY ViewRows DEF LiveIds, RetractDuplicates, TypeInv, ControlOK
  <1>2. DOMAIN rows \subseteq EdgeIds /\ \A e \in DOMAIN rows : rows[e] \in Row
    <2>1. \A e \in dups : Close(View(t)[e]) \in Row
      BY <1>1 DEF TypeInv, TypeOK, Close, Row, Endpoint
    <2> QED BY <1>1, <2>1 DEF CloseAll
  <1>3. audited' \in [Txns -> SUBSET EdgeIds]
    BY <1>1 DEF RetractDuplicates, AuditedRows, TypeInv, TypeOK
  <1>4. /\ Write(t, rows) /\ now' \in Nat /\ UNCHANGED <<store, locks, queued>>
        /\ pc[t] = "duplicates"
    BY DEF RetractDuplicates, Tick, TypeInv, TypeOK
  <1>5. CASE todo[t] = {}
    <2>1. Finish(t)
      BY <1>5 DEF RetractDuplicates
    <2> HIDE DEF rows
    <2> QED BY <1>2, <1>3, <1>4, <2>1, TypeWriteFinish
  <1>6. CASE todo[t] # {}
    <2>1. pc' = [pc EXCEPT ![t] = "retract"] /\ UNCHANGED <<op, ops, edge, todo>>
      BY <1>6 DEF RetractDuplicates, Goto
    <2>2. pc' \in [Txns -> {"new", "idle", "failed", "ended"} \cup Statements]
      BY <2>1 DEF TypeInv, TypeOK, Statements
    <2> HIDE DEF rows
    <2> QED BY <1>2, <1>3, <1>4, <2>1, <2>2, TypeWrite DEF TypeInv, TypeOK, Adding, Locked
  <1> QED BY <1>5, <1>6

(* A transaction ends, and its rows are in the store or nowhere. *)
LEMMA TypeEnd ==
  ASSUME TypeInv, NEW t \in Txns, Commit(t) \/ Rollback(t) \/ Crash(t) \/ DeadlockVictim(t)
  PROVE  TypeInv'
  <1>1. End(t) /\ (UNCHANGED store \/ Commit(t))
    BY DEF Commit, Rollback, Crash, DeadlockVictim
  <1>2. /\ DOMAIN edges' \subseteq EdgeIds
        /\ \A e \in DOMAIN edges' : edges'[e] \in Row
        /\ queue' \subseteq PendingFact
        /\ audit' \subseteq EdgeIds
    BY <1>1, ViewRows DEF Commit, store, TypeInv, TypeOK
  <1>3. locks' \in [Keys -> Txns \cup {NoTxn}]
    BY <1>1 DEF End, Released, TypeInv, TypeOK
  <1>4. TypeOK'
    BY <1>1, <1>2, <1>3 DEF End, TypeInv, TypeOK, Goto, Statements
  <1>5. \A u \in Txns : u # t => DOMAIN View(u) \subseteq DOMAIN View(u)'
    BY <1>1 DEF End, Commit, store, View, Overlay, TypeInv, TypeOK
  <1>6. ControlOK'
    BY <1>1, <1>5 DEF End, TypeInv, TypeOK, ControlOK, Goto, Adding, Locked
  <1> QED BY <1>4, <1>6 DEF TypeInv

LEMMA TypeStep ==
  ASSUME TypeInv, [Next]_vars
  PROVE  TypeInv'
  <1>1. CASE UNCHANGED vars
    BY <1>1 DEF vars, TypeInv, TypeOK, ControlOK, View
  <1>2. ASSUME NEW t \in Txns, Statement(t)
        PROVE  TypeInv'
    BY <1>2, TypeRead, TypeJudge, TypeInsert, TypeSupersede, TypeRetract, TypeRetractDuplicates
       DEF Statement
  <1> QED BY <1>1, <1>2, TypeCall, TypeEnd DEF Next, Quiet

(* Every variable keeps its type, and every statement finds the local      *)
(* state its operation left it: no statement of edge.py reads a fact, a    *)
(* selected row or an inserted row that is not there.                      *)
THEOREM TypeCorrect == Spec => []TypeInv
  BY TypeInit, TypeStep, PTL DEF Spec

-----------------------------------------------------------------------------
(* Append-only history *)

(* The UPDATEs of edge.py close live rows and nothing else. *)
LEMMA ClosedRows ==
  ASSUME TypeOK, NEW row \in Row, Live(row), NEW e \in EdgeIds
  PROVE  /\ Closes(row, Close(row))
         /\ Closes(row, [Close(row) EXCEPT !.invalidated_by = e])
  BY InfinityAssumption DEF TypeOK, Closes, Close, Live, Row, Instant, Endpoint

LEMMA ClosedAtRows ==
  ASSUME TypeOK, NEW row \in Row, Live(row), NEW at \in Instant
  PROVE  Closes(row, CloseAt(row, at))
  BY InfinityAssumption DEF TypeOK, Closes, CloseAt, Live, Row, Instant, Endpoint

(* The rows an UPDATE of t closes: live in its view, and not written by    *)
(* another transaction.                                                    *)
Closing(t, rows) ==
  /\ DOMAIN rows \subseteq LiveIds(View(t))
  /\ Unlocked(t, DOMAIN rows)
  /\ \A e \in DOMAIN rows : Closes(View(t)[e], rows[e])

(* Every statement that writes either closes rows or inserts new ones.     *)
Inserting(t, rows) == DOMAIN rows \cap UsedIds = {}

LEMMA JudgeCloses ==
  ASSUME TypeInv, NEW t \in Txns, JudgeContradicts(t), ~Raise(t)
  PROVE  \E rows : Closing(t, rows) /\ Write(t, rows)
  <1>. PICK e \in todo[t] :
         LET row    == View(t)[e]
             closed == IF Live(row) THEN {e} ELSE {}
         IN /\ Unlocked(t, {e})
            /\ Write(t, [i \in closed |-> CloseAt(row, op[t].valid_from)])
    BY DEF JudgeContradicts
  <1> DEFINE closed == IF Live(View(t)[e]) THEN {e} ELSE {}
             rows   == [i \in closed |-> CloseAt(View(t)[e], op[t].valid_from)]
  <1>1. e \in DOMAIN View(t) /\ View(t)[e] \in Row
    BY ViewRows DEF TypeInv, ControlOK
  <1>2. op[t].valid_from \in Instant
    BY DEF JudgeContradicts, TypeInv, ControlOK, Adding, Locked
  <1>3. Closing(t, rows)
    BY <1>1, <1>2, ClosedAtRows DEF Closing, Unlocked, LiveIds, TypeInv
  <1> QED BY <1>3

LEMMA RetractCloses ==
  ASSUME TypeInv, NEW t \in Txns, Retract(t), ~Raise(t)
  PROVE  \E rows : Closing(t, rows) /\ Write(t, rows)
  <1>. PICK e \in todo[t] :
         LET row    == View(t)[e]
             at     == OrNow(op[t].invalidated_at)
             closed == IF Retractable(row) THEN {e} ELSE {}
         IN /\ pc[t] = "retract"
            /\ Unlocked(t, {e})
            /\ Write(t, [i \in closed |-> CloseAt(row, at)])
    BY DEF Retract
  <1> DEFINE at     == OrNow(op[t].invalidated_at)
             closed == IF Retractable(View(t)[e]) THEN {e} ELSE {}
             rows   == [i \in closed |-> CloseAt(View(t)[e], at)]
  <1>1. e \in DOMAIN View(t) /\ View(t)[e] \in Row
    BY ViewRows DEF TypeInv, ControlOK
  <1>2. at \in Instant
    <2>1. op[t].invalidated_at \in Instant \cup {Unset}
      BY DEF TypeInv, ControlOK, Negation, Invalidation
    <2> QED BY <2>1 DEF OrNow, TypeInv, TypeOK, Instant
  <1>3. Closing(t, rows)
    BY <1>1, <1>2, ClosedAtRows DEF Closing, Unlocked, LiveIds, Retractable, TypeInv
  <1> QED BY <1>3

LEMMA RetractDuplicatesCloses ==
  ASSUME TypeInv, NEW t \in Txns, RetractDuplicates(t)
  PROVE  \E rows : Closing(t, rows) /\ Write(t, rows)
  <1> DEFINE dups == {e \in LiveIds(View(t)) \ {edge[t]} :
                        SameTriple(View(t)[e], View(t)[edge[t]])}
             rows == CloseAll(View(t), dups)
  <1>1. Unlocked(t, dups) /\ Write(t, rows) /\ edge[t] \in EdgeIds
    BY ViewRows DEF RetractDuplicates, TypeInv, ControlOK
  <1>2. \A e \in dups : View(t)[e] \in Row /\ Live(View(t)[e])
    BY ViewRows DEF LiveIds, TypeInv
  <1>3. \A e \in dups : Closes(View(t)[e], Close(View(t)[e]))
    BY <1>1, <1>2, ClosedRows DEF TypeInv
  <1>4. Closing(t, rows)
    BY <1>1, <1>3 DEF Closing, CloseAll
  <1> QED BY <1>1, <1>4

LEMMA SupersedeCloses ==
  ASSUME TypeInv, NEW t \in Txns, Supersede(t)
  PROVE  \E rows : /\ Closing(t, rows) /\ Write(t, rows)
                   /\ DOMAIN rows = Superseded(View(t), edge[t])
  <1> DEFINE ids  == Superseded(View(t), edge[t])
             rows == [e \in ids |-> [Close(View(t)[e]) EXCEPT !.invalidated_by = edge[t]]]
  <1>1. Unlocked(t, ids) /\ Write(t, rows) /\ edge[t] \in EdgeIds /\ ids \subseteq LiveIds(View(t))
    BY ViewRows DEF Supersede, Superseded, TypeInv, ControlOK
  <1>2. \A e \in ids : View(t)[e] \in Row /\ Live(View(t)[e])
    BY <1>1, ViewRows DEF LiveIds, TypeInv
  <1>3. \A e \in ids : Closes(View(t)[e], [Close(View(t)[e]) EXCEPT !.invalidated_by = edge[t]])
    BY <1>1, <1>2, ClosedRows DEF TypeInv
  <1>4. Closing(t, rows)
    BY <1>1, <1>3 DEF Closing
  <1> QED BY <1>1, <1>4

(* The INSERT of add_fact: the entering row first, its mirror second.      *)
LEMMA InsertInserts ==
  ASSUME TypeInv, NEW t \in Txns, Insert(t), ~Raise(t)
  PROVE  \E rows, e :
           /\ Inserting(t, rows) /\ Write(t, rows)
           /\ rows[e] = NewRow(op[t])
           /\ \A i \in DOMAIN rows \ {e} : rows[i] \in Mirror(NewRow(op[t]))
           /\ IF Exclusive(NewRow(op[t]).predicate)
                THEN /\ pc' = [pc EXCEPT ![t] = "supersede"] /\ edge' = [edge EXCEPT ![t] = e]
                     /\ UNCHANGED op
                ELSE Finish(t)
  <1> DEFINE row == NewRow(op[t])
  <1>. PICK e \in EdgeIds \ UsedIds :
         /\ IF Mirror(row) = {}
              THEN Write(t, [i \in {e} |-> row])
              ELSE \E m \in (EdgeIds \ UsedIds) \ {e}, r \in Mirror(row) :
                     Write(t, [i \in {e, m} |-> IF i = e THEN row ELSE r])
         /\ IF Exclusive(row.predicate)
              THEN /\ edge' = [edge EXCEPT ![t] = e]
                   /\ pc' = [pc EXCEPT ![t] = "supersede"]
                   /\ UNCHANGED <<op, ops, todo>>
              ELSE Finish(t)
    BY DEF Insert, Goto
  <1>1. CASE Mirror(row) = {}
    <2> DEFINE rows == [i \in {e} |-> row]
    <2>1. Inserting(t, rows) /\ Write(t, rows) /\ rows[e] = row /\ DOMAIN rows = {e}
      BY <1>1 DEF Inserting
    <2> HIDE DEF rows
    <2> QED BY <2>1
  <1>2. CASE Mirror(row) # {}
    <2>. PICK m \in (EdgeIds \ UsedIds) \ {e}, r \in Mirror(row) :
           Write(t, [i \in {e, m} |-> IF i = e THEN row ELSE r])
      BY <1>2
    <2> DEFINE rows == [i \in {e, m} |-> IF i = e THEN row ELSE r]
    <2>1. /\ Inserting(t, rows) /\ Write(t, rows) /\ rows[e] = row /\ DOMAIN rows = {e, m}
          /\ rows[m] = r
      BY DEF Inserting
    <2> HIDE DEF rows
    <2> QED BY <2>1
  <1> QED BY <1>1, <1>2

(* Both kinds of write keep the writes of transactions apart, and updates  *)
(* of committed rows closures.                                             *)
LEMMA AppendWrite ==
  ASSUME TypeInv, AppendInvariant, NEW t \in Txns, NEW rows,
         Closing(t, rows) \/ Inserting(t, rows), Write(t, rows), UNCHANGED store
  PROVE  AppendInvariant'
  <1>1. /\ \A u \in Txns : u # t => writes'[u] = writes[u]
        /\ DOMAIN writes'[t] = DOMAIN writes[t] \cup DOMAIN rows
        /\ \A e \in DOMAIN rows : writes'[t][e] = rows[e]
        /\ \A e \in DOMAIN writes[t] \ DOMAIN rows : writes'[t][e] = writes[t][e]
    BY DEF TypeInv, TypeOK, Write, Overlay
  <1>2. CASE Closing(t, rows)
    <2>1. /\ \A e \in DOMAIN writes[t] : View(t)[e] = writes[t][e]
          /\ \A e \in DOMAIN edges \ DOMAIN writes[t] : View(t)[e] = edges[e]
      BY DEF View, Overlay
    <2>2. \A e \in DOMAIN rows : e \in DOMAIN edges => e \notin DOMAIN writes[t]
      BY <1>2, <2>1 DEF Closing, AppendInvariant, UpdatesClose, Closes
    <2>3. UpdatesClose'
      BY <1>1, <1>2, <2>1, <2>2 DEF Closing, AppendInvariant, UpdatesClose, store
    <2>4. WritesApart'
      BY <1>1, <1>2 DEF Closing, AppendInvariant, WritesApart, Unlocked
    <2> QED BY <2>3, <2>4 DEF AppendInvariant
  <1>3. CASE Inserting(t, rows)
    <2>1. /\ DOMAIN rows \cap DOMAIN edges = {}
          /\ \A u \in Txns : DOMAIN rows \cap DOMAIN writes[u] = {}
      BY <1>3 DEF Inserting, UsedIds
    <2>2. UpdatesClose'
      BY <1>1, <2>1 DEF AppendInvariant, UpdatesClose, store
    <2>3. WritesApart'
      BY <1>1, <2>1 DEF AppendInvariant, WritesApart
    <2> QED BY <2>2, <2>3 DEF AppendInvariant
  <1> QED BY <1>2, <1>3

LEMMA AppendEnd ==
  ASSUME TypeInv, AppendInvariant, NEW t \in Txns,
         Commit(t) \/ Rollback(t) \/ Crash(t) \/ DeadlockVictim(t)
  PROVE  AppendInvariant'
  <1>1. /\ writes'[t] = << >>
        /\ \A u \in Txns : u # t => writes'[u] = writes[u]
        /\ edges' = edges \/ edges' = View(t)
    BY DEF Commit, Rollback, Crash, DeadlockVictim, End, store, TypeInv, TypeOK
  <1>2. WritesApart'
    BY <1>1 DEF AppendInvariant, WritesApart
  <1>3. UpdatesClose'
    BY <1>1 DEF AppendInvariant, UpdatesClose, WritesApart, View, Overlay
  <1> QED BY <1>2, <1>3 DEF AppendInvariant

(* Every other step leaves rows and write sets alone. *)
LEMMA QuietSteps ==
  ASSUME NEW t \in Txns,
         \/ Call(t) \/ Guard(t) \/ Lock(t) \/ Dedup(t) \/ Contradict(t) \/ JudgeRestCompatible(t)
         \/ Raise(t) /\ (JudgeContradicts(t) \/ Insert(t) \/ Retract(t))
  PROVE  UNCHANGED <<store, writes>>
  BY DEF Call, AddFact, Propose, Invalidate, Negate, Guard, Lock, Dedup, Contradict,
         JudgeRestCompatible, Raise, JudgeContradicts, Insert, Retract

LEMMA AppendStep ==
  ASSUME TypeInv, AppendInvariant, [Next]_vars
  PROVE  AppendInvariant'
  <1>1. ASSUME UNCHANGED <<store, writes>>
        PROVE  AppendInvariant'
    BY <1>1 DEF AppendInvariant, WritesApart, UpdatesClose, store
  <1>2. ASSUME NEW t \in Txns, Statement(t)
        PROVE  AppendInvariant'
    <2>1. CASE Raise(t) \/ Guard(t) \/ Lock(t) \/ Dedup(t) \/ Contradict(t) \/ JudgeRestCompatible(t)
      BY <1>1, <1>2, <2>1, QuietSteps
         DEF Statement, Raise, Supersede, RetractDuplicates, Finish, Goto, TypeInv, TypeOK
    <2>2. CASE ~Raise(t) /\ (JudgeContradicts(t) \/ Retract(t) \/ RetractDuplicates(t) \/ Supersede(t))
      <3>1. UNCHANGED store
        BY <2>2 DEF JudgeContradicts, Retract, RetractDuplicates, Supersede
      <3> QED BY <2>2, <3>1, AppendWrite, JudgeCloses, RetractCloses, RetractDuplicatesCloses,
                 SupersedeCloses
    <2>3. CASE ~Raise(t) /\ Insert(t)
      <3>1. UNCHANGED store
        BY <2>3 DEF Insert
      <3> QED BY <2>3, <3>1, AppendWrite, InsertInserts
    <2> QED BY <1>2, <2>1, <2>2, <2>3 DEF Statement
  <1>3. CASE UNCHANGED vars
    BY <1>1, <1>3 DEF vars, store
  <1> QED BY <1>1, <1>2, <1>3, AppendEnd, QuietSteps DEF Next, Quiet

(* A step that keeps the invariant changes committed rows only by closing. *)
LEMMA AppendAction ==
  ASSUME TypeInv, AppendInvariant, [Next]_vars
  PROVE  \A e \in DOMAIN edges :
           /\ e \in DOMAIN edges'
           /\ edges'[e] # edges[e] => Closes(edges[e], edges'[e])
  <1>1. edges' = edges \/ \E t \in Txns : edges' = View(t)
    BY QuietSteps
       DEF Next, Quiet, vars, Statement, store, JudgeContradicts, Insert, Supersede, Retract,
           RetractDuplicates, Commit, Rollback, Crash, DeadlockVictim
  <1> QED BY <1>1 DEF View, Overlay, AppendInvariant, UpdatesClose

(* Append-only history, for every instance of the store: a committed row   *)
(* is never lost, and a step changes it only by closing it once, whatever  *)
(* the transactions that read it while it was live still do.               *)
THEOREM HistoryIsAppendOnly == Spec => HistoryAppendOnly
  <1>1. Init => AppendInvariant
    BY DEF Init, AppendInvariant, WritesApart, UpdatesClose
  <1>2. TypeInv /\ AppendInvariant /\ [Next]_vars =>
          [\A e \in DOMAIN edges :
             /\ e \in DOMAIN edges'
             /\ edges'[e] # edges[e] =>
                  /\ Live(edges[e]) /\ ~Live(edges'[e])
                  /\ edges'[e] = [edges[e] EXCEPT !.sys_to = edges'[e].sys_to,
                                                  !.valid_to = edges'[e].valid_to,
                                                  !.invalidated_by = edges'[e].invalidated_by]]_vars
    BY AppendAction DEF Closes
  <1> QED BY <1>1, <1>2, AppendStep, TypeCorrect, PTL DEF Spec, HistoryAppendOnly

-----------------------------------------------------------------------------
(* Cardinality one *)

(* A closed row is about the same fact as before. *)
LEMMA ClosesKeepsKey ==
  ASSUME NEW a \in Row, NEW b, Closes(a, b)
  PROVE  Key(b) = Key(a) /\ b.predicate = a.predicate
  BY DEF Closes, Key, Row

(* What a write changes in the views. *)
LEMMA WriteViews ==
  ASSUME TypeOK, NEW t \in Txns, NEW rows, Write(t, rows), UNCHANGED edges
  PROVE  /\ \A u \in Txns : u # t => View(u)' = View(u)
         /\ DOMAIN View(t)' = DOMAIN View(t) \cup DOMAIN rows
         /\ \A e \in DOMAIN rows : View(t)'[e] = rows[e]
         /\ \A e \in DOMAIN View(t) \ DOMAIN rows : View(t)'[e] = View(t)[e]
  BY DEF TypeOK, Write, View, Overlay

(* Closing rows keeps inserts locked, and no view gains a live row.        *)
LEMMA CloseStep ==
  ASSUME TypeInv, CardinalityInvariant, NEW t \in Txns, NEW rows,
         Closing(t, rows), Write(t, rows), UNCHANGED <<store, locks>>
  PROVE  /\ InsertsLocked' /\ OneValuePerTime'
         /\ \A u \in Txns :
              /\ LiveIds(View(u)') \subseteq LiveIds(View(u))
              /\ \A e \in LiveIds(View(u)') : View(u)'[e] = View(u)[e]
         /\ LiveIds(View(t)') \cap DOMAIN rows = {}
  <1>. edges' = edges /\ locks' = locks
    BY DEF store
  <1>1. InsertsLocked'
    <2>1. /\ \A u \in Txns : u # t => writes'[u] = writes[u]
          /\ DOMAIN writes'[t] = DOMAIN writes[t] \cup DOMAIN rows
          /\ \A e \in DOMAIN rows : writes'[t][e] = rows[e]
          /\ \A e \in DOMAIN writes[t] \ DOMAIN rows : writes'[t][e] = writes[t][e]
      BY DEF TypeInv, TypeOK, Write, Overlay
    <2>2. /\ \A e \in DOMAIN writes[t] : View(t)[e] = writes[t][e]
          /\ DOMAIN View(t) = DOMAIN edges \cup DOMAIN writes[t]
      BY DEF View, Overlay
    <2>3. \A e \in DOMAIN rows : /\ e \in DOMAIN View(t)
                                 /\ Key(rows[e]) = Key(View(t)[e])
                                 /\ rows[e].predicate = View(t)[e].predicate
      BY ClosesKeepsKey, ViewRows DEF Closing, LiveIds, TypeInv
    <2> QED BY <2>1, <2>2, <2>3 DEF CardinalityInvariant, InsertsLocked, Fresh
  <1>2. OneValuePerTime'
    BY DEF CardinalityInvariant, OneValuePerTime
  <1>3. \A e \in DOMAIN rows : ~Live(rows[e]) /\ e \in DOMAIN View(t)
    BY DEF Closing, Closes, LiveIds
  <1> QED BY <1>1, <1>2, <1>3, WriteViews DEF LiveIds, TypeInv

(* Views in which no row becomes live stay compatible.                     *)
LEMMA ViewsShrink ==
  ASSUME ViewsCompatible,
         \A u \in Txns :
            /\ LiveIds(View(u)') \subseteq LiveIds(View(u))
            /\ \A e \in LiveIds(View(u)') : View(u)'[e] = View(u)[e]
            /\ Entering(u) \subseteq Entering(u)'
  PROVE  ViewsCompatible'
  BY DEF ViewsCompatible, Compatible

(* The mirror of a row is not of an exclusive predicate, if no exclusive   *)
(* predicate is another one's inverse.                                     *)
MirrorsPlain == \A p \in Predicates : InverseOf[p] # NoPredicate => ~Exclusive(InverseOf[p])

LEMMA MirrorRowsPlain ==
  ASSUME MirrorsPlain, NEW row \in Row, NEW r \in Mirror(row)
  PROVE  ~Exclusive(r.predicate)
  <1>1. \A p \in Predicates : Swapped(row, p).predicate = p
    BY DEF Swapped, Row
  <1>2. row.predicate \in Predicates
    BY DEF Row
  <1> QED BY <1>1, <1>2, RelationAssumption DEF Mirror, MirrorsPlain, Exclusive

(* An INSERT adds one row of the locked key at most, and that one enters.  *)
LEMMA InsertStep ==
  ASSUME TypeInv, CardinalityInvariant, NEW t \in Txns, NEW rows,
         Inserting(t, rows), Write(t, rows),
         \A i \in DOMAIN rows :
            Exclusive(rows[i].predicate) => Key(rows[i]) = OpKey(t) /\ i \in Entering(t)',
         locks[OpKey(t)] = t, Entering(t) = {},
         \A u \in Txns \ {t} : Entering(u)' = Entering(u),
         UNCHANGED <<store, locks>>
  PROVE  InsertsLocked' /\ ViewsCompatible' /\ OneValuePerTime'
  <1>. edges' = edges /\ locks' = locks
    BY DEF store
  <1>1. InsertsLocked'
    <2>1. /\ \A u \in Txns : u # t => writes'[u] = writes[u]
          /\ DOMAIN writes'[t] = DOMAIN writes[t] \cup DOMAIN rows
          /\ \A i \in DOMAIN rows : writes'[t][i] = rows[i]
          /\ \A i \in DOMAIN writes[t] \ DOMAIN rows : writes'[t][i] = writes[t][i]
      BY DEF TypeInv, TypeOK, Write, Overlay
    <2> QED BY <2>1 DEF CardinalityInvariant, InsertsLocked, Fresh
  <1>2. OneValuePerTime'
    BY DEF CardinalityInvariant, OneValuePerTime
  <1>3. ASSUME NEW u \in Txns, u # t,
               NEW a \in LiveIds(View(u)') \ Entering(u)', NEW b \in LiveIds(View(u)') \ Entering(u)'
        PROVE  Compatible(View(u)', a, b)
    <2>1. View(u)' = View(u) /\ Entering(u)' = Entering(u)
      BY <1>3, WriteViews DEF TypeInv
    <2> QED BY <1>3, <2>1 DEF CardinalityInvariant, ViewsCompatible
  <1>4. ASSUME NEW a \in LiveIds(View(t)') \ Entering(t)', NEW b \in LiveIds(View(t)') \ Entering(t)'
        PROVE  Compatible(View(t)', a, b)
    <2>1. /\ DOMAIN View(t)' = DOMAIN View(t) \cup DOMAIN rows
          /\ \A i \in DOMAIN rows : View(t)'[i] = rows[i]
          /\ \A i \in DOMAIN View(t) \ DOMAIN rows : View(t)'[i] = View(t)[i]
      BY WriteViews DEF TypeInv
    <2>2. CASE a \in DOMAIN rows \/ b \in DOMAIN rows
      BY <1>4, <2>1, <2>2 DEF Compatible, Key
    <2>3. CASE a \notin DOMAIN rows /\ b \notin DOMAIN rows
      <3>1. a \in LiveIds(View(t)) /\ b \in LiveIds(View(t))
        BY <1>4, <2>1, <2>3 DEF LiveIds
      <3>2. Compatible(View(t), a, b)
        BY <3>1 DEF CardinalityInvariant, ViewsCompatible
      <3> QED BY <1>4, <2>1, <2>3, <3>1, <3>2 DEF Compatible, LiveIds
    <2> QED BY <2>2, <2>3
  <1>5. ViewsCompatible'
    BY <1>3, <1>4 DEF ViewsCompatible
  <1> QED BY <1>1, <1>2, <1>5

(* A commit publishes a view that keeps cardinality one, and no other view *)
(* gains a second value: the rows it gains are under another lock.         *)
LEMMA CommitStep ==
  ASSUME TypeInv, CardinalityInvariant, NEW t \in Txns, Commit(t)
  PROVE  InsertsLocked' /\ ViewsCompatible' /\ OneValuePerTime'
  <1>1. /\ edges' = View(t) /\ Entering(t) = {} /\ Entering(t)' = {}
        /\ writes'[t] = << >>
        /\ \A u \in Txns : u # t => writes'[u] = writes[u] /\ Entering(u)' = Entering(u)
        /\ locks' = Released(t)
    BY DEF Commit, End, Entering, Goto, TypeInv, TypeOK
  <1>2. OneValuePerTime'
    BY <1>1 DEF CardinalityInvariant, ViewsCompatible, Compatible, OneValuePerTime
  <1>3. /\ DOMAIN edges' = DOMAIN edges \cup DOMAIN writes[t]
        /\ \A e \in DOMAIN writes[t] : edges'[e] = writes[t][e]
        /\ \A e \in DOMAIN edges \ DOMAIN writes[t] : edges'[e] = edges[e]
    BY <1>1 DEF View, Overlay
  <1>4. InsertsLocked'
    <2> SUFFICES ASSUME NEW u \in Txns, NEW e \in Fresh(u)', Exclusive(writes'[u][e].predicate)
                 PROVE  locks'[Key(writes'[u][e])] = u
      BY DEF InsertsLocked
    <2>1. u # t /\ e \in Fresh(u) /\ writes'[u] = writes[u]
      BY <1>1, <1>3 DEF Fresh
    <2>2. locks[Key(writes[u][e])] = u /\ writes[u][e] \in Row
      BY <2>1 DEF CardinalityInvariant, InsertsLocked, Fresh, TypeInv, TypeOK
    <2>3. Key(writes[u][e]) \in Keys
      BY <2>2 DEF Key, Keys, Row
    <2> QED BY <1>1, <2>1, <2>2, <2>3 DEF Released
  <1>5. ASSUME NEW u \in Txns, u # t,
               NEW a \in LiveIds(View(u)') \ Entering(u), NEW b \in LiveIds(View(u)') \ Entering(u)
        PROVE  Compatible(View(u)', a, b)
    <2>1. /\ DOMAIN View(u)' = DOMAIN edges' \cup DOMAIN writes[u]
          /\ \A e \in DOMAIN writes[u] : View(u)'[e] = writes[u][e] /\ View(u)[e] = writes[u][e]
          /\ \A e \in DOMAIN edges' \ DOMAIN writes[u] : View(u)'[e] = edges'[e]
          /\ \A e \in DOMAIN edges \ DOMAIN writes[u] : View(u)[e] = edges[e]
          /\ DOMAIN View(u) = DOMAIN edges \cup DOMAIN writes[u]
      BY <1>1, <1>5 DEF View, Overlay
    <2> DEFINE New == DOMAIN writes[t] \ DOMAIN edges
    \* a row t inserted and a row u inserted have different keys
    <2>2. ASSUME NEW x \in Fresh(u), NEW y \in Fresh(t),
                 Exclusive(writes[u][x].predicate)
          PROVE  Key(writes[u][x]) # Key(writes[t][y])
      <3>1. writes[u][x] \in Row /\ writes[t][y] \in Row
        BY DEF Fresh, TypeInv, TypeOK
      <3>2. Key(writes[u][x]) = Key(writes[t][y]) => writes[t][y].predicate = writes[u][x].predicate
        BY DEF Key
      <3> QED BY <1>5, <2>2, <3>2 DEF CardinalityInvariant, InsertsLocked
    \* a live row of u's new view is one u inserted, or a live row of edges'
    <2>3. \A x \in LiveIds(View(u)') :
            \/ x \in Fresh(u)
            \/ x \notin DOMAIN writes[u] /\ x \in LiveIds(View(t)) /\ View(u)'[x] = View(t)[x]
      BY <1>1, <2>1 DEF LiveIds, CardinalityInvariant, AppendInvariant, UpdatesClose, Closes, Fresh
    \* and one of edges' is one t inserted, or was in u's view already
    <2>4. \A x \in LiveIds(View(t)) \ DOMAIN writes[u] :
            \/ x \in Fresh(t) /\ View(t)[x] = writes[t][x]
            \/ x \in LiveIds(View(u)) /\ View(u)[x] = View(t)[x]
      BY <1>1, <1>3, <2>1 DEF LiveIds, CardinalityInvariant, AppendInvariant, UpdatesClose, Closes, Fresh
    <2>5. \A x \in Fresh(u) \cap LiveIds(View(u)') :
             x \in LiveIds(View(u)) /\ View(u)'[x] = View(u)[x] /\ View(u)[x] = writes[u][x]
      BY <2>1 DEF Fresh, LiveIds
    <2>6. CASE a \in Fresh(u) /\ b \in Fresh(u)
      BY <1>5, <2>5, <2>6 DEF CardinalityInvariant, ViewsCompatible, Compatible
    <2>7. CASE a \notin Fresh(u) /\ b \notin Fresh(u)
      <3>1. Compatible(View(t), a, b)
        BY <1>1, <2>3, <2>7 DEF CardinalityInvariant, ViewsCompatible
      <3> QED BY <2>3, <2>7, <3>1 DEF Compatible
    <2>8. ASSUME NEW x \in Fresh(u), NEW y, y \notin Fresh(u), {x, y} = {a, b}
          PROVE  Compatible(View(u)', a, b)
      <3>1. x \in LiveIds(View(u)') /\ y \in LiveIds(View(u)') /\ x \notin Entering(u) /\ y \notin Entering(u)
        BY <1>5, <2>8
      <3>2. CASE y \in Fresh(t)
        <4>1. View(u)'[y] = writes[t][y] /\ View(u)'[x] = writes[u][x]
          BY <2>3, <2>5, <2>8, <3>1, <3>2 DEF View, Overlay, Fresh
        <4>2. Exclusive(View(u)'[x].predicate) => Key(View(u)'[x]) # Key(View(u)'[y])
          BY <2>2, <2>8, <3>2, <4>1
        <4> QED BY <2>8, <4>2 DEF Compatible, Key
      <3>3. CASE y \notin Fresh(t)
        <4>1. y \in LiveIds(View(u)) /\ View(u)'[y] = View(u)[y]
          BY <2>3, <2>4, <2>8, <3>1, <3>3
        <4>2. x \in LiveIds(View(u)) /\ View(u)'[x] = View(u)[x]
          BY <2>5, <2>8, <3>1
        <4>3. Compatible(View(u), x, y) /\ Compatible(View(u), y, x)
          BY <3>1, <4>1, <4>2 DEF CardinalityInvariant, ViewsCompatible
        <4> QED BY <2>8, <4>1, <4>2, <4>3 DEF Compatible
      <3> QED BY <3>2, <3>3
    <2> QED BY <2>6, <2>7, <2>8
  <1>6. ASSUME NEW a \in LiveIds(View(t)'), NEW b \in LiveIds(View(t)')
        PROVE  Compatible(View(t)', a, b)
    <2>1. View(t)' = View(t)
      BY <1>1, <1>3 DEF View, Overlay
    <2> QED BY <1>1, <1>6, <2>1 DEF CardinalityInvariant, ViewsCompatible
  <1>7. ViewsCompatible'
    BY <1>1, <1>5, <1>6 DEF ViewsCompatible
  <1> QED BY <1>2, <1>4, <1>7

(* A transaction that rolls back takes its rows and locks with it.         *)
LEMMA AbortStep ==
  ASSUME TypeInv, CardinalityInvariant, NEW t \in Txns, End(t), UNCHANGED store
  PROVE  InsertsLocked' /\ ViewsCompatible' /\ OneValuePerTime'
  <1>1. /\ edges' = edges /\ writes'[t] = << >> /\ locks' = Released(t) /\ Entering(t)' = {}
        /\ \A u \in Txns : u # t => writes'[u] = writes[u] /\ Entering(u)' = Entering(u)
    BY DEF End, Entering, Goto, store, TypeInv, TypeOK
  <1>2. OneValuePerTime'
    BY <1>1 DEF CardinalityInvariant, OneValuePerTime
  <1>3. InsertsLocked'
    <2> SUFFICES ASSUME NEW u \in Txns, NEW e \in Fresh(u)', Exclusive(writes'[u][e].predicate)
                 PROVE  locks'[Key(writes'[u][e])] = u
      BY DEF InsertsLocked
    <2>1. u # t /\ e \in Fresh(u) /\ writes'[u] = writes[u]
      BY <1>1 DEF Fresh
    <2>2. locks[Key(writes[u][e])] = u /\ writes[u][e] \in Row
      BY <2>1 DEF CardinalityInvariant, InsertsLocked, Fresh, TypeInv, TypeOK
    <2>3. Key(writes[u][e]) \in Keys
      BY <2>2 DEF Key, Keys, Row
    <2> QED BY <1>1, <2>1, <2>2, <2>3 DEF Released
  <1>4. \A u \in Txns : u # t => View(u)' = View(u)
    BY <1>1 DEF View
  <1>5. View(t)' = edges \/ View(t)' = [e \in DOMAIN edges |-> edges[e]]
    BY <1>1 DEF View, Overlay
  <1>6. ViewsCompatible'
    <2>1. ASSUME NEW a \in LiveIds(View(t)'), NEW b \in LiveIds(View(t)')
          PROVE  Compatible(View(t)', a, b)
      BY <1>5, <2>1 DEF CardinalityInvariant, OneValuePerTime, Compatible, LiveIds
    <2> QED BY <1>1, <1>4, <2>1 DEF CardinalityInvariant, ViewsCompatible
  <1> QED BY <1>2, <1>3, <1>6

(* An add_fact holds its lock from the lock statement on. *)
LEMMA LockStep ==
  ASSUME TypeInv, LockHeld, [Next]_vars
  PROVE  LockHeld'
  <1>1. ASSUME NEW t \in Txns, UNCHANGED locks,
               \A u \in Txns \ {t} : pc'[u] = pc[u] /\ op'[u] = op[u],
               pc'[t] \notin Locked \/ (pc[t] \in Locked /\ op'[t] = op[t])
        PROVE  LockHeld'
    BY <1>1 DEF LockHeld, OpKey
  <1>2. ASSUME NEW t \in Txns, Call(t)
        PROVE  LockHeld'
    BY <1>1, <1>2
       DEF Call, AddFact, Propose, Invalidate, Negate, Finish, Goto, TypeInv, TypeOK, Locked
  <1>3. ASSUME NEW t \in Txns, Lock(t)
        PROVE  LockHeld'
    <2>1. /\ OpKey(t) \in Keys /\ op' = op /\ pc' = [pc EXCEPT ![t] = "dedup"]
          /\ locks' = [locks EXCEPT ![OpKey(t)] = t] /\ locks[OpKey(t)] \in {NoTxn, t}
      BY <1>3 DEF Lock, Grantable, Goto, TypeInv, ControlOK, Adding, OpKey, Keys, Fact
    <2>2. ASSUME NEW u \in Txns, pc'[u] \in Locked
          PROVE  locks'[OpKey(u)] = u
      <3>1. CASE u = t
        BY <2>1, <3>1 DEF TypeInv, TypeOK
      <3>2. CASE u # t
        BY <2>1, <2>2, <3>2, StoreAssumption DEF LockHeld, TypeInv, TypeOK
      <3> QED BY <3>1, <3>2
    <2> QED BY <2>1, <2>2 DEF LockHeld, OpKey
  <1>4. ASSUME NEW t \in Txns, Guard(t)
        PROVE  LockHeld'
    BY <1>1, <1>4 DEF Guard, Finish, Goto, TypeInv, TypeOK, Locked
  <1>5. ASSUME NEW t \in Txns, Dedup(t) \/ Contradict(t) \/ JudgeRestCompatible(t)
        PROVE  LockHeld'
    BY <1>1, <1>5
       DEF Dedup, Contradict, JudgeRestCompatible, Finish, Goto, TypeInv, TypeOK, Locked
  <1>6. ASSUME NEW t \in Txns, JudgeContradicts(t)
        PROVE  LockHeld'
    BY <1>1, <1>6 DEF JudgeContradicts, Raise, Goto, TypeInv, TypeOK, Locked
  <1>7. ASSUME NEW t \in Txns, Insert(t)
        PROVE  LockHeld'
    <2>1. CASE Raise(t)
      BY <1>1, <1>7, <2>1 DEF Insert, Raise, Goto, TypeInv, TypeOK, Locked
    <2>2. CASE ~Raise(t)
      <3>1. PICK e \in EdgeIds :
              IF Exclusive(NewRow(op[t]).predicate)
                THEN /\ pc' = [pc EXCEPT ![t] = "supersede"]
                     /\ UNCHANGED op
                ELSE Finish(t)
        BY <1>7, <2>2 DEF Insert, Goto
      <3>2. pc[t] = "insert" /\ UNCHANGED locks
        BY <1>7 DEF Insert
      <3> QED BY <1>1, <3>1, <3>2 DEF Finish, Goto, TypeInv, TypeOK, Locked
    <2> QED BY <2>1, <2>2
  <1>8. ASSUME NEW t \in Txns, Supersede(t) \/ Retract(t) \/ RetractDuplicates(t)
        PROVE  LockHeld'
    <2>1. UNCHANGED locks /\ pc'[t] \notin Locked /\ \A u \in Txns \ {t} : pc'[u] = pc[u] /\ op'[u] = op[u]
      <3>1. CASE Supersede(t)
        BY <3>1 DEF Supersede, Finish, Goto, TypeInv, TypeOK, Locked
      <3>2. CASE Retract(t)
        BY <3>2 DEF Retract, Raise, Goto, TypeInv, TypeOK, Locked
      <3>3. CASE RetractDuplicates(t)
        BY <3>3 DEF RetractDuplicates, Finish, Goto, TypeInv, TypeOK, Locked
      <3> QED BY <1>8, <3>1, <3>2, <3>3
    <2> QED BY <1>1, <2>1
  <1>9. ASSUME NEW t \in Txns, Commit(t) \/ Rollback(t) \/ Crash(t) \/ DeadlockVictim(t)
        PROVE  LockHeld'
    <2>1. /\ pc' = [pc EXCEPT ![t] = "ended"] /\ op' = [op EXCEPT ![t] = Nothing]
          /\ locks' = Released(t)
      BY <1>9 DEF Commit, Rollback, Crash, DeadlockVictim, End, Goto
    <2>2. ASSUME NEW u \in Txns, pc'[u] \in Locked
          PROVE  u # t /\ pc[u] \in Locked /\ op'[u] = op[u] /\ OpKey(u) \in Keys
      BY <2>1, <2>2 DEF Locked, Adding, TypeInv, TypeOK, ControlOK, OpKey, Keys, Fact
    <2>3. ASSUME NEW u \in Txns, pc'[u] \in Locked
          PROVE  locks'[OpKey(u)] = u
      BY <2>1, <2>2, <2>3 DEF LockHeld, Released
    <2> QED BY <2>2, <2>3 DEF LockHeld, OpKey
  <1>10. CASE UNCHANGED vars
    BY <1>10 DEF vars, LockHeld, OpKey
  <1> QED BY <1>2, <1>3, <1>4, <1>5, <1>6, <1>7, <1>8, <1>9, <1>10 DEF Next, Statement, Quiet

(* A step that writes no edge row and leaves the locks of inserts alone.   *)
LEMMA ReadStep ==
  ASSUME CardinalityInvariant, LockHeld', AppendInvariant',
         \A u \in Txns : Entering(u) \subseteq Entering(u)',
         UNCHANGED <<store, writes>>, InsertsLocked'
  PROVE  CardinalityInvariant'
  <1>1. edges' = edges /\ \A u \in Txns : View(u)' = View(u)
    BY DEF View, store
  <1> QED BY <1>1 DEF CardinalityInvariant, ViewsCompatible, Compatible, OneValuePerTime

LEMMA CardinalityStep ==
  ASSUME MirrorsPlain, TypeInv, CardinalityInvariant, [Next]_vars
  PROVE  CardinalityInvariant'
  <1>. LockHeld' /\ AppendInvariant' /\ ViewsCompatible /\ TypeOK
    BY LockStep, AppendStep DEF CardinalityInvariant, TypeInv
  <1>1. ASSUME NEW t \in Txns, UNCHANGED <<store, writes, locks>>,
               \A u \in Txns : pc[u] = "supersede" => pc'[u] = "supersede" /\ edge'[u] = edge[u]
        PROVE  CardinalityInvariant'
    <2>1. InsertsLocked'
      BY <1>1 DEF CardinalityInvariant, InsertsLocked, Fresh, store
    <2>2. \A u \in Txns : Entering(u) \subseteq Entering(u)'
      BY <1>1 DEF Entering
    <2> QED BY <1>1, <2>1, <2>2, ReadStep
  <1>2. ASSUME NEW t \in Txns, Call(t)
        PROVE  CardinalityInvariant'
    BY <1>1, <1>2, QuietSteps
       DEF Call, MayStart, AddFact, Propose, Invalidate, Negate, Finish, Goto, TypeOK
  <1>3. ASSUME NEW t \in Txns, Raise(t), JudgeContradicts(t) \/ Insert(t) \/ Retract(t)
        PROVE  CardinalityInvariant'
    BY <1>1, <1>3, QuietSteps DEF Raise, JudgeContradicts, Insert, Retract, Goto, TypeOK
  <1>4. ASSUME NEW t \in Txns, Guard(t) \/ Dedup(t) \/ Contradict(t) \/ JudgeRestCompatible(t)
        PROVE  CardinalityInvariant'
    BY <1>1, <1>4, QuietSteps
       DEF Guard, Dedup, Contradict, JudgeRestCompatible, Finish, Goto, TypeOK
  <1>5. ASSUME NEW t \in Txns, Lock(t)
        PROVE  CardinalityInvariant'
    <2>1. InsertsLocked'
      <3>1. /\ OpKey(t) \in Keys /\ UNCHANGED <<store, writes>>
            /\ locks' = [locks EXCEPT ![OpKey(t)] = t] /\ locks[OpKey(t)] \in {NoTxn, t}
        BY <1>5 DEF Lock, Grantable, TypeInv, ControlOK, Adding, OpKey, Keys, Fact
      <3> QED BY <3>1, StoreAssumption DEF CardinalityInvariant, InsertsLocked, Fresh, store, TypeOK
    <2>2. \A u \in Txns : Entering(u) \subseteq Entering(u)'
      BY <1>5 DEF Lock, Goto, Entering, TypeOK
    <2> QED BY <1>5, <2>1, <2>2, ReadStep, QuietSteps
  <1>6. ASSUME NEW t \in Txns,
               (~Raise(t) /\ (JudgeContradicts(t) \/ Retract(t))) \/ RetractDuplicates(t)
        PROVE  CardinalityInvariant'
    <2>1. PICK rows : Closing(t, rows) /\ Write(t, rows)
      BY <1>6, JudgeCloses, RetractCloses, RetractDuplicatesCloses
    <2>2. UNCHANGED <<store, locks>> /\ \A u \in Txns : Entering(u) \subseteq Entering(u)'
      BY <1>6 DEF JudgeContradicts, Retract, RetractDuplicates, Finish, Goto, Entering, TypeOK
    <2>3. ViewsCompatible'
      BY <2>1, <2>2, CloseStep, ViewsShrink
    <2> QED BY <2>1, <2>2, <2>3, CloseStep DEF CardinalityInvariant
  <1>7. ASSUME NEW t \in Txns, Supersede(t)
        PROVE  CardinalityInvariant'
    <2>1. PICK rows : Closing(t, rows) /\ Write(t, rows) /\ DOMAIN rows = Superseded(View(t), edge[t])
      BY <1>7, SupersedeCloses
    <2>2. /\ UNCHANGED <<store, locks>> /\ Entering(t) = {edge[t]} /\ Entering(t)' = {}
          /\ \A u \in Txns : u # t => Entering(u)' = Entering(u)
      BY <1>7 DEF Supersede, Finish, Goto, Entering, TypeOK
    <2>3. /\ InsertsLocked' /\ OneValuePerTime'
          /\ \A u \in Txns : /\ LiveIds(View(u)') \subseteq LiveIds(View(u))
                             /\ \A e \in LiveIds(View(u)') : View(u)'[e] = View(u)[e]
          /\ LiveIds(View(t)') \cap Superseded(View(t), edge[t]) = {}
      BY <2>1, <2>2, CloseStep
    \* the rows of its key that are left do not overlap the row that entered
    <2>4. ASSUME NEW a \in LiveIds(View(t)'), NEW b \in LiveIds(View(t)')
          PROVE  Compatible(View(t)', a, b)
      <3>1. /\ a \in LiveIds(View(t)) \ Superseded(View(t), edge[t]) /\ View(t)'[a] = View(t)[a]
            /\ b \in LiveIds(View(t)) \ Superseded(View(t), edge[t]) /\ View(t)'[b] = View(t)[b]
        BY <2>3, <2>4
      <3>2. CASE a # edge[t] /\ b # edge[t]
        BY <2>2, <3>1, <3>2 DEF ViewsCompatible, Compatible
      <3>3. CASE a = edge[t] \/ b = edge[t]
        BY <3>1, <3>3 DEF Superseded, Compatible, Overlaps
      <3> QED BY <3>2, <3>3
    <2>5. ViewsCompatible'
      <3>1. ASSUME NEW u \in Txns, u # t,
                   NEW a \in LiveIds(View(u)') \ Entering(u)', NEW b \in LiveIds(View(u)') \ Entering(u)'
            PROVE  Compatible(View(u)', a, b)
        BY <2>2, <2>3, <3>1 DEF ViewsCompatible, Compatible
      <3> QED BY <2>2, <2>4, <3>1 DEF ViewsCompatible
    <2> QED BY <2>3, <2>5 DEF CardinalityInvariant
  <1>8. ASSUME NEW t \in Txns, ~Raise(t), Insert(t)
        PROVE  CardinalityInvariant'
    <2> DEFINE row == NewRow(op[t])
    <2>1. PICK rows, e :
            /\ Inserting(t, rows) /\ Write(t, rows)
            /\ rows[e] = row
            /\ \A i \in DOMAIN rows \ {e} : rows[i] \in Mirror(row)
            /\ IF Exclusive(row.predicate)
                 THEN /\ pc' = [pc EXCEPT ![t] = "supersede"] /\ edge' = [edge EXCEPT ![t] = e]
                      /\ UNCHANGED op
                 ELSE Finish(t)
      BY <1>8, InsertInserts
    <2>2. /\ pc[t] = "insert" /\ op[t] \in Fact /\ op[t].valid_from \in Instant
          /\ UNCHANGED <<store, locks>> /\ locks[OpKey(t)] = t
      BY <1>8 DEF Insert, TypeInv, ControlOK, Adding, Locked, CardinalityInvariant, LockHeld
    <2>3. row \in Row /\ Key(row) = OpKey(t)
      BY <2>2, InsertedRows DEF NewRow, Key, OpKey
    <2>4. \A i \in DOMAIN rows \ {e} : ~Exclusive(rows[i].predicate)
      BY <2>1, <2>3, MirrorRowsPlain
    <2>5. /\ Entering(t) = {} /\ \A u \in Txns \ {t} : Entering(u)' = Entering(u)
          /\ Exclusive(row.predicate) => Entering(t)' = {e}
      BY <2>1, <2>2 DEF Entering, Finish, Goto, TypeOK
    <2>6. \A i \in DOMAIN rows :
            Exclusive(rows[i].predicate) => Key(rows[i]) = OpKey(t) /\ i \in Entering(t)'
      BY <2>1, <2>3, <2>4, <2>5
    <2> HIDE DEF row
    <2> QED BY <2>1, <2>2, <2>5, <2>6, InsertStep DEF CardinalityInvariant
  <1>9. ASSUME NEW t \in Txns, Commit(t) \/ Rollback(t) \/ Crash(t) \/ DeadlockVictim(t)
        PROVE  CardinalityInvariant'
    BY <1>9, CommitStep, AbortStep DEF Rollback, Crash, DeadlockVictim, CardinalityInvariant
  <1>10. CASE UNCHANGED vars
    <2>1. UNCHANGED <<store, writes>> /\ InsertsLocked' /\ \A u \in Txns : Entering(u)' = Entering(u)
      BY <1>10 DEF vars, store, CardinalityInvariant, InsertsLocked, Fresh, Entering
    <2> QED BY <2>1, ReadStep
  <1> QED BY <1>2, <1>3, <1>4, <1>5, <1>6, <1>7, <1>8, <1>9, <1>10 DEF Next, Statement, Quiet

(* The invariant that carries cardinality one, for every instance in which *)
(* the trigger never mirrors a fact onto an exclusive predicate: add_fact  *)
(* holds its lock, the lock covers what it has inserted, no two            *)
(* transactions write one row, and no view holds two values at once.       *)
THEOREM CardinalityAlways == MirrorsPlain => (Spec => []CardinalityInvariant)
  <1> SUFFICES ASSUME MirrorsPlain
               PROVE  Spec => []CardinalityInvariant
    OBVIOUS
  <1>1. Init => CardinalityInvariant
    BY DEF Init, CardinalityInvariant, AppendInvariant, LockHeld, InsertsLocked, WritesApart,
           UpdatesClose, ViewsCompatible, OneValuePerTime, LiveIds, View, Overlay, Fresh, Locked
  <1>2. TypeInv /\ CardinalityInvariant /\ [Next]_vars => CardinalityInvariant'
    BY CardinalityStep
  <1> QED BY <1>1, <1>2, TypeCorrect, PTL DEF Spec

(* Cardinality one, under the same condition: however transactions         *)
(* interleave, no two committed live rows of one subject and predicate     *)
(* overlap.                                                                *)
THEOREM OneValueAlways == MirrorsPlain => (Spec => []OneValuePerTime)
  <1> SUFFICES ASSUME MirrorsPlain
               PROVE  Spec => []OneValuePerTime
    OBVIOUS
  <1>1. CardinalityInvariant => OneValuePerTime
    BY DEF CardinalityInvariant
  <1>2. Spec => []CardinalityInvariant
    BY CardinalityAlways
  <1> QED BY <1>1, <1>2, PTL

-----------------------------------------------------------------------------
(* What each writing statement writes *)

(* A row and the same row closed agree but for the ends.                   *)
LEMMA ClosesSame ==
  ASSUME NEW a \in Row, NEW b, Closes(a, b)
  PROVE  /\ Live(a) /\ ~Live(b)
         /\ Key(b) = Key(a) /\ b.predicate = a.predicate /\ b.object = a.object
         /\ b.sys_from = a.sys_from /\ b.valid_from = a.valid_from
  BY DEF Closes, Key, Row

(* t closes the given rows at the present instant. *)
ClosingNow(t, rows) ==
  /\ Closing(t, rows)
  /\ \A e \in DOMAIN rows : rows[e].sys_to = now
  /\ now' = IF DOMAIN rows = {} THEN now ELSE now + 1

LEMMA JudgeWrites ==
  ASSUME TypeInv, NEW t \in Txns, JudgeContradicts(t), ~Raise(t)
  PROVE  \E e, rows :
           /\ e \in todo[t]
           /\ e \in DOMAIN View(t)
           /\ ClosingNow(t, rows) /\ Write(t, rows)
           /\ DOMAIN rows = IF Live(View(t)[e]) THEN {e} ELSE {}
           /\ \A i \in DOMAIN rows : /\ rows[i].valid_to = op[t].valid_from
                                     /\ rows[i].invalidated_by = View(t)[i].invalidated_by
           /\ audited' = [audited EXCEPT ![t] = @ \cup {e}]
  <1>. PICK e \in todo[t] :
         LET row    == View(t)[e]
             closed == IF Live(row) THEN {e} ELSE {}
         IN /\ Unlocked(t, {e})
            /\ Write(t, [i \in closed |-> CloseAt(row, op[t].valid_from)])
            /\ Tick(closed)
            /\ audited' = [audited EXCEPT ![t] = @ \cup {e}]
    BY DEF JudgeContradicts
  <1> DEFINE closed == IF Live(View(t)[e]) THEN {e} ELSE {}
             rows   == [i \in closed |-> CloseAt(View(t)[e], op[t].valid_from)]
  <1>1. e \in DOMAIN View(t) /\ View(t)[e] \in Row
    BY ViewRows DEF TypeInv, ControlOK
  <1>2. op[t].valid_from \in Instant
    BY DEF JudgeContradicts, TypeInv, ControlOK, Adding, Locked
  <1>3. Closing(t, rows)
    BY <1>1, <1>2, ClosedAtRows DEF Closing, Unlocked, LiveIds, TypeInv
  <1>4. \A i \in DOMAIN rows :
          /\ rows[i].sys_to = now /\ rows[i].valid_to = op[t].valid_from
          /\ rows[i].invalidated_by = View(t)[i].invalidated_by
    BY <1>1 DEF CloseAt, Row
  <1>5. ClosingNow(t, rows) /\ Write(t, rows) /\ DOMAIN rows = closed
    BY <1>3, <1>4 DEF ClosingNow, Tick
  <1> HIDE DEF rows
  <1> QED BY <1>1, <1>4, <1>5

LEMMA RetractWrites ==
  ASSUME TypeInv, NEW t \in Txns, Retract(t), ~Raise(t)
  PROVE  \E e, rows :
           /\ e \in todo[t]
           /\ e \in DOMAIN View(t)
           /\ ClosingNow(t, rows) /\ Write(t, rows)
           /\ DOMAIN rows = IF Live(View(t)[e]) THEN {e} ELSE {}
           /\ \A i \in DOMAIN rows : rows[i].invalidated_by = View(t)[i].invalidated_by
           /\ edge' = [edge EXCEPT ![t] = e]
           /\ todo' = [todo EXCEPT ![t] = @ \ {e}]
           /\ pc[t] = "retract" /\ pc' = [pc EXCEPT ![t] = "duplicates"]
           /\ UNCHANGED <<op, ops, audited>>
  <1>. PICK e \in todo[t] :
         LET row    == View(t)[e]
             at     == OrNow(op[t].invalidated_at)
             closed == IF Retractable(row) THEN {e} ELSE {}
         IN /\ pc[t] = "retract"
            /\ Unlocked(t, {e})
            /\ Write(t, [i \in closed |-> CloseAt(row, at)])
            /\ Tick(closed)
            /\ edge' = [edge EXCEPT ![t] = e]
            /\ todo' = [todo EXCEPT ![t] = @ \ {e}]
            /\ Goto(t, "duplicates")
            /\ UNCHANGED <<op, ops, audited>>
    BY DEF Retract
  <1> DEFINE at     == OrNow(op[t].invalidated_at)
             closed == IF Retractable(View(t)[e]) THEN {e} ELSE {}
             rows   == [i \in closed |-> CloseAt(View(t)[e], at)]
  <1>1. e \in DOMAIN View(t) /\ View(t)[e] \in Row
    BY ViewRows DEF TypeInv, ControlOK
  <1>2. at \in Instant
    <2>1. op[t].invalidated_at \in Instant \cup {Unset}
      BY DEF TypeInv, ControlOK, Negation, Invalidation
    <2> QED BY <2>1 DEF OrNow, TypeInv, TypeOK, Instant
  <1>3. Closing(t, rows)
    BY <1>1, <1>2, ClosedAtRows DEF Closing, Unlocked, LiveIds, Retractable, TypeInv
  <1>4. \A i \in DOMAIN rows :
          rows[i].sys_to = now /\ rows[i].invalidated_by = View(t)[i].invalidated_by
    BY <1>1 DEF CloseAt, Row
  <1>5. ClosingNow(t, rows) /\ Write(t, rows)
    BY <1>3, <1>4 DEF ClosingNow, Tick
  <1>6. DOMAIN rows = IF Live(View(t)[e]) THEN {e} ELSE {}
    BY DEF Retractable
  <1> HIDE DEF rows
  <1> QED BY <1>1, <1>4, <1>5, <1>6 DEF Goto

LEMMA RetractDuplicatesWrites ==
  ASSUME TypeInv, NEW t \in Txns, RetractDuplicates(t)
  PROVE  \E rows :
           /\ ClosingNow(t, rows) /\ Write(t, rows)
           /\ edge[t] \in DOMAIN View(t) /\ edge[t] \notin DOMAIN rows
           /\ \A i \in DOMAIN rows : /\ SameTriple(View(t)[i], View(t)[edge[t]])
                                     /\ rows[i].invalidated_by = View(t)[i].invalidated_by
           /\ audited' = [audited EXCEPT ![t] = @ \cup {edge[t]} \cup DOMAIN rows]
  <1> DEFINE dups == {e \in LiveIds(View(t)) \ {edge[t]} :
                        SameTriple(View(t)[e], View(t)[edge[t]])}
             rows == CloseAll(View(t), dups)
  <1>1. Unlocked(t, dups) /\ Write(t, rows) /\ edge[t] \in EdgeIds /\ edge[t] \in DOMAIN View(t)
        /\ Tick(dups)
    BY ViewRows DEF RetractDuplicates, TypeInv, ControlOK
  <1>2. \A e \in dups : View(t)[e] \in Row /\ Live(View(t)[e])
    BY ViewRows DEF LiveIds, TypeInv
  <1>3. \A e \in dups : Closes(View(t)[e], Close(View(t)[e]))
    BY <1>1, <1>2, ClosedRows DEF TypeInv
  <1>4. Closing(t, rows) /\ DOMAIN rows = dups
    BY <1>1, <1>3 DEF Closing, CloseAll
  <1>5. \A i \in dups : rows[i].sys_to = now /\ rows[i].invalidated_by = View(t)[i].invalidated_by
    BY <1>2 DEF CloseAll, Close, Row
  <1>6. ClosingNow(t, rows)
    BY <1>1, <1>4, <1>5 DEF ClosingNow, Tick
  <1>7. audited' = [audited EXCEPT ![t] = @ \cup {edge[t]} \cup dups]
    BY DEF RetractDuplicates, AuditedRows, TypeInv, TypeOK
  <1>8. \A i \in dups : SameTriple(View(t)[i], View(t)[edge[t]])
    OBVIOUS
  <1>9. edge[t] \notin dups
    OBVIOUS
  <1> HIDE DEF rows, dups
  <1> QED BY <1>1, <1>4, <1>5, <1>6, <1>7, <1>8, <1>9

LEMMA SupersedeWrites ==
  ASSUME TypeInv, NEW t \in Txns, Supersede(t)
  PROVE  \E rows :
           /\ ClosingNow(t, rows) /\ Write(t, rows)
           /\ DOMAIN rows = Superseded(View(t), edge[t])
           /\ \A i \in DOMAIN rows : rows[i].invalidated_by = edge[t] /\ rows[i].valid_to = View(t)[i].valid_to
  <1> DEFINE ids  == Superseded(View(t), edge[t])
             rows == [e \in ids |-> [Close(View(t)[e]) EXCEPT !.invalidated_by = edge[t]]]
  <1>1. /\ Unlocked(t, ids) /\ Write(t, rows) /\ edge[t] \in EdgeIds /\ ids \subseteq LiveIds(View(t))
        /\ Tick(ids)
    BY ViewRows DEF Supersede, Superseded, TypeInv, ControlOK
  <1>2. \A e \in ids : View(t)[e] \in Row /\ Live(View(t)[e])
    BY <1>1, ViewRows DEF LiveIds, TypeInv
  <1>3. \A e \in ids : Closes(View(t)[e], [Close(View(t)[e]) EXCEPT !.invalidated_by = edge[t]])
    BY <1>1, <1>2, ClosedRows DEF TypeInv
  <1>4. Closing(t, rows) /\ DOMAIN rows = ids
    BY <1>1, <1>3 DEF Closing
  <1>5. \A i \in ids : /\ rows[i].sys_to = now /\ rows[i].invalidated_by = edge[t]
                       /\ rows[i].valid_to = View(t)[i].valid_to
    BY <1>2 DEF Close, Row
  <1>6. ClosingNow(t, rows)
    BY <1>1, <1>4, <1>5 DEF ClosingNow, Tick
  <1> HIDE DEF rows
  <1> QED BY <1>1, <1>4, <1>5, <1>6

(* The rows of an INSERT: live, believed from now on, the first the fact   *)
(* itself under the lock, the second, if any, of a mirrored predicate.     *)
LEMMA InsertWrites ==
  ASSUME TypeInv, LockHeld, NEW t \in Txns, Insert(t), ~Raise(t)
  PROVE  \E rows, e :
           /\ Inserting(t, rows) /\ Write(t, rows) /\ now' = now + 1
           /\ e \in DOMAIN rows /\ rows[e] = NewRow(op[t])
           /\ {rows[i] : i \in DOMAIN rows \ {e}} = Mirror(NewRow(op[t]))
           /\ \A i \in DOMAIN rows : /\ rows[i] \in Row /\ i \in EdgeIds
                                     /\ Live(rows[i]) /\ rows[i].sys_from = now
                                     /\ rows[i].invalidated_by = NoEdge
           /\ \A i \in DOMAIN rows \ {e} : ~Guarded(rows[i].predicate)
           /\ Key(rows[e]) = OpKey(t) /\ locks[OpKey(t)] = t
           /\ IF Exclusive(rows[e].predicate)
                THEN /\ pc' = [pc EXCEPT ![t] = "supersede"] /\ edge' = [edge EXCEPT ![t] = e]
                     /\ UNCHANGED op
                ELSE Finish(t)
           /\ UNCHANGED audited
  <1> DEFINE row == NewRow(op[t])
  <1>1. pc[t] = "insert" /\ op[t] \in Fact /\ op[t].valid_from \in Instant /\ locks[OpKey(t)] = t
    BY DEF Insert, TypeInv, ControlOK, Adding, Locked, LockHeld
  <1>2. /\ row \in Row /\ \A r \in Mirror(row) : r \in Row
        /\ Key(row) = OpKey(t)
    BY <1>1, InsertedRows DEF TypeInv, NewRow, Key, OpKey
  <1>3. Live(row) /\ row.sys_from = now /\ row.invalidated_by = NoEdge
    BY DEF NewRow, Live
  <1>4. \A p : LET r == Swapped(row, p)
               IN r.predicate = p /\ r.sys_from = now /\ r.invalidated_by = NoEdge /\ Live(r)
    BY <1>3, <1>2 DEF Swapped, Row, Live
  <1>5. \A r \in Mirror(row) : /\ Live(r) /\ r.sys_from = now /\ r.invalidated_by = NoEdge
                               /\ ~Guarded(r.predicate)
    <2>1. row.predicate \in Predicates
      BY <1>2 DEF Row
    <2> QED BY <1>4, <2>1 DEF Mirror, Guarded
  <1> HIDE DEF row
  <1>6. now' = now + 1 /\ UNCHANGED audited
    BY DEF Insert
  <1>. PICK e \in EdgeIds \ UsedIds :
         /\ IF Mirror(row) = {}
              THEN Write(t, [i \in {e} |-> row])
              ELSE \E m \in (EdgeIds \ UsedIds) \ {e}, r \in Mirror(row) :
                     Write(t, [i \in {e, m} |-> IF i = e THEN row ELSE r])
         /\ IF Exclusive(row.predicate)
              THEN /\ edge' = [edge EXCEPT ![t] = e]
                   /\ pc' = [pc EXCEPT ![t] = "supersede"]
                   /\ UNCHANGED <<op, ops, todo>>
              ELSE Finish(t)
    BY DEF Insert, Goto, row
  <1>7. CASE Mirror(row) = {}
    <2> DEFINE rows == [i \in {e} |-> row]
    <2>1. Inserting(t, rows) /\ Write(t, rows) /\ rows[e] = row /\ DOMAIN rows = {e}
      BY <1>7 DEF Inserting
    <2>2. {rows[i] : i \in DOMAIN rows \ {e}} = Mirror(row)
      BY <1>7
    <2> HIDE DEF rows
    <2> QED BY <1>1, <1>2, <1>3, <1>6, <2>1, <2>2 DEF row
  <1>8. CASE Mirror(row) # {}
    <2>. PICK m \in (EdgeIds \ UsedIds) \ {e}, r \in Mirror(row) :
           Write(t, [i \in {e, m} |-> IF i = e THEN row ELSE r])
      BY <1>8
    <2> DEFINE rows == [i \in {e, m} |-> IF i = e THEN row ELSE r]
    <2>1. /\ Inserting(t, rows) /\ Write(t, rows) /\ rows[e] = row /\ DOMAIN rows = {e, m}
          /\ rows[m] = r
      BY DEF Inserting
    <2>2. \A x, y \in Mirror(row) : x = y
      BY DEF Mirror
    <2>3. {rows[i] : i \in DOMAIN rows \ {e}} = Mirror(row)
      BY <2>1, <2>2
    <2> HIDE DEF rows
    <2> QED BY <1>1, <1>2, <1>3, <1>5, <1>6, <2>1, <2>3 DEF row
  <1> QED BY <1>7, <1>8

-----------------------------------------------------------------------------
(* How views evolve *)

(* Every row stays, as it was or closed. *)
Evolves(old, new) ==
  \A e \in DOMAIN old : e \in DOMAIN new /\ (new[e] = old[e] \/ Closes(old[e], new[e]))

(* Another transaction sees a commit as closures of rows it has not itself *)
(* written, and as the rows the committed one inserted.                    *)
LEMMA CommitViews ==
  ASSUME TypeInv, AppendInvariant, NEW t \in Txns, Commit(t)
  PROVE  /\ edges' = View(t)
         /\ DOMAIN View(t)' = DOMAIN View(t) /\ \A e \in DOMAIN View(t) : View(t)'[e] = View(t)[e]
         /\ \A u \in Txns : u # t =>
              /\ writes'[u] = writes[u]
              /\ Evolves(View(u), View(u)')
              /\ \A e \in DOMAIN View(u)' \ DOMAIN View(u) :
                   e \in Fresh(t) /\ View(u)'[e] = writes[t][e] /\ View(u)'[e] = View(t)[e]
  <1>1. /\ edges' = View(t) /\ writes'[t] = << >>
        /\ \A u \in Txns : u # t => writes'[u] = writes[u]
    BY DEF Commit, End, TypeInv, TypeOK
  <1>2. /\ DOMAIN View(t) = DOMAIN edges \cup DOMAIN writes[t]
        /\ \A e \in DOMAIN writes[t] : View(t)[e] = writes[t][e]
        /\ \A e \in DOMAIN edges \ DOMAIN writes[t] : View(t)[e] = edges[e]
    BY DEF View, Overlay
  <1>3. DOMAIN View(t)' = DOMAIN View(t) /\ \A e \in DOMAIN View(t) : View(t)'[e] = View(t)[e]
    BY <1>1 DEF View, Overlay
  <1>4. ASSUME NEW u \in Txns, u # t
        PROVE  /\ Evolves(View(u), View(u)')
               /\ \A e \in DOMAIN View(u)' \ DOMAIN View(u) :
                    e \in Fresh(t) /\ View(u)'[e] = writes[t][e] /\ View(u)'[e] = View(t)[e]
    <2>1. /\ DOMAIN View(u) = DOMAIN edges \cup DOMAIN writes[u]
          /\ \A e \in DOMAIN writes[u] : View(u)[e] = writes[u][e]
          /\ \A e \in DOMAIN edges \ DOMAIN writes[u] : View(u)[e] = edges[e]
      BY DEF View, Overlay
    <2>2. /\ DOMAIN View(u)' = DOMAIN View(t) \cup DOMAIN writes[u]
          /\ \A e \in DOMAIN writes[u] : View(u)'[e] = writes[u][e]
          /\ \A e \in DOMAIN View(t) \ DOMAIN writes[u] : View(u)'[e] = View(t)[e]
      BY <1>1, <1>4 DEF View, Overlay
    <2>3. \A e \in DOMAIN writes[t] \cap DOMAIN edges : Closes(edges[e], writes[t][e])
      BY DEF AppendInvariant, UpdatesClose
    <2>4. Evolves(View(u), View(u)')
      BY <1>2, <2>1, <2>2, <2>3 DEF Evolves
    <2>5. \A e \in DOMAIN View(u)' \ DOMAIN View(u) :
            e \in Fresh(t) /\ View(u)'[e] = writes[t][e] /\ View(u)'[e] = View(t)[e]
      BY <1>2, <2>1, <2>2 DEF Fresh
    <2> QED BY <2>4, <2>5
  <1> QED BY <1>1, <1>3, <1>4

(* A transaction that gives up leaves the others' views alone. *)
LEMMA AbortViews ==
  ASSUME TypeInv, NEW t \in Txns, End(t), UNCHANGED store
  PROVE  /\ edges' = edges
         /\ DOMAIN View(t)' = DOMAIN edges /\ \A e \in DOMAIN edges : View(t)'[e] = edges[e]
         /\ \A u \in Txns : u # t => writes'[u] = writes[u] /\ View(u)' = View(u)
  BY DEF End, store, View, Overlay, TypeInv, TypeOK

(* Closing rows is an evolution of the writer's view. *)
LEMMA ClosingEvolves ==
  ASSUME TypeInv, NEW t \in Txns, NEW rows, Closing(t, rows), Write(t, rows), UNCHANGED edges
  PROVE  /\ DOMAIN View(t)' = DOMAIN View(t) /\ Evolves(View(t), View(t)')
         /\ \A e \in DOMAIN rows : View(t)'[e] = rows[e]
         /\ \A e \in DOMAIN View(t) \ DOMAIN rows : View(t)'[e] = View(t)[e]
         /\ \A u \in Txns : u # t => View(u)' = View(u)
  BY WriteViews DEF Closing, Evolves, LiveIds, TypeInv

(* A step that writes nothing leaves every view alone. *)
LEMMA QuietViews ==
  ASSUME UNCHANGED <<store, writes>>
  PROVE  edges' = edges /\ audit' = audit /\ \A u \in Txns : View(u)' = View(u)
  BY DEF store, View

(* The local variables of the others. *)
LEMMA OthersKept ==
  ASSUME TypeOK, NEW t \in Txns,
         \/ Call(t) \/ Statement(t) \/ Commit(t) \/ Rollback(t) \/ Crash(t) \/ DeadlockVictim(t)
  PROVE  \A u \in Txns \ {t} : /\ pc'[u] = pc[u] /\ op'[u] = op[u] /\ ops'[u] = ops[u]
                               /\ edge'[u] = edge[u] /\ todo'[u] = todo[u]
                               /\ audited'[u] = audited[u]
  <1>1. CASE Call(t)
    BY <1>1 DEF Call, AddFact, Propose, Invalidate, Negate, Goto, Finish, TypeOK
  <1>2. CASE Guard(t) \/ Lock(t) \/ Dedup(t) \/ Contradict(t) \/ JudgeRestCompatible(t)
    BY <1>2 DEF Guard, Lock, Dedup, Contradict, JudgeRestCompatible, Goto, Finish, TypeOK
  <1>3. CASE JudgeContradicts(t)
    BY <1>3 DEF JudgeContradicts, Raise, Goto, TypeOK
  <1>4. CASE Insert(t)
    BY <1>4 DEF Insert, Raise, Goto, Finish, TypeOK
  <1>5. CASE Supersede(t) \/ RetractDuplicates(t)
    BY <1>5 DEF Supersede, RetractDuplicates, Goto, Finish, TypeOK
  <1>6. CASE Retract(t)
    BY <1>6 DEF Retract, Raise, Goto, TypeOK
  <1>7. CASE Commit(t) \/ Rollback(t) \/ Crash(t) \/ DeadlockVictim(t)
    BY <1>7 DEF Commit, Rollback, Crash, DeadlockVictim, End, Goto, TypeOK
  <1> QED BY <1>1, <1>2, <1>3, <1>4, <1>5, <1>6, <1>7 DEF Statement

-----------------------------------------------------------------------------
(* Time *)

(* What is in the past stays in the past. *)
LEMMA OrderedLater ==
  ASSUME NEW row \in Row, NEW m \in Nat, NEW n \in Nat, m <= n, Ordered(row, m)
  PROVE  Ordered(row, n)
  <1>1. row.sys_from \in Nat /\ row.sys_to \in Nat \cup {Infinity}
    BY DEF Row, Instant, Endpoint
  <1> QED BY <1>1 DEF Ordered, Live

(* Every write set is in order, and so is every view. *)
LEMMA OrderedViews ==
  ASSUME RowsOrdered, NEW t \in Txns
  PROVE  \A e \in DOMAIN View(t) : Ordered(View(t)[e], now)
  BY DEF RowsOrdered, View, Overlay

LEMMA OrderedWrite ==
  ASSUME TypeInv, TypeInv', RowsOrdered, NEW t \in Txns, NEW rows, Write(t, rows), UNCHANGED store,
         now <= now', \A e \in DOMAIN rows : Ordered(rows[e], now')
  PROVE  RowsOrdered'
  <1>1. now \in Nat /\ now' \in Nat
    BY DEF TypeInv, TypeOK
  <1>2. \A e \in DOMAIN edges' : Ordered(edges'[e], now')
    BY <1>1, OrderedLater DEF RowsOrdered, store, TypeInv, TypeOK
  <1>3. /\ \A u \in Txns : u # t => writes'[u] = writes[u]
        /\ DOMAIN writes'[t] = DOMAIN writes[t] \cup DOMAIN rows
        /\ \A e \in DOMAIN rows : writes'[t][e] = rows[e]
        /\ \A e \in DOMAIN writes[t] \ DOMAIN rows : writes'[t][e] = writes[t][e]
    BY DEF TypeInv, TypeOK, Write, Overlay
  <1>4. \A u \in Txns : \A e \in DOMAIN writes[u] : Ordered(writes[u][e], now')
    BY <1>1, OrderedLater DEF RowsOrdered, TypeInv, TypeOK
  <1> QED BY <1>2, <1>3, <1>4 DEF RowsOrdered

(* A row closed now ends after it began. *)
LEMMA OrderedClosing ==
  ASSUME TypeInv, RowsOrdered, NEW t \in Txns, NEW rows, ClosingNow(t, rows)
  PROVE  now <= now' /\ \A e \in DOMAIN rows : Ordered(rows[e], now')
  <1>1. now \in Nat
    BY DEF TypeInv, TypeOK
  <1>2. ASSUME NEW e \in DOMAIN rows
        PROVE  Ordered(rows[e], now')
    <2>1. e \in DOMAIN View(t) /\ View(t)[e] \in Row /\ Ordered(View(t)[e], now)
      BY OrderedViews, ViewRows DEF ClosingNow, Closing, LiveIds, TypeInv
    <2>2. rows[e].sys_from = View(t)[e].sys_from /\ ~Live(rows[e]) /\ rows[e].sys_to = now
      BY <2>1, ClosesSame DEF ClosingNow, Closing
    <2>3. View(t)[e].sys_from \in Nat /\ now' = now + 1
      BY <2>1 DEF Row, Instant, ClosingNow
    <2> QED BY <1>1, <2>1, <2>2, <2>3 DEF Ordered
  <1> QED BY <1>1, <1>2 DEF ClosingNow

LEMMA OrderedStep ==
  ASSUME TypeInv, TypeInv', LockHeld, RowsOrdered, [Next]_vars
  PROVE  RowsOrdered'
  <1>1. ASSUME UNCHANGED <<store, writes, now>>
        PROVE  RowsOrdered'
    BY <1>1 DEF RowsOrdered, store
  <1>2. ASSUME NEW t \in Txns, Call(t)
        PROVE  RowsOrdered'
    BY <1>1, <1>2, QuietSteps DEF Call, AddFact, Propose, Invalidate, Negate
  <1>3. ASSUME NEW t \in Txns, Guard(t) \/ Lock(t) \/ Dedup(t) \/ Contradict(t) \/ JudgeRestCompatible(t)
        PROVE  RowsOrdered'
    BY <1>1, <1>3, QuietSteps DEF Guard, Lock, Dedup, Contradict, JudgeRestCompatible
  <1>4. ASSUME NEW t \in Txns, Raise(t), JudgeContradicts(t) \/ Insert(t) \/ Retract(t)
        PROVE  RowsOrdered'
    BY <1>1, <1>4, QuietSteps DEF Raise
  <1>5. ASSUME NEW t \in Txns,
               \/ ~Raise(t) /\ (JudgeContradicts(t) \/ Retract(t))
               \/ Supersede(t) \/ RetractDuplicates(t)
        PROVE  RowsOrdered'
    <2>1. PICK rows : ClosingNow(t, rows) /\ Write(t, rows)
      BY <1>5, JudgeWrites, RetractWrites, SupersedeWrites, RetractDuplicatesWrites
    <2>2. UNCHANGED store
      BY <1>5 DEF JudgeContradicts, Retract, Supersede, RetractDuplicates
    <2> QED BY <2>1, <2>2, OrderedClosing, OrderedWrite
  <1>6. ASSUME NEW t \in Txns, ~Raise(t), Insert(t)
        PROVE  RowsOrdered'
    <2>1. PICK rows : /\ Write(t, rows) /\ now' = now + 1
                      /\ \A i \in DOMAIN rows : /\ Live(rows[i]) /\ rows[i].sys_from = now
                                                /\ rows[i].invalidated_by = NoEdge
      BY <1>6, InsertWrites
    <2>2. now \in Nat /\ UNCHANGED store
      BY <1>6 DEF Insert, TypeInv, TypeOK
    <2> QED BY <2>1, <2>2, OrderedWrite DEF Ordered
  <1>7. ASSUME NEW t \in Txns, Commit(t) \/ Rollback(t) \/ Crash(t) \/ DeadlockVictim(t)
        PROVE  RowsOrdered'
    <2>1. /\ edges' = edges \/ edges' = View(t)
          /\ writes' = [writes EXCEPT ![t] = << >>] /\ now' = now
      BY <1>7 DEF Commit, Rollback, Crash, DeadlockVictim, End, store
    <2>2. \A e \in DOMAIN edges' : Ordered(edges'[e], now)
      BY <2>1, OrderedViews DEF RowsOrdered
    <2>3. \A u \in Txns : \A e \in DOMAIN writes'[u] : Ordered(writes'[u][e], now)
      BY <2>1 DEF RowsOrdered, TypeInv, TypeOK
    <2> QED BY <2>1, <2>2, <2>3 DEF RowsOrdered
  <1>8. CASE UNCHANGED vars
    BY <1>1, <1>8 DEF vars, store
  <1> QED BY <1>2, <1>3, <1>4, <1>5, <1>6, <1>7, <1>8 DEF Next, Statement, Quiet

-----------------------------------------------------------------------------
(* The audit log *)

(* A closed row stays as it is. *)
LEMMA ClosedStays ==
  ASSUME NEW old, NEW new, Evolves(old, new), NEW e, ClosedIn(old, e)
  PROVE  ClosedIn(new, e) /\ new[e] = old[e]
  BY DEF Evolves, ClosedIn, Closes

(* Closing row e, or finding it closed, leaves it closed in the view.      *)
LEMMA ClosingCloses ==
  ASSUME TypeInv, NEW t \in Txns, NEW rows, Closing(t, rows), Write(t, rows), UNCHANGED edges,
         NEW e \in DOMAIN View(t), Live(View(t)[e]) => e \in DOMAIN rows
  PROVE  ClosedIn(View(t)', e)
  <1>1. e \in DOMAIN View(t)'
    BY ClosingEvolves
  <1>2. CASE e \in DOMAIN rows
    <2>1. ~Live(rows[e])
      BY <1>2 DEF Closing, Closes
    <2>2. View(t)'[e] = rows[e]
      BY <1>2, ClosingEvolves
    <2> QED BY <1>1, <2>1, <2>2 DEF ClosedIn
  <1>3. CASE e \notin DOMAIN rows
    <2>1. View(t)'[e] = View(t)[e] /\ ~Live(View(t)[e])
      BY <1>3, ClosingEvolves
    <2> QED BY <1>1, <2>1 DEF ClosedIn
  <1> QED BY <1>2, <1>3

(* An INSERT is an evolution too: its ids were nobody's. *)
LEMMA InsertingEvolves ==
  ASSUME TypeInv, NEW t \in Txns, NEW rows, Inserting(t, rows), Write(t, rows), UNCHANGED edges
  PROVE  /\ DOMAIN View(t)' = DOMAIN View(t) \cup DOMAIN rows
         /\ \A e \in DOMAIN rows : View(t)'[e] = rows[e] /\ e \notin DOMAIN View(t)
         /\ \A e \in DOMAIN View(t) : View(t)'[e] = View(t)[e]
         /\ \A u \in Txns : u # t => View(u)' = View(u)
  <1>1. DOMAIN rows \cap DOMAIN View(t) = {}
    BY DEF Inserting, UsedIds, View, Overlay
  <1> QED BY <1>1, WriteViews DEF TypeInv

(* A step of t that lets its view evolve and audits only what is closed.   *)
LEMMA AuditKept ==
  ASSUME AuditInvariant, NEW t \in Txns, UNCHANGED store,
         \A u \in Txns : u # t => /\ View(u)' = View(u) /\ audited'[u] = audited[u]
                                  /\ pc'[u] = pc[u] /\ edge'[u] = edge[u],
         Evolves(View(t), View(t)'),
         \A e \in audited'[t] : e \in audited[t] \/ ClosedIn(View(t)', e),
         pc'[t] = "duplicates" => ClosedIn(View(t)', edge'[t])
  PROVE  AuditInvariant'
  <1>1. AuditedAreClosed'
    BY DEF AuditInvariant, AuditedAreClosed, store
  <1>2. \A e \in audited[t] : ClosedIn(View(t)', e)
    BY ClosedStays DEF AuditInvariant
  <1> QED BY <1>1, <1>2 DEF AuditInvariant

LEMMA SameEvolves ==
  ASSUME NEW view
  PROVE  Evolves(view, view)
  BY DEF Evolves

LEMMA AuditStep ==
  ASSUME TypeInv, AppendInvariant, LockHeld, AuditInvariant, [Next]_vars
  PROVE  AuditInvariant'
  <1>. TypeOK
    BY DEF TypeInv
  <1>1. ASSUME NEW t \in Txns, UNCHANGED <<store, writes, audited>>, pc'[t] # "duplicates",
               \A u \in Txns \ {t} : pc'[u] = pc[u] /\ edge'[u] = edge[u]
        PROVE  AuditInvariant'
    BY <1>1, QuietViews, SameEvolves, AuditKept
  <1>2. ASSUME NEW t \in Txns, Call(t)
        PROVE  AuditInvariant'
    BY <1>1, <1>2, QuietSteps, OthersKept
       DEF Call, AddFact, Propose, Invalidate, Negate, Finish, Goto, TypeOK
  <1>3. ASSUME NEW t \in Txns, Guard(t) \/ Lock(t) \/ Dedup(t) \/ Contradict(t) \/ JudgeRestCompatible(t)
        PROVE  AuditInvariant'
    <2>1. UNCHANGED <<store, writes, audited>> /\ pc'[t] # "duplicates"
      BY <1>3, QuietSteps
         DEF Guard, Lock, Dedup, Contradict, JudgeRestCompatible, Finish, Goto, TypeOK
    <2>2. Statement(t)
      BY <1>3 DEF Statement
    <2> QED BY <1>1, <2>1, <2>2, OthersKept
  <1>4. ASSUME NEW t \in Txns, Raise(t), JudgeContradicts(t) \/ Insert(t) \/ Retract(t)
        PROVE  AuditInvariant'
    BY <1>1, <1>4, QuietSteps DEF Raise, Goto, TypeOK
  <1>5. ASSUME NEW t \in Txns, ~Raise(t), JudgeContradicts(t)
        PROVE  AuditInvariant'
    <2>1. PICK e, rows :
            /\ e \in todo[t]
            /\ e \in DOMAIN View(t)
            /\ ClosingNow(t, rows) /\ Write(t, rows)
            /\ DOMAIN rows = IF Live(View(t)[e]) THEN {e} ELSE {}
            /\ audited' = [audited EXCEPT ![t] = @ \cup {e}]
      BY <1>5, JudgeWrites
    <2>2. /\ UNCHANGED <<store, edges>> /\ audited'[t] = audited[t] \cup {e}
          /\ pc'[t] # "duplicates"
      BY <1>5, <2>1 DEF JudgeContradicts, store, Goto, TypeOK
    <2>3. ClosedIn(View(t)', e)
      BY <2>1, <2>2, ClosingCloses DEF ClosingNow
    <2> QED BY <1>5, <2>1, <2>2, <2>3, ClosingEvolves, OthersKept, AuditKept
            DEF Statement, ClosingNow
  <1>6. ASSUME NEW t \in Txns, ~Raise(t), Insert(t)
        PROVE  AuditInvariant'
    <2>1. PICK rows : Inserting(t, rows) /\ Write(t, rows)
      BY <1>6, InsertWrites
    <2>2. /\ UNCHANGED <<store, edges>> /\ audited' = audited /\ pc'[t] # "duplicates"
      BY <1>6 DEF Insert, store, Finish, Goto, Raise, TypeOK
    <2>3. Evolves(View(t), View(t)')
      BY <2>1, <2>2, InsertingEvolves DEF Evolves
    <2>4. \A u \in Txns : u # t => View(u)' = View(u)
      BY <2>1, <2>2, InsertingEvolves
    <2>5. \A u \in Txns : u # t => pc'[u] = pc[u] /\ edge'[u] = edge[u] /\ audited'[u] = audited[u]
      BY <1>6, <2>2, OthersKept DEF Statement
    <2>6. \A e \in audited'[t] : e \in audited[t] \/ ClosedIn(View(t)', e)
      BY <2>2
    <2> QED BY <2>2, <2>3, <2>4, <2>5, <2>6, AuditKept
  <1>7. ASSUME NEW t \in Txns, Supersede(t)
        PROVE  AuditInvariant'
    <2>1. PICK rows : ClosingNow(t, rows) /\ Write(t, rows)
      BY <1>7, SupersedeWrites
    <2>2. /\ UNCHANGED <<store, edges>> /\ audited' = audited /\ pc'[t] # "duplicates"
      BY <1>7 DEF Supersede, store, Finish, Goto, TypeOK
    <2> QED BY <1>7, <2>1, <2>2, ClosingEvolves, OthersKept, AuditKept DEF Statement, ClosingNow
  <1>8. ASSUME NEW t \in Txns, ~Raise(t), Retract(t)
        PROVE  AuditInvariant'
    <2>1. PICK e, rows :
            /\ e \in todo[t]
            /\ e \in DOMAIN View(t)
            /\ ClosingNow(t, rows) /\ Write(t, rows)
            /\ DOMAIN rows = IF Live(View(t)[e]) THEN {e} ELSE {}
            /\ edge' = [edge EXCEPT ![t] = e]
            /\ UNCHANGED audited
      BY <1>8, RetractWrites
    <2>2. UNCHANGED <<store, edges>> /\ edge'[t] = e
      BY <1>8, <2>1 DEF Retract, store, TypeOK
    <2>3. ClosedIn(View(t)', e)
      BY <2>1, <2>2, ClosingCloses DEF ClosingNow
    <2> QED BY <1>8, <2>1, <2>2, <2>3, ClosingEvolves, OthersKept, AuditKept
            DEF Statement, ClosingNow
  <1>9. ASSUME NEW t \in Txns, RetractDuplicates(t)
        PROVE  AuditInvariant'
    <2>1. PICK rows :
            /\ ClosingNow(t, rows) /\ Write(t, rows)
            /\ audited' = [audited EXCEPT ![t] = @ \cup {edge[t]} \cup DOMAIN rows]
      BY <1>9, RetractDuplicatesWrites
    <2>2. /\ UNCHANGED <<store, edges>> /\ pc[t] = "duplicates" /\ pc'[t] # "duplicates"
          /\ audited'[t] = audited[t] \cup {edge[t]} \cup DOMAIN rows
      BY <1>9, <2>1 DEF RetractDuplicates, store, Finish, Goto, TypeOK
    <2>3. Evolves(View(t), View(t)') /\ \A e \in DOMAIN rows : ClosedIn(View(t)', e)
      BY <2>1, <2>2, ClosingEvolves, ClosingCloses DEF ClosingNow, Closing, LiveIds
    <2>4. ClosedIn(View(t)', edge[t])
      BY <2>2, <2>3, ClosedStays DEF AuditInvariant
    <2> QED BY <1>9, <2>1, <2>2, <2>3, <2>4, ClosingEvolves, OthersKept, AuditKept
            DEF Statement, ClosingNow
  <1>10. ASSUME NEW t \in Txns, Commit(t)
         PROVE  AuditInvariant'
    <2>1. /\ edges' = View(t) /\ audit' = audit \cup audited[t]
          /\ audited' = [audited EXCEPT ![t] = {}] /\ pc' = [pc EXCEPT ![t] = "ended"]
          /\ edge' = [edge EXCEPT ![t] = NoEdge]
      BY <1>10 DEF Commit, End, Goto
    <2>2. Evolves(edges, edges')
      BY <1>10, AppendAction DEF Evolves, Next
    <2>3. AuditedAreClosed'
      BY <2>1, <2>2, ClosedStays DEF AuditInvariant, AuditedAreClosed, ClosedIn
    <2>4. ASSUME NEW u \in Txns, u # t, NEW e, ClosedIn(View(u), e)
          PROVE  ClosedIn(View(u)', e)
      BY <1>10, <2>4, CommitViews, ClosedStays
    <2> QED BY <2>1, <2>3, <2>4 DEF AuditInvariant, TypeOK
  <1>11. ASSUME NEW t \in Txns, Rollback(t) \/ Crash(t) \/ DeadlockVictim(t)
         PROVE  AuditInvariant'
    <2>1. /\ End(t) /\ UNCHANGED store
          /\ audited' = [audited EXCEPT ![t] = {}] /\ pc' = [pc EXCEPT ![t] = "ended"]
          /\ edge' = [edge EXCEPT ![t] = NoEdge]
      BY <1>11 DEF Rollback, Crash, DeadlockVictim, End, Goto
    <2>2. AuditedAreClosed'
      BY <2>1 DEF AuditInvariant, AuditedAreClosed, store
    <2>3. \A u \in Txns : u # t => View(u)' = View(u)
      BY <2>1, AbortViews
    <2> QED BY <2>1, <2>2, <2>3 DEF AuditInvariant, TypeOK
  <1>12. CASE UNCHANGED vars
    BY <1>12, QuietViews DEF vars, store, AuditInvariant, AuditedAreClosed
  <1> QED BY <1>2, <1>3, <1>4, <1>5, <1>6, <1>7, <1>8, <1>9, <1>10, <1>11, <1>12
          DEF Next, Statement, Quiet

(* An add_fact holds its lock, whatever the predicates.                    *)
LEMMA LockAlways == Spec => []LockHeld
  <1>1. Init => LockHeld
    BY DEF Init, LockHeld, Locked
  <1>2. TypeInv /\ LockHeld /\ [Next]_vars => LockHeld'
    BY LockStep
  <1> QED BY <1>1, <1>2, TypeCorrect, PTL DEF Spec

LEMMA AppendAlways == Spec => []AppendInvariant
  <1>1. Init => AppendInvariant
    BY DEF Init, AppendInvariant, WritesApart, UpdatesClose
  <1>2. TypeInv /\ AppendInvariant /\ [Next]_vars => AppendInvariant'
    BY AppendStep
  <1> QED BY <1>1, <1>2, TypeCorrect, PTL DEF Spec

(* Every belief began before now, ended after it began, and names a        *)
(* successor only if it has ended: the system time of the store only runs  *)
(* forward, in rows committed and in flight.                               *)
THEOREM SystemTimeRunsForward == Spec => []RowsOrdered
  <1>1. Init => RowsOrdered
    BY DEF Init, RowsOrdered
  <1>2. TypeInv /\ TypeInv' /\ LockHeld /\ RowsOrdered /\ [Next]_vars => RowsOrdered'
    BY OrderedStep
  <1> QED BY <1>1, <1>2, TypeCorrect, LockAlways, PTL DEF Spec

(* The audit log tells the truth, for every instance: an edge it says was  *)
(* invalidated is in the store and closed, also when a commit, a rollback  *)
(* or a retraction by another transaction came between the two.            *)
THEOREM AuditTellsTheTruth == Spec => []AuditedAreClosed
  <1>1. Init => AuditInvariant
    BY DEF Init, AuditInvariant, AuditedAreClosed
  <1>2. TypeInv /\ AppendInvariant /\ LockHeld /\ AuditInvariant /\ [Next]_vars => AuditInvariant'
    BY AuditStep
  <1>3. AuditInvariant => AuditedAreClosed
    BY DEF AuditInvariant
  <1> QED BY <1>1, <1>2, <1>3, TypeCorrect, LockAlways, AppendAlways, PTL DEF Spec

-----------------------------------------------------------------------------
(* Closures *)

(* A row closed or kept is about the same fact and was believed as early.  *)
LEMMA EvolvedRows ==
  ASSUME NEW old, NEW new, Evolves(old, new), NEW e \in DOMAIN old, old[e] \in Row
  PROVE  /\ e \in DOMAIN new
         /\ Key(new[e]) = Key(old[e]) /\ new[e].predicate = old[e].predicate
         /\ new[e].sys_from = old[e].sys_from
  BY ClosesSame DEF Evolves

(* What explains a closure stays: its successor and its audit row.         *)
LEMMA ExplainedKept ==
  ASSUME NEW old, NEW new, Evolves(old, new), \A e \in DOMAIN old : old[e] \in Row,
         NEW log, NEW log2, log \subseteq log2,
         NEW e \in DOMAIN old, new[e] = old[e], Explained(old, log, e)
  PROVE  Explained(new, log2, e)
  <1> DEFINE n == old[e].invalidated_by
  <1>1. CASE n = NoEdge
    BY <1>1 DEF Explained
  <1>2. CASE n # NoEdge
    <2>1. /\ n \in DOMAIN old /\ Key(old[n]) = Key(old[e])
          /\ old[e].sys_from < old[n].sys_from /\ old[n].sys_from < old[e].sys_to
      BY <1>2 DEF Explained
    <2>2. /\ n \in DOMAIN new /\ Key(new[n]) = Key(old[n])
          /\ new[n].sys_from = old[n].sys_from
      BY <2>1, EvolvedRows
    <2> QED BY <1>2, <2>1, <2>2 DEF Explained
  <1> QED BY <1>1, <1>2

(* A transaction that stays sees, after a commit, its own view and the     *)
(* committed one, each with more rows closed.                              *)
LEMMA CommitMerges ==
  ASSUME TypeInv, AppendInvariant, NEW t \in Txns, Commit(t), NEW u \in Txns, u # t
  PROVE  /\ Evolves(View(u), View(u)') /\ Evolves(View(t), View(u)')
         /\ \A e \in DOMAIN View(u)' : \/ e \in DOMAIN View(u) /\ View(u)'[e] = View(u)[e]
                                       \/ e \in DOMAIN View(t) /\ View(u)'[e] = View(t)[e]
  <1>1. edges' = View(t) /\ writes'[u] = writes[u] /\ Evolves(View(u), View(u)')
    BY CommitViews
  <1>2. /\ DOMAIN View(u)' = DOMAIN View(t) \cup DOMAIN writes[u]
        /\ \A e \in DOMAIN writes[u] : View(u)'[e] = writes[u][e]
        /\ \A e \in DOMAIN View(t) \ DOMAIN writes[u] : View(u)'[e] = View(t)[e]
    BY <1>1 DEF View, Overlay
  <1>3. /\ DOMAIN writes[u] \subseteq DOMAIN View(u)
        /\ \A e \in DOMAIN writes[u] : View(u)[e] = writes[u][e]
    BY DEF View, Overlay
  <1>4. \A e \in DOMAIN writes[u] \cap DOMAIN View(t) : Closes(View(t)[e], writes[u][e])
    <2>1. \A e \in DOMAIN writes[u] \cap DOMAIN View(t) :
            e \in DOMAIN edges /\ View(t)[e] = edges[e]
      BY DEF View, Overlay, AppendInvariant, WritesApart
    <2> QED BY <2>1 DEF AppendInvariant, UpdatesClose
  <1>5. Evolves(View(t), View(u)')
    BY <1>2, <1>4 DEF Evolves
  <1> QED BY <1>1, <1>2, <1>3, <1>5

(* A step that writes no row leaves the row that enters the newest.        *)
LEMMA NewestKept ==
  ASSUME NEW old, NEW new, Evolves(old, new), \A i \in DOMAIN old : old[i] \in Row,
         NEW e \in DOMAIN old, Newest(old, e),
         \A i \in DOMAIN new \ DOMAIN old : Key(new[i]) # Key(old[e])
  PROVE  Newest(new, e)
  <1>1. /\ Key(new[e]) = Key(old[e]) /\ new[e].sys_from = old[e].sys_from
    BY EvolvedRows
  <1>2. ASSUME NEW a \in DOMAIN new \ {e}, Key(new[a]) = Key(new[e])
        PROVE  new[a].sys_from < new[e].sys_from
    <2>1. a \in DOMAIN old
      BY <1>1, <1>2
    <2>2. Key(new[a]) = Key(old[a]) /\ new[a].sys_from = old[a].sys_from
      BY <2>1, EvolvedRows
    <2> QED BY <1>1, <1>2, <2>1, <2>2 DEF Newest
  <1> QED BY <1>2 DEF Newest

(* EnteringNewest for one transaction, as its view evolves.                *)
LEMMA EnteringKept ==
  ASSUME TypeInv, EnteringNewest, NEW u \in Txns, Evolves(View(u), View(u)'),
         pc'[u] = "supersede" =>
            /\ pc[u] = "supersede" /\ edge'[u] = edge[u] /\ op'[u] = op[u]
            /\ \A i \in DOMAIN View(u)' \ DOMAIN View(u) : Key(View(u)'[i]) # OpKey(u)
  PROVE  \A e \in Entering(u)' :
            /\ Key(View(u)'[e]) = OpKey(u)' /\ Exclusive(View(u)'[e].predicate)
            /\ Newest(View(u)', e)
  <1> SUFFICES ASSUME NEW e \in Entering(u)'
               PROVE  /\ Key(View(u)'[e]) = OpKey(u)' /\ Exclusive(View(u)'[e].predicate)
                      /\ Newest(View(u)', e)
    OBVIOUS
  <1>1. pc'[u] = "supersede" /\ pc[u] = "supersede" /\ e \in Entering(u) /\ OpKey(u)' = OpKey(u)
    BY DEF Entering, OpKey
  <1>2. e \in DOMAIN View(u)
    BY <1>1 DEF Entering, TypeInv, ControlOK
  <1>3. Key(View(u)[e]) = OpKey(u) /\ Exclusive(View(u)[e].predicate) /\ Newest(View(u), e)
    BY <1>1 DEF EnteringNewest
  <1>4. \A i \in DOMAIN View(u) : View(u)[i] \in Row
    BY ViewRows DEF TypeInv
  <1>5. Key(View(u)'[e]) = OpKey(u)' /\ Exclusive(View(u)'[e].predicate)
    BY <1>1, <1>2, <1>3, <1>4, EvolvedRows
  <1>6. Newest(View(u)', e)
    <2>1. \A i \in DOMAIN View(u)' \ DOMAIN View(u) : Key(View(u)'[i]) # Key(View(u)[e])
      BY <1>1, <1>3
    <2> QED BY <1>2, <1>3, <1>4, <2>1, NewestKept
  <1> QED BY <1>5, <1>6

(* While the row of an add_fact waits for the rows it replaces to be       *)
(* closed, it is the last row believed of its key: the lock keeps every    *)
(* other add_fact of the key out.                                          *)
LEMMA EnteringStep ==
  ASSUME MirrorsPlain, TypeInv, TypeInv', CardinalityInvariant, RowsOrdered, EnteringNewest, [Next]_vars
  PROVE  EnteringNewest'
  <1>. TypeOK /\ AppendInvariant /\ LockHeld
    BY DEF TypeInv, CardinalityInvariant
  <1>1. ASSUME NEW t \in Txns, pc'[t] # "supersede",
               \A u \in Txns \ {t} : /\ View(u)' = View(u)
                                     /\ pc'[u] = pc[u] /\ op'[u] = op[u] /\ edge'[u] = edge[u]
        PROVE  EnteringNewest'
    <2>1. Entering(t)' = {}
      BY <1>1 DEF Entering
    <2> QED BY <1>1, <2>1, EnteringKept, SameEvolves DEF EnteringNewest
  <1>2. ASSUME NEW t \in Txns, Call(t)
        PROVE  EnteringNewest'
    <2>1. pc'[t] # "supersede"
      BY <1>2 DEF Call, AddFact, Propose, Invalidate, Negate, Finish, Goto, TypeOK
    <2>2. \A u \in Txns : View(u)' = View(u)
      BY <1>2, QuietSteps, QuietViews
    <2> QED BY <1>1, <1>2, <2>1, <2>2, OthersKept
  <1>3. ASSUME NEW t \in Txns,
               \/ Guard(t) \/ Lock(t) \/ Dedup(t) \/ Contradict(t) \/ JudgeRestCompatible(t)
               \/ Raise(t) /\ (JudgeContradicts(t) \/ Insert(t) \/ Retract(t))
        PROVE  EnteringNewest'
    <2>1. pc'[t] # "supersede"
      BY <1>3 DEF Guard, Lock, Dedup, Contradict, JudgeRestCompatible, Raise, Finish, Goto, TypeOK
    <2>2. \A u \in Txns : View(u)' = View(u)
      BY <1>3, QuietSteps, QuietViews
    <2> QED BY <1>1, <1>3, <2>1, <2>2, OthersKept DEF Statement
  <1>4. ASSUME NEW t \in Txns,
               \/ ~Raise(t) /\ (JudgeContradicts(t) \/ Retract(t))
               \/ Supersede(t) \/ RetractDuplicates(t)
        PROVE  EnteringNewest'
    <2>1. PICK rows : Closing(t, rows) /\ Write(t, rows)
      BY <1>4, JudgeCloses, RetractCloses, SupersedeCloses, RetractDuplicatesCloses
    <2>2. UNCHANGED edges /\ pc'[t] # "supersede"
      BY <1>4 DEF JudgeContradicts, Retract, Supersede, RetractDuplicates, store, Finish, Goto, TypeOK
    <2>3. \A u \in Txns : u # t => View(u)' = View(u)
      BY <2>1, <2>2, ClosingEvolves
    <2> QED BY <1>1, <1>4, <2>2, <2>3, OthersKept DEF Statement
  <1>5. ASSUME NEW t \in Txns, ~Raise(t), Insert(t)
        PROVE  EnteringNewest'
    <2>1. PICK rows, e :
            /\ Inserting(t, rows) /\ Write(t, rows)
            /\ e \in DOMAIN rows /\ rows[e] = NewRow(op[t])
            /\ \A i \in DOMAIN rows \ {e} : rows[i] \in Mirror(NewRow(op[t]))
            /\ \A i \in DOMAIN rows : rows[i] \in Row /\ rows[i].sys_from = now
            /\ Key(rows[e]) = OpKey(t)
            /\ IF Exclusive(rows[e].predicate)
                 THEN /\ pc' = [pc EXCEPT ![t] = "supersede"] /\ edge' = [edge EXCEPT ![t] = e]
                      /\ UNCHANGED op
                 ELSE Finish(t)
      BY <1>5, InsertWrites
    <2>2. UNCHANGED edges
      BY <1>5 DEF Insert, store
    <2>3. \A u \in Txns : u # t => View(u)' = View(u)
      BY <2>1, <2>2, InsertingEvolves
    <2>4. CASE ~Exclusive(rows[e].predicate)
      <3>1. pc'[t] # "supersede"
        BY <2>1, <2>4 DEF Finish, Goto, TypeOK
      <3> QED BY <1>1, <1>5, <2>3, <3>1, OthersKept DEF Statement
    <2>5. CASE Exclusive(rows[e].predicate)
      <3>1. Entering(t)' = {e} /\ OpKey(t)' = OpKey(t)
        BY <2>1, <2>5 DEF Entering, OpKey, TypeOK
      <3>2. /\ DOMAIN View(t)' = DOMAIN View(t) \cup DOMAIN rows
            /\ \A i \in DOMAIN rows : View(t)'[i] = rows[i]
            /\ \A i \in DOMAIN View(t) : View(t)'[i] = View(t)[i]
        BY <2>1, <2>2, InsertingEvolves
      <3>3. \A i \in DOMAIN rows \ {e} : Key(rows[i]) # Key(rows[e])
        <4>1. \A i \in DOMAIN rows \ {e} : ~Exclusive(rows[i].predicate)
          BY <2>1, MirrorRowsPlain
        <4> QED BY <2>5, <4>1 DEF Key
      <3>4. \A i \in DOMAIN View(t) : View(t)[i].sys_from < now
        BY OrderedViews DEF Ordered
      <3>5. Newest(View(t)', e)
        BY <2>1, <3>2, <3>3, <3>4 DEF Newest
      <3>6. \A u \in Txns \ {t} : pc'[u] = pc[u] /\ op'[u] = op[u] /\ edge'[u] = edge[u]
        BY <1>5, OthersKept DEF Statement
      <3>7. ASSUME NEW u \in Txns, u # t
            PROVE  \A i \in Entering(u)' :
                      /\ Key(View(u)'[i]) = OpKey(u)' /\ Exclusive(View(u)'[i].predicate)
                      /\ Newest(View(u)', i)
        BY <2>3, <3>6, <3>7, EnteringKept, SameEvolves
      <3> QED BY <2>1, <2>5, <3>1, <3>2, <3>5, <3>7 DEF EnteringNewest
    <2> QED BY <2>4, <2>5
  <1>6. ASSUME NEW t \in Txns, Commit(t)
        PROVE  EnteringNewest'
    <2>1. Entering(t)' = {}
      BY <1>6 DEF Commit, End, Goto, Entering, TypeOK
    <2>2. ASSUME NEW u \in Txns, u # t
          PROVE  \A i \in Entering(u)' :
                    /\ Key(View(u)'[i]) = OpKey(u)' /\ Exclusive(View(u)'[i].predicate)
                    /\ Newest(View(u)', i)
      <3>1. Evolves(View(u), View(u)')
        BY <1>6, <2>2, CommitMerges
      <3>2. pc'[u] = pc[u] /\ op'[u] = op[u] /\ edge'[u] = edge[u]
        BY <1>6, <2>2, OthersKept
      <3>3. ASSUME pc[u] = "supersede", NEW i \in DOMAIN View(u)' \ DOMAIN View(u),
                   Key(View(u)'[i]) = OpKey(u)
            PROVE  FALSE
        <4>1. i \in Fresh(t) /\ View(u)'[i] = writes[t][i]
          BY <1>6, <2>2, <3>3, CommitViews
        <4>2. Key(View(u)[edge[u]]) = OpKey(u) /\ Exclusive(View(u)[edge[u]].predicate)
          BY <3>3 DEF EnteringNewest, Entering
        <4>3. Exclusive(writes[t][i].predicate)
          BY <3>3, <4>1, <4>2 DEF Key
        <4>4. locks[OpKey(u)] = t
          BY <3>3, <4>1, <4>3 DEF CardinalityInvariant, InsertsLocked
        <4> QED BY <2>2, <3>3, <4>4 DEF LockHeld, Locked
      <3> QED BY <3>1, <3>2, <3>3, EnteringKept
    <2> QED BY <2>1, <2>2 DEF EnteringNewest
  <1>7. ASSUME NEW t \in Txns, Rollback(t) \/ Crash(t) \/ DeadlockVictim(t)
        PROVE  EnteringNewest'
    <2>1. End(t) /\ UNCHANGED store /\ pc'[t] # "supersede"
      BY <1>7 DEF Rollback, Crash, DeadlockVictim, End, Goto, TypeOK
    <2> QED BY <1>1, <1>7, <2>1, AbortViews, OthersKept
  <1>8. CASE UNCHANGED vars
    <2>1. \A u \in Txns : View(u)' = View(u) /\ Entering(u)' = Entering(u) /\ OpKey(u)' = OpKey(u)
      BY <1>8, QuietViews DEF vars, store, Entering, OpKey
    <2> QED BY <2>1 DEF EnteringNewest
  <1> QED BY <1>2, <1>3, <1>4, <1>5, <1>6, <1>7, <1>8 DEF Next, Statement, Quiet

(* The audit rows that explain closures to t: committed, its own, and the  *)
(* one its retraction is about to write.                                   *)
Logged(t) == audit \cup audited[t] \cup Unaudited(t)

(* What t sees closed was closed and explained before, or is explained now. *)
LEMMA ExplainedStays ==
  ASSUME TypeInv, ExplainedInvariant, NEW u \in Txns, Evolves(View(u), View(u)'),
         Logged(u) \subseteq Logged(u)',
         \A e \in DOMAIN View(u)' : ~Live(View(u)'[e]) =>
            \/ e \in DOMAIN View(u) /\ ~Live(View(u)[e])
            \/ Explained(View(u)', Logged(u)', e)
  PROVE  \A e \in DOMAIN View(u)' : ~Live(View(u)'[e]) => Explained(View(u)', Logged(u)', e)
  <1> SUFFICES ASSUME NEW e \in DOMAIN View(u)', e \in DOMAIN View(u), ~Live(View(u)[e])
               PROVE  Explained(View(u)', Logged(u)', e)
    OBVIOUS
  <1>1. Explained(View(u), Logged(u), e)
    BY DEF ExplainedInvariant, Logged
  <1>2. View(u)'[e] = View(u)[e]
    BY ClosedStays DEF ClosedIn
  <1>3. \A i \in DOMAIN View(u) : View(u)[i] \in Row
    BY ViewRows DEF TypeInv
  <1> QED BY <1>1, <1>2, <1>3, ExplainedKept

(* The invariant, from its parts in the next state.                        *)
LEMMA ExplainedParts ==
  ASSUME ExplainedInvariant, UNCHANGED store,
         \A u \in Txns : \A e \in DOMAIN View(u)' :
            ~Live(View(u)'[e]) => Explained(View(u)', Logged(u)', e)
  PROVE  ExplainedInvariant'
  <1>1. ClosuresExplained'
    BY DEF ExplainedInvariant, ClosuresExplained, store
  <1> QED BY <1>1 DEF ExplainedInvariant, Logged

(* A step of t that only closes rows of its view, each one explained.      *)
LEMMA ExplainedClosing ==
  ASSUME TypeInv, ExplainedInvariant, NEW t \in Txns, NEW rows, Closing(t, rows), Write(t, rows),
         UNCHANGED store, Logged(t) \subseteq Logged(t)',
         \A u \in Txns \ {t} : /\ pc'[u] = pc[u] /\ edge'[u] = edge[u]
                               /\ audited'[u] = audited[u],
         \A e \in DOMAIN rows : Explained(View(t)', Logged(t)', e)
  PROVE  ExplainedInvariant'
  <1>1. edges' = edges
    BY DEF store
  <1>2. ASSUME NEW u \in Txns, u # t
        PROVE  \A e \in DOMAIN View(u)' : ~Live(View(u)'[e]) => Explained(View(u)', Logged(u)', e)
    <2>1. View(u)' = View(u) /\ Logged(u)' = Logged(u)
      BY <1>1, <1>2, ClosingEvolves DEF Logged, Unaudited, store
    <2> QED BY <2>1, ExplainedStays, SameEvolves
  <1>3. \A e \in DOMAIN View(t)' : ~Live(View(t)'[e]) => Explained(View(t)', Logged(t)', e)
    <2>1. /\ DOMAIN View(t)' = DOMAIN View(t) /\ Evolves(View(t), View(t)')
          /\ \A e \in DOMAIN View(t) \ DOMAIN rows : View(t)'[e] = View(t)[e]
      BY <1>1, ClosingEvolves
    <2> QED BY <2>1, ExplainedStays
  <1> QED BY <1>2, <1>3, ExplainedParts

LEMMA ExplainedStep ==
  ASSUME TypeInv, AppendInvariant, LockHeld, RowsOrdered, EnteringNewest, ExplainedInvariant,
         [Next]_vars
  PROVE  ExplainedInvariant'
  <1>. TypeOK
    BY DEF TypeInv
  <1>1. ASSUME NEW t \in Txns, UNCHANGED <<store, writes, audited>>, pc[t] # "duplicates",
               \A u \in Txns \ {t} : pc'[u] = pc[u] /\ edge'[u] = edge[u]
        PROVE  ExplainedInvariant'
    <2>1. \A u \in Txns : View(u)' = View(u) /\ Logged(u) \subseteq Logged(u)'
      BY <1>1, QuietViews DEF Logged, Unaudited
    <2>2. \A u \in Txns : \A e \in DOMAIN View(u)' :
            ~Live(View(u)'[e]) => Explained(View(u)', Logged(u)', e)
      BY <2>1, ExplainedStays, SameEvolves
    <2> QED BY <1>1, <2>2, ExplainedParts
  <1>2. ASSUME NEW t \in Txns,
               \/ Call(t) \/ Guard(t) \/ Lock(t) \/ Dedup(t) \/ Contradict(t) \/ JudgeRestCompatible(t)
               \/ Raise(t) /\ (JudgeContradicts(t) \/ Insert(t) \/ Retract(t))
        PROVE  ExplainedInvariant'
    <2>1. pc[t] # "duplicates"
      BY <1>2 DEF Call, AddFact, Propose, Invalidate, Negate, MayStart, Guard, Lock, Dedup,
                  Contradict, JudgeRestCompatible, JudgeContradicts, Insert, Retract
    <2>2. UNCHANGED audited
      BY <1>2 DEF Call, AddFact, Propose, Invalidate, Negate, Guard, Lock, Dedup,
                  Contradict, JudgeRestCompatible, Raise
    <2> QED BY <1>1, <1>2, <2>1, <2>2, QuietSteps, OthersKept DEF Statement
  <1>3. ASSUME NEW t \in Txns, ~Raise(t), JudgeContradicts(t)
        PROVE  ExplainedInvariant'
    <2>1. PICK e, rows :
            /\ e \in todo[t]
            /\ ClosingNow(t, rows) /\ Write(t, rows)
            /\ DOMAIN rows = IF Live(View(t)[e]) THEN {e} ELSE {}
            /\ \A i \in DOMAIN rows : rows[i].invalidated_by = View(t)[i].invalidated_by
            /\ audited' = [audited EXCEPT ![t] = @ \cup {e}]
      BY <1>3, JudgeWrites
    <2>2. UNCHANGED store /\ pc[t] # "duplicates"
      BY <1>3 DEF JudgeContradicts
    <2>3. Logged(t) \subseteq Logged(t)' /\ e \in Logged(t)'
      BY <2>1, <2>2 DEF Logged, Unaudited, store, TypeOK
    <2>4. \A i \in DOMAIN rows : Explained(View(t)', Logged(t)', i)
      <3>1. \A i \in DOMAIN rows : rows[i].invalidated_by = NoEdge /\ i = e
        BY <2>1, OrderedViews DEF ClosingNow, Closing, LiveIds, Ordered
      <3>2. \A i \in DOMAIN rows : View(t)'[i] = rows[i]
        BY <2>1, <2>2, ClosingEvolves DEF ClosingNow, store
      <3> QED BY <2>3, <3>1, <3>2 DEF Explained
    <2> QED BY <1>3, <2>1, <2>2, <2>3, <2>4, OthersKept, ExplainedClosing DEF Statement, ClosingNow
  <1>4. ASSUME NEW t \in Txns, ~Raise(t), Retract(t)
        PROVE  ExplainedInvariant'
    <2>1. PICK e, rows :
            /\ e \in todo[t]
            /\ ClosingNow(t, rows) /\ Write(t, rows)
            /\ DOMAIN rows = IF Live(View(t)[e]) THEN {e} ELSE {}
            /\ \A i \in DOMAIN rows : rows[i].invalidated_by = View(t)[i].invalidated_by
            /\ edge' = [edge EXCEPT ![t] = e]
            /\ pc[t] = "retract" /\ pc' = [pc EXCEPT ![t] = "duplicates"]
            /\ UNCHANGED audited
      BY <1>4, RetractWrites
    <2>2. UNCHANGED store
      BY <1>4 DEF Retract
    <2>3. Logged(t) \subseteq Logged(t)' /\ e \in Logged(t)'
      BY <2>1, <2>2 DEF Logged, Unaudited, store, TypeOK
    <2>4. \A i \in DOMAIN rows : Explained(View(t)', Logged(t)', i)
      <3>1. \A i \in DOMAIN rows : rows[i].invalidated_by = NoEdge /\ i = e
        BY <2>1, OrderedViews DEF ClosingNow, Closing, LiveIds, Ordered
      <3>2. \A i \in DOMAIN rows : View(t)'[i] = rows[i]
        BY <2>1, <2>2, ClosingEvolves DEF ClosingNow, store
      <3> QED BY <2>3, <3>1, <3>2 DEF Explained
    <2> QED BY <1>4, <2>1, <2>2, <2>3, <2>4, OthersKept, ExplainedClosing DEF Statement, ClosingNow
  <1>5. ASSUME NEW t \in Txns, RetractDuplicates(t)
        PROVE  ExplainedInvariant'
    <2>1. PICK rows :
            /\ ClosingNow(t, rows) /\ Write(t, rows)
            /\ \A i \in DOMAIN rows : rows[i].invalidated_by = View(t)[i].invalidated_by
            /\ audited' = [audited EXCEPT ![t] = @ \cup {edge[t]} \cup DOMAIN rows]
      BY <1>5, RetractDuplicatesWrites
    <2>2. UNCHANGED store
      BY <1>5 DEF RetractDuplicates
    <2>3. Logged(t) \subseteq Logged(t)' /\ DOMAIN rows \subseteq Logged(t)'
      BY <2>1, <2>2 DEF Logged, Unaudited, store, TypeOK
    <2>4. \A i \in DOMAIN rows : Explained(View(t)', Logged(t)', i)
      <3>1. \A i \in DOMAIN rows : rows[i].invalidated_by = NoEdge
        BY <2>1, OrderedViews DEF ClosingNow, Closing, LiveIds, Ordered
      <3>2. \A i \in DOMAIN rows : View(t)'[i] = rows[i]
        BY <2>1, <2>2, ClosingEvolves DEF ClosingNow, store
      <3> QED BY <2>3, <3>1, <3>2 DEF Explained
    <2> QED BY <1>5, <2>1, <2>2, <2>3, <2>4, OthersKept, ExplainedClosing DEF Statement, ClosingNow
  <1>6. ASSUME NEW t \in Txns, Supersede(t)
        PROVE  ExplainedInvariant'
    <2> DEFINE n == edge[t]
    <2>1. PICK rows :
            /\ ClosingNow(t, rows) /\ Write(t, rows)
            /\ DOMAIN rows = Superseded(View(t), n)
            /\ \A i \in DOMAIN rows : rows[i].invalidated_by = n
      BY <1>6, SupersedeWrites
    <2>2. UNCHANGED <<store, audited>> /\ pc[t] = "supersede"
      BY <1>6 DEF Supersede
    <2>3. Logged(t) \subseteq Logged(t)'
      BY <2>2 DEF Logged, Unaudited, store
    <2>4. n \in DOMAIN View(t) /\ n # NoEdge /\ Newest(View(t), n)
      BY <2>2, ViewRows, StoreAssumption DEF TypeInv, ControlOK, EnteringNewest, Entering
    <2>5. View(t)[n] \in Row /\ View(t)[n].sys_from < now
      BY <2>4, OrderedViews, ViewRows DEF TypeInv, Ordered
    <2>6. ASSUME NEW i \in DOMAIN rows
          PROVE  Explained(View(t)', Logged(t)', i)
      <3>1. View(t)'[i] = rows[i] /\ View(t)'[n] = View(t)[n] /\ n \in DOMAIN View(t)'
        BY <2>1, <2>2, <2>4, ClosingEvolves DEF ClosingNow, Superseded, store
      <3>2. i \in DOMAIN View(t) \ {n} /\ Key(View(t)[i]) = Key(View(t)[n])
        BY <2>1 DEF Superseded, LiveIds
      <3>3. View(t)[i].sys_from < View(t)[n].sys_from
        BY <2>4, <3>2 DEF Newest
      <3>4. View(t)[i] \in Row
        BY <3>2, ViewRows DEF TypeInv
      <3>5. /\ Key(rows[i]) = Key(View(t)[i]) /\ rows[i].sys_from = View(t)[i].sys_from
            /\ rows[i].sys_to = now /\ rows[i].invalidated_by = n
        BY <2>1, <3>4, ClosesSame DEF ClosingNow, Closing
      <3> QED BY <2>4, <2>5, <3>1, <3>2, <3>3, <3>5 DEF Explained
    <2> QED BY <1>6, <2>1, <2>2, <2>3, <2>6, OthersKept, ExplainedClosing DEF Statement, ClosingNow
  <1>7. ASSUME NEW t \in Txns, ~Raise(t), Insert(t)
        PROVE  ExplainedInvariant'
    <2>1. PICK rows : /\ Inserting(t, rows) /\ Write(t, rows)
                      /\ \A i \in DOMAIN rows : Live(rows[i])
                      /\ UNCHANGED audited
      BY <1>7, InsertWrites
    <2>2. UNCHANGED <<store, edges>> /\ pc[t] # "duplicates"
      BY <1>7 DEF Insert, store
    <2>3. /\ DOMAIN View(t)' = DOMAIN View(t) \cup DOMAIN rows
          /\ \A i \in DOMAIN rows : View(t)'[i] = rows[i]
          /\ \A i \in DOMAIN View(t) : View(t)'[i] = View(t)[i]
          /\ \A u \in Txns : u # t => View(u)' = View(u)
      BY <2>1, <2>2, InsertingEvolves
    <2>4. \A u \in Txns : Logged(u) \subseteq Logged(u)'
      BY <1>7, <2>1, <2>2, OthersKept DEF Statement, Logged, Unaudited, store
    <2>5. Evolves(View(t), View(t)')
      BY <2>3 DEF Evolves
    <2>6. \A e \in DOMAIN View(t)' : ~Live(View(t)'[e]) => Explained(View(t)', Logged(t)', e)
      BY <2>1, <2>3, <2>4, <2>5, ExplainedStays
    <2>7. \A u \in Txns : u # t => \A e \in DOMAIN View(u)' :
            ~Live(View(u)'[e]) => Explained(View(u)', Logged(u)', e)
      BY <2>3, <2>4, ExplainedStays, SameEvolves
    <2> QED BY <2>2, <2>6, <2>7, ExplainedParts
  <1>8. ASSUME NEW t \in Txns, Commit(t)
        PROVE  ExplainedInvariant'
    <2>1. /\ edges' = View(t) /\ audit' = audit \cup audited[t]
          /\ \A u \in Txns : u # t => audited'[u] = audited[u]
          /\ pc[t] = "idle" /\ pc'[t] = "ended"
      BY <1>8 DEF Commit, End, Goto, TypeOK
    <2>2. Logged(t) = audit' /\ \A u \in Txns : u # t => Logged(u) \subseteq Logged(u)' /\ Logged(t) \subseteq Logged(u)'
      BY <1>8, <2>1, OthersKept DEF Logged, Unaudited
    <2>3. \A e \in DOMAIN View(t) : ~Live(View(t)[e]) => Explained(View(t), Logged(t), e)
      BY DEF ExplainedInvariant, Logged
    <2>4. \A e \in DOMAIN edges' : ~Live(edges'[e]) => Explained(edges', audit', e)
      BY <2>1, <2>2, <2>3
    <2>5. \A i \in DOMAIN View(t) : View(t)[i] \in Row
      BY ViewRows DEF TypeInv
    <2>6. ASSUME NEW u \in Txns, u # t
          PROVE  \A e \in DOMAIN View(u)' : ~Live(View(u)'[e]) => Explained(View(u)', Logged(u)', e)
      <3>1. /\ Evolves(View(u), View(u)') /\ Evolves(View(t), View(u)')
            /\ \A e \in DOMAIN View(u)' : \/ e \in DOMAIN View(u) /\ View(u)'[e] = View(u)[e]
                                          \/ e \in DOMAIN View(t) /\ View(u)'[e] = View(t)[e]
        BY <1>8, <2>6, CommitMerges
      <3>2. ASSUME NEW e \in DOMAIN View(t), View(u)'[e] = View(t)[e], ~Live(View(u)'[e])
            PROVE  Explained(View(u)', Logged(u)', e)
        BY <2>2, <2>3, <2>5, <2>6, <3>1, <3>2, ExplainedKept
      <3> QED BY <2>2, <2>6, <3>1, <3>2, ExplainedStays
    <2>7. \A e \in DOMAIN View(t)' : ~Live(View(t)'[e]) => Explained(View(t)', Logged(t)', e)
      <3>1. DOMAIN View(t)' = DOMAIN View(t) /\ \A e \in DOMAIN View(t) : View(t)'[e] = View(t)[e]
        BY <1>8, CommitViews
      <3>2. Logged(t) \subseteq Logged(t)' /\ Evolves(View(t), View(t)')
        BY <2>2, <3>1 DEF Logged, Evolves
      <3> QED BY <3>1, <3>2, ExplainedStays
    <2>8. ClosuresExplained'
      BY <2>4 DEF ClosuresExplained, Explained
    <2> QED BY <2>6, <2>7, <2>8 DEF ExplainedInvariant, Logged
  <1>9. ASSUME NEW t \in Txns, Rollback(t) \/ Crash(t) \/ DeadlockVictim(t)
        PROVE  ExplainedInvariant'
    <2>1. End(t) /\ UNCHANGED store
      BY <1>9 DEF Rollback, Crash, DeadlockVictim
    <2>2. /\ DOMAIN View(t)' = DOMAIN edges /\ \A e \in DOMAIN edges : View(t)'[e] = edges[e]
          /\ \A u \in Txns : u # t => View(u)' = View(u)
      BY <2>1, AbortViews
    <2>3. ASSUME NEW e \in DOMAIN View(t)', ~Live(View(t)'[e])
          PROVE  Explained(View(t)', Logged(t)', e)
      <3>1. Explained(edges, audit, e)
        BY <2>2, <2>3 DEF ExplainedInvariant, ClosuresExplained, Explained
      <3>2. Evolves(edges, View(t)') /\ audit \subseteq Logged(t)'
        BY <2>1, <2>2 DEF Evolves, Logged, store
      <3> QED BY <2>2, <2>3, <3>1, <3>2, ExplainedKept DEF TypeOK
    <2>4. \A u \in Txns : u # t => Logged(u)' = Logged(u)
      BY <1>9, <2>1, OthersKept DEF Logged, Unaudited, store
    <2>5. \A u \in Txns : u # t => \A e \in DOMAIN View(u)' :
            ~Live(View(u)'[e]) => Explained(View(u)', Logged(u)', e)
      BY <2>2, <2>4, ExplainedStays, SameEvolves
    <2> QED BY <2>1, <2>3, <2>5, ExplainedParts
  <1>10. CASE UNCHANGED vars
    <2>1. UNCHANGED store /\ \A u \in Txns : View(u)' = View(u) /\ Logged(u)' = Logged(u)
      BY <1>10, QuietViews DEF vars, store, Logged, Unaudited
    <2>2. \A u \in Txns : \A e \in DOMAIN View(u)' :
            ~Live(View(u)'[e]) => Explained(View(u)', Logged(u)', e)
      BY <2>1, ExplainedStays, SameEvolves
    <2> QED BY <2>1, <2>2, ExplainedParts
  <1> QED BY <1>2, <1>3, <1>4, <1>5, <1>6, <1>7, <1>8, <1>9, <1>10 DEF Next, Statement, Quiet

(* The invariant behind the next theorem: the row that replaces others is  *)
(* the newest of its key until it has replaced them.                       *)
LEMMA EnteringAlways == MirrorsPlain => (Spec => []EnteringNewest)
  <1> SUFFICES ASSUME MirrorsPlain
               PROVE  Spec => []EnteringNewest
    OBVIOUS
  <1>1. Init => EnteringNewest
    BY DEF Init, EnteringNewest, Entering
  <1>2. TypeInv /\ TypeInv' /\ CardinalityInvariant /\ RowsOrdered /\ EnteringNewest /\ [Next]_vars
          => EnteringNewest'
    BY EnteringStep
  <1>3. Spec => []CardinalityInvariant
    BY CardinalityAlways
  <1> QED BY <1>1, <1>2, <1>3, TypeCorrect, SystemTimeRunsForward, PTL DEF Spec

(* Every closure is explained, for every instance in which the trigger     *)
(* never mirrors a fact onto an exclusive predicate: a committed row that  *)
(* is no longer believed names a successor of its subject and predicate    *)
(* that took over before it ended, or its closing is in the audit log.     *)
THEOREM ClosuresAlwaysExplained == MirrorsPlain => (Spec => []ClosuresExplained)
  <1> SUFFICES ASSUME MirrorsPlain
               PROVE  Spec => []ClosuresExplained
    OBVIOUS
  <1>1. Init => ExplainedInvariant
    BY DEF Init, ExplainedInvariant, ClosuresExplained, View, Overlay
  <1>2. TypeInv /\ AppendInvariant /\ LockHeld /\ RowsOrdered /\ EnteringNewest
          /\ ExplainedInvariant /\ [Next]_vars => ExplainedInvariant'
    BY ExplainedStep
  <1>3. ExplainedInvariant => ClosuresExplained
    BY DEF ExplainedInvariant
  <1>4. Spec => []EnteringNewest
    BY EnteringAlways
  <1> QED BY <1>1, <1>2, <1>3, <1>4, TypeCorrect, AppendAlways, LockAlways, SystemTimeRunsForward,
          PTL DEF Spec

-----------------------------------------------------------------------------
(* No fact twice *)

(* A row in flight of a guarded predicate stays under its lock.            *)
LEMMA GuardedStep ==
  ASSUME TypeInv, AppendInvariant, LockHeld, GuardedLocked, [Next]_vars
  PROVE  GuardedLocked'
  <1>. TypeOK
    BY DEF TypeInv
  <1>1. ASSUME UNCHANGED <<store, writes, locks>>
        PROVE  GuardedLocked'
    BY <1>1 DEF GuardedLocked, Fresh, store
  <1>2. ASSUME NEW t \in Txns,
               \/ Call(t) \/ Guard(t) \/ Dedup(t) \/ Contradict(t) \/ JudgeRestCompatible(t)
               \/ Raise(t) /\ (JudgeContradicts(t) \/ Insert(t) \/ Retract(t))
        PROVE  GuardedLocked'
    <2>1. UNCHANGED locks
      BY <1>2 DEF Call, AddFact, Propose, Invalidate, Negate, Guard, Dedup, Contradict,
                  JudgeRestCompatible, JudgeContradicts, Insert, Retract
    <2> QED BY <1>1, <1>2, <2>1, QuietSteps
  <1>3. ASSUME NEW t \in Txns, Lock(t)
        PROVE  GuardedLocked'
    <2>1. /\ OpKey(t) \in Keys /\ UNCHANGED <<store, writes>>
          /\ locks' = [locks EXCEPT ![OpKey(t)] = t] /\ locks[OpKey(t)] \in {NoTxn, t}
      BY <1>3 DEF Lock, Grantable, TypeInv, ControlOK, Adding, OpKey, Keys, Fact
    <2> QED BY <2>1, StoreAssumption DEF GuardedLocked, Fresh, store, TypeOK
  <1>4. ASSUME NEW t \in Txns,
               \/ ~Raise(t) /\ (JudgeContradicts(t) \/ Retract(t))
               \/ Supersede(t) \/ RetractDuplicates(t)
        PROVE  GuardedLocked'
    <2>1. PICK rows : Closing(t, rows) /\ Write(t, rows)
      BY <1>4, JudgeCloses, RetractCloses, SupersedeCloses, RetractDuplicatesCloses
    <2>2. edges' = edges /\ locks' = locks
      BY <1>4 DEF JudgeContradicts, Retract, Supersede, RetractDuplicates, store
    <2>3. /\ \A u \in Txns : u # t => writes'[u] = writes[u]
          /\ DOMAIN writes'[t] = DOMAIN writes[t] \cup DOMAIN rows
          /\ \A e \in DOMAIN rows : writes'[t][e] = rows[e]
          /\ \A e \in DOMAIN writes[t] \ DOMAIN rows : writes'[t][e] = writes[t][e]
      BY <2>1 DEF TypeOK, Write, Overlay
    <2>4. /\ \A e \in DOMAIN writes[t] : View(t)[e] = writes[t][e]
          /\ DOMAIN View(t) = DOMAIN edges \cup DOMAIN writes[t]
      BY DEF View, Overlay
    <2>5. \A e \in DOMAIN rows : /\ e \in DOMAIN View(t)
                                 /\ Key(rows[e]) = Key(View(t)[e])
                                 /\ rows[e].predicate = View(t)[e].predicate
      BY <2>1, ClosesKeepsKey, ViewRows DEF Closing, LiveIds, TypeInv
    <2> QED BY <2>2, <2>3, <2>4, <2>5 DEF GuardedLocked, Fresh
  <1>5. ASSUME NEW t \in Txns, ~Raise(t), Insert(t)
        PROVE  GuardedLocked'
    <2>1. PICK rows, e :
            /\ Inserting(t, rows) /\ Write(t, rows)
            /\ \A i \in DOMAIN rows \ {e} : ~Guarded(rows[i].predicate)
            /\ Key(rows[e]) = OpKey(t) /\ locks[OpKey(t)] = t
      BY <1>5, InsertWrites
    <2>2. edges' = edges /\ locks' = locks
      BY <1>5 DEF Insert, store
    <2>3. /\ \A u \in Txns : u # t => writes'[u] = writes[u]
          /\ DOMAIN writes'[t] = DOMAIN writes[t] \cup DOMAIN rows
          /\ \A i \in DOMAIN rows : writes'[t][i] = rows[i]
          /\ \A i \in DOMAIN writes[t] \ DOMAIN rows : writes'[t][i] = writes[t][i]
      BY <2>1 DEF TypeOK, Write, Overlay
    <2> QED BY <2>1, <2>2, <2>3 DEF GuardedLocked, Fresh
  <1>6. ASSUME NEW t \in Txns, Commit(t) \/ Rollback(t) \/ Crash(t) \/ DeadlockVictim(t)
        PROVE  GuardedLocked'
    <2>1. /\ writes'[t] = << >> /\ locks' = Released(t)
          /\ \A u \in Txns : u # t => writes'[u] = writes[u]
          /\ DOMAIN edges \subseteq DOMAIN edges'
      BY <1>6 DEF Commit, Rollback, Crash, DeadlockVictim, End, store, View, Overlay, TypeOK
    <2> SUFFICES ASSUME NEW u \in Txns, NEW e \in Fresh(u)', Guarded(writes'[u][e].predicate)
                 PROVE  locks'[Key(writes'[u][e])] = u
      BY DEF GuardedLocked
    <2>2. u # t /\ e \in Fresh(u) /\ writes'[u] = writes[u]
      BY <2>1 DEF Fresh
    <2>3. locks[Key(writes[u][e])] = u /\ writes[u][e] \in Row
      BY <2>2 DEF GuardedLocked, Fresh, TypeOK
    <2>4. Key(writes[u][e]) \in Keys
      BY <2>3 DEF Key, Keys, Row
    <2> QED BY <2>1, <2>2, <2>3, <2>4 DEF Released
  <1>7. CASE UNCHANGED vars
    BY <1>1, <1>7 DEF vars, store
  <1> QED BY <1>2, <1>3, <1>4, <1>5, <1>6, <1>7 DEF Next, Statement, Quiet

(* A view in which no row becomes live gains no duplicate, and one without *)
(* copies of a fact keeps none.                                            *)
LEMMA FreeShrinks ==
  ASSUME NEW old, NEW new, LiveIds(new) \subseteq LiveIds(old),
         \A e \in LiveIds(new) : new[e] = old[e]
  PROVE  /\ DuplicateFree(old) => DuplicateFree(new)
         /\ \A f : Duplicates(old, f) = {} => Duplicates(new, f) = {}
  BY DEF DuplicateFree, Duplicates

(* The live rows of an evolved view are those of the old one. *)
LEMMA EvolvedLive ==
  ASSUME NEW old, NEW new, Evolves(old, new), DOMAIN new = DOMAIN old
  PROVE  /\ LiveIds(new) \subseteq LiveIds(old)
         /\ \A e \in LiveIds(new) : new[e] = old[e]
  BY DEF Evolves, LiveIds, Closes

(* What another transaction sees live after a commit it saw live before,   *)
(* or the committed one inserted; and but for its own rows it sees what    *)
(* the committed one saw.                                                  *)
LEMMA CommitLive ==
  ASSUME TypeInv, AppendInvariant, NEW t \in Txns, Commit(t), NEW u \in Txns, u # t
  PROVE  \A x \in LiveIds(View(u)') :
           /\ \/ x \in LiveIds(View(u)) /\ View(u)'[x] = View(u)[x]
              \/ x \in Fresh(t) /\ View(u)'[x] = writes[t][x]
           /\ \/ x \in Fresh(u) /\ View(u)'[x] = writes[u][x]
              \/ x \in LiveIds(View(t)) /\ View(u)'[x] = View(t)[x]
  <1> SUFFICES ASSUME NEW x \in LiveIds(View(u)')
               PROVE  /\ \/ x \in LiveIds(View(u)) /\ View(u)'[x] = View(u)[x]
                         \/ x \in Fresh(t) /\ View(u)'[x] = writes[t][x]
                      /\ \/ x \in Fresh(u) /\ View(u)'[x] = writes[u][x]
                         \/ x \in LiveIds(View(t)) /\ View(u)'[x] = View(t)[x]
    OBVIOUS
  <1>1. x \in DOMAIN View(u)' /\ Live(View(u)'[x])
    BY DEF LiveIds
  <1>2. \/ x \in LiveIds(View(u)) /\ View(u)'[x] = View(u)[x]
        \/ x \in Fresh(t) /\ View(u)'[x] = writes[t][x]
    <2>1. CASE x \in DOMAIN View(u)
      <3>1. View(u)'[x] = View(u)[x] \/ Closes(View(u)[x], View(u)'[x])
        BY <2>1, CommitViews DEF Evolves
      <3> QED BY <1>1, <2>1, <3>1 DEF Closes, LiveIds
    <2>2. CASE x \notin DOMAIN View(u)
      BY <1>1, <2>2, CommitViews
    <2> QED BY <2>1, <2>2
  <1>3. \/ x \in Fresh(u) /\ View(u)'[x] = writes[u][x]
        \/ x \in LiveIds(View(t)) /\ View(u)'[x] = View(t)[x]
    <2>1. edges' = View(t) /\ writes'[u] = writes[u]
      BY CommitViews
    <2>2. CASE x \in DOMAIN writes[u]
      <3>1. View(u)'[x] = writes[u][x]
        BY <2>1, <2>2 DEF View, Overlay
      <3>2. x \notin DOMAIN edges
        BY <1>1, <2>2, <3>1 DEF AppendInvariant, UpdatesClose, Closes
      <3> QED BY <2>2, <3>1, <3>2 DEF Fresh
    <2>3. CASE x \notin DOMAIN writes[u]
      <3>1. x \in DOMAIN View(t) /\ View(u)'[x] = View(t)[x]
        BY <1>1, <2>1, <2>3 DEF View, Overlay
      <3> QED BY <1>1, <3>1 DEF LiveIds
    <2> QED BY <2>2, <2>3
  <1> QED BY <1>2, <1>3

(* No trigger makes rows of a predicate that nothing mirrors.              *)
LEMMA UnmirroredGuarded ==
  ASSUME NEW p, ~Mirrored(p)
  PROVE  Guarded(p)
  BY DEF Mirrored, Guarded

(* Two transactions have no rows of one guarded fact in flight.            *)
LEMMA GuardedApart ==
  ASSUME GuardedLocked, NEW t \in Txns, NEW u \in Txns, t # u,
         NEW x \in Fresh(t), NEW y \in Fresh(u), Guarded(writes[t][x].predicate)
  PROVE  Key(writes[t][x]) # Key(writes[u][y])
  <1>1. Key(writes[t][x]) = Key(writes[u][y]) => writes[u][y].predicate = writes[t][x].predicate
    BY DEF Key
  <1> QED BY <1>1 DEF GuardedLocked

(* Past its dedup query t knows of no copy of its fact. *)
Cleared(t) ==
  pc[t] \in {"contradict", "judge", "insert"} /\ ~Mirrored(op[t].predicate)
    => Duplicates(View(t), op[t]) = {}

(* The invariant, from its parts in the next state. *)
LEMMA DedupParts ==
  ASSUME DuplicateFree(edges)', \A u \in Txns : DuplicateFree(View(u)') /\ Cleared(u)'
  PROVE  DedupInvariant'
  BY DEF DedupInvariant, Deduped, Cleared, DuplicateFree

(* A transaction that sees no new live row and stays past its dedup query. *)
LEMMA ClearedKept ==
  ASSUME DedupInvariant, NEW u \in Txns,
         LiveIds(View(u)') \subseteq LiveIds(View(u)),
         \A e \in LiveIds(View(u)') : View(u)'[e] = View(u)[e],
         pc'[u] \in {"contradict", "judge", "insert"} =>
            pc[u] \in {"contradict", "judge", "insert"} /\ op'[u] = op[u]
  PROVE  DuplicateFree(View(u)') /\ Cleared(u)'
  <1>1. DuplicateFree(View(u)')
    BY FreeShrinks DEF DedupInvariant
  <1>2. Cleared(u)'
    <2> SUFFICES ASSUME pc'[u] \in {"contradict", "judge", "insert"}, ~Mirrored(op'[u].predicate)
                 PROVE  Duplicates(View(u)', op'[u]) = {}
      BY DEF Cleared, Mirrored
    <2>1. Duplicates(View(u), op[u]) = {} /\ op'[u] = op[u]
      BY DEF DedupInvariant, Deduped
    <2> QED BY <2>1, FreeShrinks
  <1> QED BY <1>1, <1>2

(* A committed view and one that stays have no copies between them: what   *)
(* each has inserted of a guarded fact is under its own lock.              *)
LEMMA CommitFree ==
  ASSUME TypeInv, AppendInvariant, LockHeld, GuardedLocked, DedupInvariant,
         NEW t \in Txns, Commit(t), NEW u \in Txns, u # t
  PROVE  DuplicateFree(View(u)') /\ Cleared(u)'
  <1>. TypeOK
    BY DEF TypeInv
  <1>1. DuplicateFree(View(u)) /\ DuplicateFree(View(t))
    BY DEF DedupInvariant
  <1>2. DuplicateFree(View(u)')
    <2> SUFFICES ASSUME NEW a \in LiveIds(View(u)'), NEW b \in LiveIds(View(u)'),
                        SameTriple(View(u)'[a], View(u)'[b]), ~Mirrored(View(u)'[a].predicate),
                        View(u)'[a].sys_from < View(u)'[b].sys_from
                 PROVE  ~ValidAt(View(u)'[a], View(u)'[b].valid_from)
      BY DEF DuplicateFree
    <2>1. Guarded(View(u)'[a].predicate) /\ View(u)'[b].predicate = View(u)'[a].predicate
          /\ Key(View(u)'[a]) = Key(View(u)'[b])
      BY UnmirroredGuarded DEF SameTriple, Key
    \* both were live in u's view, or both in the committed one, or one is new to each
    <2>2. CASE /\ a \in LiveIds(View(u)) /\ View(u)'[a] = View(u)[a]
               /\ b \in LiveIds(View(u)) /\ View(u)'[b] = View(u)[b]
      BY <1>1, <2>2 DEF DuplicateFree
    <2>3. CASE /\ a \in LiveIds(View(t)) /\ View(u)'[a] = View(t)[a]
               /\ b \in LiveIds(View(t)) /\ View(u)'[b] = View(t)[b]
      BY <1>1, <2>3 DEF DuplicateFree
    <2>4. CASE /\ a \in Fresh(t) /\ View(u)'[a] = writes[t][a]
               /\ b \in Fresh(u) /\ View(u)'[b] = writes[u][b]
      BY <2>1, <2>4, GuardedApart
    <2>5. CASE /\ b \in Fresh(t) /\ View(u)'[b] = writes[t][b]
               /\ a \in Fresh(u) /\ View(u)'[a] = writes[u][a]
      BY <2>1, <2>5, GuardedApart
    <2>6. Fresh(t) \cap Fresh(u) = {}
      BY DEF AppendInvariant, WritesApart, Fresh
    <2> QED BY <2>2, <2>3, <2>4, <2>5, <2>6, CommitLive
  <1>3. Cleared(u)'
    <2>1. pc'[u] = pc[u] /\ op'[u] = op[u]
      BY OthersKept
    <2> SUFFICES ASSUME pc[u] \in {"contradict", "judge", "insert"}, ~Mirrored(op[u].predicate),
                        NEW x \in Duplicates(View(u)', op[u])
                 PROVE  FALSE
      BY <2>1 DEF Cleared, Mirrored
    <2>2. x \in LiveIds(View(u)') /\ SameTriple(View(u)'[x], op[u]) /\ ValidAt(View(u)'[x], op[u].valid_from)
      BY DEF Duplicates
    <2>3. CASE x \in LiveIds(View(u)) /\ View(u)'[x] = View(u)[x]
      BY <2>2, <2>3 DEF DedupInvariant, Deduped, Duplicates
    <2>4. CASE x \in Fresh(t) /\ View(u)'[x] = writes[t][x]
      <3>1. Key(writes[t][x]) = OpKey(u) /\ Guarded(writes[t][x].predicate)
        BY <2>2, <2>4, UnmirroredGuarded DEF SameTriple, Key, OpKey
      <3>2. locks[OpKey(u)] = t
        BY <2>4, <3>1 DEF GuardedLocked
      <3> QED BY <3>2 DEF LockHeld, Locked
    <2> QED BY <2>2, <2>3, <2>4, CommitLive
  <1> QED BY <1>2, <1>3

(* A new row is no copy of one that was there: the dedup query found none, *)
(* and the lock has kept others from adding one since.                     *)
LEMMA InsertFree ==
  ASSUME TypeInv, LockHeld, RowsOrdered, DedupInvariant,
         NEW t \in Txns, ~Raise(t), Insert(t)
  PROVE  DuplicateFree(View(t)') /\ pc'[t] \notin {"contradict", "judge", "insert"}
  <1>. TypeOK
    BY DEF TypeInv
  <1>1. PICK rows, e :
          /\ Inserting(t, rows) /\ Write(t, rows)
          /\ e \in DOMAIN rows /\ rows[e] = NewRow(op[t])
          /\ \A i \in DOMAIN rows : /\ rows[i] \in Row /\ rows[i].sys_from = now
          /\ \A i \in DOMAIN rows \ {e} : ~Guarded(rows[i].predicate)
          /\ IF Exclusive(rows[e].predicate)
               THEN pc' = [pc EXCEPT ![t] = "supersede"]
               ELSE Finish(t)
    BY InsertWrites
  <1>2. pc'[t] \notin {"contradict", "judge", "insert"}
    BY <1>1 DEF Finish, Goto, TypeOK
  <1>3. pc[t] = "insert" /\ edges' = edges
    BY DEF Insert, store
  <1>4. /\ DOMAIN View(t)' = DOMAIN View(t) \cup DOMAIN rows
        /\ \A i \in DOMAIN rows : View(t)'[i] = rows[i]
        /\ \A i \in DOMAIN View(t) : View(t)'[i] = View(t)[i]
    BY <1>1, <1>3, InsertingEvolves
  <1>5. now \in Nat /\ \A i \in DOMAIN View(t) : View(t)[i].sys_from < now /\ View(t)[i].sys_from \in Nat
    BY OrderedViews, ViewRows DEF TypeInv, TypeOK, Ordered, Row, Instant
  <1>6. ~Mirrored(op[t].predicate) => Duplicates(View(t), op[t]) = {}
    BY <1>3 DEF DedupInvariant, Deduped
  <1>7. /\ rows[e].subject = op[t].subject /\ rows[e].predicate = op[t].predicate
        /\ rows[e].object = op[t].object /\ rows[e].valid_from = op[t].valid_from
    BY <1>1 DEF NewRow
  <1>8. ASSUME NEW a \in LiveIds(View(t)'), NEW b \in LiveIds(View(t)'),
               SameTriple(View(t)'[a], View(t)'[b]), ~Mirrored(View(t)'[a].predicate),
               View(t)'[a].sys_from < View(t)'[b].sys_from
        PROVE  ~ValidAt(View(t)'[a], View(t)'[b].valid_from)
    <2>1. View(t)'[b].predicate = View(t)'[a].predicate /\ Guarded(View(t)'[b].predicate)
      BY <1>8, UnmirroredGuarded DEF SameTriple, Key
    <2>2. a \notin DOMAIN rows
      BY <1>1, <1>4, <1>5, <1>8 DEF LiveIds
    <2>3. a \in LiveIds(View(t)) /\ View(t)'[a] = View(t)[a]
      BY <1>4, <2>2 DEF LiveIds
    <2>4. CASE b \in DOMAIN rows
      <3>1. b = e
        BY <1>1, <1>4, <2>1, <2>4
      <3>2. ~Mirrored(op[t].predicate)
        BY <1>4, <1>7, <1>8, <2>1, <2>4, <3>1
      <3>3. SameTriple(View(t)[a], op[t])
        <4>1. View(t)'[b] = rows[e]
          BY <1>1, <1>4, <3>1
        <4>2. SameTriple(View(t)[a], rows[e])
          BY <1>8, <2>3, <4>1
        <4> QED BY <1>7, <4>2 DEF SameTriple, Key
      <3> QED BY <1>4, <1>6, <1>7, <2>3, <2>4, <3>1, <3>2, <3>3 DEF Duplicates
    <2>5. CASE b \notin DOMAIN rows
      <3>1. b \in LiveIds(View(t)) /\ View(t)'[b] = View(t)[b]
        BY <1>4, <2>5 DEF LiveIds
      <3> QED BY <1>8, <2>3, <3>1 DEF DedupInvariant, DuplicateFree
    <2> QED BY <2>4, <2>5
  <1> QED BY <1>2, <1>8 DEF DuplicateFree

LEMMA DedupStep ==
  ASSUME TypeInv, AppendInvariant, LockHeld, RowsOrdered, GuardedLocked, DedupInvariant, [Next]_vars
  PROVE  DedupInvariant'
  <1>. TypeOK
    BY DEF TypeInv
  <1> DEFINE Past == {"contradict", "judge", "insert"}
  <1>1. ASSUME NEW t \in Txns, UNCHANGED edges, DuplicateFree(View(t)') /\ Cleared(t)',
               \A u \in Txns \ {t} : View(u)' = View(u) /\ pc'[u] = pc[u] /\ op'[u] = op[u]
        PROVE  DedupInvariant'
    <2>1. DuplicateFree(edges)'
      BY <1>1 DEF DedupInvariant, DuplicateFree
    <2>2. \A u \in Txns \ {t} : DuplicateFree(View(u)') /\ Cleared(u)'
      BY <1>1, ClearedKept
    <2> QED BY <1>1, <2>1, <2>2, DedupParts
  <1>2. ASSUME NEW t \in Txns, UNCHANGED <<store, writes>>,
               pc'[t] \in Past => pc[t] \in Past /\ op'[t] = op[t],
               \A u \in Txns \ {t} : pc'[u] = pc[u] /\ op'[u] = op[u]
        PROVE  DedupInvariant'
    <2>1. edges' = edges /\ \A u \in Txns : View(u)' = View(u)
      BY <1>2, QuietViews
    <2>2. DuplicateFree(View(t)') /\ Cleared(t)'
      BY <1>2, <2>1, ClearedKept
    <2> QED BY <1>1, <1>2, <2>1, <2>2
  <1>3. ASSUME NEW t \in Txns, Call(t)
        PROVE  DedupInvariant'
    <2>1. pc'[t] \notin Past
      BY <1>3 DEF Call, AddFact, Propose, Invalidate, Negate, Finish, Goto, TypeOK
    <2> QED BY <1>2, <1>3, <2>1, QuietSteps, OthersKept
  <1>4. ASSUME NEW t \in Txns,
               \/ Guard(t) \/ Lock(t) \/ Contradict(t) \/ JudgeRestCompatible(t)
               \/ Raise(t) /\ (JudgeContradicts(t) \/ Insert(t) \/ Retract(t))
        PROVE  DedupInvariant'
    <2>1. pc'[t] \in Past => pc[t] \in Past /\ op'[t] = op[t]
      BY <1>4 DEF Guard, Lock, Contradict, JudgeRestCompatible, Raise, Finish, Goto, TypeOK
    <2> QED BY <1>2, <1>4, <2>1, QuietSteps, OthersKept DEF Statement
  <1>5. ASSUME NEW t \in Txns, Dedup(t)
        PROVE  DedupInvariant'
    <2>1. edges' = edges /\ \A u \in Txns : View(u)' = View(u)
      BY <1>5, QuietSteps, QuietViews
    <2>2. DuplicateFree(View(t)')
      BY <2>1 DEF DedupInvariant
    <2>3. Cleared(t)'
      <3>1. CASE Duplicates(View(t), op[t]) # {}
        <4>1. pc'[t] = "idle"
          BY <1>5, <3>1 DEF Dedup, Finish, Goto, TypeOK
        <4> QED BY <4>1 DEF Cleared
      <3>2. CASE Duplicates(View(t), op[t]) = {}
        <4>1. op' = op
          BY <1>5, <3>2 DEF Dedup
        <4> QED BY <2>1, <3>2, <4>1 DEF Cleared
      <3> QED BY <3>1, <3>2
    <2> QED BY <1>1, <1>5, <2>1, <2>2, <2>3, OthersKept DEF Statement
  <1>6. ASSUME NEW t \in Txns,
               \/ ~Raise(t) /\ (JudgeContradicts(t) \/ Retract(t))
               \/ Supersede(t) \/ RetractDuplicates(t)
        PROVE  DedupInvariant'
    <2>1. PICK rows : Closing(t, rows) /\ Write(t, rows)
      BY <1>6, JudgeCloses, RetractCloses, SupersedeCloses, RetractDuplicatesCloses
    <2>2. UNCHANGED edges
      BY <1>6 DEF JudgeContradicts, Retract, Supersede, RetractDuplicates, store
    <2>3. pc'[t] \in Past => pc[t] \in Past /\ op'[t] = op[t]
      BY <1>6 DEF JudgeContradicts, Retract, Supersede, RetractDuplicates, Finish, Goto, TypeOK
    <2>4. /\ LiveIds(View(t)') \subseteq LiveIds(View(t))
          /\ \A e \in LiveIds(View(t)') : View(t)'[e] = View(t)[e]
      BY <2>1, <2>2, ClosingEvolves, EvolvedLive
    <2>5. DuplicateFree(View(t)') /\ Cleared(t)'
      BY <2>3, <2>4, ClearedKept
    <2>6. \A u \in Txns : u # t => View(u)' = View(u)
      BY <2>1, <2>2, ClosingEvolves
    <2> QED BY <1>1, <1>6, <2>2, <2>5, <2>6, OthersKept DEF Statement
  <1>7. ASSUME NEW t \in Txns, ~Raise(t), Insert(t)
        PROVE  DedupInvariant'
    <2>1. DuplicateFree(View(t)') /\ Cleared(t)' /\ UNCHANGED edges
      BY <1>7, InsertFree DEF Cleared, Insert, store
    <2>2. \A u \in Txns : u # t => View(u)' = View(u)
      BY <1>7, <2>1, InsertWrites, InsertingEvolves
    <2> QED BY <1>1, <1>7, <2>1, <2>2, OthersKept DEF Statement
  <1>8. ASSUME NEW t \in Txns, Commit(t)
        PROVE  DedupInvariant'
    <2>1. DuplicateFree(edges)'
      BY <1>8 DEF Commit, DedupInvariant, DuplicateFree
    <2>2. DuplicateFree(View(t)') /\ Cleared(t)'
      <3>1. DOMAIN View(t)' = DOMAIN View(t) /\ \A e \in DOMAIN View(t) : View(t)'[e] = View(t)[e]
        BY <1>8, CommitViews
      <3>2. pc'[t] = "ended"
        BY <1>8 DEF Commit, End, Goto, TypeOK
      <3> QED BY <3>1, <3>2, ClearedKept DEF LiveIds
    <2> QED BY <1>8, <2>1, <2>2, CommitFree, DedupParts
  <1>9. ASSUME NEW t \in Txns, Rollback(t) \/ Crash(t) \/ DeadlockVictim(t)
        PROVE  DedupInvariant'
    <2>1. End(t) /\ UNCHANGED store /\ pc'[t] = "ended"
      BY <1>9 DEF Rollback, Crash, DeadlockVictim, End, Goto, TypeOK
    <2>2. /\ edges' = edges /\ DOMAIN View(t)' = DOMAIN edges
          /\ \A e \in DOMAIN edges : View(t)'[e] = edges[e]
          /\ \A u \in Txns : u # t => View(u)' = View(u)
      BY <2>1, AbortViews
    <2>3. DuplicateFree(View(t)') /\ Cleared(t)'
      BY <2>1, <2>2 DEF DedupInvariant, DuplicateFree, LiveIds, Cleared
    <2> QED BY <1>1, <1>9, <2>2, <2>3, OthersKept
  <1>10. CASE UNCHANGED vars
    <2>1. edges' = edges /\ pc' = pc /\ op' = op /\ \A u \in Txns : View(u)' = View(u)
      BY <1>10, QuietViews DEF vars, store
    <2>2. DuplicateFree(edges)' /\ \A u \in Txns : DuplicateFree(View(u)') /\ Cleared(u)'
      BY <2>1, ClearedKept DEF DedupInvariant, DuplicateFree
    <2> QED BY <2>2, DedupParts
  <1> QED BY <1>3, <1>4, <1>5, <1>6, <1>7, <1>8, <1>9, <1>10 DEF Next, Statement, Quiet

(* The lock covers every row in flight that only an add_fact can insert.   *)
LEMMA GuardedAlways == Spec => []GuardedLocked
  <1>1. Init => GuardedLocked
    BY DEF Init, GuardedLocked, Fresh
  <1>2. TypeInv /\ AppendInvariant /\ LockHeld /\ GuardedLocked /\ [Next]_vars => GuardedLocked'
    BY GuardedStep
  <1> QED BY <1>1, <1>2, TypeCorrect, AppendAlways, LockAlways, PTL DEF Spec

(* What DedupInvariant says of one view holds of all, with what each       *)
(* transaction knows past its dedup query.                                 *)
LEMMA DedupAlways == Spec => []DedupInvariant
  <1>1. Init => DedupInvariant
    BY DEF Init, DedupInvariant, Deduped, DuplicateFree, LiveIds, View, Overlay
  <1>2. TypeInv /\ AppendInvariant /\ LockHeld /\ RowsOrdered /\ GuardedLocked /\ DedupInvariant
          /\ [Next]_vars => DedupInvariant'
    BY DedupStep
  <1> QED BY <1>1, <1>2, TypeCorrect, AppendAlways, LockAlways, SystemTimeRunsForward,
          GuardedAlways, PTL DEF Spec

(* Write-time dedup, for every instance: of a fact that nothing mirrors    *)
(* no committed live row starts inside an earlier live copy, whatever the  *)
(* transactions that add it at the same time.                              *)
THEOREM NoDuplicateAlways == Spec => []NoLiveDuplicate
  <1>1. DedupInvariant => NoLiveDuplicate
    BY DEF DedupInvariant, DuplicateFree, NoLiveDuplicate
  <1> QED BY <1>1, DedupAlways, PTL

-----------------------------------------------------------------------------
(* Review *)

(* If one transaction at a time is open, it is the only one that moves.    *)
LEMMA OneOpens ==
  ASSUME MaxActive <= 1, TypeInv, \A t, u \in Active : t = u, NEW t \in Txns,
         \/ Call(t) \/ Statement(t) \/ Commit(t) \/ Rollback(t) \/ Crash(t) \/ DeadlockVictim(t)
  PROVE  /\ \A u \in Active' : u = t
         /\ \A u \in Active : u = t
         /\ t \notin Active => pc[t] = "new" /\ Call(t)
  <1>. TypeOK
    BY DEF TypeInv
  <1>1. \A u \in Txns \ {t} : pc'[u] = pc[u]
    BY OthersKept
  <1>2. \A u \in Active' : u \in Active \/ u = t
    BY <1>1 DEF Active
  <1>3. CASE t \in Active
    BY <1>2, <1>3
  <1>4. CASE t \notin Active
    <2>1. pc[t] \in {"new", "ended"}
      BY <1>4 DEF Active
    <2>2. Call(t)
      BY <1>4, <2>1 DEF Statement, Guard, Lock, Dedup, Contradict, JudgeContradicts, JudgeRestCompatible,
             Insert, Supersede, Retract, RetractDuplicates, Commit, Rollback, Crash, DeadlockVictim
    <2>3. MayStart(t)
      BY <2>2 DEF Call, AddFact, Propose, Invalidate, Negate
    <2>4. pc[t] = "new" /\ Cardinality(Active) < MaxActive
      BY <2>1, <2>3 DEF MayStart
    <2>5. Active = {}
      <3>1. CASE \E u \in Txns : u \in Active
        <4>1. PICK u \in Txns : Active = {u}
          BY <3>1
        <4>2. Cardinality(Active) = 1
          BY <4>1, FS_Singleton
        <4> QED BY <2>4, <4>2, StoreAssumption
      <3>2. CASE ~\E u \in Txns : u \in Active
        BY <3>2 DEF Active
      <3> QED BY <3>1, <3>2
    <2> QED BY <1>2, <2>2, <2>4, <2>5
  <1> QED BY <1>3, <1>4

(* The rows a view has, and what follows from them, are the same in a      *)
(* function with the same rows.                                            *)
SameRows(old, new) == DOMAIN new = DOMAIN old /\ \A e \in DOMAIN old : new[e] = old[e]

LEMMA SameJustified ==
  ASSUME NEW old, NEW new, SameRows(old, new), Justified(old)
  PROVE  Justified(new)
  BY DEF SameRows, Justified

LEMMA SameBegun ==
  ASSUME NEW old, NEW new, SameRows(old, new), Begun(old), now \in Nat, now' \in Nat, now <= now',
         \A e \in DOMAIN old : old[e].valid_from \in Nat
  PROVE  \A e \in DOMAIN new : new[e].valid_from <= now'
  BY DEF SameRows, Begun

(* Closing a row keeps what may replace it, and what it may replace.       *)
LEMMA ReplaceClosed ==
  ASSUME NEW a \in Row, NEW b, Closes(a, b)
  PROVE  /\ \A f : MayReplace(f, a) => MayReplace(f, b)
         /\ \A row : MayReplace(a, row) => MayReplace(b, row)
  <1>1. /\ b.source_kind = a.source_kind /\ b.object = a.object /\ b.predicate = a.predicate
        /\ b.confidence = a.confidence
    BY DEF Closes, Row
  <1> QED BY <1>1 DEF MayReplace

(* A statement of t that closes rows keeps the rows of its view begun, and *)
(* those with a successor justified, if the rows it closes are.            *)
LEMMA ReviewClosing ==
  ASSUME TypeInv, NEW t \in Txns, NEW rows, Closing(t, rows), Write(t, rows), UNCHANGED store,
         now' \in Nat, now <= now',
         Justified(View(t)), Begun(View(t)),
         \A i \in DOMAIN rows :
            \/ rows[i].invalidated_by = NoEdge
            \/ /\ rows[i].invalidated_by \in DOMAIN View(t)
               /\ MayReplace(View(t)[rows[i].invalidated_by], View(t)[i])
  PROVE  /\ Justified(View(t)') /\ \A e \in DOMAIN View(t)' : View(t)'[e].valid_from <= now'
         /\ LiveIds(View(t)') \subseteq LiveIds(View(t))
         /\ \A e \in LiveIds(View(t)') : View(t)'[e] = View(t)[e]
  <1> DEFINE old == View(t)
             new == View(t)'
  <1>1. /\ DOMAIN new = DOMAIN old /\ \A e \in DOMAIN rows : new[e] = rows[e] /\ Closes(old[e], new[e])
        /\ \A e \in DOMAIN old \ DOMAIN rows : new[e] = old[e]
        /\ DOMAIN rows \subseteq DOMAIN old
    BY ClosingEvolves DEF store, Closing, LiveIds
  <1>2. \A e \in DOMAIN old : old[e] \in Row
    BY ViewRows DEF TypeInv
  <1>3. \A e \in DOMAIN rows : new[e].valid_from = old[e].valid_from /\ ~Live(new[e])
    BY <1>1, <1>2, ClosesSame
  <1>4. \A e, n \in DOMAIN old : MayReplace(old[n], old[e]) => MayReplace(new[n], new[e])
    BY <1>1, <1>2, ReplaceClosed
  <1>5. \A e \in DOMAIN old : /\ old[e].valid_from \in Nat
                              /\ old[e].invalidated_by # NoEdge =>
                                   /\ old[e].invalidated_by \in DOMAIN old
                                   /\ MayReplace(old[old[e].invalidated_by], old[e])
                              /\ old[e].valid_from <= now
    BY <1>2 DEF Justified, Begun, Row, Instant
  <1>6. now \in Nat
    BY DEF TypeInv, TypeOK
  <1> HIDE DEF old, new
  <1>7. \A e \in DOMAIN new : new[e].valid_from <= now'
    BY <1>1, <1>3, <1>5, <1>6
  <1>8. \A e \in DOMAIN new : new[e].invalidated_by # NoEdge =>
            /\ new[e].invalidated_by \in DOMAIN new
            /\ MayReplace(new[new[e].invalidated_by], new[e])
    <2> SUFFICES ASSUME NEW e \in DOMAIN new, new[e].invalidated_by # NoEdge
                 PROVE  /\ new[e].invalidated_by \in DOMAIN new
                        /\ MayReplace(new[new[e].invalidated_by], new[e])
      OBVIOUS
    <2>1. new[e].invalidated_by \in DOMAIN old /\ MayReplace(old[new[e].invalidated_by], old[e])
      <3>1. CASE e \in DOMAIN rows
        BY <1>1, <3>1 DEF old
      <3>2. CASE e \notin DOMAIN rows
        BY <1>1, <1>5, <3>2
      <3> QED BY <3>1, <3>2
    <2> QED BY <1>1, <1>4, <2>1
  <1>9. Justified(new)
    BY <1>8 DEF Justified
  <1>10. LiveIds(new) \subseteq LiveIds(old) /\ \A e \in LiveIds(new) : new[e] = old[e]
    BY <1>1, <1>3 DEF LiveIds
  <1> QED BY <1>7, <1>9, <1>10 DEF old, new

(* The view of every transaction is justified and begun, whether it has    *)
(* written anything or not.                                                *)
LEMMA ReviewedViews ==
  ASSUME TypeInv, ReviewInvariant, NEW t \in Txns
  PROVE  Justified(View(t)) /\ Begun(View(t))
  <1>1. CASE t \in Active
    BY <1>1 DEF ReviewInvariant, Reviewed
  <1>2. CASE t \notin Active
    <2>1. DOMAIN writes[t] = {}
      BY <1>2 DEF ReviewInvariant
    <2>2. SameRows(edges, View(t))
      BY <2>1 DEF SameRows, View, Overlay
    <2>3. Begun(View(t))
      BY <2>2 DEF SameRows, Begun, ReviewInvariant
    <2> QED BY <2>2, <2>3, SameJustified DEF ReviewInvariant
  <1> QED BY <1>1, <1>2

(* A step of t that does not commit keeps the invariant if it keeps t's    *)
(* part of it.                                                             *)
LEMMA ReviewKept ==
  ASSUME MaxActive <= 1, TypeInv, ReviewInvariant, NEW t \in Txns,
         \/ Call(t) \/ Statement(t) \/ Rollback(t) \/ Crash(t) \/ DeadlockVictim(t),
         UNCHANGED edges, now' \in Nat, now <= now',
         \A u \in Txns \ {t} : DOMAIN writes'[u] = DOMAIN writes[u],
         IF t \in Active' THEN Reviewed(t)' ELSE DOMAIN writes'[t] = {}
  PROVE  ReviewInvariant'
  <1>1. /\ \A u \in Active' : u = t
        /\ \A u \in Active : u = t
    BY OneOpens DEF ReviewInvariant
  <1>2. \A u \in Txns \ Active' : DOMAIN writes'[u] = {}
    BY <1>1 DEF ReviewInvariant
  <1>3. \A e \in DOMAIN edges : edges[e].valid_from \in Nat
    BY DEF TypeInv, TypeOK, Row, Instant
  <1>4. Begun(edges)'
    BY <1>3 DEF ReviewInvariant, Begun, TypeInv, TypeOK
  <1>5. Justified(edges)'
    BY DEF ReviewInvariant, Justified
  <1>6. StartTime <= now'
    BY StoreAssumption DEF ReviewInvariant, TypeInv, TypeOK
  <1>7. \A u \in Active' : Reviewed(u)'
    BY <1>1
  <1> QED BY <1>1, <1>2, <1>4, <1>5, <1>6, <1>7 DEF ReviewInvariant

(* The guard of propose_fact lets a fact pass only if it may replace what  *)
(* add_fact would replace: rows that overlap a fact that begins now hold   *)
(* now, and there is one such row at most.                                 *)
LEMMA GuardClears ==
  ASSUME TypeInv, ViewsCompatible, NEW t \in Txns, Reviewed(t), pc[t] = "guard",
         "none" \in Verdicts(View(t), op[t]), NEW f, f = [op[t] EXCEPT !.valid_from = OrNow(@)]
  PROVE  \A e \in LiveIds(View(t)) :
           /\ Key(View(t)[e]) = Key(f) /\ Exclusive(f.predicate) /\ Overlaps(View(t)[e], f)
           => MayReplace(f, View(t)[e])
  <1> DEFINE view == View(t)
             g    == op[t]
  <1>1. g \in Fact /\ g.valid_from = Unset
    BY DEF TypeInv, ControlOK, Reviewed
  <1>2. /\ f.valid_from = now /\ f.predicate = g.predicate /\ f.object = g.object /\ Key(f) = Key(g)
        /\ f.confidence = g.confidence
    BY <1>1 DEF OrNow, Fact, Key
  <1>3. \A e \in DOMAIN view : view[e] \in Row /\ view[e].valid_from <= now
    BY ViewRows DEF TypeInv, Reviewed, Begun
  <1>4. \A a, b \in LiveIds(view) : Compatible(view, a, b)
    BY DEF ViewsCompatible, Entering
  <1>5. now \in Nat
    BY DEF TypeInv, TypeOK
  <1> HIDE DEF view, g
  <1> SUFFICES ASSUME NEW e \in LiveIds(view), Key(view[e]) = Key(f), Exclusive(f.predicate),
                      Overlaps(view[e], f), f.object # view[e].object
               PROVE  f.predicate \notin HighStakes /\ f.confidence >= view[e].confidence + Margin
    BY DEF MayReplace, view
  <1>6. ValidAt(view[e], now)
    BY <1>2, <1>3 DEF Overlaps, ValidAt, LiveIds
  <1>7. e \in Conflicts(view, g)
    BY <1>2, <1>6 DEF Conflicts
  <1>8. PICK c \in Conflicts(view, g) : ContradictionReason(g, view[c]) = "none"
    <2>1. "none" \in Verdicts(view, g)
      BY DEF view, g
    <2>2. "none" \in {ContradictionReason(g, view[c]) : c \in Conflicts(view, g)}
      BY <1>7, <2>1 DEF Verdicts
    <2> QED BY <2>2
  <1>9. c = e
    <2>1. c \in LiveIds(view) /\ Key(view[c]) = Key(g) /\ ValidAt(view[c], now)
      BY <1>8 DEF Conflicts
    <2>2. Overlaps(view[c], view[e])
      <3>1. /\ Before(now, view[c].valid_to) /\ view[c].valid_from <= now
            /\ Before(now, view[e].valid_to) /\ view[e].valid_from <= now
        BY <1>6, <2>1 DEF ValidAt
      <3>2. /\ view[c].valid_from \in Nat /\ view[e].valid_from \in Nat
            /\ view[c].valid_to \in Nat \cup {Infinity} /\ view[e].valid_to \in Nat \cup {Infinity}
        BY <1>3, <2>1 DEF LiveIds, Row, Instant, Endpoint
      <3> QED BY <1>5, <3>1, <3>2 DEF Overlaps, Before
    <2>3. view[c].predicate = f.predicate /\ Key(view[c]) = Key(view[e])
      BY <1>2, <2>1 DEF Key
    <2> QED BY <1>4, <2>1, <2>2, <2>3 DEF Compatible
  <1>10. /\ g.predicate \notin HighStakes /\ ~(g.confidence < view[e].confidence)
         /\ ~(g.confidence < view[e].confidence + Margin)
    BY <1>8, <1>9 DEF ContradictionReason
  <1>11. g.confidence \in Nat /\ view[e].confidence \in Nat /\ Margin \in Nat
    BY <1>1, <1>3, InputAssumption DEF Fact, Row, LiveIds
  <1> QED BY <1>2, <1>10, <1>11

(* A step of t that writes nothing: a fact it is about to add has been     *)
(* cleared, or is cleared by this step, or is by hand.                     *)
LEMMA ReviewedQuiet ==
  ASSUME TypeInv, ReviewInvariant, NEW t \in Txns, UNCHANGED <<store, writes, now>>,
         pc'[t] # "supersede",
         pc'[t] = "guard" => op'[t].valid_from = Unset,
         pc'[t] \in Adding =>
           \/ pc[t] \in Adding \ {"supersede"} /\ op'[t] = op[t] /\ Reviewed(t)
           \/ op'[t].valid_from <= now /\ Allowed(t)'
  PROVE  Reviewed(t)'
  <1>1. View(t)' = View(t) /\ now' = now
    BY QuietViews
  <1>2. Justified(View(t)') /\ Begun(View(t))'
    BY <1>1, ReviewedViews DEF Begun
  <1>3. pc'[t] \in Adding => op'[t].valid_from <= now /\ Allowed(t)'
    <2>1. CASE pc[t] \in Adding \ {"supersede"} /\ op'[t] = op[t] /\ Reviewed(t)
      BY <1>1, <2>1 DEF Reviewed, Allowed, OpKey
    <2> QED BY <2>1
  <1> QED BY <1>1, <1>2, <1>3 DEF Reviewed

LEMMA ReviewCall ==
  ASSUME FactsBegun, TypeInv, ReviewInvariant, NEW t \in Txns, Call(t)
  PROVE  Reviewed(t)' /\ UNCHANGED <<store, writes, now>>
  <1>. TypeOK
    BY DEF TypeInv
  <1>1. UNCHANGED <<store, writes, now>>
    BY QuietSteps DEF Call, AddFact, Propose, Invalidate, Negate
  <1>2. CASE AddFact(t)
    <2>. PICK f \in Facts : /\ f.source_kind = "user"
                            /\ op' = [op EXCEPT ![t] = [f EXCEPT !.valid_from = OrNow(@)]]
                            /\ pc' = [pc EXCEPT ![t] = "lock"]
      BY <1>2 DEF AddFact, Goto
    <2>1. f \in Fact /\ (f.valid_from = Unset \/ f.valid_from <= StartTime)
      BY InputAssumption DEF FactsBegun
    <2>2. op'[t] = [f EXCEPT !.valid_from = OrNow(@)] /\ pc'[t] = "lock"
      BY DEF TypeOK
    <2>3. op'[t].source_kind = "user" /\ op'[t].valid_from = OrNow(f.valid_from)
      BY <2>1, <2>2 DEF Fact
    <2>4. op'[t].valid_from <= now
      <3>1. now \in Nat /\ StartTime <= now /\ StartTime \in Nat /\ f.valid_from \in Nat \cup {Unset}
        BY <2>1, StoreAssumption DEF TypeOK, ReviewInvariant, Fact, Instant
      <3> QED BY <2>1, <2>3, <3>1 DEF OrNow
    <2>5. Allowed(t)'
      BY <2>3 DEF Allowed, MayReplace
    <2> QED BY <1>1, <2>2, <2>4, <2>5, ReviewedQuiet
  <1>3. CASE Propose(t)
    <2>. PICK f \in Facts : /\ f.source_kind = "episode"
                            /\ op' = [op EXCEPT ![t] = f]
                            /\ pc' = [pc EXCEPT ![t] = "guard"]
      BY <1>3 DEF Propose, Goto
    <2>1. op'[t].valid_from = Unset /\ pc'[t] = "guard"
      BY DEF FactsBegun, TypeOK
    <2> QED BY <1>1, <2>1, ReviewedQuiet DEF Adding, Locked
  <1>4. CASE Invalidate(t) \/ Negate(t)
    <2>1. pc'[t] \in {"idle", "retract"}
      BY <1>4 DEF Invalidate, Negate, Finish, Goto, TypeOK
    <2> QED BY <1>1, <2>1, ReviewedQuiet DEF Adding, Locked
  <1> QED BY <1>1, <1>2, <1>3, <1>4 DEF Call

LEMMA ReviewRead ==
  ASSUME TypeInv, ViewsCompatible, ReviewInvariant, NEW t \in Txns,
         Guard(t) \/ Lock(t) \/ Dedup(t) \/ Contradict(t) \/ JudgeRestCompatible(t)
  PROVE  Reviewed(t)' /\ UNCHANGED <<store, writes, now>>
  <1>. TypeOK
    BY DEF TypeInv
  <1>1. UNCHANGED <<store, writes, now>>
    BY QuietSteps DEF Guard, Lock, Dedup, Contradict, JudgeRestCompatible
  <1>2. Reviewed(t)
    <2>1. pc[t] \notin {"new", "ended"}
      BY DEF Guard, Lock, Dedup, Contradict, JudgeRestCompatible
    <2> QED BY <2>1 DEF ReviewInvariant, Active
  <1>3. CASE Guard(t)
    <2>. PICK reason \in Verdicts(View(t), op[t]) :
           IF reason = "none"
             THEN /\ op' = [op EXCEPT ![t].valid_from = OrNow(@)]
                  /\ pc' = [pc EXCEPT ![t] = "lock"]
             ELSE Finish(t)
      BY <1>3 DEF Guard, Goto
    <2>1. CASE reason = "none"
      <3>1. op'[t] = [op[t] EXCEPT !.valid_from = OrNow(@)] /\ pc'[t] = "lock" /\ pc[t] = "guard"
        BY <1>3, <2>1 DEF Guard, TypeOK
      <3>2. View(t)' = View(t)
        BY <1>1, QuietViews
      <3>3. Allowed(t)'
        BY <1>2, <2>1, <3>1, <3>2, GuardClears DEF Allowed, OpKey, Key
      <3>4. op[t] \in Fact /\ op[t].valid_from = Unset /\ now \in Nat
        BY <1>2, <3>1 DEF Reviewed, TypeInv, ControlOK, TypeOK
      <3>5. op'[t].valid_from = now
        BY <3>1, <3>4 DEF OrNow, Fact
      <3>6. op'[t].valid_from <= now
        BY <3>4, <3>5
      <3> QED BY <1>1, <3>1, <3>3, <3>6, ReviewedQuiet
    <2>2. CASE reason # "none"
      <3>1. pc'[t] = "idle"
        BY <2>2 DEF Finish, Goto, TypeOK
      <3> QED BY <1>1, <3>1, ReviewedQuiet DEF Adding, Locked
    <2> QED BY <2>1, <2>2
  <1>4. CASE Lock(t) \/ Dedup(t) \/ Contradict(t) \/ JudgeRestCompatible(t)
    <2>1. /\ pc[t] \in Adding \ {"supersede"} /\ pc'[t] \notin {"guard", "supersede"}
          /\ pc'[t] \in Adding => op'[t] = op[t]
      BY <1>4 DEF Lock, Dedup, Contradict, JudgeRestCompatible, Finish, Goto, TypeOK, Adding, Locked
    <2> QED BY <1>1, <1>2, <2>1, ReviewedQuiet
  <1> QED BY <1>1, <1>3, <1>4

(* A statement of t that closes rows. *)
LEMMA ReviewClose ==
  ASSUME TypeInv, RowsOrdered, ReviewInvariant, NEW t \in Txns,
         ~Raise(t), JudgeContradicts(t) \/ Retract(t) \/ RetractDuplicates(t) \/ Supersede(t)
  PROVE  /\ Reviewed(t)' /\ UNCHANGED store /\ now' \in Nat /\ now <= now'
         /\ \A u \in Txns \ {t} : writes'[u] = writes[u]
  <1>. TypeOK /\ now \in Nat
    BY DEF TypeInv, TypeOK
  <1>1. UNCHANGED store
    BY DEF JudgeContradicts, Retract, RetractDuplicates, Supersede
  <1>2. Reviewed(t) /\ Justified(View(t)) /\ Begun(View(t))
    <2>1. pc[t] \notin {"new", "ended"}
      BY DEF JudgeContradicts, Retract, RetractDuplicates, Supersede
    <2> QED BY <2>1 DEF ReviewInvariant, Active, Reviewed
  <1>3. \A i \in LiveIds(View(t)) : View(t)[i].invalidated_by = NoEdge
    <2>1. \A i \in DOMAIN View(t) : Ordered(View(t)[i], now)
      BY OrderedViews
    <2> QED BY <2>1 DEF Ordered, LiveIds
  <1>4. PICK rows : /\ ClosingNow(t, rows) /\ Write(t, rows)
                    /\ \A i \in DOMAIN rows :
                         \/ rows[i].invalidated_by = NoEdge
                         \/ /\ rows[i].invalidated_by \in DOMAIN View(t)
                            /\ MayReplace(View(t)[rows[i].invalidated_by], View(t)[i])
    <2>1. CASE JudgeContradicts(t)
      <3>. PICK e, rows :
             /\ e \in todo[t]
             /\ ClosingNow(t, rows) /\ Write(t, rows)
             /\ \A i \in DOMAIN rows : /\ rows[i].valid_to = op[t].valid_from
                                       /\ rows[i].invalidated_by = View(t)[i].invalidated_by
        BY <2>1, JudgeWrites
      <3> QED BY <1>3 DEF ClosingNow, Closing
    <2>2. CASE Retract(t)
      <3>. PICK rows : /\ ClosingNow(t, rows) /\ Write(t, rows)
                       /\ \A i \in DOMAIN rows : rows[i].invalidated_by = View(t)[i].invalidated_by
        BY <2>2, RetractWrites
      <3> QED BY <1>3 DEF ClosingNow, Closing
    <2>3. CASE RetractDuplicates(t)
      <3>. PICK rows : /\ ClosingNow(t, rows) /\ Write(t, rows)
                       /\ \A i \in DOMAIN rows : rows[i].invalidated_by = View(t)[i].invalidated_by
        BY <2>3, RetractDuplicatesWrites
      <3> QED BY <1>3 DEF ClosingNow, Closing
    <2>4. CASE Supersede(t)
      <3>1. PICK rows : /\ ClosingNow(t, rows) /\ Write(t, rows)
                        /\ DOMAIN rows = Superseded(View(t), edge[t])
                        /\ \A i \in DOMAIN rows : rows[i].invalidated_by = edge[t]
        BY <2>4, SupersedeWrites
      <3>2. edge[t] \in DOMAIN View(t) /\ Replacing(t)
        BY <1>2, <2>4 DEF Supersede, TypeInv, ControlOK, Reviewed
      <3> QED BY <3>1, <3>2 DEF Replacing
    <2> QED BY <2>1, <2>2, <2>3, <2>4
  <1>5. now' \in Nat /\ now <= now'
    BY <1>4 DEF ClosingNow
  <1>6. /\ Justified(View(t)') /\ \A e \in DOMAIN View(t)' : View(t)'[e].valid_from <= now'
        /\ LiveIds(View(t)') \subseteq LiveIds(View(t))
        /\ \A e \in LiveIds(View(t)') : View(t)'[e] = View(t)[e]
    BY <1>1, <1>2, <1>4, <1>5, ReviewClosing DEF ClosingNow
  <1>7. \A u \in Txns \ {t} : writes'[u] = writes[u]
    BY <1>4 DEF Write
  <1>8. /\ pc'[t] \notin {"guard", "supersede"}
        /\ pc'[t] \in Adding => pc[t] \in Adding \ {"supersede"} /\ op'[t] = op[t]
    BY DEF JudgeContradicts, Retract, RetractDuplicates, Supersede, Finish, Goto, TypeOK, Adding, Locked
  <1>9. pc'[t] \in Adding => op'[t].valid_from <= now' /\ Allowed(t)'
    <2> SUFFICES ASSUME pc[t] \in Adding \ {"supersede"}, op'[t] = op[t]
                 PROVE  op'[t].valid_from <= now' /\ Allowed(t)'
      BY <1>8
    <2>1. op[t].valid_from <= now /\ Allowed(t) /\ op[t].valid_from \in Nat
      BY <1>2 DEF Reviewed, TypeInv, ControlOK, Instant
    <2>2. Allowed(t)'
      BY <1>6, <2>1 DEF Allowed, OpKey
    <2> QED BY <1>5, <2>1, <2>2
  <1>10. Begun(View(t))'
    BY <1>6 DEF Begun
  <1> QED BY <1>1, <1>5, <1>6, <1>7, <1>8, <1>9, <1>10 DEF Reviewed

(* The INSERT of t: its row is younger than those it will close, and those *)
(* are the ones its fact was cleared to replace.                           *)
LEMMA ReviewInsert ==
  ASSUME MirrorsPlain, TypeInv, TypeInv', LockHeld, ReviewInvariant, NEW t \in Txns, ~Raise(t), Insert(t)
  PROVE  /\ Reviewed(t)' /\ UNCHANGED store /\ now' \in Nat /\ now <= now'
         /\ \A u \in Txns \ {t} : writes'[u] = writes[u]
  <1>. TypeOK /\ now \in Nat
    BY DEF TypeInv, TypeOK
  <1>1. UNCHANGED store /\ pc[t] = "insert"
    BY DEF Insert
  <1>2. Reviewed(t)
    BY <1>1 DEF ReviewInvariant, Active
  <1>3. PICK rows, e :
          /\ Inserting(t, rows) /\ Write(t, rows) /\ now' = now + 1
          /\ e \in DOMAIN rows /\ rows[e] = NewRow(op[t])
          /\ {rows[i] : i \in DOMAIN rows \ {e}} = Mirror(NewRow(op[t]))
          /\ \A i \in DOMAIN rows : rows[i] \in Row /\ rows[i].invalidated_by = NoEdge
          /\ IF Exclusive(rows[e].predicate)
               THEN /\ pc' = [pc EXCEPT ![t] = "supersede"] /\ edge' = [edge EXCEPT ![t] = e]
                    /\ UNCHANGED op
               ELSE Finish(t)
    BY InsertWrites
  <1>4. op[t] \in Fact /\ op[t].valid_from \in Nat /\ op[t].valid_from <= now /\ Allowed(t)
    BY <1>1, <1>2 DEF TypeInv, ControlOK, Adding, Locked, Reviewed, Instant
  <1>5. /\ DOMAIN View(t)' = DOMAIN View(t) \cup DOMAIN rows
        /\ \A i \in DOMAIN rows : View(t)'[i] = rows[i]
        /\ \A i \in DOMAIN View(t) : View(t)'[i] = View(t)[i] /\ i \notin DOMAIN rows
    <2>1. edges' = edges
      BY <1>1 DEF store
    <2>2. DOMAIN View(t) \cap DOMAIN rows = {}
      BY <1>3 DEF Inserting, UsedIds, View, Overlay
    <2> QED BY <1>3, <2>1, <2>2, WriteViews
  <1>6. \A i \in DOMAIN rows : /\ rows[i].valid_from = op[t].valid_from
                               /\ i # e => ~Exclusive(rows[i].predicate)
    <2>1. NewRow(op[t]).valid_from = op[t].valid_from /\ NewRow(op[t]) \in Row
      BY <1>3 DEF NewRow
    <2>2. \A r \in Mirror(NewRow(op[t])) : r.valid_from = op[t].valid_from /\ ~Exclusive(r.predicate)
      <3>1. \A p : Swapped(NewRow(op[t]), p).valid_from = op[t].valid_from
        BY <2>1 DEF Swapped, Row
      <3>2. \A r \in Mirror(NewRow(op[t])) : r.valid_from = op[t].valid_from
        BY <3>1 DEF Mirror
      <3> QED BY <2>1, <3>2, MirrorRowsPlain
    <2> QED BY <1>3, <2>1, <2>2
  <1>7. Begun(View(t))'
    <2>1. \A i \in DOMAIN View(t) : View(t)[i].valid_from <= now /\ View(t)[i].valid_from \in Nat
      BY <1>2, ViewRows DEF Reviewed, Begun, Row, Instant
    <2> QED BY <1>3, <1>4, <1>5, <1>6, <2>1 DEF Begun
  <1>8. Justified(View(t)')
    <2>1. Justified(View(t))
      BY <1>2 DEF Reviewed
    <2> QED BY <1>3, <1>5, <2>1 DEF Justified
  <1>9. \A u \in Txns \ {t} : writes'[u] = writes[u]
    BY <1>3 DEF Write
  <1>10. CASE Exclusive(rows[e].predicate)
    <2>1. pc'[t] = "supersede" /\ edge'[t] = e /\ op'[t] = op[t]
      BY <1>3, <1>10 DEF TypeOK
    <2>2. ASSUME NEW i \in Superseded(View(t)', e)
          PROVE  MayReplace(rows[e], View(t)'[i])
      <3>1. /\ i \in LiveIds(View(t)') /\ i # e /\ Key(View(t)'[i]) = Key(rows[e])
            /\ Overlaps(View(t)'[i], rows[e])
        BY <1>3, <1>5, <2>2 DEF Superseded
      <3>2. View(t)'[i].predicate = rows[e].predicate
        BY <3>1 DEF Key
      <3>3. i \in LiveIds(View(t)) /\ View(t)'[i] = View(t)[i]
        BY <1>5, <1>6, <1>10, <3>1, <3>2 DEF LiveIds
      <3>4. /\ Key(rows[e]) = OpKey(t) /\ rows[e].predicate = op[t].predicate
            /\ rows[e].valid_from = op[t].valid_from /\ rows[e].valid_to = op[t].valid_to
            /\ rows[e].source_kind = op[t].source_kind /\ rows[e].object = op[t].object
            /\ rows[e].confidence = op[t].confidence
        BY <1>3 DEF NewRow, Key, OpKey
      <3>5. Overlaps(View(t)[i], op[t])
        BY <3>1, <3>3, <3>4 DEF Overlaps
      <3>6. MayReplace(op[t], View(t)[i])
        BY <1>4, <1>10, <3>1, <3>3, <3>4, <3>5 DEF Allowed
      <3> QED BY <3>3, <3>4, <3>6 DEF MayReplace
    <2>3. Replacing(t)'
      BY <1>3, <1>5, <2>1, <2>2 DEF Replacing
    <2> QED BY <1>1, <1>3, <1>7, <1>8, <1>9, <2>1, <2>3 DEF Reviewed
  <1>11. CASE ~Exclusive(rows[e].predicate)
    <2>1. pc'[t] = "idle"
      BY <1>3, <1>11 DEF Finish, Goto, TypeOK
    <2> QED BY <1>1, <1>3, <1>7, <1>8, <1>9, <2>1 DEF Reviewed, Adding, Locked
  <1> QED BY <1>10, <1>11

LEMMA ReviewStep ==
  ASSUME MaxActive <= 1, FactsBegun, MirrorsPlain, TypeInv, TypeInv', CardinalityInvariant,
         RowsOrdered, ReviewInvariant, [Next]_vars
  PROVE  ReviewInvariant'
  <1>. TypeOK /\ now \in Nat /\ LockHeld /\ ViewsCompatible
    BY DEF TypeInv, TypeOK, CardinalityInvariant
  <1>1. ASSUME NEW t \in Txns, Call(t) \/ Statement(t),
               Reviewed(t)', UNCHANGED store, now' \in Nat, now <= now',
               \A u \in Txns \ {t} : writes'[u] = writes[u]
        PROVE  ReviewInvariant'
    <2>1. t \in Active'
      BY <1>1 DEF Active, Call, AddFact, Propose, Invalidate, Negate, Statement, Guard, Lock, Dedup,
             Contradict, JudgeContradicts, JudgeRestCompatible, Insert, Supersede, Retract,
             RetractDuplicates, Raise, Finish, Goto, TypeOK
    <2> QED BY <1>1, <2>1, ReviewKept DEF store
  <1>2. ASSUME NEW t \in Txns, Call(t)
        PROVE  ReviewInvariant'
    BY <1>1, <1>2, ReviewCall
  <1>3. ASSUME NEW t \in Txns, Guard(t) \/ Lock(t) \/ Dedup(t) \/ Contradict(t) \/ JudgeRestCompatible(t)
        PROVE  ReviewInvariant'
    BY <1>1, <1>3, ReviewRead DEF Statement
  <1>4. ASSUME NEW t \in Txns, Raise(t), JudgeContradicts(t) \/ Insert(t) \/ Retract(t)
        PROVE  ReviewInvariant'
    <2>1. UNCHANGED <<store, writes, now>> /\ pc'[t] = "failed"
      BY <1>4, QuietSteps DEF Raise, Goto, TypeOK
    <2>2. Reviewed(t)'
      BY <2>1, ReviewedQuiet DEF Adding, Locked
    <2> QED BY <1>1, <1>4, <2>1, <2>2 DEF Statement
  <1>5. ASSUME NEW t \in Txns, ~Raise(t),
               JudgeContradicts(t) \/ Retract(t) \/ RetractDuplicates(t) \/ Supersede(t)
        PROVE  ReviewInvariant'
    BY <1>1, <1>5, ReviewClose DEF Statement
  <1>6. ASSUME NEW t \in Txns, ~Raise(t), Insert(t)
        PROVE  ReviewInvariant'
    BY <1>1, <1>6, ReviewInsert DEF Statement
  <1>7. ASSUME NEW t \in Txns, RetractDuplicates(t) \/ Supersede(t)
        PROVE  ~Raise(t)
    BY <1>7 DEF RetractDuplicates, Supersede, Raise, Finish, Goto, TypeOK
  <1>8. ASSUME NEW t \in Txns, Rollback(t) \/ Crash(t) \/ DeadlockVictim(t)
        PROVE  ReviewInvariant'
    <2>1. /\ edges' = edges /\ now' = now /\ pc'[t] = "ended" /\ writes'[t] = << >>
          /\ \A u \in Txns \ {t} : writes'[u] = writes[u]
      BY <1>8 DEF Rollback, Crash, DeadlockVictim, End, Goto, store, TypeOK
    <2>2. t \notin Active'
      BY <2>1 DEF Active
    <2> QED BY <1>8, <2>1, <2>2, ReviewKept
  <1>9. ASSUME NEW t \in Txns, Commit(t)
        PROVE  ReviewInvariant'
    <2>1. /\ edges' = View(t) /\ now' = now /\ pc'[t] = "ended" /\ writes'[t] = << >>
          /\ \A u \in Txns \ {t} : writes'[u] = writes[u]
      BY <1>9 DEF Commit, End, Goto, TypeOK
    <2>2. Active' = {}
      <3>1. \A u \in Active' : u = t
        BY <1>9, OneOpens DEF ReviewInvariant
      <3> QED BY <2>1, <3>1 DEF Active
    <2>3. \A u \in Txns : DOMAIN writes'[u] = {}
      <3>1. \A u \in Active : u = t
        BY <1>9, OneOpens DEF ReviewInvariant
      <3> QED BY <2>1, <3>1 DEF ReviewInvariant
    <2>4. Justified(edges') /\ Begun(edges)'
      BY <2>1, ReviewedViews DEF Begun
    <2>5. StartTime <= now'
      BY <2>1 DEF ReviewInvariant
    <2> QED BY <2>2, <2>3, <2>4, <2>5 DEF ReviewInvariant
  <1>10. CASE UNCHANGED vars
    <2>1. /\ \A t \in Txns : View(t)' = View(t) /\ OpKey(t)' = OpKey(t)
          /\ Active' = Active /\ pc' = pc /\ op' = op /\ edge' = edge /\ now' = now /\ edges' = edges
          /\ writes' = writes
      BY <1>10 DEF vars, View, OpKey, Active
    <2>2. \A t \in Txns : Allowed(t) => Allowed(t)'
      BY <2>1 DEF Allowed
    <2>3. \A t \in Txns : Replacing(t) => Replacing(t)'
      BY <2>1 DEF Replacing
    <2>4. \A t \in Active : Reviewed(t) => Reviewed(t)'
      BY <2>1, <2>2, <2>3 DEF Reviewed, Begun, Active
    <2> QED BY <2>1, <2>4 DEF ReviewInvariant, Begun
  <1> QED BY <1>2, <1>3, <1>4, <1>5, <1>6, <1>7, <1>8, <1>9, <1>10 DEF Next, Statement, Quiet

(* What review protects, for every instance in which transactions run one  *)
(* at a time and no fact begins after it is written: a fact the pipeline   *)
(* wrote on its own has replaced another value only if the predicate is    *)
(* not high-stakes and it is surer by the margin.  Several open            *)
(* transactions break it, as the run edge_review_race shows: the guard of  *)
(* propose_fact reads before add_fact takes the lock.                      *)
THEOREM ReplacementsAlwaysJustified ==
  MaxActive <= 1 /\ FactsBegun /\ MirrorsPlain => (Spec => []AutoReplacementsJustified)
  <1> SUFFICES ASSUME MaxActive <= 1, FactsBegun, MirrorsPlain
               PROVE  Spec => []AutoReplacementsJustified
    OBVIOUS
  <1>1. Init => ReviewInvariant
    BY StoreAssumption DEF Init, ReviewInvariant, Active, Justified, Begun
  <1>2. TypeInv /\ TypeInv' /\ CardinalityInvariant /\ RowsOrdered /\ ReviewInvariant /\ [Next]_vars
          => ReviewInvariant'
    BY ReviewStep
  <1>3. TypeInv /\ ReviewInvariant => AutoReplacementsJustified
    BY StoreAssumption
       DEF ReviewInvariant, Justified, MayReplace, AutoReplacementsJustified, Supersedes, TypeInv, TypeOK
  <1>4. Spec => []CardinalityInvariant
    BY CardinalityAlways
  <1> QED BY <1>1, <1>2, <1>3, <1>4, TypeCorrect, SystemTimeRunsForward, PTL DEF Spec

-----------------------------------------------------------------------------
(***************************************************************************)
(* The edge store implements FactLedger.  With one operation in each       *)
(* transaction (MaxOps = 1) a commit is one whole assertion or retraction, *)
(* and no other step shows.                                                *)
(*                                                                         *)
(* ShapeInvariant of EdgeStoreInvariant says, statement by statement, what *)
(* the operation of a transaction has written.  The steps of other         *)
(* transactions leave that alone, since no two transactions write one row; *)
(* what a commit needs to know of the rows it did not write comes from     *)
(* CardinalityInvariant and from the locks.                                *)
(***************************************************************************)
-----------------------------------------------------------------------------
(* Steps of other transactions *)

(* What t has written and the committed rows under it stand, t itself does *)
(* not move, and its view evolves.                                         *)
Standing(t) ==
  /\ pc'[t] = pc[t] /\ op'[t] = op[t] /\ ops'[t] = ops[t]
  /\ edge'[t] = edge[t] /\ todo'[t] = todo[t]
  /\ writes'[t] = writes[t]
  /\ \A e \in DOMAIN writes[t] : /\ e \in DOMAIN edges' <=> e \in DOMAIN edges
                                 /\ e \in DOMAIN edges => edges'[e] = edges[e]
  /\ Evolves(View(t), View(t)')
  /\ \A e \in Fresh(t) : ~Mirrored(writes[t][e].predicate) =>
       Duplicates(View(t)', writes[t][e]) \subseteq Duplicates(View(t), writes[t][e])

(* The rows t has written, and those it has selected, are in its view.     *)
LEMMA WrittenRows ==
  ASSUME TypeInv, NEW t \in Txns
  PROVE  /\ \A e \in DOMAIN writes[t] : /\ e \in DOMAIN View(t) /\ View(t)[e] = writes[t][e]
                                        /\ writes[t][e] \in Row
         /\ \A e \in DOMAIN edges \ DOMAIN writes[t] : View(t)[e] = edges[e]
         /\ DOMAIN View(t) = DOMAIN edges \cup DOMAIN writes[t]
         /\ \A e \in DOMAIN View(t) : View(t)[e] \in Row
         /\ Retracted(t) \subseteq DOMAIN View(t)
  <1>1. /\ \A e \in DOMAIN writes[t] : e \in DOMAIN View(t) /\ View(t)[e] = writes[t][e]
        /\ \A e \in DOMAIN edges \ DOMAIN writes[t] : View(t)[e] = edges[e]
        /\ DOMAIN View(t) = DOMAIN edges \cup DOMAIN writes[t]
    BY DEF View, Overlay
  <1>2. \A e \in DOMAIN View(t) : View(t)[e] \in Row
    BY ViewRows DEF TypeInv
  <1>3. Retracted(t) \subseteq DOMAIN View(t)
    BY <1>1 DEF Retracted, Unaudited, TypeInv, ControlOK
  <1> QED BY <1>1, <1>2, <1>3

LEMMA FreshStands ==
  ASSUME NEW t \in Txns, Standing(t)
  PROVE  Fresh(t)' = Fresh(t) /\ DOMAIN writes'[t] \cap DOMAIN edges' = DOMAIN writes[t] \cap DOMAIN edges
  BY DEF Standing, Fresh

LEMMA AssertingStands ==
  ASSUME NEW t \in Txns, Standing(t), NEW e, Asserting(t, e)
  PROVE  Asserting(t, e)'
  <1> DEFINE new == writes[t][e]
  <1>1. writes'[t] = writes[t] /\ Fresh(t)' = Fresh(t)
        /\ DOMAIN writes'[t] \cap DOMAIN edges' = DOMAIN writes[t] \cap DOMAIN edges
    BY FreshStands DEF Standing
  <1>2. \A a \in DOMAIN writes[t] \cap DOMAIN edges : edges'[a] = edges[a]
    BY DEF Standing
  <1>3. e \in Fresh(t)
    BY DEF Asserting
  <1>4. ~Mirrored(new.predicate) => Duplicates(View(t)', new) \subseteq {e}
    BY <1>3 DEF Asserting, Standing
  <1>5. /\ e \in Fresh(t)'
        /\ \A m \in Fresh(t)' : Live(writes'[t][m])
        /\ {writes'[t][m] : m \in Fresh(t)' \ {e}} = Mirror(writes'[t][e])
    BY <1>1 DEF Asserting
  <1>6. \A a \in DOMAIN writes'[t] \cap DOMAIN edges' :
          /\ Key(edges'[a]) = Key(new)
          /\ \/ /\ Exclusive(new.predicate) /\ Overlaps(edges'[a], new)
                /\ writes'[t][a].invalidated_by = e
                /\ writes'[t][a].valid_to = edges'[a].valid_to
                /\ new.sys_from < writes'[t][a].sys_to
             \/ /\ new.predicate \in HighStakes
                /\ writes'[t][a].invalidated_by = NoEdge
                /\ writes'[t][a].valid_to = new.valid_from
    BY <1>1, <1>2 DEF Asserting
  <1> QED BY <1>1, <1>4, <1>5, <1>6 DEF Asserting

LEMMA ShapeStands ==
  ASSUME TypeInv, NEW t \in Txns, Standing(t), Shape(t)
  PROVE  Shape(t)'
  <1>1. /\ pc'[t] = pc[t] /\ op'[t] = op[t] /\ ops'[t] = ops[t] /\ todo'[t] = todo[t]
        /\ edge'[t] = edge[t] /\ writes'[t] = writes[t]
        /\ OpKey(t)' = OpKey(t) /\ Retracted(t)' = Retracted(t)
    BY DEF Standing, OpKey, Retracted, Unaudited
  <1>2. Contradicting(t) => Contradicting(t)'
    BY <1>1 DEF Contradicting, Standing
  <1>3. Retracting(t) => Retracting(t)'
    BY <1>1 DEF Retracting, Standing
  <1>4. \A e \in DOMAIN View(t) : Key(View(t)'[e]) = Key(View(t)[e])
    <2>1. Evolves(View(t), View(t)')
      BY DEF Standing
    <2>2. \A e \in DOMAIN View(t) : View(t)[e] \in Row
      BY WrittenRows
    <2> QED BY <2>1, <2>2, EvolvedRows
  <1>5. todo[t] \subseteq DOMAIN View(t) /\ Retracted(t) \subseteq DOMAIN View(t)
    BY WrittenRows DEF TypeInv, ControlOK
  <1>6. (\E e \in Fresh(t) : Asserting(t, e)) => \E e \in Fresh(t)' : Asserting(t, e)'
    BY AssertingStands, FreshStands
  <1>7. pc[t] = "supersede" => Asserting(t, edge[t])'
    BY <1>1, AssertingStands DEF Shape
  <1> QED BY <1>1, <1>2, <1>3, <1>4, <1>5, <1>6, <1>7 DEF Shape

(* A statement or the end without commit of another transaction.           *)
LEMMA OthersStand ==
  ASSUME TypeInv, NEW t \in Txns, NEW u \in Txns, u # t,
         Call(t) \/ Statement(t) \/ Rollback(t) \/ Crash(t) \/ DeadlockVictim(t),
         edges' = edges, writes'[u] = writes[u], View(u)' = View(u)
  PROVE  Standing(u)
  <1>1. /\ pc'[u] = pc[u] /\ op'[u] = op[u] /\ ops'[u] = ops[u]
        /\ edge'[u] = edge[u] /\ todo'[u] = todo[u]
    BY OthersKept DEF TypeInv
  <1>2. Evolves(View(u), View(u)')
    BY SameEvolves
  <1> QED BY <1>1, <1>2 DEF Standing

(* A commit of another transaction: it has not written what u has, and has *)
(* no copy of what u has inserted under its lock.                          *)
LEMMA CommitStands ==
  ASSUME TypeInv, AppendInvariant, GuardedLocked, NEW t \in Txns, Commit(t), NEW u \in Txns, u # t
  PROVE  Standing(u)
  <1>1. /\ pc'[u] = pc[u] /\ op'[u] = op[u] /\ ops'[u] = ops[u]
        /\ edge'[u] = edge[u] /\ todo'[u] = todo[u]
    BY OthersKept DEF TypeInv
  <1>2. edges' = View(t) /\ writes'[u] = writes[u] /\ Evolves(View(u), View(u)')
    BY CommitViews
  <1>3. \A e \in DOMAIN writes[u] : /\ e \in DOMAIN edges' <=> e \in DOMAIN edges
                                    /\ e \in DOMAIN edges => edges'[e] = edges[e]
    <2>1. DOMAIN writes[u] \cap DOMAIN writes[t] = {}
      BY DEF AppendInvariant, WritesApart
    <2> QED BY <1>2, <2>1 DEF View, Overlay
  <1>4. ASSUME NEW e \in Fresh(u), ~Mirrored(writes[u][e].predicate),
               NEW x \in Duplicates(View(u)', writes[u][e])
        PROVE  x \in Duplicates(View(u), writes[u][e])
    <2>1. /\ x \in LiveIds(View(u)') /\ SameTriple(View(u)'[x], writes[u][e])
          /\ ValidAt(View(u)'[x], writes[u][e].valid_from)
      BY <1>4 DEF Duplicates
    <2>2. CASE x \in LiveIds(View(u)) /\ View(u)'[x] = View(u)[x]
      BY <2>1, <2>2 DEF Duplicates
    <2>3. CASE x \in Fresh(t) /\ View(u)'[x] = writes[t][x]
      <3>1. Key(writes[u][e]) = Key(writes[t][x])
        BY <2>1, <2>3 DEF SameTriple
      <3> QED BY <1>4, <2>3, <3>1, UnmirroredGuarded, GuardedApart
    <2> QED BY <2>1, <2>2, <2>3, CommitLive
  <1> QED BY <1>1, <1>2, <1>3, <1>4 DEF Standing

-----------------------------------------------------------------------------
(* Steps of the transaction itself *)

(* With one operation, a transaction starts it before it has written.      *)
LEMMA FirstOperation ==
  ASSUME MaxOps = 1, TypeInv, NEW t \in Txns, Shape(t), MayStart(t)
  PROVE  pc[t] = "new" /\ DOMAIN writes[t] = {}
  BY DEF MayStart, Shape, TypeInv, TypeOK

(* A transaction that has written nothing has retracted nothing.           *)
LEMMA NothingWritten ==
  ASSUME NEW t \in Txns, DOMAIN writes[t] = {}
  PROVE  Contradicting(t) /\ Retracting(t)
  BY DEF Contradicting, Retracting

LEMMA ShapeCall ==
  ASSUME MaxOps = 1, TypeInv, NEW t \in Txns, Shape(t), Call(t)
  PROVE  Shape(t)'
  <1>. TypeOK
    BY DEF TypeInv
  <1>1. DOMAIN writes[t] = {} /\ MayStart(t)
    BY FirstOperation DEF Call, AddFact, Propose, Invalidate, Negate
  <1>2. DOMAIN writes'[t] = {} /\ Contradicting(t)' /\ Retracting(t)'
    BY <1>1, QuietSteps DEF Contradicting, Retracting
  <1>3. CASE AddFact(t) \/ Propose(t)
    <2>1. pc'[t] \in {"lock", "guard"}
      BY <1>3 DEF AddFact, Propose, Goto, TypeOK
    <2> QED BY <1>2, <2>1 DEF Shape
  <1>4. CASE Invalidate(t)
    <2>1. pc'[t] = "retract" /\ \A a, b \in todo'[t] : a = b
      BY <1>4 DEF Invalidate, Goto, TypeOK
    <2> QED BY <1>2, <2>1 DEF Shape, Retracted, Unaudited
  <1>5. CASE Negate(t)
    <2>1. PICK n \in Negations :
            LET matching == MatchingLive(View(t), n)
            IN IF matching = {}
                 THEN Finish(t)
                 ELSE todo' = [todo EXCEPT ![t] = matching] /\ Goto(t, "retract")
      BY <1>5 DEF Negate
    <2>2. CASE MatchingLive(View(t), n) = {}
      <3>1. pc'[t] = "idle" /\ ops'[t] > 0
        BY <2>1, <2>2 DEF Finish, Goto, TypeOK
      <3> QED BY <1>2, <3>1 DEF Shape
    <2>3. CASE MatchingLive(View(t), n) # {}
      <3>1. pc'[t] = "retract" /\ todo'[t] = MatchingLive(View(t), n)
        BY <2>1, <2>3 DEF Goto, TypeOK
      <3>2. \A a \in todo'[t] : Key(View(t)[a]) = Key(n)
        BY <3>1 DEF MatchingLive
      <3>3. View(t)' = View(t)
        BY QuietSteps, QuietViews
      <3>4. Retracted(t)' = todo'[t]
        BY <1>2, <3>1 DEF Retracted, Unaudited
      <3> QED BY <1>2, <3>1, <3>2, <3>3, <3>4 DEF Shape
    <2> QED BY <2>2, <2>3
  <1> QED BY <1>3, <1>4, <1>5 DEF Call

LEMMA ShapeRead ==
  ASSUME TypeInv, NEW t \in Txns, Shape(t),
         Guard(t) \/ Lock(t) \/ Dedup(t) \/ Contradict(t) \/ JudgeRestCompatible(t)
  PROVE  Shape(t)'
  <1>. TypeOK
    BY DEF TypeInv
  <1>1. writes' = writes /\ edges' = edges /\ View(t)' = View(t)
    BY QuietSteps, QuietViews
  <1>2. CASE Guard(t) \/ Lock(t) \/ Dedup(t) \/ Contradict(t)
    <2>1. DOMAIN writes'[t] = {}
      BY <1>1, <1>2 DEF Shape, Guard, Lock, Dedup, Contradict
    <2>2. Contradicting(t)' /\ Retracting(t)'
      BY <2>1 DEF Contradicting, Retracting
    <2>3. CASE Guard(t)
      <3>1. pc'[t] = "lock" \/ (pc'[t] = "idle" /\ ops'[t] > 0)
        BY <2>3 DEF Guard, Finish, Goto, TypeOK
      <3> QED BY <2>1, <2>2, <3>1 DEF Shape
    <2>4. CASE Lock(t)
      <3>1. pc'[t] = "dedup"
        BY <2>4 DEF Lock, Goto, TypeOK
      <3> QED BY <2>1, <3>1 DEF Shape
    <2>5. CASE Dedup(t)
      <3>1. \/ pc'[t] = "idle" /\ ops'[t] > 0
            \/ pc'[t] = "contradict" /\ op'[t].predicate \in HighStakes
            \/ pc'[t] = "insert"
        BY <2>5 DEF Dedup, Finish, Goto, TypeOK
      <3> QED BY <2>1, <2>2, <3>1 DEF Shape
    <2>6. CASE Contradict(t)
      <3>1. /\ pc'[t] \in {"judge", "insert"} /\ op' = op
            /\ \A e \in todo'[t] : Key(View(t)[e]) = OpKey(t)
        BY <2>6 DEF Contradict, Goto, TypeOK
      <3>2. op'[t].predicate \in HighStakes /\ OpKey(t)' = OpKey(t)
        BY <2>6, <3>1 DEF Shape, Contradict, OpKey
      <3> QED BY <1>1, <2>2, <3>1, <3>2 DEF Shape
    <2> QED BY <1>2, <2>3, <2>4, <2>5, <2>6
  <1>3. CASE JudgeRestCompatible(t)
    <2>1. pc[t] = "judge" /\ pc'[t] = "insert" /\ op' = op
      BY <1>3 DEF JudgeRestCompatible, Goto, TypeOK
    <2>2. Contradicting(t)'
      BY <1>1, <2>1 DEF Shape, Contradicting, OpKey
    <2> QED BY <2>1, <2>2 DEF Shape
  <1> QED BY <1>2, <1>3

(* A closure keeps the rows written before it and adds its own.            *)
LEMMA WrittenAfter ==
  ASSUME TypeInv, NEW t \in Txns, NEW rows, Write(t, rows)
  PROVE  /\ DOMAIN writes'[t] = DOMAIN writes[t] \cup DOMAIN rows
         /\ \A e \in DOMAIN rows : writes'[t][e] = rows[e]
         /\ \A e \in DOMAIN writes[t] \ DOMAIN rows : writes'[t][e] = writes[t][e]
  BY DEF TypeInv, TypeOK, Write, Overlay

(* A live row t sees and has not inserted is a committed one, as it was.   *)
LEMMA CommittedRow ==
  ASSUME TypeInv, AppendInvariant, NEW t \in Txns, NEW e \in LiveIds(View(t)), e \notin Fresh(t)
  PROVE  e \in DOMAIN edges /\ View(t)[e] = edges[e] /\ e \notin DOMAIN writes[t]
  <1>1. e \in DOMAIN edges
    BY WrittenRows DEF LiveIds, Fresh
  <1>2. e \notin DOMAIN writes[t]
    <2>1. \A i \in DOMAIN writes[t] \cap DOMAIN edges : ~Live(writes[t][i])
      BY DEF AppendInvariant, UpdatesClose, Closes
    <2> QED BY <1>1, <2>1, WrittenRows DEF LiveIds
  <1> QED BY <1>1, <1>2, WrittenRows

LEMMA ShapeJudge ==
  ASSUME TypeInv, AppendInvariant, RowsOrdered, NEW t \in Txns, Shape(t), ~Raise(t), JudgeContradicts(t)
  PROVE  Shape(t)'
  <1>. TypeOK
    BY DEF TypeInv
  <1>1. PICK e, rows :
          /\ e \in todo[t]
          /\ ClosingNow(t, rows) /\ Write(t, rows)
          /\ DOMAIN rows = IF Live(View(t)[e]) THEN {e} ELSE {}
          /\ \A i \in DOMAIN rows : /\ rows[i].valid_to = op[t].valid_from
                                    /\ rows[i].invalidated_by = View(t)[i].invalidated_by
    BY JudgeWrites
  <1>2. /\ pc[t] = "judge" /\ pc'[t] \in {"judge", "insert"}
        /\ op' = op /\ edges' = edges /\ todo'[t] \subseteq todo[t]
    BY DEF JudgeContradicts, store, Goto, TypeOK
  <1>3. /\ Contradicting(t) /\ op[t].predicate \in HighStakes
        /\ \A i \in todo[t] : Key(View(t)[i]) = OpKey(t)
    BY <1>2 DEF Shape
  <1>4. \A i \in DOMAIN rows : /\ i \in DOMAIN edges /\ Key(edges[i]) = OpKey(t)
                               /\ rows[i].invalidated_by = NoEdge
    <2>1. \A i \in DOMAIN rows : i = e /\ i \in LiveIds(View(t))
      BY <1>1 DEF ClosingNow, Closing
    <2>2. Fresh(t) = {}
      BY <1>3 DEF Contradicting, Fresh
    <2>3. \A i \in DOMAIN rows : i \in DOMAIN edges /\ Key(edges[i]) = OpKey(t)
      BY <1>1, <1>3, <2>1, <2>2, CommittedRow
    <2>4. \A i \in DOMAIN rows : View(t)[i].invalidated_by = NoEdge
      BY <2>1, OrderedViews DEF Ordered, LiveIds
    <2> QED BY <1>1, <2>3, <2>4
  <1>5. Contradicting(t)'
    <2>1. OpKey(t)' = OpKey(t)
      BY <1>2 DEF OpKey
    <2> QED BY <1>1, <1>2, <1>3, <1>4, <2>1, WrittenAfter DEF Contradicting
  <1>6. \A i \in todo'[t] : Key(View(t)'[i]) = OpKey(t)'
    <2>1. Evolves(View(t), View(t)')
      BY <1>1, <1>2, ClosingEvolves DEF ClosingNow
    <2>2. todo[t] \subseteq DOMAIN View(t) /\ OpKey(t)' = OpKey(t)
      BY <1>2 DEF TypeInv, ControlOK, OpKey
    <2>3. \A i \in DOMAIN View(t) : View(t)[i] \in Row
      BY WrittenRows
    <2>4. \A i \in DOMAIN View(t) : Key(View(t)'[i]) = Key(View(t)[i])
      BY <2>1, <2>3, EvolvedRows
    <2> QED BY <1>2, <1>3, <2>2, <2>4
  <1> QED BY <1>2, <1>3, <1>5, <1>6 DEF Shape

(* The rows a retraction closes are among those it selected, or copies of  *)
(* the one it has closed: one key for all.                                 *)
LEMMA RetractingGrows ==
  ASSUME TypeInv, AppendInvariant, RowsOrdered, NEW t \in Txns, Retracting(t),
         NEW rows, Closing(t, rows), Write(t, rows), UNCHANGED edges,
         \A i \in DOMAIN rows : rows[i].invalidated_by = View(t)[i].invalidated_by,
         NEW k, \A a \in Retracted(t) \cup DOMAIN rows : Key(View(t)[a]) = k,
         Retracted(t)' \subseteq Retracted(t) \cup DOMAIN rows
  PROVE  /\ Retracting(t)'
         /\ \A a, b \in Retracted(t)' : Key(View(t)'[a]) = Key(View(t)'[b])
  <1>1. /\ \A i \in DOMAIN rows : i \in LiveIds(View(t))
        /\ Fresh(t) = {}
    BY DEF Closing, Retracting, Fresh
  <1>2. \A i \in DOMAIN rows : i \in DOMAIN edges /\ rows[i].invalidated_by = NoEdge
    <2>1. \A i \in DOMAIN rows : View(t)[i].invalidated_by = NoEdge
      BY <1>1, OrderedViews DEF Ordered, LiveIds
    <2> QED BY <1>1, <2>1, CommittedRow
  <1>3. Retracted(t) \cup DOMAIN rows \subseteq DOMAIN View(t)
    BY <1>1, WrittenRows DEF LiveIds
  <1>4. \A a \in Retracted(t) \cup DOMAIN rows : Key(View(t)'[a]) = k
    <2>1. Evolves(View(t), View(t)')
      BY ClosingEvolves
    <2>2. \A i \in DOMAIN View(t) : View(t)[i] \in Row
      BY WrittenRows
    <2> QED BY <1>3, <2>1, <2>2, EvolvedRows
  <1>5. DOMAIN writes'[t] = DOMAIN writes[t] \cup DOMAIN rows
    BY WrittenAfter
  <1>6. \A a \in DOMAIN writes'[t] : Key(writes'[t][a]) = k
    <2>1. \A a \in DOMAIN writes'[t] : View(t)'[a] = writes'[t][a]
      BY DEF View, Overlay
    <2>2. DOMAIN writes'[t] \subseteq Retracted(t) \cup DOMAIN rows
      BY <1>5 DEF Retracted
    <2> QED BY <1>4, <2>1, <2>2
  <1>7. /\ DOMAIN writes'[t] \subseteq DOMAIN edges'
        /\ \A a \in DOMAIN writes'[t] : writes'[t][a].invalidated_by = NoEdge
    BY <1>2, <1>5, WrittenAfter DEF Retracting
  <1> QED BY <1>4, <1>6, <1>7 DEF Retracting

LEMMA ShapeRetract ==
  ASSUME TypeInv, AppendInvariant, RowsOrdered, NEW t \in Txns, Shape(t), ~Raise(t), Retract(t)
  PROVE  Shape(t)'
  <1>. TypeOK
    BY DEF TypeInv
  <1>1. PICK e, rows :
          /\ e \in todo[t]
          /\ ClosingNow(t, rows) /\ Write(t, rows)
          /\ DOMAIN rows = IF Live(View(t)[e]) THEN {e} ELSE {}
          /\ \A i \in DOMAIN rows : rows[i].invalidated_by = View(t)[i].invalidated_by
          /\ edge' = [edge EXCEPT ![t] = e]
          /\ todo' = [todo EXCEPT ![t] = @ \ {e}]
          /\ pc[t] = "retract" /\ pc' = [pc EXCEPT ![t] = "duplicates"]
    BY RetractWrites
  <1>2. edges' = edges /\ pc'[t] = "duplicates" /\ edge'[t] = e /\ todo'[t] = todo[t] \ {e}
    BY <1>1 DEF Retract, store, TypeOK
  <1>3. Retracting(t) /\ \A a, b \in Retracted(t) : Key(View(t)[a]) = Key(View(t)[b])
    BY <1>1 DEF Shape
  <1>4. DOMAIN rows \subseteq Retracted(t) /\ e \in Retracted(t)
    BY <1>1 DEF Retracted
  <1>5. Retracted(t)' \subseteq Retracted(t) \cup DOMAIN rows
    BY <1>1, <1>2, WrittenAfter DEF Retracted, Unaudited
  <1>6. \A a \in Retracted(t) \cup DOMAIN rows : Key(View(t)[a]) = Key(View(t)[e])
    BY <1>3, <1>4
  <1>7. Retracting(t)' /\ \A a, b \in Retracted(t)' : Key(View(t)'[a]) = Key(View(t)'[b])
    BY <1>1, <1>2, <1>3, <1>5, <1>6, RetractingGrows DEF ClosingNow
  <1> QED BY <1>2, <1>7 DEF Shape

LEMMA ShapeRetractDuplicates ==
  ASSUME TypeInv, AppendInvariant, RowsOrdered, NEW t \in Txns, Shape(t), RetractDuplicates(t)
  PROVE  Shape(t)'
  <1>. TypeOK
    BY DEF TypeInv
  <1>1. PICK rows :
          /\ ClosingNow(t, rows) /\ Write(t, rows)
          /\ \A i \in DOMAIN rows : /\ SameTriple(View(t)[i], View(t)[edge[t]])
                                    /\ rows[i].invalidated_by = View(t)[i].invalidated_by
    BY RetractDuplicatesWrites
  <1>2. /\ edges' = edges /\ pc[t] = "duplicates"
        /\ (pc'[t] = "idle" /\ ops'[t] > 0) \/ pc'[t] = "retract"
        /\ todo'[t] \subseteq todo[t]
    BY DEF RetractDuplicates, store, Finish, Goto, TypeOK
  <1>3. Retracting(t) /\ \A a, b \in Retracted(t) : Key(View(t)[a]) = Key(View(t)[b])
    BY <1>2 DEF Shape
  <1>4. edge[t] \in Retracted(t)
    BY <1>2 DEF Retracted, Unaudited
  <1>5. Retracted(t)' \subseteq Retracted(t) \cup DOMAIN rows
    BY <1>1, <1>2, WrittenAfter DEF Retracted, Unaudited
  <1>6. \A a \in Retracted(t) \cup DOMAIN rows : Key(View(t)[a]) = Key(View(t)[edge[t]])
    BY <1>1, <1>3, <1>4 DEF SameTriple
  <1>7. Retracting(t)' /\ \A a, b \in Retracted(t)' : Key(View(t)'[a]) = Key(View(t)'[b])
    BY <1>1, <1>2, <1>3, <1>5, <1>6, RetractingGrows DEF ClosingNow
  <1> QED BY <1>2, <1>7 DEF Shape

(* The INSERT adds the asserted row and its mirror to closures by the      *)
(* contradictor.                                                           *)
LEMMA ShapeInsert ==
  ASSUME TypeInv, AppendInvariant, LockHeld, DedupInvariant,
         NEW t \in Txns, Shape(t), ~Raise(t), Insert(t)
  PROVE  Shape(t)'
  <1>. TypeOK
    BY DEF TypeInv
  <1> DEFINE new == NewRow(op[t])
  <1>1. PICK rows, e :
          /\ Inserting(t, rows) /\ Write(t, rows)
          /\ e \in DOMAIN rows /\ rows[e] = new
          /\ {rows[i] : i \in DOMAIN rows \ {e}} = Mirror(new)
          /\ \A i \in DOMAIN rows : Live(rows[i])
          /\ \A i \in DOMAIN rows \ {e} : ~Guarded(rows[i].predicate)
          /\ Key(rows[e]) = OpKey(t)
          /\ IF Exclusive(rows[e].predicate)
               THEN /\ pc' = [pc EXCEPT ![t] = "supersede"] /\ edge' = [edge EXCEPT ![t] = e]
                    /\ UNCHANGED op
               ELSE Finish(t)
    BY InsertWrites
  <1>2. pc[t] = "insert" /\ edges' = edges
    BY DEF Insert, store
  <1>3. \/ pc'[t] = "supersede" /\ edge'[t] = e
        \/ pc'[t] = "idle" /\ ops'[t] > 0
    BY <1>1 DEF Finish, Goto, TypeOK
  <1>4. Contradicting(t)
    BY <1>2 DEF Shape
  <1>5. new.predicate = op[t].predicate /\ new.valid_from = op[t].valid_from
        /\ new.subject = op[t].subject /\ new.object = op[t].object
    BY DEF NewRow
  <1> HIDE DEF new
  <1>6. DOMAIN rows \cap DOMAIN writes[t] = {} /\ DOMAIN rows \cap DOMAIN edges = {}
    BY <1>1 DEF Inserting, UsedIds
  <1>7. /\ DOMAIN writes'[t] = DOMAIN writes[t] \cup DOMAIN rows
        /\ \A i \in DOMAIN rows : writes'[t][i] = rows[i]
        /\ \A i \in DOMAIN writes[t] : writes'[t][i] = writes[t][i]
    BY <1>1, <1>6, WrittenAfter
  <1>8. Fresh(t)' = DOMAIN rows /\ DOMAIN writes'[t] \cap DOMAIN edges' = DOMAIN writes[t]
    BY <1>2, <1>4, <1>6, <1>7 DEF Fresh, Contradicting
  <1>9. ~Mirrored(new.predicate) => Duplicates(View(t)', new) \subseteq {e}
    <2> SUFFICES ASSUME ~Mirrored(new.predicate), NEW x \in Duplicates(View(t)', new), x # e
                 PROVE  FALSE
      OBVIOUS
    <2>1. Duplicates(View(t), op[t]) = {}
      BY <1>2, <1>5 DEF DedupInvariant, Deduped
    <2>2. /\ DOMAIN View(t)' = DOMAIN View(t) \cup DOMAIN rows
          /\ \A i \in DOMAIN rows : View(t)'[i] = rows[i]
          /\ \A i \in DOMAIN View(t) : View(t)'[i] = View(t)[i]
      BY <1>1, <1>2, InsertingEvolves
    <2>3. x \in DOMAIN View(t)' /\ Live(View(t)'[x]) /\ SameTriple(View(t)'[x], new)
          /\ ValidAt(View(t)'[x], new.valid_from)
      BY DEF Duplicates, LiveIds
    <2>4. CASE x \in DOMAIN rows
      <3>1. rows[x].predicate = new.predicate
        BY <2>2, <2>3, <2>4 DEF SameTriple, Key
      <3> QED BY <1>1, <2>4, <3>1, UnmirroredGuarded
    <2>5. CASE x \in DOMAIN View(t)
      <3>1. SameTriple(View(t)[x], op[t]) /\ ValidAt(View(t)[x], op[t].valid_from)
        BY <1>5, <2>2, <2>3, <2>5 DEF SameTriple, Key
      <3>2. x \in LiveIds(View(t))
        BY <2>2, <2>3, <2>5 DEF LiveIds
      <3> QED BY <2>1, <3>1, <3>2 DEF Duplicates
    <2> QED BY <2>2, <2>3, <2>4, <2>5
  <1>10. Asserting(t, e)'
    <2>1. /\ e \in Fresh(t)' /\ writes'[t][e] = new
          /\ \A m \in Fresh(t)' : Live(writes'[t][m])
          /\ {writes'[t][m] : m \in Fresh(t)' \ {e}} = Mirror(new)
      BY <1>1, <1>7, <1>8
    <2>2. \A a \in DOMAIN writes'[t] \cap DOMAIN edges' :
            /\ Key(edges'[a]) = Key(new)
            /\ new.predicate \in HighStakes
            /\ writes'[t][a].invalidated_by = NoEdge
            /\ writes'[t][a].valid_to = new.valid_from
      BY <1>1, <1>2, <1>4, <1>5, <1>7, <1>8 DEF Contradicting
    <2> QED BY <1>9, <2>1, <2>2 DEF Asserting, Mirrored
  <1>11. \E i \in Fresh(t)' : Asserting(t, i)'
    BY <1>1, <1>8, <1>10
  <1> QED BY <1>3, <1>10, <1>11 DEF Shape

(* The UPDATE that follows closes what the new row replaces.               *)
LEMMA ShapeSupersede ==
  ASSUME MirrorsPlain, TypeInv, AppendInvariant, RowsOrdered, EnteringNewest,
         NEW t \in Txns, Shape(t), Supersede(t)
  PROVE  Shape(t)'
  <1>. TypeOK
    BY DEF TypeInv
  <1>. PICK n : n = edge[t]
    OBVIOUS
  <1> DEFINE new == writes[t][n]
  <1>1. PICK rows :
          /\ ClosingNow(t, rows) /\ Write(t, rows)
          /\ DOMAIN rows = Superseded(View(t), n)
          /\ \A i \in DOMAIN rows : rows[i].invalidated_by = n /\ rows[i].valid_to = View(t)[i].valid_to
    BY SupersedeWrites
  <1>2. pc[t] = "supersede" /\ pc'[t] = "idle" /\ ops'[t] > 0 /\ edges' = edges
    BY DEF Supersede, Finish, Goto, store, TypeOK
  <1>3. Asserting(t, n)
    BY <1>2 DEF Shape
  <1>4. /\ n \in DOMAIN writes[t] /\ n \in Fresh(t) /\ View(t)[n] = new /\ new \in Row
        /\ n \in DOMAIN View(t)
    BY <1>3, WrittenRows DEF Asserting, Fresh
  <1>5. Exclusive(new.predicate) /\ new.sys_from < now
    <2>1. Ordered(View(t)[n], now)
      BY <1>4, OrderedViews
    <2> QED BY <1>2, <1>4, <2>1 DEF EnteringNewest, Entering, Ordered
  <1> HIDE DEF new
  <1>6. ASSUME NEW i \in DOMAIN rows
        PROVE  /\ i \in DOMAIN edges /\ i \notin DOMAIN writes[t]
               /\ Key(edges[i]) = Key(new) /\ Overlaps(edges[i], new)
               /\ rows[i].invalidated_by = n /\ rows[i].valid_to = edges[i].valid_to
               /\ new.sys_from < rows[i].sys_to
    <2>1. i \in LiveIds(View(t)) /\ i # n /\ Key(View(t)[i]) = Key(new) /\ Overlaps(View(t)[i], new)
      BY <1>1, <1>4, <1>6 DEF Superseded
    <2>2. i \notin Fresh(t)
      <3>1. ASSUME i \in Fresh(t)
            PROVE  FALSE
        <4>1. writes[t][i] \in Mirror(new)
          BY <1>3, <2>1, <3>1 DEF Asserting, new
        <4>2. View(t)[i] = writes[t][i]
          BY <3>1, WrittenRows DEF Fresh
        <4>3. ~Exclusive(writes[t][i].predicate)
          BY <1>4, <4>1, MirrorRowsPlain
        <4> QED BY <1>5, <2>1, <4>2, <4>3 DEF Key
      <3> QED BY <3>1
    <2>3. i \in DOMAIN edges /\ View(t)[i] = edges[i] /\ i \notin DOMAIN writes[t]
      BY <2>1, <2>2, CommittedRow
    <2>4. rows[i].sys_to = now
      BY <1>1, <1>6 DEF ClosingNow
    <2> QED BY <1>1, <1>5, <1>6, <2>1, <2>3, <2>4
  <1>7. /\ DOMAIN writes'[t] = DOMAIN writes[t] \cup DOMAIN rows
        /\ \A i \in DOMAIN rows : writes'[t][i] = rows[i]
        /\ \A i \in DOMAIN writes[t] : writes'[t][i] = writes[t][i]
    BY <1>1, <1>6, WrittenAfter
  <1>8. /\ Fresh(t)' = Fresh(t) /\ Fresh(t) \subseteq DOMAIN writes[t]
        /\ DOMAIN writes'[t] \cap DOMAIN edges' = (DOMAIN writes[t] \cap DOMAIN edges) \cup DOMAIN rows
    BY <1>2, <1>6, <1>7 DEF Fresh
  <1>9. writes'[t][n] = new
    BY <1>4, <1>7 DEF new
  <1>10. Asserting(t, n)'
    <2>1. /\ n \in Fresh(t)'
          /\ \A m \in Fresh(t)' : Live(writes'[t][m])
      BY <1>3, <1>7, <1>8 DEF Asserting
    <2>2. {writes'[t][m] : m \in Fresh(t)' \ {n}} = Mirror(new)
      <3>1. {writes[t][m] : m \in Fresh(t) \ {n}} = Mirror(new)
        BY <1>3 DEF Asserting, new
      <3> QED BY <1>7, <1>8, <3>1
    <2>3. \A a \in DOMAIN writes'[t] \cap DOMAIN edges' :
            /\ Key(edges'[a]) = Key(new)
            /\ \/ /\ Exclusive(new.predicate) /\ Overlaps(edges'[a], new)
                  /\ writes'[t][a].invalidated_by = n
                  /\ writes'[t][a].valid_to = edges'[a].valid_to
                  /\ new.sys_from < writes'[t][a].sys_to
               \/ /\ new.predicate \in HighStakes
                  /\ writes'[t][a].invalidated_by = NoEdge
                  /\ writes'[t][a].valid_to = new.valid_from
      <3>1. \A a \in DOMAIN rows :
              /\ Key(edges'[a]) = Key(new) /\ Overlaps(edges'[a], new)
              /\ writes'[t][a].invalidated_by = n
              /\ writes'[t][a].valid_to = edges'[a].valid_to
              /\ new.sys_from < writes'[t][a].sys_to
        BY <1>2, <1>6, <1>7
      <3>2. \A a \in DOMAIN writes[t] \cap DOMAIN edges :
              /\ Key(edges'[a]) = Key(new) /\ writes'[t][a] = writes[t][a]
              /\ \/ /\ Exclusive(new.predicate) /\ Overlaps(edges'[a], new)
                    /\ writes[t][a].invalidated_by = n
                    /\ writes[t][a].valid_to = edges'[a].valid_to
                    /\ new.sys_from < writes[t][a].sys_to
                 \/ /\ new.predicate \in HighStakes
                    /\ writes[t][a].invalidated_by = NoEdge
                    /\ writes[t][a].valid_to = new.valid_from
        BY <1>2, <1>3, <1>7 DEF Asserting, new
      <3> QED BY <1>5, <1>8, <3>1, <3>2
    <2>4. ~Mirrored(new.predicate) => Duplicates(View(t)', new) \subseteq {n}
      <3>1. ~Mirrored(new.predicate) => Duplicates(View(t), new) \subseteq {n}
        BY <1>3 DEF Asserting, new
      <3>2. /\ LiveIds(View(t)') \subseteq LiveIds(View(t))
            /\ \A e \in LiveIds(View(t)') : View(t)'[e] = View(t)[e]
        BY <1>1, <1>2, ClosingEvolves, EvolvedLive DEF ClosingNow
      <3> QED BY <3>1, <3>2 DEF Duplicates
    <2> QED BY <1>9, <2>1, <2>2, <2>3, <2>4 DEF Asserting, Mirrored
  <1>11. \E e \in Fresh(t)' : Asserting(t, e)'
    BY <1>10 DEF Asserting
  <1> QED BY <1>2, <1>11 DEF Shape

(* A transaction that ends or whose statement raised owes nothing.         *)
LEMMA ShapeOver ==
  ASSUME NEW t \in Txns, pc'[t] \in {"failed", "ended"}
  PROVE  Shape(t)'
  BY DEF Shape

(* Until it ends, a transaction touches nobody else's writes.              *)
LEMMA OwnWrites ==
  ASSUME TypeInv, NEW t \in Txns, Call(t) \/ Statement(t)
  PROVE  /\ edges' = edges
         /\ \A u \in Txns : u # t => writes'[u] = writes[u] /\ View(u)' = View(u)
  <1>1. UNCHANGED store /\ (UNCHANGED writes \/ \E rows : Write(t, rows))
    <2>1. CASE \/ Call(t) \/ Guard(t) \/ Lock(t) \/ Dedup(t) \/ Contradict(t) \/ JudgeRestCompatible(t)
               \/ Raise(t) /\ (JudgeContradicts(t) \/ Insert(t) \/ Retract(t))
      BY <2>1, QuietSteps
    <2>2. CASE \/ ~Raise(t) /\ (JudgeContradicts(t) \/ Retract(t))
               \/ Supersede(t) \/ RetractDuplicates(t)
      <3>1. \E rows : Write(t, rows)
        BY <2>2, JudgeWrites, RetractWrites, SupersedeWrites, RetractDuplicatesWrites
      <3>2. UNCHANGED store
        BY <2>2 DEF JudgeContradicts, Retract, Supersede, RetractDuplicates
      <3> QED BY <3>1, <3>2
    <2>3. CASE ~Raise(t) /\ Insert(t)
      <3>1. \E rows : Write(t, rows)
        BY <2>3, InsertInserts
      <3> QED BY <2>3, <3>1 DEF Insert
    <2> QED BY <2>1, <2>2, <2>3 DEF Statement
  <1>2. edges' = edges /\ \A u \in Txns : u # t => writes'[u] = writes[u]
    BY <1>1 DEF store, Write, TypeInv, TypeOK
  <1> QED BY <1>2 DEF View

LEMMA ShapeStep ==
  ASSUME MaxOps = 1, MirrorsPlain, TypeInv, AppendInvariant, LockHeld, GuardedLocked, RowsOrdered,
         EnteringNewest, DedupInvariant, ShapeInvariant, [Next]_vars
  PROVE  ShapeInvariant'
  <1>. TypeOK
    BY DEF TypeInv
  <1>1. ASSUME NEW t \in Txns, Call(t) \/ Statement(t), Shape(t)'
        PROVE  ShapeInvariant'
    BY <1>1, OwnWrites, OthersStand, ShapeStands DEF ShapeInvariant
  <1>2. ASSUME NEW t \in Txns, Statement(t)
        PROVE  Shape(t)'
    <2>1. Shape(t)
      BY DEF ShapeInvariant
    <2>2. CASE Raise(t)
      BY <2>2, ShapeOver DEF Raise, Goto, TypeOK
    <2>3. CASE ~Raise(t)
      BY <1>2, <2>1, <2>3, ShapeRead, ShapeJudge, ShapeInsert, ShapeSupersede, ShapeRetract,
         ShapeRetractDuplicates DEF Statement
    <2> QED BY <2>2, <2>3
  <1>3. ASSUME NEW t \in Txns, Call(t)
        PROVE  Shape(t)'
    BY <1>3, ShapeCall DEF ShapeInvariant
  <1>4. ASSUME NEW t \in Txns, Commit(t)
        PROVE  ShapeInvariant'
    <2>1. Shape(t)'
      BY <1>4, ShapeOver DEF Commit, End, Goto, TypeOK
    <2> QED BY <1>4, <2>1, CommitStands, ShapeStands DEF ShapeInvariant
  <1>5. ASSUME NEW t \in Txns, Rollback(t) \/ Crash(t) \/ DeadlockVictim(t)
        PROVE  ShapeInvariant'
    <2>1. End(t) /\ UNCHANGED store /\ pc'[t] = "ended"
      BY <1>5 DEF Rollback, Crash, DeadlockVictim, End, Goto, TypeOK
    <2>2. Shape(t)'
      BY <2>1, ShapeOver
    <2>3. edges' = edges /\ \A u \in Txns : u # t => writes'[u] = writes[u] /\ View(u)' = View(u)
      BY <2>1, AbortViews
    <2> QED BY <1>5, <2>2, <2>3, OthersStand, ShapeStands DEF ShapeInvariant
  <1>6. CASE UNCHANGED vars
    <2>1. \A u \in Txns : View(u)' = View(u)
      BY <1>6, QuietViews DEF vars, store
    <2>2. \A u \in Txns : Standing(u)
      BY <1>6, <2>1, SameEvolves DEF vars, Standing
    <2> QED BY <2>2, ShapeStands DEF ShapeInvariant
  <1> QED BY <1>1, <1>2, <1>3, <1>4, <1>5, <1>6 DEF Next, Quiet

-----------------------------------------------------------------------------
(* The refinement *)

(* The ledger's words for the store's.                                     *)
LEMMA LedgerWords ==
  /\ Ledger!Kept = DOMAIN edges
  /\ Ledger!Added = DOMAIN edges' \ DOMAIN edges
  /\ Ledger!Touched = {e \in DOMAIN edges : edges'[e] # edges[e]}
  /\ \A a, b : Ledger!Ended(a, b) <=> Closes(a, b) /\ Before(a.sys_from, b.sys_to)
  /\ \A row : Ledger!About(row) = Key(row)
  /\ \A a, b : Ledger!Overlaps(a, b) <=> Overlaps(a, b)
  /\ \A a, b, e, new : Ledger!Replaced(a, b, e, new) <=>
       /\ Overlaps(a, new) /\ b.invalidated_by = e /\ b.valid_to = a.valid_to
       /\ Before(new.sys_from, b.sys_to)
  /\ \A a, b, new : Ledger!Contradicted(a, b, new) <=>
       b.invalidated_by = NoEdge /\ b.valid_to = new.valid_from
  <1>1. \A a, b : Ledger!Before(a, b) <=> Before(a, b)
    BY DEF Ledger!Before, Before
  <1>2. \A a, b : Ledger!Overlaps(a, b) <=> Overlaps(a, b)
    BY <1>1 DEF Ledger!Overlaps, Overlaps
  <1> QED BY <1>1, <1>2
          DEF Ledger!Kept, Ledger!Added, Ledger!Touched, Ledger!Ended, Closes, Ledger!Live, Live,
              Ledger!About, Key, Ledger!Replaced, Ledger!Contradicted

(* A commit keeps every row, adds those its transaction inserted and ends  *)
(* those it closed.                                                        *)
LEMMA CommitLedger ==
  ASSUME TypeInv, AppendInvariant, RowsOrdered, NEW t \in Txns, Commit(t)
  PROVE  /\ DOMAIN edges \subseteq DOMAIN edges'
         /\ Ledger!Added = Fresh(t)
         /\ \A e \in Fresh(t) : edges'[e] = writes[t][e]
         /\ \A a \in Ledger!Touched : /\ a \in DOMAIN writes[t] \cap DOMAIN edges
                                      /\ edges'[a] = writes[t][a]
                                      /\ Ledger!Ended(edges[a], edges'[a])
                                      /\ Key(edges'[a]) = Key(edges[a])
  <1>1. edges' = View(t)
    BY DEF Commit
  <1>2. /\ DOMAIN edges' = DOMAIN edges \cup DOMAIN writes[t]
        /\ \A e \in DOMAIN writes[t] : edges'[e] = writes[t][e]
        /\ \A e \in DOMAIN edges \ DOMAIN writes[t] : edges'[e] = edges[e]
    BY <1>1 DEF View, Overlay
  <1>3. Ledger!Added = Fresh(t)
    BY <1>2, LedgerWords DEF Fresh
  <1>4. ASSUME NEW a \in Ledger!Touched
        PROVE  /\ a \in DOMAIN writes[t] \cap DOMAIN edges
               /\ edges'[a] = writes[t][a]
               /\ Ledger!Ended(edges[a], edges'[a])
               /\ Key(edges'[a]) = Key(edges[a])
    <2>1. a \in DOMAIN writes[t] \cap DOMAIN edges /\ edges'[a] = writes[t][a]
      BY <1>2, <1>4, LedgerWords
    <2>2. Closes(edges[a], writes[t][a]) /\ edges[a] \in Row /\ writes[t][a] \in Row
      BY <2>1 DEF AppendInvariant, UpdatesClose, TypeInv, TypeOK
    <2>3. Ordered(writes[t][a], now)
      BY <2>1 DEF RowsOrdered
    <2>4. ~Live(writes[t][a]) /\ writes[t][a].sys_from = edges[a].sys_from /\ Key(writes[t][a]) = Key(edges[a])
      BY <2>2, ClosesSame
    <2>5. Before(edges[a].sys_from, writes[t][a].sys_to)
      BY <2>3, <2>4 DEF Ordered, Before
    <2> QED BY <2>1, <2>2, <2>4, <2>5, LedgerWords
  <1> QED BY <1>2, <1>3, <1>4 DEF Fresh

LEMMA CommitRetracts ==
  ASSUME TypeInv, AppendInvariant, RowsOrdered, NEW t \in Txns, Commit(t), Retracting(t)
  PROVE  Ledger!Retraction
  <1>1. Ledger!Added = {}
    BY CommitLedger DEF Retracting, Fresh
  <1>2. \A a \in Ledger!Touched : /\ Ledger!Ended(edges[a], edges'[a])
                                  /\ edges'[a].invalidated_by = NoEdge
    BY CommitLedger DEF Retracting
  <1>3. \A a, b \in Ledger!Touched : Ledger!About(edges[a]) = Ledger!About(edges[b])
    BY CommitLedger, LedgerWords DEF Retracting
  <1> QED BY <1>1, <1>2, <1>3 DEF Ledger!Retraction

LEMMA CommitAsserts ==
  ASSUME TypeInv, AppendInvariant, RowsOrdered, ViewsCompatible,
         NEW t \in Txns, Commit(t), NEW e \in Fresh(t), Asserting(t, e)
  PROVE  Ledger!Assert
  <1> DEFINE new == writes[t][e]
  <1>1. e \in Ledger!Added /\ edges'[e] = new
    BY CommitLedger
  <1>2. {edges'[m] : m \in Ledger!Added \ {e}} = Mirror(new)
    <2>1. Ledger!Added = Fresh(t) /\ \A m \in Fresh(t) : edges'[m] = writes[t][m]
      BY CommitLedger
    <2>2. {writes[t][m] : m \in Fresh(t) \ {e}} = Mirror(new)
      BY DEF Asserting
    <2>3. {edges'[m] : m \in Ledger!Added \ {e}} = {writes[t][m] : m \in Fresh(t) \ {e}}
      BY <2>1
    <2> QED BY <2>2, <2>3
  <1>3. \A m \in Ledger!Added : Ledger!Live(edges'[m])
    BY CommitLedger DEF Asserting, Ledger!Live, Live
  <1>4. /\ edges' = View(t) /\ pc[t] = "idle"
        /\ View(t)[e] = new /\ new \in Row /\ e \in LiveIds(View(t)) /\ e \notin DOMAIN edges
    BY WrittenRows DEF Commit, LiveIds, Asserting, Fresh
  \* a row live before and after is as it was
  <1>5. ASSUME NEW a \in DOMAIN edges, Live(edges'[a])
        PROVE  a \in LiveIds(View(t)) /\ View(t)[a] = edges[a] /\ a # e
    <2>1. a \in LiveIds(View(t)) /\ a \notin Fresh(t)
      BY <1>4, <1>5, WrittenRows DEF LiveIds, Fresh
    <2> QED BY <1>4, <2>1, CommittedRow
  <1>6. Unmirrored(new.predicate) =>
          ~\E a \in Ledger!Kept : /\ Ledger!Live(edges[a]) /\ Ledger!Live(edges'[a])
                                  /\ Ledger!SameFact(edges[a], new)
                                  /\ Ledger!ValidAt(edges[a], new.valid_from)
    <2> SUFFICES ASSUME Unmirrored(new.predicate), NEW a \in Ledger!Kept,
                        Ledger!Live(edges'[a]), Ledger!SameFact(edges[a], new),
                        Ledger!ValidAt(edges[a], new.valid_from)
                 PROVE  FALSE
      OBVIOUS
    <2>1. a \in LiveIds(View(t)) /\ View(t)[a] = edges[a] /\ a # e
      BY <1>5, LedgerWords DEF Ledger!Live, Live
    <2>2. SameTriple(edges[a], new) /\ ValidAt(edges[a], new.valid_from)
      BY DEF Ledger!SameFact, Ledger!About, SameTriple, Key, Ledger!ValidAt, ValidAt,
             Ledger!Before, Before
    <2>3. a \in Duplicates(View(t), new)
      BY <2>1, <2>2 DEF Duplicates
    <2> QED BY <2>1, <2>3 DEF Asserting, Unmirrored
  <1>7. ASSUME NEW a \in Ledger!Touched
        PROVE  /\ Ledger!About(edges[a]) = Ledger!About(new)
               /\ Ledger!Ended(edges[a], edges'[a])
               /\ \/ Exclusive(new.predicate) /\ Ledger!Replaced(edges[a], edges'[a], e, new)
                  \/ new.predicate \in HighStakes /\ Ledger!Contradicted(edges[a], edges'[a], new)
    <2>1. /\ a \in DOMAIN writes[t] \cap DOMAIN edges /\ edges'[a] = writes[t][a]
          /\ Ledger!Ended(edges[a], edges'[a])
      BY CommitLedger
    <2>2. /\ Key(edges[a]) = Key(new)
          /\ \/ /\ Exclusive(new.predicate) /\ Overlaps(edges[a], new)
                /\ writes[t][a].invalidated_by = e
                /\ writes[t][a].valid_to = edges[a].valid_to
                /\ new.sys_from < writes[t][a].sys_to
             \/ /\ new.predicate \in HighStakes
                /\ writes[t][a].invalidated_by = NoEdge
                /\ writes[t][a].valid_to = new.valid_from
      BY <2>1 DEF Asserting
    <2>3. new.sys_from < writes[t][a].sys_to => Before(new.sys_from, writes[t][a].sys_to)
      BY DEF Before
    <2> HIDE DEF new
    <2> QED BY <2>1, <2>2, <2>3, LedgerWords
  <1>8. Exclusive(new.predicate) =>
          \A a \in Ledger!Kept : Ledger!Live(edges'[a]) /\ Ledger!About(edges[a]) = Ledger!About(new)
                                   => ~Ledger!Overlaps(edges[a], new)
    <2> SUFFICES ASSUME Exclusive(new.predicate), NEW a \in DOMAIN edges, Live(edges'[a]),
                        Key(edges[a]) = Key(new)
                 PROVE  ~Overlaps(edges[a], new)
      BY LedgerWords DEF Ledger!Live, Live
    <2>1. a \in LiveIds(View(t)) /\ View(t)[a] = edges[a] /\ a # e
      BY <1>5
    <2>2. Entering(t) = {}
      BY <1>4 DEF Entering
    <2>3. Compatible(View(t), e, a) /\ Compatible(View(t), a, e)
      BY <1>4, <2>1, <2>2 DEF ViewsCompatible
    <2> QED BY <1>4, <2>1, <2>3 DEF Compatible, Key
  <1> HIDE DEF new
  <1> QED BY <1>1, <1>2, <1>3, <1>6, <1>7, <1>8 DEF Ledger!Assert

(* Every step of the store is one of the ledger, or does not show.         *)
LEMMA LedgerStep ==
  ASSUME TypeInv, AppendInvariant, RowsOrdered, ViewsCompatible, ShapeInvariant, [Next]_vars
  PROVE  [Ledger!LedgerNext]_edges
  <1>1. edges' = edges \/ \E t \in Txns : Commit(t)
    BY OwnWrites DEF Next, Quiet, vars, Rollback, Crash, DeadlockVictim, store
  <1>2. ASSUME NEW t \in Txns, Commit(t)
        PROVE  Ledger!LedgerNext
    <2>1. pc[t] = "idle" /\ Shape(t)
      BY <1>2 DEF Commit, ShapeInvariant
    <2>2. Retracting(t) \/ \E e \in Fresh(t) : Asserting(t, e)
      BY <2>1 DEF Shape
    <2>3. Ledger!Assert \/ Ledger!Retraction
      BY <1>2, <2>2, CommitRetracts, CommitAsserts
    <2>4. Ledger!Kept \subseteq DOMAIN edges'
      BY <1>2, CommitLedger, LedgerWords
    <2> QED BY <2>3, <2>4 DEF Ledger!LedgerNext
  <1> QED BY <1>1, <1>2

(* The store implements the ledger, for every instance with one operation  *)
(* in a transaction and no mirror onto an exclusive predicate: whatever    *)
(* its transactions interleave, fail or are cancelled at, readers see      *)
(* whole assertions and whole retractions, one at a time.                  *)
THEOREM StoreImplementsLedger == MaxOps = 1 /\ MirrorsPlain => (Spec => LedgerSpec)
  <1> SUFFICES ASSUME MaxOps = 1, MirrorsPlain
               PROVE  Spec => LedgerSpec
    OBVIOUS
  <1>1. Init => ShapeInvariant
    BY DEF Init, ShapeInvariant, Shape
  <1>2. TypeInv /\ AppendInvariant /\ LockHeld /\ GuardedLocked /\ RowsOrdered /\ EnteringNewest
          /\ DedupInvariant /\ ShapeInvariant /\ [Next]_vars => ShapeInvariant'
    BY ShapeStep
  <1>3. Init => Ledger!LedgerInit
    BY DEF Init, Ledger!LedgerInit
  <1>4. TypeInv /\ AppendInvariant /\ RowsOrdered /\ ViewsCompatible /\ ShapeInvariant /\ [Next]_vars
          => [Ledger!LedgerNext]_edges
    BY LedgerStep
  <1>5. Spec => []CardinalityInvariant /\ []EnteringNewest
    BY CardinalityAlways, EnteringAlways
  <1>6. CardinalityInvariant => AppendInvariant /\ LockHeld /\ ViewsCompatible
    BY DEF CardinalityInvariant
  <1> QED BY <1>1, <1>2, <1>3, <1>4, <1>5, <1>6, TypeCorrect, SystemTimeRunsForward, GuardedAlways,
          DedupAlways, PTL DEF Spec, LedgerSpec, Ledger!LedgerSpec

=============================================================================
