------------------------------ MODULE FactLedger ------------------------------
(***************************************************************************)
(* What the edge store promises its readers: a ledger of facts that only   *)
(* ever changes by whole assertions and whole retractions, as if callers   *)
(* took turns.  Nothing of transactions, locks or statements is left.      *)
(*                                                                         *)
(* One new row may replace others (relations with cardinality one) and may *)
(* end facts it contradicts (high-stakes relations); rows only ever gain   *)
(* an end.                                                                 *)
(***************************************************************************)
EXTENDS Bitemporal

CONSTANTS
  Exclusive(_),    \* relations that hold of one object at a time
  HighStakes,      \* relations whose facts may contradict earlier ones
  Plain(_),        \* relations no other relation mirrors
  MirrorOf(_),     \* the rows a row brings along in the other direction
  NoEdge

VARIABLE ledger    \* rows by edge id

About(row) == <<row.subject, row.predicate>>

SameFact(a, b) == About(a) = About(b) /\ a.object = b.object

(* b is a, no longer believed. *)
Ended(a, b) ==
  /\ Live(a) /\ ~Live(b) /\ Before(a.sys_from, b.sys_to)
  /\ b = [a EXCEPT !.sys_to = b.sys_to, !.valid_to = b.valid_to,
                   !.invalidated_by = b.invalidated_by]

Kept == DOMAIN ledger
Added == DOMAIN ledger' \ DOMAIN ledger
Touched == {e \in Kept : ledger'[e] # ledger[e]}

(* e replaced a by overlap: all of the old row but its sys_time stands.    *)
Replaced(a, b, e, new) ==
  /\ Overlaps(a, new)
  /\ b.invalidated_by = e
  /\ b.valid_to = a.valid_to
  /\ Before(new.sys_from, b.sys_to)

(* The contradictor ended a where the new fact begins.                     *)
Contradicted(a, b, new) ==
  b.invalidated_by = NoEdge /\ b.valid_to = new.valid_from

(* A new fact is asserted.  It was not already held; it replaces every     *)
(* other live row of an exclusive relation whose validity it overlaps.     *)
Assert ==
  \E e \in Added :
    LET new == ledger'[e]
    IN /\ {ledger'[m] : m \in Added \ {e}} = MirrorOf(new)
       /\ \A m \in Added : Live(ledger'[m])
       /\ Plain(new.predicate) =>
            ~\E a \in Kept : /\ Live(ledger[a]) /\ Live(ledger'[a])
                             /\ SameFact(ledger[a], new)
                             /\ ValidAt(ledger[a], new.valid_from)
       /\ \A a \in Touched :
            /\ About(ledger[a]) = About(new)
            /\ Ended(ledger[a], ledger'[a])
            /\ \/ Exclusive(new.predicate) /\ Replaced(ledger[a], ledger'[a], e, new)
               \/ new.predicate \in HighStakes /\ Contradicted(ledger[a], ledger'[a], new)
       /\ Exclusive(new.predicate) =>
            \A a \in Kept : Live(ledger'[a]) /\ About(ledger[a]) = About(new)
                              => ~Overlaps(ledger[a], new)

(* Facts about one subject and relation are retracted, nothing replaces    *)
(* them.                                                                   *)
Retraction ==
  /\ Added = {}
  /\ \A a, b \in Touched : About(ledger[a]) = About(ledger[b])
  /\ \A a \in Touched : /\ Ended(ledger[a], ledger'[a])
                        /\ ledger'[a].invalidated_by = NoEdge

LedgerInit == ledger = << >>

LedgerNext == Kept \subseteq DOMAIN ledger' /\ (Assert \/ Retraction)

LedgerSpec == LedgerInit /\ [][LedgerNext]_ledger

=============================================================================
