----------------------------- MODULE EdgeStoreMC -----------------------------
(***************************************************************************)
(* Small instances of EdgeStore: two people, two employers.  works_at has  *)
(* cardinality one, knows is symmetric, employs is a relation beside them. *)
(* The clock starts at 3, so that 1 and 2 are in the past and 30 in the    *)
(* future of every run.                                                    *)
(***************************************************************************)
EXTENDS EdgeStoreInvariant, TLC

CONSTANTS ann, bob, acme, globex, works_at, knows, employs

MCEntities == {ann, bob, acme, globex}

Future == 30

NoInverse == [p \in Predicates |-> NoPredicate]

FactBy(kind, s, p, o, from, to, conf) ==
  [source_kind |-> kind, subject |-> s, predicate |-> p, object |-> o,
   valid_from |-> from, valid_to |-> to, confidence |-> conf]

Manual(s, p, o, from, to)   == FactBy("user", s, p, o, from, to, 9)
Extracted(s, p, o, from, c) == FactBy("episode", s, p, o, from, Infinity, c)

(* Facts entered by hand: current, backdated, future, over, symmetric in   *)
(* both directions, and one twice; and one from a document, which passes   *)
(* the guard.                                                              *)
MixedFacts ==
  {Manual(bob, works_at, acme, Unset, Infinity),
   Manual(bob, works_at, globex, 1, Infinity),
   Manual(bob, works_at, globex, Future, Infinity),
   Manual(bob, works_at, acme, 1, 2),
   Manual(ann, knows, bob, 1, Infinity),
   Manual(bob, knows, ann, 2, Infinity),
   Extracted(bob, works_at, globex, 2, 8),
   Manual(acme, employs, ann, 1, Infinity),
   Manual(acme, employs, ann, 2, Infinity)}

(* One extraction job writes several facts about several subjects.         *)
BatchFacts ==
  {Manual(bob, works_at, acme, Unset, Infinity),
   Manual(ann, works_at, acme, 2, Infinity),
   Manual(bob, works_at, globex, 2, Infinity)}

(* What the pipeline proposes: every confidence on both sides of each      *)
(* threshold, about facts that hold now.                                   *)
ProposedNow == {Extracted(bob, p, o, Unset, c) :
                  p \in Predicates, o \in {acme, globex}, c \in {2, 5, 7, 8, 9}}

(* Parallel calls that leave valid_from out, next to an unrelated one.     *)
ParallelCalls == {Manual(acme, employs, ann, Unset, Infinity), Manual(bob, works_at, acme, Unset, Infinity)}

NowOrPast == {Unset, 2}
None      == {}

BobLeft == {[subject |-> bob, predicate |-> works_at, object |-> acme, invalidated_at |-> Unset],
            [subject |-> bob, predicate |-> works_at, object |-> AnyObject, invalidated_at |-> 2]}

Ids == Permutations(EdgeIds) \cup Permutations(Txns)

=============================================================================
