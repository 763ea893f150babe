---------------------------- MODULE ReviewQueueMC ----------------------------
(***************************************************************************)
(* Small instances of ReviewQueue.  p1 and p2 propose two employers of     *)
(* bob, p3 repeats p1 with a later start.                                  *)
(***************************************************************************)
EXTENDS ReviewQueue, TLC

CONSTANTS ann, bob, acme, globex, works_at, ep1

MCEntities == {ann, bob, acme, globex}

Works(who, where, from) ==
  [subject |-> who, predicate |-> works_at, object |-> where, valid_from |-> from,
   valid_to |-> Infinity]

CONSTANTS p1, p2, p3

MCFacts == [p \in Proposals |-> CASE p = p1 -> Works(bob, acme, 1)
                                  [] p = p2 -> Works(bob, globex, 3)
                                  [] p = p3 -> Works(bob, acme, 2)]

MCSource == [p \in Proposals |-> IF p = p2 THEN ep1 ELSE NoEpisode]

One_(verb, p) == [verb |-> verb, ids |-> <<p>>, bulk |-> FALSE]

Singles == {One_(v, p) : v \in {"approve", "reject"}, p \in Proposals}

(* Two rejections that mark the same proposals in opposite orders, and an  *)
(* approval that names a proposal twice.                                   *)
Bulk(verb, ps) == [verb |-> verb, ids |-> ps, bulk |-> TRUE]

SinglesAndBulks ==
  Singles \cup {Bulk("reject", <<p1, p2>>), Bulk("reject", <<p2, p1>>),
               Bulk("approve", <<p1, p1>>)}

Ids == Permutations(EdgeIds) \cup Permutations(Requests)

=============================================================================
