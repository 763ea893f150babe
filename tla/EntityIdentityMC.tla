--------------------------- MODULE EntityIdentityMC ---------------------------
(***************************************************************************)
(* A small instance of EntityIdentity: two stored people with different    *)
(* names, a third to be created, one e-mail address.                       *)
(***************************************************************************)
EXTENDS EntityIdentity, TLC

CONSTANTS e1, e2, ada, bob, email

MCStored == (e1 :> ada) @@ (e2 :> bob)

Ask(kind, refs) == [kind |-> kind, refs |-> refs, name |-> ada, value |-> NoIdentifier]

Ingest(name, value) == [kind |-> "ingest", refs |-> << >>, name |-> name, value |-> value]

(* References by id and by name, and an identifier under either name.      *)
Everything ==
  {Ask("merge", <<e1, e2>>), Ask("merge", <<bob, e1>>), Ask("delete", <<e2>>),
   Ask("fact", <<e1, e2>>), Ingest(ada, email), Ingest(bob, email),
   Ingest(ada, NoIdentifier)}

(* One merge and one ingestion at a time. *)
OneMerge == [k \in Kinds |-> IF k \in {"merge", "ingest"} THEN 1 ELSE 2]

Ids == Permutations(Requests) \cup Permutations(Edges)

=============================================================================
