------------------------- MODULE ActionInvocationsMC -------------------------
(***************************************************************************)
(* A small instance of ActionInvocations: attach runs at once, gated waits *)
(* for an approval, orphan has no handler, retired is disabled.            *)
(***************************************************************************)
EXTENDS ActionInvocations, TLC

CONSTANTS attach, gated, orphan, retired, k1, k2, fact1, unknown

MCTypes == {attach, gated, orphan, retired}

MCRoles == [a \in Types |-> 1]

By(role, type, key) == [type |-> type, key |-> key, edge |-> fact1, role |-> role, valid |-> TRUE]

(* Retries of two keys, with calls that are refused on the way.            *)
Retries == {By(1, attach, k1), By(1, gated, k1), By(2, orphan, k1), By(0, retired, k2),
            [By(1, attach, k2) EXCEPT !.valid = FALSE],
            [By(1, attach, k2) EXCEPT !.edge = unknown]}

=============================================================================
