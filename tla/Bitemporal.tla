------------------------------ MODULE Bitemporal ------------------------------
(***************************************************************************)
(* The two time axes of an edge row.                                       *)
(*                                                                         *)
(* Every edge carries two half-open ranges: valid_time, when the fact is   *)
(* true in the world, and sys_time, when the platform believed it.  A      *)
(* range that is still open ends at Infinity.  World times and the         *)
(* database clock share one scale.                                         *)
(***************************************************************************)
EXTENDS Naturals

CONSTANT Infinity   \* upper bound of an open range ('infinity'::timestamptz)

ASSUME InfinityAssumption == Infinity \notin Nat

Instant  == Nat
Endpoint == Nat \cup {Infinity}

(* a < b, where only b may be Infinity. *)
Before(a, b) == b = Infinity \/ (b # Infinity /\ a < b)

(* upper(sys_time) = 'infinity': the row is what the platform believes now. *)
Live(row) == row.sys_to = Infinity

(* valid_time @> at *)
ValidAt(row, at) == row.valid_from <= at /\ Before(at, row.valid_to)

(* a.valid_time && b.valid_time *)
Overlaps(a, b) == Before(a.valid_from, b.valid_to) /\ Before(b.valid_from, a.valid_to)

=============================================================================
