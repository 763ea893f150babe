------------------------------- MODULE EdgeRows -------------------------------
(***************************************************************************)
(* The queries of app/domain/edge.py over a set of edge rows, and the      *)
(* relation flags they depend on.  A set of rows is a function from edge   *)
(* ids.                                                                    *)
(***************************************************************************)
EXTENDS Bitemporal, ReadCommitted

CONSTANTS
  One,         \* predicates with cardinality_object = "one"
  Symmetric    \* predicates flagged symmetric

Key(row) == <<row.subject, row.predicate>>

SameTriple(a, b) == Key(a) = Key(b) /\ a.object = b.object

LiveIds(view) == {e \in DOMAIN view : Live(view[e])}

(* The relations whose new facts replace the old ones. *)
Exclusive(p) == p \in One /\ p \notin Symmetric

\* Fault: a live copy of the triple is never found.
Duplicates_NoDedup(view, f) == {}

\* Fault: the query leaves out the object.
Duplicates_AnyObject(view, f) ==
  {e \in LiveIds(view) : Key(view[e]) = Key(f) /\ ValidAt(view[e], f.valid_from)}

(* The live rows of the same triple that already hold at valid_from.       *)
Duplicates(view, f) ==
  {e \in LiveIds(view) : SameTriple(view[e], f) /\ ValidAt(view[e], f.valid_from)}

\* Fault: only rows that contain the new valid_from are superseded.
Superseded_StartOnly(view, new) ==
  {e \in LiveIds(view) \ {new} : /\ Key(view[e]) = Key(view[new])
                                 /\ ValidAt(view[e], view[new].valid_from)}

(* The live rows of the same subject and predicate a new row replaces.     *)
Superseded(view, new) ==
  {e \in LiveIds(view) \ {new} : /\ Key(view[e]) = Key(view[new])
                                 /\ Overlaps(view[e], view[new])}

(* An UPDATE of valid_time to end at at raises when at does not follow     *)
(* lower(valid_time): the range would be reversed, or empty and refused by *)
(* the CHECK.                                                              *)
RangeRefused(row, at) == ~Before(row.valid_from, at)

=============================================================================
