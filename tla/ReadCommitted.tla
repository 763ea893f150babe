----------------------------- MODULE ReadCommitted -----------------------------
(***************************************************************************)
(* What a statement of a transaction sees at READ COMMITTED, the level of  *)
(* every session_scope of app/db/session.py: the rows committed when it    *)
(* starts, and over them the rows its own transaction has written.         *)
(***************************************************************************)

Overlay(old, new) ==
  [e \in DOMAIN old \cup DOMAIN new |-> IF e \in DOMAIN new THEN new[e] ELSE old[e]]

=============================================================================
