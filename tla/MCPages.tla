------------------------------ MODULE MCPages ------------------------------
(* Values of the constants of Pages for TLC. *)
EXTENDS PagesInvariant

Rows == 1..7
(* Syncs 2 and 3 share a place (the entity syncs of a connection have no object), so do 5 and 6. *)
SharedPlaces == <<1, 2, 2, 3, 4, 4, 5>>

=============================================================================
