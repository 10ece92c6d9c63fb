--------------------------- MODULE MCAssociation ---------------------------
(***************************************************************************)
(* Two owners of one type and one of another that has the key of the first.*)
(***************************************************************************)
EXTENDS Association

MCOwners == {[type |-> "users", id |-> 1], [type |-> "users", id |-> 2],
             [type |-> "pets", id |-> 1]}
=============================================================================
