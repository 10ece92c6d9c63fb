------------------------------- MODULE MCLob -------------------------------
(* Uses of large objects for TLC. *)
EXTENDS Lob, TLC

CONSTANTS p1, p2

MCUses == {
  \* two processes allocate and write
  [callers |-> {p1, p2}, ops |-> {"open", "intx"}, faults |-> {"error", "crash"}],
  \* one process makes every call
  [callers |-> {p1}, ops |-> {"open", "drop", "clone", "intx"}, faults |-> {"error"}]}
\* Nothing tells one row from another.
RowSymmetry == Permutations(Rows)
=============================================================================
