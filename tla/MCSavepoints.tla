---------------------------- MODULE MCSavepoints ----------------------------
(* Instances of Savepoints: the writes are interchangeable.                *)
EXTENDS Savepoints, TLC

CONSTANTS m1, m2

Symmetry == Permutations(Marks)
=============================================================================
