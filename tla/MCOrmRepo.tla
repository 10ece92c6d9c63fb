----------------------------- MODULE MCOrmRepo -----------------------------
(* Instances of OrmRepo: callers and embeddings are interchangeable.       *)
EXTENDS OrmRepo, TLC

Symmetry == Permutations(Procs) \cup Permutations(Embeddings)
=============================================================================
