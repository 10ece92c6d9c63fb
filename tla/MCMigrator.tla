----------------------------- MODULE MCMigrator -----------------------------
(* Instances of Migrator.  Three versions, the second of two statements and *)
(* the third written without a Down.                                        *)
EXTENDS Migrator, FiniteSets

MCVersions == 1 .. 3
MCStmts == <<1, 2, 1>>
MCDownText == <<"sql", "sql", "empty">>

\* Each release adds its migrations at the end.
Appended == {1 .. n : n \in 1 .. 3}
=============================================================================
