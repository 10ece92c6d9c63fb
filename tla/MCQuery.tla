------------------------------ MODULE MCQuery -------------------------------
EXTENDS QueryScope

Calls(x, ms) == {<<x, m>> : m \in ms}
AllDialects == DOMAIN Features

(* Values through every clause, in every order and nesting. *)
Places == [calls |-> Calls("outer", {"Where", "Join", "Having", "With", "FromSubquery", "JoinSub",
                                     "UNION", "sub"})
                     \cup Calls("inner", {"Where"}),
           terminals |-> {"All", "Count", "Into", "PluckExpr"},
           dialects |-> {"postgres"}, depth |-> 3]
Nested == [calls |-> Calls("outer", {"Where", "With", "FromSubquery", "JoinSub", "UNION"})
                     \cup Calls("inner", {"Where"}),
           terminals |-> {"All", "Into"}, dialects |-> {"postgres"}, depth |-> 4]

(* Conditions: raw ones, typed ones, groups, under the soft-delete scope. *)
Conditions == [calls |-> Calls("outer", {"Scope", "Where", "cmp", "list", "group", "sub", "Limit"}),
               terminals |-> {"All", "First", "Count"},
               dialects |-> {"postgres"}, depth |-> 3]

(* Every kind of predicate and clause, in pairs. *)
Shapes == [calls |-> Calls("outer", {"cmp", "list", "null", "group", "json", "array", "match", "sub",
                                     "Limit", "OrderBy", "GroupBy", "Having", "Distinct", "Lock"}),
           terminals |-> {"All", "Count", "Sum"},
           dialects |-> AllDialects, depth |-> 2]

(* What some engine lacks, asked for directly, in a subquery, or of a builder *)
(* already placed.                                                            *)
Optional == [calls |-> Calls("outer", {"DistinctOn", "Lock", "match", "With", "JoinLateral",
                                       "INTERSECT", "sub"})
                       \cup Calls("inner", {"Lock", "match", "DistinctOn"}),
             terminals |-> {"All", "Into"}, dialects |-> {"sqlite", "mysql"}, depth |-> 3]

(* Columns the model does not have; the order of the checks. *)
Columns == [calls |-> Calls("outer", {"unknown", "OrderBy", "GroupBy", "Project", "Distinct",
                                      "From", "WithRecursive", "sub", "EXCEPT", "CompoundAll"})
                      \cup Calls("inner", {"unknown", "OrderBy", "GroupBy", "Project"}),
            terminals |-> {"All", "Pluck", "Sum"},
            dialects |-> {"sqlite"}, depth |-> 3]

(* Updates, deletes and inserts. *)
Writes == [calls |-> Calls("write", {"Set", "Where", "From", "cmp", "group", "unknown", "sub",
                                     "AddRow"})
                     \cup Calls("inner", {"Where"}),
           terminals |-> {"Update", "Delete", "Insert"},
           dialects |-> {"mssql"}, depth |-> 3]

Inserts == [calls |-> Calls("write", {"AddRow", "Set", "From", "Where"}),
            terminals |-> {"Update", "Delete", "Insert"}, dialects |-> AllDialects, depth |-> 3]

(* A raw condition with an OR in it. *)
BareOr == [calls |-> Calls("outer", {"Scope", "Where", "WhereOr", "cmp"}),
           terminals |-> {"All", "Count"}, dialects |-> {"sqlite"}, depth |-> 2]

(* A lock asked for within a predicate. *)
LockWithin == [calls |-> Calls("outer", {"sub", "cmp"}) \cup Calls("inner", {"Lock", "Where"}),
               terminals |-> {"All"}, dialects |-> {"sqlite", "postgres"}, depth |-> 3]
LockScenarios == {LockWithin}

MCScenarios == {Places, Nested, Conditions, Optional, Columns, Shapes, Writes, Inserts, BareOr}
=============================================================================
