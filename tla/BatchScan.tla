----------------------------- MODULE BatchScan -----------------------------
(***************************************************************************)
(* Repo.FindInBatches (orm/read.go): one walk over the rows that match the *)
(* scopes of the Repo, by primary key, while fn and other sessions insert, *)
(* delete and update rows.  Between two batches nothing is held: a walk is *)
(* a sequence of statements, each of which sees the table as it is then.   *)
(***************************************************************************)
EXTENDS Integers, FiniteSets

CONSTANTS
  Keys,             \* the primary keys a row may have
  NoKey,            \* the nil cursor
  BatchSize

ASSUME BatchScanAssumption ==
  /\ Keys \subseteq Int
  /\ NoKey \notin Int
  /\ BatchSize \in Nat \ {0}

VARIABLES
  table,        \* the keys of the rows that match the scopes
  pc,           \* where the walk is
  cursor,       \* the loop's cursor
  batch,        \* the keys of the rows in the batch
  seen,         \* seen[k]: how often fn was given row k, 2 for more than once
  stable,       \* the rows that were there all the time since the walk began
  moved,        \* where fn has moved the key of a last element: "up", "down"
  result        \* what FindInBatches returned

vars == <<table, pc, cursor, batch, seen, stable, moved, result>>

Init ==
  /\ table \in SUBSET Keys
  /\ pc = "query"
  /\ cursor = NoKey
  /\ batch = {}
  /\ seen = [k \in Keys |-> 0]
  /\ stable = table
  /\ moved = {}
  /\ result = "none"

Return(r) == pc' = "done" /\ result' = r

(***************************************************************************)
(* The loop.                                                               *)
(***************************************************************************)
AfterInclusive ==                   \* mutant: pk >= cursor
  {k \in table : cursor = NoKey \/ k >= cursor}

\* WHERE pk > cursor, left out for the nil cursor.
After == {k \in table : cursor = NoKey \/ k > cursor}

IsPrefixUnordered(B) ==             \* mutant: no ORDER BY
  /\ Cardinality(B) <= BatchSize
  /\ B # After => Cardinality(B) = BatchSize

\* ORDER BY pk ASC LIMIT batchSize
IsPrefix(B) ==
  /\ \A b \in B, k \in After \ B : b < k
  /\ Cardinality(B) <= BatchSize
  /\ B # After => Cardinality(B) = BatchSize

\* All(ctx), then the AfterFind hooks.
Query ==
  /\ pc = "query"
  /\ \/ After = {} /\ Return("nil") /\ UNCHANGED batch
     \/ /\ After # {}
        /\ batch' \in {B \in SUBSET After : IsPrefix(B)}
        /\ pc' = "fn" /\ UNCHANGED result
     \/ Return("error") /\ UNCHANGED batch
  /\ UNCHANGED <<table, cursor, seen, stable, moved>>

IsShort == Cardinality(batch) < BatchSize

\* fn is given the batch, which nothing holds after it.
Given ==
  /\ batch' = {}
  /\ seen' = [k \in Keys |-> IF k \notin batch THEN seen[k]
                             ELSE IF seen[k] = 0 THEN 1 ELSE 2]

\* fn(batch) fails, or the batch was the last one.
FnReturns ==
  /\ pc = "fn"
  /\ Given
  /\ Return("error") \/ (IsShort /\ Return("nil"))
  /\ UNCHANGED <<table, cursor, stable, moved>>

FnForgetsCursor ==                  \* mutant: the cursor is not set
  /\ pc = "fn" /\ ~IsShort
  /\ Given
  /\ pc' = "query"
  /\ UNCHANGED <<table, cursor, stable, moved, result>>

FirstOf(B) == CHOOSE k \in B : \A b \in B : k <= b

FnFirstKey ==                       \* mutant: batch[0] instead of the last one
  /\ pc = "fn" /\ ~IsShort
  /\ Given
  /\ cursor' = FirstOf(batch)
  /\ pc' = "query"
  /\ UNCHANGED <<table, stable, moved, result>>

\* fn(batch) returned nil: the next cursor is the key of the last element.
Fn ==
  /\ pc = "fn" /\ ~IsShort
  /\ Given
  /\ cursor' \in {k \in batch : \A b \in batch : b <= k}
  /\ pc' = "query"
  /\ UNCHANGED <<table, stable, moved, result>>

\* The same, but the last element has another key by then, which the loop takes
\* for its cursor: a greater one (Repo.Create reads the key of a copy back into
\* the element it is given) ...
FnRaises ==
  /\ pc = "fn" /\ ~IsShort
  /\ Given
  /\ cursor' \in {k \in Keys : \A b \in batch : b < k}
  /\ moved' = moved \cup {"up"}
  /\ pc' = "query"
  /\ UNCHANGED <<table, stable, result>>

\* ... or a lower one: fn blanks the element or puts the batch in another order.
FnLowers ==
  /\ pc = "fn" /\ ~IsShort
  /\ Given
  /\ cursor' \in {k \in Keys \cup {0} : \E b \in batch : k < b}
  /\ moved' = moved \cup {"down"}
  /\ pc' = "query"
  /\ UNCHANGED <<table, stable, result>>

Step == Query \/ FnReturns \/ Fn \/ FnRaises \/ FnLowers

(***************************************************************************)
(* The others, and fn itself through other statements.                     *)
(***************************************************************************)
\* A row is inserted, restored or updated into the scope.
Insert ==
  /\ pc # "done"
  /\ \E k \in Keys \ table : table' = table \cup {k}
  /\ UNCHANGED <<pc, cursor, batch, seen, stable, moved, result>>

\* A row is deleted or updated out of the scope.
Remove ==
  /\ pc # "done"
  /\ \E k \in table :
       /\ table' = table \ {k}
       /\ stable' = stable \ {k}
  /\ UNCHANGED <<pc, cursor, batch, seen, moved, result>>

Next == Step \/ Insert \/ Remove

Spec == Init /\ [][Next]_vars

\* The loop runs until it returns; the others may do nothing.
FairSpec == Spec /\ WF_vars(Step)

(***************************************************************************)
(* Properties.                                                             *)
(***************************************************************************)
\* Types; a batch is not empty when fn is called, never longer than asked for and
\* beyond the cursor.
TypeOK ==
  /\ table \in SUBSET Keys
  /\ pc \in {"query", "fn", "done"}
  /\ cursor \in Keys \cup {0, NoKey}
  /\ batch \in SUBSET Keys
  /\ Cardinality(batch) <= BatchSize
  /\ pc = "fn" => /\ batch # {}
                  /\ cursor # NoKey => \A b \in batch : b > cursor
  /\ seen \in [Keys -> 0 .. 2]
  /\ stable \in SUBSET table
  /\ moved \in SUBSET {"up", "down"}
  /\ result \in {"none", "nil", "error"}

\* "FindInBatches processes every row matching the current scopes": when it
\* returns nil, every row that matched all the time was given to fn, whatever
\* was inserted and deleted around it meanwhile, unless fn left a greater key in
\* the last element of a batch.  A lower one leaves no row out.
NoneSkipped == result = "nil" /\ "up" \notin moved => \A k \in stable : seen[k] > 0

\* No row is given to fn twice, even one that is deleted and comes back, unless
\* fn left a lower key in the last element of a batch.  A greater one gives no
\* row again.
NoneTwice == "down" \notin moved => \A k \in Keys : seen[k] <= 1

\* The walk ends: each batch moves the cursor up, and a row inserted behind it
\* does not bring it back.  Only an fn that lowers the cursor again and again
\* keeps it going.
WalkEnds == <>(pc = "done") \/ []<><<FnLowers>>_vars
=============================================================================
