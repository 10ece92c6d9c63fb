------------------------------ MODULE NestedTx ------------------------------
(***************************************************************************)
(* What liteorm.Tx promises (querier.go, docs/guides/transactions.md):     *)
(* transactions nest.  A nested transaction that commits hands its work to *)
(* the enclosing one, a nested transaction that rolls back undoes exactly  *)
(* the work done since it began, and only the commit of the outermost one  *)
(* makes anything durable.                                                 *)
(*                                                                         *)
(* The work is a set of marks: every write adds a mark nobody wrote before,*)
(* so a set of marks tells which writes survive.                           *)
(***************************************************************************)
EXTENDS Naturals, Sequences

CONSTANT Marks      \* the writes a behaviour may make

VARIABLES
  store,            \* the durable marks
  work,             \* the marks visible inside the transaction
  stack,            \* stack[i]: the work when the i-th open level began
  commits,          \* how many Commits were reported as done
  rollbacks         \* how many Rollbacks were reported as done

vars == <<store, work, stack, commits, rollbacks>>

TypeOK ==
  /\ store \in SUBSET Marks
  /\ work \in SUBSET Marks
  /\ stack \in Seq(SUBSET Marks)
  /\ commits \in Nat
  /\ rollbacks \in Nat

Init ==
  /\ store = {}
  /\ work = {}
  /\ stack = <<>>
  /\ commits = 0
  /\ rollbacks = 0

Pop(s) == SubSeq(s, 1, Len(s) - 1)

Begin ==
  /\ stack' = Append(stack, work)
  /\ UNCHANGED <<store, work, commits, rollbacks>>

Write ==
  /\ stack # <<>>
  /\ \E m \in Marks \ work : work' = work \cup {m}
  /\ UNCHANGED <<store, stack, commits, rollbacks>>

Commit ==
  /\ stack # <<>>
  /\ stack' = Pop(stack)
  /\ store' = IF Len(stack) = 1 THEN work ELSE store
  /\ commits' = commits + 1
  /\ UNCHANGED <<work, rollbacks>>

\* Only the outermost rollback sees the durable marks again; the others see
\* what they had when they began.
Rollback ==
  /\ stack # <<>>
  /\ stack' = Pop(stack)
  /\ work' = stack[Len(stack)]
  /\ rollbacks' = rollbacks + 1
  /\ UNCHANGED <<store, commits>>

\* The engine gives the transaction up: connection lost, context cancelled,
\* deadlock victim.
Abort ==
  /\ stack # <<>>
  /\ stack' = <<>>
  /\ work' = store
  /\ UNCHANGED <<store, commits, rollbacks>>

Next == Begin \/ Write \/ Commit \/ Rollback \/ Abort

Spec == Init /\ [][Next]_vars
=============================================================================
