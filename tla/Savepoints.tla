----------------------------- MODULE Savepoints -----------------------------
(***************************************************************************)
(* liteorm's transaction handles: BoundTx over the txAdapter/savepoint pair*)
(* of internal/sqladapter (SQLite, MySQL, SQL Server) and over pgx's nested*)
(* transactions (Postgres), on one connection of a database engine.        *)
(*                                                                         *)
(* The engine is external: the durable set, the working set and the        *)
(* savepoints of the transaction in progress, with the rules each engine   *)
(* documents for duplicate names, RELEASE and ROLLBACK TO.                 *)
(*                                                                         *)
(* A handle of the Go code holds its sql.Tx, a depth and a name; "status"  *)
(* and "began" record what the caller did with it.                         *)
(***************************************************************************)
EXTENDS Naturals, Sequences, FiniteSets

CONSTANTS
  Dialects,     \* the engines considered; a behaviour runs on one of them
  Marks,        \* the writes a behaviour may make (bound)
  MaxHandles,   \* how many handles a behaviour may open (bound)
  DeferOn       \* the engines on which callers defer Rollback, see "Callers"

ASSUME SavepointsAssumption ==
  /\ Dialects \subseteq {"sqlite", "mysql", "mssql", "postgres"}
  /\ MaxHandles \in Nat
  /\ DeferOn \subseteq Dialects

VARIABLES
  dialect,      \* d.Name()
  current,      \* the handle of the transaction in progress, 0 if none
  store,        \* the durable marks
  work,         \* the marks visible on the connection
  savepoints,   \* the engine's savepoints, oldest first
  handles       \* the liteorm.Tx handles, in the order they were opened

vars == <<dialect, current, store, work, savepoints, handles>>

Savepoint == [name: Nat, saved: SUBSET Marks]

Handle == [tx: Nat, depth: Nat, name: Nat, began: SUBSET Marks,
           status: {"open", "committed", "rolledback", "failed", "void"}]

Ids == DOMAIN handles

(***************************************************************************)
(* The engine.                                                             *)
(***************************************************************************)
Named(name) == {i \in DOMAIN savepoints : savepoints[i].name = name}

\* Every statement about a savepoint means the latest one of that name.
Latest(name) == CHOOSE i \in Named(name) : \A j \in Named(name) : j <= i

Without(i) ==
  SubSeq(savepoints, 1, i - 1) \o SubSeq(savepoints, i + 1, Len(savepoints))

\* SAVEPOINT name / SAVE TRANSACTION name.  MySQL deletes the older savepoint
\* of the same name, the others keep it underneath.
Save(name) ==
  LET kept == IF dialect = "mysql" /\ Named(name) # {}
              THEN Without(Latest(name))
              ELSE savepoints
  IN savepoints' = Append(kept, [name |-> name, saved |-> work])

\* RELEASE SAVEPOINT drops it and those opened after it.
Release(name) == savepoints' = SubSeq(savepoints, 1, Latest(name) - 1)

\* ROLLBACK TO SAVEPOINT restores the working set.
Restore(name) == work' = savepoints[Latest(name)].saved

\* ROLLBACK TO SAVEPOINT keeps the savepoint itself and drops the later ones.
Keep(name) == savepoints' = SubSeq(savepoints, 1, Latest(name))

EndTx(durable) ==
  /\ current' = 0
  /\ store' = durable
  /\ work' = durable
  /\ savepoints' = <<>>

(***************************************************************************)
(* The adapters.                                                           *)
(***************************************************************************)
Native == dialect = "postgres"      \* pgx, not sqladapter

\* A finished sql.Tx / pgx.Tx answers ErrTxDone without reaching the engine.
InProgress(h) == current # 0 /\ handles[h].tx = current

IsRoot(h) == handles[h].depth = 0

Set(h, status) ==
  handles' = [handles EXCEPT ![h].status = IF @ = "open" THEN status ELSE @]

New(tx, depth, name) ==
  Append(handles, [tx |-> tx, depth |-> depth, name |-> name, began |-> work,
                   status |-> "open"])

\* conn.BeginTx: the transaction itself, depth 0.
BeginTx ==
  /\ current = 0
  /\ Len(handles) < MaxHandles
  /\ current' = Len(handles) + 1
  /\ handles' = New(Len(handles) + 1, 0, 0)
  /\ UNCHANGED <<dialect, store, work, savepoints>>

SpNameShared(h) == 1                \* mutant: the depth left out of the name

\* liteorm_sp_{depth+1}; pgx numbers the savepoints of a connection.
SpName(h) == IF Native THEN Len(handles) + 1 ELSE handles[h].depth + 1

\* beginSavepoint, from the transaction or from a savepoint.
BeginSavepoint(h) ==
  /\ InProgress(h)
  /\ Len(handles) < MaxHandles
  /\ Save(SpName(h))
  /\ handles' = New(handles[h].tx, handles[h].depth + 1, SpName(h))
  /\ UNCHANGED <<dialect, current, store, work>>

\* A write through the handle's ExecContext.
Write(h) ==
  /\ InProgress(h)
  /\ \E m \in Marks \ work : work' = work \cup {m}
  /\ UNCHANGED <<dialect, current, store, savepoints, handles>>

\* The call returns an error and the engine is as before.
Refused(h) ==
  /\ Set(h, "failed")
  /\ UNCHANGED <<dialect, current, store, work, savepoints>>

\* txAdapter.Commit
CommitTx(h) ==
  /\ IsRoot(h)
  /\ \/ /\ InProgress(h)
        /\ EndTx(work)
        /\ Set(h, "committed")
        /\ UNCHANGED dialect
     \/ ~InProgress(h) /\ Refused(h)

RollbackTxLeavesOpen(h) ==          \* mutant: the connection goes back as it is
  /\ IsRoot(h)
  /\ \/ /\ InProgress(h)
        /\ current' = 0
        /\ Set(h, "rolledback")
        /\ UNCHANGED <<dialect, store, work, savepoints>>
     \/ ~InProgress(h) /\ Refused(h)

\* txAdapter.Rollback
RollbackTx(h) ==
  /\ IsRoot(h)
  /\ \/ /\ InProgress(h)
        /\ EndTx(store)
        /\ Set(h, "rolledback")
        /\ UNCHANGED dialect
     \/ ~InProgress(h) /\ Refused(h)

\* RELEASE SAVEPOINT, and nothing on SQL Server.
ReleaseSavepoint(h) ==
  IF dialect = "mssql" THEN UNCHANGED savepoints ELSE Release(handles[h].name)

\* A statement about a savepoint of a transaction in progress succeeds if the
\* engine knows the name; pgx also refuses the handle it saw finished.
Reaches(h) ==
  /\ InProgress(h)
  /\ Native => handles[h].status = "open"
  /\ Named(handles[h].name) # {}

SpCommitNoRelease(h) ==             \* mutant: RELEASE left out
  /\ ~IsRoot(h)
  /\ \/ Reaches(h) /\ Set(h, "committed") /\ UNCHANGED savepoints
     \/ ~Reaches(h) /\ Set(h, "failed") /\ UNCHANGED savepoints
  /\ UNCHANGED <<dialect, current, store, work>>

\* savepoint.Commit.  On SQL Server nothing is executed, so nothing can fail:
\* the caller is told nil even when the transaction is gone ("void").
SpCommit(h) ==
  /\ ~IsRoot(h)
  /\ \/ /\ Reaches(h)
        /\ ReleaseSavepoint(h)
        /\ Set(h, "committed")
        /\ UNCHANGED <<dialect, current, store, work>>
     \/ /\ ~Reaches(h) /\ dialect = "mssql"
        /\ Set(h, "void")
        /\ UNCHANGED <<dialect, current, store, work, savepoints>>
     \/ ~Reaches(h) /\ dialect # "mssql" /\ Refused(h)

SpRollbackKeepsWork(h) ==           \* mutant: RELEASE without ROLLBACK TO
  /\ ~IsRoot(h)
  /\ \/ /\ Reaches(h)
        /\ ReleaseSavepoint(h)
        /\ Set(h, "rolledback")
        /\ UNCHANGED <<dialect, current, store, work>>
     \/ ~Reaches(h) /\ Refused(h)

\* savepoint.Rollback: ROLLBACK TO, then RELEASE where sqladapter can; pgx
\* leaves the savepoint behind.
SpRollback(h) ==
  /\ ~IsRoot(h)
  /\ \/ /\ Reaches(h)
        /\ Restore(handles[h].name)
        /\ IF Native \/ dialect = "mssql"
           THEN Keep(handles[h].name)
           ELSE Release(handles[h].name)
        /\ Set(h, "rolledback")
        /\ UNCHANGED <<dialect, current, store>>
     \/ ~Reaches(h) /\ Refused(h)

\* The connection dies or the transaction's context is cancelled.
Lost ==
  /\ current # 0
  /\ EndTx(store)
  /\ UNCHANGED <<dialect, handles>>

(***************************************************************************)
(* Callers.  Transactions are used from the inside out: only the innermost *)
(* open handle of a transaction works, begins, commits or rolls back.      *)
(* Callers who follow the documented idiom "defer h.Rollback(ctx)" also    *)
(* roll finished handles back, when no handle opened later is open any     *)
(* more.                                                                   *)
(***************************************************************************)
LastOpen(h) ==
  \A g \in Ids : g > h /\ handles[g].tx = handles[h].tx
                   => handles[g].status # "open"

MayUse(h) == handles[h].status = "open" /\ LastOpen(h)

Begin(h) == MayUse(h) /\ BeginSavepoint(h)

Exec(h) == MayUse(h) /\ Write(h)

Commit(h) == MayUse(h) /\ (CommitTx(h) \/ SpCommit(h))

Rollback(h) == MayUse(h) /\ (RollbackTx(h) \/ SpRollback(h))

LateRollback(h) ==
  /\ dialect \in DeferOn
  /\ handles[h].status # "open" /\ LastOpen(h)
  /\ RollbackTx(h) \/ SpRollback(h)

Init ==
  /\ dialect \in Dialects
  /\ current = 0
  /\ store = {}
  /\ work = {}
  /\ savepoints = <<>>
  /\ handles = <<>>

Next ==
  \/ BeginTx
  \/ Lost
  \/ \E h \in Ids :
       Begin(h) \/ Exec(h) \/ Commit(h) \/ Rollback(h) \/ LateRollback(h)

Spec == Init /\ [][Next]_vars

(***************************************************************************)
(* Properties.                                                             *)
(***************************************************************************)
\* The variables have their types, a handle belongs to a transaction opened
\* before it, and outside a transaction the connection shows what is durable.
TypeOK ==
  /\ dialect \in Dialects
  /\ current \in 0 .. Len(handles)
  /\ store \in SUBSET Marks
  /\ work \in SUBSET Marks
  /\ savepoints \in Seq(Savepoint)
  /\ handles \in Seq(Handle)
  /\ \A h \in Ids : handles[h].tx \in 1 .. h
  /\ current = 0 => savepoints = <<>> /\ work = store

\* Every open nested handle of the transaction in progress can still be undone:
\* the savepoint its Rollback will reach is known to the engine and holds the
\* work as it was when that handle began, whatever happened since to other
\* handles that had the same name (beginSavepoint, savepoint.Commit/Rollback).
OpenHandlesRestorable ==
  \A h \in Ids :
    handles[h].status = "open" /\ InProgress(h) /\ ~IsRoot(h)
      => LET name == handles[h].name
         IN Named(name) # {} /\ savepoints[Latest(name)].saved = handles[h].began

\* Used from the inside out, the handles are nested transactions on every
\* engine: the open levels of the transaction in progress, each with the work
\* it found when it began, make up the abstract stack, and what callers were
\* told of Commit and Rollback is what happened.
OpenNow == {h \in Ids : InProgress(h) /\ handles[h].status = "open"}

OpenLevels ==
  [i \in {handles[h].depth + 1 : h \in OpenNow} |->
     handles[CHOOSE h \in OpenNow : handles[h].depth + 1 = i].began]

Ended(status) == Cardinality({h \in Ids : handles[h].status = status})

Nested == INSTANCE NestedTx WITH stack <- OpenLevels,
                                 commits <- Ended("committed"),
                                 rollbacks <- Ended("rolledback")

ImplementsNestedTx == Nested!Spec

\* "A deferred rollback is the safe idiom - it's a no-op once you've committed"
\* (docs/guides/transactions.md): Rollback on a finished handle changes neither
\* the durable nor the uncommitted work.
LateRollbackIsNoOp ==
  [][(\E h \in Ids : LateRollback(h)) => UNCHANGED <<store, work>>]_vars
=============================================================================
