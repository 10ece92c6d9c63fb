------------------------------ MODULE Migrator ------------------------------
(***************************************************************************)
(* migrate.Migrator: the calls UpTo (Up is UpTo of the highest version),   *)
(* Down, DownTo, Status and Force over the single-row (version, dirty)     *)
(* ledger, against a database in which every statement commits on its own. *)
(* Every round trip is a step; between two of them the process may die and *)
(* any of them may fail.                                                   *)
(*                                                                         *)
(* The effect of a migration is how many statements of its Up are in the   *)
(* schema.  A Down written with it undoes them last one first.  A statement*)
(* whose effect is already there ("table exists") or not yet (an ALTER of a*)
(* missing table) is refused by the database.                              *)
(***************************************************************************)
EXTENDS Naturals

CONSTANTS
  Procs,        \* processes that call a Migrator
  Exclusive,    \* deployments run one Migrator at a time: the code has no lock
  Versions,     \* the versions that exist
  Stmts,        \* Stmts[v]: how many statements the Up of v has
  DownText,     \* DownText[v]: what its author wrote as Down
  FromFiles,    \* the migrations were written by WritePair and read by Load
  Calls         \* the lists of migrations the callers pass

ASSUME MigratorAssumption ==
  /\ Exclusive \in BOOLEAN
  /\ Versions \subseteq Nat \ {0}
  /\ Stmts \in [Versions -> Nat]
  /\ DownText \in [Versions -> {"sql", "empty"}]
  /\ FromFiles \in BOOLEAN
  /\ Calls \subseteq SUBSET Versions

VARIABLES
  table,        \* the ledger table exists
  row,          \* its row; version and dirty read 0, FALSE while not present
  done,         \* done[v]: how many statements of v are in effect
  run           \* run[p]: the call process p is in

vars == <<table, row, done, run>>

Points == {"idle", "ensure", "create", "insert", "read", "force", "pick",
           "up", "down read", "down mark", "down"}

Ops == {"up", "down", "downto", "status", "force"}

Targets == Versions \cup {0}

Call == [pc: Points, op: Ops, migs: SUBSET Versions, target: Targets,
         cur: Targets, v: Targets, k: Nat, result: {"none", "nil", "error"}]

Idle == [pc |-> "idle", op |-> "status", migs |-> {}, target |-> 0,
         cur |-> 0, v |-> 0, k |-> 0, result |-> "none"]

Init ==
  /\ table = FALSE
  /\ row = [present |-> FALSE, version |-> 0, dirty |-> FALSE]
  /\ done = [v \in Versions |-> 0]
  /\ run = [p \in Procs |-> Idle]

\* The schema is exactly that of version w.
SchemaAt(w) == \A v \in Versions : done[v] = IF v <= w THEN Stmts[v] ELSE 0

Return(p, result) == run' = [run EXCEPT ![p] = [Idle EXCEPT !.result = result]]

Goto(p, point) == run' = [run EXCEPT ![p].pc = point]

ledger == <<table, row>>

(***************************************************************************)
(* What WritePair puts into the down file, which Load reads back.          *)
(***************************************************************************)
OnDisk(down) == IF down = "empty" THEN "comment" ELSE down

Down(v) == IF FromFiles THEN OnDisk(DownText[v]) ELSE DownText[v]

\* splitStatements drops comments: nothing is left of a comment to run.
DownStmts(v) == IF Down(v) = "sql" THEN Stmts[v] ELSE 0

(***************************************************************************)
(* The steps of a call.                                                    *)
(***************************************************************************)
\* A caller follows the doc of Force and declares the version the schema is at.
Start(p) ==
  /\ run[p].pc = "idle"
  /\ Exclusive => \A q \in Procs : run[q].pc = "idle"
  /\ \E op \in Ops, migs \in Calls, target \in Targets :
       /\ op = "force" => SchemaAt(target)
       /\ run' = [run EXCEPT ![p] = [Idle EXCEPT !.pc = "ensure", !.op = op,
                                       !.migs = migs, !.target = target]]
  /\ UNCHANGED <<ledger, done>>

AfterEnsure(p) == IF run[p].op = "force" THEN "force" ELSE "read"

LedgerExistsNoCreate(p) ==                  \* mutant: no CREATE TABLE
  /\ run[p].pc = "ensure"
  /\ Goto(p, IF row.present THEN AfterEnsure(p) ELSE "insert")
  /\ UNCHANGED <<ledger, done>>

\* ensureLedger, first the introspection ...
LedgerExists(p) ==
  /\ run[p].pc = "ensure"
  /\ Goto(p, IF table THEN AfterEnsure(p) ELSE "create")
  /\ UNCHANGED <<ledger, done>>

\* ... then CREATE TABLE, which fails if another process was faster ...
CreateLedger(p) ==
  /\ run[p].pc = "create"
  /\ IF table THEN Return(p, "error") ELSE Goto(p, "insert")
  /\ table' = TRUE
  /\ UNCHANGED <<row, done>>

\* ... then the INSERT of (0, false).
InsertRow(p) ==
  /\ run[p].pc = "insert"
  /\ row' = [row EXCEPT !.present = TRUE]
  /\ Goto(p, AfterEnsure(p))
  /\ UNCHANGED <<table, done>>

SetVersionKeepsDirty(version, dirty) ==     \* mutant: "dirty" not in the SET
  row' = IF row.present THEN [row EXCEPT !.version = version] ELSE row

\* UPDATE ledger SET version, dirty: no row, no effect, no error.
SetVersion(version, dirty) ==
  row' = IF row.present
         THEN [present |-> TRUE, version |-> version, dirty |-> dirty]
         ELSE row

\* Force: setVersion(version, false).
SetForced(p) ==
  /\ run[p].pc = "force"
  /\ SetVersion(run[p].target, FALSE)
  /\ Return(p, "nil")
  /\ UNCHANGED <<table, done>>

ReadVersionIgnoresDirty(p) ==               \* mutant: no DirtyError from UpTo
  /\ run[p].pc = "read"
  /\ IF run[p].op = "up"
     THEN run' = [run EXCEPT ![p].pc = "pick", ![p].cur = row.version]
     ELSE IF run[p].op = "downto" /\ row.version > run[p].target
          THEN Goto(p, "down read")
          ELSE IF run[p].op = "down" THEN Goto(p, "down read")
                                     ELSE Return(p, "nil")
  /\ UNCHANGED <<ledger, done>>

ReadVersionOffByOne(p) ==                   \* mutant: for cur >= target
  /\ run[p].pc = "read"
  /\ IF run[p].op = "up" /\ ~row.dirty
     THEN run' = [run EXCEPT ![p].pc = "pick", ![p].cur = row.version]
     ELSE IF run[p].op \in {"down", "downto"} /\ row.version >= run[p].target
          THEN Goto(p, "down read") ELSE Return(p, "error")
  /\ UNCHANGED <<ledger, done>>

\* Version at the head of UpTo, of DownTo's loop and of Status.
ReadVersion(p) ==
  /\ run[p].pc = "read"
  /\ \/ /\ run[p].op = "up" /\ row.dirty
        /\ Return(p, "error")
     \/ /\ run[p].op = "up" /\ ~row.dirty
        /\ run' = [run EXCEPT ![p].pc = "pick", ![p].cur = row.version]
     \/ /\ \/ run[p].op = "down"
           \/ run[p].op = "downto" /\ row.version > run[p].target
        /\ Goto(p, "down read")
     \/ /\ \/ run[p].op = "status"
           \/ run[p].op = "downto" /\ row.version <= run[p].target
        /\ Return(p, "nil")
  /\ UNCHANGED <<ledger, done>>

PendingBelow(p) ==                          \* mutant: the target left out
  {v \in run[p].migs : v > run[p].cur /\ v < run[p].target}

Pending(p) == {v \in run[p].migs : v > run[p].cur /\ v <= run[p].target}

PickAny(p, v) == v \in Pending(p)           \* mutant: no sortMigs

\* The loop of UpTo takes the migrations in the order sortMigs gives them.
IsNext(p, v) == v \in Pending(p) /\ \A u \in Pending(p) : v <= u

\* runStep, first call: setVersion(v, true).
UpMark(p) ==
  /\ run[p].pc = "pick"
  /\ \E v \in Versions :
       /\ IsNext(p, v)
       /\ SetVersion(v, TRUE)
       /\ run' = [run EXCEPT ![p].pc = "up", ![p].v = v, ![p].k = 0]
  /\ UNCHANGED <<table, done>>

\* No migration is left.
UpReturn(p) ==
  /\ run[p].pc = "pick" /\ Pending(p) = {}
  /\ Return(p, "nil")
  /\ UNCHANGED <<ledger, done>>

\* runStep, one statement of the Up: executed, or refused by the database.
UpStmt(p) ==
  LET v == run[p].v  k == run[p].k IN
  /\ run[p].pc = "up" /\ k < Stmts[v]
  /\ \/ /\ done[v] = k
        /\ done' = [done EXCEPT ![v] = k + 1]
        /\ run' = [run EXCEPT ![p].k = k + 1]
     \/ Return(p, "error") /\ UNCHANGED done
  /\ UNCHANGED ledger

\* runStep, last call: setVersion(v, false); the loop goes on.
UpDone(p) ==
  /\ run[p].pc = "up" /\ run[p].k = Stmts[run[p].v]
  /\ SetVersion(run[p].v, FALSE)
  /\ run' = [run EXCEPT ![p].pc = "pick", ![p].cur = run[p].v]
  /\ UNCHANGED <<table, done>>

\* Down: its own call of Version and the early returns.  At version 0 there is
\* nothing to do; DownTo does not come here at version 0.
DownRead(p) ==
  LET v == row.version IN
  /\ run[p].pc = "down read"
  /\ \/ /\ ~row.dirty /\ v # 0 /\ v \in run[p].migs /\ Down(v) # "empty"
        /\ run' = [run EXCEPT ![p].pc = "down mark", ![p].v = v]
     \/ /\ ~row.dirty /\ v = 0
        /\ IF run[p].op = "down" THEN Return(p, "nil") ELSE Goto(p, "read")
     \/ /\ \/ row.dirty
           \/ v # 0 /\ v \notin run[p].migs
           \/ v # 0 /\ v \in run[p].migs /\ Down(v) = "empty"
        /\ Return(p, "error")
  /\ UNCHANGED <<ledger, done>>

\* setVersion(cur, true)
DownMark(p) ==
  /\ run[p].pc = "down mark"
  /\ SetVersion(run[p].v, TRUE)
  /\ run' = [run EXCEPT ![p].pc = "down", ![p].k = DownStmts(run[p].v)]
  /\ UNCHANGED <<table, done>>

\* One statement of the Down; k are left.
DownStmt(p) ==
  LET v == run[p].v  k == run[p].k IN
  /\ run[p].pc = "down" /\ k > 0
  /\ \/ /\ done[v] = k
        /\ done' = [done EXCEPT ![v] = k - 1]
        /\ run' = [run EXCEPT ![p].k = k - 1]
     \/ Return(p, "error") /\ UNCHANGED done
  /\ UNCHANGED ledger

\* migs[idx-1].Version, or 0.
IsPrev(migs, v, prev) ==
  LET below == {u \in migs : u < v}
  IN IF below = {} THEN prev = 0
     ELSE prev \in below /\ \A u \in below : u <= prev

DownDoneOnce(p) ==                          \* mutant: DownTo does not loop
  /\ run[p].pc = "down" /\ run[p].k = 0
  /\ \E prev \in Targets :
       IsPrev(run[p].migs, run[p].v, prev) /\ SetVersion(prev, FALSE)
  /\ Return(p, "nil")
  /\ UNCHANGED <<table, done>>

\* setVersion(prev, false); DownTo loops.
DownDone(p) ==
  /\ run[p].pc = "down" /\ run[p].k = 0
  /\ \E prev \in Targets :
       IsPrev(run[p].migs, run[p].v, prev) /\ SetVersion(prev, FALSE)
  /\ IF run[p].op = "down" THEN Return(p, "nil") ELSE Goto(p, "read")
  /\ UNCHANGED <<table, done>>

Step(p) ==
  \/ LedgerExists(p) \/ CreateLedger(p) \/ InsertRow(p)
  \/ SetForced(p) \/ ReadVersion(p)
  \/ UpMark(p) \/ UpReturn(p) \/ UpStmt(p) \/ UpDone(p)
  \/ DownRead(p) \/ DownMark(p) \/ DownStmt(p) \/ DownDone(p)

\* The round trip at hand fails, or the process dies before it.
Stop(p) ==
  /\ run[p].pc # "idle"
  /\ Return(p, "error")
  /\ UNCHANGED <<ledger, done>>

\* "Resolve the database manually": the operator brings a dirty schema to that
\* of some version; Start lets him Force that version.
Resolve ==
  /\ row.dirty /\ \A p \in Procs : run[p].pc = "idle"
  /\ \E w \in Targets :
       done' = [v \in Versions |-> IF v <= w THEN Stmts[v] ELSE 0]
  /\ UNCHANGED <<ledger, run>>

Next == Resolve \/ \E p \in Procs : Start(p) \/ Step(p) \/ Stop(p)

Spec == Init /\ [][Next]_vars

\* A call that was started goes on unless its process dies; nobody has to call.
FairSpec == Spec /\ \A p \in Procs : WF_vars(Step(p))

(***************************************************************************)
(* Properties.                                                             *)
(***************************************************************************)
\* Types; a ledger row needs its table and is never dirty before it is there, and
\* a call that is past CREATE TABLE finds the table; one that runs statements is
\* about some version.
TypeOK ==
  /\ table \in BOOLEAN
  /\ row \in [present: BOOLEAN, version: Targets, dirty: BOOLEAN]
  /\ done \in [Versions -> Nat]
  /\ \A v \in Versions : done[v] <= Stmts[v]
  /\ run \in [Procs -> Call]
  /\ \A p \in Procs : run[p].pc \in {"up", "down mark", "down"}
                      => run[p].v \in Versions
  /\ \A p \in Procs : run[p].pc \notin {"idle", "ensure", "create"} => table
  /\ row.present => table
  /\ row.dirty => row.present

\* What the dirty flag is for: a ledger that is clean at version w describes the
\* schema, every migration up to w in effect as a whole and none above it, at
\* every moment and after a failure or a crash at any moment of any call.
CleanMeansComplete == row.present /\ ~row.dirty => SchemaAt(row.version)

\* The statements of v up to the k-th are in effect and the later ones are not,
\* and so for the versions before and after it.
Around(v, k) ==
  \A u \in Versions :
    done[u] = IF u = v THEN k ELSE IF u < v THEN Stmts[u] ELSE 0

\* runStep and Down work from the right place: the statements before the next
\* one are in effect and the later ones are not, and so for the other versions.
\* Without a ledger row, after a crash between CreateLedger and InsertRow, there
\* is no such promise: SetVersion updates nothing.
InPlace ==
  \A p \in Procs : run[p].pc \in {"up", "down"} /\ row.present
                   => Around(run[p].v, run[p].k)

Returned(p, op, result) ==
  run[p].op = op /\ run[p].pc # "idle" /\ run'[p].pc = "idle"
                 /\ run'[p].result = result

\* "UpTo applies pending migrations up to and including target": when it returns nil
\* they are all in effect.
UpReturnsDone ==
  [][\A p \in Procs : Returned(p, "up", "nil") =>
       \A v \in run[p].migs : v <= run[p].target => done'[v] = Stmts[v]]_vars

\* "DownTo rolls back every migration with version greater than target": when it
\* returns nil none of them is in effect.  (Unlike UpTo and Down it also returns nil on
\* a dirty ledger that is not above target, and then says nothing.)
DownToReturnsDone ==
  [][\A p \in Procs : Returned(p, "downto", "nil") /\ row'.present /\ ~row'.dirty =>
       \A v \in Versions : v > run[p].target => done'[v] = 0]_vars

\* A call comes to its end, DownTo's loop included, and one that returns nil has done
\* its work.
CallsComplete ==
  /\ \A p \in Procs : run[p].pc # "idle" ~> run[p].pc = "idle"
  /\ UpReturnsDone
  /\ DownToReturnsDone

\* A migration was interrupted.
Interrupted == row.dirty /\ \A p \in Procs : run[p].pc \notin {"up", "down"}

\* "the next run refuses until Force" (the package comment): nothing but Force
\* ends that state, no other call starts a migration or cleans the ledger.
RefusesUntilForce == [][Interrupted => Interrupted' \/ \E p \in Procs : SetForced(p)]_vars

\* "An empty down is written as a single comment so the step is explicitly
\* irreversible" (WritePair): a migration whose author wrote no Down is never
\* rolled back.  It holds where FromFiles is FALSE and not where it is TRUE: Down
\* tests for an empty string.
IrreversibleStays ==
  \A p \in Procs : run[p].pc = "down" => DownText[run[p].v] = "sql"
=============================================================================
