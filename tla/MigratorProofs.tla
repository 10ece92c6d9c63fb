--------------------------- MODULE MigratorProofs ---------------------------
(***************************************************************************)
(* What the ledger of Migrator guarantees, for any versions, any number of *)
(* statements and any number of processes, under three conditions on the   *)
(* deployment that the code does not enforce.                              *)
(***************************************************************************)
EXTENDS Migrator, TLAPS

\* One Migrator runs at a time; every list of migrations extends the shorter
\* ones at its end; no Down was replaced by a comment.
Deployment ==
  /\ Exclusive
  /\ \A migs \in Calls : \A v \in migs, u \in Versions : u < v => u \in migs
  /\ \A v \in Versions : Down(v) # "comment"

\* At most one process is in a call.
OneCall ==
  \A p, q \in Procs : run[p].pc # "idle" /\ run[q].pc # "idle" => p = q

\* Nothing is migrated before there is a ledger table.
FreshLedger ==
  /\ ~row.present => row.version = 0
  /\ ~table => SchemaAt(0)

\* What the process in call c knows of the ledger, the schema and its arguments.
Knows(c) ==
  /\ c.pc # "idle" => c.migs \in Calls
  /\ c.pc = "create" => ~table
  /\ c.pc = "insert" => SchemaAt(0) /\ ~row.present
  /\ c.pc \in {"ensure", "create", "insert"} /\ c.op = "force"
       => SchemaAt(c.target)
  /\ c.pc = "force" => SchemaAt(c.target)
  /\ c.pc = "pick" => ~row.dirty /\ (row.present => c.cur = row.version)
  /\ c.pc = "up" => /\ c.v \in c.migs /\ c.k <= Stmts[c.v]
                    /\ row.present => row.dirty
  /\ c.pc = "down mark" => /\ c.v \in c.migs /\ c.v = row.version
                           /\ row.present /\ ~row.dirty /\ Down(c.v) = "sql"
  /\ c.pc = "down" => c.v \in c.migs /\ row.present /\ row.dirty

CallKnows == \A p \in Procs : Knows(run[p])

IInv ==
  TypeOK /\ OneCall /\ FreshLedger /\ CallKnows /\ CleanMeansComplete /\ InPlace

\* Versions are positive numbers, and each has a number of statements.
LEMMA Numbers == Versions \subseteq Nat /\ 0 \notin Versions /\ Targets \subseteq Nat
                 /\ \A v \in Versions : Stmts[v] \in Nat
  BY MigratorAssumption DEF Targets

\* A call that is over is a call.
LEMMA IdleIsCall == \A r \in {"none", "nil", "error"} :
                        Idle \in Call /\ [Idle EXCEPT !.result = r] \in Call
<1>1. Idle \in Call
  BY DEF Idle, Call, Points, Ops, Targets
<1> QED
  BY <1>1 DEF Idle, Call, Points, Ops, Targets

\* The invariant holds when nothing was migrated.
LEMMA InitIInv == Init => IInv
<1> SUFFICES ASSUME Init PROVE IInv
  OBVIOUS
<1>1. TypeOK
  <2>1. /\ table \in BOOLEAN
        /\ row \in [present: BOOLEAN, version: Targets, dirty: BOOLEAN]
        /\ row.present => table
        /\ row.dirty => row.present
    BY DEF Init, Targets
  <2>2. done \in [Versions -> Nat] /\ \A v \in Versions : done[v] <= Stmts[v]
    BY MigratorAssumption DEF Init
  <2>3. run \in [Procs -> Call]
    BY IdleIsCall DEF Init
  <2>4. \A p \in Procs : run[p].pc = "idle"
    BY DEF Init, Idle
  <2> QED
    BY <2>1, <2>2, <2>3, <2>4 DEF TypeOK
<1>2. OneCall
  BY DEF Init, OneCall, Idle
<1>3. SchemaAt(0)
  BY MigratorAssumption DEF Init, SchemaAt
<1>4. FreshLedger
  BY <1>3 DEF Init, FreshLedger, Idle
<1>5. CallKnows
  BY DEF Init, CallKnows, Knows, Idle
<1>6. CleanMeansComplete
  BY DEF Init, CleanMeansComplete
<1>7. InPlace
  BY DEF Init, InPlace, Idle
<1> QED
  BY <1>1, <1>2, <1>4, <1>5, <1>6, <1>7 DEF IInv

\* How the actions change run.
LEMMA CallUpdates ==
  ASSUME TypeOK, NEW p \in Procs
  PROVE  /\ run[p] \in Call
         /\ \A c \in Call : [run EXCEPT ![p] = c] \in [Procs -> Call]
         /\ \A r \in {"nil", "error"} : Return(p, r) => run' \in [Procs -> Call]
         /\ \A point \in Points : Goto(p, point) => run' \in [Procs -> Call]
<1>1. run[p] \in Call /\ run \in [Procs -> Call]
  BY DEF TypeOK
<1>2. \A c \in Call : [run EXCEPT ![p] = c] \in [Procs -> Call]
  BY <1>1
<1>3. \A r \in {"nil", "error"} : Return(p, r) => run' \in [Procs -> Call]
  BY <1>2, IdleIsCall DEF Return
<1>4. ASSUME NEW point \in Points, Goto(p, point) PROVE run' \in [Procs -> Call]
  <2>1. [run[p] EXCEPT !.pc = point] \in Call
    BY <1>1 DEF Call
  <2>2. run' = [run EXCEPT ![p] = [run[p] EXCEPT !.pc = point]]
    BY <1>4 DEF Goto
  <2> QED
    BY <1>2, <2>1, <2>2
<1> QED
  BY <1>1, <1>2, <1>3, <1>4

-----------------------------------------------------------------------------
\* A step keeps the type of the calls.
LEMMA RunTyped == ASSUME TypeOK, NEW p \in Procs, Step(p)
                  PROVE  run' \in [Procs -> Call]
<1>1. run[p] \in Call /\ run \in [Procs -> Call]
  BY CallUpdates
<1>2. CASE LedgerExists(p) \/ CreateLedger(p) \/ InsertRow(p)
  <2>1. {"create", "insert", "force", "read"} \subseteq Points
    BY DEF Points
  <2> QED
    BY <1>2, <2>1, CallUpdates
    DEF LedgerExists, CreateLedger, InsertRow, AfterEnsure
<1>3. CASE SetForced(p) \/ UpReturn(p)
  BY <1>3, CallUpdates DEF SetForced, UpReturn
<1>4. CASE ReadVersion(p)
  <2>1. CASE run' = [run EXCEPT ![p].pc = "pick", ![p].cur = row.version]
    <3>1. [run[p] EXCEPT !.pc = "pick", !.cur = row.version] \in Call
      BY <1>1 DEF Call, Points, TypeOK
    <3> QED
      BY <2>1, <3>1, CallUpdates
  <2>2. "down read" \in Points
    BY DEF Points
  <2> QED
    BY <1>4, <2>1, <2>2, CallUpdates DEF ReadVersion
<1>5. CASE UpMark(p)
  <2>1. PICK v \in Versions :
          run' = [run EXCEPT ![p].pc = "up", ![p].v = v, ![p].k = 0]
    BY <1>5 DEF UpMark
  <2>2. [run[p] EXCEPT !.pc = "up", !.v = v, !.k = 0] \in Call
    BY <1>1 DEF Call, Points, Targets
  <2> QED
    BY <2>1, <2>2, CallUpdates
<1>6. CASE UpStmt(p)
  <2>1. [run[p] EXCEPT !.k = run[p].k + 1] \in Call
    BY <1>1 DEF Call
  <2> QED
    BY <1>6, <2>1, CallUpdates DEF UpStmt
<1>7. CASE UpDone(p)
  <2>1. [run[p] EXCEPT !.pc = "pick", !.cur = run[p].v] \in Call
    BY <1>1 DEF Call, Points
  <2> QED
    BY <1>7, <2>1, CallUpdates DEF UpDone
<1>8. CASE DownRead(p)
  <2>1. CASE run' = [run EXCEPT ![p].pc = "down mark", ![p].v = row.version]
    <3>1. [run[p] EXCEPT !.pc = "down mark", !.v = row.version] \in Call
      BY <1>1 DEF Call, Points, TypeOK
    <3> QED
      BY <2>1, <3>1, CallUpdates
  <2>2. "read" \in Points
    BY DEF Points
  <2> QED
    BY <1>8, <2>1, <2>2, CallUpdates DEF DownRead
<1>9. CASE DownMark(p)
  <2>1. run[p].v \in Versions
    BY <1>9 DEF DownMark, TypeOK
  <2>2. DownStmts(run[p].v) \in Nat
    BY <2>1, MigratorAssumption DEF DownStmts
  <2>3. \A k \in Nat : [run[p] EXCEPT !.pc = "down", !.k = k] \in Call
    BY <1>1 DEF Call, Points
  <2> QED
    BY <1>9, <2>2, <2>3, CallUpdates DEF DownMark
<1>10. CASE DownStmt(p)
  <2>1. run[p].k > 0 => [run[p] EXCEPT !.k = run[p].k - 1] \in Call
    BY <1>1 DEF Call
  <2> QED
    BY <1>10, <2>1, CallUpdates DEF DownStmt
<1>11. CASE DownDone(p)
  <2>1. "read" \in Points
    BY DEF Points
  <2> QED
    BY <1>11, <2>1, CallUpdates DEF DownDone
<1> QED
  BY <1>2, <1>3, <1>4, <1>5, <1>6, <1>7, <1>8, <1>9, <1>10, <1>11 DEF Step

\* A step of one process leaves the calls of the others alone.
LEMMA StepUpdatesOne ==
  ASSUME TypeOK, NEW p \in Procs, Step(p), NEW q \in Procs, q # p
  PROVE  run'[q] = run[q]
<1>1. run \in [Procs -> Call]
  BY DEF TypeOK
<1> QED
  BY <1>1 DEF Step, LedgerExists, CreateLedger, InsertRow, SetForced,
     ReadVersion, UpMark, UpReturn, UpStmt, UpDone, DownRead, DownMark, DownStmt,
     DownDone, Return, Goto

\* A step keeps the type of the ledger.
LEMMA LedgerTyped ==
  ASSUME TypeOK, NEW p \in Procs, Step(p)
  PROVE  /\ table' \in BOOLEAN
         /\ row' \in [present: BOOLEAN, version: Targets, dirty: BOOLEAN]
         /\ row'.present => table'
         /\ row'.dirty => row'.present
<1>1. ASSUME NEW w \in Targets, NEW d \in BOOLEAN, SetVersion(w, d),
             table' = table
      PROVE  /\ table' \in BOOLEAN
             /\ row' \in [present: BOOLEAN, version: Targets, dirty: BOOLEAN]
             /\ row'.present => table'
             /\ row'.dirty => row'.present
  <2>1. CASE row.present
    BY <1>1, <2>1 DEF SetVersion, TypeOK
  <2>2. CASE ~row.present
    BY <1>1, <2>2 DEF SetVersion, TypeOK
  <2> QED
    BY <2>1, <2>2
<1>2. run[p].target \in Targets /\ run[p].v \in Targets
  BY CallUpdates DEF Call
<1>3. CASE InsertRow(p)
  BY <1>3 DEF InsertRow, TypeOK, Goto
<1>4. CASE CreateLedger(p)
  BY <1>4 DEF CreateLedger, TypeOK
<1>5. CASE SetForced(p) \/ UpMark(p) \/ UpDone(p) \/ DownMark(p) \/ DownDone(p)
  BY <1>1, <1>2, <1>5
  DEF SetForced, UpMark, UpDone, DownMark, DownDone, TypeOK, Targets
<1>6. CASE UNCHANGED ledger
  BY <1>6 DEF ledger, TypeOK
<1> QED
  BY <1>3, <1>4, <1>5, <1>6 DEF Step, LedgerExists, ReadVersion, UpReturn,
     UpStmt, DownRead, DownStmt

\* The other conjuncts of TypeOK.
LEMMA ScopeTyped ==
  ASSUME TypeOK, NEW p \in Procs, Step(p)
  PROVE  \A q \in Procs :
           /\ run'[q].pc \notin {"idle", "ensure", "create"} => table'
           /\ run'[q].pc \in {"up", "down mark", "down"} => run'[q].v \in Versions
<1>1. run \in [Procs -> Call] /\ (table => table')
  BY DEF TypeOK, Step, LedgerExists, CreateLedger, InsertRow, SetForced,
     ReadVersion, UpMark, UpReturn, UpStmt, UpDone, DownRead, DownMark, DownStmt,
     DownDone, ledger
<1>2. \A q \in Procs : q # p => run'[q] = run[q]
  BY StepUpdatesOne
<1>3. \A r \in {"nil", "error"} : Return(p, r) => run'[p].pc = "idle"
  BY <1>1 DEF Return, Idle
<1>4. \A point \in Points : Goto(p, point) => run'[p].pc = point
  BY <1>1 DEF Goto, Call
<1>5. {"read", "down read"} \subseteq Points
  BY DEF Points
<1>6. run[p].pc \notin {"idle", "ensure", "create"} => table'
  BY <1>1 DEF TypeOK
<1>7. /\ run'[p].pc \notin {"idle", "ensure", "create"} => table'
      /\ run'[p].pc \in {"up", "down mark", "down"} => run'[p].v \in Versions
  <2>1. CASE LedgerExists(p)
    BY <1>1, <2>1 DEF LedgerExists, Goto, AfterEnsure, ledger, Call
  <2>2. CASE CreateLedger(p)
    BY <1>1, <2>2 DEF CreateLedger, Goto, Return, Idle, Call
  <2>3. CASE InsertRow(p)
    BY <1>1, <2>3 DEF InsertRow, Goto, AfterEnsure, TypeOK, Call
  <2>4. CASE SetForced(p) \/ UpReturn(p)
    BY <1>1, <2>4 DEF SetForced, UpReturn, Return, Idle
  <2>5. CASE ReadVersion(p)
    <3>1. run'[p].pc \in {"idle", "pick", "down read"}
      BY <1>1, <1>3, <1>4, <1>5, <2>5 DEF ReadVersion, Call
    <3> QED
      BY <1>6, <2>5, <3>1 DEF ReadVersion
  <2>6. CASE UpMark(p)
    BY <1>1, <2>6 DEF UpMark, TypeOK, Call
  <2>7. CASE UpStmt(p)
    <3>1. \/ run'[p].pc = "idle"
          \/ run'[p].pc = run[p].pc /\ run'[p].v = run[p].v
      BY <1>1, <1>3, <2>7 DEF UpStmt, Call
    <3> QED
      BY <1>6, <2>7, <3>1 DEF UpStmt, TypeOK
  <2>8. CASE UpDone(p)
    BY <1>1, <2>8 DEF UpDone, TypeOK, Call
  <2>9. CASE DownRead(p)
    <3>1. row.version # 0 => row.version \in Versions
      BY DEF TypeOK, Targets
    <3>2. \/ run'[p].pc \in {"idle", "read"}
          \/ row.version # 0 /\ run'[p].pc = "down mark"
                             /\ run'[p].v = row.version
      BY <1>1, <1>3, <1>4, <1>5, <2>9 DEF DownRead, Call
    <3> QED
      BY <1>6, <2>9, <3>1, <3>2 DEF DownRead
  <2>10. CASE DownMark(p)
    BY <1>1, <2>10 DEF DownMark, TypeOK, Call
  <2>11. CASE DownStmt(p)
    <3>1. \/ run'[p].pc = "idle"
          \/ run'[p].pc = run[p].pc /\ run'[p].v = run[p].v
      BY <1>1, <1>3, <2>11 DEF DownStmt, Call
    <3> QED
      BY <1>6, <2>11, <3>1 DEF DownStmt, TypeOK
  <2>12. CASE DownDone(p)
    <3>1. run'[p].pc \in {"idle", "read"}
      BY <1>3, <1>4, <1>5, <2>12 DEF DownDone
    <3> QED
      BY <1>6, <2>12, <3>1 DEF DownDone
  <2> QED
    BY <2>1, <2>2, <2>3, <2>4, <2>5, <2>6, <2>7, <2>8, <2>9, <2>10, <2>11,
       <2>12 DEF Step
<1> QED
  BY <1>1, <1>2, <1>7 DEF TypeOK

\* A step never has more of a migration in effect than it has statements.
LEMMA SchemaTyped ==
  ASSUME TypeOK, NEW p \in Procs, Step(p)
  PROVE  done' \in [Versions -> Nat] /\ \A v \in Versions : done'[v] <= Stmts[v]
<1>1. /\ done \in [Versions -> Nat] /\ \A v \in Versions : done[v] <= Stmts[v]
      /\ Stmts \in [Versions -> Nat] /\ run[p].k \in Nat
  BY MigratorAssumption, CallUpdates DEF TypeOK, Call
<1>2. CASE UpStmt(p)
  <2>1. run[p].v \in Versions
    BY <1>2 DEF UpStmt, TypeOK
  <2> QED
    BY <1>1, <1>2, <2>1 DEF UpStmt
<1>3. CASE DownStmt(p)
  <2>1. run[p].v \in Versions
    BY <1>3 DEF DownStmt, TypeOK
  <2> QED
    BY <1>1, <1>3, <2>1 DEF DownStmt
<1>4. CASE UNCHANGED done
  BY <1>1, <1>4
<1> QED
  BY <1>2, <1>3, <1>4 DEF Step, LedgerExists, CreateLedger, InsertRow, SetForced,
     ReadVersion, UpMark, UpReturn, UpDone, DownRead, DownMark, DownDone

\* Every step keeps the types.
LEMMA TypeStep == TypeOK /\ [Next]_vars => TypeOK'
<1> SUFFICES ASSUME TypeOK, [Next]_vars PROVE TypeOK'
  OBVIOUS
<1>1. ASSUME NEW p \in Procs, Step(p) PROVE TypeOK'
  BY <1>1, RunTyped, LedgerTyped, ScopeTyped, SchemaTyped DEF TypeOK
<1>2. ASSUME NEW p \in Procs, Start(p) PROVE TypeOK'
  <2>1. PICK op \in Ops, migs \in Calls, target \in Targets :
          run' = [run EXCEPT ![p] = [Idle EXCEPT !.pc = "ensure", !.op = op,
                                       !.migs = migs, !.target = target]]
    BY <1>2 DEF Start
  <2>2. [Idle EXCEPT !.pc = "ensure", !.op = op, !.migs = migs,
                     !.target = target] \in Call
    <3>1. migs \in SUBSET Versions
      BY MigratorAssumption
    <3> QED
      BY <3>1 DEF Idle, Call, Points, Targets
  <2>3. run' \in [Procs -> Call]
    BY <2>1, <2>2, CallUpdates
  <2>4. \A q \in Procs : run'[q] = run[q] \/ run'[q].pc = "ensure"
    BY <2>1 DEF TypeOK, Idle
  <2> QED
    BY <1>2, <2>3, <2>4 DEF Start, TypeOK, ledger
<1>3. ASSUME NEW p \in Procs, Stop(p) PROVE TypeOK'
  <2>1. run' \in [Procs -> Call]
    BY <1>3, CallUpdates DEF Stop
  <2>2. \A q \in Procs : run'[q] = run[q] \/ run'[q].pc = "idle"
    BY <1>3 DEF Stop, Return, TypeOK, Idle
  <2> QED
    BY <1>3, <2>1, <2>2 DEF Stop, TypeOK, ledger
<1>4. CASE Resolve
  <2>1. PICK w \in Targets :
          done' = [v \in Versions |-> IF v <= w THEN Stmts[v] ELSE 0]
    BY <1>4 DEF Resolve
  <2>2. done' \in [Versions -> Nat] /\ \A v \in Versions : done'[v] <= Stmts[v]
    BY <2>1, MigratorAssumption
  <2> QED
    BY <1>4, <2>2 DEF Resolve, TypeOK, ledger
<1>5. CASE UNCHANGED vars
  BY <1>5 DEF vars, TypeOK
<1> QED
  BY <1>1, <1>2, <1>3, <1>4, <1>5 DEF Next

\* The state of Migrator stays of its type, and a call that works on a version
\* finds the ledger table: for all versions, statements, callers and processes.
THEOREM MigratorTypes == Spec => []TypeOK
<1>1. Init => TypeOK
  BY InitIInv DEF IInv
<1> QED
  BY <1>1, TypeStep, PTL DEF Spec

-----------------------------------------------------------------------------
\* What a step of p can disturb when p is the only process in a call.
Safe(p) ==
  /\ FreshLedger /\ CleanMeansComplete /\ Knows(run[p])
  /\ run[p].pc \in {"up", "down"} /\ row.present => Around(run[p].v, run[p].k)

\* What one process does safely is safe for all, since no other is in a call.
LEMMA Focus ==
  ASSUME IInv, NEW p \in Procs, run[p].pc # "idle", Safe(p)',
         \A q \in Procs : q # p => run'[q] = run[q]
  PROVE  (OneCall /\ FreshLedger /\ CallKnows /\ CleanMeansComplete /\ InPlace)'
<1>1. \A q \in Procs : q # p => run'[q].pc = "idle"
  BY DEF IInv, OneCall
<1>2. OneCall'
  BY <1>1 DEF OneCall
<1>3. CallKnows'
  <2>1. \A q \in Procs : q # p => Knows(run[q])'
    BY <1>1 DEF Knows
  <2> QED
    BY <2>1 DEF CallKnows, Safe
<1>4. InPlace'
  BY <1>1 DEF InPlace, Safe
<1> QED
  BY <1>2, <1>3, <1>4 DEF Safe

\* The facts of IInv that a step of p starts from.
LEMMA Known ==
  ASSUME IInv, NEW p \in Procs
  PROVE  /\ Safe(p) /\ TypeOK /\ run[p] \in Call /\ run \in [Procs -> Call]
         /\ row.version \in Targets
         /\ run[p].pc \in {"up", "down mark", "down"} => run[p].v \in Versions
         /\ \A r \in {"nil", "error"} : Return(p, r) => run'[p].pc = "idle"
         /\ \A point \in Points : Goto(p, point)
              => run'[p] = [run[p] EXCEPT !.pc = point]
<1>1. TypeOK /\ run[p] \in Call /\ run \in [Procs -> Call]
  BY CallUpdates DEF IInv
<1>2. Safe(p)
  BY DEF IInv, CallKnows, InPlace, Safe
<1>3. \A r \in {"nil", "error"} : Return(p, r) => run'[p].pc = "idle"
  BY <1>1 DEF Return, Idle
<1>4. \A point \in Points :
        Goto(p, point) => run'[p] = [run[p] EXCEPT !.pc = point]
  BY <1>1 DEF Goto
<1> QED
  BY <1>1, <1>2, <1>3, <1>4 DEF TypeOK

\* A call that ends leaves only the ledger and the schema to look at.
LEMMA EndSafe ==
  ASSUME IInv, NEW p \in Procs, UNCHANGED <<ledger, done>>, run'[p].pc = "idle"
  PROVE  Safe(p)'
<1>1. Safe(p)
  BY Known
<1> QED
  BY <1>1 DEF Safe, FreshLedger, CleanMeansComplete, SchemaAt, Knows, ledger

\* ensureLedger, in both of its statements, is safe.
LEMMA EnsureSafe ==
  ASSUME IInv, NEW p \in Procs,
         LedgerExists(p) \/ CreateLedger(p) \/ InsertRow(p)
  PROVE  Safe(p)'
<1>1. Safe(p) /\ TypeOK /\ run[p] \in Call
  BY Known
<1>2. /\ \A r \in {"nil", "error"} : Return(p, r) => run'[p].pc = "idle"
      /\ \A point \in Points :
           Goto(p, point) => run'[p] = [run[p] EXCEPT !.pc = point]
  BY Known
<1>3. {"create", "insert", "force", "read"} \subseteq Points
  BY DEF Points
<1>4. AfterEnsure(p) \in Points /\ AfterEnsure(p) \in {"force", "read"}
      /\ (AfterEnsure(p) = "force" => run[p].op = "force")
  BY <1>3 DEF AfterEnsure
<1>5. CASE LedgerExists(p)
  <2>1. \/ table /\ run'[p] = [run[p] EXCEPT !.pc = AfterEnsure(p)]
        \/ ~table /\ run'[p] = [run[p] EXCEPT !.pc = "create"]
    BY <1>2, <1>3, <1>4, <1>5 DEF LedgerExists
  <2> QED
    BY <1>1, <1>4, <1>5, <2>1
    DEF LedgerExists, Safe, FreshLedger, CleanMeansComplete, SchemaAt, Knows,
        ledger, Call
<1>6. CASE CreateLedger(p)
  <2>1. \/ table /\ run'[p].pc = "idle"
        \/ ~table /\ run'[p] = [run[p] EXCEPT !.pc = "insert"]
    BY <1>2, <1>3, <1>6 DEF CreateLedger
  <2> QED
    BY <1>1, <1>6, <2>1
    DEF CreateLedger, Safe, FreshLedger, CleanMeansComplete, SchemaAt, Knows,
        Call, TypeOK
<1>7. CASE InsertRow(p)
  <2>1. run'[p] = [run[p] EXCEPT !.pc = AfterEnsure(p)]
    BY <1>2, <1>4, <1>7 DEF InsertRow
  <2>2. row'.present /\ row'.version = 0 /\ ~row'.dirty /\ SchemaAt(0)
    BY <1>1, <1>7 DEF InsertRow, Safe, FreshLedger, Knows, TypeOK
  <2> QED
    BY <1>1, <1>4, <1>7, <2>1, <2>2
    DEF InsertRow, Safe, FreshLedger, CleanMeansComplete, SchemaAt, Knows, Call,
        TypeOK
<1> QED
  BY <1>5, <1>6, <1>7

\* Reading the version is safe: the call then knows it.
LEMMA ReadSafe ==
  ASSUME IInv, NEW p \in Procs, ReadVersion(p)
  PROVE  Safe(p)'
<1>1. Safe(p) /\ TypeOK /\ run[p] \in Call /\ run \in [Procs -> Call]
  BY Known
<1>2. \/ run'[p].pc = "idle"
      \/ /\ ~row.dirty
         /\ run'[p] = [run[p] EXCEPT !.pc = "pick", !.cur = row.version]
      \/ run'[p] = [run[p] EXCEPT !.pc = "down read"]
  BY <1>1, Known DEF ReadVersion, Points
<1> QED
  BY <1>1, <1>2
  DEF ReadVersion, Safe, FreshLedger, CleanMeansComplete, SchemaAt, Knows, ledger,
      Call

\* Force is safe: the caller vouches for the version.
LEMMA ForceSafe ==
  ASSUME IInv, NEW p \in Procs, SetForced(p)
  PROVE  Safe(p)'
<1>1. Safe(p) /\ TypeOK /\ run'[p].pc = "idle"
  BY Known DEF SetForced
<1>2. CASE row.present
  BY <1>1, <1>2
  DEF SetForced, SetVersion, Safe, FreshLedger, CleanMeansComplete, SchemaAt,
      Knows, TypeOK
<1>3. CASE ~row.present
  BY <1>1, <1>3
  DEF SetForced, SetVersion, Safe, FreshLedger, CleanMeansComplete, SchemaAt,
      Knows, TypeOK
<1> QED
  BY <1>2, <1>3

\* IsNext is the lowest pending version and the migrations have no gap below it:
\* a clean ledger puts the schema right before it.
LEMMA UpMarkSafe ==
  ASSUME IInv, Deployment, NEW p \in Procs, UpMark(p)
  PROVE  Safe(p)'
<1>1. Safe(p) /\ TypeOK /\ run[p] \in Call /\ run \in [Procs -> Call]
  BY Known
<1>2. PICK v \in Versions :
        /\ IsNext(p, v) /\ SetVersion(v, TRUE)
        /\ run' = [run EXCEPT ![p].pc = "up", ![p].v = v, ![p].k = 0]
  BY DEF UpMark
<1>3. run'[p] = [run[p] EXCEPT !.pc = "up", !.v = v, !.k = 0]
  BY <1>1, <1>2
<1>4. v \in run[p].migs /\ run[p].migs \in Calls /\ UNCHANGED <<table, done>>
  BY <1>1, <1>2 DEF UpMark, Safe, Knows, IsNext, Pending
<1>5. row.present <=> row'.present
  BY <1>2, <1>1 DEF SetVersion, TypeOK
<1>6. ASSUME row.present PROVE Around(v, 0)
  <2>1. SchemaAt(run[p].cur)
    BY <1>1, <1>6 DEF UpMark, Safe, Knows, CleanMeansComplete
  <2>2. run[p].cur \in Targets /\ run[p].target \in Targets
    BY <1>1 DEF Call
  <2>3. ASSUME NEW u \in Versions, u < v PROVE u <= run[p].cur
    <3>1. u \in run[p].migs
      BY <1>4, <2>3 DEF Deployment
    <3> QED
      BY <1>2, <2>2, <2>3, <3>1, Numbers DEF IsNext, Pending
  <2>4. run[p].cur < v
    BY <1>2 DEF IsNext, Pending
  <2>5. ASSUME NEW u \in Versions
        PROVE  done[u] = IF u = v THEN 0 ELSE IF u < v THEN Stmts[u] ELSE 0
    <3>1. u \in Nat /\ v \in Nat /\ run[p].cur \in Nat
      BY <2>2, Numbers
    <3>2. done[u] = IF u <= run[p].cur THEN Stmts[u] ELSE 0
      BY <2>1 DEF SchemaAt
    <3> QED
      BY <2>3, <2>4, <3>1, <3>2
  <2> QED
    BY <2>5 DEF Around
<1>7. Around(v, 0) => Around(v, 0)'
  BY <1>4 DEF Around
<1>8. FreshLedger' /\ CleanMeansComplete'
  BY <1>1, <1>2, <1>4
  DEF SetVersion, Safe, FreshLedger, CleanMeansComplete, SchemaAt, TypeOK
<1>9. Knows(run[p])'
  <2>1. row'.present => row'.dirty
    BY <1>1, <1>2 DEF SetVersion, TypeOK
  <2>2. 0 <= Stmts[v]
    BY MigratorAssumption
  <2> QED
    BY <1>1, <1>3, <1>4, <2>1, <2>2 DEF Knows, Call
<1> QED
  BY <1>1, <1>3, <1>5, <1>6, <1>7, <1>8, <1>9 DEF Safe, Call

\* A statement of an Up runs after those before it.
LEMMA UpStmtSafe ==
  ASSUME IInv, NEW p \in Procs, UpStmt(p)
  PROVE  Safe(p)'
<1>1. /\ Safe(p) /\ TypeOK /\ run[p] \in Call /\ run \in [Procs -> Call]
      /\ run[p].v \in Versions
  BY Known DEF UpStmt
<1>2. CASE run'[p].pc = "idle" /\ UNCHANGED done
  BY <1>2, EndSafe DEF UpStmt
<1>3. CASE /\ done' = [done EXCEPT ![run[p].v] = run[p].k + 1]
           /\ run' = [run EXCEPT ![p].k = run[p].k + 1]
  <2>1. run'[p] = [run[p] EXCEPT !.k = run[p].k + 1]
    BY <1>1, <1>3
  <2>2. UNCHANGED ledger /\ table /\ (row.present => row.dirty)
    BY <1>1 DEF UpStmt, Safe, Knows, TypeOK
  <2>3. run[p].k \in Nat /\ run[p].k < Stmts[run[p].v]
        /\ Stmts[run[p].v] \in Nat
    BY <1>1, Numbers DEF UpStmt, Call
  <2>4. \A k \in Nat : Around(run[p].v, run[p].k) /\ k = run[p].k + 1 =>
          \A u \in Versions : done'[u] = IF u = run[p].v THEN k
                                        ELSE IF u < run[p].v THEN Stmts[u] ELSE 0
    BY <1>1, <1>3 DEF Around, TypeOK
  <2>5. FreshLedger' /\ CleanMeansComplete'
    BY <1>1, <2>2 DEF Safe, FreshLedger, CleanMeansComplete, ledger
  <2>6. /\ run'[p].v = run[p].v /\ run'[p].k = run[p].k + 1
        /\ run[p].pc = "up" /\ run'[p].pc = "up" /\ run'[p].migs = run[p].migs
    BY <1>1, <2>1 DEF Call, UpStmt
  <2>7. Knows(run[p])'
    <3>1. run[p].k + 1 <= Stmts[run[p].v]
      BY <2>3
    <3> QED
      BY <1>1, <2>2, <2>6, <3>1 DEF Safe, Knows, ledger
  <2>8. row'.present => Around(run[p].v, run[p].k)'
    BY <1>1, <2>2, <2>3, <2>4, <2>6 DEF Safe, ledger, Around
  <2> QED
    BY <2>5, <2>7, <2>8 DEF Safe
<1> QED
  BY <1>2, <1>3, Known DEF UpStmt

\* Clearing the mark after an Up: all of the migration is in effect.
LEMMA UpDoneSafe ==
  ASSUME IInv, NEW p \in Procs, UpDone(p)
  PROVE  Safe(p)'
<1>1. /\ Safe(p) /\ TypeOK /\ run[p] \in Call /\ run \in [Procs -> Call]
      /\ run[p].v \in Versions
  BY Known DEF UpDone
<1>2. run'[p] = [run[p] EXCEPT !.pc = "pick", !.cur = run[p].v]
  BY <1>1 DEF UpDone
<1>3. SetVersion(run[p].v, FALSE) /\ UNCHANGED <<table, done>>
  BY DEF UpDone
<1>4. row.present => SchemaAt(run[p].v)
  <2>1. ASSUME NEW u \in Versions
        PROVE  u <= run[p].v <=> (u = run[p].v \/ u < run[p].v)
    <3>1. u \in Nat /\ run[p].v \in Nat
      BY <1>1, Numbers
    <3> QED
      BY <3>1
  <2>2. row.present => Around(run[p].v, Stmts[run[p].v])
    BY <1>1 DEF UpDone, Safe
  <2> QED
    BY <2>1, <2>2 DEF Around, SchemaAt
<1>5. /\ run'[p].pc = "pick" /\ run'[p].cur = run[p].v
      /\ run'[p].migs = run[p].migs /\ run[p].migs \in Calls
  BY <1>1, <1>2 DEF UpDone, Safe, Knows, Call
<1>6. \/ /\ row.present /\ row'.present /\ ~row'.dirty
         /\ row'.version = run[p].v
      \/ ~row.present /\ row' = row /\ ~row.dirty
  BY <1>1, <1>3 DEF SetVersion, TypeOK
<1>7. Knows(run[p])'
  BY <1>5, <1>6 DEF Knows
<1>8. CleanMeansComplete'
  BY <1>3, <1>4, <1>6 DEF CleanMeansComplete, SchemaAt
<1>9. FreshLedger'
  BY <1>1, <1>3, <1>6 DEF Safe, FreshLedger, SchemaAt
<1> QED
  BY <1>5, <1>7, <1>8, <1>9 DEF Safe

\* Down takes the migration that was applied last.
LEMMA DownReadSafe ==
  ASSUME IInv, Deployment, NEW p \in Procs, DownRead(p)
  PROVE  Safe(p)'
<1>1. Safe(p) /\ TypeOK /\ run[p] \in Call /\ run \in [Procs -> Call]
      /\ row.version \in Targets
  BY Known
<1>2. \/ run'[p].pc = "idle"
      \/ run'[p] = [run[p] EXCEPT !.pc = "read"]
      \/ /\ run'[p] = [run[p] EXCEPT !.pc = "down mark", !.v = row.version]
         /\ row.version # 0 /\ row.version \in run[p].migs
         /\ ~row.dirty /\ Down(row.version) # "empty"
  BY <1>1, Known DEF DownRead, Points
<1>3. UNCHANGED <<ledger, done>>
  BY DEF DownRead
<1>4. CASE run'[p].pc = "idle"
  BY <1>3, <1>4, EndSafe
<1>5. FreshLedger' /\ CleanMeansComplete'
  BY <1>1, <1>3 DEF Safe, FreshLedger, CleanMeansComplete, SchemaAt, ledger
<1>6. CASE run'[p] = [run[p] EXCEPT !.pc = "read"]
  BY <1>1, <1>3, <1>5, <1>6 DEF DownRead, Safe, Knows, Call, ledger
<1>7. CASE /\ run'[p] = [run[p] EXCEPT !.pc = "down mark", !.v = row.version]
           /\ row.version # 0 /\ row.version \in run[p].migs
           /\ ~row.dirty /\ Down(row.version) # "empty"
  <2>1. row.present
    BY <1>1, <1>7 DEF Safe, FreshLedger
  <2>2. Down(row.version) = "sql"
    <3>1. row.version \in Versions
      BY <1>1, <1>7 DEF Targets
    <3>2. Down(row.version) \in {"sql", "empty", "comment"}
      BY <3>1, MigratorAssumption DEF Down, OnDisk
    <3> QED
      BY <1>7, <3>1, <3>2 DEF Deployment
  <2>3. /\ run'[p].pc = "down mark" /\ run'[p].v = row.version
        /\ run'[p].migs = run[p].migs /\ run[p].migs \in Calls
    BY <1>1, <1>7 DEF DownRead, Safe, Knows, Call
  <2>4. Knows(run[p])'
    BY <1>3, <1>7, <2>1, <2>2, <2>3 DEF Knows, ledger, Down, OnDisk
  <2> QED
    BY <1>5, <2>3, <2>4 DEF Safe
<1> QED
  BY <1>2, <1>4, <1>6, <1>7

\* Marking before a Down: all of the migration is still in effect.
LEMMA DownMarkSafe ==
  ASSUME IInv, NEW p \in Procs, DownMark(p)
  PROVE  Safe(p)'
<1>1. /\ Safe(p) /\ TypeOK /\ run[p] \in Call /\ run \in [Procs -> Call]
      /\ run[p].v \in Versions
  BY Known DEF DownMark
<1>2. /\ run[p].v \in run[p].migs /\ run[p].migs \in Calls
      /\ run[p].v = row.version /\ row.present /\ ~row.dirty
      /\ DownStmts(run[p].v) = Stmts[run[p].v]
  BY <1>1 DEF DownMark, Safe, Knows, DownStmts
<1>3. run'[p] = [run[p] EXCEPT !.pc = "down", !.k = Stmts[run[p].v]]
  BY <1>1, <1>2 DEF DownMark
<1>4. /\ run'[p].pc = "down" /\ run'[p].k = Stmts[run[p].v]
      /\ run'[p].v = run[p].v /\ run'[p].migs = run[p].migs
  BY <1>1, <1>3 DEF Call
<1>5. /\ row'.present /\ row'.dirty /\ UNCHANGED <<table, done>> /\ table
  BY <1>1, <1>2 DEF DownMark, SetVersion, TypeOK
<1>6. Around(run[p].v, Stmts[run[p].v])
  <2>1. SchemaAt(run[p].v)
    BY <1>1, <1>2 DEF Safe, CleanMeansComplete
  <2>2. ASSUME NEW u \in Versions
        PROVE  u <= run[p].v <=> (u = run[p].v \/ u < run[p].v)
    <3>1. u \in Nat /\ run[p].v \in Nat
      BY <1>1, Numbers
    <3> QED
      BY <3>1
  <2> QED
    BY <2>1, <2>2 DEF SchemaAt, Around
<1>7. FreshLedger' /\ CleanMeansComplete'
  BY <1>5 DEF FreshLedger, CleanMeansComplete
<1>8. Knows(run[p])'
  BY <1>2, <1>4, <1>5 DEF Knows
<1>9. Around(run[p].v, run[p].k)'
  BY <1>4, <1>5, <1>6 DEF Around
<1> QED
  BY <1>7, <1>8, <1>9 DEF Safe

\* A statement of a Down runs on what the Up left.
LEMMA DownStmtSafe ==
  ASSUME IInv, NEW p \in Procs, DownStmt(p)
  PROVE  Safe(p)'
<1>1. /\ Safe(p) /\ TypeOK /\ run[p] \in Call /\ run \in [Procs -> Call]
      /\ run[p].v \in Versions
  BY Known DEF DownStmt
<1>2. CASE run'[p].pc = "idle" /\ UNCHANGED done
  BY <1>2, EndSafe DEF DownStmt
<1>3. CASE /\ done' = [done EXCEPT ![run[p].v] = run[p].k - 1]
           /\ run' = [run EXCEPT ![p].k = run[p].k - 1]
  <2>1. run'[p] = [run[p] EXCEPT !.k = run[p].k - 1]
    BY <1>1, <1>3
  <2>2. UNCHANGED ledger /\ table /\ row.present /\ row.dirty
    BY <1>1 DEF DownStmt, Safe, Knows, TypeOK
  <2>3. /\ run'[p].v = run[p].v /\ run'[p].k = run[p].k - 1
        /\ run[p].pc = "down" /\ run'[p].pc = "down" /\ run'[p].migs = run[p].migs
    BY <1>1, <2>1 DEF Call, DownStmt
  <2>4. Around(run[p].v, run[p].k)
    BY <1>1, <2>2, <2>3 DEF Safe
  <2>5. Around(run[p].v, run[p].k)'
    BY <1>1, <1>3, <2>3, <2>4 DEF Around, TypeOK
  <2>6. FreshLedger' /\ CleanMeansComplete'
    BY <2>2 DEF FreshLedger, CleanMeansComplete, ledger
  <2>7. Knows(run[p])'
    BY <1>1, <2>2, <2>3 DEF Safe, Knows, ledger
  <2> QED
    BY <2>5, <2>6, <2>7 DEF Safe
<1> QED
  BY <1>2, <1>3, Known DEF DownStmt

\* Nothing of v is left, and IsPrev is the version right below it.
LEMMA DownDoneSafe ==
  ASSUME IInv, Deployment, NEW p \in Procs, DownDone(p)
  PROVE  Safe(p)'
<1>1. /\ Safe(p) /\ TypeOK /\ run[p] \in Call /\ run \in [Procs -> Call]
      /\ run[p].v \in Versions
  BY Known DEF DownDone
<1>2. PICK prev \in Targets : IsPrev(run[p].migs, run[p].v, prev)
                              /\ SetVersion(prev, FALSE)
  BY DEF DownDone
<1>3. /\ run[p].v \in run[p].migs /\ run[p].migs \in Calls
      /\ run[p].migs \subseteq Versions
      /\ row.present /\ UNCHANGED <<table, done>> /\ table
      /\ Around(run[p].v, 0)
  BY <1>1, MigratorAssumption DEF DownDone, Safe, Knows, TypeOK
<1>4. SchemaAt(prev)
  <2>1. prev \in Nat /\ run[p].v \in Nat /\ prev < run[p].v
    <3>1. prev \in Nat /\ run[p].v \in Nat /\ run[p].v # 0
      BY <1>1, Numbers
    <3>2. prev = 0 \/ prev < run[p].v
      BY <1>2 DEF IsPrev
    <3> QED
      BY <3>1, <3>2
  <2>2. ASSUME NEW u \in Versions, u < run[p].v PROVE u <= prev
    <3>1. u \in run[p].migs
      BY <1>3, <2>2 DEF Deployment
    <3> QED
      BY <1>2, <2>2, <3>1 DEF IsPrev
  <2>3. ASSUME NEW u \in Versions
        PROVE  done[u] = IF u <= prev THEN Stmts[u] ELSE 0
    <3>1. u \in Nat
      BY Numbers
    <3>2. done[u] = IF u = run[p].v THEN 0
                    ELSE IF u < run[p].v THEN Stmts[u] ELSE 0
      BY <1>3 DEF Around
    <3> QED
      BY <2>1, <2>2, <3>1, <3>2
  <2> QED
    BY <2>3 DEF SchemaAt
<1>5. row'.present /\ ~row'.dirty /\ row'.version = prev
  BY <1>2, <1>3 DEF SetVersion
<1>6. \/ run'[p].pc = "idle"
      \/ run'[p].pc = "read" /\ run'[p].migs = run[p].migs
  <2>1. Goto(p, "read") => run'[p] = [run[p] EXCEPT !.pc = "read"]
    BY Known DEF Points
  <2>2. Return(p, "nil") => run'[p].pc = "idle"
    BY Known
  <2> QED
    BY <1>1, <2>1, <2>2 DEF DownDone, Call
<1>7. Knows(run[p])'
  BY <1>3, <1>6 DEF Knows
<1>8. FreshLedger' /\ CleanMeansComplete'
  BY <1>3, <1>4, <1>5 DEF FreshLedger, CleanMeansComplete, SchemaAt
<1> QED
  BY <1>6, <1>7, <1>8 DEF Safe

-----------------------------------------------------------------------------
\* Every step of a call keeps the invariant.
LEMMA StepIInv ==
  ASSUME IInv, Deployment, NEW p \in Procs, Step(p)
  PROVE  IInv'
<1>1. TypeOK'
  BY TypeStep DEF IInv, Next
<1>2. run[p].pc # "idle" /\ \A q \in Procs : q # p => run'[q] = run[q]
  <2>1. run[p].pc # "idle"
    BY DEF Step, LedgerExists, CreateLedger, InsertRow, SetForced, ReadVersion,
       UpMark, UpReturn, UpStmt, UpDone, DownRead, DownMark, DownStmt, DownDone
  <2> QED
    BY <2>1, StepUpdatesOne DEF IInv
<1>3. UpReturn(p) => Safe(p)'
  BY EndSafe, Known DEF UpReturn
<1>4. Safe(p)'
  BY <1>3, EnsureSafe, ForceSafe, ReadSafe, UpMarkSafe, UpStmtSafe, UpDoneSafe,
     DownReadSafe, DownMarkSafe, DownStmtSafe, DownDoneSafe DEF Step
<1> QED
  BY <1>1, <1>2, <1>4, Focus DEF IInv

\* So does every step of the system.
LEMMA NextIInv == ASSUME Deployment, IInv, [Next]_vars PROVE IInv'
<1>1. TypeOK'
  BY TypeStep DEF IInv
<1>2. ASSUME NEW p \in Procs, Start(p) PROVE IInv'
  <2>1. PICK op \in Ops, migs \in Calls, target \in Targets :
          /\ op = "force" => SchemaAt(target)
          /\ run' = [run EXCEPT ![p] = [Idle EXCEPT !.pc = "ensure", !.op = op,
                                       !.migs = migs, !.target = target]]
    BY <1>2 DEF Start
  <2>2. /\ run'[p].pc = "ensure" /\ run'[p].op = op /\ run'[p].migs = migs
        /\ run'[p].target = target
    BY <2>1 DEF IInv, TypeOK, Idle
  <2>3. \A q \in Procs : q # p => run'[q] = run[q] /\ run[q].pc = "idle"
    BY <1>2, <2>1 DEF Start, Deployment, IInv, TypeOK
  <2>4. UNCHANGED <<ledger, done>>
    BY <1>2 DEF Start
  <2>5. OneCall'
    BY <2>3 DEF OneCall
  <2>6. CallKnows'
    <3>1. Knows(run[p])'
      BY <2>1, <2>2, <2>4 DEF Knows, SchemaAt
    <3>2. \A q \in Procs : q # p => Knows(run[q])'
      BY <2>3 DEF Knows
    <3> QED
      BY <3>1, <3>2 DEF CallKnows
  <2>7. InPlace'
    BY <2>2, <2>3 DEF InPlace
  <2>8. FreshLedger' /\ CleanMeansComplete'
    BY <2>4 DEF IInv, FreshLedger, CleanMeansComplete, SchemaAt, ledger
  <2> QED
    BY <1>1, <2>5, <2>6, <2>7, <2>8 DEF IInv
<1>3. ASSUME NEW p \in Procs, Stop(p) PROVE IInv'
  <2>1. run'[p].pc = "idle"
    BY <1>3, Known DEF Stop
  <2>2. Safe(p)'
    BY <1>3, <2>1, EndSafe DEF Stop
  <2>3. \A q \in Procs : q # p => run'[q] = run[q]
    BY <1>3 DEF Stop, Return, IInv, TypeOK
  <2> QED
    BY <1>1, <1>3, <2>2, <2>3, Focus DEF IInv, Stop
<1>4. CASE Resolve
  <2>1. /\ \A p \in Procs : run'[p].pc = "idle"
        /\ UNCHANGED <<ledger, run>> /\ row.dirty /\ row.present /\ table
    BY <1>4 DEF Resolve, IInv, TypeOK
  <2> QED
    BY <1>1, <2>1
    DEF IInv, OneCall, FreshLedger, CallKnows, Knows, CleanMeansComplete, InPlace,
        ledger
<1>5. CASE UNCHANGED vars
  BY <1>5 DEF IInv, vars, TypeOK, OneCall, FreshLedger, CallKnows, Knows,
     CleanMeansComplete, InPlace, SchemaAt, Around
<1> QED
  BY <1>2, <1>3, <1>4, <1>5, StepIInv DEF Next

\* Under Deployment a clean ledger never lies: whatever version it names, the
\* schema is the result of exactly the migrations up to it, at every moment of
\* every call and after a crash or an error at any of its round trips.
THEOREM LedgerIsTrue == ASSUME Deployment PROVE Spec => []CleanMeansComplete
<1>1. IInv /\ [Next]_vars => IInv'
  BY NextIInv
<1>2. IInv => CleanMeansComplete
  BY DEF IInv
<1> QED
  BY InitIInv, <1>1, <1>2, PTL DEF Spec

\* Under Deployment every statement is run on the schema it was written for.
THEOREM StatementsInPlace == ASSUME Deployment PROVE Spec => []InPlace
<1>1. IInv /\ [Next]_vars => IInv'
  BY NextIInv
<1>2. IInv => InPlace
  BY DEF IInv
<1> QED
  BY InitIInv, <1>1, <1>2, PTL DEF Spec

\* Under Deployment an interrupted migration stays what it is until Force.
THEOREM RefusalHolds == ASSUME Deployment PROVE Spec => RefusesUntilForce
<1>1. IInv /\ [Next]_vars => IInv'
  BY NextIInv
<1>2. IInv /\ [Next]_vars
        => [Interrupted => Interrupted' \/ \E p \in Procs : SetForced(p)]_vars
  <2> SUFFICES ASSUME IInv, Next, Interrupted, ~ \E p \in Procs : SetForced(p)
               PROVE  Interrupted'
    OBVIOUS
  <2>1. /\ row.dirty /\ row.present /\ TypeOK
        /\ \A p \in Procs : run[p].pc \notin {"up", "down", "pick", "down mark",
                                           "insert"}
    BY DEF Interrupted, IInv, CallKnows, Knows, TypeOK
  <2>2. ASSUME NEW p \in Procs, Start(p) \/ Step(p) \/ Stop(p)
        PROVE  UNCHANGED row
               /\ \A q \in Procs : run'[q].pc \notin {"up", "down"}
    <3>1. \/ Start(p) \/ Stop(p)
          \/ LedgerExists(p) \/ CreateLedger(p) \/ ReadVersion(p) \/ DownRead(p)
      BY <2>1, <2>2 DEF Step, InsertRow, UpMark, UpReturn, UpStmt, UpDone,
         DownMark, DownStmt, DownDone
    <3>2. \A r \in {"nil", "error"} : Return(p, r) => run'[p].pc = "idle"
      BY Known
    <3>3. \A point \in Points : Goto(p, point) => run'[p].pc = point
      <4>1. run[p] \in Call /\ run \in [Procs -> Call]
        BY <2>1 DEF TypeOK
      <4> QED
        BY <4>1 DEF Goto, Call
    <3>4. \A q \in Procs : q # p => run'[q] = run[q]
      <4>1. Step(p) => \A q \in Procs : q # p => run'[q] = run[q]
        BY <2>1, StepUpdatesOne
      <4>2. Start(p) \/ Stop(p) => \A q \in Procs : q # p => run'[q] = run[q]
        BY <2>1 DEF TypeOK, Start, Stop, Return
      <4> QED
        BY <2>2, <4>1, <4>2
    <3>5. {"create", "insert", "force", "read", "down read"} \subseteq Points
      BY DEF Points
    <3>6. run'[p].pc \notin {"up", "down"}
      <4>1. CASE Start(p)
        <5>1. PICK op \in Ops, migs \in Calls, target \in Targets :
                run' = [run EXCEPT ![p] =
                          [Idle EXCEPT !.pc = "ensure", !.op = op,
                                       !.migs = migs, !.target = target]]
          BY <4>1 DEF Start
        <5> QED
          BY <2>1, <5>1 DEF TypeOK, Idle
      <4>2. CASE Stop(p)
        BY <3>2, <4>2 DEF Stop
      <4>3. CASE CreateLedger(p)
        BY <3>2, <3>3, <3>5, <4>3 DEF CreateLedger
      <4>4. CASE LedgerExists(p)
        BY <3>3, <3>5, <4>4 DEF LedgerExists, AfterEnsure
      <4>5. CASE ReadVersion(p)
        BY <2>1, <3>2, <3>3, <3>5, <4>5 DEF ReadVersion
      <4>6. CASE DownRead(p)
        BY <2>1, <3>2, <3>3, <3>5, <4>6 DEF DownRead
      <4> QED
        BY <3>1, <4>1, <4>2, <4>3, <4>4, <4>5, <4>6
    <3>7. UNCHANGED row
      BY <3>1 DEF Start, Stop, LedgerExists, CreateLedger, ReadVersion, DownRead,
         ledger
    <3> QED
      BY <2>1, <3>4, <3>6, <3>7
  <2>3. CASE Resolve
    BY <2>1, <2>3 DEF Resolve, Interrupted, ledger
  <2> QED
    BY <2>1, <2>2, <2>3 DEF Next, Interrupted
<1> QED
  BY InitIInv, <1>1, <1>2, PTL DEF Spec, RefusesUntilForce
-----------------------------------------------------------------------------
\* What the call c of UpTo has applied so far: everything in its list up to cur,
\* and of the migration at hand the statements it has executed.
Applied(c) ==
  /\ c.pc = "force" => c.op = "force"
  /\ c.pc \in {"pick", "up"} =>
       /\ c.op = "up"
       /\ \A u \in c.migs : u <= c.cur => done[u] = Stmts[u]
  /\ c.pc = "up" =>
       /\ c.cur < c.v /\ c.k <= done[c.v]
       /\ \A u \in c.migs : u < c.v => u <= c.cur

AllApplied == \A p \in Procs : Applied(run[p])

\* What a version read from a clean ledger says, the ledger without a row included.
LEMMA ReadApplied ==
  ASSUME IInv, ~row.dirty, NEW u \in Versions, u <= row.version
  PROVE  done[u] = Stmts[u]
<1>1. u \in Nat /\ u # 0 /\ row.version \in Targets
  BY Numbers DEF IInv, TypeOK
<1>2. row.present
  BY <1>1 DEF IInv, FreshLedger
<1> QED
  BY <1>2 DEF IInv, CleanMeansComplete, SchemaAt

\* UpMark takes the lowest pending migration, so those below it are not pending.
LEMMA MarkApplied ==
  ASSUME IInv, NEW p \in Procs, Applied(run[p]), UpMark(p)
  PROVE  Applied(run[p])'
<1>1. run[p] \in Call /\ run \in [Procs -> Call] /\ TypeOK /\ UNCHANGED done
  BY Known DEF UpMark
<1>2. PICK v \in Versions :
        IsNext(p, v) /\ run' = [run EXCEPT ![p].pc = "up", ![p].v = v, ![p].k = 0]
  BY DEF UpMark
<1>3. /\ run'[p].pc = "up" /\ run'[p].v = v /\ run'[p].k = 0 /\ run'[p].op = run[p].op
      /\ run'[p].cur = run[p].cur /\ run'[p].migs = run[p].migs /\ run[p].pc = "pick"
  BY <1>1, <1>2 DEF Call, UpMark
<1>4. /\ run[p].migs \subseteq Versions /\ run[p].cur \in Nat /\ run[p].target \in Nat
      /\ v \in Nat /\ run[p].cur < v /\ v <= run[p].target /\ done[v] \in Nat
  BY <1>1, <1>2, Numbers DEF Call, IsNext, Pending, TypeOK
<1>5. ASSUME NEW u \in run[p].migs, u < v PROVE u <= run[p].cur
  <2>1. u \in Nat /\ u <= run[p].target /\ ~(v <= u)
    <3>1. u \in Nat
      BY <1>4, Numbers
    <3> QED
      BY <1>4, <1>5, <3>1
  <2>2. u \notin Pending(p)
    BY <1>2, <2>1 DEF IsNext
  <2> QED
    BY <1>4, <2>1, <2>2 DEF Pending
<1>6. 0 <= done[v]
  BY <1>4
<1> QED
  BY <1>1, <1>3, <1>4, <1>5, <1>6 DEF Applied

\* A statement is of a migration above those that are complete.
LEMMA StmtApplied ==
  ASSUME IInv, NEW p \in Procs, Applied(run[p]), UpStmt(p)
  PROVE  Applied(run[p])'
<1>1. /\ run[p] \in Call /\ run \in [Procs -> Call] /\ TypeOK /\ run[p].v \in Versions
      /\ run[p].pc = "up"
  BY Known DEF UpStmt
<1>2. CASE Return(p, "error")
  BY <1>2, Known DEF Applied
<1>3. CASE /\ done' = [done EXCEPT ![run[p].v] = run[p].k + 1]
           /\ run' = [run EXCEPT ![p].k = run[p].k + 1]
  <2>1. /\ run'[p].pc = "up" /\ run'[p].v = run[p].v /\ run'[p].k = run[p].k + 1
        /\ run'[p].op = run[p].op /\ run'[p].cur = run[p].cur /\ run'[p].migs = run[p].migs
    BY <1>1, <1>3 DEF Call
  <2>2. /\ run[p].migs \subseteq Versions /\ run[p].cur \in Nat /\ run[p].v \in Nat
        /\ run[p].k \in Nat
    BY <1>1, Numbers DEF Call
  <2>3. done'[run[p].v] = run[p].k + 1 /\ \A u \in Versions : u # run[p].v => done'[u] = done[u]
    BY <1>1, <1>3 DEF TypeOK
  <2>4. ASSUME NEW u \in run[p].migs, u <= run[p].cur PROVE done'[u] = Stmts[u]
    <3>1. u \in Versions /\ u # run[p].v
      BY <1>1, <2>2, <2>4, Numbers DEF Applied
    <3> QED
      BY <1>1, <2>3, <2>4, <3>1 DEF Applied
  <2>5. run[p].k + 1 <= done'[run[p].v]
    BY <2>2, <2>3
  <2> QED
    BY <1>1, <2>1, <2>4, <2>5 DEF Applied
<1> QED
  BY <1>2, <1>3 DEF UpStmt

\* When its last statement is done, a migration is complete.
LEMMA DoneApplied ==
  ASSUME IInv, NEW p \in Procs, Applied(run[p]), UpDone(p)
  PROVE  Applied(run[p])'
<1>1. /\ run[p] \in Call /\ run \in [Procs -> Call] /\ TypeOK /\ run[p].v \in Versions
      /\ run[p].pc = "up" /\ UNCHANGED done /\ run[p].k = Stmts[run[p].v]
  BY Known DEF UpDone
<1>2. /\ run'[p].pc = "pick" /\ run'[p].cur = run[p].v
      /\ run'[p].op = run[p].op /\ run'[p].migs = run[p].migs
  BY <1>1 DEF Call, UpDone
<1>3. run[p].migs \subseteq Versions /\ run[p].v \in Nat /\ Stmts[run[p].v] \in Nat
      /\ done[run[p].v] \in Nat /\ done[run[p].v] <= Stmts[run[p].v]
  BY <1>1, Numbers DEF Call, TypeOK
<1>4. done[run[p].v] = Stmts[run[p].v]
  BY <1>1, <1>3 DEF Applied
<1>5. ASSUME NEW u \in run[p].migs, u <= run[p].v PROVE done[u] = Stmts[u]
  <2>1. u \in Nat
    BY <1>3, Numbers
  <2>2. u = run[p].v \/ u < run[p].v
    BY <1>3, <1>5, <2>1
  <2> QED
    BY <1>1, <1>4, <2>2 DEF Applied
<1> QED
  BY <1>1, <1>2, <1>5 DEF Applied

\* Every step of a call keeps what UpTo has applied so far.
LEMMA StepApplied ==
  ASSUME IInv, NEW p \in Procs, Applied(run[p]), Step(p)
  PROVE  Applied(run[p])'
<1>1. run[p] \in Call /\ run \in [Procs -> Call] /\ TypeOK
  BY Known
<1>2. \A r \in {"nil", "error"} : Return(p, r) => run'[p].pc = "idle"
  BY Known
<1>3. ASSUME NEW point \in Points, Goto(p, point)
      PROVE  run'[p].pc = point /\ run'[p].op = run[p].op
  BY <1>1, <1>3 DEF Goto, Call
<1>4. {"create", "insert", "force", "read", "down read"} \subseteq Points
  BY DEF Points
<1>5. CASE run'[p].pc \notin {"force", "pick", "up"}
  BY <1>5 DEF Applied
<1>6. CASE LedgerExists(p) \/ CreateLedger(p) \/ InsertRow(p)
  <2>1. run'[p].pc = "force" => run'[p].op = "force"
    BY <1>2, <1>3, <1>4, <1>6 DEF LedgerExists, CreateLedger, InsertRow, AfterEnsure
  <2>2. run'[p].pc \notin {"pick", "up"}
    BY <1>2, <1>3, <1>4, <1>6 DEF LedgerExists, CreateLedger, InsertRow, AfterEnsure
  <2> QED
    BY <2>1, <2>2 DEF Applied
<1>7. CASE ReadVersion(p)
  <2>1. CASE run[p].op = "up" /\ ~row.dirty
             /\ run' = [run EXCEPT ![p].pc = "pick", ![p].cur = row.version]
    <3>1. /\ run'[p].pc = "pick" /\ run'[p].cur = row.version /\ run'[p].op = "up"
          /\ run'[p].migs = run[p].migs /\ run[p].migs \subseteq Versions
      BY <1>1, <2>1 DEF Call
    <3>2. UNCHANGED done
      BY <1>7 DEF ReadVersion
    <3> QED
      BY <2>1, <3>1, <3>2, ReadApplied DEF Applied
  <2>2. CASE Goto(p, "down read") \/ \E r \in {"nil", "error"} : Return(p, r)
    BY <1>2, <1>3, <1>4, <1>5, <2>2
  <2> QED
    BY <1>7, <2>1, <2>2 DEF ReadVersion
<1>8. CASE SetForced(p) \/ UpReturn(p)
  BY <1>2, <1>5, <1>8 DEF SetForced, UpReturn
<1>9. CASE DownRead(p)
  <2>1. CASE run' = [run EXCEPT ![p].pc = "down mark", ![p].v = row.version]
    BY <1>1, <1>5, <2>1 DEF Call
  <2> QED
    BY <1>2, <1>3, <1>4, <1>5, <1>9, <2>1 DEF DownRead
<1>10. CASE DownMark(p)
  BY <1>1, <1>5, <1>10 DEF DownMark, Call
<1>11. CASE DownStmt(p)
  <2>1. CASE run' = [run EXCEPT ![p].k = run[p].k - 1]
    BY <1>1, <1>5, <1>11, <2>1 DEF DownStmt, Call
  <2> QED
    BY <1>2, <1>5, <1>11, <2>1 DEF DownStmt
<1>12. CASE DownDone(p)
  BY <1>2, <1>3, <1>4, <1>5, <1>12 DEF DownDone
<1> QED
  BY <1>6, <1>7, <1>8, <1>9, <1>10, <1>11, <1>12, MarkApplied, StmtApplied, DoneApplied
  DEF Step

\* The other processes are in no call.
LEMMA NextApplied == ASSUME Deployment, IInv, AllApplied, [Next]_vars PROVE AllApplied'
<1>1. run \in [Procs -> Call] /\ TypeOK
  BY DEF IInv, TypeOK
<1>2. ASSUME NEW p \in Procs, Step(p) PROVE AllApplied'
  <2>1. run[p].pc # "idle"
    BY <1>2 DEF Step, LedgerExists, CreateLedger, InsertRow, SetForced, ReadVersion,
       UpMark, UpReturn, UpStmt, UpDone, DownRead, DownMark, DownStmt, DownDone
  <2>2. ASSUME NEW q \in Procs, q # p PROVE run'[q].pc = "idle"
    BY <1>1, <1>2, <2>1, <2>2, StepUpdatesOne DEF IInv, OneCall
  <2>3. Applied(run[p])'
    BY <1>2, StepApplied DEF AllApplied
  <2> QED
    BY <2>2, <2>3 DEF AllApplied, Applied
<1>3. ASSUME NEW p \in Procs, Start(p) PROVE AllApplied'
  <2>1. ASSUME NEW q \in Procs, q # p PROVE run'[q].pc = "idle"
    BY <1>1, <1>3, <2>1 DEF Start, Deployment
  <2>2. run'[p].pc = "ensure"
    BY <1>1, <1>3 DEF Start, Idle
  <2> QED
    BY <2>1, <2>2 DEF AllApplied, Applied
<1>4. ASSUME NEW p \in Procs, Stop(p) PROVE AllApplied'
  <2>1. run'[p].pc = "idle" /\ UNCHANGED done
    BY <1>4, Known DEF Stop
  <2>2. ASSUME NEW q \in Procs, q # p PROVE run'[q] = run[q]
    BY <1>1, <1>4, <2>2 DEF Stop, Return
  <2> QED
    BY <2>1, <2>2 DEF AllApplied, Applied
<1>5. CASE Resolve
  BY <1>5 DEF Resolve, AllApplied, Applied
<1>6. CASE UNCHANGED vars
  BY <1>6 DEF vars, AllApplied, Applied
<1> QED
  BY <1>2, <1>3, <1>4, <1>5, <1>6 DEF Next

\* Only these steps return nil from UpTo and from DownTo.
LEMMA NilReturns ==
  ASSUME IInv, AllApplied, NEW p \in Procs, Next
  PROVE  /\ Returned(p, "up", "nil") => UpReturn(p)
         /\ Returned(p, "downto", "nil") => ReadVersion(p) /\ row.version <= run[p].target
<1> SUFFICES ASSUME NEW op \in {"up", "downto"}, Returned(p, op, "nil")
             PROVE  \/ op = "up" /\ UpReturn(p)
                    \/ op = "downto" /\ ReadVersion(p) /\ row.version <= run[p].target
  BY DEF Returned
<1>1. run[p] \in Call /\ run \in [Procs -> Call] /\ TypeOK
  BY Known
<1>2. /\ run[p].op = op /\ run[p].pc # "idle" /\ run'[p].pc = "idle"
      /\ run'[p].result = "nil"
  BY DEF Returned
<1>3. ~Return(p, "error")
  BY <1>1, <1>2 DEF Return, Idle
<1>4. \A point \in Points : Goto(p, point) => point = "idle"
  BY <1>1, <1>2, Known DEF Call
<1>5. {"create", "insert", "force", "read", "down read"} \subseteq Points
  BY DEF Points
<1>6. Step(p)
  <2>1. ASSUME NEW q \in Procs, Start(q) \/ Step(q) \/ Stop(q) PROVE q = p
    <3>1. q # p => run'[p] = run[p]
      BY <1>1, <2>1, StepUpdatesOne DEF Start, Stop, Return
    <3> QED
      BY <1>2, <3>1
  <2>2. ~Resolve
    BY <1>2 DEF Resolve
  <2>3. ~Start(p) /\ ~Stop(p)
    BY <1>2, <1>3 DEF Start, Stop
  <2> QED
    BY <2>1, <2>2, <2>3 DEF Next
<1>7. ~(LedgerExists(p) \/ CreateLedger(p) \/ InsertRow(p))
  BY <1>3, <1>4, <1>5 DEF LedgerExists, CreateLedger, InsertRow, AfterEnsure
<1>8. ~SetForced(p)
  BY <1>2 DEF SetForced, AllApplied, Applied
<1>9. ~(UpMark(p) \/ UpDone(p) \/ DownMark(p))
  <2>1. ~UpMark(p)
    <3>1. \A v \in Versions : run' # [run EXCEPT ![p].pc = "up", ![p].v = v, ![p].k = 0]
      BY <1>1, <1>2 DEF Call
    <3> QED
      BY <3>1 DEF UpMark
  <2>2. ~UpDone(p)
    <3>1. UpDone(p) => run'[p].pc = "pick"
      BY <1>1 DEF UpDone, Call
    <3> QED
      BY <1>2, <3>1
  <2>3. ~DownMark(p)
    <3>1. DownMark(p) => run'[p].pc = "down"
      BY <1>1 DEF DownMark, Call
    <3> QED
      BY <1>2, <3>1
  <2> QED
    BY <2>1, <2>2, <2>3
<1>10. ~(UpStmt(p) \/ DownStmt(p))
  BY <1>1, <1>2, <1>3 DEF UpStmt, DownStmt, Call
<1>11. ~DownRead(p)
  <2>1. run' # [run EXCEPT ![p].pc = "down mark", ![p].v = row.version]
    BY <1>1, <1>2 DEF Call
  <2> QED
    BY <1>2, <1>3, <1>4, <1>5, <2>1 DEF DownRead
<1>12. ~DownDone(p)
  BY <1>2, <1>4, <1>5 DEF DownDone
<1>13. UpReturn(p) => op = "up"
  BY <1>2 DEF UpReturn, AllApplied, Applied
<1>14. ReadVersion(p) => op = "downto" /\ row.version <= run[p].target
  <2>1. run' # [run EXCEPT ![p].pc = "pick", ![p].cur = row.version]
    BY <1>1, <1>2 DEF Call
  <2> QED
    BY <1>2, <1>3, <1>4, <1>5, <2>1 DEF ReadVersion
<1> QED
  BY <1>6, <1>7, <1>8, <1>9, <1>10, <1>11, <1>12, <1>13, <1>14 DEF Step

\* An UpTo that returns nil found nothing pending up to its target: all of it is at or
\* below cur, and so applied, whatever state earlier calls left.
LEMMA UpToDoes ==
  ASSUME IInv, AllApplied, Next, NEW p \in Procs, Returned(p, "up", "nil"),
         NEW v \in run[p].migs, v <= run[p].target
  PROVE  done'[v] = Stmts[v]
<1>1. UpReturn(p) /\ run[p] \in Call
  BY NilReturns, Known
<1>2. run[p].migs \subseteq Versions /\ run[p].cur \in Nat /\ v \in Nat
  BY <1>1, Numbers DEF Call
<1>3. v <= run[p].cur
  BY <1>1, <1>2 DEF UpReturn, Pending
<1> QED
  BY <1>1, <1>3 DEF UpReturn, AllApplied, Applied

\* A DownTo that returns nil read a version at or below its target, and a clean ledger
\* says of that version that nothing above it is in effect.
LEMMA DownToDoes ==
  ASSUME IInv, AllApplied, Next, NEW p \in Procs, Returned(p, "downto", "nil"),
         row'.present, ~row'.dirty, NEW v \in Versions, v > run[p].target
  PROVE  done'[v] = 0
<1>1. ReadVersion(p) /\ row.version <= run[p].target /\ run[p] \in Call
      /\ row.version \in Targets
  BY NilReturns, Known
<1>2. UNCHANGED <<row, done>>
  BY <1>1 DEF ReadVersion, ledger
<1>3. SchemaAt(row.version)
  BY <1>2 DEF IInv, CleanMeansComplete
<1>4. v \in Nat /\ row.version \in Nat /\ run[p].target \in Nat
  BY <1>1, Numbers DEF Call
<1>5. ~(v <= row.version)
  BY <1>1, <1>4
<1> QED
  BY <1>2, <1>3, <1>5 DEF SchemaAt

\* Under Deployment nil is the truth: an UpTo that returns it has applied every pending
\* migration up to its target, and a DownTo that returns it on a clean ledger has rolled
\* back every migration above it (what CallsComplete says besides that a call ends).
THEOREM NilMeansDone ==
  ASSUME Deployment PROVE Spec => UpReturnsDone /\ DownToReturnsDone
<1>1. Init => IInv /\ AllApplied
  BY InitIInv DEF Init, Idle, AllApplied, Applied
<1>2. IInv /\ AllApplied /\ [Next]_vars => IInv' /\ AllApplied'
  BY NextIInv, NextApplied
<1>3. IInv /\ AllApplied /\ [Next]_vars =>
        [\A p \in Procs : Returned(p, "up", "nil") =>
           \A v \in run[p].migs : v <= run[p].target => done'[v] = Stmts[v]]_vars
  BY UpToDoes
<1>4. IInv /\ AllApplied /\ [Next]_vars =>
        [\A p \in Procs : Returned(p, "downto", "nil") /\ row'.present /\ ~row'.dirty =>
           \A v \in Versions : v > run[p].target => done'[v] = 0]_vars
  BY DownToDoes
<1> QED
  BY <1>1, <1>2, <1>3, <1>4, PTL DEF Spec, UpReturnsDone, DownToReturnsDone
=============================================================================
