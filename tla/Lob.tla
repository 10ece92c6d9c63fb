-------------------------------- MODULE Lob --------------------------------
(***************************************************************************)
(* dialect/sqlite/lob: large objects of an orm.LOB column.  A row holds the*)
(* id of a content object; objects live in the blobstore's tables.  Every  *)
(* call is a sequence of statements that commit on their own, unless it    *)
(* runs inside InTx.  Between two of them other processes run, and each of *)
(* them may fail or be the last one its process executes.                  *)
(*                                                                         *)
(* The content of an object is the set of rows through whose structs it was*)
(* written.  The blobstore (gosqlite.org) is external: it creates an object*)
(* under the next id, and a rollback takes the ids of the transaction back.*)
(***************************************************************************)
EXTENDS Naturals

CONSTANTS
  Procs,        \* processes, each with a struct of its own for every row
  Rows,         \* rows of the model
  MaxId,        \* how many objects a behaviour may create (bound)
  Uses,         \* who calls what and what may happen to a call, one record per use
  Reload,       \* callers read their structs again after a rollback
  NoProc        \* no process

ASSUME LobAssumption ==
  /\ MaxId \in Nat
  /\ Uses \subseteq [callers: SUBSET Procs,
                     ops: SUBSET {"open", "drop", "clone", "intx"},
                     faults: SUBSET {"error", "crash"}]
  /\ Reload \in BOOLEAN
  /\ NoProc \notin Procs

VARIABLES
  use,          \* the use looked at
  column,       \* column[r]: the object id in row r, 0 if none
  objects,      \* the objects there are
  content,      \* content[id]: who wrote it
  last,         \* the last id given out
  struct,       \* struct[p][r]: the id in the struct p has of row r
  call,         \* call[p]: the call p is in
  tx,           \* who runs InTx
  saved,        \* what a rollback brings back
  failed        \* history: a statement has failed or a process crashed

vars == <<use, column, objects, content, last, struct, call, tx, saved, failed>>

Ops == use.ops

Faults == use.faults

Ids == 1 .. MaxId

store == <<column, objects, content, last>>

Points == {"idle", "create", "persist", "undo", "write", "delete", "clear",
           "clone", "free", "swap"}

Call == [pc: Points, row: Rows, src: Rows, id: 0 .. MaxId]

Snapshot == [column |-> column, objects |-> objects, content |-> content,
             last |-> last]

Init ==
  /\ use \in Uses
  /\ column = [r \in Rows |-> 0]
  /\ objects = {}
  /\ content = [id \in Ids |-> {}]
  /\ last = 0
  /\ struct = [p \in Procs |-> column]
  /\ \E r \in Rows :
       call = [p \in Procs |-> [pc |-> "idle", row |-> r, src |-> r, id |-> 0]]
  /\ tx = NoProc
  /\ saved = Snapshot
  /\ failed = FALSE

(***************************************************************************)
(* SQLite has one writer at a time; readers see what is committed.         *)
(***************************************************************************)
MayWrite(p) == tx \in {NoProc, p}

Visible(p) == IF MayWrite(p) THEN column ELSE saved.column

CreateObject(p, initial) ==
  /\ MayWrite(p) /\ last < MaxId
  /\ last' = last + 1
  /\ objects' = objects \cup {last'}
  /\ content' = [content EXCEPT ![last'] = initial]
  /\ UNCHANGED column

DeleteObject(p, id) ==
  /\ MayWrite(p)
  /\ objects' = objects \ {id}
  /\ UNCHANGED <<column, content, last>>

UpdateColumn(p, r, id) ==
  /\ MayWrite(p)
  /\ column' = [column EXCEPT ![r] = id]
  /\ UNCHANGED <<objects, content, last>>

Goto(p, point) == call' = [call EXCEPT ![p].pc = point]

Return(p) == Goto(p, "idle")

At(p, point) == call[p].pc = point

SetStruct(p, r, id) == struct' = [struct EXCEPT ![p][r] = id]

(***************************************************************************)
(* Open, Truncate, WriteFrom and, inside InTx, OpenTx and WriteFromTx: all *)
(* of them ensure the object and then write.                               *)
(***************************************************************************)
OpenUnallocated(p, r) ==                    \* mutant: nothing is created for id 0
  /\ "open" \in Ops /\ At(p, "idle")
  /\ call' = [call EXCEPT ![p] = [pc |-> "write", row |-> r, src |-> r,
                                  id |-> struct[p][r]]]
  /\ UNCHANGED <<store, struct, tx, saved, failed>>

\* ensure: the struct decides whether there is an object.
Open(p, r) ==
  /\ "open" \in Ops /\ At(p, "idle")
  /\ LET id == struct[p][r] IN
       call' = [call EXCEPT ![p] = [pc |-> IF id # 0 THEN "write" ELSE "create",
                                    row |-> r, src |-> r, id |-> id]]
  /\ UNCHANGED <<store, struct, tx, saved, failed>>

\* c.Create
Create(p) ==
  /\ At(p, "create")
  /\ CreateObject(p, {})
  /\ call' = [call EXCEPT ![p].pc = "persist", ![p].id = last']
  /\ UNCHANGED <<struct, tx, saved, failed>>

PersistStructOnly(p) ==                     \* mutant: no UPDATE of the row
  /\ At(p, "persist")
  /\ SetStruct(p, call[p].row, call[p].id)
  /\ Goto(p, "write")
  /\ UNCHANGED <<store, tx, saved, failed>>

\* query.Update of the column, then the struct.
Persist(p) ==
  /\ At(p, "persist")
  /\ UpdateColumn(p, call[p].row, call[p].id)
  /\ SetStruct(p, call[p].row, call[p].id)
  /\ Goto(p, "write")
  /\ UNCHANGED <<tx, saved, failed>>

\* The UPDATE failed: the object just created is freed.
PersistError(p) ==
  /\ "error" \in Faults /\ At(p, "persist")
  /\ Goto(p, "undo")
  /\ failed' = TRUE
  /\ UNCHANGED <<store, struct, tx, saved>>

Undo(p) ==
  /\ At(p, "undo")
  /\ DeleteObject(p, call[p].id)
  /\ Return(p)
  /\ UNCHANGED <<struct, tx, saved, failed>>

\* The content is written, or there is no such object.
Write(p) ==
  LET id == call[p].id IN
  /\ At(p, "write") /\ MayWrite(p)
  /\ \/ /\ id \in objects
        /\ content' = [content EXCEPT ![id] = @ \cup {call[p].row}]
     \/ id \notin objects /\ UNCHANGED content
  /\ Return(p)
  /\ UNCHANGED <<column, objects, last, struct, tx, saved, failed>>

(***************************************************************************)
(* Drop and, inside InTx, DropTx.                                          *)
(***************************************************************************)
Drop(p, r) ==
  /\ "drop" \in Ops /\ At(p, "idle")
  /\ struct[p][r] # 0
  /\ call' = [call EXCEPT ![p] = [pc |-> "delete", row |-> r, src |-> r,
                                  id |-> struct[p][r]]]
  /\ UNCHANGED <<store, struct, tx, saved, failed>>

\* st.Delete; ErrNotFound is no error.
Delete(p) ==
  /\ At(p, "delete")
  /\ DeleteObject(p, call[p].id)
  /\ Goto(p, "clear")
  /\ UNCHANGED <<struct, tx, saved, failed>>

Clear(p) ==
  /\ At(p, "clear")
  /\ UpdateColumn(p, call[p].row, 0)
  /\ SetStruct(p, call[p].row, 0)
  /\ Return(p)
  /\ UNCHANGED <<tx, saved, failed>>

(***************************************************************************)
(* Clone; there is no CloneTx.                                             *)
(***************************************************************************)
Clone(p, dst, src) ==
  /\ "clone" \in Ops /\ At(p, "idle") /\ tx # p
  /\ dst # src /\ struct[p][src] # 0
  /\ call' = [call EXCEPT ![p] = [pc |-> "clone", row |-> dst, src |-> src,
                                  id |-> 0]]
  /\ UNCHANGED <<store, struct, tx, saved, failed>>

\* st.Clone: a copy of an object that is there, an error otherwise.
CloneObject(p) ==
  LET from == struct[p][call[p].src] IN
  /\ At(p, "clone") /\ MayWrite(p)
  /\ \/ /\ from \in objects
        /\ CreateObject(p, content[from])
        /\ call' = [call EXCEPT ![p].id = last',
                                ![p].pc = IF struct[p][call[p].row] # 0
                                          THEN "free" ELSE "swap"]
     \/ from \notin objects /\ Return(p) /\ UNCHANGED store
  /\ UNCHANGED <<struct, tx, saved, failed>>

\* The previous object of dst is freed.
FreeOld(p) ==
  /\ At(p, "free")
  /\ DeleteObject(p, struct[p][call[p].row])
  /\ Goto(p, "swap")
  /\ UNCHANGED <<struct, tx, saved, failed>>

\* "_ = st.Delete": a failure there is ignored.
FreeOldError(p) ==
  /\ "error" \in Faults /\ At(p, "free")
  /\ Goto(p, "swap")
  /\ failed' = TRUE
  /\ UNCHANGED <<store, struct, tx, saved>>

SwapStructOnly(p) ==                        \* mutant: no UPDATE of the row
  /\ At(p, "swap")
  /\ SetStruct(p, call[p].row, call[p].id)
  /\ Return(p)
  /\ UNCHANGED <<store, tx, saved, failed>>

\* The row of dst gets the copy.
Swap(p) ==
  /\ At(p, "swap")
  /\ UpdateColumn(p, call[p].row, call[p].id)
  /\ SetStruct(p, call[p].row, call[p].id)
  /\ Return(p)
  /\ UNCHANGED <<tx, saved, failed>>

\* The UPDATE failed: the copy is freed.
SwapError(p) ==
  /\ "error" \in Faults /\ At(p, "swap")
  /\ Goto(p, "undo")
  /\ failed' = TRUE
  /\ UNCHANGED <<store, struct, tx, saved>>

(***************************************************************************)
(* InTx.  BEGIN is deferred: it takes effect with the first statement of   *)
(* fn, where the step InTx stands.                                         *)
(***************************************************************************)
InTx(p) ==
  /\ "intx" \in Ops /\ At(p, "idle") /\ tx = NoProc
  /\ tx' = p
  /\ saved' = Snapshot
  /\ UNCHANGED <<store, struct, call, failed>>

\* fn returned nil: COMMIT.
CommitTx(p) ==
  /\ tx = p /\ At(p, "idle")
  /\ tx' = NoProc
  /\ UNCHANGED <<store, struct, call, saved, failed>>

RestoreSaved ==
  /\ column' = saved.column
  /\ objects' = saved.objects
  /\ content' = saved.content
  /\ last' = saved.last

RollbackContentOnly(p) ==                   \* mutant: rows are written outside
  /\ tx = p /\ At(p, "idle")
  /\ tx' = NoProc
  /\ objects' = saved.objects
  /\ content' = saved.content
  /\ last' = saved.last
  /\ struct' = IF Reload THEN [struct EXCEPT ![p] = column] ELSE struct
  /\ UNCHANGED <<column, call, saved, failed>>

\* fn returned an error or panicked: ROLLBACK.  The structs fn changed stay as
\* they are, unless the caller reads the rows again.
RollbackTx(p) ==
  /\ tx = p /\ At(p, "idle")
  /\ tx' = NoProc
  /\ RestoreSaved
  /\ struct' = IF Reload THEN [struct EXCEPT ![p] = saved.column] ELSE struct
  /\ UNCHANGED <<call, saved, failed>>

(***************************************************************************)
(* Everything else.                                                        *)
(***************************************************************************)
\* The struct is read from the row.
Fetch(p, r) ==
  /\ At(p, "idle")
  /\ SetStruct(p, r, Visible(p)[r])
  /\ UNCHANGED <<store, call, tx, saved, failed>>

\* A round trip fails where the code does nothing but return the error.  A store
\* that is full (MaxId) refuses another object.
Error(p) ==
  /\ \/ "error" \in Faults
     \/ last = MaxId /\ call[p].pc \in {"create", "clone"}
  /\ call[p].pc \in {"create", "undo", "write", "delete", "clear", "clone"}
  /\ Return(p)
  /\ failed' = TRUE
  /\ UNCHANGED <<store, struct, tx, saved>>

\* The process dies, its transaction with it, and starts with no struct.
Crash(p) ==
  /\ "crash" \in Faults
  /\ Return(p)
  /\ \/ tx = p /\ RestoreSaved
     \/ tx # p /\ UNCHANGED store
  /\ struct' = [struct EXCEPT ![p] = IF tx = NoProc THEN column
                                     ELSE saved.column]
  /\ tx' = IF tx = p THEN NoProc ELSE tx
  /\ failed' = TRUE
  /\ UNCHANGED saved

Step(p) ==
  \/ Create(p) \/ Persist(p) \/ Undo(p) \/ Write(p)
  \/ Delete(p) \/ Clear(p)
  \/ CloneObject(p) \/ FreeOld(p) \/ Swap(p)
  \/ InTx(p) \/ CommitTx(p) \/ RollbackTx(p)
  \/ \E r \in Rows : Open(p, r) \/ Drop(p, r) \/ Fetch(p, r)
  \/ \E dst, src \in Rows : Clone(p, dst, src)

Failure(p) ==
  PersistError(p) \/ FreeOldError(p) \/ SwapError(p) \/ Error(p) \/ Crash(p)

Next == use' = use /\ \E p \in use.callers : Step(p) \/ Failure(p)

Spec == Init /\ [][Next]_vars

(***************************************************************************)
(* Properties.                                                             *)
(***************************************************************************)
\* Types; ids are given out in order and a call works on an id given out.
TypeOK ==
  /\ column \in [Rows -> 0 .. MaxId]
  /\ objects \subseteq 1 .. last
  /\ content \in [Ids -> SUBSET Rows]
  /\ last \in 0 .. MaxId
  /\ struct \in [Procs -> [Rows -> 0 .. MaxId]]
  /\ call \in [Procs -> Call]
  /\ \A p \in Procs :
       call[p].pc \notin {"idle", "create", "clone"} => call[p].id \in 1 .. last
  /\ tx \in Procs \cup {NoProc}
  /\ tx # NoProc => saved.last <= last
  /\ failed \in BOOLEAN

\* "Wasted space, never corruption" (docs/guides/large-objects.md on
\* allocation): whatever fails, crashes or rolls back while others allocate, a row
\* never names an object that is not there, nor one that another row names (Clone
\* copies, structs are trusted by ensure, ids of rolled-back objects come back),
\* and what is read from a row that was not cloned was written through that row.
\* Drop and Clone free an object before the row lets go of it, so an UPDATE of
\* theirs that fails leaves a row without content: then the first part is void.
RowsKeepTheirObjects ==
  /\ Ops \cap {"drop", "clone"} = {} =>
       \A r \in Rows : column[r] # 0 => column[r] \in objects
  /\ \A r, s \in Rows : column[r] = column[s] /\ column[r] # 0 => r = s
  /\ "clone" \notin Ops =>
       \A r \in Rows : column[r] \in objects => content[column[r]] \subseteq {r}

\* "Open returns an io.WriterAt over the row's large-object content": what one
\* process writes goes to the object the row names, never to one no row has.
WriteReachesRow ==
  [][\A p \in Procs : use.callers = {p} /\ Write(p) /\ call[p].id \in objects
                      => column[call[p].row] = call[p].id]_vars

Quiet == tx = NoProc /\ \A p \in Procs : At(p, "idle")

\* With no failure behind it and no call in progress, the store of one process
\* holds an object for each row that names one and no other: no sequence of
\* Open, Drop, Clone and InTx, committed or rolled back, leaks one, gives a row
\* another one, or frees one that is named; and "Allocated reports whether a
\* content object has been created": a struct with an id has an object.
StoreExact ==
  ~failed /\ Quiet /\ (\E p \in Procs : use.callers = {p}) =>
    /\ objects = {column[r] : r \in Rows} \ {0}
    /\ \A p \in use.callers, r \in Rows : struct[p][r] # 0 => struct[p][r] \in objects
=============================================================================
