------------------------------ MODULE LobProofs ------------------------------
(***************************************************************************)
(* No row of any model names an object that another row names or, where    *)
(* nothing frees objects, one that is gone; and the store of one process   *)
(* holds what its rows name.  For any number of processes, rows, objects   *)
(* and uses.                                                               *)
(***************************************************************************)
EXTENDS Lob, TLAPS

\* A struct changed inside InTx is read again after the rollback, where there
\* are rollbacks: ensure trusts the struct.
Reread == Reload \/ \A u \in Uses : "intx" \notin u.ops

\* A call has the id of an object to work on ...
Holds(p) == call[p].pc \notin {"idle", "create", "clone"}

\* ... or of one it has created for a row that does not name it yet.
New(p) == call[p].pc \in {"persist", "undo", "free", "swap"}

\* Processes whose next view of the store may be the one a rollback gives back.
Others == IF tx = NoProc THEN {} ELSE Procs \ {tx}

Shapes ==
  /\ use \in Uses
  /\ saved \in [column : [Rows -> 0 .. MaxId], objects : SUBSET Ids,
                content : [Ids -> SUBSET Rows], last : 0 .. MaxId]
  /\ saved.objects \subseteq 1 .. saved.last

\* An id a process can come across has been given out, and stays so after a
\* rollback of somebody else.
GivenOut ==
  /\ \A r \in Rows : column[r] <= last
  /\ \A r \in Rows : saved.column[r] <= saved.last
  /\ \A p \in Procs : \A r \in Rows : struct[p][r] <= last
  /\ \A p \in Others : \A r \in Rows : struct[p][r] <= saved.last
  /\ \A p \in Others : Holds(p) => call[p].id <= saved.last

\* Calls and transactions are those of the use looked at.
AsUsed ==
  /\ \A p \in Procs : call[p].pc \in {"clone", "free", "swap"} => "clone" \in Ops
  /\ \A p \in Procs : call[p].pc \in {"delete", "clear"} => "drop" \in Ops
  /\ tx # NoProc => "intx" \in Ops

\* RowsKeepTheirObjects, of a view of the store.
Kept(col, objs, cont) ==
  /\ Ops \cap {"drop", "clone"} = {} => \A r \in Rows : col[r] # 0 => col[r] \in objs
  /\ \A r, s \in Rows : col[r] = col[s] /\ col[r] # 0 => r = s
  /\ "clone" \notin Ops => \A r \in Rows : col[r] \in objs => cont[col[r]] \subseteq {r}

RowsKept ==
  /\ Kept(column, objects, content)
  /\ tx # NoProc => Kept(saved.column, saved.objects, saved.content)

\* The id in a struct, and the one a call writes to, is of no other row.
OwnRow(p, col) ==
  /\ \A r, s \in Rows : struct[p][r] = col[s] /\ col[s] # 0 => r = s
  /\ At(p, "write") => \A s \in Rows : col[s] = call[p].id => s = call[p].row

OwnRows ==
  /\ \A p \in Procs : OwnRow(p, column)
  /\ \A p \in Others : OwnRow(p, saved.column)

\* No row names a new object, which is there unless others free it, and nothing
\* is in one that is not a copy.
Unnamed(p, col, objs, cont) ==
  /\ New(p) => \A s \in Rows : col[s] # call[p].id
  /\ At(p, "persist") /\ "clone" \notin Ops => cont[call[p].id] = {}
  /\ At(p, "persist") /\ Ops \cap {"drop", "clone"} = {} => call[p].id \in objs

NewUnnamed ==
  /\ \A p \in Procs : Unnamed(p, column, objects, content)
  /\ \A p \in Others : Unnamed(p, saved.column, saved.objects, saved.content)

\* No struct and no other call has its id.
NewUnknown ==
  /\ \A p, q \in Procs : New(p) => \A s \in Rows : struct[q][s] # call[p].id
  /\ \A p, q \in Procs : p # q /\ New(p) /\ (New(q) \/ At(q, "write"))
                         => call[q].id # call[p].id

\* What a transaction has put into rows, it has created.
TxIds ==
  tx # NoProc =>
    /\ \A r \in Rows : column[r] \in {0, saved.column[r]} \/ column[r] > saved.last
    /\ New(tx) => call[tx].id > saved.last

IInv ==
  /\ TypeOK
  /\ Shapes
  /\ GivenOut
  /\ AsUsed
  /\ RowsKept
  /\ OwnRows
  /\ NewUnnamed
  /\ NewUnknown
  /\ TxIds

(***************************************************************************)
(* What holds besides for a process that is alone.                         *)
(***************************************************************************)
Alone(p) == use.callers = {p}

\* Its structs are what the rows say, and a write goes where the row points.
InStep ==
  \A p \in Procs : Alone(p) =>
    /\ tx \in {p, NoProc}
    /\ struct[p] = column
    /\ At(p, "write") => column[call[p].row] = call[p].id

\* While nothing has failed the objects are those the rows name, up to what the
\* call in progress is doing.
Named(col) == {col[r] : r \in Rows} \ {0}

ExactFor(p) ==
  /\ call[p].pc \in {"idle", "create", "write", "clone", "delete"} =>
       objects = Named(column)
  /\ call[p].pc \in {"persist", "free"} =>
       objects = Named(column) \cup {call[p].id}
  /\ At(p, "swap") =>
       objects = (Named(column) \ {column[call[p].row]}) \cup {call[p].id}
  /\ At(p, "clear") => objects = Named(column) \ {call[p].id}
  /\ call[p].pc \in {"create", "persist"} => column[call[p].row] = 0
  /\ call[p].pc \in {"delete", "clear"} =>
       column[call[p].row] = call[p].id /\ call[p].id # 0
  /\ ~At(p, "undo")
  /\ tx # NoProc => saved.objects = Named(saved.column)

Exact == ~failed => \A p \in Procs : Alone(p) => ExactFor(p)

(***************************************************************************)
(* What a step of p does, as far as the invariants can tell.               *)
(***************************************************************************)
Act(p) == Step(p) \/ Failure(p)

Moves(p) ==
  /\ call' \in [Procs -> Call]
  /\ \A q \in Procs \ {p} : call'[q] = call[q]

\* The call p is in ends, starts with the id its struct has, or goes on.
Continues(p) ==
  /\ Moves(p)
  /\ \/ call'[p].pc \in {"idle", "create"}
     \/ call'[p].pc = "clone" /\ "clone" \in Ops
     \/ /\ call'[p].pc \in {"write", "delete"}
        /\ call'[p].id = struct[p][call'[p].row] /\ call'[p].id # 0
        /\ call'[p].pc = "delete" => "drop" \in Ops
     \/ call'[p].pc = "clear" /\ At(p, "delete") /\ call'[p].id = call[p].id
     \/ /\ New(p) /\ call'[p].id = call[p].id
        /\ call'[p].pc = "undo" \/ (call'[p].pc = "swap" /\ At(p, "free"))

Ends(p) == Moves(p) /\ call'[p].pc = "idle"

\* An object under the next id, empty or a copy.
Creates(p) ==
  /\ MayWrite(p) /\ last < MaxId /\ last' = last + 1
  /\ objects' = objects \cup {last + 1}
  /\ content' \in [Ids -> SUBSET Rows]
  /\ \A id \in 1 .. last : content'[id] = content[id]
  /\ Moves(p) /\ call'[p].id = last + 1
  /\ \/ call'[p].pc = "persist" /\ content'[last + 1] = {}
     \/ call'[p].pc \in {"free", "swap"} /\ "clone" \in Ops
  /\ UNCHANGED <<column, struct, tx, saved>>

\* An object that is new, or that somebody wants gone.
Frees(p) ==
  /\ MayWrite(p)
  /\ \E id \in 0 .. MaxId :
       /\ objects' = objects \ {id}
       /\ Ops \cap {"drop", "clone"} = {} => At(p, "undo") /\ id = call[p].id
  /\ Continues(p)
  /\ UNCHANGED <<column, content, last, struct, tx, saved>>

\* The row of the call gets the object made for it, or none.
Sets(p, id) ==
  /\ MayWrite(p)
  /\ column' = [column EXCEPT ![call[p].row] = id]
  /\ struct' = [struct EXCEPT ![p][call[p].row] = id]
  /\ Moves(p)
  /\ UNCHANGED <<objects, content, last, tx, saved>>

Names(p) ==
  /\ At(p, "persist") \/ At(p, "swap")
  /\ Sets(p, call[p].id)
  /\ \/ call'[p].pc = "idle"
     \/ /\ At(p, "persist") /\ call'[p].pc = "write"
        /\ call'[p].id = call[p].id /\ call'[p].row = call[p].row

Unnames(p) == Sets(p, 0) /\ Ends(p)

\* Something is written to the object of the call, which may be gone.
Fills(p) ==
  /\ At(p, "write") /\ MayWrite(p)
  /\ \/ content' = [content EXCEPT ![call[p].id] = @ \cup {call[p].row}]
     \/ content' = content
  /\ Ends(p)
  /\ UNCHANGED <<column, objects, last, struct, tx, saved>>

\* The structs of p are read again, some of them or all.
Reads(p) ==
  /\ struct' \in [Procs -> [Rows -> 0 .. MaxId]]
  /\ \A q \in Procs \ {p} : struct'[q] = struct[q]
  /\ \A r \in Rows : struct'[p][r] \in {struct[p][r], Visible(p)[r]}
  /\ Ends(p)
  /\ UNCHANGED <<column, objects, content, last, tx, saved>>

\* The transaction of p is rolled back and the rows are read again.
Undoes(p) ==
  /\ tx = p /\ tx' = NoProc
  /\ RestoreSaved
  /\ struct' = [struct EXCEPT ![p] = saved.column]
  /\ Ends(p)
  /\ UNCHANGED saved

\* Only the call moves.
Passes(p) == Continues(p) /\ UNCHANGED <<store, struct, tx, saved>>

Effect(p) ==
  \/ Creates(p) \/ Frees(p) \/ Names(p) \/ Unnames(p) \/ Fills(p)
  \/ InTx(p) \/ CommitTx(p) \/ Undoes(p) \/ Reads(p) \/ Passes(p)

\* Every id that is worked on is one there is room for.
LEMMA KnownIds ==
  ASSUME IInv
  PROVE  /\ last \in Nat /\ last <= MaxId /\ MaxId \in Nat
         /\ objects \subseteq Ids
         /\ content \in [Ids -> SUBSET Rows]
         /\ \A p \in Procs : Holds(p) => call[p].id \in Ids /\ call[p].id # last + 1
<1>1. last \in 0 .. MaxId /\ objects \subseteq 1 .. last /\ content \in [Ids -> SUBSET Rows]
  BY DEF TypeOK, IInv
<1>2. 1 .. last \subseteq Ids /\ last \in Nat /\ last <= MaxId /\ MaxId \in Nat
  BY <1>1, LobAssumption DEF Ids
<1>3. \A p \in Procs : Holds(p) => call[p].id \in 1 .. last
  BY DEF TypeOK, Holds, IInv
<1> QED
  BY <1>1, <1>2, <1>3

\* The call moves in the record of its process only.
LEMMA CallMoves ==
  ASSUME IInv, NEW p \in Procs, NEW c \in Call, call' = [call EXCEPT ![p] = c]
  PROVE  Moves(p) /\ call'[p] = c
BY DEF Moves, TypeOK, IInv

\* A call that goes on keeps its row and its id.
LEMMA PointMoves ==
  ASSUME IInv, NEW p \in Procs, NEW point \in Points, Goto(p, point)
  PROVE  /\ Moves(p)
         /\ call'[p].pc = point /\ call'[p].id = call[p].id
         /\ call'[p].row = call[p].row
<1> DEFINE c == [call[p] EXCEPT !.pc = point]
<1>1. call[p] \in Call
  BY DEF TypeOK, IInv
<1>2. c \in Call /\ c.pc = point /\ c.id = call[p].id /\ c.row = call[p].row
  BY <1>1 DEF Call
<1>3. call' = [call EXCEPT ![p] = c]
  BY DEF Goto, TypeOK, IInv
<1> HIDE DEF c
<1> QED
  BY <1>2, <1>3, CallMoves

\* Every step of every call is one of these; RollbackTx needs Reread.
LEMMA Effects ==
  ASSUME Reread, IInv, NEW p \in Procs, Act(p), use' = use
  PROVE  Effect(p)
<1> USE DEF Effect
<1>0. {"idle", "write", "undo", "clear", "swap", "persist", "free"} \subseteq Points
  BY DEF Points
<1>1. CASE Create(p)
  <2>1. last' = last + 1 /\ last + 1 \in 1 .. MaxId
    BY <1>1, KnownIds DEF Create, CreateObject
  <2>2. Moves(p) /\ call'[p].pc = "persist" /\ call'[p].id = last + 1
    <3> DEFINE c == [call[p] EXCEPT !.pc = "persist", !.id = last + 1]
    <3>1. call[p] \in Call /\ last + 1 \in 0 .. MaxId
      BY <2>1, KnownIds DEF TypeOK, IInv
    <3>2. c \in Call /\ c.pc = "persist" /\ c.id = last + 1
      BY <1>0, <3>1 DEF Call
    <3>3. call' = [call EXCEPT ![p] = c]
      BY <1>1, <2>1 DEF Create, TypeOK, IInv
    <3> HIDE DEF c
    <3> QED
      BY <3>2, <3>3, CallMoves
  <2>3. content' = [content EXCEPT ![last + 1] = {}] /\ last + 1 \in Ids
    BY <1>1, <2>1 DEF Create, CreateObject, Ids
  <2> QED
    BY <1>1, <2>1, <2>2, <2>3, KnownIds DEF Create, CreateObject, Creates, Ids
<1>2. CASE Persist(p)
  BY <1>0, <1>2, PointMoves DEF Persist, UpdateColumn, SetStruct, Names, Sets, At
<1>3. CASE Undo(p)
  BY <1>0, <1>3, PointMoves, KnownIds
     DEF Undo, DeleteObject, Return, Frees, Continues, At, Holds, Ids
<1>4. CASE Write(p)
  BY <1>0, <1>4, PointMoves DEF Write, Return, Fills, Ends
<1>5. CASE Delete(p)
  BY <1>0, <1>5, PointMoves, KnownIds
     DEF Delete, DeleteObject, AsUsed, Frees, Continues, At, Holds, Ids, IInv
<1>6. CASE Clear(p)
  BY <1>0, <1>6, PointMoves DEF Clear, UpdateColumn, SetStruct, Return, Unnames, Sets, Ends
<1>7. CASE CloneObject(p)
  <2> DEFINE from == struct[p][call[p].src]
             next == IF struct[p][call[p].row] # 0 THEN "free" ELSE "swap"
  <2>1. CASE Return(p) /\ UNCHANGED <<store, struct, tx, saved>>
    BY <1>0, <2>1, PointMoves DEF Return, Passes, Continues
  <2>2. CASE /\ from \in objects
             /\ CreateObject(p, content[from])
             /\ call' = [call EXCEPT ![p].id = last', ![p].pc = next]
    <3>1. last' = last + 1 /\ last + 1 \in 1 .. MaxId
      BY <2>2, KnownIds DEF CreateObject
    <3>2. Moves(p) /\ call'[p].pc \in {"free", "swap"} /\ call'[p].id = last + 1
      <4> DEFINE c == [call[p] EXCEPT !.id = last + 1, !.pc = next]
      <4>1. call[p] \in Call /\ last + 1 \in 0 .. MaxId
        BY <3>1, KnownIds DEF TypeOK, IInv
      <4>2. c \in Call /\ c.pc = next /\ c.id = last + 1
        BY <1>0, <4>1 DEF Call
      <4>3. call' = [call EXCEPT ![p] = c]
        BY <2>2, <3>1 DEF TypeOK, IInv
      <4> HIDE DEF c
      <4> QED
        BY <4>2, <4>3, CallMoves
    <3>3. content' = [content EXCEPT ![last + 1] = content[from]] /\ last + 1 \in Ids
      BY <2>2, <3>1 DEF CreateObject, Ids
    <3>4. content[from] \in SUBSET Rows
      BY <2>2, KnownIds
    <3>5. "clone" \in Ops
      BY <1>7 DEF CloneObject, At, AsUsed, IInv
    <3> QED
      BY <1>7, <2>2, <3>1, <3>2, <3>3, <3>4, <3>5, KnownIds
         DEF CloneObject, CreateObject, Creates, Ids
  <2> QED
    BY <1>7, <2>1, <2>2 DEF CloneObject
<1>8. CASE FreeOld(p)
  <2>1. "clone" \in Ops /\ struct[p][call[p].row] \in 0 .. MaxId
    BY <1>8 DEF FreeOld, At, AsUsed, TypeOK, Call, IInv
  <2> QED
    BY <1>0, <1>8, <2>1, PointMoves DEF FreeOld, DeleteObject, Frees, Continues, New, At
<1>9. CASE Swap(p)
  BY <1>0, <1>9, PointMoves DEF Swap, UpdateColumn, SetStruct, Return, Names, Sets
<1>10. CASE InTx(p) \/ CommitTx(p)
  BY <1>10
<1>11. CASE RollbackTx(p)
  <2>1. tx # NoProc /\ Reload
    BY <1>11, LobAssumption DEF RollbackTx, Reread, AsUsed, Ops, Shapes, IInv
  <2>2. call' = call
    BY <1>11 DEF RollbackTx
  <2> QED
    BY <1>11, <2>1, <2>2 DEF RollbackTx, Undoes, Ends, Moves, At, TypeOK, IInv
<1>12. CASE Crash(p)
  <2>1. Ends(p)
    BY <1>0, <1>12, PointMoves DEF Crash, Return, Ends
  <2>2. CASE tx = p
    BY <1>12, <2>1, <2>2, LobAssumption DEF Crash, Undoes
  <2>3. CASE tx # p
    <3>1. struct' = [struct EXCEPT ![p] = Visible(p)]
      BY <1>12, <2>3 DEF Crash, Visible, MayWrite
    <3>2. Visible(p) \in [Rows -> 0 .. MaxId]
      BY DEF Visible, TypeOK, Shapes, IInv
    <3> QED
      BY <1>12, <2>1, <2>3, <3>1, <3>2 DEF Crash, Reads, store, TypeOK, IInv
  <2> QED
    BY <2>2, <2>3
<1>13. CASE PersistError(p) \/ SwapError(p)
  BY <1>0, <1>13, PointMoves DEF PersistError, SwapError, Passes, Continues, New, At
<1>14. CASE FreeOldError(p)
  BY <1>0, <1>14, PointMoves DEF FreeOldError, Passes, Continues, New, At
<1>15. CASE Error(p)
  BY <1>0, <1>15, PointMoves DEF Error, Return, Passes, Continues
<1>16. ASSUME NEW r \in Rows, Open(p, r)
       PROVE  Effect(p)
  <2> DEFINE id == struct[p][r]
             c  == [pc |-> IF id # 0 THEN "write" ELSE "create", row |-> r, src |-> r,
                    id |-> id]
  <2>1. c \in Call
    BY DEF Call, Points, TypeOK, IInv
  <2>2. call' = [call EXCEPT ![p] = c]
    BY <1>16 DEF Open
  <2>3. Moves(p) /\ call'[p] = c
    BY <2>1, <2>2, CallMoves
  <2> QED
    BY <1>16, <2>3 DEF Open, Passes, Continues
<1>17. ASSUME NEW r \in Rows, Drop(p, r)
       PROVE  Effect(p)
  <2> DEFINE c == [pc |-> "delete", row |-> r, src |-> r, id |-> struct[p][r]]
  <2>1. c \in Call
    BY DEF Call, Points, TypeOK, IInv
  <2>2. call' = [call EXCEPT ![p] = c]
    BY <1>17 DEF Drop
  <2>3. Moves(p) /\ call'[p] = c
    BY <2>1, <2>2, CallMoves
  <2> QED
    BY <1>17, <2>3 DEF Drop, Passes, Continues
<1>18. ASSUME NEW r \in Rows, Fetch(p, r)
       PROVE  Effect(p)
  <2>1. Visible(p) \in [Rows -> 0 .. MaxId]
    BY DEF Visible, TypeOK, Shapes, IInv
  <2>2. struct' = [struct EXCEPT ![p][r] = Visible(p)[r]]
    BY <1>18 DEF Fetch, SetStruct
  <2>3. Ends(p)
    BY <1>18 DEF Fetch, Ends, Moves, At, TypeOK, IInv
  <2> QED
    BY <1>18, <2>1, <2>2, <2>3 DEF Fetch, Reads, store, TypeOK, IInv
<1>19. ASSUME NEW dst \in Rows, NEW src \in Rows, Clone(p, dst, src)
       PROVE  Effect(p)
  <2> DEFINE c == [pc |-> "clone", row |-> dst, src |-> src, id |-> 0]
  <2>1. c \in Call
    BY LobAssumption DEF Call, Points
  <2>2. call' = [call EXCEPT ![p] = c]
    BY <1>19 DEF Clone
  <2>3. Moves(p) /\ call'[p] = c
    BY <2>1, <2>2, CallMoves
  <2> QED
    BY <1>19, <2>3 DEF Clone, Passes, Continues
<1> QED
  BY <1>1, <1>2, <1>3, <1>4, <1>5, <1>6, <1>7, <1>8, <1>9, <1>10, <1>11, <1>12, <1>13,
     <1>14,
     <1>15, <1>16, <1>17, <1>18, <1>19 DEF Act, Step, Failure

\* What p sees of a row is of no other row, though a transaction may be under way.
LEMMA SeesOwnRows ==
  ASSUME IInv, NEW p \in Procs, NEW r \in Rows, NEW s \in Rows
  PROVE  /\ Visible(p)[r] = column[s] /\ column[s] # 0 => r = s
         /\ p \in Others /\ Visible(p)[r] = saved.column[s] /\ saved.column[s] # 0 => r = s
<1>1. CASE MayWrite(p)
  BY <1>1 DEF MayWrite, Visible, Others, RowsKept, Kept, IInv
<1>2. CASE ~MayWrite(p)
  <2>1. tx # NoProc /\ Visible(p) = saved.column
    BY <1>2 DEF MayWrite, Visible
  <2>2. /\ saved.column[r] \in Nat /\ saved.column[s] \in Nat /\ saved.last \in Nat
        /\ saved.column[r] <= saved.last
        /\ column[s] \in Nat
    BY LobAssumption DEF GivenOut, Shapes, TypeOK, IInv
  <2>3. column[s] \in {0, saved.column[s]} \/ column[s] > saved.last
    BY <2>1 DEF TxIds, IInv
  <2>4. saved.column[r] = saved.column[s] /\ saved.column[r] # 0 => r = s
    BY <2>1 DEF RowsKept, Kept, IInv
  <2> QED
    BY <2>1, <2>2, <2>3, <2>4
<1> QED
  BY <1>1, <1>2

\* A row that names a new object, in the view anyone has of it, does not exist.
LEMMA NewNotSeen ==
  ASSUME IInv, NEW o \in Procs, New(o), NEW r \in Rows
  PROVE  /\ column[r] # call[o].id
         /\ tx # NoProc => saved.column[r] # call[o].id
<1>1. column[r] # call[o].id /\ (o \in Others => saved.column[r] # call[o].id)
  BY DEF NewUnnamed, Unnamed, IInv
<1>2. ASSUME tx # NoProc, o \notin Others
      PROVE  saved.column[r] # call[o].id
  <2>1. call[o].id > saved.last
    BY <1>2 DEF Others, TxIds, IInv
  <2>2. saved.column[r] <= saved.last /\ saved.column[r] \in Nat /\ saved.last \in Nat
    BY LobAssumption DEF GivenOut, Shapes, IInv
  <2>3. call[o].id \in Nat
    BY DEF TypeOK, Call, IInv
  <2> QED
    BY <2>1, <2>2, <2>3
<1> QED
  BY <1>1, <1>2

\* The store stays one: ids up to the last one given out.
LEMMA StoreTyped ==
  ASSUME IInv, NEW p \in Procs, Effect(p), use' = use
  PROVE  (/\ column \in [Rows -> 0 .. MaxId]
          /\ content \in [Ids -> SUBSET Rows]
          /\ last \in 0 .. MaxId
          /\ objects \subseteq 1 .. last)'
<1>1. CASE Creates(p)
  <2>1. last' \in 0 .. MaxId /\ objects' \subseteq 1 .. last'
    BY <1>1, KnownIds DEF Creates, TypeOK, IInv
  <2> QED
    BY <1>1, <2>1 DEF Creates, TypeOK, IInv
<1>2. CASE Unnames(p)
  <2>1. call[p].row \in Rows /\ 0 \in 0 .. MaxId
    BY KnownIds DEF TypeOK, Call, IInv
  <2> QED
    BY <1>2, <2>1 DEF Unnames, Sets, TypeOK, IInv
<1>3. CASE Fills(p)
  <2>1. call[p].row \in Rows /\ content \in [Ids -> SUBSET Rows]
    BY KnownIds DEF TypeOK, Call, IInv
  <2>2. content' \in [Ids -> SUBSET Rows]
    BY <1>3, <2>1 DEF Fills
  <2> QED
    BY <1>3, <2>2 DEF Fills, TypeOK, IInv
<1> USE KnownIds DEF TypeOK, Shapes, Call, Ids, IInv
<1>4. CASE Frees(p)
  BY <1>4 DEF Frees, Continues, Moves
<1>5. CASE Names(p)
  BY <1>5 DEF Names, Sets, Moves
<1>6. CASE InTx(p)
  BY <1>6 DEF InTx, store, Snapshot
<1>7. CASE CommitTx(p)
  BY <1>7 DEF CommitTx, store
<1>8. CASE Undoes(p)
  BY <1>8 DEF Undoes, RestoreSaved, Ends, Moves
<1>9. CASE Reads(p)
  BY <1>9 DEF Reads, Ends, Moves
<1>10. CASE Passes(p)
  BY <1>10 DEF Passes, store, Continues, Moves
<1> QED
  BY <1>1, <1>2, <1>3, <1>4, <1>5, <1>6, <1>7, <1>8, <1>9, <1>10 DEF Effect

\* Structs, calls and the transaction keep their types.
LEMMA CallTyped ==
  ASSUME IInv, NEW p \in Procs, Effect(p), use' = use
  PROVE  (/\ struct \in [Procs -> [Rows -> 0 .. MaxId]]
          /\ call \in [Procs -> Call]
          /\ tx \in Procs \cup {NoProc})'
<1> USE KnownIds DEF TypeOK, Call, Shapes, IInv
<1>1. CASE Creates(p)
  BY <1>1 DEF Creates, Moves
<1>2. CASE Frees(p)
  BY <1>2 DEF Frees, Continues, Moves
<1>3. CASE Names(p)
  BY <1>3 DEF Names, Sets, Moves
<1>4. CASE Unnames(p)
  BY <1>4 DEF Unnames, Sets, Ends, Moves
<1>5. CASE Fills(p)
  BY <1>5 DEF Fills, Ends, Moves
<1>6. CASE InTx(p)
  BY <1>6 DEF InTx, store, Snapshot
<1>7. CASE CommitTx(p)
  BY <1>7 DEF CommitTx, store
<1>8. CASE Undoes(p)
  BY <1>8 DEF Undoes, RestoreSaved, Ends, Moves
<1>9. CASE Reads(p)
  BY <1>9 DEF Reads, Ends, Moves
<1>10. CASE Passes(p)
  BY <1>10 DEF Passes, store, Continues, Moves
<1> QED
  BY <1>1, <1>2, <1>3, <1>4, <1>5, <1>6, <1>7, <1>8, <1>9, <1>10 DEF Effect

\* A rollback takes ids back, but none that the call of another process has.
LEMMA HoldsTyped ==
  ASSUME IInv, NEW p \in Procs, Effect(p), use' = use
  PROVE  (\A q \in Procs : Holds(q) => call[q].id \in 1 .. last)'
<1>1. CASE Creates(p)
  <2>1. \A q \in Procs : Holds(q) => call[q].id \in 1 .. last
    BY DEF TypeOK, Holds, IInv
  <2>2. \A q \in Procs \ {p} : Holds(q)' <=> Holds(q)
    BY <1>1 DEF Creates, Moves, Holds
  <2> QED
    BY <1>1, <2>1, <2>2, KnownIds DEF Creates, Moves
<1> USE KnownIds, LobAssumption
    DEF TypeOK, Call, Shapes, Holds, New, At, GivenOut, Others, IInv
<1>2. CASE Frees(p)
  BY <1>2 DEF Frees, Continues, Moves
<1>3. CASE Names(p)
  BY <1>3 DEF Names, Sets, Moves
<1>4. CASE Unnames(p)
  BY <1>4 DEF Unnames, Sets, Ends, Moves
<1>5. CASE Fills(p)
  BY <1>5 DEF Fills, Ends, Moves
<1>6. CASE InTx(p)
  BY <1>6 DEF InTx, store, Snapshot
<1>7. CASE CommitTx(p)
  BY <1>7 DEF CommitTx, store
<1>8. CASE Undoes(p)
  BY <1>8 DEF Undoes, RestoreSaved, Ends, Moves
<1>9. CASE Reads(p)
  BY <1>9 DEF Reads, Ends, Moves
<1>10. CASE Passes(p)
  BY <1>10 DEF Passes, store, Continues, Moves
<1> QED
  BY <1>1, <1>2, <1>3, <1>4, <1>5, <1>6, <1>7, <1>8, <1>9, <1>10 DEF Effect

\* What a rollback brings back is a store.
LEMMA SavedTyped ==
  ASSUME IInv, NEW p \in Procs, Effect(p), use' = use
  PROVE  (Shapes /\ (tx # NoProc => saved.last <= last))'
<1>1. CASE Creates(p)
  <2>1. saved' = saved /\ tx' = tx /\ last' = last + 1
    BY <1>1 DEF Creates
  <2>2. saved.last \in Nat
    BY KnownIds DEF Shapes, IInv
  <2> QED
    BY <2>1, <2>2, KnownIds DEF TypeOK, Shapes, IInv
<1>2. CASE InTx(p)
  <2>1. saved' = Snapshot /\ last' = last
    BY <1>2 DEF InTx, store
  <2>2. Snapshot \in [column : [Rows -> 0 .. MaxId], objects : SUBSET Ids,
                      content : [Ids -> SUBSET Rows], last : 0 .. MaxId]
    BY KnownIds DEF Snapshot, TypeOK, IInv
  <2> QED
    BY <2>1, <2>2 DEF Snapshot, TypeOK, Shapes, IInv
<1> USE KnownIds DEF TypeOK, Call, Shapes, Ids, IInv
<1>3. CASE Frees(p)
  BY <1>3 DEF Frees, Continues, Moves
<1>4. CASE Names(p)
  BY <1>4 DEF Names, Sets, Moves
<1>5. CASE Unnames(p)
  BY <1>5 DEF Unnames, Sets, Ends, Moves
<1>6. CASE Fills(p)
  BY <1>6 DEF Fills, Ends, Moves
<1>7. CASE CommitTx(p)
  BY <1>7 DEF CommitTx, store
<1>8. CASE Undoes(p)
  BY <1>8 DEF Undoes, RestoreSaved, Ends, Moves
<1>9. CASE Reads(p)
  BY <1>9 DEF Reads, Ends, Moves
<1>10. CASE Passes(p)
  BY <1>10 DEF Passes, store, Continues, Moves
<1> QED
  BY <1>1, <1>2, <1>3, <1>4, <1>5, <1>6, <1>7, <1>8, <1>9, <1>10 DEF Effect

\* A call only does what the use looked at has it do.
LEMMA AsUsedKept ==
  ASSUME IInv, NEW p \in Procs, Effect(p), use' = use
  PROVE  AsUsed'
<1> USE LobAssumption DEF Ops, AsUsed, TypeOK, Call, New, At, IInv
<1>1. CASE Creates(p)
  BY <1>1 DEF Creates, Moves
<1>2. CASE Frees(p)
  BY <1>2 DEF Frees, Continues, Moves
<1>3. CASE Names(p)
  BY <1>3 DEF Names, Sets, Moves
<1>4. CASE Unnames(p)
  BY <1>4 DEF Unnames, Sets, Ends, Moves
<1>5. CASE Fills(p)
  BY <1>5 DEF Fills, Ends, Moves
<1>6. CASE InTx(p)
  BY <1>6 DEF InTx, store, Snapshot
<1>7. CASE CommitTx(p)
  BY <1>7 DEF CommitTx, store
<1>8. CASE Undoes(p)
  BY <1>8 DEF Undoes, RestoreSaved, Ends, Moves
<1>9. CASE Reads(p)
  BY <1>9 DEF Reads, Ends, Moves
<1>10. CASE Passes(p)
  BY <1>10 DEF Passes, store, Continues, Moves
<1> QED
  BY <1>1, <1>2, <1>3, <1>4, <1>5, <1>6, <1>7, <1>8, <1>9, <1>10 DEF Effect

\* No column, struct or call has an id before it is given out, in any view.
LEMMA GivenOutKept ==
  ASSUME IInv, NEW p \in Procs, Effect(p), use' = use
  PROVE  GivenOut'
<1>1. CASE Names(p)
  <2>1. call[p].id <= last /\ call[p].row \in Rows
    BY <1>1 DEF Names, At, TypeOK, Call, IInv
  <2>2. p \notin Others
    BY <1>1 DEF Names, Sets, MayWrite, Others
  <2> QED
    BY <1>1, <2>1, <2>2 DEF Names, Sets, Moves, GivenOut, Others, Holds, TypeOK, IInv
<1>2. CASE Reads(p)
  <2>1. \A r \in Rows : /\ Visible(p)[r] <= last
                        /\ p \in Others => Visible(p)[r] <= saved.last
    BY LobAssumption DEF Visible, MayWrite, Others, GivenOut, TypeOK, Shapes, IInv
  <2> QED
    BY <1>2, <2>1 DEF Reads, Ends, Moves, GivenOut, Others, Holds, TypeOK, IInv
<1> USE KnownIds, LobAssumption
    DEF GivenOut, Others, Holds, TypeOK, Call, Shapes, Visible, MayWrite, New, At, IInv
<1>3. CASE Creates(p)
  BY <1>3 DEF Creates, Moves
<1>4. CASE Frees(p)
  BY <1>4 DEF Frees, Continues, Moves
<1>5. CASE Unnames(p)
  BY <1>5 DEF Unnames, Sets, Ends, Moves
<1>6. CASE Fills(p)
  BY <1>6 DEF Fills, Ends, Moves
<1>7. CASE InTx(p)
  BY <1>7 DEF InTx, store, Snapshot
<1>8. CASE CommitTx(p)
  BY <1>8 DEF CommitTx, store
<1>9. CASE Undoes(p)
  BY <1>9 DEF Undoes, RestoreSaved, Ends, Moves
<1>10. CASE Passes(p)
  BY <1>10 DEF Passes, store, Continues, Moves
<1> QED
  BY <1>1, <1>2, <1>3, <1>4, <1>5, <1>6, <1>7, <1>8, <1>9, <1>10 DEF Effect

\* A transaction puts its own ids into rows, or none.
LEMMA TxIdsKept ==
  ASSUME IInv, NEW p \in Procs, Effect(p), use' = use
  PROVE  TxIds'
<1> USE KnownIds, LobAssumption
    DEF TxIds, New, At, TypeOK, Call, Shapes, GivenOut, MayWrite, IInv
<1>1. CASE Creates(p)
  BY <1>1 DEF Creates, Moves
<1>2. CASE Frees(p)
  BY <1>2 DEF Frees, Continues, Moves
<1>3. CASE Names(p)
  BY <1>3 DEF Names, Sets, Moves
<1>4. CASE Unnames(p)
  BY <1>4 DEF Unnames, Sets, Ends, Moves
<1>5. CASE Fills(p)
  BY <1>5 DEF Fills, Ends, Moves
<1>6. CASE InTx(p)
  BY <1>6 DEF InTx, store, Snapshot
<1>7. CASE CommitTx(p)
  BY <1>7 DEF CommitTx, store
<1>8. CASE Undoes(p)
  BY <1>8 DEF Undoes, RestoreSaved, Ends, Moves
<1>9. CASE Reads(p)
  BY <1>9 DEF Reads, Ends, Moves
<1>10. CASE Passes(p)
  BY <1>10 DEF Passes, store, Continues, Moves
<1> QED
  BY <1>1, <1>2, <1>3, <1>4, <1>5, <1>6, <1>7, <1>8, <1>9, <1>10 DEF Effect

\* No two rows get the same object.
LEMMA OneRowEach ==
  ASSUME IInv, NEW p \in Procs, Effect(p), use' = use
  PROVE  (\A r, s \in Rows : column[r] = column[s] /\ column[r] # 0 => r = s)'
<1> USE LobAssumption
    DEF RowsKept, Kept, NewUnnamed, Unnamed, New, At, Call, TypeOK, Shapes, IInv
<1>1. CASE Creates(p)
  BY <1>1 DEF Creates, Moves
<1>2. CASE Frees(p)
  BY <1>2 DEF Frees, Continues, Moves
<1>3. CASE Names(p)
  BY <1>3 DEF Names, Sets, Moves
<1>4. CASE Unnames(p)
  BY <1>4 DEF Unnames, Sets, Ends, Moves
<1>5. CASE Fills(p)
  BY <1>5 DEF Fills, Ends, Moves
<1>6. CASE InTx(p)
  BY <1>6 DEF InTx, store, Snapshot
<1>7. CASE CommitTx(p)
  BY <1>7 DEF CommitTx, store
<1>8. CASE Undoes(p)
  BY <1>8 DEF Undoes, RestoreSaved, Ends, Moves
<1>9. CASE Reads(p)
  BY <1>9 DEF Reads, Ends, Moves
<1>10. CASE Passes(p)
  BY <1>10 DEF Passes, store, Continues, Moves
<1> QED
  BY <1>1, <1>2, <1>3, <1>4, <1>5, <1>6, <1>7, <1>8, <1>9, <1>10 DEF Effect

\* Where only rollbacks and failed allocations free objects, rows keep theirs.
LEMMA RowsHaveObjects ==
  ASSUME IInv, NEW p \in Procs, Effect(p), use' = use
  PROVE  (Ops \cap {"drop", "clone"} = {} =>
            \A r \in Rows : column[r] # 0 => column[r] \in objects)'
<1> USE LobAssumption
    DEF RowsKept, Kept, NewUnnamed, Unnamed, New, At, Ops, AsUsed, Call, TypeOK, Shapes,
        IInv
<1>1. CASE Creates(p)
  BY <1>1 DEF Creates, Moves
<1>2. CASE Frees(p)
  BY <1>2 DEF Frees, Continues, Moves
<1>3. CASE Names(p)
  BY <1>3 DEF Names, Sets, Moves
<1>4. CASE Unnames(p)
  BY <1>4 DEF Unnames, Sets, Ends, Moves
<1>5. CASE Fills(p)
  BY <1>5 DEF Fills, Ends, Moves
<1>6. CASE InTx(p)
  BY <1>6 DEF InTx, store, Snapshot
<1>7. CASE CommitTx(p)
  BY <1>7 DEF CommitTx, store
<1>8. CASE Undoes(p)
  BY <1>8 DEF Undoes, RestoreSaved, Ends, Moves
<1>9. CASE Reads(p)
  BY <1>9 DEF Reads, Ends, Moves
<1>10. CASE Passes(p)
  BY <1>10 DEF Passes, store, Continues, Moves
<1> QED
  BY <1>1, <1>2, <1>3, <1>4, <1>5, <1>6, <1>7, <1>8, <1>9, <1>10 DEF Effect

\* And they do in the view a rollback brings back.
LEMMA SavedRowsKept ==
  ASSUME IInv, NEW p \in Procs, Effect(p), use' = use
  PROVE  (tx # NoProc => Kept(saved.column, saved.objects, saved.content))'
<1> USE LobAssumption DEF RowsKept, Kept, Ops, TypeOK, IInv
<1>1. CASE Creates(p)
  BY <1>1 DEF Creates, Moves
<1>2. CASE Frees(p)
  BY <1>2 DEF Frees, Continues, Moves
<1>3. CASE Names(p)
  BY <1>3 DEF Names, Sets, Moves
<1>4. CASE Unnames(p)
  BY <1>4 DEF Unnames, Sets, Ends, Moves
<1>5. CASE Fills(p)
  BY <1>5 DEF Fills, Ends, Moves
<1>6. CASE InTx(p)
  BY <1>6 DEF InTx, store, Snapshot
<1>7. CASE CommitTx(p)
  BY <1>7 DEF CommitTx, store
<1>8. CASE Undoes(p)
  BY <1>8 DEF Undoes, RestoreSaved, Ends, Moves
<1>9. CASE Reads(p)
  BY <1>9 DEF Reads, Ends, Moves
<1>10. CASE Passes(p)
  BY <1>10 DEF Passes, store, Continues, Moves
<1> QED
  BY <1>1, <1>2, <1>3, <1>4, <1>5, <1>6, <1>7, <1>8, <1>9, <1>10 DEF Effect

\* What is written to an object, the row that names it has written.
LEMMA ContentOfRow ==
  ASSUME IInv, NEW p \in Procs, Effect(p), use' = use
  PROVE  ("clone" \notin Ops =>
            \A r \in Rows : column[r] \in objects => content[column[r]] \subseteq {r})'
<1>1. CASE Fills(p)
  <2>1. /\ At(p, "write") /\ column' = column /\ objects' = objects /\ Ops' = Ops
        /\ \/ content' = content
           \/ content' = [content EXCEPT ![call[p].id] = @ \cup {call[p].row}]
    BY <1>1 DEF Fills, Ops
  <2>2. \A s \in Rows : column[s] = call[p].id => s = call[p].row
    BY <2>1 DEF OwnRows, OwnRow, IInv
  <2>3. objects \subseteq Ids /\ content \in [Ids -> SUBSET Rows]
    BY KnownIds
  <2> QED
    BY <2>1, <2>2, <2>3 DEF RowsKept, Kept, IInv
<1> USE KnownIds, LobAssumption
    DEF RowsKept, Kept, NewUnnamed, Unnamed, New, At, OwnRows, OwnRow, Ops, AsUsed,
        GivenOut, Call, TypeOK, Shapes, IInv
<1>2. CASE Creates(p)
  BY <1>2 DEF Creates, Moves
<1>3. CASE Frees(p)
  BY <1>3 DEF Frees, Continues, Moves
<1>4. CASE Names(p)
  BY <1>4 DEF Names, Sets, Moves
<1>5. CASE Unnames(p)
  BY <1>5 DEF Unnames, Sets, Ends, Moves
<1>6. CASE InTx(p)
  BY <1>6 DEF InTx, store, Snapshot
<1>7. CASE CommitTx(p)
  BY <1>7 DEF CommitTx, store
<1>8. CASE Undoes(p)
  BY <1>8 DEF Undoes, RestoreSaved, Ends, Moves
<1>9. CASE Reads(p)
  BY <1>9 DEF Reads, Ends, Moves
<1>10. CASE Passes(p)
  BY <1>10 DEF Passes, store, Continues, Moves
<1> QED
  BY <1>1, <1>2, <1>3, <1>4, <1>5, <1>6, <1>7, <1>8, <1>9, <1>10 DEF Effect

\* A struct does not come by the object of another row.
LEMMA StructsOwnRow ==
  ASSUME IInv, NEW p \in Procs, Effect(p), use' = use
  PROVE  (\A q \in Procs : \A r, s \in Rows :
            struct[q][r] = column[s] /\ column[s] # 0 => r = s)'
<1>1. CASE Names(p)
  <2>1. /\ column' = [column EXCEPT ![call[p].row] = call[p].id]
        /\ struct' = [struct EXCEPT ![p][call[p].row] = call[p].id]
        /\ New(p) /\ call[p].row \in Rows
    BY <1>1 DEF Names, Sets, New, At, TypeOK, Call, IInv
  <2>2. \A q \in Procs : \A r \in Rows : struct[q][r] # call[p].id
    BY <2>1 DEF NewUnknown, IInv
  <2>3. \A s \in Rows : column[s] # call[p].id
    BY <2>1, NewNotSeen
  <2> QED
    BY <2>1, <2>2, <2>3 DEF OwnRows, OwnRow, TypeOK, IInv
<1>2. CASE Reads(p)
  <2>1. \A r, s \in Rows : Visible(p)[r] = column[s] /\ column[s] # 0 => r = s
    BY SeesOwnRows
  <2> QED
    BY <1>2, <2>1 DEF Reads, OwnRows, OwnRow, IInv
<1> USE LobAssumption
    DEF RowsKept, Kept, NewUnknown, New, At, OwnRows, OwnRow, Others, Call, TypeOK, Shapes,
        IInv
<1>3. CASE Creates(p)
  BY <1>3 DEF Creates, Moves
<1>4. CASE Frees(p)
  BY <1>4 DEF Frees, Continues, Moves
<1>5. CASE Unnames(p)
  BY <1>5 DEF Unnames, Sets, Ends, Moves
<1>6. CASE Fills(p)
  BY <1>6 DEF Fills, Ends, Moves
<1>7. CASE InTx(p)
  BY <1>7 DEF InTx, store, Snapshot
<1>8. CASE CommitTx(p)
  BY <1>8 DEF CommitTx, store
<1>9. CASE Undoes(p)
  BY <1>9 DEF Undoes, RestoreSaved, Ends, Moves
<1>10. CASE Passes(p)
  BY <1>10 DEF Passes, store, Continues, Moves
<1> QED
  BY <1>1, <1>2, <1>3, <1>4, <1>5, <1>6, <1>7, <1>8, <1>9, <1>10 DEF Effect

\* Nor does a call that writes.
LEMMA WritesOwnRow ==
  ASSUME IInv, NEW p \in Procs, Effect(p), use' = use
  PROVE  (\A q \in Procs : At(q, "write") =>
            \A s \in Rows : column[s] = call[q].id => s = call[q].row)'
<1>1. CASE Names(p)
  <2>1. /\ column' = [column EXCEPT ![call[p].row] = call[p].id]
        /\ struct' = [struct EXCEPT ![p][call[p].row] = call[p].id]
        /\ New(p) /\ call[p].row \in Rows
    BY <1>1 DEF Names, Sets, New, At, TypeOK, Call, IInv
  <2>2. \A q \in Procs \ {p} : At(q, "write")' =>
          At(q, "write") /\ call'[q] = call[q] /\ call[q].id # call[p].id
    BY <1>1, <2>1 DEF Names, Sets, Moves, At, NewUnknown, IInv
  <2>3. At(p, "write")' => call'[p].id = call[p].id /\ call'[p].row = call[p].row
    BY <1>1 DEF Names, At
  <2>4. \A s \in Rows : column[s] # call[p].id
    BY <2>1, NewNotSeen
  <2> QED
    BY <2>1, <2>2, <2>3, <2>4 DEF OwnRows, OwnRow, TypeOK, IInv
<1>2. CASE Unnames(p)
  <2>1. /\ column' = [column EXCEPT ![call[p].row] = 0]
        /\ \A q \in Procs : At(q, "write")' => At(q, "write") /\ call'[q] = call[q]
    BY <1>2 DEF Unnames, Sets, Ends, Moves, At
  <2>2. \A q \in Procs : At(q, "write") => call[q].id # 0
    BY DEF At, TypeOK, IInv
  <2> QED
    BY <2>1, <2>2 DEF OwnRows, OwnRow, TypeOK, IInv
<1>3. CASE Fills(p)
  <2>1. /\ column' = column
        /\ \A q \in Procs : At(q, "write")' => At(q, "write") /\ call'[q] = call[q]
    BY <1>3 DEF Fills, Ends, Moves, At
  <2> QED
    BY <2>1 DEF OwnRows, OwnRow, IInv
<1>4. CASE Undoes(p)
  <2>1. /\ column' = saved.column
        /\ \A q \in Procs : At(q, "write")' =>
             At(q, "write") /\ call'[q] = call[q] /\ q \in Others
    BY <1>4, LobAssumption DEF Undoes, RestoreSaved, Ends, Moves, At, Others
  <2> QED
    BY <2>1 DEF OwnRows, OwnRow, IInv
<1> USE LobAssumption
    DEF RowsKept, Kept, NewUnnamed, Unnamed, NewUnknown, New, At, OwnRows, OwnRow, Others,
        Call, TypeOK, Shapes, IInv
<1>5. CASE Creates(p)
  BY <1>5 DEF Creates, Moves
<1>6. CASE Frees(p)
  BY <1>6 DEF Frees, Continues, Moves
<1>7. CASE InTx(p)
  BY <1>7 DEF InTx, store, Snapshot
<1>8. CASE CommitTx(p)
  BY <1>8 DEF CommitTx, store
<1>9. CASE Reads(p)
  BY <1>9 DEF Reads, Ends, Moves
<1>10. CASE Passes(p)
  <2>1. /\ column' = column
        /\ \A q \in Procs \ {p} : call'[q] = call[q]
        /\ At(p, "write")' => /\ call'[p].row \in Rows
                              /\ call'[p].id = struct[p][call'[p].row] /\ call'[p].id # 0
    BY <1>10 DEF Passes, Continues, Moves, store
  <2> QED
    BY <2>1
<1> QED
  BY <1>1, <1>2, <1>3, <1>4, <1>5, <1>6, <1>7, <1>8, <1>9, <1>10 DEF Effect

\* And neither does in the view a rollback brings back.
LEMMA OthersOwnRow ==
  ASSUME IInv, NEW p \in Procs, Effect(p), use' = use
  PROVE  (\A q \in Others : OwnRow(q, saved.column))'
<1>1. CASE Reads(p)
  <2>1. /\ \A q \in Procs \ {p} : struct'[q] = struct[q]
        /\ \A r \in Rows : struct'[p][r] \in {struct[p][r], Visible(p)[r]}
        /\ \A q \in Procs : At(q, "write")' => At(q, "write") /\ call'[q] = call[q]
        /\ saved' = saved /\ Others' = Others /\ Others \subseteq Procs
    BY <1>1 DEF Reads, Ends, Moves, At, Others
  <2>2. \A r, s \in Rows :
          p \in Others /\ Visible(p)[r] = saved.column[s] /\ saved.column[s] # 0 => r = s
    BY SeesOwnRows
  <2> QED
    BY <2>1, <2>2 DEF OwnRows, OwnRow, IInv
<1>2. CASE Passes(p)
  <2>1. /\ struct' = struct /\ saved' = saved /\ Others' = Others
        /\ \A q \in Procs \ {p} : call'[q] = call[q]
        /\ At(p, "write")' => /\ call'[p].row \in Rows
                              /\ call'[p].id = struct[p][call'[p].row] /\ call'[p].id # 0
    BY <1>2 DEF Passes, store, Continues, Moves, At, Others, Call
  <2> QED
    BY <2>1 DEF At, Others, OwnRows, OwnRow, IInv
<1> USE LobAssumption
    DEF RowsKept, Kept, New, At, OwnRows, OwnRow, Others, Visible, MayWrite, Call, TypeOK,
        Shapes, IInv
<1>3. CASE Creates(p)
  BY <1>3 DEF Creates, Moves
<1>4. CASE Frees(p)
  BY <1>4 DEF Frees, Continues, Moves
<1>5. CASE Names(p)
  BY <1>5 DEF Names, Sets, Moves
<1>6. CASE Unnames(p)
  BY <1>6 DEF Unnames, Sets, Ends, Moves
<1>7. CASE Fills(p)
  BY <1>7 DEF Fills, Ends, Moves
<1>8. CASE InTx(p)
  BY <1>8 DEF InTx, store, Snapshot
<1>9. CASE CommitTx(p)
  BY <1>9 DEF CommitTx, store
<1>10. CASE Undoes(p)
  BY <1>10 DEF Undoes, RestoreSaved, Ends, Moves
<1> QED
  BY <1>1, <1>2, <1>3, <1>4, <1>5, <1>6, <1>7, <1>8, <1>9, <1>10 DEF Effect

\* An object is new since it was created, or it was new before.
LEMMA NewBefore ==
  ASSUME IInv, NEW p \in Procs, Effect(p), use' = use
  PROVE  /\ \A q \in Procs \ {p} : call'[q] = call[q]
         /\ New(p)' => \/ Creates(p)
                       \/ /\ Frees(p) \/ Passes(p)
                          /\ New(p) /\ call'[p].id = call[p].id /\ ~At(p, "persist")'
         /\ At(p, "write")' => \/ At(p, "persist") /\ call'[p].id = call[p].id
                               \/ \E r \in Rows : call'[p].id = struct[p][r]
<1> USE DEF New, At, Moves
<1>1. CASE Creates(p)
  BY <1>1 DEF Creates
<1>2. CASE Frees(p) \/ Passes(p)
  BY <1>2 DEF Frees, Passes, Continues, Call
<1>3. CASE Names(p)
  BY <1>3 DEF Names, Sets
<1>4. CASE Unnames(p) \/ Fills(p) \/ Undoes(p) \/ Reads(p)
  BY <1>4 DEF Unnames, Fills, Undoes, Reads, Ends, Sets
<1>5. CASE InTx(p) \/ CommitTx(p)
  BY <1>5 DEF InTx, CommitTx
<1> QED
  BY <1>1, <1>2, <1>3, <1>4, <1>5 DEF Effect

\* Until its own call names it, no row names a new object ...
LEMMA NewStaysOutOfRows ==
  ASSUME IInv, NEW p \in Procs, Effect(p), use' = use
  PROVE  (\A q \in Procs : New(q) => \A s \in Rows : column[s] # call[q].id)'
<1> SUFFICES ASSUME NEW q \in Procs, New(q)', NEW s \in Rows
             PROVE  column'[s] # call'[q].id
  OBVIOUS
<1>1. CASE q = p /\ Creates(p)
  BY <1>1, KnownIds DEF Creates, GivenOut, TypeOK, IInv
<1>2. CASE q = p /\ ~Creates(p)
  BY <1>2, NewBefore, NewNotSeen DEF Frees, Passes, store
<1>3. CASE q # p
  <2>1. New(q) /\ call'[q] = call[q]
    BY <1>3, NewBefore DEF New
  <2>2. column[s] # call[q].id /\ 0 # call[q].id
    BY <2>1, NewNotSeen DEF New, TypeOK, IInv
  <2>3. CASE Names(p)
    <3>1. New(p) /\ column' = [column EXCEPT ![call[p].row] = call[p].id]
      BY <2>3 DEF Names, Sets, New, At
    <3>2. call[q].id # call[p].id
      BY <1>3, <2>1, <3>1 DEF NewUnknown, IInv
    <3> QED
      BY <2>1, <2>2, <3>1, <3>2 DEF TypeOK, IInv
  <2>4. CASE Unnames(p)
    BY <2>1, <2>2, <2>4 DEF Unnames, Sets, TypeOK, IInv
  <2>5. CASE Undoes(p)
    BY <2>1, <2>5, NewNotSeen, LobAssumption DEF Undoes, RestoreSaved
  <2>6. CASE column' = column
    BY <2>1, <2>2, <2>6
  <2> QED
    BY <2>3, <2>4, <2>5, <2>6
       DEF Effect, Creates, Frees, Fills, InTx, CommitTx, Reads, Passes, store
<1> QED
  BY <1>1, <1>2, <1>3

\* ... nothing is written to it ...
LEMMA NewStaysEmpty ==
  ASSUME IInv, NEW p \in Procs, Effect(p), use' = use
  PROVE  (\A q \in Procs : At(q, "persist") /\ "clone" \notin Ops =>
            content[call[q].id] = {})'
<1> SUFFICES ASSUME NEW q \in Procs, At(q, "persist")', "clone" \notin Ops
             PROVE  content'[call'[q].id] = {}
  BY DEF Ops
<1>1. CASE q = p
  BY <1>1, NewBefore DEF Creates, New, At
<1>2. CASE q # p
  <2>1. At(q, "persist") /\ call'[q] = call[q] /\ New(q) /\ Holds(q)
    BY <1>2, NewBefore DEF New, At, Holds
  <2>2. content[call[q].id] = {} /\ (q \in Others => saved.content[call[q].id] = {})
    BY <2>1 DEF NewUnnamed, Unnamed, IInv
  <2>3. CASE Creates(p)
    BY <2>1, <2>2, <2>3, KnownIds DEF Creates, Holds, TypeOK, IInv
  <2>4. CASE Fills(p)
    <3>1. call[p].id # call[q].id
      BY <1>2, <2>1, <2>4 DEF Fills, NewUnknown, IInv
    <3> QED
      BY <2>1, <2>2, <2>4, <3>1, KnownIds DEF Fills
  <2>5. CASE Undoes(p)
    BY <1>2, <2>1, <2>2, <2>5, LobAssumption DEF Undoes, RestoreSaved, Others
  <2>6. CASE content' = content
    BY <2>1, <2>2, <2>6
  <2> QED
    BY <2>3, <2>4, <2>5, <2>6
       DEF Effect, Frees, Names, Unnames, Sets, InTx, CommitTx, Reads, Passes, store
<1> QED
  BY <1>1, <1>2

\* ... and it stays there ...
LEMMA NewStaysThere ==
  ASSUME IInv, NEW p \in Procs, Effect(p), use' = use
  PROVE  (\A q \in Procs : At(q, "persist") /\ Ops \cap {"drop", "clone"} = {} =>
            call[q].id \in objects)'
<1> SUFFICES ASSUME NEW q \in Procs, At(q, "persist")', Ops \cap {"drop", "clone"} = {}
             PROVE  call'[q].id \in objects'
  BY DEF Ops
<1>1. CASE q = p
  BY <1>1, NewBefore DEF Creates, New, At
<1>2. CASE q # p
  <2>1. At(q, "persist") /\ call'[q] = call[q] /\ New(q)
    BY <1>2, NewBefore DEF New, At
  <2>2. call[q].id \in objects /\ (q \in Others => call[q].id \in saved.objects)
    BY <2>1 DEF NewUnnamed, Unnamed, IInv
  <2>3. CASE Frees(p)
    <3>1. PICK id \in 0 .. MaxId :
            objects' = objects \ {id} /\ At(p, "undo") /\ id = call[p].id
      BY <2>3 DEF Frees
    <3>2. call[q].id # id
      BY <1>2, <2>1, <3>1 DEF NewUnknown, New, At, IInv
    <3> QED
      BY <2>1, <2>2, <3>1, <3>2
  <2>4. CASE Undoes(p)
    BY <1>2, <2>1, <2>2, <2>4, LobAssumption DEF Undoes, RestoreSaved, Others
  <2>5. CASE objects \subseteq objects'
    BY <2>1, <2>2, <2>5
  <2> QED
    BY <2>3, <2>4, <2>5
       DEF Effect, Creates, Fills, Names, Unnames, Sets, InTx, CommitTx, Reads, Passes,
              store
<1> QED
  BY <1>1, <1>2

\* ... all of it in the view a rollback brings back too ...
LEMMA NewStaysUnsaved ==
  ASSUME IInv, NEW p \in Procs, Effect(p), use' = use
  PROVE  (\A q \in Others : Unnamed(q, saved.column, saved.objects, saved.content))'
<1>1. CASE InTx(p)
  <2>1. saved' = Snapshot /\ call' = call /\ Others' \subseteq Procs
    BY <1>1 DEF InTx, Others
  <2> QED
    BY <2>1 DEF Snapshot, NewUnnamed, Unnamed, New, At, Ops, IInv
<1>2. CASE ~InTx(p)
  <2>1. saved' = saved /\ Others' \subseteq Others
    BY <1>2, LobAssumption
       DEF Effect, Creates, Frees, Names, Unnames, Sets, Fills, CommitTx, Undoes, Reads,
              Passes, Others
  <2>2. ASSUME NEW q \in Procs \ {p}, q \in Others'
        PROVE  Unnamed(q, saved.column, saved.objects, saved.content)'
    <3>1. call'[q] = call[q] /\ q \in Others
      BY <2>1, <2>2, NewBefore
    <3> QED
      BY <2>1, <3>1 DEF NewUnnamed, Unnamed, New, At, Ops, IInv
  <2>3. ASSUME p \in Others'
        PROVE  Unnamed(p, saved.column, saved.objects, saved.content)'
    <3>1. p \in Others /\ ~Creates(p)
      BY <2>1, <2>3 DEF Others, MayWrite, Creates
    <3>2. /\ New(p)' => New(p) /\ call'[p].id = call[p].id
          /\ ~At(p, "persist")'
      BY <3>1, NewBefore DEF New, At
    <3> QED
      BY <2>1, <3>1, <3>2 DEF NewUnnamed, Unnamed, IInv
  <2>4. Others' \subseteq Procs
    BY DEF Others
  <2> QED
    BY <2>2, <2>3, <2>4
<1> QED
  BY <1>1, <1>2

\* ... and no struct and no other call has its id.
LEMMA NewStaysUnknown ==
  ASSUME IInv, NEW p \in Procs, Effect(p), use' = use
  PROVE  NewUnknown'
<1>1. ASSUME NEW o \in Procs, NEW q \in Procs, New(o)', NEW s \in Rows
      PROVE  struct'[q][s] # call'[o].id
  <2>1. CASE o = p /\ Creates(p)
    BY <1>1, <2>1, KnownIds DEF Creates, GivenOut, TypeOK, IInv
  <2>2. CASE o = p /\ ~Creates(p)
    BY <1>1, <2>2, NewBefore DEF Frees, Passes, NewUnknown, IInv
  <2>3. CASE o # p
    <3>1. New(o) /\ call'[o] = call[o]
      BY <1>1, <2>3, NewBefore DEF New
    <3>2. struct[q][s] # call[o].id /\ 0 # call[o].id
      BY <3>1 DEF NewUnknown, New, TypeOK, IInv
    <3>3. column[s] # call[o].id /\ (tx # NoProc => saved.column[s] # call[o].id)
      BY <3>1, NewNotSeen
    <3>4. CASE Names(p)
      <4>1. New(p) /\ struct' = [struct EXCEPT ![p][call[p].row] = call[p].id]
        BY <3>4 DEF Names, Sets, New, At
      <4>2. call[o].id # call[p].id
        BY <2>3, <3>1, <4>1 DEF NewUnknown, IInv
      <4> QED
        BY <3>1, <3>2, <4>1, <4>2 DEF TypeOK, IInv
    <3>5. CASE Unnames(p)
      BY <3>1, <3>2, <3>5 DEF Unnames, Sets, TypeOK, IInv
    <3>6. CASE Undoes(p)
      BY <3>1, <3>2, <3>3, <3>6, LobAssumption DEF Undoes, TypeOK, IInv
    <3>7. CASE Reads(p)
      <4>1. Visible(p)[s] # call[o].id
        BY <3>3 DEF Visible, MayWrite
      <4> QED
        BY <3>1, <3>2, <3>7, <4>1 DEF Reads
    <3>8. CASE struct' = struct
      BY <3>1, <3>2, <3>8
    <3> QED
      BY <3>4, <3>5, <3>6, <3>7, <3>8
         DEF Effect, Creates, Frees, Fills, InTx, CommitTx, Passes, store
  <2> QED
    BY <2>1, <2>2, <2>3
<1>2. \A q \in Procs : New(q) \/ At(q, "write") => call[q].id # last + 1
  BY KnownIds DEF New, At, Holds
<1>3. ASSUME NEW q \in Procs \ {p}, New(p)', New(q) \/ At(q, "write")
      PROVE  call'[p].id # call[q].id
  BY <1>2, <1>3, NewBefore DEF Creates, NewUnknown, IInv
<1>4. ASSUME NEW q \in Procs \ {p}, At(p, "write")', New(q)
      PROVE  call'[p].id # call[q].id
  BY <1>4, NewBefore DEF New, At, NewUnknown, IInv
<1>5. ASSUME NEW o \in Procs, NEW q \in Procs, o # q, New(o)', New(q)' \/ At(q, "write")'
      PROVE  call'[q].id # call'[o].id
  <2>1. \A x \in Procs \ {p} :
          /\ call'[x] = call[x]
          /\ New(x)' <=> New(x)
          /\ At(x, "write")' <=> At(x, "write")
    BY NewBefore DEF New, At
  <2>2. CASE o = p
    BY <1>3, <1>5, <2>1, <2>2
  <2>3. CASE q = p
    BY <1>3, <1>4, <1>5, <2>1, <2>3
  <2>4. CASE o # p /\ q # p
    BY <1>5, <2>1, <2>4 DEF NewUnknown, IInv
  <2> QED
    BY <2>2, <2>3, <2>4
<1> QED
  BY <1>1, <1>5 DEF NewUnknown

(***************************************************************************)
(* The inductive invariant.                                                *)
(***************************************************************************)
\* Every call of every process keeps it.
LEMMA NextKeeps ==
  ASSUME Reread, IInv, Next
  PROVE  IInv'
<1>1. PICK p \in use.callers : Act(p)
  BY DEF Next, Act
<1>2. use' = use
  BY DEF Next
<1>3. p \in Procs
  BY LobAssumption DEF Shapes, IInv
<1>4. Effect(p)
  BY <1>1, <1>2, <1>3, Effects
<1> USE <1>2, <1>3, <1>4
<1>5. failed' \in BOOLEAN
  BY <1>1
     DEF Act, Step, Failure, Create, Persist, Undo, Write, Delete, Clear, CloneObject,
         FreeOld,
     Swap, InTx, CommitTx, RollbackTx, Open, Drop, Fetch, Clone, PersistError, FreeOldError,
     SwapError, Error, Crash, TypeOK, IInv
<1>6. TypeOK' /\ Shapes'
  BY <1>5, StoreTyped, CallTyped, HoldsTyped, SavedTyped DEF TypeOK, Holds
<1>7. AsUsed' /\ GivenOut' /\ TxIds'
  BY AsUsedKept, GivenOutKept, TxIdsKept
<1>8. RowsKept'
  BY OneRowEach, RowsHaveObjects, ContentOfRow, SavedRowsKept DEF RowsKept, Kept
<1>9. OwnRows'
  BY StructsOwnRow, WritesOwnRow, OthersOwnRow DEF OwnRows, OwnRow
<1>10. NewUnnamed' /\ NewUnknown'
  <2>1. NewUnnamed'
    BY NewStaysOutOfRows, NewStaysEmpty, NewStaysThere, NewStaysUnsaved
       DEF NewUnnamed, Unnamed
  <2> QED
    BY <2>1, NewStaysUnknown
<1> QED
  BY <1>6, <1>7, <1>8, <1>9, <1>10 DEF IInv

\* A step of something else changes none of it.
LEMMA StutterKeeps ==
  ASSUME IInv, UNCHANGED vars
  PROVE  IInv'
<1> USE DEF vars
<1>1. TypeOK' /\ Shapes'
  BY DEF TypeOK, Shapes, IInv
<1>2. AsUsed' /\ GivenOut'
  BY DEF AsUsed, GivenOut, Ops, Others, Holds, IInv
<1>3. RowsKept'
  BY DEF RowsKept, Kept, Ops, IInv
<1>4. OwnRows'
  BY DEF OwnRows, OwnRow, Others, At, IInv
<1>5. NewUnnamed'
  BY DEF NewUnnamed, Unnamed, Others, New, At, Ops, IInv
<1>6. NewUnknown' /\ TxIds'
  BY DEF NewUnknown, TxIds, New, At, IInv
<1> QED
  BY <1>1, <1>2, <1>3, <1>4, <1>5, <1>6 DEF IInv

\* At first there are no objects.
LEMMA InitHolds ==
  ASSUME Init
  PROVE  IInv
<1>1. TypeOK /\ Shapes
  <2>1. /\ column \in [Rows -> 0 .. MaxId]
        /\ last \in 0 .. MaxId
        /\ objects \subseteq 1 .. last
    BY LobAssumption DEF Init
  <2>2. struct \in [Procs -> [Rows -> 0 .. MaxId]] /\ content \in [Ids -> SUBSET Rows]
    BY <2>1 DEF Init
  <2>3. PICK r \in Rows :
          call = [p \in Procs |-> [pc |-> "idle", row |-> r, src |-> r, id |-> 0]]
    BY DEF Init
  <2>4. call \in [Procs -> Call]
    BY <2>3, LobAssumption DEF Call, Points
  <2>5. \A p \in Procs : call[p].pc = "idle"
    BY <2>3
  <2>6. TypeOK
    BY <2>1, <2>2, <2>4, <2>5 DEF Init, TypeOK
  <2>7. Shapes
    BY <2>1, <2>2 DEF Init, Shapes, Snapshot, Ids
  <2> QED
    BY <2>6, <2>7
<1>2. AsUsed /\ GivenOut
  BY LobAssumption DEF Init, AsUsed, GivenOut, Others, Snapshot
<1>3. RowsKept /\ OwnRows
  BY DEF Init, RowsKept, Kept, OwnRows, OwnRow, Others, At
<1>4. NewUnnamed /\ NewUnknown /\ TxIds
  BY DEF Init, NewUnnamed, Unnamed, NewUnknown, TxIds, New, At, Others
<1> QED
  BY <1>1, <1>2, <1>3, <1>4 DEF IInv

\* Whatever fails, crashes or rolls back, every part of the invariant stays.
THEOREM Inductive == ASSUME Reread PROVE Spec => []IInv
<1>1. IInv /\ [Next]_vars => IInv'
  BY NextKeeps, StutterKeeps
<1> QED
  BY <1>1, InitHolds, PTL DEF Spec

\* Types; ids are given out in order and a call works on an id given out.
THEOREM Types == ASSUME Reread PROVE Spec => []TypeOK
<1>1. IInv => TypeOK
  BY DEF IInv
<1> QED
  BY <1>1, Inductive, PTL

\* A row never names an object that another row names; none that is gone where
\* nothing but rollbacks frees objects; and nothing written through another row
\* where nothing is cloned: however many processes allocate and whatever fails.
THEOREM RowsKeep == ASSUME Reread PROVE Spec => []RowsKeepTheirObjects
<1>1. IInv => RowsKeepTheirObjects
  BY DEF IInv, RowsKept, Kept, RowsKeepTheirObjects
<1> QED
  BY <1>1, Inductive, PTL

(***************************************************************************)
(* A process that is alone.                                                *)
(***************************************************************************)
\* Its structs stay what the rows say, whatever fails.
LEMMA InStepKept ==
  ASSUME IInv, InStep, NEW p \in Procs, Alone(p), Effect(p)
  PROVE  /\ (tx \in {p, NoProc})'
         /\ (struct[p] = column)'
         /\ (At(p, "write") => column[call[p].row] = call[p].id)'
<1>1. /\ tx \in {p, NoProc} /\ struct[p] = column /\ Visible(p) = column
      /\ column \in [Rows -> 0 .. MaxId] /\ call[p].row \in Rows
  BY DEF InStep, Visible, MayWrite, TypeOK, Call, IInv
<1>2. CASE Names(p) \/ Unnames(p)
  <2>1. PICK id : Sets(p, id)
    BY <1>2 DEF Names, Unnames
  <2>2. struct'[p] = column' /\ tx' = tx
    BY <1>1, <2>1 DEF Sets, TypeOK, IInv
  <2>3. At(p, "write")' => column'[call'[p].row] = call'[p].id
    BY <1>1, <1>2 DEF Names, Unnames, Sets, Ends, At
  <2> QED
    BY <1>1, <2>2, <2>3
<1>3. CASE Reads(p)
  <2>1. struct'[p] \in [Rows -> 0 .. MaxId] /\ \A r \in Rows : struct'[p][r] = column[r]
    BY <1>1, <1>3 DEF Reads
  <2>2. struct'[p] = column
    BY <1>1, <2>1
  <2> QED
    BY <1>1, <1>3, <2>2 DEF Reads, Ends, At
<1>4. CASE Frees(p) \/ Passes(p)
  <2>1. UNCHANGED <<column, struct, tx>> /\ Continues(p)
    BY <1>4 DEF Frees, Passes, store
  <2> QED
    BY <1>1, <2>1 DEF Continues, At
<1>5. CASE Creates(p) \/ Fills(p) \/ InTx(p) \/ CommitTx(p)
  BY <1>1, <1>5 DEF Creates, Fills, InTx, CommitTx, Ends, At, store
<1>6. CASE Undoes(p)
  BY <1>6 DEF Undoes, RestoreSaved, Ends, At, TypeOK, IInv
<1> QED
  BY <1>2, <1>3, <1>4, <1>5, <1>6 DEF Effect

\* Step by step, the objects are those the rows name and those in hand.
LEMMA ExactKept ==
  ASSUME IInv, InStep, Exact, NEW p \in Procs, Alone(p), Act(p), ~failed'
  PROVE  ExactFor(p)'
<1>1. ~failed
  BY DEF Act, Step, Failure, Create, Persist, Undo, Write, Delete, Clear, CloneObject,
         FreeOld,
     Swap, InTx, CommitTx, RollbackTx, Open, Drop, Fetch, Clone, PersistError, FreeOldError,
     SwapError, Error, Crash
<1>2. ExactFor(p) /\ struct[p] = column /\ call[p].row \in Rows
  BY <1>1 DEF Exact, InStep, TypeOK, Call, IInv
<1>3. CASE Create(p)
  BY <1>2, <1>3 DEF Create, CreateObject, At, ExactFor, Named, TypeOK, Call, IInv
<1>4. CASE Persist(p)
  BY <1>2, <1>4 DEF Persist, UpdateColumn, Goto, At, ExactFor, Named, TypeOK, Call, IInv
<1>5. CASE Undo(p)
  BY <1>2, <1>5 DEF Undo, At, ExactFor, Named, TypeOK, Call, IInv
<1>6. CASE Write(p)
  BY <1>2, <1>6 DEF Write, Return, Goto, At, ExactFor, Named, TypeOK, Call, IInv
<1>7. CASE Delete(p)
  BY <1>2, <1>7 DEF Delete, DeleteObject, Goto, At, ExactFor, Named, TypeOK, Call, IInv
<1>8. CASE Clear(p)
  <2>1. /\ column' = [column EXCEPT ![call[p].row] = 0]
        /\ UNCHANGED <<objects, tx, saved>>
        /\ call'[p].pc = "idle" /\ At(p, "clear")
    BY <1>8 DEF Clear, UpdateColumn, Return, Goto, At, TypeOK, IInv
  <2>2. \A r \in Rows \ {call[p].row} : column[r] # column[call[p].row] \/ column[r] = 0
    BY <1>2 DEF RowsKept, Kept, IInv
  <2>3. objects = Named(column) \ {column[call[p].row]}
    BY <1>2, <2>1 DEF ExactFor, At
  <2>4. objects = Named(column)'
    BY <1>2, <2>1, <2>2, <2>3 DEF Named, TypeOK, IInv
  <2> QED
    BY <1>2, <2>1, <2>4 DEF ExactFor, Named, At
<1>9. CASE CloneObject(p)
  BY <1>2, <1>9
     DEF CloneObject, CreateObject, Return, Goto, At, store, ExactFor, Named, TypeOK, Call,
         IInv
<1>10. CASE FreeOld(p)
  <2>1. /\ objects' = objects \ {column[call[p].row]}
        /\ UNCHANGED <<column, tx, saved>>
        /\ call'[p].pc = "swap" /\ call'[p].id = call[p].id /\ call'[p].row = call[p].row
        /\ At(p, "free")
    BY <1>2, <1>10 DEF FreeOld, DeleteObject, Goto, At, TypeOK, Call, IInv
  <2>2. objects = Named(column) \cup {call[p].id} /\ column[call[p].row] # call[p].id
    BY <1>2, <2>1, NewNotSeen DEF ExactFor, New, At
  <2>3. objects' = (Named(column) \ {column[call[p].row]}) \cup {call[p].id}
    BY <2>1, <2>2
  <2> QED
    BY <1>2, <2>1, <2>3 DEF ExactFor, Named, At
<1>11. CASE Swap(p)
  <2>1. /\ column' = [column EXCEPT ![call[p].row] = call[p].id]
        /\ UNCHANGED <<objects, tx, saved>>
        /\ call'[p].pc = "idle" /\ At(p, "swap") /\ call[p].id # 0
    BY <1>11 DEF Swap, UpdateColumn, Return, Goto, At, TypeOK, IInv
  <2>2. \A r \in Rows \ {call[p].row} : column[r] # column[call[p].row] \/ column[r] = 0
    BY <1>2 DEF RowsKept, Kept, IInv
  <2>3. objects = (Named(column) \ {column[call[p].row]}) \cup {call[p].id}
    BY <1>2, <2>1 DEF ExactFor, At
  <2>4. objects = Named(column)'
    BY <1>2, <2>1, <2>2, <2>3 DEF Named, TypeOK, IInv
  <2> QED
    BY <1>2, <2>1, <2>4 DEF ExactFor, Named, At
<1>12. CASE InTx(p)
  BY <1>2, <1>12 DEF InTx, At, store, Snapshot, ExactFor, Named, TypeOK, Call, IInv
<1>13. CASE CommitTx(p)
  BY <1>2, <1>13 DEF CommitTx, At, store, ExactFor, Named, TypeOK, Call, IInv
<1>14. CASE RollbackTx(p)
  <2>1. tx # NoProc
    BY <1>14, LobAssumption DEF RollbackTx
  <2> QED
    BY <1>2, <1>14, <2>1 DEF RollbackTx, RestoreSaved, ExactFor, Named, At
<1>15. CASE \E r \in Rows : Open(p, r)
  BY <1>2, <1>15 DEF Open, At, store, ExactFor, Named, TypeOK, Call, IInv
<1>16. CASE \E r \in Rows : Drop(p, r)
  BY <1>2, <1>16 DEF Drop, At, store, ExactFor, Named, TypeOK, Call, IInv
<1>17. CASE \E r \in Rows : Fetch(p, r)
  BY <1>2, <1>17 DEF Fetch, At, store, ExactFor, Named, TypeOK, Call, IInv
<1>18. CASE \E dst, src \in Rows : Clone(p, dst, src)
  BY <1>2, <1>18 DEF Clone, At, store, ExactFor, Named, TypeOK, Call, IInv
<1> QED
  BY <1>3, <1>4, <1>5, <1>6, <1>7, <1>8, <1>9, <1>10, <1>11, <1>12, <1>13, <1>14, <1>15,
     <1>16,
     <1>17, <1>18 DEF Act, Step, Failure, PersistError, FreeOldError, SwapError, Error, Crash

\* A process that is alone keeps to the rows.
LEMMA AloneKeeps ==
  ASSUME Reread, IInv, InStep, Exact, Next
  PROVE  InStep' /\ Exact'
<1>1. PICK p \in use.callers : Act(p)
  BY DEF Next, Act
<1>2. use' = use
  BY DEF Next
<1>3. p \in Procs
  BY LobAssumption DEF Shapes, IInv
<1>4. Effect(p)
  BY <1>1, <1>2, <1>3, Effects
<1>5. \A q \in Procs : Alone(q)' => q = p /\ Alone(p)
  BY <1>1, <1>2 DEF Alone
<1>6. InStep'
  BY <1>3, <1>4, <1>5, InStepKept DEF InStep
<1>7. Exact'
  BY <1>1, <1>3, <1>5, ExactKept DEF Exact
<1> QED
  BY <1>6, <1>7

\* Both stay with the invariant of all processes.
LEMMA AloneInductive == ASSUME Reread PROVE Spec => [](IInv /\ InStep /\ Exact)
<1>1. Init => InStep /\ Exact
  BY DEF Init, InStep, Exact, ExactFor, Named, At, Alone
<1>2. IInv /\ InStep /\ Exact /\ [Next]_vars => InStep' /\ Exact'
  <2>1. ASSUME UNCHANGED vars, InStep, Exact
        PROVE  InStep' /\ Exact'
    BY <2>1 DEF vars, InStep, Exact, ExactFor, Named, Alone, At
  <2> QED
    BY <2>1, AloneKeeps
<1> QED
  BY <1>1, <1>2, Inductive, PTL DEF Spec

\* The store of one process holds an object for each row that names one and no
\* other, whatever it has called, as long as nothing failed; and a struct with an
\* id has an object.
THEOREM StoreStaysExact == ASSUME Reread PROVE Spec => []StoreExact
<1>1. IInv /\ InStep /\ Exact => StoreExact
  <2> SUFFICES ASSUME InStep, Exact, ~failed, Quiet,
                      NEW p \in Procs, use.callers = {p}
               PROVE  /\ objects = {column[r] : r \in Rows} \ {0}
                      /\ \A r \in Rows : struct[p][r] # 0 => struct[p][r] \in objects
    BY DEF StoreExact
  <2>1. objects = {column[r] : r \in Rows} \ {0}
    BY DEF Exact, ExactFor, Named, Alone, Quiet, At
  <2>2. struct[p] = column
    BY DEF InStep, Alone
  <2> QED
    BY <2>1, <2>2
<1> QED
  BY <1>1, AloneInductive, PTL

\* What one process writes goes to the object its row names, failures or not.
THEOREM WritesReach == ASSUME Reread PROVE Spec => WriteReachesRow
<1>1. InStep /\ [Next]_vars =>
        [\A p \in Procs : use.callers = {p} /\ Write(p) /\ call[p].id \in objects
                          => column[call[p].row] = call[p].id]_vars
  BY DEF InStep, Alone, Write
<1> QED
  BY <1>1, AloneInductive, PTL DEF Spec, WriteReachesRow
=============================================================================
