---------------------------- MODULE OrmRepoProofs ----------------------------
(***************************************************************************)
(* Keyed writes, for every set of callers and embeddings, any number of    *)
(* keys and any number of writes: keys are given out once, no write brings *)
(* back a deleted row that its scope leaves out, a call that returns nil   *)
(* has written the row its struct stands for, and the sidecar has what was *)
(* last written through the rows.                                          *)
(*                                                                         *)
(* A transaction may be rolled back at any time, to the database of before *)
(* and with the other callers where they are now.  So what is true of the  *)
(* database has to be true of the snapshot as well, with the calls of all  *)
(* callers but the one in the transaction.  The struct of that one may keep*)
(* a key that others get again, unless it is as before too (Reload): only  *)
(* what is said of structs and their rows depends on that.                 *)
(***************************************************************************)
EXTENDS OrmRepo, TLAPS

Snapshot == [rows: [Keys -> Row], last: Keys, side: [Keys -> Embs],
             want: [Keys -> Embs], struct: Struct]

Shapes ==
  /\ rows \in [Keys -> Row]
  /\ last \in Keys
  /\ side \in [Keys -> Embs]
  /\ struct \in [Procs -> Struct]
  /\ call \in [Procs -> Call]
  /\ tx \in Procs \cup {Nobody}
  /\ saved \in Snapshot
  /\ writes \in 0 .. MaxWrites
  /\ want \in [Keys -> Embs]
  /\ tracked \in BOOLEAN

\* Keys are given out in order, from 1 to l.
Ordered(r, l, s) ==
  \A id \in Keys : id = 0 \/ id > l => r[id].maker = Nobody /\ s[id] = Empty

InOrder ==
  /\ Ordered(rows, last, side)
  /\ tx # Nobody => Ordered(saved.rows, saved.last, saved.side) /\ saved.last <= last

\* A key has been given out, to the row that the struct s was created for or read
\* from, which may be gone, and to no other.
Stands(s, r, l) == s.id <= l /\ r[s.id].maker \in {Nobody, s.maker}

OwnRows ==
  Reload =>
    /\ \A p \in Procs : Stands(struct[p], rows, last)
    /\ tx # Nobody =>
         /\ \A p \in Procs \ {tx} : Stands(struct[p], saved.rows, saved.last)
         /\ Stands(saved.struct, saved.rows, saved.last)
         /\ \A id \in 0 .. saved.last :
              rows[id].maker \in {Nobody, saved.rows[id].maker}
    /\ \A p \in Procs :
         ~At(p, "idle") => call[p].hit = struct[p].maker /\ call[p].hit # Nobody

\* The keys that calls in progress work on, and what they have to do.
InCalls ==
  \A p \in Procs : ~At(p, "idle") =>
    /\ struct[p].id \in 1 .. last
    /\ tx \notin {Nobody, p} => struct[p].id <= saved.last
    /\ At(p, "vec-remove") => call[p].emb = Empty
    /\ call[p].pc \in {"vec-delete", "vec-insert"} => call[p].emb # Empty

\* p's call has yet to bring the sidecar up to date for row id.
DueFor(p, id) == SyncDue(p) /\ struct[p].id = id

\* Of the callers P at most one has the sidecar to bring up to date for a row, and
\* then it is the embedding last written; else it is up to date.
Synced(P, r, s, w) ==
  /\ \A id \in Keys :
       /\ w[id] # Empty => r[id].maker # Nobody
       /\ s[id] = w[id] \/ \E p \in P : DueFor(p, id)
  /\ \A p \in P : SyncDue(p) =>
       /\ w[struct[p].id] = call[p].emb
       /\ At(p, "vec-insert") => s[struct[p].id] = Empty
       /\ \A q \in P \ {p} : ~DueFor(q, struct[p].id)

Tracks ==
  tracked =>
    /\ Synced(Procs, rows, side, want)
    /\ tx # Nobody => Synced(Procs \ {tx}, saved.rows, saved.side, saved.want)

IInv == Shapes /\ InOrder /\ OwnRows /\ InCalls /\ Tracks

USE OrmRepoAssumption

-----------------------------------------------------------------------------
(* The statements that rewrite a row: Update, Delete and Restore.  What    *)
(* they write into deleted_at matters only to NoResurrection.              *)

Rewrites(p, emb) ==
  /\ At(p, "idle") /\ MayWrite(p) /\ Count
  /\ Exists(struct[p].id)
  /\ \E deleted \in BOOLEAN : SetDeleted(p, deleted)
  /\ \E deleted \in BOOLEAN : struct' = [struct EXCEPT ![p].deleted = deleted]
  /\ \E scope \in Scopes :
       call' = [call EXCEPT ![p] = [pc |-> "after", scope |-> scope, emb |-> emb,
                                    hit |-> rows[struct[p].id].maker]]
  /\ WroteModel(p, struct[p].id, emb)
  /\ UNCHANGED <<last, side, tx, saved>>

\* Only the struct of an idle caller changes.
Reads(p) ==
  /\ At(p, "idle")
  /\ \/ struct' = [struct EXCEPT ![p] = NewStruct]
     \/ \E id \in Keys : Visible(p)[id].maker # Nobody /\ Load(p, id)
  /\ UNCHANGED <<db, call, tx, saved, tracked>>

\* What the proofs distinguish.
Does(p) ==
  \/ Reads(p) \/ Create(p) \/ ForceDelete(p)
  \/ \E emb \in Embs : Rewrites(p, emb)
  \/ After(p) \/ VecRemove(p) \/ VecDelete(p) \/ VecInsert(p) \/ Fail(p)
  \/ Begin(p) \/ CommitTx(p) \/ RollbackTx(p)

\* A struct and a row, field by field.
LEMMA Fields ==
  ASSUME Shapes, NEW p \in Procs
  PROVE  /\ struct[p] \in Struct
         /\ struct[p] = [id |-> struct[p].id, deleted |-> struct[p].deleted,
                         maker |-> struct[p].maker]
         /\ struct[p].id \in Keys
         /\ struct[p].deleted \in BOOLEAN
         /\ struct[p].maker \in Procs \cup {Nobody}
         /\ [struct EXCEPT ![p].deleted = struct[p].deleted] = struct
<1>1. struct[p] \in Struct
  BY DEF Shapes
<1>2. struct[p] = [id |-> struct[p].id, deleted |-> struct[p].deleted,
                   maker |-> struct[p].maker]
  BY <1>1 DEF Struct
<1>3. /\ struct[p].id \in Keys
      /\ struct[p].deleted \in BOOLEAN
      /\ struct[p].maker \in Procs \cup {Nobody}
  BY <1>1 DEF Struct
<1>4. [struct EXCEPT ![p].deleted = struct[p].deleted] = struct
  BY <1>2 DEF Shapes
<1> QED
  BY <1>1, <1>2, <1>3, <1>4

\* Every step of a caller is one of these.
LEMMA Effects ==
  ASSUME Shapes, Next
  PROVE  \E p \in Procs : Does(p)
<1>1. PICK p \in Procs :
        \/ Get(p) \/ NewModel(p)
        \/ Create(p) \/ ForceDelete(p) \/ Restore(p)
        \/ \E scope \in Scopes : Update(p, scope) \/ Delete(p, scope)
        \/ After(p) \/ VecRemove(p) \/ VecDelete(p) \/ VecInsert(p) \/ Fail(p)
        \/ Begin(p) \/ CommitTx(p) \/ RollbackTx(p)
  BY DEF Next
<1>2. CASE Get(p) \/ NewModel(p)
  BY <1>2 DEF Get, NewModel, Reads, InScope, Does
<1>3. CASE Restore(p)
  <2>1. PICK emb \in Embs :
          /\ Hit(p, "IncludeDeleted", emb, "after")
          /\ SetDeleted(p, FALSE)
          /\ struct' = [struct EXCEPT ![p].deleted = FALSE]
          /\ WroteModel(p, struct[p].id, emb)
    BY <1>3 DEF Restore
  <2>2. Rewrites(p, emb)
    BY <2>1 DEF Rewrites, Hit, Matches, InScope, Exists, Scopes
  <2> QED
    BY <2>2 DEF Does
<1>4. CASE \E scope \in Scopes : Update(p, scope)
  <2>1. PICK scope \in Scopes : Update(p, scope)
    BY <1>4
  <2>2. PICK emb \in Embs :
          /\ Hit(p, scope, emb, "after")
          /\ SetDeleted(p, struct[p].deleted)
          /\ WroteModel(p, struct[p].id, emb)
          /\ struct' = struct
    BY <2>1 DEF Update
  <2>3. Rewrites(p, emb)
    BY <2>2, Fields DEF Rewrites, Hit, Matches, InScope, Exists
  <2> QED
    BY <2>3 DEF Does
<1>5. CASE \E scope \in Scopes : Delete(p, scope)
  <2>1. PICK scope \in Scopes : Delete(p, scope)
    BY <1>5
  <2>2. Rewrites(p, Empty)
    BY <2>1, Fields DEF Delete, Rewrites, Hit, Matches, InScope, Exists, WroteModel
  <2> QED
    BY <2>2 DEF Does, Embs
<1> QED
  BY <1>1, <1>2, <1>3, <1>4, <1>5 DEF Does

-----------------------------------------------------------------------------
(* The invariant, part by part.                                            *)

\* The empty database.
LEMMA InvInit == Init => IInv
<1> SUFFICES ASSUME Init PROVE IInv
  OBVIOUS
<1> USE DEF Init, NoSnapshot, NewStruct, NoRow, Idle, Keys
<1>1. Shapes
  BY DEF Shapes, Row, Embs, Struct, Call, Snapshot, Scopes
<1>2. InOrder
  BY DEF InOrder, Ordered
<1>3. OwnRows
  BY DEF OwnRows, Stands, At
<1>4. InCalls
  BY DEF InCalls, At
<1>5. Tracks
  BY DEF Tracks, Synced, SyncDue, At
<1> QED
  BY <1>1, <1>2, <1>3, <1>4, <1>5 DEF IInv

\* What a write does to the history keeps its type.
LEMMA WroteType ==
  ASSUME Shapes, NEW p \in Procs, NEW id \in Keys, NEW emb \in Embs, Wrote(p, id, emb)
  PROVE  want' \in [Keys -> Embs] /\ tracked' \in BOOLEAN
BY DEF Wrote, Shapes, NoSnapshot, Embs

\* And so does a write without an embedding.
LEMMA WroteModelType ==
  ASSUME Shapes, NEW p \in Procs, NEW id \in Keys, NEW emb \in Embs,
         WroteModel(p, id, emb)
  PROVE  want' \in [Keys -> Embs] /\ tracked' \in BOOLEAN
BY WroteType DEF WroteModel, Shapes

\* Rows, structs, calls and the snapshot stay what they are.
LEMMA ShapesNext ==
  ASSUME Shapes, [Next]_vars
  PROVE  Shapes'
<1>1. CASE UNCHANGED vars
  BY <1>1 DEF vars, Shapes
<1>2. ASSUME NEW p \in Procs, Does(p) PROVE Shapes'
  <2> USE DEF db
  <2>0. /\ struct[p] \in Struct /\ call[p] \in Call /\ struct[p].id \in Keys
        /\ MaxId \in Nat /\ MaxWrites \in Nat
    BY Fields DEF Shapes
  <2>1. CASE Reads(p)
    <3>1. \A id \in Keys : Visible(p)[id] \in Row
      BY DEF Visible, Shapes, Snapshot
    <3>2. struct' \in [Procs -> Struct]
      <4>1. CASE struct' = [struct EXCEPT ![p] = NewStruct]
        BY <2>0, <4>1 DEF Shapes, Struct, NewStruct, Keys
      <4>2. CASE \E id \in Keys : Load(p, id)
        BY <3>1, <4>2 DEF Load, Shapes, Struct, Row
      <4> QED
        BY <2>1, <4>1, <4>2 DEF Reads
    <3> QED
      BY <2>1, <3>2 DEF Reads, Shapes
  <2>2. CASE Create(p)
    <3>1. last' = last + 1 /\ last' \in Keys /\ tx' = tx /\ saved' = saved /\ side' = side
      BY <2>2 DEF Create, Shapes, Keys
    <3>2. PICK emb \in Embs :
            /\ rows' = [rows EXCEPT ![last'] = [deleted |-> struct[p].deleted, maker |-> p]]
            /\ struct' = [struct EXCEPT ![p].id = last', ![p].maker = p]
            /\ WroteModel(p, last', emb)
            /\ call' = [call EXCEPT ![p] = [Idle EXCEPT !.pc = "after", !.emb = emb,
                                                        !.hit = p]]
      BY <2>2 DEF Create
    <3>3. rows' \in [Keys -> Row] /\ struct' \in [Procs -> Struct]
      BY <2>0, <3>1, <3>2, Fields DEF Shapes, Row, Struct
    <3>4. call' \in [Procs -> Call]
      BY <3>2 DEF Shapes, Call, Idle, Scopes
    <3>5. want' \in [Keys -> Embs] /\ tracked' \in BOOLEAN
      BY <3>1, <3>2, WroteModelType
    <3>6. writes' \in 0 .. MaxWrites
      BY <2>0, <2>2 DEF Create, Count, Shapes
    <3> QED
      BY <3>1, <3>3, <3>4, <3>5, <3>6 DEF Shapes
  <2>3. CASE ForceDelete(p)
    <3>1. want' \in [Keys -> Embs] /\ tracked' \in BOOLEAN
      BY <2>0, <2>3, WroteType DEF ForceDelete, Embs
    <3>2. writes' \in 0 .. MaxWrites
      BY <2>0, <2>3 DEF ForceDelete, Hit, Count, Shapes
    <3>3. rows' \in [Keys -> Row]
      BY <2>0, <2>3 DEF ForceDelete, Shapes, NoRow, Row
    <3>4. call' \in [Procs -> Call]
      BY <2>0, <2>3 DEF ForceDelete, Hit, Shapes, Call, Scopes, Embs, Row
    <3> QED
      BY <2>3, <3>1, <3>2, <3>3, <3>4 DEF ForceDelete, Hit, Shapes
  <2>4. CASE \E emb \in Embs : Rewrites(p, emb)
    <3>1. PICK emb \in Embs : Rewrites(p, emb)
      BY <2>4
    <3>2. want' \in [Keys -> Embs] /\ tracked' \in BOOLEAN
      BY <2>0, <3>1, WroteModelType DEF Rewrites
    <3>3. writes' \in 0 .. MaxWrites
      BY <2>0, <3>1 DEF Rewrites, Count, Shapes
    <3>4. rows' \in [Keys -> Row]
      BY <2>0, <3>1 DEF Rewrites, SetDeleted, Shapes, Row
    <3>5. struct' \in [Procs -> Struct]
      BY <2>0, <3>1 DEF Rewrites, Shapes, Struct
    <3>6. call' \in [Procs -> Call]
      BY <2>0, <3>1 DEF Rewrites, Shapes, Call, Row
    <3> QED
      BY <3>1, <3>2, <3>3, <3>4, <3>5, <3>6 DEF Rewrites, Shapes
  <2>5. CASE After(p)
    BY <2>0, <2>5 DEF After, Goto, Return, Idle, Shapes, Call, Scopes, Embs
  <2>6. CASE VecRemove(p) \/ VecDelete(p)
    BY <2>0, <2>6 DEF VecRemove, VecDelete, Unindex, Goto, Shapes, Call, Embs
  <2>7. CASE VecInsert(p)
    BY <2>0, <2>7 DEF VecInsert, Return, Idle, Shapes, Call, Scopes, Embs
  <2>8. CASE Fail(p)
    BY <2>0, <2>8 DEF Fail, Return, Idle, Shapes, Call, Scopes, Embs, NoSnapshot
  <2>9. CASE Begin(p)
    BY <2>0, <2>9 DEF Begin, Shapes, Snapshot
  <2>10. CASE CommitTx(p)
    BY <2>0, <2>10 DEF CommitTx, Shapes, Snapshot, NoSnapshot, NoRow, Row, Struct,
                       NewStruct, Embs, Keys
  <2>11. CASE RollbackTx(p)
    <3>1. NoSnapshot \in Snapshot
      BY <2>0 DEF Snapshot, NoSnapshot, NoRow, Row, Struct, NewStruct, Embs, Keys
    <3>2. call' \in [Procs -> Call]
      BY <2>11 DEF RollbackTx, Return, Idle, Shapes, Call, Scopes, Embs
    <3> QED
      BY <2>11, <3>1, <3>2 DEF RollbackTx, Shapes, Snapshot
  <2> QED
    BY <1>2, <2>1, <2>2, <2>3, <2>4, <2>5, <2>6, <2>7, <2>8, <2>9, <2>10, <2>11 DEF Does
<1> QED
  BY <1>1, <1>2, Effects

\* A new key is the next one, and nothing is written under a key not given out.
LEMMA InOrderNext ==
  ASSUME Shapes, InOrder, InCalls, [Next]_vars
  PROVE  InOrder'
<1>1. CASE UNCHANGED vars
  BY <1>1 DEF vars, InOrder, Ordered
<1>2. ASSUME NEW p \in Procs, Does(p) PROVE InOrder'
  <2> USE DEF db, InOrder, Ordered
  <2>0. /\ struct[p].id \in Keys /\ last \in Nat /\ saved.last \in Nat
        /\ \A id \in Keys : id \in Nat
    BY Fields DEF Shapes, Keys, Snapshot
  <2>1. CASE Reads(p) \/ After(p) \/ Fail(p) \/ CommitTx(p)
    BY <2>1 DEF Reads, After, Fail, CommitTx
  <2>2. CASE Create(p)
    <3>1. /\ last' = last + 1 /\ tx' = tx /\ saved' = saved /\ side' = side
          /\ \A id \in Keys : id # last + 1 => rows'[id] = rows[id]
      BY <2>2 DEF Create, Shapes
    <3> QED
      BY <2>0, <3>1
  <2>3. CASE ForceDelete(p)
    BY <2>0, <2>3 DEF ForceDelete, Hit, NoRow, Shapes
  <2>4. CASE \E emb \in Embs : Rewrites(p, emb)
    <3>1. /\ last' = last /\ tx' = tx /\ saved' = saved /\ side' = side
          /\ \A id \in Keys : rows'[id].maker = rows[id].maker
      BY <2>4 DEF Rewrites, SetDeleted, Shapes, Row
    <3> QED
      BY <3>1
  <2>5. CASE VecRemove(p) \/ VecDelete(p)
    BY <2>0, <2>5 DEF VecRemove, VecDelete, Unindex, Shapes
  <2>6. CASE VecInsert(p)
    <3>1. struct[p].id \in 1 .. last
      BY <2>6 DEF VecInsert, InCalls, At
    <3> QED
      BY <2>0, <2>6, <3>1 DEF VecInsert, Shapes
  <2>7. CASE Begin(p)
    BY <2>0, <2>7 DEF Begin
  <2>8. CASE RollbackTx(p)
    BY <2>8 DEF RollbackTx, Shapes
  <2> QED
    BY <1>2, <2>1, <2>2, <2>3, <2>4, <2>5, <2>6, <2>7, <2>8 DEF Does
<1> QED
  BY <1>1, <1>2, Effects

\* A call works on a key that was given out, and in a transaction of another caller,
\* before that began.
LEMMA InCallsNext ==
  ASSUME Shapes, InOrder, InCalls, [Next]_vars
  PROVE  InCalls'
<1>1. CASE UNCHANGED vars
  BY <1>1 DEF vars, InCalls, At
<1>2. ASSUME NEW p \in Procs, Does(p), NEW q \in Procs, ~At(q, "idle")'
      PROVE  /\ struct'[q].id \in 1 .. last'
             /\ tx' \notin {Nobody, q} => struct'[q].id <= saved'.last
             /\ At(q, "vec-remove")' => call'[q].emb = Empty
             /\ call'[q].pc \in {"vec-delete", "vec-insert"} => call'[q].emb # Empty
  <2> USE <1>2 DEF db, InCalls, At
  <2>0. /\ struct[p].id \in Keys /\ struct[q].id \in Keys
        /\ last \in Nat /\ saved.last \in Nat
        /\ \A id \in Keys : id \in Nat
    BY Fields DEF Shapes, Keys, Snapshot
  <2>1. CASE Reads(p)
    BY <2>1 DEF Reads, Load, Shapes
  <2>2. CASE Create(p)
    <3>1. /\ last' = last + 1 /\ tx' = tx /\ saved' = saved
          /\ tx \in {Nobody, p}
      BY <2>2 DEF Create, MayWrite
    <3>2. CASE q = p
      BY <2>0, <2>2, <3>1, <3>2 DEF Create, Shapes, Idle
    <3>3. CASE q # p
      <4>1. struct'[q] = struct[q] /\ call'[q] = call[q]
        BY <2>2, <3>3 DEF Create, Shapes
      <4> QED
        BY <2>0, <3>1, <4>1
    <3> QED
      BY <3>2, <3>3
  <2>3. CASE ForceDelete(p)
    <3>1. struct[p].id \in 1 .. last
      BY <2>0, <2>3 DEF ForceDelete, Hit, Matches, InScope, InOrder, Ordered
    <3> QED
      BY <2>3, <3>1 DEF ForceDelete, Hit, MayWrite, Shapes
  <2>4. CASE \E emb \in Embs : Rewrites(p, emb)
    <3>1. struct[p].id \in 1 .. last
      BY <2>0, <2>4 DEF Rewrites, Exists, InOrder, Ordered
    <3>2. struct'[q].id = struct[q].id
      BY <2>4 DEF Rewrites, Shapes, Struct
    <3> QED
      BY <2>4, <3>1, <3>2 DEF Rewrites, MayWrite, Shapes
  <2>5. CASE After(p)
    BY <2>5 DEF After, Goto, Return, Idle, SyncDue, Shapes, Call
  <2>6. CASE VecRemove(p) \/ VecDelete(p)
    BY <2>6 DEF VecRemove, VecDelete, Unindex, Goto, Shapes, Call
  <2>7. CASE VecInsert(p) \/ Fail(p)
    BY <2>7 DEF VecInsert, Fail, Return, Idle, Shapes
  <2>8. CASE Begin(p)
    BY <2>8 DEF Begin
  <2>9. CASE CommitTx(p)
    BY <2>9 DEF CommitTx
  <2>10. CASE RollbackTx(p)
    BY <2>0, <2>10 DEF RollbackTx, Return, Idle, Shapes
  <2> QED
    BY <2>1, <2>2, <2>3, <2>4, <2>5, <2>6, <2>7, <2>8, <2>9, <2>10 DEF Does
<1> QED
  BY <1>1, <1>2, Effects DEF InCalls

\* A key is never given out again to a struct that others may still stand for; this
\* is what a caller that keeps its struct after a rollback breaks.
LEMMA OwnRowsNext ==
  ASSUME Reload, Shapes, InOrder, OwnRows, [Next]_vars
  PROVE  OwnRows'
<1>1. CASE UNCHANGED vars
  BY <1>1 DEF vars, OwnRows, Stands, At
<1>2. ASSUME NEW p \in Procs, Does(p) PROVE OwnRows'
  <2> USE DEF db, OwnRows, Stands
  <2>0. /\ last \in Nat /\ saved.last \in Nat
        /\ \A id \in Keys : id \in Nat
        /\ 0 \in Keys
        /\ \A q \in Procs : struct[q].id \in Keys
    BY Fields DEF Shapes, Keys, Snapshot
  <2>1. CASE Reads(p)
    <3>1. /\ struct'[p].id <= last
          /\ rows[struct'[p].id].maker \in {Nobody, struct'[p].maker}
          /\ tx \notin {Nobody, p} =>
               /\ struct'[p].id <= saved.last
               /\ saved.rows[struct'[p].id].maker \in {Nobody, struct'[p].maker}
      <4>1. CASE struct' = [struct EXCEPT ![p] = NewStruct]
        BY <2>0, <4>1 DEF Shapes, NewStruct, InOrder, Ordered
      <4>2. CASE \E id \in Keys : Visible(p)[id].maker # Nobody /\ Load(p, id)
        <5>1. PICK id \in Keys : Visible(p)[id].maker # Nobody /\ Load(p, id)
          BY <4>2
        <5>2. struct'[p].id = id /\ struct'[p].maker = Visible(p)[id].maker
          BY <5>1 DEF Load, Shapes
        <5>3. CASE tx \in {Nobody, p}
          BY <2>0, <5>1, <5>2, <5>3 DEF Visible, MayWrite, InOrder, Ordered
        <5>4. CASE tx \notin {Nobody, p}
          <6>1. saved.rows[id].maker # Nobody /\ struct'[p].maker = saved.rows[id].maker
            BY <5>1, <5>2, <5>4 DEF Visible, MayWrite
          <6>2. id \in 0 .. saved.last /\ saved.last <= last
            BY <2>0, <5>4, <6>1 DEF InOrder, Ordered
          <6> QED
            BY <2>0, <5>2, <5>4, <6>1, <6>2
        <5> QED
          BY <5>3, <5>4
      <4> QED
        BY <2>1, <4>1, <4>2 DEF Reads
    <3>2. /\ \A q \in Procs \ {p} : struct'[q] = struct[q]
          /\ At(p, "idle")' /\ UNCHANGED <<rows, last, call, tx, saved>>
      BY <2>1 DEF Reads, Load, Shapes, At
    <3> QED
      BY <3>1, <3>2 DEF At
  <2>2. CASE Create(p)
    <3>1. /\ last' = last + 1 /\ last' \in Keys /\ tx' = tx /\ saved' = saved
          /\ tx \in {Nobody, p}
          /\ rows'[last'].maker = p
          /\ \A id \in Keys : id # last' => rows'[id] = rows[id]
          /\ struct'[p].id = last' /\ struct'[p].maker = p
          /\ call'[p].hit = p
          /\ \A q \in Procs \ {p} : struct'[q] = struct[q] /\ call'[q] = call[q]
      BY <2>2 DEF Create, MayWrite, Shapes, Idle, Keys
    <3>2. \A id \in 0 .. last : id \in Keys /\ rows'[id] = rows[id]
      BY <2>0, <3>1 DEF Keys
    <3>3. ASSUME NEW q \in Procs PROVE Stands(struct[q], rows, last)'
      <4>1. CASE q = p
        BY <2>0, <3>1, <4>1
      <4>2. CASE q # p
        <5>1. struct'[q] = struct[q] /\ struct[q].id \in 0 .. last
          BY <2>0, <3>1, <4>2 DEF Keys
        <5> QED
          BY <2>0, <3>1, <3>2, <5>1
      <4> QED
        BY <4>1, <4>2
    <3>4. tx # Nobody => \A id \in 0 .. saved.last : id \in 0 .. last
      BY <2>0 DEF InOrder
    <3> QED
      BY <3>1, <3>2, <3>3, <3>4 DEF At
  <2>3. CASE ForceDelete(p) \/ \E emb \in Embs : Rewrites(p, emb)
    <3>1. /\ UNCHANGED <<last, tx, saved>>
          /\ \A id \in Keys : rows'[id].maker \in {Nobody, rows[id].maker}
          /\ \A q \in Procs :
               struct'[q].id = struct[q].id /\ struct'[q].maker = struct[q].maker
          /\ \A q \in Procs \ {p} : call'[q] = call[q]
          /\ call'[p].hit = rows[struct[p].id].maker
          /\ rows[struct[p].id].maker # Nobody
      <4>1. CASE ForceDelete(p)
        BY <4>1 DEF ForceDelete, Hit, Matches, InScope, NoRow, Shapes
      <4>2. CASE \E emb \in Embs : Rewrites(p, emb)
        BY <4>2 DEF Rewrites, SetDeleted, Exists, Shapes, Row, Struct
      <4> QED
        BY <2>3, <4>1, <4>2
    <3>2. tx # Nobody => \A id \in 0 .. saved.last : id \in Keys
      BY DEF Shapes, Snapshot, Keys
    <3> QED
      BY <2>0, <3>1, <3>2 DEF At
  <2>4. CASE After(p) \/ VecRemove(p) \/ VecDelete(p) \/ VecInsert(p) \/ Fail(p)
    <3>1. /\ UNCHANGED <<rows, last, struct, tx, saved>>
          /\ \A q \in Procs :
               ~At(q, "idle")' => ~At(q, "idle") /\ call'[q].hit = call[q].hit
      BY <2>4 DEF After, VecRemove, VecDelete, Unindex, VecInsert, Fail, Goto, Return,
                  Idle, Shapes, Call, At
    <3> QED
      BY <3>1
  <2>5. CASE Begin(p)
    <3>1. \A id \in 0 .. last : rows[id].maker \in {Nobody, rows[id].maker}
      OBVIOUS
    <3> QED
      BY <2>5, <3>1 DEF Begin, At
  <2>6. CASE CommitTx(p)
    BY <2>6 DEF CommitTx, At
  <2>7. CASE RollbackTx(p)
    <3>1. /\ tx = p /\ tx' = Nobody
          /\ rows' = saved.rows /\ last' = saved.last
          /\ struct'[p] = saved.struct
          /\ \A q \in Procs \ {p} : struct'[q] = struct[q] /\ call'[q] = call[q]
          /\ At(p, "idle")'
      BY <2>7 DEF RollbackTx, Return, Idle, Shapes, At
    <3> QED
      BY <3>1 DEF At
  <2> QED
    BY <1>2, <2>1, <2>2, <2>3, <2>4, <2>5, <2>6, <2>7 DEF Does
<1> QED
  BY <1>1, <1>2, Effects

-----------------------------------------------------------------------------
(* The sidecar.                                                            *)

\* Callers whose part of a call is as before, or is over and was no part of it.
Same(q) ==
  /\ SyncDue(q)' <=> SyncDue(q)
  /\ SyncDue(q) => /\ struct'[q].id = struct[q].id
                   /\ call'[q].emb = call[q].emb
                   /\ At(q, "vec-insert")' => At(q, "vec-insert")

\* Where no call changes its part, a sidecar that is up to date stays so.
LEMMA StillSynced ==
  ASSUME NEW P, NEW r, NEW s, NEW w,
         Synced(P, r, s, w),
         \A q \in P : Same(q)
  PROVE  Synced(P, r, s, w)'
BY DEF Synced, Same, DueFor

\* A write of row id, outside of another caller's call for it.
LEMMA WriteSynced ==
  ASSUME NEW p \in Procs, NEW id \in Keys, NEW emb \in Embs,
         Shapes, Synced(Procs, rows, side, want), ~SyncDue(p),
         \A q \in Procs \ {p} : Same(q),
         \A k \in Keys \ {id} : rows'[k].maker = rows[k].maker,
         emb # Empty => rows'[id].maker # Nobody,
         side' = side,
         want' = [want EXCEPT ![id] = emb],
         \A q \in Procs \ {p} : ~DueFor(q, id),
         SyncDue(p)', struct'[p].id = id, call'[p].emb = emb, ~At(p, "vec-insert")'
  PROVE  Synced(Procs, rows, side, want)'
<1>1. \A q \in Procs \ {p}, k \in Keys : DueFor(q, k)' <=> DueFor(q, k)
  BY DEF DueFor, Same
<1>2. \A k \in Keys : DueFor(p, k)' <=> k = id
  BY DEF DueFor
<1>3. want'[id] = emb /\ \A k \in Keys \ {id} : want'[k] = want[k]
  BY DEF Shapes
<1>4. \A k \in Keys :
        /\ want'[k] # Empty => rows'[k].maker # Nobody
        /\ side'[k] = want'[k] \/ \E q \in Procs : DueFor(q, k)'
  BY <1>1, <1>2, <1>3 DEF Synced, DueFor
<1>5. ASSUME NEW q \in Procs, SyncDue(q)'
      PROVE  /\ want'[struct'[q].id] = call'[q].emb
             /\ At(q, "vec-insert")' => side'[struct'[q].id] = Empty
             /\ \A o \in Procs \ {q} : ~DueFor(o, struct[q].id)'
  <2>1. CASE q = p
    BY <1>1, <1>3, <2>1
  <2>2. CASE q # p
    <3>1. SyncDue(q) /\ struct'[q].id = struct[q].id /\ call'[q].emb = call[q].emb
      BY <1>5, <2>2 DEF Same
    <3>2. struct[q].id \in Keys \ {id}
      BY <2>2, <3>1, Fields DEF DueFor
    <3> QED
      BY <1>1, <1>2, <1>3, <1>5, <2>2, <3>1, <3>2 DEF Synced, Same
  <2> QED
    BY <2>1, <2>2
<1> QED
  BY <1>4, <1>5 DEF Synced

\* The snapshot stays as it was for the callers outside the transaction, whatever
\* any caller does.
LEMMA SavedSynced ==
  ASSUME Shapes, NEW n \in Procs, tx = n, tx' = n, saved' = saved,
         Synced(Procs \ {tx}, saved.rows, saved.side, saved.want),
         \A q \in Procs \ {n} : Same(q)
  PROVE  Synced(Procs \ {tx}, saved.rows, saved.side, saved.want)'
<1>1. PICK sv : sv = saved
  OBVIOUS
<1>2. Synced(Procs \ {n}, sv.rows, sv.side, sv.want)
  BY <1>1
<1>3. Synced(Procs \ {n}, sv.rows, sv.side, sv.want)'
  BY <1>2, StillSynced
<1> QED
  BY <1>1, <1>3

\* Nothing that p does changes the struct or the call of another caller ...
LEMMA Kept ==
  ASSUME Shapes, NEW p \in Procs, Does(p), NEW q \in Procs \ {p}
  PROVE  call'[q] = call[q] /\ struct'[q] = struct[q]
<1>1. CASE Reads(p)
  BY <1>1 DEF Reads, Load, Shapes
<1>2. CASE Create(p)
  BY <1>2 DEF Create, Shapes
<1>3. CASE ForceDelete(p)
  BY <1>3 DEF ForceDelete, Hit, Shapes
<1>4. CASE \E emb \in Embs : Rewrites(p, emb)
  BY <1>4 DEF Rewrites, Shapes
<1>5. CASE After(p) \/ VecRemove(p) \/ VecDelete(p) \/ VecInsert(p) \/ Fail(p)
  BY <1>5 DEF After, VecRemove, VecDelete, Unindex, VecInsert, Fail, Goto, Return, Shapes
<1>6. CASE Begin(p) \/ CommitTx(p)
  BY <1>6 DEF Begin, CommitTx
<1>7. CASE RollbackTx(p)
  BY <1>7 DEF RollbackTx, Return, Shapes
<1> QED
  BY <1>1, <1>2, <1>3, <1>4, <1>5, <1>6, <1>7 DEF Does

\* ... nor concerns its call.
LEMMA OthersSame ==
  ASSUME Shapes, NEW p \in Procs, Does(p), NEW q \in Procs \ {p}
  PROVE  Same(q)
BY Kept DEF Same, SyncDue, At

\* What a write statement does to the history, with an embedding and without.
LEMMA HistorySynced ==
  ASSUME Shapes, NEW p \in Procs, Does(p), NEW id \in Keys, NEW emb \in Embs,
         tracked', tracked => Synced(Procs, rows, side, want),
         At(p, "idle"), UNCHANGED side,
         WroteModel(p, id, emb),
         \A k \in Keys \ {id} : rows'[k].maker = rows[k].maker,
         rows'[id].maker # Nobody,
         struct'[p].id = id, At(p, "after")', call'[p].emb = emb
  PROVE  Synced(Procs, rows, side, want)'
<1>1. \A q \in Procs \ {p} : Same(q)
  BY OthersSame
<1>2. ~SyncDue(p)
  BY DEF SyncDue, At
<1>3. CASE emb # Empty
  <2>1. /\ tracked
        /\ \A q \in Procs \ {p} : ~DueFor(q, id)
        /\ want' = [want EXCEPT ![id] = emb]
    BY <1>3 DEF WroteModel, Wrote, DueFor
  <2>2. SyncDue(p)' /\ ~At(p, "vec-insert")'
    BY <1>3 DEF SyncDue, At
  <2> QED
    BY <1>1, <1>2, <2>1, <2>2, WriteSynced
<1>4. CASE emb = Empty
  <2>1. tracked /\ want' = want
    BY <1>4 DEF WroteModel
  <2>2. Same(p) /\ ~SyncDue(p)'
    BY <1>2, <1>4 DEF Same, SyncDue, At
  <2>3. Synced(Procs, rows, side, want)
    BY <2>1
  <2>4. \A q \in Procs, k \in Keys : DueFor(q, k)' <=> DueFor(q, k)
    BY <1>1, <2>2 DEF DueFor, Same
  <2>5. \A k \in Keys : want'[k] # Empty => rows'[k].maker # Nobody
    BY <2>1, <2>3 DEF Synced
  <2>6. ASSUME NEW q \in Procs, SyncDue(q)'
        PROVE  /\ SyncDue(q) /\ struct'[q].id = struct[q].id
               /\ call'[q].emb = call[q].emb
               /\ At(q, "vec-insert")' => At(q, "vec-insert")
               /\ struct[q].id \in Keys
    BY <1>1, <2>2, <2>6, Fields DEF Same
  <2> QED
    BY <2>1, <2>3, <2>4, <2>5, <2>6 DEF Synced
<1> QED
  BY <1>3, <1>4

\* A sidecar statement of p for its row, after which side[id] = to.
LEMMA StatementSynced ==
  ASSUME Shapes, NEW p \in Procs, Does(p), NEW id \in Keys, NEW to \in Embs,
         Synced(Procs, rows, side, want),
         SyncDue(p), struct[p].id = id, struct'[p].id = id,
         UNCHANGED <<rows, want>>,
         side' = [side EXCEPT ![id] = to],
         \/ ~SyncDue(p)' /\ to = call[p].emb
         \/ SyncDue(p)' /\ call'[p].emb = call[p].emb /\ to = Empty
  PROVE  Synced(Procs, rows, side, want)'
<1>1. \A q \in Procs \ {p} : Same(q)
  BY OthersSame
<1>2. \A q \in Procs \ {p} : ~DueFor(q, id)
  BY DEF Synced
<1>3. \A q \in Procs \ {p}, k \in Keys : DueFor(q, k)' <=> DueFor(q, k)
  BY <1>1 DEF DueFor, Same
<1>4. \A k \in Keys \ {id} : ~DueFor(p, k) /\ ~DueFor(p, k)'
  BY DEF DueFor
<1>5. want[id] = call[p].emb
  BY DEF Synced
<1>6. side'[id] = to /\ \A k \in Keys \ {id} : side'[k] = side[k]
  BY DEF Shapes
<1>7. \A k \in Keys :
        /\ want'[k] # Empty => rows'[k].maker # Nobody
        /\ side'[k] = want'[k] \/ \E q \in Procs : DueFor(q, k)'
  <2>1. side'[id] = want'[id] \/ DueFor(p, id)'
    BY <1>5, <1>6 DEF DueFor
  <2> QED
    BY <1>3, <1>4, <1>6, <2>1 DEF Synced
<1>8. ASSUME NEW q \in Procs, SyncDue(q)'
      PROVE  /\ want'[struct'[q].id] = call'[q].emb
             /\ At(q, "vec-insert")' => side'[struct'[q].id] = Empty
             /\ \A o \in Procs \ {q} : ~DueFor(o, struct[q].id)'
  <2>1. CASE q = p
    BY <1>2, <1>3, <1>5, <1>6, <1>8, <2>1
  <2>2. CASE q # p
    <3>1. SyncDue(q) /\ struct'[q].id = struct[q].id /\ call'[q].emb = call[q].emb
      BY <1>1, <1>8, <2>2 DEF Same
    <3>2. struct[q].id \in Keys \ {id}
      BY <1>2, <2>2, <3>1, Fields DEF DueFor
    <3> QED
      BY <1>1, <1>3, <1>4, <1>6, <2>2, <3>1, <3>2 DEF Synced, Same
  <2> QED
    BY <2>1, <2>2
<1> QED
  BY <1>7, <1>8 DEF Synced

\* The sidecar is behind only where a call has still to bring it up to date, in the
\* database and in the snapshot.
LEMMA LiveNext ==
  ASSUME Shapes, InOrder, InCalls, Tracks, NEW p \in Procs, Does(p), tracked'
  PROVE  Synced(Procs, rows, side, want)'
<1> USE DEF db
<1>0. /\ struct[p].id \in Keys /\ call[p] \in Call
      /\ \A q \in Procs \ {p} : Same(q)
  BY Fields, OthersSame DEF Shapes
<1>1. CASE Reads(p)
  <2>1. \A q \in Procs : Same(q)
    BY <1>0, <1>1 DEF Reads, Same, SyncDue, At
  <2>2. tracked /\ UNCHANGED <<rows, side, want>>
    BY <1>1 DEF Reads
  <2> QED
    BY <2>1, <2>2 DEF Tracks, Synced, Same, DueFor
<1>2. CASE Create(p)
  <2>1. last + 1 \in Keys
    BY <1>2 DEF Create, Shapes, Keys
  <2>2. PICK emb \in Embs :
          /\ WroteModel(p, last + 1, emb)
          /\ At(p, "after")' /\ call'[p].emb = emb
    BY <1>2 DEF Create, Shapes, Idle, At
  <2>3. /\ rows'[last + 1].maker # Nobody
        /\ \A k \in Keys \ {last + 1} : rows'[k].maker = rows[k].maker
        /\ struct'[p].id = last + 1
        /\ At(p, "idle") /\ side' = side
    BY <1>2, <2>1 DEF Create, Shapes
  <2> QED
    BY <2>1, <2>2, <2>3, HistorySynced DEF Tracks
<1>3. CASE ForceDelete(p)
  <2>1. /\ At(p, "idle") /\ side' = side /\ struct' = struct
        /\ At(p, "vec-remove")' /\ call'[p].emb = Empty
        /\ \A k \in Keys \ {struct[p].id} : rows'[k].maker = rows[k].maker
    BY <1>0, <1>3 DEF ForceDelete, Hit, Shapes, At
  <2>2. tracked /\ \A q \in Procs \ {p} : ~DueFor(q, struct[p].id)
    BY <1>3 DEF ForceDelete, Wrote, DueFor
  <2>3. want' = [want EXCEPT ![struct[p].id] = Empty]
    BY <1>3 DEF ForceDelete, Wrote
  <2>4. ~SyncDue(p) /\ SyncDue(p)' /\ ~At(p, "vec-insert")'
    BY <2>1 DEF SyncDue, At
  <2>5. PICK id \in Keys : id = struct[p].id
    BY <1>0
  <2> QED
    BY <1>0, <2>1, <2>2, <2>3, <2>4, <2>5, WriteSynced DEF Tracks, Embs
<1>4. CASE \E emb \in Embs : Rewrites(p, emb)
  <2>1. PICK emb \in Embs : Rewrites(p, emb)
    BY <1>4
  <2>2. PICK id \in Keys : id = struct[p].id
    BY <1>0
  <2>3. /\ At(p, "idle") /\ side' = side /\ struct'[p].id = id
        /\ At(p, "after")' /\ call'[p].emb = emb
        /\ WroteModel(p, id, emb)
        /\ rows'[id].maker # Nobody
        /\ \A k \in Keys \ {id} : rows'[k].maker = rows[k].maker
    BY <2>1, <2>2 DEF Rewrites, SetDeleted, Exists, Shapes, Row, Struct, At
  <2> QED
    BY <2>3, HistorySynced DEF Tracks
<1>5. CASE After(p)
  <2>1. \A q \in Procs : Same(q)
    <3>1. CASE SyncDue(p)
      BY <1>0, <1>5, <3>1 DEF After, Goto, Same, SyncDue, Shapes, Call, At
    <3>2. CASE ~SyncDue(p)
      BY <1>0, <1>5, <3>2 DEF After, Return, Idle, Same, SyncDue, Shapes, At
    <3> QED
      BY <3>1, <3>2
  <2>2. tracked /\ UNCHANGED <<rows, side, want>>
    BY <1>5 DEF After
  <2> QED
    BY <2>1, <2>2 DEF Tracks, Synced, Same, DueFor
<1>6. CASE VecRemove(p) \/ VecDelete(p) \/ VecInsert(p)
  <2>1. PICK id \in Keys : id = struct[p].id
    BY <1>0
  <2>2. /\ tracked /\ UNCHANGED <<rows, want, struct>>
        /\ SyncDue(p)
    BY <1>6 DEF VecRemove, VecDelete, Unindex, VecInsert, SyncDue, At
  <2>3. CASE VecRemove(p)
    <3>1. ~SyncDue(p)' /\ call[p].emb = Empty
      BY <2>3 DEF VecRemove, Unindex, Goto, SyncDue, InCalls, At, Shapes, Call
    <3> QED
      BY <2>1, <2>2, <2>3, <3>1, StatementSynced DEF VecRemove, Unindex, Tracks, Embs
  <2>4. CASE VecDelete(p)
    <3>1. SyncDue(p)' /\ call'[p].emb = call[p].emb
      BY <2>4 DEF VecDelete, Unindex, Goto, SyncDue, At, Shapes, Call
    <3> QED
      BY <2>1, <2>2, <2>4, <3>1, StatementSynced DEF VecDelete, Unindex, Tracks, Embs
  <2>5. CASE VecInsert(p)
    <3>1. ~SyncDue(p)' /\ call[p].emb \in Embs
      BY <1>0, <2>5 DEF VecInsert, Return, Idle, SyncDue, At, Shapes, Call
    <3> QED
      BY <2>1, <2>2, <2>5, <3>1, StatementSynced DEF VecInsert, Tracks
  <2> QED
    BY <1>6, <2>3, <2>4, <2>5
<1>7. CASE Fail(p)
  <2>1. /\ tracked /\ ~SyncDue(p) /\ UNCHANGED <<rows, side, want, struct>>
        /\ call'[p] = Idle
    BY <1>7 DEF Fail, Return, Shapes
  <2>2. \A q \in Procs : Same(q)
    BY <1>0, <2>1 DEF Same, SyncDue, At, Idle
  <2> QED
    BY <2>1, <2>2 DEF Tracks, Synced, Same, DueFor
<1>8. CASE Begin(p) \/ CommitTx(p)
  <2>1. \A q \in Procs : Same(q)
    BY <1>8 DEF Begin, CommitTx, Same, SyncDue, At
  <2>2. tracked /\ UNCHANGED <<rows, side, want>>
    BY <1>8 DEF Begin, CommitTx
  <2> QED
    BY <2>1, <2>2 DEF Tracks, Synced, Same, DueFor
<1>9. CASE RollbackTx(p)
  <2>1. /\ tracked /\ tx = p
        /\ rows' = saved.rows /\ side' = saved.side /\ want' = saved.want
        /\ call'[p] = Idle
    BY <1>9 DEF RollbackTx, Return, Shapes
  <2>2. ~SyncDue(p)'
    BY <2>1 DEF SyncDue, At, Idle
  <2>3. \A q \in Procs, k \in Keys : DueFor(q, k)' => q # p
    BY <2>2 DEF DueFor
  <2>4. Synced(Procs \ {p}, saved.rows, saved.side, saved.want)
    BY <2>1 DEF Tracks
  <2>5. \A q \in Procs \ {p} : \A k : DueFor(q, k)' <=> DueFor(q, k)
    BY <1>0 DEF DueFor, Same
  <2>6. \A k : ~DueFor(p, k)'
    BY <2>2 DEF DueFor
  <2> QED
    BY <1>0, <2>1, <2>2, <2>4, <2>5, <2>6 DEF Synced, Same
<1> QED
  BY <1>1, <1>2, <1>3, <1>4, <1>5, <1>6, <1>7, <1>8, <1>9 DEF Does

\* The database and the snapshot together.
LEMMA TracksNext ==
  ASSUME Shapes, InOrder, InCalls, Tracks, [Next]_vars
  PROVE  Tracks'
<1>1. CASE UNCHANGED vars
  BY <1>1 DEF vars, Tracks, Synced, DueFor, SyncDue, At
<1>2. ASSUME NEW p \in Procs, Does(p), tracked', tx' # Nobody
      PROVE  Synced(Procs \ {tx}, saved.rows, saved.side, saved.want)'
  <2> USE <1>2 DEF db
  <2>1. CASE Begin(p)
    <3>1. /\ At(p, "idle") /\ tx' = p /\ UNCHANGED <<rows, side, want, call, struct>>
          /\ tracked
          /\ saved'.rows = rows /\ saved'.side = side /\ saved'.want = want
      BY <2>1 DEF Begin
    <3>2. \A k : ~DueFor(p, k)
      BY <3>1 DEF DueFor, SyncDue, At
    <3>3. \A q, k : DueFor(q, k)' <=> DueFor(q, k)
      BY <3>1 DEF DueFor, SyncDue, At
    <3>4. \A q \in Procs : SyncDue(q)' <=> SyncDue(q)
      BY <3>1 DEF SyncDue, At
    <3> QED
      BY <3>1, <3>2, <3>3, <3>4 DEF Tracks, Synced, At
  <2>2. CASE ~Begin(p)
    <3>1. tx' = tx /\ saved' = saved /\ (tracked' => tracked)
      BY <2>2 DEF Does, Reads, Create, ForceDelete, Hit, Rewrites, WroteModel, Wrote, After,
                  VecRemove, VecDelete, Unindex, VecInsert, Fail, CommitTx, RollbackTx
    <3>2. PICK n \in Procs : n = tx
      BY <3>1 DEF Shapes
    <3>3. \A q \in Procs \ {n} : Same(q)
      <4>1. CASE p = n
        BY <4>1, OthersSame
      <4>2. CASE p # n
        <5>1. Reads(p) \/ After(p) \/ Fail(p)
          BY <2>2, <3>2, <4>2 DEF Does, Create, ForceDelete, Hit, Rewrites, VecRemove,
             VecDelete, Unindex, VecInsert, MayWrite, CommitTx, RollbackTx
        <5>2. CASE Reads(p)
          BY <5>2, OthersSame DEF Reads, Same, SyncDue, At
        <5>3. CASE After(p)
          <6>1. CASE SyncDue(p)
            BY <5>3, <6>1, OthersSame
               DEF After, Goto, Same, SyncDue, Shapes, Call, At
          <6>2. CASE ~SyncDue(p)
            BY <5>3, <6>2, OthersSame
               DEF After, Return, Idle, Same, SyncDue, Shapes, At
          <6> QED
            BY <6>1, <6>2
        <5>4. CASE Fail(p)
          <6>1. ~SyncDue(p) /\ call'[p] = Idle
            BY <5>4 DEF Fail, Return, Shapes
          <6> QED
            BY <6>1, OthersSame DEF Same, SyncDue, At, Idle
        <5> QED
          BY <5>1, <5>2, <5>3, <5>4
      <4> QED
        BY <4>1, <4>2
    <3> QED
      BY <3>1, <3>2, <3>3, SavedSynced DEF Tracks
  <2> QED
    BY <2>1, <2>2
<1>3. ASSUME NEW p \in Procs, Does(p) PROVE Tracks'
  BY <1>2, <1>3, LiveNext DEF Tracks
<1> QED
  BY <1>1, <1>3, Effects

-----------------------------------------------------------------------------
(* The theorems.                                                           *)

\* The invariant is inductive.
LEMMA InvNext ==
  ASSUME IInv, [Next]_vars
  PROVE  IInv'
<1>1. OwnRows'
  <2>1. CASE Reload
    BY <2>1, OwnRowsNext DEF IInv
  <2>2. CASE ~Reload
    BY <2>2 DEF OwnRows
  <2> QED
    BY <2>1, <2>2
<1> QED
  BY <1>1, ShapesNext, InOrderNext, InCallsNext, TracksNext DEF IInv

\* So it holds of every reachable state.
LEMMA InvAlways == Spec => []IInv
<1>1. IInv /\ [Next]_vars => IInv'
  BY InvNext
<1> QED
  BY <1>1, InvInit, PTL DEF Spec

\* Keys are given out in order, and the zero key never has a row or an embedding.
THEOREM Types == Spec => []TypeOK
<1>1. IInv => TypeOK
  BY DEF IInv, Shapes, InOrder, Ordered, TypeOK, Exists
<1> QED
  BY <1>1, InvAlways, PTL

\* Wherever calls fail in transactions, and as long as none outside is cut off or
\* overtaken, the sidecar has exactly the embeddings last written.
THEOREM SidecarFollows == Spec => []SidecarTracks
<1>1. IInv => SidecarTracks
  BY DEF IInv, Tracks, Synced, DueFor, SidecarTracks, Exists
<1> QED
  BY <1>1, InvAlways, PTL

\* A soft-deleted row comes back by Restore, by a rollback, or by an Update whose
\* scope has deleted rows in it.
THEOREM Deleted == Spec => NoResurrection
<1>1. ASSUME IInv, Next, NEW id \in Keys,
             Exists(id), rows[id].deleted, Exists(id)', ~rows'[id].deleted
      PROVE  \E p \in Procs : \/ Restore(p) \/ RollbackTx(p)
                              \/ /\ ~struct[p].deleted
                                 /\ call'[p] # call[p]
                                 /\ call'[p].scope # "WithoutDeleted"
  <2> USE <1>1 DEF IInv, Exists
  <2>1. PICK p \in Procs :
          \/ Get(p) \/ NewModel(p)
          \/ Create(p) \/ ForceDelete(p) \/ Restore(p)
          \/ \E scope \in Scopes : Update(p, scope) \/ Delete(p, scope)
          \/ After(p) \/ VecRemove(p) \/ VecDelete(p) \/ VecInsert(p) \/ Fail(p)
          \/ Begin(p) \/ CommitTx(p) \/ RollbackTx(p)
    BY DEF Next
  <2>2. CASE rows' = rows
    BY <2>2
  <2>3. CASE Create(p)
    <3>1. last' = last + 1 /\ (id # last' => rows'[id] = rows[id])
      BY <2>3 DEF Create, Shapes
    <3>2. id \in Nat /\ last \in Nat
      BY DEF Shapes, Keys
    <3> QED
      BY <3>1, <3>2 DEF InOrder, Ordered
  <2>4. CASE ForceDelete(p)
    BY <2>4 DEF ForceDelete, NoRow, Shapes
  <2>5. CASE \E scope \in Scopes : Delete(p, scope)
    BY <2>5 DEF Delete, SetDeleted, Shapes, Row
  <2>6. CASE \E scope \in Scopes : Update(p, scope)
    <3>1. PICK scope \in Scopes, emb \in Embs :
            /\ Hit(p, scope, emb, "after")
            /\ SetDeleted(p, struct[p].deleted)
      BY <2>6 DEF Update
    <3>2. id = struct[p].id /\ ~struct[p].deleted
      BY <3>1, Fields DEF SetDeleted, Shapes, Row
    <3>3. scope # "WithoutDeleted"
      BY <3>1, <3>2 DEF Hit, Matches, InScope
    <3>4. call'[p].scope = scope /\ call'[p].pc # call[p].pc
      BY <3>1 DEF Hit, At, Shapes
    <3> QED
      BY <3>2, <3>3, <3>4
  <2> QED
    BY <2>1, <2>2, <2>3, <2>4, <2>5, <2>6
       DEF Get, NewModel, db, After, VecRemove, VecDelete, Unindex, VecInsert, Fail, Begin,
           CommitTx
<1>2. IInv /\ [Next]_vars =>
        [\A id \in Keys :
           Exists(id) /\ rows[id].deleted /\ Exists(id)' /\ ~rows'[id].deleted =>
             \E p \in Procs : \/ Restore(p) \/ RollbackTx(p)
                              \/ /\ ~struct[p].deleted
                                 /\ call'[p] # call[p]
                                 /\ call'[p].scope # "WithoutDeleted"]_vars
  BY <1>1
<1> QED
  BY <1>2, InvAlways, PTL DEF Spec, NoResurrection

\* If a transaction starts again with the structs of before, a write that returns nil
\* has written the row of its struct.
THEOREM OwnRowsWritten == Reload => (Spec => WritesOwnRow)
<1> SUFFICES ASSUME Reload PROVE Spec => WritesOwnRow
  OBVIOUS
<1>1. ASSUME IInv, Next, NEW p \in Procs, ReturnsNil(p)
      PROVE  call[p].hit = struct'[p].maker /\ call[p].hit # Nobody
  <2> USE <1>1 DEF IInv
  <2>1. call[p].hit = struct[p].maker /\ call[p].hit # Nobody
    BY DEF OwnRows, ReturnsNil, At
  <2>2. PICK q \in Procs : Does(q)
    BY Effects
  <2>3. struct'[p] = struct[p]
    <3>1. CASE q = p
      <4>1. ~At(p, "idle") /\ ~Fail(p) /\ ~RollbackTx(p)
        BY DEF ReturnsNil, At
      <4> QED
        BY <2>2, <3>1, <4>1
           DEF Does, Reads, Create, ForceDelete, Hit, Rewrites, After, VecRemove, VecDelete,
               Unindex, VecInsert, Begin, CommitTx
    <3>2. CASE q # p
      BY <2>2, <3>2, Kept
    <3> QED
      BY <3>1, <3>2
  <2> QED
    BY <2>1, <2>3
<1>2. IInv /\ [Next]_vars =>
        [\A p \in Procs : ReturnsNil(p) =>
           call[p].hit = struct'[p].maker /\ call[p].hit # Nobody]_vars
  BY <1>1 DEF ReturnsNil, Fail, RollbackTx, vars
<1> QED
  BY <1>2, InvAlways, PTL DEF Spec, WritesOwnRow
=============================================================================
