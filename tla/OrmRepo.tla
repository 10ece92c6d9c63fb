------------------------------ MODULE OrmRepo ------------------------------
(***************************************************************************)
(* orm.Repo's keyed writes on a soft-delete model with a vector sidecar    *)
(* that hooks keep current (orm/repo.go, write.go, hooks.go, searchsync.go)*)
(* on SQLite, the only backend with sidecars.  A call is a row statement,  *)
(* the hooks around it and the statements of the sidecar; outside a        *)
(* transaction each of them commits on its own.                            *)
(*                                                                         *)
(* The content of a row is left out but for deleted_at; the embedding is   *)
(* sidecar-only (orm:"-"), so it lives in structs and in the sidecar.      *)
(***************************************************************************)
EXTENDS Naturals

CONSTANTS
  Procs,        \* callers, each with a struct
  MaxId,        \* how many keys may be given out (bound)
  MaxWrites,    \* how many row statements a behaviour may execute (bound)
  Embeddings,   \* embeddings that are not empty
  Empty,        \* the empty one, also: no row in the sidecar
  Nobody,       \* no process
  Reload        \* fn of a retried transaction starts with the structs of before

ASSUME OrmRepoAssumption ==
  /\ MaxId \in Nat
  /\ MaxWrites \in Nat
  /\ Empty \notin Embeddings
  /\ Nobody \notin Procs
  /\ Reload \in BOOLEAN

VARIABLES
  rows,         \* rows[id]: [deleted, maker]; maker is Nobody where there is no row
  last,         \* the last key given out
  side,         \* side[key]: the embedding in the sidecar
  struct,       \* struct[p]: the model p works on
  call,         \* call[p]: the call p is in
  tx,           \* who runs a transaction
  saved,        \* what a rollback brings back
  writes,       \* how many row statements were executed
  want,         \* history: the embedding last written through the row
  tracked       \* history: no call outside a transaction was cut off between row
                \* and sidecar, or ran between those of another call

vars == <<rows, last, side, struct, call, tx, saved, writes, want,
          tracked>>

db == <<rows, last, side, want, writes>>

Keys == 0 .. MaxId                  \* 0 is the key of a struct that has none

Embs == Embeddings \cup {Empty}

Row == [deleted: BOOLEAN, maker: Procs \cup {Nobody}]

NoRow == [deleted |-> FALSE, maker |-> Nobody]

Struct == [id: Keys, deleted: BOOLEAN, maker: Procs \cup {Nobody}]

NewStruct == [id |-> 0, deleted |-> FALSE, maker |-> Nobody]

Scopes == {"WithoutDeleted", "IncludeDeleted", "OnlyDeleted"}

\* "vec-remove" is syncSearchDelete, "vec-delete" and "vec-insert" are
\* syncSearchUpsert.
Call == [pc: {"idle", "after", "vec-remove", "vec-delete", "vec-insert"},
         scope: Scopes, emb: Embs, hit: Procs \cup {Nobody}]

Idle == [pc |-> "idle", scope |-> "WithoutDeleted", emb |-> Empty, hit |-> Nobody]

NoSnapshot == [rows |-> [id \in Keys |-> NoRow], last |-> 0,
               side |-> [id \in Keys |-> Empty], want |-> [id \in Keys |-> Empty],
               struct |-> NewStruct]

Init ==
  /\ saved = NoSnapshot
  /\ rows = saved.rows
  /\ last = 0
  /\ side = saved.side
  /\ want = saved.want
  /\ writes = 0
  /\ struct = [p \in Procs |-> NewStruct]
  /\ call = [p \in Procs |-> Idle]
  /\ tx = Nobody
  /\ tracked = TRUE

Exists(id) == rows[id].maker # Nobody

At(p, point) == call[p].pc = point

Goto(p, point) == call' = [call EXCEPT ![p].pc = point]

Return(p) == call' = [call EXCEPT ![p] = Idle]

\* SQLite has one writer at a time, and readers see what is committed.
MayWrite(p) == tx \in {Nobody, p}

Visible(p) == IF MayWrite(p) THEN rows ELSE saved.rows

InScope(row, scope) ==
  /\ row.maker # Nobody
  /\ scope = "WithoutDeleted" => ~row.deleted
  /\ scope = "OnlyDeleted" => row.deleted

(***************************************************************************)
(* Reads.                                                                  *)
(***************************************************************************)
Load(p, id) ==
  struct' = [struct EXCEPT ![p] = [id |-> id, deleted |-> Visible(p)[id].deleted,
                                   maker |-> Visible(p)[id].maker]]

\* Get, and FirstOrCreate when it finds a row.
Get(p) ==
  /\ At(p, "idle")
  /\ \E id \in Keys, scope \in Scopes : InScope(Visible(p)[id], scope) /\ Load(p, id)
  /\ UNCHANGED <<db, call, tx, saved, tracked>>

\* A struct of the caller's own.
NewModel(p) ==
  /\ At(p, "idle")
  /\ struct' = [struct EXCEPT ![p] = NewStruct]
  /\ UNCHANGED <<db, call, tx, saved, tracked>>

(***************************************************************************)
(* The row statement, the first of a call.  What comes before it, the      *)
(* Before hooks that may still set the embedding, touches only the struct. *)
(* The embedding is kept with the call, which is all that reads it.        *)
(***************************************************************************)
Count == writes < MaxWrites /\ writes' = writes + 1

\* The sidecar statements of p's call are still to come.
SyncDue(p) == \/ call[p].pc \in {"vec-remove", "vec-delete", "vec-insert"}
              \/ At(p, "after") /\ call[p].emb # Empty

\* p's statement has written row id: what the sidecar should hold from now on.
Wrote(p, id, emb) ==
  /\ tracked' = (tracked /\ ~\E q \in Procs \ {p} : SyncDue(q) /\ struct[q].id = id)
  /\ want' = IF tracked' THEN [want EXCEPT ![id] = emb] ELSE NoSnapshot.want

\* syncSearchUpsert skips an empty embedding.
WroteModel(p, id, emb) ==
  IF emb # Empty THEN Wrote(p, id, emb) ELSE UNCHANGED <<want, tracked>>

CreateNoCapture(p) == \E emb \in Embs :      \* mutant: the key is not read back
  /\ At(p, "idle") /\ MayWrite(p) /\ last < MaxId /\ Count
  /\ last' = last + 1
  /\ rows' = [rows EXCEPT ![last'] = [deleted |-> struct[p].deleted, maker |-> p]]
  /\ WroteModel(p, last', emb)
  /\ call' = [call EXCEPT ![p] = [Idle EXCEPT !.pc = "after", !.emb = emb, !.hit = p]]
  /\ UNCHANGED <<side, struct, tx, saved>>

\* Create, Save of a struct that has no key, FirstOrCreate when its lookup has found
\* no row: INSERT ... RETURNING, with the deleted_at of the struct.
Create(p) == \E emb \in Embs :
  /\ At(p, "idle") /\ MayWrite(p) /\ last < MaxId /\ Count
  /\ last' = last + 1
  /\ rows' = [rows EXCEPT ![last'] = [deleted |-> struct[p].deleted, maker |-> p]]
  /\ struct' = [struct EXCEPT ![p].id = last', ![p].maker = p]
  /\ WroteModel(p, last', emb)
  /\ call' = [call EXCEPT ![p] = [Idle EXCEPT !.pc = "after", !.emb = emb, !.hit = p]]
  /\ UNCHANGED <<side, tx, saved>>

MatchesAny(p, scope) ==             \* mutant: no scopePredicate
  rows[struct[p].id].maker # Nobody

\* pkWhere and scopePredicate.
Matches(p, scope) == InScope(rows[struct[p].id], scope)

HitUnchecked(p, scope, emb, point) ==       \* mutant: RowsAffected is not read
  /\ At(p, "idle") /\ MayWrite(p) /\ Count
  /\ call' = [call EXCEPT ![p] = [pc |-> point, scope |-> scope, emb |-> emb,
                                  hit |-> rows[struct[p].id].maker]]
  /\ UNCHANGED <<last, side, tx, saved>>

\* The statement matches p's row.  (Where it does not, RowsAffected() is 0
\* and the call is over with ErrNoRows: nothing changes.)
Hit(p, scope, emb, point) ==
  /\ At(p, "idle") /\ MayWrite(p) /\ Count
  /\ Matches(p, scope)
  /\ call' = [call EXCEPT ![p] = [pc |-> point, scope |-> scope, emb |-> emb,
                                  hit |-> rows[struct[p].id].maker]]
  /\ UNCHANGED <<last, side, tx, saved>>

SetDeleted(p, deleted) == rows' = [rows EXCEPT ![struct[p].id].deleted = deleted]

\* Update, and Save of a struct that has a key: every column, deleted_at too.
Update(p, scope) == \E emb \in Embs :
  /\ Hit(p, scope, emb, "after")
  /\ SetDeleted(p, struct[p].deleted)
  /\ WroteModel(p, struct[p].id, emb)
  /\ UNCHANGED struct

\* Delete stamps deleted_at in the row and not in the struct.
Delete(p, scope) ==
  /\ Hit(p, scope, Empty, "after")
  /\ SetDeleted(p, TRUE)
  /\ UNCHANGED <<struct, want, tracked>>

ForceDeleteRowOnly(p) ==            \* mutant: no syncSearchDelete
  /\ Hit(p, "IncludeDeleted", Empty, "after")
  /\ rows' = [rows EXCEPT ![struct[p].id] = NoRow]
  /\ Wrote(p, struct[p].id, Empty)
  /\ UNCHANGED struct

\* ForceDelete knows no scope; the sidecar comes before the After hook.
ForceDelete(p) ==
  /\ Hit(p, "IncludeDeleted", Empty, "vec-remove")
  /\ rows' = [rows EXCEPT ![struct[p].id] = NoRow]
  /\ Wrote(p, struct[p].id, Empty)
  /\ UNCHANGED struct

\* Restore, of any row, clears deleted_at in the row and in the struct.
Restore(p) == \E emb \in Embs :
  /\ Hit(p, "IncludeDeleted", emb, "after")
  /\ SetDeleted(p, FALSE)
  /\ struct' = [struct EXCEPT ![p].deleted = FALSE]
  /\ WroteModel(p, struct[p].id, emb)

(***************************************************************************)
(* After the row: hooks and sidecar.                                       *)
(***************************************************************************)
\* The After hooks return nil.
After(p) ==
  /\ At(p, "after")
  /\ IF SyncDue(p) THEN Goto(p, "vec-delete") ELSE Return(p)
  /\ UNCHANGED <<db, struct, tx, saved, tracked>>

Unindex(p, from, to) ==
  /\ At(p, from) /\ MayWrite(p)
  /\ side' = [side EXCEPT ![struct[p].id] = Empty]
  /\ Goto(p, to)
  /\ UNCHANGED <<rows, last, want, writes, struct, tx, saved, tracked>>

\* syncSearchDelete: DELETE FROM the sidecar.
VecRemove(p) == Unindex(p, "vec-remove", "after")

\* syncSearchUpsert: DELETE FROM the sidecar ...
VecDelete(p) == Unindex(p, "vec-delete", "vec-insert")

\* ... and INSERT INTO it, which is refused for a key that is there.
VecInsert(p) ==
  /\ At(p, "vec-insert") /\ MayWrite(p)
  /\ side[struct[p].id] = Empty
  /\ side' = [side EXCEPT ![struct[p].id] = call[p].emb]
  /\ Return(p)
  /\ UNCHANGED <<rows, last, want, writes, struct, tx, saved, tracked>>

\* Outside a transaction, a statement or a hook fails, and the call with it; or the
\* process dies.
Fail(p) ==
  /\ call[p].pc # "idle" /\ tx # p
  /\ Return(p)
  /\ tracked' = (tracked /\ ~SyncDue(p))
  /\ want' = IF tracked' THEN want ELSE NoSnapshot.want
  /\ UNCHANGED <<rows, last, side, writes, struct, tx, saved>>

(***************************************************************************)
(* Transaction and TransactionRetry.                                       *)
(***************************************************************************)
Begin(p) ==
  /\ At(p, "idle") /\ tx = Nobody
  /\ tx' = p
  /\ saved' = [rows |-> rows, last |-> last, side |-> side, want |-> want,
               struct |-> struct[p]]
  /\ UNCHANGED <<db, struct, call, tracked>>

\* fn returns nil.
CommitTx(p) ==
  /\ tx = p /\ At(p, "idle")
  /\ tx' = Nobody
  /\ saved' = NoSnapshot
  /\ UNCHANGED <<db, struct, call, tracked>>

\* fn returns an error, its own or that of a call that fails at any statement or
\* hook: the rows, the sidecar and the last key are as before, and the struct too if
\* fn is "safe to run more than once" (TransactionRetry).
RollbackTx(p) ==
  /\ tx = p
  /\ Return(p)
  /\ tx' = Nobody
  /\ saved' = NoSnapshot
  /\ rows' = saved.rows
  /\ last' = saved.last
  /\ side' = saved.side
  /\ want' = saved.want
  /\ struct' = IF Reload THEN [struct EXCEPT ![p] = saved.struct] ELSE struct
  /\ UNCHANGED <<writes, tracked>>

Next ==
  \E p \in Procs :
    \/ Get(p) \/ NewModel(p)
    \/ Create(p) \/ ForceDelete(p) \/ Restore(p)
    \/ \E scope \in Scopes : Update(p, scope) \/ Delete(p, scope)
    \/ After(p) \/ VecRemove(p) \/ VecDelete(p) \/ VecInsert(p) \/ Fail(p)
    \/ Begin(p) \/ CommitTx(p) \/ RollbackTx(p)

Spec == Init /\ [][Next]_vars

(***************************************************************************)
(* Properties.                                                             *)
(***************************************************************************)
\* Types; keys are given out in order, and neither the table nor the sidecar has
\* anything under the zero key of a struct that was never created.
TypeOK ==
  /\ rows \in [Keys -> Row]
  /\ last \in Keys
  /\ side \in [Keys -> Embs]
  /\ struct \in [Procs -> Struct]
  /\ call \in [Procs -> Call]
  /\ tx \in Procs \cup {Nobody}
  /\ writes \in 0 .. MaxWrites
  /\ want \in [Keys -> Embs]
  /\ tracked \in BOOLEAN
  /\ \A id \in Keys : id = 0 \/ id > last => ~Exists(id) /\ side[id] = Empty

\* "Save/Updates can't silently resurrect a row that's out of scope"
\* (docs/guides/orm.md), although they write deleted_at from a struct that may be
\* older than the Delete: a soft-deleted row comes back by Restore, by an Update
\* whose scope has deleted rows in it, or by a rollback.
NoResurrection ==
  [][\A id \in Keys :
       Exists(id) /\ rows[id].deleted /\ Exists(id)' /\ ~rows'[id].deleted =>
         \E p \in Procs : \/ Restore(p) \/ RollbackTx(p)
                          \/ /\ ~struct[p].deleted
                             /\ call'[p] # call[p]
                             /\ call'[p].scope # "WithoutDeleted"]_vars

\* A write that returns nil has written one row, the one its struct was created
\* for or read from, and none that got the key later; a write that matches no row
\* is never taken for one that did.
ReturnsNil(p) ==
  call[p].pc # "idle" /\ call'[p].pc = "idle" /\ ~Fail(p) /\ ~RollbackTx(p)

WritesOwnRow ==
  [][\A p \in Procs : ReturnsNil(p) =>
       call[p].hit = struct'[p].maker /\ call[p].hit # Nobody]_vars

\* "Errors abort the operation ... inside a transaction you'd roll back"
\* (docs/guides/hooks.md): the sidecar holds exactly the embeddings last written
\* through the rows there are, soft-deleted ones too, wherever a call in a
\* transaction fails; only calls outside one that were cut off or overlapped on a
\* row may leave it behind.
SidecarTracks ==
  tracked => \A id \in Keys :
    (\A p \in Procs : ~(SyncDue(p) /\ struct[p].id = id))
      => side[id] = want[id] /\ (want[id] # Empty => Exists(id))
=============================================================================
