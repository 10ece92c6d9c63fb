---------------------------- MODULE Association ----------------------------
(***************************************************************************)
(* orm.Association, Attach, Detach and Load (orm/association.go, load.go,  *)
(* loadpath.go): the rows of one relation, what the caller's structs say   *)
(* of them, and the statements the calls are made of.                      *)
(*                                                                         *)
(* A has-many or has-one relation is a foreign key (and, polymorphic, an   *)
(* owner type) in the target's row, so a target has one owner at most; a   *)
(* many-to-many relation is a join table whose primary key is the pair.    *)
(* There is one caller: a call is retried after an error, not raced.       *)
(***************************************************************************)
EXTENDS Naturals, FiniteSets

CONSTANTS
  Owners,       \* [type, id]: owners of several types may share the relation
  Targets,      \* target rows
  None,         \* the zero foreign key
  Kinds,        \* kinds of relation: "has-many", "has-one", "m2m"
  Assignable    \* the owner's key is assignable to the foreign-key field: so for
                \* int64 and int64, not for int64 and sql.NullInt64

ASSUME AssociationAssumption ==
  /\ \A o \in Owners : o = [type |-> o.type, id |-> o.id]
  /\ IsFiniteSet(Targets)
  /\ None \notin Owners
  /\ Kinds \subseteq {"has-many", "has-one", "m2m"}
  /\ Assignable \in BOOLEAN

VARIABLES
  kind,         \* the kind of the relation
  links,        \* the pairs <<owner, target>> in the database
  struct,       \* struct[t]: the foreign key in the caller's struct of t
  field,        \* field[o]: the targets in the relation field of the struct of o
  call          \* the call in progress

vars == <<kind, links, struct, field, call>>

Calls == {"append", "delete", "clear", "replace"}

Call == [pc: {"clear", "append", "delete"}, op: Calls, owner: Owners,
         targets: SUBSET Targets, todo: SUBSET Targets]

Returned(result) == [pc |-> "idle", result |-> result]

IsFK == kind # "m2m"

Of(o) == {t \in Targets : <<o, t>> \in links}

OwnerOf(t) ==
  IF \E o \in Owners : t \in Of(o) THEN CHOOSE o \in Owners : t \in Of(o)
                                   ELSE None

Init ==
  /\ kind \in Kinds
  /\ links \in {L \in SUBSET (Owners \X Targets) :
                  IsFK => \A a, b \in L : a[2] = b[2] => a = b}
  /\ struct = [t \in Targets |-> IF IsFK THEN OwnerOf(t) ELSE None]
  /\ field = [o \in Owners |-> {}]
  /\ call = Returned("nil")

(***************************************************************************)
(* Conditions.                                                             *)
(***************************************************************************)
BelongsAnyType(l, o) ==             \* mutant: the owner type is forgotten
  l[1].id = o.id

\* WHERE owner_id = ?, and the type column of a polymorphic relation.
Belongs(l, o) == l[1].id = o.id /\ l[1].type = o.type

(***************************************************************************)
(* Calls.                                                                  *)
(***************************************************************************)
FirstAppends(op) ==                 \* mutant: Replace without its Clear
  IF op = "replace" THEN "append" ELSE op

First(op) == IF op = "replace" THEN "clear" ELSE op

\* A call on the association of o; Append and Delete of nothing return at once.
\* A has-one is not told from a has-many: it may be given several targets.
Start ==
  /\ call.pc = "idle"
  /\ \E op \in Calls, o \in Owners, T \in SUBSET Targets :
       /\ op \in {"append", "delete"} => T # {}
       /\ op = "clear" => T = {}
       /\ call' = [pc |-> First(op), op |-> op, owner |-> o, targets |-> T,
                   todo |-> T]
  /\ UNCHANGED <<kind, links, struct, field>>

\* Clear, and the first half of Replace: one statement.
Clear ==
  /\ call.pc = "clear"
  /\ links' = {l \in links : ~Belongs(l, call.owner)}
  /\ call' = IF call.todo # {} THEN [call EXCEPT !.pc = "append"] ELSE Returned("nil")
  /\ UNCHANGED <<kind, struct, field>>

\* setTargetCol: a value that is not assignable leaves a zero in the field.
SetTargetFK(T, val) ==
  struct' = [t \in Targets |-> IF t \notin T THEN struct[t]
                               ELSE IF Assignable THEN val ELSE None]

Linked(o, T) == {<<o, t>> : t \in T}

AppendFKRowOnly ==                  \* mutant: the structs keep their foreign key
  /\ IsFK /\ call.pc = "append"
  /\ links' = {l \in links : l[2] \notin call.todo} \cup Linked(call.owner, call.todo)
  /\ call' = Returned("nil")
  /\ UNCHANGED <<kind, struct, field>>

AppendFKAddsPair ==                 \* mutant: linked as if by a join table
  /\ IsFK /\ call.pc = "append"
  /\ links' = links \cup Linked(call.owner, call.todo)
  /\ SetTargetFK(call.todo, call.owner)
  /\ call' = Returned("nil")
  /\ UNCHANGED <<kind, field>>

\* Append of a foreign-key relation: one UPDATE of the targets by primary key,
\* whoever owns them, then the structs.
AppendFK ==
  /\ IsFK /\ call.pc = "append"
  /\ links' = {l \in links : l[2] \notin call.todo} \cup Linked(call.owner, call.todo)
  /\ SetTargetFK(call.todo, call.owner)
  /\ call' = Returned("nil")
  /\ UNCHANGED <<kind, field>>

\* Delete of a foreign-key relation: one UPDATE of the targets that belong to the
\* owner, then the structs of all of them.
DeleteFK ==
  /\ IsFK /\ call.pc = "delete"
  /\ links' = {l \in links : ~(Belongs(l, call.owner) /\ l[2] \in call.todo)}
  /\ SetTargetFK(call.todo, None)
  /\ call' = Returned("nil")
  /\ UNCHANGED <<kind, field>>

\* The loops of Attach and Detach, one statement for each target.
Advance(t) ==
  call' = IF call.todo = {t} THEN Returned("nil") ELSE [call EXCEPT !.todo = @ \ {t}]

AttachStopsAtLink ==                \* mutant: return where it should continue
  /\ ~IsFK /\ call.pc = "append"
  /\ \E t \in call.todo :
       /\ links' = links \cup {<<call.owner, t>>}
       /\ IF <<call.owner, t>> \in links THEN call' = Returned("nil") ELSE Advance(t)
  /\ UNCHANGED <<kind, struct, field>>

\* INSERT of the pair; ErrUniqueViolation is ignored.
Attach ==
  /\ ~IsFK /\ call.pc = "append"
  /\ \E t \in call.todo : links' = links \cup {<<call.owner, t>>} /\ Advance(t)
  /\ UNCHANGED <<kind, struct, field>>

Detach ==
  /\ ~IsFK /\ call.pc = "delete"
  /\ \E t \in call.todo : links' = links \ {<<call.owner, t>>} /\ Advance(t)
  /\ UNCHANGED <<kind, struct, field>>

\* A statement fails, and the call with it.
Fail ==
  /\ call.pc # "idle"
  /\ call' = Returned("error")
  /\ UNCHANGED <<kind, links, struct, field>>

(***************************************************************************)
(* Load for parents, all of one type: one query for the rows of any of     *)
(* them, which are then given to the parents by key.                       *)
(***************************************************************************)
\* WHERE owner_id IN (...)
RowsOf(parents) == {l \in links : \E o \in parents : Belongs(l, o)}

\* perParent
Kids(parents, o) ==
  {l[2] : l \in {l \in RowsOf(parents) : o \in parents /\ l[1].id = o.id}}

ScatteredAppends(parents, o) ==     \* mutant: a second Load accumulates
  LET kids == Kids(parents, o) IN
  IF kind = "has-one" /\ kids # {} THEN {{t} : t \in kids} ELSE {field[o] \cup kids}

\* scatter: what the field of o may hold then.  A parent without rows is skipped,
\* and a has-one takes the first of its rows, which come in any order.
Scattered(parents, o) ==
  LET kids == Kids(parents, o) IN
  IF kids = {} THEN {field[o]}
  ELSE IF kind = "has-one" THEN {{t} : t \in kids} ELSE {kids}

Load(parents) ==
  /\ call.pc = "idle"
  /\ \A o, q \in parents : o.type = q.type
  /\ field' \in {f \in [Owners -> SUBSET Targets] :
                   \A o \in Owners : f[o] \in Scattered(parents, o)}
  /\ UNCHANGED <<kind, links, struct, call>>

Next ==
  \/ Start \/ Clear \/ AppendFK \/ DeleteFK \/ Attach \/ Detach \/ Fail
  \/ \E parents \in SUBSET Owners : Load(parents)

Spec == Init /\ [][Next]_vars

(***************************************************************************)
(* Properties.                                                             *)
(***************************************************************************)
\* Types; a foreign-key relation gives a target one owner at most, while targets
\* are passed between owners and calls fail halfway.
TypeOK ==
  /\ kind \in Kinds
  /\ links \in SUBSET (Owners \X Targets)
  /\ IsFK => \A t \in Targets : Cardinality({o \in Owners : t \in Of(o)}) <= 1
  /\ struct \in [Targets -> Owners \cup {None}]
  /\ field \in [Owners -> SUBSET Targets]
  /\ call \in Call \cup {Returned("nil"), Returned("error")}

Returns(op) == call.pc # "idle" /\ call.op = op /\ call' = Returned("nil")

\* What a call that returns nil promises, whatever the calls before it left behind
\* when they failed between two statements.  "The set becomes exactly targets"
\* (Replace), also of a has-one that several Appends gave several targets;
\* "Idempotent: re-attaching an existing pair is a no-op" (Attach), so Append links
\* all of its targets, those after a duplicate too; "A user's Load never sees a
\* pet's toys", nor does a second Load accumulate: the field of each parent that
\* has rows holds all of them, or one of them in a has-one, and no other, and the
\* field of a struct that was not loaded stays as it was.  (Of a parent without
\* rows nothing is said here: scatter leaves the rows of an earlier Load there.)
CallsExact ==
  /\ [][\A o \in Owners :
          Returns("replace") /\ call.owner = o => Of(o)' = call.targets]_vars
  /\ [][\A o \in Owners : Returns("append") /\ call.owner = o =>
          call.targets \subseteq Of(o)']_vars
  /\ [][\A parents \in SUBSET Owners, o \in Owners : Load(parents) =>
          /\ o \notin parents => field'[o] = field[o]
          /\ o \in parents /\ Of(o) # {} =>
               IF kind = "has-one" THEN \E t \in Of(o) : field'[o] = {t}
                                   ELSE field'[o] = Of(o)]_vars

\* "Writes for one owner type never touch another's rows", "only for rows that
\* currently belong to this owner": a target leaves its owner by a call on that
\* owner, or because it is appended to another one.
OwnerDecides ==
  [][\A l \in links \ links' :
       /\ call.pc # "idle"
       /\ \/ call.owner = l[1]
          \/ call.pc = "append" /\ l[2] \in call.targets]_vars

\* "Append writes the foreign key back into the in-memory target structs" (the
\* guide to associations), as Replace does: a later Update of such a struct keeps
\* the link.
WritesBack ==
  [][(Returns("append") \/ Returns("replace")) /\ IsFK =>
       \A t \in call.targets : struct'[t] = call.owner]_vars
=============================================================================
