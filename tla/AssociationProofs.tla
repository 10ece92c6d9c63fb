-------------------------- MODULE AssociationProofs --------------------------
(***************************************************************************)
(* Associations, for every set of owners, with any number of types and any *)
(* keys in common, every finite set of targets and every kind of relation: *)
(* no target gets a second owner, a call that returns nil has left the rows*)
(* it promises, no row leaves its owner but by a call that names it, and   *)
(* the structs follow the rows if the key can be assigned to their foreign *)
(* key.                                                                    *)
(*                                                                         *)
(* What a call has done so far is in the rows and in todo, the targets that*)
(* are left: Progress relates the two while a call runs, and Settled what  *)
(* the statements of a call may still be given.                            *)
(***************************************************************************)
EXTENDS Association, FiniteSetTheorems, TLAPS

Shapes ==
  /\ kind \in Kinds
  /\ links \in SUBSET (Owners \X Targets)
  /\ struct \in [Targets -> Owners \cup {None}]
  /\ field \in [Owners -> SUBSET Targets]
  /\ call \in Call \cup {Returned("nil"), Returned("error")}

\* A foreign key names one owner.
OneOwner == IsFK => \A a, b \in links : a[2] = b[2] => a = b

\* Which statements belong to which call, and with which targets.
Settled ==
  call.pc # "idle" =>
    /\ call.todo \subseteq call.targets
    /\ call.pc = "clear" => call.op \in {"clear", "replace"}
    /\ call.pc = "append" => call.op \in {"append", "replace"}
    /\ call.pc = "delete" => call.op = "delete"
    /\ call.op = "clear" => call.targets = {}
    /\ IsFK \/ call.pc = "clear" => call.todo = call.targets

\* The targets that are done are linked, and after the Clear of a Replace nothing
\* else is.
Progress ==
  call.pc = "append" =>
    /\ call.targets \ call.todo \subseteq Of(call.owner)
    /\ call.op = "replace" => Of(call.owner) \subseteq call.targets \ call.todo

IInv == Shapes /\ OneOwner /\ Settled /\ Progress

USE AssociationAssumption

-----------------------------------------------------------------------------
(* Sets with one element at most, and owners, which are their two columns. *)

\* Where any two elements are equal there is one at most.
LEMMA AtMostOne ==
  ASSUME NEW S, \A a, b \in S : a = b
  PROVE  Cardinality(S) <= 1
<1>1. CASE S = {}
  BY <1>1, FS_EmptySet
<1>2. CASE S # {}
  <2>1. PICK x : x \in S
    BY <1>2
  <2>2. S = {x}
    BY <2>1
  <2> QED
    BY <2>2, FS_Singleton
<1> QED
  BY <1>1, <1>2

\* The WHERE of a foreign-key relation, owner_id and owner_type, finds one owner.
LEMMA BelongsToOne ==
  ASSUME NEW l \in Owners \X Targets, NEW o \in Owners
  PROVE  Belongs(l, o) <=> l[1] = o
<1>1. l[1] \in Owners
  OBVIOUS
<1>2. l[1] = [type |-> l[1].type, id |-> l[1].id]
  BY <1>1
<1>3. o = [type |-> o.type, id |-> o.id]
  OBVIOUS
<1> QED
  BY <1>2, <1>3 DEF Belongs

\* A row of the relation is its owner and its target.
LEMMA Pair ==
  ASSUME Shapes
  PROVE  /\ \A l \in links : l = <<l[1], l[2]>> /\ l[1] \in Owners /\ l[2] \in Targets
         /\ \A o, t : t \in Of(o) <=> t \in Targets /\ <<o, t>> \in links
BY DEF Shapes, Of

\* What a call in progress is.
LEMMA InCall ==
  ASSUME Shapes, call.pc # "idle"
  PROVE  /\ call \in Call
         /\ call.owner \in Owners
         /\ call.targets \subseteq Targets
         /\ call.todo \subseteq Targets
BY DEF Shapes, Call, Returned

\* OwnerOf, the foreign key in a row, is an owner or the zero key.
LEMMA OwnerOfType == \A t \in Targets : OwnerOf(t) \in Owners \cup {None}
BY DEF OwnerOf

-----------------------------------------------------------------------------
(* The invariant, part by part.                                            *)

\* The initial states are the rows and structs of a database without calls.
LEMMA InvInit ==
  ASSUME Init
  PROVE  IInv
<1>1. Shapes
  BY OwnerOfType DEF Init, Shapes
<1>2. OneOwner
  BY DEF Init, OneOwner
<1>3. Settled /\ Progress
  BY DEF Init, Settled, Progress, Returned
<1> QED
  BY <1>1, <1>2, <1>3 DEF IInv

\* Every statement keeps rows, structs and fields within the owners and the targets.
LEMMA ShapesNext ==
  ASSUME Shapes, Settled, [Next]_vars
  PROVE  Shapes'
<1> USE InCall DEF Shapes, Returned
<1>1. CASE Start
  BY <1>1 DEF Start, Call, First, Calls
<1>2. CASE Clear
  BY <1>2 DEF Clear, Call
<1>3. CASE AppendFK
  <2>1. call.owner \in Owners /\ call.todo \subseteq Targets
    BY <1>3 DEF AppendFK
  <2> QED
    BY <1>3, <2>1 DEF AppendFK, SetTargetFK, Linked
<1>4. CASE DeleteFK
  BY <1>4 DEF DeleteFK, SetTargetFK
<1>5. CASE Attach
  BY <1>5 DEF Attach, Advance, Call
<1>6. CASE Detach
  BY <1>6 DEF Detach, Advance, Call
<1>7. CASE Fail
  BY <1>7 DEF Fail
<1>8. CASE \E parents \in SUBSET Owners : Load(parents)
  <2>1. PICK parents \in SUBSET Owners : Load(parents)
    BY <1>8
  <2> QED
    BY <2>1 DEF Load
<1>9. CASE UNCHANGED vars
  BY <1>9 DEF vars
<1> QED
  BY <1>1, <1>2, <1>3, <1>4, <1>5, <1>6, <1>7, <1>8, <1>9 DEF Next

\* Append moves a target by overwriting its foreign key; the other statements only
\* take rows away, or are of a join table.
LEMMA OneOwnerNext ==
  ASSUME Shapes, OneOwner, [Next]_vars
  PROVE  OneOwner'
<1> SUFFICES ASSUME IsFK', NEW a \in links', NEW b \in links', a[2] = b[2]
             PROVE  a = b
  BY DEF OneOwner
<1> USE DEF IsFK
<1>1. CASE links' \subseteq links /\ kind' = kind
  BY <1>1 DEF OneOwner
<1>2. CASE AppendFK
  BY <1>2 DEF AppendFK, Linked, OneOwner
<1>3. CASE Start \/ Fail \/ UNCHANGED vars \/ \E parents \in SUBSET Owners : Load(parents)
  BY <1>1, <1>3 DEF Start, Fail, Load, vars
<1>4. CASE Clear \/ DeleteFK \/ Detach
  BY <1>1, <1>4 DEF Clear, DeleteFK, Detach
<1>5. CASE Attach
  BY <1>5 DEF Attach
<1> QED
  BY <1>2, <1>3, <1>4, <1>5 DEF Next

\* Start settles the targets of a call; only the loops of a join table go through
\* them one by one.
LEMMA SettledNext ==
  ASSUME IInv, [Next]_vars
  PROVE  Settled'
<1> USE InCall DEF IInv, Settled, IsFK
<1>1. CASE Start
  BY <1>1 DEF Start, First, Calls
<1>2. CASE Clear
  BY <1>2 DEF Clear, Returned, Shapes, Call
<1>3. CASE AppendFK \/ DeleteFK \/ Fail
  BY <1>3 DEF AppendFK, DeleteFK, Fail, Returned
<1>4. CASE Attach \/ Detach
  BY <1>4 DEF Attach, Detach, Advance, Returned, Shapes, Call
<1>5. CASE UNCHANGED vars \/ \E parents \in SUBSET Owners : Load(parents)
  BY <1>5 DEF Load, vars
<1> QED
  BY <1>1, <1>2, <1>3, <1>4, <1>5 DEF Next

\* A target leaves todo when it is linked.
LEMMA ProgressNext ==
  ASSUME IInv, [Next]_vars
  PROVE  Progress'
<1> SUFFICES ASSUME (call.pc = "append")'
             PROVE  /\ (call.targets \ call.todo \subseteq Of(call.owner))'
                    /\ (call.op = "replace" =>
                          Of(call.owner) \subseteq call.targets \ call.todo)'
  BY DEF Progress
<1> USE DEF IInv
<1>1. CASE Start
  BY <1>1 DEF Start, First, Calls
<1>2. CASE Clear
  <2>1. call' = [call EXCEPT !.pc = "append"] /\ call.todo = call.targets
    BY <1>2 DEF Clear, Returned, Settled
  <2>2. call'.owner = call.owner /\ call'.targets = call.targets /\ call'.todo = call.todo
    BY <2>1
  <2>3. Of(call.owner)' = {}
    BY <1>2, <2>2, Pair, InCall, BelongsToOne DEF Clear, Of, Shapes
  <2> QED
    BY <2>1, <2>2, <2>3 DEF Of
<1>3. CASE AppendFK \/ DeleteFK \/ Fail
  BY <1>3 DEF AppendFK, DeleteFK, Fail, Returned
<1>4. CASE Attach
  <2>1. PICK t \in call.todo : links' = links \cup {<<call.owner, t>>} /\ Advance(t)
    BY <1>4 DEF Attach
  <2>2. call' = [call EXCEPT !.todo = @ \ {t}]
    BY <2>1 DEF Advance, Returned
  <2>3. call'.owner = call.owner /\ call'.targets = call.targets
        /\ call'.todo = call.todo \ {t} /\ call'.op = call.op
    BY <1>4, <2>2, InCall DEF Attach, Call
  <2>4. Of(call.owner)' = Of(call.owner) \cup {t}
    BY <1>4, <2>1, <2>3, InCall DEF Of, Attach
  <2>5. t \in call.targets
    BY <1>4, <2>1 DEF Settled, Attach
  <2> QED
    BY <1>4, <2>3, <2>4, <2>5 DEF Progress, Attach
<1>5. CASE Detach
  BY <1>5, InCall DEF Detach, Advance, Returned, Call
<1>6. CASE UNCHANGED vars \/ \E parents \in SUBSET Owners : Load(parents)
  BY <1>6 DEF Load, vars, Progress, Of
<1> QED
  BY <1>1, <1>2, <1>3, <1>4, <1>5, <1>6 DEF Next

\* The invariant is inductive.
LEMMA InvNext ==
  ASSUME IInv, [Next]_vars
  PROVE  IInv'
BY ShapesNext, OneOwnerNext, SettledNext, ProgressNext DEF IInv

\* So it holds of every reachable state.
LEMMA InvAlways == Spec => []IInv
<1>1. Init => IInv
  BY InvInit
<1>2. IInv /\ [Next]_vars => IInv'
  BY InvNext
<1> QED
  BY <1>1, <1>2, PTL DEF Spec

\* What TLC counts follows from rows that are equal.
LEMMA InvTypes == IInv => TypeOK
<1> SUFFICES ASSUME IInv PROVE TypeOK
  OBVIOUS
<1>1. IsFK => \A t \in Targets : Cardinality({o \in Owners : t \in Of(o)}) <= 1
  <2> SUFFICES ASSUME IsFK, NEW t \in Targets
               PROVE  Cardinality({o \in Owners : t \in Of(o)}) <= 1
    OBVIOUS
  <2> DEFINE S == {o \in Owners : t \in Of(o)}
  <2>1. \A a, b \in S : a = b
    BY DEF IInv, OneOwner, Of
  <2> HIDE DEF S
  <2> QED
    BY <2>1, AtMostOne DEF S
<1> QED
  BY <1>1 DEF IInv, Shapes, TypeOK

\* Types, and a foreign key gives a target one owner at most, whatever is passed
\* between owners and wherever calls fail.
THEOREM Types == Spec => []TypeOK
BY InvAlways, InvTypes, PTL

-----------------------------------------------------------------------------
(* What a call promises, and whose rows it may touch.                      *)

\* The actions of a call in progress all end it, go on with it, or leave the rows.
LEMMA WhoReturns ==
  ASSUME Next, call.pc # "idle", call' = Returned("nil")
  PROVE  Clear \/ AppendFK \/ DeleteFK \/ Attach \/ Detach
BY DEF Next, Start, Fail, Load, Returned

\* A loop of Attach or Detach returns with its last target.
LEMMA LastOne ==
  ASSUME Shapes, call.pc # "idle", NEW t \in call.todo, Advance(t), call' = Returned("nil")
  PROVE  call.todo = {t}
BY InCall DEF Advance, Returned, Call

\* A Replace or an Append that returns nil has linked its targets, and a Replace
\* nothing else.
LEMMA Linking ==
  ASSUME IInv, Next, call.pc # "idle", call' = Returned("nil"),
         call.op \in {"replace", "append"},
         NEW o \in Owners, o = call.owner
  PROVE  /\ call.targets \subseteq Of(o)'
         /\ call.op = "replace" => Of(o)' = call.targets
<1> USE DEF IInv
<1>1. CASE Clear
  <2>1. call.todo = {} /\ call.op = "replace" /\ call.targets = {}
    BY <1>1 DEF Clear, Returned, Settled
  <2>2. \A t \in Targets : <<o, t>> \notin links'
    BY <1>1, BelongsToOne DEF Clear, Shapes
  <2> QED
    BY <2>1, <2>2 DEF Of
<1>2. CASE AppendFK
  <2>1. call.todo = call.targets /\ call.targets \subseteq Targets
    BY <1>2, InCall DEF AppendFK, Settled
  <2>2. call.op = "replace" => Of(o) = {}
    BY <1>2, <2>1 DEF AppendFK, Progress
  <2>3. Of(o)' = Of(o) \cup call.targets
    BY <1>2, <2>1, InCall DEF AppendFK, Of, Linked
  <2> QED
    BY <2>2, <2>3
<1>3. CASE Attach
  <2>1. PICK t \in call.todo : links' = links \cup {<<call.owner, t>>} /\ Advance(t)
    BY <1>3 DEF Attach
  <2>2. call.todo = {t} /\ t \in Targets
    BY <2>1, LastOne, InCall
  <2>3. Of(o)' = Of(o) \cup {t}
    BY <2>1, <2>2 DEF Of
  <2>4. t \in call.targets
    BY <2>1 DEF Settled
  <2> QED
    <3>1. /\ call.targets \ call.todo \subseteq Of(o)
          /\ call.op = "replace" => Of(o) \subseteq call.targets \ call.todo
      BY <1>3 DEF Attach, Progress
    <3> QED
      BY <2>2, <2>3, <2>4, <3>1
<1>4. CASE DeleteFK \/ Detach
  BY <1>4 DEF DeleteFK, Detach, Settled
<1> QED
  BY <1>1, <1>2, <1>3, <1>4, WhoReturns

\* A Load gives each parent that has rows all of them, or one of them in a has-one,
\* and no other, although it asks for the rows of all parents at once and hands
\* them out by key.
LEMMA Loading ==
  ASSUME IInv, NEW parents \in SUBSET Owners, NEW o \in Owners, Load(parents)
  PROVE  /\ o \notin parents => field'[o] = field[o]
         /\ o \in parents /\ Of(o) # {} =>
              IF kind = "has-one" THEN \E t \in Of(o) : field'[o] = {t}
                                  ELSE field'[o] = Of(o)
<1>1. Kids(parents, o) = IF o \in parents THEN Of(o) ELSE {}
  <2>1. ASSUME o \in parents, NEW l \in RowsOf(parents), l[1].id = o.id
        PROVE  l[1] = o
    <3>1. PICK q \in parents : Belongs(l, q)
      BY <2>1 DEF RowsOf
    <3>2. l \in links /\ q.type = o.type
      BY <2>1 DEF RowsOf, Load
    <3>3. Belongs(l, o)
      BY <2>1, <3>1, <3>2 DEF Belongs
    <3> QED
      BY <3>2, <3>3, BelongsToOne DEF IInv, Shapes
  <2>2. ASSUME o \in parents, NEW l \in links, l[1] = o
        PROVE  l \in RowsOf(parents)
    BY <2>2 DEF RowsOf, Belongs
  <2>3. \A l \in RowsOf(parents) : l \in links /\ l[2] \in Of(l[1])
    BY Pair DEF RowsOf, IInv
  <2>4. \A t \in Of(o) : <<o, t>> \in links
    BY DEF Of
  <2>5. CASE o \in parents
    <3>1. Kids(parents, o) \subseteq Of(o)
      BY <2>1, <2>3, <2>5 DEF Kids
    <3>2. ASSUME NEW t \in Of(o) PROVE t \in Kids(parents, o)
      <4>1. <<o, t>> \in RowsOf(parents)
        BY <2>2, <2>4, <2>5
      <4> QED
        BY <2>5, <4>1 DEF Kids
    <3> QED
      BY <2>5, <3>1, <3>2
  <2>6. CASE o \notin parents
    BY <2>6 DEF Kids
  <2> QED
    BY <2>5, <2>6
<1>2. field'[o] \in Scattered(parents, o)
  BY DEF Load
<1> QED
  BY <1>1, <1>2 DEF Scattered

\* Replace leaves exactly its targets, Append and Attach all of theirs, and Load
\* gives a parent that has rows those and no others, whatever the calls before left
\* behind.
THEOREM CallsAreExact == Spec => CallsExact
<1>1. IInv /\ [Next]_vars =>
        [\A o \in Owners : Returns("replace") /\ call.owner = o =>
           Of(o)' = call.targets]_vars
  BY Linking DEF Returns
<1>2. IInv /\ [Next]_vars =>
        [\A o \in Owners : Returns("append") /\ call.owner = o =>
           call.targets \subseteq Of(o)']_vars
  BY Linking DEF Returns
<1>3. IInv /\ [Next]_vars =>
        [\A parents \in SUBSET Owners, o \in Owners : Load(parents) =>
           /\ o \notin parents => field'[o] = field[o]
           /\ o \in parents /\ Of(o) # {} =>
                IF kind = "has-one" THEN \E t \in Of(o) : field'[o] = {t}
                                    ELSE field'[o] = Of(o)]_vars
  BY Loading
<1> QED
  BY <1>1, <1>2, <1>3, InvAlways, PTL DEF Spec, CallsExact

\* A row leaves its owner by a call on that owner, or because its target is
\* appended to another one: never by a call on an owner that shares only the key.
THEOREM OwnersDecide == Spec => OwnerDecides
<1>1. ASSUME IInv, Next, NEW l \in links \ links'
      PROVE  /\ call.pc # "idle"
             /\ \/ call.owner = l[1]
                \/ call.pc = "append" /\ l[2] \in call.targets
  <2> USE <1>1 DEF IInv
  <2>1. l \in Owners \X Targets
    BY DEF Shapes
  <2>2. call.pc # "idle" => (Belongs(l, call.owner) <=> l[1] = call.owner)
    BY <2>1, InCall, BelongsToOne
  <2>3. CASE AppendFK
    BY <2>3 DEF AppendFK, Settled
  <2>4. CASE Clear \/ DeleteFK
    BY <2>2, <2>4 DEF Clear, DeleteFK
  <2>5. CASE Attach \/ Detach
    <3>1. PICK t : l = <<call.owner, t>> /\ call.pc # "idle"
      BY <2>5 DEF Attach, Detach
    <3> QED
      BY <3>1
  <2>6. CASE Start \/ Fail \/ \E parents \in SUBSET Owners : Load(parents)
    BY <2>6 DEF Start, Fail, Load
  <2> QED
    BY <2>3, <2>4, <2>5, <2>6 DEF Next
<1>2. IInv /\ [Next]_vars =>
        [\A l \in links \ links' :
           /\ call.pc # "idle"
           /\ \/ call.owner = l[1]
              \/ call.pc = "append" /\ l[2] \in call.targets]_vars
  BY <1>1
<1> QED
  BY <1>2, InvAlways, PTL DEF Spec, OwnerDecides

\* Where the key is assignable to the foreign-key field, Append and Replace leave
\* the owner in the struct of every target.
THEOREM StructsFollow == Assignable => (Spec => WritesBack)
<1> SUFFICES ASSUME Assignable PROVE Spec => WritesBack
  OBVIOUS
<1>1. ASSUME IInv, Next, Returns("append") \/ Returns("replace"), IsFK,
             NEW t \in call.targets
      PROVE  struct'[t] = call.owner
  <2> USE <1>1 DEF IInv, Returns
  <2>1. CASE Clear
    BY <2>1 DEF Clear, Returned, Settled
  <2>2. CASE AppendFK
    <3>1. t \in call.todo /\ t \in Targets
      BY <2>2, InCall DEF AppendFK, Settled
    <3> QED
      BY <2>2, <3>1 DEF AppendFK, SetTargetFK
  <2>3. CASE DeleteFK \/ Attach \/ Detach
    BY <2>3 DEF DeleteFK, Attach, Detach, Settled
  <2> QED
    BY <2>1, <2>2, <2>3, WhoReturns
<1>2. IInv /\ [Next]_vars =>
        [(Returns("append") \/ Returns("replace")) /\ IsFK =>
           \A t \in call.targets : struct'[t] = call.owner]_vars
  BY <1>1
<1> QED
  BY <1>2, InvAlways, PTL DEF Spec, WritesBack
=============================================================================
