------------------------- MODULE TransactionProofs -------------------------
(***************************************************************************)
(* Transactions.  Handles used from the inside out nest on every engine,   *)
(* for any number of handles and writes.  TransactionRetry, which runs fn  *)
(* in such a transaction, applies it at most once, tells what happened and *)
(* keeps no connection, for every RetryPolicy.                             *)
(***************************************************************************)
EXTENDS Savepoints, TxRetry, SequenceTheorems, WellFoundedInduction, FiniteSetTheorems, TLAPS

(***************************************************************************)
(* Handles and savepoints.                                                 *)
(***************************************************************************)
\* A handle is the root of its transaction exactly at depth 0, and its name is
\* what SpName gave it.
Shapes ==
  \A h \in Ids :
    /\ IsRoot(h) <=> handles[h].tx = h
    /\ ~IsRoot(h) => handles[h].name = IF Native THEN h ELSE handles[h].depth

\* The transaction in progress has its root open, and undoing that one gives
\* the durable marks back.
RootOpen ==
  current # 0 => current \in OpenNow /\ handles[current].began = store

\* What was opened after a level that is still open lies deeper ...
Nesting ==
  \A g \in OpenNow : \A h \in Ids :
    g < h /\ handles[h].tx = current => handles[g].depth < handles[h].depth

\* ... and no depth is left out.
NoGaps ==
  \A h \in OpenNow : \A d \in 0 .. handles[h].depth :
    \E g \in OpenNow : handles[g].depth = d

\* Savepoint i is the one an open handle h will go back to: nothing after it
\* has the same name, nor the name of a handle further out.
IsOf(i, h) ==
  /\ savepoints[i].name = handles[h].name
  /\ savepoints[i].saved = handles[h].began
  /\ \A j \in DOMAIN savepoints : i < j => handles[h].name < savepoints[j].name

Restorable ==
  \A h \in OpenNow : ~IsRoot(h) => \E i \in DOMAIN savepoints : IsOf(i, h)

\* Where a savepoint is released its name is gone, so names grow and none of
\* them is newer than the last handle.
NamesGrow ==
  dialect # "mssql" =>
    \A i, j \in DOMAIN savepoints :
      i < j => savepoints[i].name < savepoints[j].name

NamesAreOld ==
  Native => \A i \in DOMAIN savepoints : savepoints[i].name <= Len(handles)

\* sqladapter leaves no savepoint behind on SQLite and MySQL.
NoneLeft ==
  dialect \in {"sqlite", "mysql"} =>
    \A i \in DOMAIN savepoints :
      \E h \in OpenNow : ~IsRoot(h) /\ savepoints[i].name = handles[h].name

IInv ==
  /\ TypeOK
  /\ Shapes
  /\ RootOpen
  /\ Nesting
  /\ NoGaps
  /\ Restorable
  /\ NamesGrow
  /\ NamesAreOld
  /\ NoneLeft

(***************************************************************************)
(* Types.                                                                  *)
(***************************************************************************)
LEMMA Largest ==
  ASSUME NEW n \in Nat, NEW T \in SUBSET (1 .. n), T # {}
  PROVE  \E m \in T : \A k \in T : k <= m
<1> DEFINE Room == {n - k : k \in T}
<1>1. Room \subseteq Nat /\ Room # {}
  <2>1. \A k \in T : n - k \in Nat
    OBVIOUS
  <2> QED  BY <2>1
<1>2. PICK r \in Room : \A q \in Room : ~(<<q, r>> \in OpToRel(<, Nat))
  <2> HIDE DEF Room
  <2> QED  BY <1>1, NatLessThanWellFounded, WFMin, Zenon
<1>3. PICK m \in T : r = n - m
  OBVIOUS
<1>4. ASSUME NEW k \in T PROVE k <= m
  <2>1. n - k \in Room /\ n - k \in Nat /\ r \in Nat
    OBVIOUS
  <2>2. ~(n - k < r)
    BY <2>1, <1>2 DEF OpToRel
  <2> QED  BY <2>2, <1>3
<1> QED  BY <1>4

\* Latest finds the latest savepoint of a name the engine knows.
LEMMA LatestIsNamed ==
  ASSUME TypeOK, NEW name, Named(name) # {}
  PROVE  /\ Latest(name) \in Named(name)
         /\ \A j \in Named(name) : j <= Latest(name)
<1>1. Len(savepoints) \in Nat /\ Named(name) \subseteq 1 .. Len(savepoints)
  BY DEF TypeOK, Named
<1>2. \E i \in Named(name) : \A j \in Named(name) : j <= i
  BY <1>1, Largest
<1> QED  BY <1>2 DEF Latest

\* A handle that is added is of its type, and the others stay.
LEMMA NewTyped ==
  ASSUME TypeOK, NEW tx \in 1 .. Len(handles) + 1, NEW depth \in Nat, NEW name \in Nat
  PROVE  LET hs == New(tx, depth, name)
         IN /\ hs \in Seq(Handle)
            /\ Len(hs) = Len(handles) + 1
            /\ \A h \in Ids : hs[h] = handles[h]
            /\ hs[Len(handles) + 1] = [tx |-> tx, depth |-> depth, name |-> name,
                                      began |-> work, status |-> "open"]
            /\ \A h \in 1 .. Len(handles) + 1 : hs[h].tx \in 1 .. h
<1> DEFINE e == [tx |-> tx, depth |-> depth, name |-> name, began |-> work,
                 status |-> "open"]
           hs == New(tx, depth, name)
<1>1. e \in Handle /\ handles \in Seq(Handle)
  <2>1. tx \in Nat /\ work \in SUBSET Marks
    BY DEF TypeOK
  <2> QED  BY <2>1 DEF TypeOK, Handle
<1>2. /\ hs \in Seq(Handle)
      /\ Len(hs) = Len(handles) + 1
      /\ \A h \in 1 .. Len(handles) : hs[h] = handles[h]
      /\ hs[Len(handles) + 1] = e
  <2> HIDE DEF e
  <2> QED  BY <1>1, AppendProperties DEF New, e
<1>3. \A h \in 1 .. Len(handles) + 1 : hs[h].tx \in 1 .. h
  <2> HIDE DEF hs
  <2> QED  BY <1>1, <1>2 DEF TypeOK, Ids
<1> HIDE DEF hs
<1> QED  BY <1>1, <1>2, <1>3 DEF Ids, hs

\* Set changes the status of one open handle.
LEMMA SetTyped ==
  ASSUME TypeOK, NEW h \in Ids, NEW s \in {"committed", "rolledback", "failed", "void"},
         Set(h, s)
  PROVE  /\ handles' \in Seq(Handle)
         /\ Len(handles') = Len(handles)
         /\ Ids' = Ids
         /\ \A g \in Ids :
              /\ handles'[g].tx = handles[g].tx
              /\ handles'[g].depth = handles[g].depth
              /\ handles'[g].name = handles[g].name
              /\ handles'[g].began = handles[g].began
              /\ handles'[g].status =
                   IF g = h /\ handles[g].status = "open" THEN s ELSE handles[g].status
<1> DEFINE e == [handles[h] EXCEPT !.status = IF @ = "open" THEN s ELSE @]
<1>1. /\ handles \in Seq(Handle) /\ Ids = 1 .. Len(handles)
      /\ h \in 1 .. Len(handles) /\ handles[h] \in Handle
      /\ \A g \in Ids : handles[g] \in Handle
  <2>1. handles \in Seq(Handle)
    BY DEF TypeOK
  <2>2. Ids = 1 .. Len(handles)
    BY <2>1, LenProperties DEF Ids
  <2> QED  BY <2>1, <2>2, ElementOfSeq
<1>2. e \in Handle
  BY <1>1 DEF Handle
<1>3. handles' = [handles EXCEPT ![h] = e]
  BY DEF Set
<1>4. /\ handles' \in Seq(Handle)
      /\ Len(handles') = Len(handles)
      /\ \A j \in 1 .. Len(handles) : handles'[j] = IF j = h THEN e ELSE handles[j]
  <2> HIDE DEF e
  <2>1. [handles EXCEPT ![h] = e] \in Seq(Handle)
    BY <1>1, <1>2, ExceptSeq
  <2>2. Len([handles EXCEPT ![h] = e]) = Len(handles)
    BY <1>1, <1>2, ExceptSeq
  <2>3. \A j \in 1 .. Len(handles) :
          [handles EXCEPT ![h] = e][j] = IF j = h THEN e ELSE handles[j]
    BY <1>1, LenProperties
  <2> QED  BY <1>3, <2>1, <2>2, <2>3, Zenon
<1>5. Ids' = Ids
  BY <1>1, <1>4, LenProperties DEF Ids
<1>6. ASSUME NEW g \in Ids
      PROVE  /\ handles'[g].tx = handles[g].tx
             /\ handles'[g].depth = handles[g].depth
             /\ handles'[g].name = handles[g].name
             /\ handles'[g].began = handles[g].began
             /\ handles'[g].status =
                  IF g = h /\ handles[g].status = "open" THEN s ELSE handles[g].status
  <2>1. handles'[g] = IF g = h THEN e ELSE handles[g]
    BY <1>1, <1>4
  <2>2. CASE g # h
    BY <2>1, <2>2
  <2>3. CASE g = h
    <3>1. handles[h] \in Handle
      BY <1>1
    <3>2. handles'[g] = e
      BY <2>1, <2>3
    <3> QED  BY <3>1, <3>2, <2>3 DEF Handle
  <2> QED  BY <2>2, <2>3
<1> QED  BY <1>4, <1>5, <1>6

\* What the engine knows after a statement about a savepoint is well formed.
LEMMA EngineTyped ==
  ASSUME TypeOK
  PROVE  /\ \A name \in Nat : Save(name) => savepoints' \in Seq(Savepoint)
         /\ \A name : Named(name) # {} =>
              /\ Latest(name) \in 1 .. Len(savepoints)
              /\ Release(name) \/ Keep(name) => savepoints' \in Seq(Savepoint)
              /\ Restore(name) => work' \in SUBSET Marks
<1>1. /\ savepoints \in Seq(Savepoint) /\ work \in SUBSET Marks
      /\ Len(savepoints) \in Nat /\ DOMAIN savepoints = 1 .. Len(savepoints)
      /\ \A i \in 1 .. Len(savepoints) : savepoints[i] \in Savepoint
  BY LenProperties, ElementOfSeq DEF TypeOK
<1>2. ASSUME NEW a \in Int, NEW b \in Int, 1 <= a, b <= Len(savepoints)
      PROVE  SubSeq(savepoints, a, b) \in Seq(Savepoint)
  <2>1. \A i \in a .. b : savepoints[i] \in Savepoint
    BY <1>1, <1>2
  <2> QED  BY <2>1, SubSeqProperties
<1>3. ASSUME NEW name, Named(name) # {}
      PROVE  Latest(name) \in 1 .. Len(savepoints)
  BY <1>1, <1>3, LatestIsNamed DEF Named
<1>4. ASSUME NEW name, Named(name) # {}
      PROVE  /\ Release(name) \/ Keep(name) => savepoints' \in Seq(Savepoint)
             /\ Restore(name) => work' \in SUBSET Marks
  <2>1. Release(name) \/ Keep(name) => savepoints' \in Seq(Savepoint)
    <3>1. /\ SubSeq(savepoints, 1, Latest(name) - 1) \in Seq(Savepoint)
          /\ SubSeq(savepoints, 1, Latest(name)) \in Seq(Savepoint)
      BY <1>1, <1>2, <1>3, <1>4
    <3> QED  BY <3>1 DEF Release, Keep
  <2>2. Restore(name) => work' \in SUBSET Marks
    BY <1>1, <1>3, <1>4 DEF Restore, Savepoint
  <2> QED  BY <2>1, <2>2
<1>5. ASSUME NEW name \in Nat, Save(name)
      PROVE  savepoints' \in Seq(Savepoint)
  <2>1. [name |-> name, saved |-> work] \in Savepoint
    BY <1>1 DEF Savepoint
  <2>2. Named(name) # {} => Without(Latest(name)) \in Seq(Savepoint)
    <3> SUFFICES ASSUME Named(name) # {} PROVE Without(Latest(name)) \in Seq(Savepoint)
      OBVIOUS
    <3>1. /\ SubSeq(savepoints, 1, Latest(name) - 1) \in Seq(Savepoint)
          /\ SubSeq(savepoints, Latest(name) + 1, Len(savepoints)) \in Seq(Savepoint)
      BY <1>1, <1>2, <1>3
    <3> QED  BY <3>1, ConcatProperties DEF Without
  <2>3. \A kept \in Seq(Savepoint) :
          Append(kept, [name |-> name, saved |-> work]) \in Seq(Savepoint)
    BY <2>1, AppendProperties
  <2> QED  BY <1>1, <1>5, <2>2, <2>3 DEF Save
<1> QED  BY <1>3, <1>4, <1>5

\* How a call can end a handle.
Finish(h) == CommitTx(h) \/ RollbackTx(h) \/ SpCommit(h) \/ SpRollback(h)

\* What a step is.
LEMMA NextCases ==
  ASSUME Next
  PROVE  BeginTx \/ Lost \/ \E h \in Ids : Begin(h) \/ Exec(h) \/ Finish(h)
BY DEF Next, Commit, Rollback, LateRollback, Finish

\* TypeOK is an invariant: the states of the handles, of the engine and of the
\* connection stay within their types on every engine, whatever DeferOn is.
THEOREM Types == Spec => []TypeOK
<1>1. Init => TypeOK
  BY EmptySeq, SavepointsAssumption DEF Init, TypeOK, Ids
<1>2. TypeOK /\ [Next]_vars => TypeOK'
  <2> SUFFICES ASSUME TypeOK, [Next]_vars PROVE TypeOK'
    OBVIOUS
  <2>0. /\ handles \in Seq(Handle) /\ Len(handles) \in Nat
        /\ Ids = 1 .. Len(handles)
        /\ \A h \in Ids : handles[h] \in Handle
    BY LenProperties, ElementOfSeq DEF TypeOK, Ids
  <2>0a. \A c \in {0, current} : c \in 0 .. Len(handles)
    <3>1. current \in 0 .. Len(handles)
      BY DEF TypeOK
    <3> QED  BY <2>0, <3>1
  <2>1. CASE UNCHANGED vars
    BY <2>1 DEF vars, TypeOK, Ids
  <2>2. CASE BeginTx
    <3>1. /\ handles' = New(Len(handles) + 1, 0, 0)
          /\ Len(handles) + 1 \in 1 .. Len(handles) + 1 /\ 0 \in Nat
      BY <2>0, <2>2 DEF BeginTx
    <3>2. /\ handles' \in Seq(Handle)
          /\ Len(handles') = Len(handles) + 1
          /\ \A h \in 1 .. Len(handles) + 1 : handles'[h].tx \in 1 .. h
      BY <2>0, <3>1, NewTyped
    <3>3. Ids' = 1 .. Len(handles) + 1
      BY <3>2, LenProperties DEF Ids
    <3> QED  BY <2>0, <2>2, <3>2, <3>3 DEF BeginTx, TypeOK
  <2>3. CASE Lost
    BY <2>0, <2>3, EmptySeq DEF Lost, EndTx, TypeOK, Ids
  <2>4. ASSUME NEW h \in Ids, Begin(h) PROVE TypeOK'
    <3>1. /\ handles' = New(handles[h].tx, handles[h].depth + 1, SpName(h))
          /\ Save(SpName(h)) /\ current # 0
          /\ UNCHANGED <<dialect, current, store, work>>
      BY <2>4 DEF Begin, BeginSavepoint, InProgress
    <3>2. /\ handles[h].tx \in 1 .. Len(handles) + 1
          /\ handles[h].depth + 1 \in Nat /\ SpName(h) \in Nat
      <4>1. handles[h] \in Handle /\ handles[h].tx \in 1 .. h
        BY <2>0 DEF TypeOK
      <4>2. handles[h].tx \in 1 .. Len(handles) + 1
        BY <2>0, <4>1
      <4>3. handles[h].depth + 1 \in Nat
        <5>1. handles[h].depth \in Nat
          BY <4>1 DEF Handle
        <5> QED  BY <5>1
      <4> QED  BY <2>0, <4>2, <4>3 DEF SpName
    <3>3. /\ handles' \in Seq(Handle)
          /\ Len(handles') = Len(handles) + 1
          /\ \A g \in 1 .. Len(handles) + 1 : handles'[g].tx \in 1 .. g
      BY <3>1, <3>2, NewTyped
    <3>4. Ids' = 1 .. Len(handles) + 1
      BY <3>3, LenProperties DEF Ids
    <3>5. savepoints' \in Seq(Savepoint)
      BY <3>1, <3>2, EngineTyped
    <3> QED  BY <2>0, <3>1, <3>3, <3>4, <3>5 DEF TypeOK
  <2>5. ASSUME NEW h \in Ids, Exec(h) PROVE TypeOK'
    BY <2>0, <2>5 DEF Exec, Write, InProgress, TypeOK, Ids
  <2>6. ASSUME NEW h \in Ids, Finish(h) PROVE TypeOK'
    <3>1. PICK s \in {"committed", "rolledback", "failed", "void"} : Set(h, s)
      BY <2>6 DEF Finish, CommitTx, RollbackTx, SpCommit, SpRollback, Refused
    <3>2. /\ handles' \in Seq(Handle)
          /\ Len(handles') = Len(handles)
          /\ Ids' = Ids
          /\ \A g \in Ids : handles'[g].tx = handles[g].tx
      BY <3>1, SetTyped
    <3>3. /\ current' \in {0, current}
          /\ store' \in SUBSET Marks
          /\ work' \in SUBSET Marks
          /\ savepoints' \in Seq(Savepoint)
          /\ current' = 0 => savepoints' = <<>> /\ work' = store'
          /\ dialect' = dialect
      <4>1. CASE EndTx(work) /\ UNCHANGED dialect
        BY <4>1, EmptySeq DEF EndTx, TypeOK
      <4>2. CASE EndTx(store) /\ UNCHANGED dialect
        BY <4>2, EmptySeq DEF EndTx, TypeOK
      <4>3. CASE UNCHANGED <<dialect, current, store, work, savepoints>>
        BY <4>3 DEF TypeOK
      <4>4. CASE /\ Reaches(h) /\ ReleaseSavepoint(h)
                 /\ UNCHANGED <<dialect, current, store, work>>
        <5>1. current # 0 /\ Named(handles[h].name) # {}
          BY <4>4 DEF Reaches, InProgress
        <5>2. savepoints' \in Seq(Savepoint)
          BY <4>4, <5>1, EngineTyped DEF ReleaseSavepoint, TypeOK
        <5> QED  BY <4>4, <5>1, <5>2 DEF TypeOK
      <4>5. CASE /\ Reaches(h) /\ Restore(handles[h].name)
                 /\ Release(handles[h].name) \/ Keep(handles[h].name)
                 /\ UNCHANGED <<dialect, current, store>>
        <5>1. current # 0 /\ Named(handles[h].name) # {}
          BY <4>5 DEF Reaches, InProgress
        <5>2. savepoints' \in Seq(Savepoint) /\ work' \in SUBSET Marks
          BY <4>5, <5>1, EngineTyped
        <5> QED  BY <4>5, <5>1, <5>2 DEF TypeOK
      <4> QED  BY <2>6, <4>1, <4>2, <4>3, <4>4, <4>5
               DEF Finish, CommitTx, RollbackTx, SpCommit, SpRollback, Refused
    <3>4. \A g \in Ids : handles[g].tx \in 1 .. g
      BY DEF TypeOK
    <3>5. (\A g \in Ids : handles[g].tx \in 1 .. g)'
      BY <3>2, <3>4
    <3>6. current' \in 0 .. Len(handles')
      BY <2>0a, <3>2, <3>3, Zenon
    <3>7. dialect' \in Dialects
      BY <3>3 DEF TypeOK
    <3> QED  BY <3>2, <3>3, <3>5, <3>6, <3>7 DEF TypeOK
  <2> QED  BY <2>1, <2>2, <2>3, <2>4, <2>5, <2>6, NextCases
<1> QED  BY <1>1, <1>2, PTL DEF Spec

(***************************************************************************)
(* The inductive invariant.                                                *)
(***************************************************************************)
\* What a step leaves of every handle, its status apart.
Same ==
  /\ Ids' = Ids
  /\ \A g \in Ids : /\ handles'[g].tx = handles[g].tx
                    /\ handles'[g].depth = handles[g].depth
                    /\ handles'[g].name = handles[g].name
                    /\ handles'[g].began = handles[g].began

\* The handle whose turn it is lies deeper than every other open one.
LEMMA Innermost ==
  ASSUME IInv, NEW h \in Ids, LastOpen(h), InProgress(h)
  PROVE  \A g \in OpenNow \ {h} : g < h /\ handles[g].depth < handles[h].depth
<1> SUFFICES ASSUME NEW g \in OpenNow \ {h}
             PROVE  g < h /\ handles[g].depth < handles[h].depth
  OBVIOUS
<1>1. g \in Ids /\ handles[g].tx = current /\ handles[g].status = "open"
  BY DEF OpenNow, InProgress
<1>2. ~(g > h)
  BY <1>1 DEF LastOpen, InProgress
<1>3. Ids = 1 .. Len(handles) /\ Len(handles) \in Nat
  BY LenProperties DEF IInv, TypeOK, Ids
<1>4. g < h
  BY <1>1, <1>2, <1>3
<1>5. handles[h].tx = current
  BY DEF InProgress
<1> QED  BY <1>4, <1>5 DEF IInv, Nesting

\* The statement of an open handle reaches the savepoint the handle is about.
LEMMA Reached ==
  ASSUME IInv, NEW h \in OpenNow, ~IsRoot(h)
  PROVE  /\ Reaches(h)
         /\ Latest(handles[h].name) \in DOMAIN savepoints
         /\ IsOf(Latest(handles[h].name), h)
<1>1. PICK i \in DOMAIN savepoints : IsOf(i, h)
  BY DEF IInv, Restorable
<1>2. DOMAIN savepoints = 1 .. Len(savepoints) /\ Len(savepoints) \in Nat
      /\ \A j \in DOMAIN savepoints : savepoints[j].name \in Nat
  <2>1. savepoints \in Seq(Savepoint)
    BY DEF IInv, TypeOK
  <2>2. \A j \in 1 .. Len(savepoints) : savepoints[j] \in Savepoint
    BY <2>1, ElementOfSeq
  <2> QED  BY <2>1, <2>2, LenProperties DEF Savepoint
<1>3. i \in Named(handles[h].name)
  BY <1>1 DEF Named, IsOf
<1>4. \A j \in Named(handles[h].name) : ~(i < j)
  BY <1>1, <1>2 DEF Named, IsOf
<1>5. /\ Latest(handles[h].name) \in Named(handles[h].name)
      /\ i <= Latest(handles[h].name)
  BY <1>3, LatestIsNamed DEF IInv
<1>6. Latest(handles[h].name) = i
  BY <1>1, <1>2, <1>4, <1>5 DEF Named
<1>7. Reaches(h)
  BY <1>3 DEF Reaches, OpenNow
<1> QED  BY <1>1, <1>6, <1>7

\* A step that opens and closes no level keeps the invariant.
LEMMA Quiet ==
  ASSUME IInv, TypeOK', Same, OpenNow' = OpenNow,
         UNCHANGED <<dialect, current, store, savepoints>>
  PROVE  IInv'
<1>1. OpenNow \subseteq Ids /\ (current # 0 => current \in Ids)
  BY DEF OpenNow, IInv, RootOpen
<1>2. Len(handles') = Len(handles)
  <2>1. Len(handles) \in Nat /\ Len(handles') \in Nat
        /\ Ids = 1 .. Len(handles) /\ Ids' = 1 .. Len(handles')
    BY LenProperties DEF IInv, TypeOK, Ids
  <2> QED  BY <2>1 DEF Same
<1>3. Shapes'
  BY DEF Same, IInv, Shapes, IsRoot, Native
<1>4. RootOpen'
  BY <1>1 DEF Same, IInv, RootOpen
<1>5. Nesting' /\ NoGaps'
  BY <1>1 DEF Same, IInv, Nesting, NoGaps
<1>6. Restorable'
  BY <1>1 DEF Same, IInv, Restorable, IsRoot, IsOf
<1>7. NamesGrow' /\ NamesAreOld' /\ NoneLeft'
  BY <1>1, <1>2 DEF Same, IInv, NamesGrow, NamesAreOld, NoneLeft, IsRoot, Native
<1> QED  BY <1>3, <1>4, <1>5, <1>6, <1>7 DEF IInv

\* So does the end of the transaction.
LEMMA Over ==
  ASSUME IInv, TypeOK', Same, current' = 0, savepoints' = <<>>, dialect' = dialect
  PROVE  IInv'
<1>1. OpenNow' = {} /\ DOMAIN savepoints' = {}
  BY DEF OpenNow, InProgress
<1>2. Shapes'
  BY DEF Same, IInv, Shapes, IsRoot, Native
<1> QED  BY <1>1, <1>2 DEF IInv, RootOpen, Nesting, NoGaps, Restorable, NamesGrow,
                           NamesAreOld, NoneLeft

\* The innermost level ends: the savepoints up to its own stay, or at least
\* those of the levels around it.
LEMMA Closed ==
  ASSUME IInv, TypeOK', Same, NEW h \in OpenNow, ~IsRoot(h), LastOpen(h),
         OpenNow' = OpenNow \ {h}, UNCHANGED <<dialect, current, store>>,
         NEW k \in Latest(handles[h].name) - 1 .. Len(savepoints),
         dialect \in {"sqlite", "mysql"} => k = Latest(handles[h].name) - 1,
         savepoints' = SubSeq(savepoints, 1, k)
  PROVE  IInv'
<1> DEFINE i == Latest(handles[h].name)
<1>1. i \in DOMAIN savepoints /\ IsOf(i, h)
  BY Reached
<1>2. /\ h \in Ids /\ OpenNow \subseteq Ids /\ InProgress(h) /\ current # 0
      /\ handles[h].tx = current
  BY DEF OpenNow, InProgress
<1>3. /\ Ids = 1 .. Len(handles) /\ Len(handles) \in Nat
      /\ DOMAIN savepoints = 1 .. Len(savepoints) /\ Len(savepoints) \in Nat
      /\ \A g \in Ids : handles[g] \in Handle
      /\ \A j \in DOMAIN savepoints : savepoints[j] \in Savepoint
  BY LenProperties, ElementOfSeq DEF IInv, TypeOK, Ids
<1>4. /\ \A g \in Ids : handles[g].depth \in Nat /\ handles[g].name \in Nat
      /\ \A j \in DOMAIN savepoints : savepoints[j].name \in Nat
  BY <1>3 DEF Handle, Savepoint
<1>5. k \in 0 .. Len(savepoints)
  BY <1>1, <1>3
<1>6. /\ DOMAIN savepoints' = 1 .. k
      /\ \A j \in 1 .. k : savepoints'[j] = savepoints[j]
  BY <1>3, <1>5 
<1>7. Len(handles') = Len(handles)
  <2>1. Len(handles') \in Nat /\ Ids' = 1 .. Len(handles')
    BY LenProperties DEF TypeOK, Ids
  <2> QED  BY <1>3, <2>1 DEF Same
<1>8. \A g \in OpenNow \ {h} : g < h /\ handles[g].depth < handles[h].depth
  BY <1>2, Innermost
<1>9. \A g \in OpenNow \ {h} : ~IsRoot(g) => handles[g].name < handles[h].name
  BY <1>2, <1>8 DEF IInv, Shapes
<1>10. Shapes'
  BY DEF Same, IInv, Shapes, IsRoot, Native
<1>11. RootOpen'
  <2>1. current \in OpenNow /\ handles[current].began = store
    BY <1>2 DEF IInv, RootOpen
  <2>2. current # h
    BY <1>2 DEF IInv, Shapes
  <2> QED  BY <1>2, <2>1, <2>2 DEF Same, RootOpen
<1>12. Nesting'
  BY <1>2 DEF Same, IInv, Nesting
<1>13. NoGaps'
  <2> SUFFICES ASSUME NEW g \in OpenNow \ {h}, NEW d \in 0 .. handles[g].depth
               PROVE  \E f \in OpenNow \ {h} : handles[f].depth = d
    BY <1>2 DEF Same, NoGaps
  <2>1. PICK f \in OpenNow : handles[f].depth = d
    BY DEF IInv, NoGaps
  <2>2. handles[g].depth < handles[h].depth
    BY <1>8
  <2>3. f # h
    BY <1>2, <1>4, <2>1, <2>2
  <2> QED  BY <2>1, <2>3
<1>14. Restorable'
  <2> SUFFICES ASSUME NEW g \in OpenNow \ {h}, ~IsRoot(g)
               PROVE  \E j \in DOMAIN savepoints' : IsOf(j, g)'
    BY <1>2 DEF Same, Restorable, IsRoot
  <2>1. PICK j \in DOMAIN savepoints : IsOf(j, g)
    BY DEF IInv, Restorable
  <2>2. handles[g].name < handles[h].name
    BY <1>9
  <2>3. savepoints[j].name = handles[g].name /\ savepoints[i].name = handles[h].name
    BY <1>1, <2>1 DEF IsOf
  <2>4. ~(i < j)
    BY <1>1, <1>2, <1>4, <2>1, <2>2, <2>3 DEF IsOf
  <2>5. i # j
    BY <1>2, <1>4, <2>2, <2>3
  <2>6. j \in 1 .. k
    BY <1>1, <1>3, <1>5, <2>1, <2>4, <2>5
  <2>7. IsOf(j, g)'
    BY <1>2, <1>3, <1>5, <1>6, <2>1, <2>6 DEF Same, IsOf
  <2> QED  BY <1>6, <2>6, <2>7
<1>15. NamesGrow' /\ NamesAreOld'
  BY <1>3, <1>5, <1>6, <1>7 DEF IInv, NamesGrow, NamesAreOld, Native
<1>16. NoneLeft'
  <2>0. \A g \in OpenNow \ {h} : (IsRoot(g)' <=> IsRoot(g)) /\ handles'[g].name = handles[g].name
    BY <1>2 DEF Same, IsRoot
  <2> SUFFICES ASSUME dialect \in {"sqlite", "mysql"}, NEW j \in 1 .. k
               PROVE  \E g \in OpenNow \ {h} :
                        ~IsRoot(g) /\ savepoints[j].name = handles[g].name
    BY <1>6, <2>0 DEF NoneLeft
  <2>1. j < i /\ j \in DOMAIN savepoints
    BY <1>1, <1>3, <1>5
  <2>2. savepoints[j].name < savepoints[i].name
    BY <1>1, <2>1 DEF IInv, NamesGrow
  <2>3. PICK g \in OpenNow : ~IsRoot(g) /\ savepoints[j].name = handles[g].name
    BY <2>1 DEF IInv, NoneLeft
  <2>4. g # h
    BY <1>1, <1>2, <1>4, <2>2, <2>3 DEF IsOf
  <2> QED  BY <2>3, <2>4
<1> QED  BY <1>10, <1>11, <1>12, <1>13, <1>14, <1>15, <1>16 DEF IInv

\* A savepoint gets a name no open level has and none further in than it.
LEMMA FreshName ==
  ASSUME IInv, NEW h \in OpenNow, LastOpen(h)
  PROVE  /\ SpName(h) \in Nat
         /\ \A g \in OpenNow : ~IsRoot(g) => handles[g].name < SpName(h)
         /\ dialect # "mssql" =>
              \A i \in DOMAIN savepoints : savepoints[i].name < SpName(h)
<1>1. /\ h \in Ids /\ OpenNow \subseteq Ids /\ InProgress(h)
      /\ dialect \in {"sqlite", "mysql", "mssql", "postgres"}
  BY SavepointsAssumption DEF OpenNow, IInv, TypeOK
<1>2. /\ Ids = 1 .. Len(handles) /\ Len(handles) \in Nat
      /\ \A g \in Ids : handles[g] \in Handle
      /\ \A j \in DOMAIN savepoints : savepoints[j] \in Savepoint
  BY LenProperties, ElementOfSeq DEF IInv, TypeOK, Ids
<1>3. /\ \A g \in Ids : handles[g].depth \in Nat /\ handles[g].name \in Nat
      /\ \A j \in DOMAIN savepoints : savepoints[j].name \in Nat
  BY <1>2 DEF Handle, Savepoint
<1>4. \A g \in OpenNow : handles[g].depth <= handles[h].depth
  BY <1>1, <1>3, Innermost
<1>5. SpName(h) \in Nat
  BY <1>1, <1>2, <1>3 DEF SpName
<1>6. \A g \in OpenNow : ~IsRoot(g) => handles[g].name < SpName(h)
  BY <1>1, <1>2, <1>3, <1>4 DEF IInv, Shapes, SpName
<1>7. ASSUME dialect # "mssql", NEW i \in DOMAIN savepoints
      PROVE  savepoints[i].name < SpName(h)
  <2>1. CASE Native
    BY <1>2, <1>3, <2>1 DEF IInv, NamesAreOld, SpName
  <2>2. CASE ~Native
    BY <1>1, <1>6, <1>7, <2>2 DEF IInv, NoneLeft, Native
  <2> QED  BY <2>1, <2>2
<1> QED  BY <1>5, <1>6, <1>7

\* A nested level opens.
LEMMA Opened ==
  ASSUME IInv, TypeOK', NEW h \in OpenNow, LastOpen(h), BeginSavepoint(h)
  PROVE  IInv'
<1> DEFINE sp == [name |-> SpName(h), saved |-> work]
<1>a. PICK n : n = Len(handles) + 1
  OBVIOUS
<1>b. PICK len : len = Len(savepoints)
  OBVIOUS
<1>1. /\ h \in Ids /\ OpenNow \subseteq Ids /\ InProgress(h) /\ current # 0
      /\ handles[h].tx = current
      /\ UNCHANGED <<dialect, current, store, work>>
  BY DEF OpenNow, InProgress, BeginSavepoint
<1>2. /\ Ids = 1 .. Len(handles) /\ Len(handles) \in Nat
      /\ DOMAIN savepoints = 1 .. len /\ len \in Nat
      /\ savepoints \in Seq(Savepoint) /\ work \in SUBSET Marks
      /\ \A g \in Ids : handles[g] \in Handle /\ handles[g].tx \in 1 .. g
      /\ \A j \in DOMAIN savepoints : savepoints[j] \in Savepoint
  BY <1>b, LenProperties, ElementOfSeq DEF IInv, TypeOK, Ids
<1>3. /\ \A g \in Ids : handles[g].depth \in Nat /\ handles[g].name \in Nat
      /\ \A j \in DOMAIN savepoints : savepoints[j].name \in Nat
  BY <1>2 DEF Handle, Savepoint
<1>4. /\ SpName(h) \in Nat
      /\ \A g \in OpenNow : ~IsRoot(g) => handles[g].name < SpName(h)
      /\ dialect # "mssql" =>
           \A i \in DOMAIN savepoints : savepoints[i].name < SpName(h)
  BY FreshName
<1>5. handles' = New(current, handles[h].depth + 1, SpName(h))
  BY <1>1 DEF BeginSavepoint
<1>6. /\ Len(handles') = n /\ Ids' = 1 .. n
      /\ \A g \in Ids : handles'[g] = handles[g]
      /\ handles'[n] = [tx |-> current, depth |-> handles[h].depth + 1,
                        name |-> SpName(h), began |-> work, status |-> "open"]
  <2>1. current \in 1 .. Len(handles) + 1 /\ handles[h].depth + 1 \in Nat
    BY <1>1, <1>2, <1>3
  <2>2. /\ handles' \in Seq(Handle) /\ Len(handles') = n
        /\ \A g \in Ids : handles'[g] = handles[g]
        /\ handles'[n] = [tx |-> current, depth |-> handles[h].depth + 1,
                          name |-> SpName(h), began |-> work, status |-> "open"]
    BY <1>a, <1>4, <1>5, <2>1, NewTyped DEF IInv
  <2> QED  BY <2>2, LenProperties DEF Ids
<1>7. /\ DOMAIN savepoints' = 1 .. len + 1
      /\ \A j \in 1 .. len : savepoints'[j] = savepoints[j]
      /\ savepoints'[len + 1] = sp
  <2>1. dialect = "mysql" => Named(SpName(h)) = {}
    BY <1>2, <1>3, <1>4 DEF Named
  <2>2. savepoints' = Append(savepoints, sp)
    BY <2>1 DEF BeginSavepoint, Save
  <2>3. sp \in Savepoint
    BY <1>2, <1>4 DEF Savepoint
  <2>4. /\ savepoints' \in Seq(Savepoint) /\ Len(savepoints') = len + 1
        /\ \A j \in 1 .. len : savepoints'[j] = savepoints[j]
        /\ savepoints'[len + 1] = sp
    <3> HIDE DEF sp
    <3> QED  BY <1>b, <1>2, <2>2, <2>3, AppendProperties
  <2> QED  BY <2>4, LenProperties
<1>8. OpenNow' = OpenNow \cup {n} /\ n \notin Ids
  <2>1. n \notin Ids /\ Ids' = Ids \cup {n}
    BY <1>a, <1>2, <1>6
  <2> QED  BY <1>1, <1>6, <2>1 DEF OpenNow, InProgress
<1>9. \A g \in OpenNow \ {h} : g < h /\ handles[g].depth < handles[h].depth
  BY <1>1, Innermost
<1>10. Shapes'
  <2>1. ~IsRoot(n)' /\ handles'[n].tx # n
    BY <1>a, <1>1, <1>2, <1>3, <1>6 DEF IsRoot
  <2>2. handles'[n].name = IF Native' THEN n ELSE handles'[n].depth
    BY <1>a, <1>1, <1>6 DEF SpName, Native
  <2> QED  BY <1>a, <1>1, <1>2, <1>6, <2>1, <2>2 DEF IInv, Shapes, IsRoot, Native
<1>11. RootOpen'
  BY <1>1, <1>6, <1>8 DEF IInv, RootOpen
<1>12. Nesting'
  <2> SUFFICES ASSUME NEW g \in OpenNow \cup {n}, NEW f \in 1 .. n, g < f,
                      handles'[f].tx = current
               PROVE  handles'[g].depth < handles'[f].depth
    BY <1>1, <1>6, <1>8 DEF Nesting
  <2>1. g \in OpenNow /\ handles'[g] = handles[g]
    BY <1>a, <1>1, <1>2, <1>6
  <2>2. CASE f \in Ids
    BY <1>6, <2>1, <2>2 DEF IInv, Nesting
  <2>3. CASE f = n
    BY <1>1, <1>3, <1>6, <1>9, <2>1, <2>3
  <2> QED  BY <1>a, <1>2, <2>2, <2>3
<1>13. NoGaps'
  <2> SUFFICES ASSUME NEW g \in OpenNow \cup {n}, NEW d \in 0 .. handles'[g].depth
               PROVE  \E f \in OpenNow \cup {n} : handles'[f].depth = d
    BY <1>8 DEF NoGaps
  <2>1. \A e \in OpenNow : \A c \in 0 .. handles[e].depth :
          \E f \in OpenNow : handles'[f].depth = c
    BY <1>1, <1>6 DEF IInv, NoGaps
  <2>2. CASE g \in OpenNow
    BY <1>1, <1>6, <2>1, <2>2
  <2>3. CASE g = n /\ d = handles[h].depth + 1
    BY <1>6, <2>3
  <2>4. CASE g = n /\ d # handles[h].depth + 1
    <3>1. d \in 0 .. handles[h].depth
      BY <1>1, <1>3, <1>6, <2>4
    <3> QED  BY <2>1, <3>1
  <2> QED  BY <2>2, <2>3, <2>4
<1>14. Restorable'
  <2> SUFFICES ASSUME NEW g \in OpenNow \cup {n}, ~IsRoot(g)'
               PROVE  \E j \in 1 .. len + 1 : IsOf(j, g)'
    BY <1>7, <1>8 DEF Restorable
  <2>1. CASE g = n
    <3>1. IsOf(len + 1, n)'
      BY <1>a, <1>2, <1>6, <1>7 DEF IsOf
    <3> QED  BY <1>a, <1>2, <2>1, <3>1
  <2>2. CASE g \in OpenNow
    <3>1. handles'[g] = handles[g] /\ ~IsRoot(g)
      BY <1>1, <1>6, <2>2 DEF IsRoot
    <3>2. PICK j \in DOMAIN savepoints : IsOf(j, g)
      BY <2>2, <3>1 DEF IInv, Restorable
    <3>3. handles[g].name < SpName(h)
      BY <1>4, <2>2, <3>1
    <3>4. \A q \in 1 .. len + 1 : j < q => handles[g].name < savepoints'[q].name
      <4> SUFFICES ASSUME NEW q \in 1 .. len + 1, j < q
                   PROVE  handles[g].name < savepoints'[q].name
        OBVIOUS
      <4>1. CASE q \in 1 .. len
        BY <1>a, <1>2, <1>7, <3>2, <4>1 DEF IsOf
      <4>2. CASE q = len + 1
        BY <1>7, <3>3, <4>2
      <4> QED  BY <1>a, <1>2, <4>1, <4>2
    <3>5. IsOf(j, g)'
      BY <1>a, <1>2, <1>7, <3>1, <3>2, <3>4 DEF IsOf
    <3> QED  BY <1>a, <1>2, <3>2, <3>5
  <2> QED  BY <2>1, <2>2
<1>15. NamesGrow'
  <2> SUFFICES ASSUME dialect # "mssql", NEW i \in 1 .. len + 1, NEW j \in 1 .. len + 1,
                      i < j
               PROVE  savepoints'[i].name < savepoints'[j].name
    BY <1>1, <1>7 DEF NamesGrow
  <2>1. i \in 1 .. len
    BY <1>2
  <2>2. CASE j \in 1 .. len
    BY <1>a, <1>2, <1>7, <2>1, <2>2 DEF IInv, NamesGrow
  <2>3. CASE j = len + 1
    BY <1>a, <1>2, <1>4, <1>7, <2>1, <2>3
  <2> QED  BY <1>a, <1>2, <2>2, <2>3
<1>16. NamesAreOld'
  <2> SUFFICES ASSUME Native, NEW i \in 1 .. len + 1
               PROVE  savepoints'[i].name <= n
    BY <1>1, <1>6, <1>7 DEF NamesAreOld, Native
  <2>1. CASE i \in 1 .. len
    BY <1>a, <1>2, <1>3, <1>7, <2>1 DEF IInv, NamesAreOld
  <2>2. CASE i = len + 1
    BY <1>a, <1>2, <1>7, <2>2 DEF SpName
  <2> QED  BY <1>a, <1>2, <2>1, <2>2
<1>17. NoneLeft'
  <2> SUFFICES ASSUME dialect \in {"sqlite", "mysql"}, NEW i \in 1 .. len + 1
               PROVE  \E g \in OpenNow \cup {n} :
                        ~IsRoot(g)' /\ savepoints'[i].name = handles'[g].name
    BY <1>1, <1>7, <1>8 DEF NoneLeft
  <2>1. CASE i \in 1 .. len
    <3>1. PICK g \in OpenNow : ~IsRoot(g) /\ savepoints[i].name = handles[g].name
      BY <1>a, <1>2, <2>1 DEF IInv, NoneLeft
    <3> QED  BY <1>1, <1>6, <1>7, <2>1, <3>1 DEF IsRoot
  <2>2. CASE i = len + 1
    <3>1. ~IsRoot(n)'
      BY <1>1, <1>3, <1>6 DEF IsRoot
    <3> QED  BY <1>6, <1>7, <2>2, <3>1
  <2> QED  BY <1>a, <1>2, <2>1, <2>2
<1> QED  BY <1>10, <1>11, <1>12, <1>13, <1>14, <1>15, <1>16, <1>17 DEF IInv

\* A late rollback finds nothing to roll back.
LEMMA LateRefused ==
  ASSUME IInv, "mssql" \notin DeferOn, NEW h \in Ids, LateRollback(h)
  PROVE  UNCHANGED vars
<1>1. /\ dialect \in DeferOn /\ handles[h].status # "open" /\ LastOpen(h)
      /\ dialect \in {"sqlite", "mysql", "postgres"}
  BY SavepointsAssumption DEF LateRollback
<1>2. IsRoot(h) => ~InProgress(h)
  BY <1>1 DEF InProgress, OpenNow, IInv, Shapes, RootOpen
<1>3. ~IsRoot(h) => ~Reaches(h)
  <2> SUFFICES ASSUME ~IsRoot(h), Reaches(h) PROVE FALSE
    OBVIOUS
  <2>1. InProgress(h) /\ ~Native /\ Named(handles[h].name) # {}
    BY <1>1 DEF Reaches
  <2>2. PICK i \in DOMAIN savepoints : savepoints[i].name = handles[h].name
    BY <2>1 DEF Named
  <2>3. PICK g \in OpenNow : ~IsRoot(g) /\ handles[g].name = handles[h].name
    BY <1>1, <2>1, <2>2 DEF Native, IInv, NoneLeft
  <2>4. handles[g].depth = handles[h].depth /\ g # h
    BY <1>1, <2>1, <2>3 DEF IInv, Shapes, OpenNow
  <2>5. handles[h].depth \in Nat
    <3>1. handles[h] \in Handle
      BY ElementOfSeq, LenProperties DEF IInv, TypeOK, Ids
    <3> QED  BY <3>1 DEF Handle
  <2> QED  BY <1>1, <2>1, <2>3, <2>4, <2>5, Innermost
<1>4. Refused(h)
  BY <1>2, <1>3 DEF LateRollback, RollbackTx, SpRollback
<1>5. handles' = handles
  <2>1. handles' = [handles EXCEPT ![h] = handles[h]]
    <3>1. handles[h] \in Handle
      BY ElementOfSeq, LenProperties DEF IInv, TypeOK, Ids
    <3>2. [handles[h] EXCEPT !.status = handles[h].status] = handles[h]
      BY <3>1 DEF Handle
    <3> QED  BY <1>1, <1>4, <3>2 DEF Refused, Set
  <2>2. handles \in [1 .. Len(handles) -> Handle]
    BY LenProperties DEF IInv, TypeOK
  <2> QED  BY <2>1, <2>2 DEF Ids
<1> QED  BY <1>4, <1>5 DEF Refused, vars

\* The steps of a handle whose turn it is, told apart by what they do to the
\* levels of the transaction in progress.
Leaves(h) ==
  /\ OpenNow' = OpenNow \ {h}
  /\ UNCHANGED <<dialect, current, store>>
  /\ \E k \in Latest(handles[h].name) - 1 .. Len(savepoints) :
       /\ dialect \in {"sqlite", "mysql"} => k = Latest(handles[h].name) - 1
       /\ savepoints' = SubSeq(savepoints, 1, k)

\* The innermost level ends.
LEMMA EndsLevel ==
  ASSUME IInv, NEW h \in OpenNow, ~IsRoot(h), MayUse(h), SpCommit(h) \/ SpRollback(h)
  PROVE  Same /\ Leaves(h)
<1>1. /\ h \in Ids /\ Reaches(h)
      /\ Latest(handles[h].name) \in 1 .. Len(savepoints) /\ Len(savepoints) \in Nat
      /\ savepoints \in Seq(Savepoint)
      /\ dialect \in {"sqlite", "mysql", "mssql", "postgres"}
  BY Reached, LenProperties, SavepointsAssumption DEF OpenNow, IInv, TypeOK
<1> DEFINE i == Latest(handles[h].name)
<1>a. {i - 1, i, Len(savepoints)} \subseteq i - 1 .. Len(savepoints)
  <2>1. i \in Int /\ i <= Len(savepoints) /\ Len(savepoints) \in Int
    BY <1>1
  <2> HIDE DEF i
  <2>2. i - 1 \in i - 1 .. Len(savepoints)
    BY <2>1
  <2>3. i \in i - 1 .. Len(savepoints)
    BY <2>1
  <2>4. Len(savepoints) \in i - 1 .. Len(savepoints)
    BY <2>1
  <2> QED  BY <2>2, <2>3, <2>4
<1>2. PICK s \in {"committed", "rolledback"} : Set(h, s)
  BY <1>1 DEF SpCommit, SpRollback
<1>3. /\ Same
      /\ \A g \in Ids : handles'[g].status =
            IF g = h /\ handles[g].status = "open" THEN s ELSE handles[g].status
  BY <1>1, <1>2, SetTyped DEF IInv, Same
<1>4. UNCHANGED <<dialect, current, store>>
  BY <1>1 DEF SpCommit, SpRollback
<1>5. OpenNow' = OpenNow \ {h}
  BY <1>3, <1>4 DEF Same, OpenNow, InProgress
<1>6. \/ savepoints' = SubSeq(savepoints, 1, Latest(handles[h].name) - 1)
      \/ /\ dialect \notin {"sqlite", "mysql"}
         /\ \/ savepoints' = SubSeq(savepoints, 1, Latest(handles[h].name))
            \/ savepoints' = savepoints
  BY <1>1 DEF SpCommit, SpRollback, ReleaseSavepoint, Release, Keep, Native
<1>7. SubSeq(savepoints, 1, Len(savepoints)) = savepoints
  BY <1>1, SubSeqFull
<1>8. /\ {i - 1, i, Len(savepoints)} \subseteq i - 1 .. Len(savepoints)
      /\ \/ savepoints' = SubSeq(savepoints, 1, i - 1)
         \/ /\ dialect \notin {"sqlite", "mysql"}
            /\ \/ savepoints' = SubSeq(savepoints, 1, i)
               \/ savepoints' = SubSeq(savepoints, 1, Len(savepoints))
  BY <1>a, <1>6, <1>7, Zenon
<1> HIDE DEF i
<1>9. \E k \in i - 1 .. Len(savepoints) :
        /\ dialect \in {"sqlite", "mysql"} => k = i - 1
        /\ savepoints' = SubSeq(savepoints, 1, k)
  BY <1>8, Zenon
<1> QED  BY <1>3, <1>4, <1>5, <1>9 DEF Leaves, i

\* Every step keeps the invariant.
LEMMA Inductive == ASSUME "mssql" \notin DeferOn, IInv, [Next]_vars, TypeOK' PROVE IInv'
<1>1. OpenNow \subseteq Ids /\ \A h \in OpenNow : InProgress(h)
  BY DEF OpenNow
<1>2. CASE UNCHANGED vars
  BY <1>2, Quiet DEF vars, Same, Ids, OpenNow, InProgress
<1>3. CASE BeginTx
  <2>1. /\ current = 0 /\ savepoints = <<>> /\ work = store
        /\ Ids = 1 .. Len(handles) /\ Len(handles) \in Nat
        /\ \A g \in Ids : handles[g].tx \in 1 .. g
    BY <1>3, LenProperties DEF BeginTx, IInv, TypeOK, Ids
  <2>2. PICK n : n = Len(handles) + 1
    OBVIOUS
  <2>3. /\ current' = n /\ handles' = New(n, 0, 0)
        /\ UNCHANGED <<dialect, store, work, savepoints>>
    BY <1>3, <2>2 DEF BeginTx
  <2>4. /\ Len(handles') = n /\ Ids' = 1 .. n /\ n \notin Ids
        /\ \A g \in Ids : handles'[g] = handles[g]
        /\ handles'[n] = [tx |-> n, depth |-> 0, name |-> 0, began |-> work,
                          status |-> "open"]
    <3>1. n \in 1 .. Len(handles) + 1 /\ 0 \in Nat
      BY <2>1, <2>2
    <3>2. /\ handles' \in Seq(Handle) /\ Len(handles') = n
          /\ \A g \in Ids : handles'[g] = handles[g]
          /\ handles'[n] = [tx |-> n, depth |-> 0, name |-> 0, began |-> work,
                            status |-> "open"]
      BY <2>2, <2>3, <3>1, NewTyped DEF IInv
    <3> QED  BY <2>1, <2>2, <3>2, LenProperties DEF Ids
  <2>5. OpenNow' = {n}
    <3>1. \A g \in 1 .. n : g # n => g \in Ids /\ handles'[g].tx # n
      BY <2>1, <2>2, <2>4
    <3> QED  BY <2>1, <2>2, <2>3, <2>4, <3>1 DEF OpenNow, InProgress
  <2>6. Shapes'
    <3>1. ASSUME NEW g \in Ids
          PROVE /\ (IsRoot(g) <=> handles[g].tx = g)'
                /\ (~IsRoot(g) => handles[g].name = IF Native THEN g ELSE handles[g].depth)'
      BY <2>3, <2>4 DEF IInv, Shapes, IsRoot, Native
    <3>2. (IsRoot(n) /\ handles[n].tx = n)'
      BY <2>4 DEF IsRoot
    <3>3. Ids' = Ids \cup {n}
      BY <2>1, <2>2, <2>4
    <3> QED  BY <3>1, <3>2, <3>3 DEF Shapes
  <2>7. RootOpen' /\ Nesting' /\ NoGaps' /\ Restorable'
    BY <2>1, <2>2, <2>3, <2>4, <2>5 DEF RootOpen, Nesting, NoGaps, Restorable, IsRoot
  <2>8. NamesGrow' /\ NamesAreOld' /\ NoneLeft'
    BY <2>1, <2>3 DEF NamesGrow, NamesAreOld, NoneLeft
  <2> QED  BY <2>6, <2>7, <2>8 DEF IInv
<1>4. CASE Lost
  BY <1>4, Over DEF Lost, EndTx, Same, Ids
<1>5. ASSUME NEW h \in Ids, Begin(h) PROVE IInv'
  BY <1>5, Opened DEF Begin, BeginSavepoint, MayUse, OpenNow
<1>6. ASSUME NEW h \in Ids, Exec(h) PROVE IInv'
  BY <1>6, Quiet DEF Exec, Write, Same, Ids, OpenNow, InProgress
<1>7. ASSUME NEW h \in Ids, MayUse(h), Finish(h) PROVE IInv'
  <2>1. CASE InProgress(h) /\ IsRoot(h)
    <3>1. PICK s \in {"committed", "rolledback"} : Set(h, s)
      BY <1>7, <2>1 DEF Finish, CommitTx, RollbackTx, SpCommit, SpRollback
    <3>2. current' = 0 /\ savepoints' = <<>> /\ dialect' = dialect
      BY <1>7, <2>1 DEF Finish, CommitTx, RollbackTx, SpCommit, SpRollback, EndTx
    <3>3. Same
      BY <3>1, SetTyped DEF IInv, Same
    <3> QED  BY <3>2, <3>3, Over
  <2>2. CASE InProgress(h) /\ ~IsRoot(h)
    <3>1. h \in OpenNow /\ LastOpen(h) /\ (SpCommit(h) \/ SpRollback(h))
      BY <1>7, <2>2 DEF MayUse, OpenNow, Finish, CommitTx, RollbackTx
    <3>2. Same /\ Leaves(h)
      BY <1>7, <2>2, <3>1, EndsLevel
    <3> QED  BY <2>2, <3>1, <3>2, Closed DEF Leaves
  <2>3. CASE ~InProgress(h)
    <3>1. PICK s \in {"failed", "void"} : Set(h, s)
      BY <1>7, <2>3 DEF Finish, CommitTx, RollbackTx, SpCommit, SpRollback, Refused, Reaches
    <3>2. UNCHANGED <<dialect, current, store, work, savepoints>>
      BY <1>7, <2>3 DEF Finish, CommitTx, RollbackTx, SpCommit, SpRollback, Refused, Reaches
    <3>3. /\ Same
          /\ \A g \in Ids : g # h => handles'[g].status = handles[g].status
      BY <3>1, SetTyped DEF IInv, Same
    <3>4. OpenNow' = OpenNow
      BY <2>3, <3>2, <3>3 DEF Same, OpenNow, InProgress
    <3> QED  BY <3>2, <3>3, <3>4, Quiet
  <2> QED  BY <2>1, <2>2, <2>3
<1>8. ASSUME NEW h \in Ids, LateRollback(h) PROVE IInv'
  BY <1>2, <1>8, LateRefused
<1> QED  BY <1>2, <1>3, <1>4, <1>5, <1>6, <1>7, <1>8 DEF Next, Commit, Rollback, Finish

\* It holds of every state.
LEMMA Invariance == ASSUME "mssql" \notin DeferOn PROVE Spec => []IInv
<1>1. Init => IInv
  <2>1. Init => TypeOK
    BY EmptySeq, SavepointsAssumption DEF Init, TypeOK, Ids
  <2>2. Init => Ids = {} /\ OpenNow = {} /\ DOMAIN savepoints = {}
    BY DEF Init, Ids, OpenNow
  <2> QED  BY <2>1, <2>2 DEF Init, IInv, Shapes, RootOpen, Nesting, NoGaps, Restorable,
                             NamesGrow, NamesAreOld, NoneLeft
<1>2. IInv /\ TypeOK' /\ [Next]_vars => IInv'
  BY Inductive
<1> QED  BY <1>1, <1>2, Types, PTL DEF Spec

\* OpenHandlesRestorable is an invariant: where SQL Server's callers do not
\* defer Rollback, every nested handle still open can be undone to what it found
\* when it began, however often its name was used since.
THEOREM AlwaysRestorable ==
  ASSUME "mssql" \notin DeferOn PROVE Spec => []OpenHandlesRestorable
<1>1. IInv => OpenHandlesRestorable
  <2> SUFFICES ASSUME IInv, NEW h \in OpenNow, ~IsRoot(h)
               PROVE  /\ Named(handles[h].name) # {}
                      /\ savepoints[Latest(handles[h].name)].saved = handles[h].began
    BY DEF OpenHandlesRestorable, OpenNow
  <2> QED  BY Reached DEF Reaches, IsOf
<1> QED  BY <1>1, Invariance, PTL

\* LateRollbackIsNoOp: a deferred Rollback of a finished handle changes nothing
\* at all, the names left on the engine notwithstanding.
THEOREM LateRollbackStutters ==
  ASSUME "mssql" \notin DeferOn PROVE Spec => LateRollbackIsNoOp
<1>1. IInv /\ [Next]_vars
        => [(\E h \in Ids : LateRollback(h)) => UNCHANGED <<store, work>>]_vars
  BY LateRefused DEF vars
<1> QED  BY <1>1, Invariance, PTL DEF Spec, LateRollbackIsNoOp

(***************************************************************************)
(* The refinement of NestedTx.                                             *)
(***************************************************************************)
\* The levels of a set O of handles are the one sequence t that has each handle's
\* work at its depth.
LEMMA LevelsAre ==
  ASSUME NEW O, NEW hs, NEW n \in Nat, NEW t,
         t = [i \in 1 .. n |-> t[i]],
         \A h \in O : hs[h].depth + 1 \in 1 .. n /\ t[hs[h].depth + 1] = hs[h].began,
         \A i \in 1 .. n : \E h \in O : hs[h].depth + 1 = i
  PROVE  [i \in {hs[h].depth + 1 : h \in O} |->
            hs[CHOOSE h \in O : hs[h].depth + 1 = i].began] = t
<1>1. {hs[h].depth + 1 : h \in O} = 1 .. n
  OBVIOUS
<1>2. ASSUME NEW i \in 1 .. n
      PROVE  hs[CHOOSE h \in O : hs[h].depth + 1 = i].began = t[i]
  <2> DEFINE c == CHOOSE h \in O : hs[h].depth + 1 = i
  <2>1. c \in O /\ hs[c].depth + 1 = i
    <3>1. \E h \in O : hs[h].depth + 1 = i
      OBVIOUS
    <3> QED  BY <3>1
  <2> HIDE DEF c
  <2>2. hs[c].began = t[i]
    BY <2>1
  <2> QED  BY <2>2 DEF c
<1> QED  BY <1>1, <1>2

\* One level for every open handle, the innermost one last.
LEMMA Levels ==
  ASSUME IInv, NEW h \in OpenNow, LastOpen(h)
  PROVE  /\ OpenLevels \in Seq(SUBSET Marks)
         /\ Len(OpenLevels) = handles[h].depth + 1
         /\ \A g \in OpenNow : /\ handles[g].depth + 1 \in 1 .. handles[h].depth + 1
                               /\ OpenLevels[handles[g].depth + 1] = handles[g].began
         /\ \A i \in 1 .. handles[h].depth + 1 :
              \E g \in OpenNow : handles[g].depth + 1 = i
<1> DEFINE n == handles[h].depth + 1
<1>1. /\ h \in Ids /\ OpenNow \subseteq Ids /\ InProgress(h)
      /\ \A g \in OpenNow : handles[g].tx = current
      /\ Ids = 1 .. Len(handles) /\ Len(handles) \in Nat
      /\ \A g \in Ids : handles[g] \in Handle
  BY LenProperties, ElementOfSeq DEF OpenNow, InProgress, IInv, TypeOK, Ids
<1>2. \A g \in Ids : handles[g].depth \in Nat /\ handles[g].began \in SUBSET Marks
  BY <1>1 DEF Handle
<1>3. \A g \in OpenNow : handles[g].depth + 1 \in 1 .. n
  BY <1>1, <1>2, Innermost
<1>4. ASSUME NEW i \in 1 .. n PROVE \E g \in OpenNow : handles[g].depth + 1 = i
  <2>1. i - 1 \in 0 .. handles[h].depth
    BY <1>1, <1>2
  <2>2. PICK g \in OpenNow : handles[g].depth = i - 1
    BY <2>1 DEF IInv, NoGaps
  <2> QED  BY <2>2
<1>5. \A f, g \in OpenNow : handles[f].depth = handles[g].depth => f = g
  <2> SUFFICES ASSUME NEW f \in OpenNow, NEW g \in OpenNow, f < g
               PROVE  handles[f].depth # handles[g].depth
    BY <1>1
  <2> QED  BY <1>1, <1>2 DEF IInv, Nesting
<1>6. ASSUME NEW g \in OpenNow
      PROVE  OpenLevels[handles[g].depth + 1] = handles[g].began
  <2> DEFINE i == handles[g].depth + 1
             c == CHOOSE f \in OpenNow : handles[f].depth + 1 = i
  <2>1. c \in OpenNow /\ handles[c].depth + 1 = i
    OBVIOUS
  <2>2. c = g
    <3> HIDE DEF c
    <3>1. handles[c].depth = handles[g].depth
      BY <1>1, <1>2, <2>1
    <3> QED  BY <1>5, <2>1, <3>1
  <2> QED  BY <2>2 DEF OpenLevels
<1>7. DOMAIN OpenLevels = 1 .. n
  BY <1>3, <1>4 DEF OpenLevels
<1>8. OpenLevels \in [1 .. n -> SUBSET Marks]
  <2>1. \A i \in 1 .. n : OpenLevels[i] \in SUBSET Marks
    BY <1>1, <1>2, <1>4, <1>6
  <2>2. OpenLevels = [i \in DOMAIN OpenLevels |-> OpenLevels[i]]
    BY DEF OpenLevels
  <2> QED  BY <1>7, <2>1, <2>2
<1>9. n \in Nat
  BY <1>1, <1>2
<1>10. OpenLevels \in Seq(SUBSET Marks)
  BY <1>8, <1>9, SeqDef
<1>11. Len(OpenLevels) = n
  BY <1>7, <1>9, <1>10, LenProperties
<1> QED  BY <1>3, <1>4, <1>6, <1>10, <1>11

\* Where nothing is open there is no level.
LEMMA NoLevels == ASSUME OpenNow = {} PROVE OpenLevels = <<>>
BY DEF OpenLevels

\* A call that ends an open handle is counted once.
LEMMA CountedOnce ==
  ASSUME TypeOK, NEW h \in Ids, handles[h].status = "open", NEW s, Ids' = Ids,
         \A g \in Ids : handles'[g].status = IF g = h THEN s ELSE handles[g].status
  PROVE  \A t : t # "open" => Ended(t)' = IF t = s THEN Ended(t) + 1 ELSE Ended(t)
<1> SUFFICES ASSUME NEW t, t # "open"
             PROVE  Ended(t)' = IF t = s THEN Ended(t) + 1 ELSE Ended(t)
  OBVIOUS
<1> DEFINE E == {g \in Ids : handles[g].status = t}
<1>1. IsFiniteSet(E)
  <2>1. Ids = 1 .. Len(handles) /\ Len(handles) \in Int
    BY LenProperties DEF TypeOK, Ids
  <2>2. IsFiniteSet(Ids)
    BY <2>1, FS_Interval
  <2> QED  BY <2>2, FS_Subset
<1>3. h \notin E
  OBVIOUS
<1>4. E' = IF t = s THEN E \cup {h} ELSE E
  OBVIOUS
<1>5. Cardinality(E \cup {h}) = Cardinality(E) + 1
  <2> HIDE DEF E
  <2> QED  BY <1>1, <1>3, FS_AddElement
<1> QED  BY <1>4, <1>5 DEF Ended

\* The step that opens level n + 1 of the stack.
LEMMA PushesLevel ==
  ASSUME NEW n \in Nat, NEW new,
         OpenLevels \in Seq(SUBSET Marks), Len(OpenLevels) = n, work \in SUBSET Marks,
         OpenNow' = OpenNow \cup {new},
         handles'[new].depth = n, handles'[new].began = work,
         \A g \in OpenNow : /\ handles'[g].depth = handles[g].depth
                           /\ handles'[g].began = handles[g].began
                           /\ handles[g].depth + 1 \in 1 .. n
                           /\ OpenLevels[handles[g].depth + 1] = handles[g].began,
         \A i \in 1 .. n : \E g \in OpenNow : handles[g].depth + 1 = i
  PROVE  OpenLevels' = Append(OpenLevels, work)
<1> DEFINE t == Append(OpenLevels, work)
<1>a. PICK m \in Nat : m = n + 1
  OBVIOUS
<1>1. /\ t \in Seq(SUBSET Marks) /\ Len(t) = m /\ t[m] = work
      /\ \A i \in 1 .. n : t[i] = OpenLevels[i]
  BY <1>a, AppendProperties
<1>2. t = [i \in 1 .. m |-> t[i]]
  <2> HIDE DEF t
  <2> QED  BY <1>a, <1>1, LenProperties
<1> HIDE DEF t
<1>3. \A h \in OpenNow' : /\ handles'[h].depth + 1 \in 1 .. m
                         /\ t[handles'[h].depth + 1] = handles'[h].began
  BY <1>a, <1>1
<1>4. ASSUME NEW i \in 1 .. m PROVE \E h \in OpenNow' : handles'[h].depth + 1 = i
  <2>1. CASE i \in 1 .. n
    BY <1>a, <2>1
  <2>2. CASE i = m
    BY <1>a, <2>2
  <2> QED  BY <1>a, <2>1, <2>2
<1>5. [i \in {handles'[h].depth + 1 : h \in OpenNow'} |->
         handles'[CHOOSE h \in OpenNow' : handles'[h].depth + 1 = i].began] = t
  BY <1>2, <1>3, <1>4, <1>a, LevelsAre
<1> QED  BY <1>5 DEF t, OpenLevels

\* The step that closes it.
LEMMA PopsLevel ==
  ASSUME NEW n \in Nat, NEW h \in OpenNow,
         OpenLevels \in Seq(SUBSET Marks), Len(OpenLevels) = n + 1,
         OpenNow' = OpenNow \ {h},
         \A g \in OpenNow : /\ handles'[g].depth = handles[g].depth
                           /\ handles'[g].began = handles[g].began
                           /\ handles[g].depth \in Nat
                           /\ OpenLevels[handles[g].depth + 1] = handles[g].began,
         handles[h].depth = n,
         \A g \in OpenNow \ {h} : handles[g].depth < n,
         \A i \in 1 .. n + 1 : \E g \in OpenNow : handles[g].depth + 1 = i
  PROVE  OpenLevels' = Nested!Pop(OpenLevels)
<1> DEFINE t == SubSeq(OpenLevels, 1, n)
<1>1. t \in Seq(SUBSET Marks) /\ Len(t) = n /\ \A i \in 1 .. n : t[i] = OpenLevels[i]
  <2>1. \A i \in 1 .. n : OpenLevels[i] \in SUBSET Marks
    BY ElementOfSeq
  <2> QED  BY <2>1, SubSeqProperties
<1>2. t = [i \in 1 .. n |-> t[i]]
  <2> HIDE DEF t
  <2> QED  BY <1>1, LenProperties
<1> HIDE DEF t
<1>3. ASSUME NEW g \in OpenNow'
      PROVE  /\ handles'[g].depth + 1 \in 1 .. n
             /\ t[handles'[g].depth + 1] = handles'[g].began
  <2>1. /\ handles[g].depth \in Nat /\ handles[g].depth < n
        /\ handles'[g].depth = handles[g].depth /\ handles'[g].began = handles[g].began
        /\ OpenLevels[handles[g].depth + 1] = handles[g].began
    OBVIOUS
  <2>2. \A d \in Nat : d < n => d + 1 \in 1 .. n
    OBVIOUS
  <2> QED  BY <1>1, <2>1, <2>2
<1>4. ASSUME NEW i \in 1 .. n PROVE \E g \in OpenNow' : handles'[g].depth + 1 = i
  <2>1. PICK g \in OpenNow : handles[g].depth + 1 = i
    OBVIOUS
  <2>2. g # h
    <3>1. n + 1 \notin 1 .. n
      OBVIOUS
    <3> QED  BY <2>1, <3>1
  <2> QED  BY <2>1, <2>2
<1>5. [i \in {handles'[g].depth + 1 : g \in OpenNow'} |->
         handles'[CHOOSE g \in OpenNow' : handles'[g].depth + 1 = i].began] = t
  BY <1>2, <1>3, <1>4, LevelsAre
<1>6. Nested!Pop(OpenLevels) = t
  BY DEF Nested!Pop, t
<1> QED  BY <1>5, <1>6 DEF OpenLevels

\* Every step of the handles is a step of the nested transactions or none.
LEMMA StepImplements ==
  ASSUME "mssql" \notin DeferOn, IInv, IInv', [Next]_vars
  PROVE  [Nested!Next]_(Nested!vars)
<1> USE DEF Nested!vars
<1>1. /\ OpenNow \subseteq Ids /\ \A h \in OpenNow : InProgress(h)
      /\ Ids = 1 .. Len(handles) /\ Len(handles) \in Nat
      /\ Ids' = 1 .. Len(handles') /\ Len(handles') \in Nat
      /\ \A g \in Ids : handles[g] \in Handle
      /\ \A g \in Ids' : handles'[g] \in Handle
      /\ work \in SUBSET Marks
  BY LenProperties, ElementOfSeq DEF OpenNow, IInv, TypeOK, Ids
<1>2. /\ \A g \in Ids : handles[g].depth \in Nat
      /\ \A g \in Ids' : handles'[g].depth \in Nat
  BY <1>1 DEF Handle
<1>3. current # 0 => OpenNow # {} /\ current \in OpenNow
  BY DEF IInv, RootOpen
<1>4. current = 0 => OpenNow = {} /\ OpenLevels = <<>>
  BY NoLevels DEF OpenNow, InProgress
<1>5. current' = 0 => OpenLevels' = <<>>
  BY DEF OpenLevels, OpenNow, InProgress
<1>6. ASSUME NEW h \in OpenNow, LastOpen(h)
      PROVE  /\ OpenLevels \in Seq(SUBSET Marks) /\ OpenLevels # <<>>
             /\ Len(OpenLevels) = handles[h].depth + 1
  BY <1>1, <1>2, <1>6, Levels, EmptySeq
<1>7. ASSUME Ids' = Ids, \A g \in Ids : handles'[g].status = handles[g].status
      PROVE  \A t : Ended(t)' = Ended(t)
  BY <1>7 DEF Ended
<1>8. ASSUME NEW n, n = Len(handles) + 1, Ids' = 1 .. n, handles'[n].status = "open",
             \A g \in Ids : handles'[g].status = handles[g].status
      PROVE  \A t : t # "open" => Ended(t)' = Ended(t)
  <2> SUFFICES ASSUME NEW t, t # "open"
               PROVE  {g \in Ids' : handles'[g].status = t} = {g \in Ids : handles[g].status = t}
    BY DEF Ended
  <2>1. Ids' = Ids \cup {n}
    BY <1>1, <1>8
  <2> QED  BY <1>8, <2>1
<1>8a. OpenNow # {} => \E h \in OpenNow : LastOpen(h)
  <2> SUFFICES ASSUME OpenNow # {} PROVE \E h \in OpenNow : LastOpen(h)
    OBVIOUS
  <2>1. PICK h \in OpenNow : \A g \in OpenNow : g <= h
    BY <1>1, Largest
  <2> QED  BY <1>1, <2>1 DEF LastOpen, OpenNow, InProgress
<1>9. CASE UNCHANGED vars
  BY <1>9 DEF vars, OpenLevels, OpenNow, InProgress, Ids, Ended
<1>10. CASE BeginTx
  <2>1. PICK n : n = Len(handles) + 1
    OBVIOUS
  <2>2. /\ current = 0 /\ current' = n /\ handles' = New(n, 0, 0)
        /\ UNCHANGED <<dialect, store, work, savepoints>>
    BY <1>10, <2>1 DEF BeginTx
  <2>3. /\ Len(handles') = n /\ \A g \in Ids : handles'[g] = handles[g]
        /\ handles'[n] = [tx |-> n, depth |-> 0, name |-> 0, began |-> work,
                          status |-> "open"]
        /\ \A g \in Ids : handles[g].tx \in 1 .. g
    <3>1. n \in 1 .. Len(handles) + 1 /\ 0 \in Nat
      BY <1>1, <2>1
    <3> QED  BY <2>1, <2>2, <3>1, NewTyped DEF IInv, TypeOK
  <2>4. OpenNow' = {} \cup {n}
    BY <1>1, <2>1, <2>2, <2>3 DEF OpenNow, InProgress
  <2>5. OpenLevels' = Append(<<>>, work)
    <3>1. <<>> \in Seq(SUBSET Marks) /\ Len(<<>>) = 0
      BY EmptySeq
    <3>2. handles'[n].depth = 0 /\ handles'[n].began = work
      BY <2>3
    <3>3. \A i \in 1 .. 0 : \E g \in {} : handles[g].depth + 1 = i
      OBVIOUS
    <3> QED  BY <1>1, <1>4, <2>2, <2>4, <3>1, <3>2, <3>3, PushesLevel
  <2>6. \A t : t # "open" => Ended(t)' = Ended(t)
    BY <1>1, <1>8, <2>1, <2>3
  <2>7. Nested!Begin
    BY <1>4, <2>2, <2>5, <2>6 DEF Nested!Begin
  <2> QED  BY <2>7 DEF Nested!Next
<1>11. CASE Lost
  <2>1. PICK h \in OpenNow : LastOpen(h)
    BY <1>3, <1>11, <1>8a DEF Lost
  <2>2. \A t : Ended(t)' = Ended(t)
    BY <1>7, <1>11 DEF Lost, Ids
  <2>3. Nested!Abort
    BY <1>5, <1>6, <1>11, <2>1, <2>2 DEF Lost, EndTx, Nested!Abort
  <2> QED  BY <2>3 DEF Nested!Next
<1>12. ASSUME NEW h \in Ids, Begin(h) PROVE Nested!Begin
  <2>1. PICK n : n = Len(handles) + 1
    OBVIOUS
  <2>2. /\ h \in OpenNow /\ LastOpen(h) /\ handles[h].tx = current /\ current # 0
        /\ handles' = New(current, handles[h].depth + 1, SpName(h))
        /\ UNCHANGED <<dialect, current, store, work>>
    BY <1>12 DEF Begin, MayUse, BeginSavepoint, OpenNow, InProgress
  <2>3. /\ Len(handles') = n /\ \A g \in Ids : handles'[g] = handles[g]
        /\ handles'[n] = [tx |-> current, depth |-> handles[h].depth + 1,
                          name |-> SpName(h), began |-> work, status |-> "open"]
    <3>1. current \in 1 .. Len(handles) + 1 /\ handles[h].depth + 1 \in Nat
      BY <1>1, <1>2, <2>2 DEF IInv, TypeOK
    <3> QED  BY <2>1, <2>2, <3>1, FreshName, NewTyped DEF IInv
  <2>4. OpenNow' = OpenNow \cup {n}
    <3>1. n \notin Ids /\ Ids' = Ids \cup {n}
      BY <1>1, <2>1, <2>3
    <3> QED  BY <2>2, <2>3, <3>1 DEF OpenNow, InProgress
  <2>5. OpenLevels' = Append(OpenLevels, work)
    <3> DEFINE d == handles[h].depth + 1
    <3>1. d \in Nat /\ handles'[n].depth = d /\ handles'[n].began = work
      BY <1>1, <1>2, <2>3
    <3>2. /\ OpenLevels \in Seq(SUBSET Marks) /\ Len(OpenLevels) = d
          /\ \A i \in 1 .. d : \E g \in OpenNow : handles[g].depth + 1 = i
          /\ \A g \in OpenNow : /\ handles[g].depth + 1 \in 1 .. d
                               /\ OpenLevels[handles[g].depth + 1] = handles[g].began
                               /\ handles'[g] = handles[g]
      BY <1>1, <2>2, <2>3, Levels
    <3> HIDE DEF d
    <3> QED  BY <1>1, <2>4, <3>1, <3>2, PushesLevel
  <2>6. \A t : t # "open" => Ended(t)' = Ended(t)
    BY <1>1, <1>8, <2>1, <2>3
  <2> QED  BY <2>2, <2>5, <2>6 DEF Nested!Begin
<1>13. ASSUME NEW h \in Ids, Exec(h) PROVE Nested!Write
  <2>1. h \in OpenNow /\ LastOpen(h)
    BY <1>13 DEF Exec, MayUse, Write, OpenNow
  <2>2. OpenLevels # <<>>
    BY <1>6, <2>1
  <2>3. OpenLevels' = OpenLevels
    BY <1>13 DEF Exec, Write, OpenLevels, OpenNow, InProgress, Ids
  <2>4. \A t : Ended(t)' = Ended(t)
    BY <1>13 DEF Exec, Write, Ended, Ids
  <2> QED  BY <1>13, <2>2, <2>3, <2>4 DEF Exec, Write, Nested!Write
\* The end of the innermost level pops it.
<1>14. ASSUME NEW h \in OpenNow, MayUse(h),
              CommitTx(h) \/ RollbackTx(h) \/ SpCommit(h) \/ SpRollback(h)
       PROVE  /\ OpenLevels # <<>> /\ OpenLevels' = Nested!Pop(OpenLevels)
              /\ Len(OpenLevels) = handles[h].depth + 1
              /\ OpenLevels[Len(OpenLevels)] = handles[h].began
  <2>1. /\ OpenLevels \in Seq(SUBSET Marks) /\ OpenLevels # <<>>
        /\ Len(OpenLevels) = handles[h].depth + 1
        /\ OpenLevels[Len(OpenLevels)] = handles[h].began
    BY <1>6, <1>14, Levels DEF MayUse
  <2>2. OpenLevels' = Nested!Pop(OpenLevels)
    <3>1. CASE IsRoot(h)
      <4>1. OpenLevels' = <<>>
        BY <1>1, <1>5, <1>14, <3>1
           DEF CommitTx, RollbackTx, SpCommit, SpRollback, EndTx
      <4>2. SubSeq(OpenLevels, 1, 0) = <<>>
        BY SubSeqEmpty
      <4>3. Len(OpenLevels) - 1 = 0
        BY <2>1, <3>1 DEF IsRoot
      <4> QED  BY <4>1, <4>2, <4>3 DEF Nested!Pop
    <3>2. CASE ~IsRoot(h)
      <4> DEFINE d == handles[h].depth
      <4>1. Same /\ OpenNow' = OpenNow \ {h}
        BY <1>14, <3>2, EndsLevel DEF Leaves, CommitTx, RollbackTx
      <4>2. d \in Nat /\ Len(OpenLevels) = d + 1
        BY <1>1, <1>2, <2>1
      <4>3. /\ \A i \in 1 .. d + 1 : \E g \in OpenNow : handles[g].depth + 1 = i
            /\ \A g \in OpenNow : /\ handles'[g].depth = handles[g].depth
                                 /\ handles'[g].began = handles[g].began
                                 /\ handles[g].depth \in Nat
                                 /\ OpenLevels[handles[g].depth + 1] = handles[g].began
        BY <1>1, <1>2, <1>14, <4>1, Levels DEF Same, MayUse
      <4>4. \A g \in OpenNow \ {h} : handles[g].depth < d
        BY <1>1, <1>14, Innermost DEF MayUse
      <4>5. handles[h].depth = d
        OBVIOUS
      <4> HIDE DEF d
      <4> QED  BY <2>1, <4>1, <4>2, <4>3, <4>4, <4>5, PopsLevel
    <3> QED  BY <3>1, <3>2
  <2> QED  BY <2>1, <2>2
<1>15. ASSUME NEW h \in OpenNow, MayUse(h), CommitTx(h) \/ SpCommit(h)
       PROVE  Nested!Commit
  <2>1. Set(h, "committed")
    BY <1>1, <1>15, Reached DEF CommitTx, SpCommit
  <2>2. Ended("committed")' = Ended("committed") + 1
        /\ Ended("rolledback")' = Ended("rolledback")
    <3>1. /\ handles[h].status = "open" /\ Ids' = Ids
          /\ \A g \in Ids : handles'[g].status =
                IF g = h THEN "committed" ELSE handles[g].status
      <4>1. TypeOK /\ h \in Ids /\ handles[h].status = "open"
        BY <1>15, <1>1 DEF IInv, MayUse
      <4> QED  BY <2>1, <4>1, SetTyped
    <3>2. \A t : t # "open" =>
                  Ended(t)' = IF t = "committed" THEN Ended(t) + 1 ELSE Ended(t)
      <4>1. TypeOK /\ h \in Ids /\ handles[h].status = "open" /\ Ids' = Ids
        BY <1>1, <3>1 DEF IInv
      <4>2. \A g \in Ids : handles'[g].status =
              IF g = h THEN "committed" ELSE handles[g].status
        BY <3>1
      <4> QED  BY <4>1, <4>2, CountedOnce
    <3> QED  BY <3>2
  <2>3. /\ work' = work
        /\ store' = IF Len(OpenLevels) = 1 THEN work ELSE store
    <3>1. CASE IsRoot(h)
      <4>1. Len(OpenLevels) = 1
        BY <1>14, <1>15, <3>1, 0 + 1 = 1 DEF IsRoot
      <4> QED  BY <1>1, <1>15, <3>1, <4>1 DEF CommitTx, SpCommit, EndTx
    <3>2. CASE ~IsRoot(h)
      <4>1. Len(OpenLevels) # 1
        BY <1>1, <1>2, <1>14, <1>15, <3>2 DEF IsRoot
      <4> QED  BY <1>1, <1>15, <3>2, <4>1, Reached DEF CommitTx, SpCommit
    <3> QED  BY <3>1, <3>2
  <2> QED  BY <1>14, <1>15, <2>2, <2>3 DEF Nested!Commit
<1>16. ASSUME NEW h \in OpenNow, MayUse(h), RollbackTx(h) \/ SpRollback(h)
       PROVE  Nested!Rollback
  <2>1. Set(h, "rolledback")
    BY <1>1, <1>16, Reached DEF RollbackTx, SpRollback
  <2>2. Ended("rolledback")' = Ended("rolledback") + 1
        /\ Ended("committed")' = Ended("committed")
    <3>1. /\ handles[h].status = "open" /\ Ids' = Ids
          /\ \A g \in Ids : handles'[g].status =
                IF g = h THEN "rolledback" ELSE handles[g].status
      <4>1. TypeOK /\ h \in Ids /\ handles[h].status = "open"
        BY <1>16, <1>1 DEF IInv, MayUse
      <4> QED  BY <2>1, <4>1, SetTyped
    <3>2. \A t : t # "open" =>
                  Ended(t)' = IF t = "rolledback" THEN Ended(t) + 1 ELSE Ended(t)
      <4>1. TypeOK /\ h \in Ids /\ handles[h].status = "open" /\ Ids' = Ids
        BY <1>1, <3>1 DEF IInv
      <4>2. \A g \in Ids : handles'[g].status =
              IF g = h THEN "rolledback" ELSE handles[g].status
        BY <3>1
      <4> QED  BY <4>1, <4>2, CountedOnce
    <3> QED  BY <3>2
  <2>3. work' = handles[h].began /\ store' = store
    <3>1. CASE IsRoot(h)
      <4>1. h = current /\ handles[h].began = store
        BY <1>1, <3>1 DEF IInv, Shapes, RootOpen, InProgress
      <4> QED  BY <1>1, <1>16, <3>1, <4>1 DEF RollbackTx, SpRollback, EndTx
    <3>2. CASE ~IsRoot(h)
      <4>1. Restore(handles[h].name) /\ store' = store
        BY <1>16, <3>2, Reached DEF RollbackTx, SpRollback
      <4> QED  BY <3>2, <4>1, Reached DEF Restore, IsOf
    <3> QED  BY <3>1, <3>2
  <2> QED  BY <1>14, <1>16, <2>2, <2>3 DEF Nested!Rollback
\* A call on a handle of another transaction changes no level and is no
\* Commit or Rollback that was done.
<1>17. ASSUME NEW h \in Ids, MayUse(h), ~InProgress(h), Finish(h)
       PROVE  UNCHANGED Nested!vars
  <2>1. Set(h, "failed") \/ Set(h, "void")
    BY <1>17 DEF Finish, CommitTx, RollbackTx, SpCommit, SpRollback, Refused, Reaches
  <2>2. UNCHANGED <<dialect, current, store, work, savepoints>>
    BY <1>17 DEF Finish, CommitTx, RollbackTx, SpCommit, SpRollback, Refused, Reaches
  <2>3. PICK s : s \in {"failed", "void"} /\ Set(h, s)
    BY <2>1
  <2>4. /\ Same
        /\ \A g \in Ids : handles'[g].status = IF g = h THEN s ELSE handles[g].status
    BY <1>17, <2>3, SetTyped DEF IInv, Same, MayUse
  <2>5. OpenLevels' = OpenLevels
    <3>1. OpenNow' = OpenNow
      BY <1>17, <2>2, <2>4 DEF Same, OpenNow, InProgress
    <3>2. \A g \in OpenNow : /\ handles'[g].depth = handles[g].depth
                            /\ handles'[g].began = handles[g].began
      BY <1>1, <2>4 DEF Same
    <3>3. CASE OpenNow = {}
      BY <3>1, <3>3 DEF OpenLevels
    <3>4. CASE OpenNow # {}
      <4>1. PICK f \in OpenNow : LastOpen(f)
        BY <1>8a, <3>4
      <4>2. PICK n : n = handles[f].depth + 1 /\ n \in Nat
        BY <1>1, <1>2
      <4>3. /\ OpenLevels = [i \in 1 .. n |-> OpenLevels[i]]
            /\ \A g \in OpenNow' : /\ handles'[g].depth + 1 \in 1 .. n
                                  /\ OpenLevels[handles'[g].depth + 1] = handles'[g].began
            /\ \A i \in 1 .. n : \E g \in OpenNow' : handles'[g].depth + 1 = i
        BY <3>1, <3>2, <4>1, <4>2, Levels, LenProperties
      <4>4. [i \in {handles'[g].depth + 1 : g \in OpenNow'} |->
               handles'[CHOOSE g \in OpenNow' : handles'[g].depth + 1 = i].began]
              = OpenLevels
        BY <4>2, <4>3, LevelsAre
      <4> QED  BY <4>4 DEF OpenLevels
    <3> QED  BY <3>3, <3>4
  <2>6. /\ Ended("committed")' = Ended("committed")
        /\ Ended("rolledback")' = Ended("rolledback")
    <3>1. handles[h].status = "open" /\ s \notin {"committed", "rolledback"}
      BY <1>17, <2>3 DEF MayUse
    <3>2. \A t : t # "open" => Ended(t)' = IF t = s THEN Ended(t) + 1 ELSE Ended(t)
      <4>1. TypeOK /\ h \in Ids /\ Ids' = Ids
        BY <2>4 DEF IInv, Same
      <4>2. \A g \in Ids :
              handles'[g].status = IF g = h THEN s ELSE handles[g].status
        BY <2>4
      <4>3. handles[h].status = "open"
        BY <3>1
      <4> QED  BY <4>1, <4>2, <4>3, CountedOnce
    <3> QED  BY <3>1, <3>2
  <2> QED  BY <2>2, <2>5, <2>6
<1>18. ASSUME NEW h \in Ids, LateRollback(h) PROVE [Nested!Next]_(Nested!vars)
  BY <1>9, <1>18, LateRefused
<1>19. ASSUME NEW h \in Ids, Commit(h) \/ Rollback(h)
       PROVE  [Nested!Next]_(Nested!vars)
  <2>1. MayUse(h) /\ Finish(h)
    BY <1>19 DEF Commit, Rollback, Finish
  <2>2. CASE InProgress(h)
    <3>1. h \in OpenNow
      BY <2>1, <2>2 DEF MayUse, OpenNow
    <3> QED  BY <1>15, <1>16, <1>19, <2>1, <3>1 DEF Commit, Rollback, Nested!Next
  <2>3. CASE ~InProgress(h)
    BY <1>17, <2>1, <2>3
  <2> QED  BY <2>2, <2>3
<1> QED  BY <1>9, <1>10, <1>11, <1>12, <1>13, <1>18, <1>19 DEF Next, Nested!Next

\* ImplementsNestedTx: used from the inside out, liteorm's handles over the
\* savepoints of any of the four engines are nested transactions, and what
\* Commit and Rollback report is what happened.
THEOREM HandlesNest ==
  ASSUME "mssql" \notin DeferOn PROVE Spec => ImplementsNestedTx
<1>1. Init => Nested!Init
  <2> SUFFICES ASSUME Init PROVE Nested!Init
    OBVIOUS
  <2>1. Ids = {} /\ OpenNow = {}
    BY DEF Init, Ids, OpenNow
  <2>2. \A t : Ended(t) = 0
    BY <2>1, FS_EmptySet DEF Ended
  <2> QED  BY <2>1, <2>2, NoLevels DEF Init, Nested!Init
<1>2. IInv /\ IInv' /\ [Next]_vars => [Nested!Next]_(Nested!vars)
  BY StepImplements
<1> QED  BY <1>1, <1>2, Invariance, PTL DEF Spec, ImplementsNestedTx, Nested!Spec

(***************************************************************************)
(* TransactionRetry.                                                       *)
(***************************************************************************)
\* The effect becomes durable in the step that ends the call or is about to: a
\* COMMIT that may have been executed leaves no error that is tried again.
AppliedIsFinal ==
  /\ applied \in {0, 1}
  /\ applied = 1 => /\ pc \in {"decide", "done"} /\ err \in {"nil", "fatal"}
                    /\ err = "fatal" => ~answered
  /\ pc = "commit" => err = "nil"
  /\ pc = "rollback" => err # "nil"
  /\ pc \in {"decide", "done"} /\ err = "nil" => applied = 1

\* Only an attempt that may be followed by another one waits.
WaitHasNext == pc = "wait" => attempt < Attempts

RetryInv == RetryTypeOK /\ AppliedIsFinal /\ WaitHasNext /\ ConnectionReturned

\* A Max that is given as 0 counts as 1.
LEMMA AttemptsIsCount == RetryTypeOK => Attempts \in Nat /\ Attempts >= 1
  BY PoliciesAssumption DEF RetryTypeOK, Attempts

\* The invariant holds before the first attempt ...
LEMMA RetryStarts == RetryInit => RetryInv
<1>1. RetryInit => RetryTypeOK
  <2> SUFFICES ASSUME RetryInit PROVE RetryTypeOK
    OBVIOUS
  <2>1. Attempts \in Nat /\ Attempts >= 1
    BY PoliciesAssumption DEF RetryInit, Attempts
  <2>2. attempt \in 1 .. Attempts
    BY <2>1 DEF RetryInit
  <2> QED
    BY <2>2 DEF RetryInit, RetryTypeOK, Errors
<1> QED
  BY <1>1 DEF RetryInit, RetryInv, AppliedIsFinal, WaitHasNext, ConnectionReturned

\* ... and every step of the call, and a cancellation, keep it.
LEMMA RetryGoesOn == RetryInv /\ [RetryNext]_retryVars => RetryInv'
<1> SUFFICES ASSUME RetryInv, [RetryNext]_retryVars PROVE RetryInv'
  OBVIOUS
<1> USE DEF RetryInv, RetryTypeOK, AppliedIsFinal, WaitHasNext, ConnectionReturned, Errors,
        call
<1>1. Attempts \in Nat /\ Attempts >= 1
  BY AttemptsIsCount
<1>2. UNCHANGED max => Attempts' = Attempts
  BY DEF Attempts
<1>3. CASE Cancel
  BY <1>2, <1>3 DEF Cancel
<1>4. CASE BeginAttempt
  <2>1. applied = 0 /\ ~open /\ pc = "begin"
    BY <1>4 DEF BeginAttempt
  <2>2. CASE pc' = "fn" /\ open' = TRUE /\ err' = "nil"
    BY <1>2, <1>4, <2>1, <2>2 DEF BeginAttempt
  <2>3. CASE pc' = "decide" /\ open' = open /\ err' \in {"ctx", "retryable", "fatal"}
    BY <1>2, <1>4, <2>1, <2>3 DEF BeginAttempt
  <2> QED
    BY <1>4, <2>2, <2>3 DEF BeginAttempt
<1>5. CASE Fn
  BY <1>2, <1>5 DEF Fn
<1>6. CASE RollbackAttempt
  BY <1>2, <1>6 DEF RollbackAttempt
<1>7. CASE CommitAttempt
  <2>1. /\ applied = 0 /\ pc = "commit" /\ pc' = "decide"
        /\ open' = FALSE /\ effect' = FALSE
        /\ UNCHANGED <<max, backoff, attempt, cancelled>>
    BY <1>7 DEF CommitAttempt
  <2>2. CASE err' = "nil" /\ applied' = applied + 1 /\ UNCHANGED answered
    <3>1. applied' = 1
      BY <2>1, <2>2
    <3>2. attempt' \in 1 .. Attempts'
      BY <1>2, <2>1
    <3>3. applied' \in Nat
      BY <3>1
    <3>4. err' \in Errors /\ pc' \in {"decide"} /\ answered' \in BOOLEAN
      BY <2>1, <2>2
    <3>5. max' \in Policies /\ backoff' \in BOOLEAN /\ cancelled' \in BOOLEAN
      BY <2>1
    <3>6. RetryTypeOK'
      BY <2>1, <3>2, <3>3, <3>4, <3>5
    <3> QED
      BY <2>1, <2>2, <3>1, <3>6
  <2>3. CASE err' = "fatal" /\ applied' = applied + 1 /\ answered' = FALSE
    <3>1. applied' = 1
      BY <2>1, <2>3
    <3>2. attempt' \in 1 .. Attempts'
      BY <1>2, <2>1
    <3>3. applied' \in Nat
      BY <3>1
    <3>4. err' \in Errors /\ pc' \in {"decide"} /\ answered' \in BOOLEAN
      BY <2>1, <2>3
    <3>5. max' \in Policies /\ backoff' \in BOOLEAN /\ cancelled' \in BOOLEAN
      BY <2>1
    <3>6. RetryTypeOK'
      BY <2>1, <3>2, <3>3, <3>4, <3>5
    <3> QED
      BY <2>1, <2>3, <3>1, <3>6
  <2>4. CASE err' \in {"ctx", "retryable", "fatal"} /\ UNCHANGED <<applied, answered>>
    BY <1>2, <1>7, <2>1, <2>4 DEF CommitAttempt
  <2> QED
    BY <1>7, <2>2, <2>3, <2>4 DEF CommitAttempt
<1>8. CASE Decide
  BY <1>1, <1>2, <1>8 DEF Decide, IsRetryable
<1>9. CASE Wait
  BY <1>1, <1>2, <1>9 DEF Wait
<1>10. CASE UNCHANGED retryVars
  BY <1>2, <1>10 DEF retryVars
<1> QED
  BY <1>3, <1>4, <1>5, <1>6, <1>7, <1>8, <1>9, <1>10 DEF RetryNext, Step

\* What is true of a call wherever it is.
LEMMA RetryInvariant == RetrySpec => []RetryInv
  BY RetryStarts, RetryGoesOn, PTL DEF RetrySpec

\* For every policy, no retry runs fn again after its effect may be durable.
THEOREM AtMostOnce == RetrySpec => []AppliedAtMostOnce
<1>1. RetryInv => AppliedAtMostOnce
  BY DEF RetryInv, AppliedIsFinal, AppliedAtMostOnce
<1> QED
  BY RetryInvariant, <1>1, PTL

\* For every policy, nil means applied and an error means not applied, except
\* after a COMMIT the engine did not answer.
THEOREM HonestOutcome == RetrySpec => []OutcomeIsHonest
<1>1. RetryInv => OutcomeIsHonest
  BY DEF RetryInv, RetryTypeOK, AppliedIsFinal, OutcomeIsHonest
<1> QED
  BY RetryInvariant, <1>1, PTL

\* For every policy and on every way out, a panic of fn included, the
\* connection of an attempt is given back before the next attempt or the end.
THEOREM NoConnectionKept == RetrySpec => []ConnectionReturned
<1>1. RetryInv => ConnectionReturned
  BY DEF RetryInv
<1> QED
  BY RetryInvariant, <1>1, PTL

\* "A cancelled context stops the wait between attempts": once the caller has
\* gone no attempt starts fn, for every policy and wherever the call is (the
\* second half of Returns; that the call ends is left to TLC).
THEOREM NotStartedAgain ==
  RetrySpec => [][cancelled => ~(pc # "fn" /\ pc' = "fn")]_retryVars
<1>1. RetryInv /\ [RetryNext]_retryVars => [cancelled => ~(pc # "fn" /\ pc' = "fn")]_retryVars
  BY DEF RetryNext, Step, Cancel, BeginAttempt, Fn, RollbackAttempt, CommitAttempt, Decide, Wait
<1> QED
  BY RetryInvariant, <1>1, PTL DEF RetrySpec
=============================================================================
