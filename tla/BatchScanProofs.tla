-------------------------- MODULE BatchScanProofs --------------------------
(***************************************************************************)
(* FindInBatches, for every set of keys and every batch size: no row is    *)
(* given to fn twice unless fn lowered the key of a last element, and no   *)
(* row that stays is left out unless fn raised one.                        *)
(*                                                                         *)
(* Neither property is inductive.  A row seen is behind the cursor, which  *)
(* is what keeps it from being seen again (Behind); a row that stays and is*)
(* not seen yet is ahead of the cursor, in the batch, or after a batch that*)
(* is full (Ahead).                                                        *)
(***************************************************************************)
EXTENDS BatchScan, FiniteSetTheorems, TLAPS

Behind ==
  \A k \in Keys : seen[k] > 0 /\ "down" \notin moved =>
    /\ pc = "query" => cursor # NoKey /\ k <= cursor
    /\ pc = "fn" => \A b \in batch : k < b

Ahead ==
  \A k \in stable : seen[k] = 0 /\ "up" \notin moved =>
    /\ pc = "query" => cursor = NoKey \/ k > cursor
    /\ pc = "fn" => \/ k \in batch
                    \/ Cardinality(batch) = BatchSize /\ \A b \in batch : b < k

NoneTwiceInv == TypeOK /\ Behind /\ NoneTwice

NoneSkippedInv == TypeOK /\ Ahead /\ NoneSkipped /\ (result = "nil" => pc = "done")

USE BatchScanAssumption

-----------------------------------------------------------------------------
(* Types.                                                                  *)

\* A walk starts well typed.
LEMMA TypeInit == Init => TypeOK
<1> SUFFICES ASSUME Init PROVE TypeOK
  OBVIOUS
<1>1. Cardinality(batch) <= BatchSize
  BY FS_EmptySet DEF Init
<1> QED
  BY <1>1 DEF Init, TypeOK

\* What a call of fn does to seen keeps it a count up to 2; no batch is left.
LEMMA GivenType ==
  ASSUME TypeOK, Given
  PROVE  /\ seen' \in [Keys -> 0 .. 2]
         /\ batch' \in SUBSET Keys /\ Cardinality(batch') <= BatchSize
BY FS_EmptySet DEF TypeOK, Given

\* Every step keeps the types: a batch comes from Query, and fn takes it away.
LEMMA TypeNext == TypeOK /\ [Next]_vars => TypeOK'
<1> SUFFICES ASSUME TypeOK, [Next]_vars PROVE TypeOK'
  OBVIOUS
<1>1. CASE Query
  <2>1. CASE batch' = batch /\ pc' = "done"
    BY <1>1, <2>1 DEF TypeOK, Query, Return
  <2>2. CASE pc' = "fn"
    <3>1. After # {} /\ batch' \subseteq After /\ IsPrefix(batch')
      BY <1>1, <2>2 DEF Query, Return
    <3>2. batch' # {} /\ Cardinality(batch') <= BatchSize
      BY <3>1, FS_EmptySet DEF IsPrefix
    <3>3. batch' \subseteq Keys /\ (cursor # NoKey => \A b \in batch' : b > cursor)
      BY <3>1 DEF After, TypeOK
    <3> QED
      BY <1>1, <2>2, <3>2, <3>3 DEF TypeOK, Query, Return
  <2> QED
    BY <1>1, <2>1, <2>2 DEF Query, Return
<1>2. CASE FnReturns
  BY <1>2, GivenType DEF TypeOK, FnReturns, Return
<1>3. CASE Fn
  BY <1>3, GivenType DEF TypeOK, Fn
<1>4. CASE FnRaises
  BY <1>4, GivenType DEF TypeOK, FnRaises
<1>5. CASE FnLowers
  BY <1>5, GivenType DEF TypeOK, FnLowers
<1>6. CASE Insert
  BY <1>6 DEF TypeOK, Insert
<1>7. CASE Remove
  BY <1>7 DEF TypeOK, Remove
<1>8. CASE UNCHANGED vars
  BY <1>8 DEF TypeOK, vars
<1> QED
  BY <1>1, <1>2, <1>3, <1>4, <1>5, <1>6, <1>7, <1>8 DEF Next, Step

-----------------------------------------------------------------------------
(* No row twice.                                                           *)

\* Nothing has been seen at the start.
LEMMA NoneTwiceInit == Init => NoneTwiceInv
BY TypeInit DEF Init, NoneTwiceInv, Behind, NoneTwice

\* The rows of a batch have not been seen, and now they have.
LEMMA GivenOnce ==
  ASSUME NoneTwiceInv, pc = "fn", Given, "down" \notin moved
  PROVE  /\ \A k \in Keys : seen'[k] <= 1
         /\ \A k \in Keys : seen'[k] > 0 => seen[k] > 0 \/ k \in batch
<1>1. \A k \in batch : seen[k] = 0
  <2> SUFFICES ASSUME NEW k \in batch, seen[k] # 0 PROVE FALSE
    OBVIOUS
  <2>1. k \in Int /\ seen[k] > 0
    BY DEF NoneTwiceInv, TypeOK
  <2> QED
    BY <2>1 DEF NoneTwiceInv, TypeOK, Behind
<1> QED
  BY <1>1 DEF NoneTwiceInv, TypeOK, NoneTwice, Given

\* A call of fn that leaves in the last element the key it had, or a greater one.
LEMMA BehindNext ==
  ASSUME NoneTwiceInv, TypeOK', pc = "fn", Given, moved \subseteq moved',
         pc' = "query", cursor' \in Keys, \A b \in batch : b <= cursor'
  PROVE  NoneTwice' /\ Behind'
<1>1. NoneTwice'
  BY GivenOnce DEF NoneTwice
<1>2. SUFFICES ASSUME NEW k \in Keys, seen'[k] > 0, "down" \notin moved'
               PROVE  cursor' # NoKey /\ k <= cursor'
  BY <1>1 DEF Behind
<1>3. seen[k] > 0 \/ k \in batch
  BY <1>2, GivenOnce
<1>4. CASE seen[k] > 0
  <2>1. PICK b \in batch : TRUE
    BY DEF NoneTwiceInv, TypeOK
  <2>2. k < b /\ b <= cursor'
    BY <1>2, <1>4, <2>1 DEF NoneTwiceInv, Behind
  <2>3. k \in Int /\ b \in Int /\ cursor' \in Int
    BY <2>1 DEF NoneTwiceInv, TypeOK
  <2> QED
    BY <2>2, <2>3
<1> QED
  BY <1>3, <1>4

\* No step gives a row again, unless fn has lowered a last key.
LEMMA NoneTwiceNext == NoneTwiceInv /\ [Next]_vars => NoneTwiceInv'
<1> SUFFICES ASSUME NoneTwiceInv, [Next]_vars PROVE NoneTwiceInv'
  OBVIOUS
<1>t. TypeOK /\ TypeOK'
  BY TypeNext DEF NoneTwiceInv
<1>1. CASE Query
  <2>1. NoneTwice'
    BY <1>1 DEF NoneTwiceInv, NoneTwice, Query
  <2>2. Behind'
    <3> SUFFICES ASSUME NEW k \in Keys, seen'[k] > 0, "down" \notin moved'
                 PROVE  /\ pc' = "query" => cursor' # NoKey /\ k <= cursor'
                        /\ pc' = "fn" => \A b \in batch' : k < b
      BY DEF Behind
    <3>1. cursor # NoKey /\ k <= cursor
      BY <1>1 DEF NoneTwiceInv, Behind, Query
    <3>2. pc' # "query"
      BY <1>1 DEF Query, Return
    <3>3. ASSUME pc' = "fn", NEW b \in batch' PROVE k < b
      <4>1. b \in After
        BY <1>1, <3>3 DEF Query, Return
      <4>2. b > cursor /\ b \in Int /\ k \in Int /\ cursor \in Int
        BY <1>t, <3>1, <4>1 DEF After, TypeOK
      <4> QED
        BY <3>1, <4>2
    <3> QED
      BY <1>1, <3>1, <3>2, <3>3 DEF Query
  <2> QED
    BY <1>t, <2>1, <2>2 DEF NoneTwiceInv
<1>2. CASE FnReturns
  <2>1. pc = "fn" /\ Given
    BY <1>2 DEF FnReturns
  <2>2. Behind' /\ NoneTwice'
    BY <1>2, <2>1, GivenOnce DEF NoneTwice, Behind, FnReturns, Return
  <2> QED
    BY <1>t, <2>2 DEF NoneTwiceInv
<1>3. CASE Fn
  BY <1>3, <1>t, BehindNext DEF Fn, NoneTwiceInv, TypeOK
<1>4. CASE FnRaises
  <2>1. \A b \in batch : b <= cursor'
    BY <1>4, <1>t DEF FnRaises, TypeOK
  <2> QED
    BY <1>4, <1>t, <2>1, BehindNext DEF FnRaises, NoneTwiceInv
<1>5. CASE FnLowers
  BY <1>5, <1>t DEF NoneTwiceInv, NoneTwice, Behind, FnLowers
<1>6. CASE Insert
  BY <1>6, <1>t DEF NoneTwiceInv, NoneTwice, Behind, Insert
<1>7. CASE Remove
  BY <1>7, <1>t DEF NoneTwiceInv, NoneTwice, Behind, Remove
<1>8. CASE UNCHANGED vars
  BY <1>8, <1>t DEF NoneTwiceInv, NoneTwice, Behind, vars
<1> QED
  BY <1>1, <1>2, <1>3, <1>4, <1>5, <1>6, <1>7, <1>8 DEF Next, Step

\* TypeOK holds of every walk.
THEOREM ScanTypes == Spec => []TypeOK
<1>1. Init => TypeOK
  BY TypeInit
<1>2. TypeOK /\ [Next]_vars => TypeOK'
  BY TypeNext
<1> QED
  BY <1>1, <1>2, PTL DEF Spec

\* No row is given to fn twice, whatever it is given and others write, unless fn
\* lowers the key the loop goes on from.
THEOREM ScanOnce == Spec => []NoneTwice
<1>1. Init => NoneTwiceInv
  BY NoneTwiceInit
<1>2. NoneTwiceInv /\ [Next]_vars => NoneTwiceInv'
  BY NoneTwiceNext
<1>3. NoneTwiceInv => NoneTwice
  BY DEF NoneTwiceInv
<1> QED
  BY <1>1, <1>2, <1>3, PTL DEF Spec

-----------------------------------------------------------------------------
(* No row left out.                                                        *)

\* Everything is ahead at the start.
LEMMA NoneSkippedInit == Init => NoneSkippedInv
BY TypeInit DEF Init, NoneSkippedInv, Ahead, NoneSkipped

\* A row not seen before a call of fn and not after it was not in the batch.
LEMMA NotGiven ==
  ASSUME TypeOK, Given, NEW k \in Keys, seen'[k] = 0
  PROVE  seen[k] = 0 /\ k \notin batch
BY DEF TypeOK, Given

\* No step leaves a row behind unseen, unless fn has raised a last key.
LEMMA NoneSkippedNext == NoneSkippedInv /\ [Next]_vars => NoneSkippedInv'
<1> SUFFICES ASSUME NoneSkippedInv, [Next]_vars PROVE NoneSkippedInv'
  OBVIOUS
<1>t. TypeOK /\ TypeOK'
  BY TypeNext DEF NoneSkippedInv
<1>s. stable \subseteq Keys /\ Keys \subseteq Int
  BY <1>t DEF TypeOK
<1>1. CASE Query
  <2>1. Ahead'
    <3> SUFFICES ASSUME "up" \notin moved, NEW k \in stable, seen[k] = 0, pc' = "fn"
                 PROVE  \/ k \in batch'
                        \/ /\ Cardinality(batch') = BatchSize
                           /\ \A b \in batch' : b < k
      BY <1>1 DEF Ahead, Query, Return
    <3>1. k \in After
      BY <1>1, <1>t DEF NoneSkippedInv, Ahead, Query, After, TypeOK
    <3>2. IsPrefix(batch')
      BY <1>1 DEF Query, Return
    <3> QED
      BY <3>1, <3>2 DEF IsPrefix
  <2>2. NoneSkipped' /\ (result' = "nil" => pc' = "done")
    <3>1. CASE After = {} /\ Return("nil")
      <4> SUFFICES ASSUME "up" \notin moved, NEW k \in stable, seen[k] = 0 PROVE FALSE
        BY <1>1, <1>t, <1>s, <3>1 DEF NoneSkipped, Query, Return, TypeOK
      <4> QED
        BY <1>1, <1>t, <3>1 DEF NoneSkippedInv, Ahead, Query, After, TypeOK
    <3>2. CASE ~(After = {} /\ Return("nil"))
      BY <1>1, <3>2 DEF NoneSkippedInv, NoneSkipped, Query, Return
    <3> QED
      BY <3>1, <3>2
  <2> QED
    BY <1>t, <2>1, <2>2 DEF NoneSkippedInv
<1>2. CASE FnReturns
  <2>1. NoneSkipped'
    <3> SUFFICES ASSUME result' = "nil", "up" \notin moved,
                        NEW k \in stable, seen'[k] = 0
                 PROVE  FALSE
      BY <1>2, <1>t, <1>s DEF NoneSkipped, FnReturns, TypeOK
    <3>1. seen[k] = 0 /\ k \notin batch
      BY <1>2, <1>t, <1>s, NotGiven DEF FnReturns
    <3>2. pc = "fn" /\ Cardinality(batch) < BatchSize
      BY <1>2 DEF FnReturns, Return, IsShort
    <3> QED
      BY <3>1, <3>2 DEF NoneSkippedInv, Ahead
  <2>2. Ahead' /\ pc' = "done"
    BY <1>2 DEF Ahead, FnReturns, Return
  <2> QED
    BY <1>t, <2>1, <2>2 DEF NoneSkippedInv
<1>3. CASE Fn
  <2>1. Ahead'
    <3> SUFFICES ASSUME "up" \notin moved, NEW k \in stable, seen'[k] = 0
                 PROVE  k > cursor'
      BY <1>3 DEF Ahead, Fn
    <3>1. seen[k] = 0 /\ k \notin batch
      BY <1>3, <1>t, <1>s, NotGiven DEF Fn
    <3>2. cursor' \in batch
      BY <1>3 DEF Fn
    <3>3. \A b \in batch : b < k
      BY <1>3, <3>1 DEF NoneSkippedInv, Ahead, Fn
    <3>4. k \in Int /\ cursor' \in Int
      BY <1>t, <1>s, <3>2 DEF TypeOK
    <3> QED
      BY <3>2, <3>3, <3>4
  <2>2. NoneSkipped' /\ (result' = "nil" => pc' = "done")
    BY <1>3 DEF NoneSkippedInv, NoneSkipped, Fn
  <2> QED
    BY <1>t, <2>1, <2>2 DEF NoneSkippedInv
<1>4. CASE FnRaises
  <2>1. Ahead' /\ NoneSkipped'
    BY <1>4 DEF Ahead, NoneSkipped, FnRaises
  <2>2. result' = "nil" => pc' = "done"
    BY <1>4 DEF NoneSkippedInv, FnRaises
  <2> QED
    BY <1>t, <2>1, <2>2 DEF NoneSkippedInv
<1>5. CASE FnLowers
  <2>1. Ahead'
    <3> SUFFICES ASSUME "up" \notin moved, NEW k \in stable, seen'[k] = 0
                 PROVE  k > cursor'
      BY <1>5 DEF Ahead, FnLowers
    <3>1. seen[k] = 0 /\ k \notin batch
      BY <1>5, <1>t, <1>s, NotGiven DEF FnLowers
    <3>2. PICK b \in batch : cursor' < b
      BY <1>5 DEF FnLowers
    <3>3. b < k
      BY <1>5, <3>1, <3>2 DEF NoneSkippedInv, Ahead, FnLowers
    <3>4. cursor' \in Keys \cup {0}
      BY <1>5 DEF FnLowers
    <3>5. k \in Int /\ b \in Int /\ cursor' \in Int
      BY <1>t, <1>s, <3>2, <3>4 DEF TypeOK
    <3> QED
      BY <3>2, <3>3, <3>5
  <2>2. NoneSkipped' /\ (result' = "nil" => pc' = "done")
    BY <1>5 DEF NoneSkippedInv, NoneSkipped, FnLowers
  <2> QED
    BY <1>t, <2>1, <2>2 DEF NoneSkippedInv
<1>6. CASE Insert
  BY <1>6, <1>t DEF NoneSkippedInv, NoneSkipped, Ahead, Insert
<1>7. CASE Remove
  BY <1>7, <1>t DEF NoneSkippedInv, NoneSkipped, Ahead, Remove
<1>8. CASE UNCHANGED vars
  BY <1>8, <1>t DEF NoneSkippedInv, NoneSkipped, Ahead, vars
<1> QED
  BY <1>1, <1>2, <1>3, <1>4, <1>5, <1>6, <1>7, <1>8 DEF Next, Step

\* A walk whose fn raises no key of a last element leaves no row out.
THEOREM ScanComplete == Spec => []NoneSkipped
<1>1. Init => NoneSkippedInv
  BY NoneSkippedInit
<1>2. NoneSkippedInv /\ [Next]_vars => NoneSkippedInv'
  BY NoneSkippedNext
<1>3. NoneSkippedInv => NoneSkipped
  BY DEF NoneSkippedInv
<1> QED
  BY <1>1, <1>2, <1>3, PTL DEF Spec
=============================================================================
