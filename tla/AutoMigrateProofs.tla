-------------------------- MODULE AutoMigrateProofs --------------------------
(***************************************************************************)
(* Migrations, for every set of processes, models, tables and rows, on     *)
(* every engine, with any number of failures: a call that returns nil has  *)
(* left nothing of its models missing, and its indexes are made as they    *)
(* declare or as another release does; one that found it all there changes *)
(* nothing, the two scripts of a review are inverse, and a sidecar follows *)
(* its table if it is of one table only.  Relations can be loaded and      *)
(* types are compared by what they are, if the schemas declare the keys    *)
(* and settle the types.                                                   *)
(*                                                                         *)
(* Only a review and a drop take anything out of the catalogue, and they   *)
(* run alone.  So while a migration is in progress what there is stays,    *)
(* whoever made it, and Reached says what there is at each stage.          *)
(***************************************************************************)
EXTENDS AutoMigrate, WellFoundedInduction, TLAPS

InProgress(p) == call[p].at \notin AtRest

Same(p, at, k, todo) ==
  [at |-> at, m |-> call[p].m, k |-> k, todo |-> todo, down |-> call[p].down,
   before |-> call[p].before, clean |-> call[p].clean]

IsCall(c) ==
  c = [at |-> c.at, m |-> c.m, k |-> c.k, todo |-> c.todo, down |-> c.down,
       before |-> c.before, clean |-> c.clean]

Shapes ==
  /\ request \in Scenarios
  /\ call = [p \in Procs |-> call[p]]
  /\ cols = [t \in Tables |-> cols[t]]
  /\ rows = [t \in Tables |-> rows[t]]
  /\ faults \in 0 .. MaxFaults
  /\ \A p \in Procs :
       LET c == call[p]
       IN /\ IsCall(c)
          /\ c.m \in DOMAIN request[p].models
          /\ c.k \in Nat
          /\ c.todo \subseteq Nat

\* The stages of a migration that are not those of a drop too.
Migrating == {"columns", "create", "add", "indexes", "sync", "joins", "join", "search", "lobs",
              "store"}

\* A call has statements to do exactly in the stages that are made of statements, and
\* they are statements of its stage.
Staged(op, m, c) ==
  /\ c.at \in AtRest \cup Migrating
                \cup {"model", "specs", "drop", "up", "reviewed", "down", "end"}
  /\ c.todo # {} <=> c.at \in DOMAIN After
  /\ c.at \in Migrating => op \in {"migrate", "all"}
  /\ c.at = "drop" => op = "drop"
  /\ c.at = "specs" => op # "review"
  /\ c.at \in {"up", "reviewed", "down"} => op = "review" /\ c.down \subseteq DOMAIN m.fields
  /\ c.at = "create" => c.todo \subseteq {0} \cup DOMAIN IndexDefs(m)
  /\ c.at = "add" => c.todo \subseteq DOMAIN m.fields
  /\ c.at \in {"up", "down"} => c.todo \subseteq c.down
  /\ c.at = "sync" => c.todo \subseteq DOMAIN IndexDefs(m)
  /\ c.at = "join" => c.todo = {1} /\ c.k \in Junctions(m)
  /\ c.at \in {"search", "drop"} =>
       c.k \in DOMAIN m.search /\ m.search[c.k].valid /\ dialect = "sqlite"
  /\ c.at = "search" => c.todo \subseteq DOMAIN ProvisionSearchSQL(m, m.search[c.k])
  /\ c.at = "drop" => c.todo \subseteq 1 .. 4 /\ 4 \in c.todo
  /\ c.at = "store" => c.todo \subseteq DOMAIN m.lobs

Stages == \A p \in Procs : Staged(request[p].op, Model(p), call[p])

\* Nothing runs beside a drop or a review.
Alone ==
  \A p, q \in Procs : p # q /\ Exclusive(p) /\ InProgress(p) => ~InProgress(q)

(***************************************************************************)
(* What a migration has made so far.                                       *)
(***************************************************************************)
HasField(m, i) == m.fields[i].column \in ColumnNames(m.table)

IndexNames(t) == {i.name : i \in {x \in idx : x.table = t}}

HasIndex(m, j) == IndexDefs(m)[j].name \in IndexNames(m.table)

HasJunction(m, i) == cols[m.relations[i].join] # {}

HasTriggers(m, s) == \A e \in Events : Trigger(m, s, e) \in trigs

HasSpec(m, i) ==
  dialect = "sqlite" => /\ m.search[i].name \in sides
                        /\ ~m.search[i].hooked => HasTriggers(m, m.search[i])

HasStore(m, i) == <<m.table, m.lobs[i].column>> \in stores

\* The event of statement i of ProvisionSearchSQL, and of DropSearchSQL.
EventUp(i) == CASE i = 2 -> "ai" [] i = 3 -> "ad" [] i = 4 -> "au"

EventDown(i) == CASE i = 1 -> "ai" [] i = 2 -> "au" [] i = 3 -> "ad"

\* Stages at which the columns, the indexes, the junctions and the sidecars of a
\* model are there.
AfterColumns == {"indexes", "sync", "joins", "join", "specs", "search", "lobs", "store", "end"}
AfterIndexes == AfterColumns \ {"indexes", "sync"}
AfterJoins   == AfterIndexes \ {"joins", "join"}
AfterSearch  == AfterJoins \ {"specs", "search"}

ColumnsOf(m, c) ==
  /\ c.at = "create" /\ 0 \notin c.todo => \A i \in DOMAIN m.fields : HasField(m, i)
  /\ c.at = "add" => \A i \in DOMAIN m.fields \ c.todo : HasField(m, i)
  /\ c.at \in AfterColumns => \A i \in DOMAIN m.fields : HasField(m, i)

IndexesOf(m, c) ==
  /\ c.at \in {"create", "sync"} =>
       \A j \in DOMAIN IndexDefs(m) \ c.todo : HasIndex(m, j)
  /\ c.at \in AfterIndexes => \A j \in DOMAIN IndexDefs(m) : HasIndex(m, j)

JunctionsOf(m, c) ==
  /\ c.at \in {"model", "columns", "create", "add", "indexes", "sync"} => c.k = 0
  /\ c.at = "joins" => \A i \in Junctions(m) : i <= c.k => HasJunction(m, i)
  /\ c.at = "join" => \A i \in Junctions(m) : i < c.k => HasJunction(m, i)
  /\ c.at \in AfterJoins => \A i \in Junctions(m) : HasJunction(m, i)

SidecarsOf(m, c) ==
  /\ c.at = "specs" => \A i \in DOMAIN m.search : i <= c.k => HasSpec(m, i)
  /\ c.at = "search" =>
       /\ \A i \in DOMAIN m.search : i < c.k => HasSpec(m, i)
       /\ 1 \notin c.todo => m.search[c.k].name \in sides
       /\ ~m.search[c.k].hooked =>
            \A i \in 2 .. 4 : i \notin c.todo => Trigger(m, m.search[c.k], EventUp(i)) \in trigs
  /\ c.at \in AfterSearch => \A i \in DOMAIN m.search : HasSpec(m, i)

StoresOf(m, c) ==
  /\ c.at = "store" => \A i \in DOMAIN m.lobs \ c.todo : HasStore(m, i)
  /\ c.at = "end" => \A i \in DOMAIN m.lobs : HasStore(m, i)

\* A call for these models.
Reached(models, c) ==
  LET m == models[c.m]
  IN /\ \A j \in DOMAIN models : j < c.m => Declared(models[j])
     /\ ColumnsOf(m, c)
     /\ IndexesOf(m, c)
     /\ JunctionsOf(m, c)
     /\ SidecarsOf(m, c)
     /\ StoresOf(m, c)

Made ==
  \A p \in Procs : Migrates(p) /\ InProgress(p) => Reached(request[p].models, call[p])

\* A call that found everything declared does nothing but look.
Clean ==
  \A p \in Procs : Migrates(p) /\ InProgress(p) /\ call[p].clean =>
    /\ \A m \in Elements(request[p].models) : Declared(m)
    /\ call[p].at \notin {"add", "sync"}
    /\ call[p].at = "create" => 0 \in call[p].todo

(***************************************************************************)
(* A review, and the names in the catalogue.                               *)
(***************************************************************************)
AddedBy(m, numbers) == {Column(m.fields[i]) : i \in numbers}

OneEach(m, numbers) ==
  \A i, j \in numbers : m.fields[i].column = m.fields[j].column => i = j

Applied(c) == CASE c.at = "up" -> c.down \ c.todo
                [] c.at = "reviewed" -> c.down
                [] c.at = "down" -> c.todo

Reviewed(m, c) ==
  LET names == {x.name : x \in c.before}
  IN /\ cols[m.table] = c.before \cup AddedBy(m, Applied(c))
     /\ OneEach(m, Applied(c))
     /\ \A i \in DOMAIN m.fields : i \in c.down <=> m.fields[i].column \notin names
     /\ \A x \in idx : x.table = m.table => x.column \in names

Reviews ==
  \A p \in Procs : call[p].at \in {"up", "reviewed", "down"} => Reviewed(Model(p), call[p])

Catalogued ==
  /\ \A t \in Tables : \A c, d \in cols[t] : c.name = d.name => c = d
  /\ \A i \in idx : i.table \in Tables /\ i.column \in ColumnNames(i.table)
  /\ \A t \in Tables : rows[t] \subseteq Rows
  /\ indexed \subseteq sides \X Rows

IInv == Shapes /\ Stages /\ Alone /\ Made /\ Clean /\ Reviews /\ Catalogued

(***************************************************************************)
(* Sidecars.                                                               *)
(***************************************************************************)
AllModels == UNION {Elements(request[p].models) : p \in Procs}

\* A sidecar of one name is one sidecar.
SearchNames ==
  \A s \in Scenarios : \A m, n \in UNION {Elements(s[p].models) : p \in Procs} :
    \A x \in Elements(m.search), y \in Elements(n.search) :
      x.name = y.name => m.table = n.table /\ x.kind = y.kind

Agrees(m, s) ==
  \A r \in Rows : <<s.name, r>> \notin late =>
                    (r \in rows[m.table] <=> <<s.name, r>> \in indexed)

SearchOf(models) == UNION {Elements(m.search) : m \in Elements(models)}

Sidecars ==
  /\ Sides(trigs) \subseteq sides
  /\ \A x \in trigs : \E m \in AllModels : \E s \in Elements(m.search) : \E e \in Events :
       x = Trigger(m, s, e)
  /\ \A m \in AllModels : \A s \in Elements(m.search) :
       s.name \in ready => HasTriggers(m, s) /\ Agrees(m, s)
  /\ \A p \in Procs : request[p].op = "drop" /\ InProgress(p) =>
       /\ \A s \in SearchOf(request[p].models) : s.name \notin ready
       /\ call[p].at = "drop" => \A i \in 1 .. 3 : i \notin call[p].todo =>
            Trigger(Model(p), Model(p).search[call[p].k], EventDown(i)) \notin trigs

(***************************************************************************)
(* Models and their statements.                                            *)
(***************************************************************************)
IsModel(m) ==
  /\ m.table \in Tables
  /\ DOMAIN m.fields \subseteq Nat \ {0} /\ DOMAIN m.fields # {}
  /\ DOMAIN m.relations \subseteq Nat \ {0}
  /\ DOMAIN m.search \subseteq Nat \ {0}
  /\ DOMAIN m.lobs \subseteq Nat \ {0}
  /\ DOMAIN IndexDefs(m) \subseteq Nat \ {0}
  /\ \A j \in DOMAIN IndexDefs(m) : IndexDefs(m)[j].table = m.table
  /\ \A i \in Junctions(m) : i \in DOMAIN m.relations /\ m.relations[i].join \in Tables

\* A statement with the least number is one of those to do.
LEMMA LeastIs ==
  ASSUME NEW S, S \subseteq Nat, S # {}
  PROVE  Least(S) \in S /\ \A j \in S : Least(S) <= j
<1>1. \E i \in S : \A j \in S : ~(<<j, i>> \in OpToRel(<, Nat))
  BY WFMin, NatLessThanWellFounded
<1>2. \A i, j \in S : ~(<<j, i>> \in OpToRel(<, Nat)) => i <= j
  BY DEF OpToRel
<1>3. \E i \in S : \A j \in S : i <= j
  BY <1>1, <1>2
<1> QED
  BY <1>3 DEF Least

\* The indexes of a sequence are positive numbers.
LEMMA Sequence ==
  ASSUME NEW s, IsSequence(s)
  PROVE  /\ Len(s) \in Nat /\ DOMAIN s = 1 .. Len(s)
         /\ DOMAIN s \subseteq Nat \ {0}
         /\ s # <<>> => DOMAIN s # {}
<1>1. s \in Seq(Elements(s))
  BY DEF IsSequence
<1>2. Len(s) \in Nat /\ DOMAIN s = 1 .. Len(s)
  BY <1>1
<1>3. s # <<>> => Len(s) # 0
  BY <1>1
<1> QED
  BY <1>2, <1>3

\* The names of indexes are made of the table, which the definitions keep.
LEMMA IndexesAre ==
  ASSUME NEW m, IsSequence(m.fields)
  PROVE  /\ DOMAIN IndexDefs(m) \subseteq Nat \ {0}
         /\ \A j \in DOMAIN IndexDefs(m) : IndexDefs(m)[j].table = m.table
<1>1. Len(m.fields) \in Nat
  BY Sequence
<1>2. \A f : UniqueIndex(m, f).table = m.table /\ PlainIndex(m, f).table = m.table
  BY DEF UniqueIndex, PlainIndex
<1> DEFINE n      == Len(m.fields)
           unique == {i \in 1 .. n : m.fields[i].unique}
           plain  == {i \in 1 .. n : m.fields[i].index /\ ~m.fields[i].unique}
           all    == unique \cup {n + i : i \in plain}
<1>3. IndexDefs(m) = [j \in all |-> IF j <= n THEN UniqueIndex(m, m.fields[j])
                                              ELSE PlainIndex(m, m.fields[j - n])]
  BY DEF IndexDefs
<1>4. all \subseteq Nat \ {0}
  BY <1>1
<1> HIDE DEF all
<1> QED
  BY <1>2, <1>3, <1>4

\* What the assumption says of the models a process asks for.
LEMMA Requests ==
  ASSUME Shapes, NEW p \in Procs
  PROVE  /\ request[p].op \in {"migrate", "all", "drop", "review"}
         /\ Len(request[p].models) \in Nat
         /\ DOMAIN request[p].models = 1 .. Len(request[p].models)
         /\ \A m \in Elements(request[p].models) : IsModel(m)
         /\ \A j \in DOMAIN request[p].models : IsModel(request[p].models[j])
         /\ 1 \in DOMAIN request[p].models
         /\ Model(p) \in Elements(request[p].models)
         /\ IsModel(Model(p))
<1>1. PICK s \in Scenarios : s = request
  BY DEF Shapes
<1>2. /\ s[p].op \in {"migrate", "all", "drop", "review"}
      /\ s[p].models # <<>> /\ IsSequence(s[p].models)
      /\ \A m \in Elements(s[p].models) :
           /\ m.table \in Tables
           /\ m.fields # <<>> /\ IsSequence(m.fields)
           /\ IsSequence(m.relations) /\ IsSequence(m.search) /\ IsSequence(m.lobs)
           /\ \A r \in Elements(m.relations) : r.kind = "many-to-many" => r.join \in Tables
  BY AutoMigrateAssumption
<1>3. ASSUME NEW m \in Elements(s[p].models) PROVE IsModel(m)
  <2>1. \A i \in Junctions(m) : i \in DOMAIN m.relations /\ m.relations[i].join \in Tables
    BY <1>2 DEF Junctions, Elements
  <2>2. /\ DOMAIN m.fields \subseteq Nat \ {0} /\ DOMAIN m.fields # {}
        /\ DOMAIN m.relations \subseteq Nat \ {0}
        /\ DOMAIN m.search \subseteq Nat \ {0}
        /\ DOMAIN m.lobs \subseteq Nat \ {0}
    BY <1>2, Sequence
  <2> QED
    BY <1>2, <2>1, <2>2, IndexesAre DEF IsModel
<1>4. call[p].m \in DOMAIN s[p].models
  BY <1>1 DEF Shapes
<1>5. Len(s[p].models) \in Nat /\ DOMAIN s[p].models = 1 .. Len(s[p].models) /\ DOMAIN s[p].models # {}
  BY <1>2, Sequence
<1>6. 1 \in DOMAIN s[p].models
  BY <1>5
<1>7. \A j \in DOMAIN s[p].models : s[p].models[j] \in Elements(s[p].models)
  BY DEF Elements
<1> QED
  BY <1>1, <1>2, <1>3, <1>4, <1>5, <1>6, <1>7 DEF Model

\* After, as a table.
LEMMA AfterIs ==
  /\ DOMAIN After = {"create", "add", "sync", "join", "search", "store", "drop", "up", "down"}
  /\ After["create"] = "joins" /\ After["add"] = "indexes" /\ After["sync"] = "joins"
  /\ After["join"] = "joins" /\ After["search"] = "specs" /\ After["store"] = "end"
  /\ After["drop"] = "specs" /\ After["up"] = "reviewed" /\ After["down"] = "end"
BY DEF After

\* The two scripts of a search index.
LEMMA SearchSQLIs ==
  ASSUME NEW m, NEW s
  PROVE  /\ DOMAIN ProvisionSearchSQL(m, s) = IF s.hooked THEN {1} ELSE 1 .. 4
         /\ ProvisionSearchSQL(m, s)[1] = CreateSidecarSQL(m, s)
         /\ ~s.hooked => \A i \in 2 .. 4 : ProvisionSearchSQL(m, s)[i] = TriggerSQL(m, s, EventUp(i))
         /\ DOMAIN DropSearchSQL(m, s) = 1 .. 4
         /\ \A i \in 1 .. 3 : DropSearchSQL(m, s)[i] = DropTriggerSQL(m, s, EventDown(i))
         /\ DropSearchSQL(m, s)[4] = DropSidecarSQL(s)
<1>1. DOMAIN ProvisionSearchSQL(m, s) = IF s.hooked THEN {1} ELSE 1 .. 4
  BY DEF ProvisionSearchSQL
<1>2. ProvisionSearchSQL(m, s)[1] = CreateSidecarSQL(m, s)
  BY DEF ProvisionSearchSQL
<1>3. ~s.hooked => \A i \in 2 .. 4 : ProvisionSearchSQL(m, s)[i] = TriggerSQL(m, s, EventUp(i))
  <2>1. \A i \in 2 .. 4 : i = 2 \/ i = 3 \/ i = 4
    OBVIOUS
  <2> QED
    BY <2>1 DEF ProvisionSearchSQL, EventUp
<1>4. DOMAIN DropSearchSQL(m, s) = 1 .. 4
  BY DEF DropSearchSQL
<1>5. \A i \in 1 .. 3 : DropSearchSQL(m, s)[i] = DropTriggerSQL(m, s, EventDown(i))
  <2>1. \A i \in 1 .. 3 : i = 1 \/ i = 2 \/ i = 3
    OBVIOUS
  <2> QED
    BY <2>1 DEF DropSearchSQL, EventDown
<1>6. DropSearchSQL(m, s)[4] = DropSidecarSQL(s)
  BY DEF DropSearchSQL
<1> QED
  BY <1>1, <1>2, <1>3, <1>4, <1>5, <1>6

(***************************************************************************)
(* What the steps of a call do, as far as the invariant can tell.          *)
(***************************************************************************)
Goes(p, c) == call' = [q \in Procs |-> IF q = p THEN c ELSE call[q]]

Quiet == UNCHANGED <<dialect, request, cols, idx, fks, sides, trigs, stores, rows, indexed,
                     ready, late>>

\* An error, of whatever kind.
Stops(p) == InProgress(p) /\ Goes(p, Same(p, "error", call[p].k, {})) /\ Quiet

Resolves(p) ==
  /\ call[p].at = "model" /\ Model(p).valid /\ Quiet
  /\ \/ Migrates(p) /\ Goes(p, Same(p, "columns", call[p].k, {}))
     \/ request[p].op = "drop" /\ Goes(p, Same(p, "specs", call[p].k, {}))
     \/ LET new == Added(Model(p))
        IN /\ request[p].op = "review"
           /\ Goes(p, [Same(p, Reach("up", new), call[p].k, new)
                         EXCEPT !.down = new, !.before = cols[Model(p).table]])

\* The table is there, or not, or not seen.
Introspects(p) ==
  LET t       == Model(p).table
      missing == AddMissing(Model(p), cols[t])
  IN /\ call[p].at = "columns" /\ Quiet
     /\ \/ Goes(p, Same(p, "create", call[p].k, {0} \cup DOMAIN IndexDefs(Model(p))))
        \/ cols[t] # {} /\ Goes(p, Same(p, Reach("add", missing), call[p].k, missing))

Lists(p) ==
  LET missing == MissingIndexes(Model(p))
  IN call[p].at = "indexes" /\ Quiet /\ Goes(p, Same(p, Reach("sync", missing), call[p].k, missing))

\* l is the first number of S after k.
First(l, S, k) == l \in S /\ k < l /\ \A i \in S : k < i => l <= i

Joins(p) ==
  LET m == Model(p)
      k == call[p].k
  IN /\ call[p].at = "joins" /\ Quiet
     /\ \/ (\A i \in Junctions(m) : i <= k) /\ Goes(p, Same(p, "specs", 0, {}))
        \/ \E l \in Junctions(m) :
             /\ First(l, Junctions(m), k)
             /\ \/ Goes(p, Same(p, "join", l, {1}))
                \/ HasJunction(m, l) /\ Goes(p, Same(p, "joins", l, {}))

Searches(p) ==
  LET m == Model(p)
      k == call[p].k
  IN /\ call[p].at = "specs" /\ Quiet
     /\ \/ /\ dialect # "sqlite" \/ \A i \in DOMAIN m.search : i <= k
           /\ Goes(p, Same(p, IF Migrates(p) THEN "lobs" ELSE "end", k, {}))
        \/ \E l \in DOMAIN m.search :
             /\ dialect = "sqlite" /\ m.search[l].valid /\ First(l, DOMAIN m.search, k)
             /\ IF Migrates(p)
                  THEN Goes(p, Same(p, "search", l, DOMAIN ProvisionSearchSQL(m, m.search[l])))
                  ELSE Goes(p, Same(p, "drop", l, 1 .. 4))

Provides(p) ==
  LET all == DOMAIN Model(p).lobs
  IN call[p].at = "lobs" /\ Quiet /\ Goes(p, Same(p, Reach("store", all), call[p].k, all))

Reverts(p) ==
  LET down == call[p].down
  IN call[p].at = "reviewed" /\ Quiet /\ Goes(p, Same(p, Reach("down", down), call[p].k, down))

Continues(p) ==
  /\ call[p].at = "end" /\ Quiet
  /\ call[p].m < Len(request[p].models)
  /\ Goes(p, [call[p] EXCEPT !.at = "model", !.m = call[p].m + 1, !.k = 0])

Looks(p) ==
  \/ Resolves(p) \/ Introspects(p) \/ Lists(p) \/ Joins(p) \/ Searches(p) \/ Provides(p)
  \/ Reverts(p) \/ Continues(p)

Provided(models) ==
  UNION {{<<s.name, m.table>> : s \in TriggerSynced(m)} : m \in Elements(models)}

Returns(p) ==
  /\ call[p].at = "end" /\ call[p].m = Len(request[p].models)
  /\ Goes(p, Same(p, "nil", call[p].k, {}))
  /\ UNCHANGED <<dialect, request, cols, idx, fks, sides, trigs, stores, rows, indexed>>
  /\ LET new == IF Migrates(p) THEN Provided(request[p].models) ELSE {}
     IN /\ ready' = ready \cup {n[1] : n \in new}
        /\ late' = late \cup UNION {{<<n[1], r>> : r \in Disagree(n[1], n[2])} :
                                      n \in {x \in new : x[1] \notin ready}}

\* The least of the statements to do, number i, is executed.
Sends(p, i) ==
  LET rest == call[p].todo \ {i}
  IN /\ i \in call[p].todo /\ \A j \in call[p].todo : i <= j
     /\ Goes(p, Same(p, Reach(call[p].at, rest), call[p].k, rest))
     /\ UNCHANGED <<dialect, request, ready, late>>

MakesTable(p) ==
  LET m == Model(p)
  IN /\ call[p].at = "create" /\ Sends(p, 0)
     /\ cols[m.table] = {}
     /\ \A i, j \in DOMAIN m.fields : m.fields[i].column = m.fields[j].column => i = j
     /\ cols' = [cols EXCEPT ![m.table] = {Column(f) : f \in Elements(m.fields)}]
     /\ UNCHANGED <<idx, sides, trigs, stores, rows, indexed>>

AddsColumn(p, i) ==
  LET m == Model(p)
  IN /\ call[p].at \in {"add", "up"} /\ Sends(p, i) /\ i \in DOMAIN m.fields
     /\ cols[m.table] # {}
     /\ m.fields[i].column \notin ColumnNames(m.table)
     /\ cols' = [cols EXCEPT ![m.table] = @ \cup {Column(m.fields[i])}]
     /\ UNCHANGED <<idx, fks, sides, trigs, stores, rows, indexed>>

DropsColumn(p, i) ==
  LET m == Model(p)
  IN /\ call[p].at = "down" /\ Sends(p, i) /\ i \in DOMAIN m.fields
     /\ cols' = [cols EXCEPT ![m.table] = {c \in @ : c.name # m.fields[i].column}]
     /\ UNCHANGED <<idx, fks, sides, trigs, stores, rows, indexed>>

AddsIndex(p, i) ==
  LET d == IndexDefs(Model(p))[i]
  IN /\ call[p].at \in {"create", "sync"} /\ Sends(p, i) /\ i \in DOMAIN IndexDefs(Model(p))
     /\ d.column \in ColumnNames(d.table)
     /\ idx' = idx \cup {d}
     /\ UNCHANGED <<cols, fks, sides, trigs, stores, rows, indexed>>

MakesJoin(p) ==
  LET r == Model(p).relations[call[p].k]
  IN /\ call[p].at = "join" /\ Sends(p, 1)
     /\ cols[r.join] = {} /\ r.ownerFK # r.targetFK
     /\ cols' = [cols EXCEPT ![r.join] =
                   {[name |-> c, type |-> "key"] : c \in {r.ownerFK, r.targetFK}}]
     /\ UNCHANGED <<idx, fks, sides, trigs, stores, rows, indexed>>

MakesSidecar(p) ==
  /\ call[p].at = "search" /\ Sends(p, 1)
  /\ sides' = sides \cup {Model(p).search[call[p].k].name}
  /\ UNCHANGED <<cols, idx, fks, trigs, stores, rows, indexed>>

MakesTrigger(p, i) ==
  LET m == Model(p)
      s == m.search[call[p].k]
  IN /\ call[p].at = "search" /\ Sends(p, i) /\ i \in 2 .. 4 /\ ~s.hooked
     /\ trigs' = trigs \cup {Trigger(m, s, EventUp(i))}
     /\ UNCHANGED <<cols, idx, fks, sides, stores, rows, indexed>>

DropsTrigger(p, i) ==
  LET m == Model(p)
  IN /\ call[p].at = "drop" /\ Sends(p, i) /\ i \in 1 .. 3
     /\ trigs' = trigs \ {Trigger(m, m.search[call[p].k], EventDown(i))}
     /\ UNCHANGED <<cols, idx, fks, sides, stores, rows, indexed>>

DropsSidecar(p) ==
  LET name == Model(p).search[call[p].k].name
  IN /\ call[p].at = "drop" /\ Sends(p, 4)
     /\ sides' = sides \ {name}
     /\ indexed' = {x \in indexed : x[1] # name}
     /\ UNCHANGED <<cols, idx, fks, trigs, stores, rows>>

MakesStore(p, i) ==
  LET m == Model(p)
  IN /\ call[p].at = "store" /\ Sends(p, i) /\ i \in DOMAIN m.lobs
     /\ stores' = stores \cup {<<m.table, m.lobs[i].column>>}
     /\ UNCHANGED <<cols, idx, fks, sides, trigs, rows, indexed>>

Executes(p) ==
  \/ MakesTable(p) \/ MakesJoin(p) \/ MakesSidecar(p) \/ DropsSidecar(p)
  \/ \E i \in Nat : \/ AddsColumn(p, i) \/ DropsColumn(p, i) \/ AddsIndex(p, i)
                    \/ MakesTrigger(p, i) \/ DropsTrigger(p, i) \/ MakesStore(p, i)

Does(p) == Stops(p) \/ Looks(p) \/ Returns(p) \/ Executes(p)

\* The record of one call changes, in some of its fields.
LEMMA Going ==
  ASSUME Shapes, NEW p \in Procs
  PROVE  /\ \A at : Goto(p, at) => Goes(p, Same(p, at, call[p].k, call[p].todo))
         /\ \A at, todo : Stage(p, at, todo) => Goes(p, Same(p, Reach(at, todo), call[p].k, todo))
         /\ \A k, at, todo : StageOf(p, k, at, todo) => Goes(p, Same(p, Reach(at, todo), k, todo))
         /\ Rejected(p) => Goes(p, Same(p, "error", call[p].k, {}))
<1>1. call = [q \in Procs |-> call[q]] /\ call[p] = Same(p, call[p].at, call[p].k, call[p].todo)
  BY DEF Shapes, Same, IsCall
<1>2. \A at : Goto(p, at) => Goes(p, Same(p, at, call[p].k, call[p].todo))
  BY <1>1 DEF Goto, Goes, Same
<1>3. \A at, todo : Stage(p, at, todo) => Goes(p, Same(p, Reach(at, todo), call[p].k, todo))
  BY <1>1 DEF Stage, Goes, Same
<1>4. \A k, at, todo : StageOf(p, k, at, todo) => Goes(p, Same(p, Reach(at, todo), k, todo))
  BY ZenonT(60), <1>1 DEF StageOf, Goes, Same
<1>5. Rejected(p) => Goes(p, Same(p, "error", call[p].k, {}))
  BY <1>1 DEF Rejected, Goes, Same
<1> QED
  BY <1>2, <1>3, <1>4, <1>5

\* A stage without statements has none to do.
LEMMA NoneToDo ==
  ASSUME Stages, NEW p \in Procs, call[p].at \notin DOMAIN After
  PROVE  call[p].todo = {}
BY DEF Stages, Staged

\* The least number greater than k.
LEMMA FirstIs ==
  ASSUME NEW S, S \subseteq Nat, NEW k \in Nat, NEW L, \A i : i \in L <=> i \in S /\ i > k
  PROVE  /\ L = {} => \A i \in S : i <= k
         /\ L # {} => Least(L) \in S /\ First(Least(L), S, k)
<1>1. L \subseteq Nat
  OBVIOUS
<1>2. L # {} => Least(L) \in L /\ \A j \in L : Least(L) <= j
  BY <1>1, LeastIs
<1> QED
  BY <1>2 DEF First

\* The steps that send nothing.
LEMMA Looking ==
  ASSUME Shapes, Stages, NEW p \in Procs,
         \/ Resolve(p) \/ ReadColumns(p) \/ ReadIndexes(p) \/ ReadJunction(p)
         \/ ReadSearch(p) \/ ReadLOBs(p) \/ Revert(p) \/ NextModel(p)
  PROVE  Stops(p) \/ Looks(p) \/ Returns(p)
<1> DEFINE m == Model(p)
<1> USE Going
<1>k. call[p].k \in Nat /\ call[p].m \in DOMAIN request[p].models
  BY DEF Shapes
<1>m. IsModel(m) /\ request[p].op \in {"migrate", "all", "drop", "review"}
      /\ Len(request[p].models) \in Nat
      /\ DOMAIN request[p].models = 1 .. Len(request[p].models)
  BY Requests
<1>n. call[p].at \in {"model", "columns", "indexes", "joins", "specs", "lobs", "reviewed", "end"}
        => call[p].todo = {}
  BY NoneToDo, AfterIs
<1>1. CASE Resolve(p)
  <2>1. CASE ~m.valid \/ Config(p).bad
    BY <1>1, <2>1, <1>n DEF Resolve, Stops, InProgress, AtRest, Quiet, others, ddl, data
  <2>2. CASE ~(~m.valid \/ Config(p).bad) /\ Migrates(p)
    <3>1. Goto(p, "columns")
      BY <1>1, <2>2 DEF Resolve, Migrates
    <3> QED
      BY <1>1, <2>2, <3>1, <1>n DEF Resolve, Looks, Resolves, Quiet, others, ddl, data
  <2>3. CASE ~(~m.valid \/ Config(p).bad) /\ request[p].op = "drop"
    BY <1>1, <2>3, <1>n DEF Resolve, Looks, Resolves, Quiet, others, ddl, data, Migrates
  <2>4. CASE ~(~m.valid \/ Config(p).bad) /\ request[p].op = "review"
    <3> DEFINE new == Added(m)
    <3>1. call' = [call EXCEPT ![p].at = Reach("up", new), ![p].todo = new,
                               ![p].down = new, ![p].before = cols[m.table]]
      BY <1>1, <2>4 DEF Resolve, Migrates, GeneratedUp, GeneratedDown
    <3>2. Goes(p, [Same(p, Reach("up", new), call[p].k, new)
                     EXCEPT !.down = new, !.before = cols[m.table]])
      <4>1. call = [q \in Procs |-> call[q]]
            /\ call[p] = Same(p, call[p].at, call[p].k, call[p].todo)
        BY DEF Shapes, Same, IsCall
      <4> HIDE DEF new, m
      <4>2. call' = [q \in Procs |-> call'[q]] /\ \A q \in Procs \ {p} : call'[q] = call[q]
        BY <3>1, <4>1
      <4>3. call'[p] = [Same(p, Reach("up", new), call[p].k, new)
                          EXCEPT !.down = new, !.before = cols[m.table]]
        BY <3>1, <4>1 DEF Same
      <4> QED
        BY <4>2, <4>3 DEF Goes
    <3> QED
      BY <1>1, <2>4, <3>2 DEF Resolve, Looks, Resolves, Quiet, others, ddl, data
  <2> QED
    BY <2>1, <2>2, <2>3, <2>4, <1>m DEF Migrates
<1>2. CASE ReadColumns(p)
  <2>1. {0} \cup DOMAIN IndexDefs(m) # {}
    OBVIOUS
  <2>2. PICK seen \in {cols[m.table], {}} :
          /\ Introspected(m.table, seen)
          /\ IF seen = {} THEN Stage(p, "create", {0} \cup DOMAIN IndexDefs(m))
                         ELSE Stage(p, "add", AddMissing(m, seen))
    BY <1>2 DEF ReadColumns
  <2> QED
    BY <1>2, <2>1, <2>2 DEF ReadColumns, Looks, Introspects, Quiet, others, ddl, data, Reach
<1>3. CASE ReadIndexes(p)
  BY <1>3 DEF ReadIndexes, Looks, Lists, Quiet, others, ddl, data
<1>4. CASE ReadJunction(p)
  <2> DEFINE left == {i \in Junctions(m) : i > call[p].k}
  <2>1. Junctions(m) \subseteq Nat
    BY <1>m DEF IsModel
  <2>2. CASE left = {}
    <3>1. call' = [call EXCEPT ![p].at = "specs", ![p].k = 0]
      BY <1>4, <2>2 DEF ReadJunction
    <3>2. Goes(p, Same(p, "specs", 0, call[p].todo))
      <4>1. call = [q \in Procs |-> call[q]]
            /\ call[p] = Same(p, call[p].at, call[p].k, call[p].todo)
        BY DEF Shapes, Same, IsCall
      <4>2. call' = [q \in Procs |-> call'[q]] /\ \A q \in Procs \ {p} : call'[q] = call[q]
        BY <3>1, <4>1
      <4>3. call'[p] = Same(p, "specs", 0, call[p].todo)
        BY <3>1, <4>1 DEF Same
      <4> QED
        BY <4>2, <4>3 DEF Goes
    <3> QED
      BY ZenonT(60), <1>4, <2>1, <2>2, <3>2, <1>k, <1>n, FirstIs
         DEF ReadJunction, Looks, Joins, Quiet, others, ddl, data
  <2>3. CASE left # {}
    <3>1. PICK l \in Junctions(m) : l = Least(left) /\ First(l, Junctions(m), call[p].k)
      BY <2>1, <2>3, <1>k, FirstIs
    <3>2. PICK seen \in {cols[m.relations[l].join], {}} :
            StageOf(p, l, "join", IF seen = {} THEN {1} ELSE {})
      BY <1>4, <2>3, <3>1 DEF ReadJunction
    <3>3. \/ Goes(p, Same(p, "join", l, {1}))
          \/ HasJunction(m, l) /\ Goes(p, Same(p, "joins", l, {}))
      BY <3>2, AfterIs DEF Reach, HasJunction
    <3> QED
      BY <1>4, <3>1, <3>3 DEF ReadJunction, Looks, Joins, Quiet, others, ddl, data
  <2> QED
    BY <2>2, <2>3
<1>5. CASE ReadSearch(p)
  <2> DEFINE left == {i \in DOMAIN m.search : dialect = "sqlite" /\ i > call[p].k}
             spec == m.search[Least(left)]
  <2>1. DOMAIN m.search \subseteq Nat
    BY <1>m DEF IsModel
  <2>2. CASE left = {}
    <3>1. Goes(p, Same(p, IF Migrates(p) THEN "lobs" ELSE "end", call[p].k, {}))
      BY <1>5, <2>2, <1>n DEF ReadSearch
    <3>2. dialect # "sqlite" \/ \A i \in DOMAIN m.search : i <= call[p].k
      BY <2>1, <2>2, <1>k
    <3> QED
      BY ZenonT(60), <1>5, <3>1, <3>2 DEF ReadSearch, Looks, Searches, Quiet, others, ddl, data
  <2>3. CASE left # {}
    <3>1. dialect = "sqlite" /\ left = {i \in DOMAIN m.search : i > call[p].k}
      BY <2>3
    <3> HIDE DEF left
    <3>2. PICK l \in DOMAIN m.search : l = Least(left) /\ First(l, DOMAIN m.search, call[p].k)
      <4>1. Least(left) \in DOMAIN m.search /\ First(Least(left), DOMAIN m.search, call[p].k)
        BY <2>1, <2>3, <3>1, <1>k, FirstIs
      <4> QED
        BY <4>1
    <3> USE DEF left
    <3>3. CASE ~m.search[l].valid
      BY <1>5, <2>3, <3>2, <3>3, <1>n DEF ReadSearch, Stops, InProgress, AtRest, Quiet, others, ddl, data
    <3>4. CASE m.search[l].valid /\ Migrates(p)
      <4>1. DOMAIN ProvisionSearchSQL(m, m.search[l]) # {}
        BY SearchSQLIs
      <4> QED
        BY <1>5, <2>3, <3>1, <3>2, <3>4, <4>1
           DEF ReadSearch, Looks, Searches, Quiet, others, ddl, data, Reach
    <3>5. CASE m.search[l].valid /\ ~Migrates(p)
      <4>1. DOMAIN DropSearchSQL(m, m.search[l]) = 1 .. 4 /\ 1 .. 4 # {}
        BY SearchSQLIs
      <4> QED
        BY <1>5, <2>3, <3>1, <3>2, <3>5, <4>1
           DEF ReadSearch, Looks, Searches, Quiet, others, ddl, data, Reach
    <3> QED
      BY <3>3, <3>4, <3>5
  <2> QED
    BY <2>2, <2>3
<1>6. CASE ReadLOBs(p)
  <2>1. CASE LOBsRefused(m, Config(p))
    BY <1>6, <2>1, <1>n DEF ReadLOBs, Stops, InProgress, AtRest, Quiet, others, ddl, data
  <2>2. CASE ~LOBsRefused(m, Config(p))
    BY <1>6, <2>2 DEF ReadLOBs, Looks, Provides, Quiet, others, ddl, data
  <2> QED
    BY <2>1, <2>2
<1>7. CASE Revert(p)
  BY <1>7 DEF Revert, Looks, Reverts, Quiet, others, ddl, data
<1>8. CASE NextModel(p)
  <2>1. CASE call[p].m < Len(request[p].models)
    <3>1. call' = [call EXCEPT ![p].at = "model", ![p].m = @ + 1, ![p].k = 0]
      BY <1>8, <2>1 DEF NextModel
    <3>2. Goes(p, [call[p] EXCEPT !.at = "model", !.m = call[p].m + 1, !.k = 0])
      <4>1. call = [q \in Procs |-> call[q]]
            /\ call[p] = Same(p, call[p].at, call[p].k, {})
        BY <1>8, <1>n DEF Shapes, NextModel, Same, IsCall
      <4>2. call' = [q \in Procs |-> call'[q]] /\ \A q \in Procs \ {p} : call'[q] = call[q]
        BY <3>1, <4>1
      <4>3. call'[p] = [call[p] EXCEPT !.at = "model", !.m = call[p].m + 1, !.k = 0]
        <5> DEFINE c == call[p]
        <5>1. call = [q \in Procs |-> call[q]] /\ call[p] = [c EXCEPT !.at = c.at]
          BY <4>1 DEF Same
        <5> QED
          BY <3>1, <5>1
      <4> QED
        BY <4>2, <4>3 DEF Goes
    <3> QED
      BY <1>8, <2>1, <3>2 DEF NextModel, Looks, Continues, Quiet, ddl, data
  <2>2. CASE ~(call[p].m < Len(request[p].models))
    <3>1. call[p].m = Len(request[p].models)
      BY <1>k, <1>m, <2>2
    <3> QED
      BY <1>8, <2>2, <3>1, <1>n DEF NextModel, Returns, Provided, Quiet, ddl, data
  <2> QED
    BY <2>1, <2>2
<1> QED
  BY <1>1, <1>2, <1>3, <1>4, <1>5, <1>6, <1>7, <1>8

\* The number of a statement is one of its stage.
LEMMA Numbers ==
  ASSUME Shapes, Stages, NEW p \in Procs, call[p].todo # {}
  PROVE  /\ Least(call[p].todo) \in call[p].todo
         /\ \A j \in call[p].todo : Least(call[p].todo) <= j
         /\ call[p].at \in DOMAIN After
         /\ Done(p) => Goes(p, Same(p, Reach(call[p].at, call[p].todo \ {Least(call[p].todo)}),
                                    call[p].k, call[p].todo \ {Least(call[p].todo)}))
<1>1. call[p].todo \subseteq Nat
  BY DEF Shapes
<1>2. call[p].at \in DOMAIN After
  BY DEF Stages, Staged
<1> QED
  BY <1>1, <1>2, LeastIs, Going DEF Done

\* Which statement it is.
LEMMA Statements ==
  ASSUME Shapes, Stages, NEW p \in Procs, NEW i \in call[p].todo, NEW st, st = Numbered(p, i)
  PROVE  LET m == Model(p)
             s == m.search[call[p].k]
         IN /\ call[p].at = "create" /\ i = 0 => st = CreateTableSQL(m, Config(p))
            /\ call[p].at = "create" /\ i # 0 => i \in DOMAIN IndexDefs(m) /\ st = IndexSQL(IndexDefs(m)[i])
            /\ call[p].at \in {"add", "up"} =>
                 i \in DOMAIN m.fields /\ st = AddColumnSQL(m.table, m.fields[i])
            /\ call[p].at = "down" =>
                 i \in DOMAIN m.fields /\ st = DropColumnSQL(m.table, m.fields[i])
            /\ call[p].at = "sync" => i \in DOMAIN IndexDefs(m) /\ st = IndexSQL(IndexDefs(m)[i])
            /\ call[p].at = "join" => i = 1 /\ st = CreateJoinTableSQL(m.relations[call[p].k])
            /\ call[p].at = "search" =>
                 \/ i = 1 /\ st = CreateSidecarSQL(m, s)
                 \/ i \in 2 .. 4 /\ ~s.hooked /\ st = TriggerSQL(m, s, EventUp(i))
            /\ call[p].at = "drop" =>
                 \/ i \in 1 .. 3 /\ st = DropTriggerSQL(m, s, EventDown(i))
                 \/ i = 4 /\ st = DropSidecarSQL(s)
            /\ call[p].at = "store" => i \in DOMAIN m.lobs /\ st = ProvisionSQL(m, m.lobs[i])
<1> DEFINE m == Model(p)
           s == m.search[call[p].k]
<1>0. Staged(request[p].op, m, call[p])
  BY DEF Stages
<1>1. call[p].at = "create" =>
        /\ i = 0 => st = CreateTableSQL(m, Config(p))
        /\ i # 0 => i \in DOMAIN IndexDefs(m) /\ st = IndexSQL(IndexDefs(m)[i])
  BY <1>0 DEF Staged, Numbered
<1>2. call[p].at \in {"add", "up"} =>
        i \in DOMAIN m.fields /\ st = AddColumnSQL(m.table, m.fields[i])
  BY <1>0 DEF Staged, Numbered
<1>3. call[p].at = "down" => i \in DOMAIN m.fields /\ st = DropColumnSQL(m.table, m.fields[i])
  BY <1>0 DEF Staged, Numbered
<1>4. call[p].at = "sync" => i \in DOMAIN IndexDefs(m) /\ st = IndexSQL(IndexDefs(m)[i])
  BY <1>0 DEF Staged, Numbered
<1>5. call[p].at = "join" => i = 1 /\ st = CreateJoinTableSQL(m.relations[call[p].k])
  BY <1>0 DEF Staged, Numbered
<1>6. ASSUME call[p].at = "search"
      PROVE  \/ i = 1 /\ st = CreateSidecarSQL(m, s)
             \/ i \in 2 .. 4 /\ ~s.hooked /\ st = TriggerSQL(m, s, EventUp(i))
  <2>1. i \in DOMAIN ProvisionSearchSQL(m, s) /\ st = ProvisionSearchSQL(m, s)[i]
    BY <1>0, <1>6 DEF Staged, Numbered
  <2>2. i = 1 \/ (i \in 2 .. 4 /\ ~s.hooked)
    BY <2>1, SearchSQLIs
  <2> QED
    BY <2>1, <2>2, SearchSQLIs
<1>7. ASSUME call[p].at = "drop"
      PROVE  \/ i \in 1 .. 3 /\ st = DropTriggerSQL(m, s, EventDown(i))
             \/ i = 4 /\ st = DropSidecarSQL(s)
  <2>1. i \in 1 .. 4 /\ st = DropSearchSQL(m, s)[i]
    BY <1>0, <1>7 DEF Staged, Numbered
  <2>2. i \in 1 .. 3 \/ i = 4
    BY <2>1
  <2> QED
    BY <2>1, <2>2, SearchSQLIs
<1>8. call[p].at = "store" => i \in DOMAIN m.lobs /\ st = ProvisionSQL(m, m.lobs[i])
  BY <1>0 DEF Staged, Numbered
<1> QED
  BY <1>1, <1>2, <1>3, <1>4, <1>5, <1>6, <1>7, <1>8

\* So the operation tells the stage.
LEMMA Operations ==
  ASSUME Shapes, Stages, NEW p \in Procs, call[p].todo # {},
         NEW i, i = Least(call[p].todo), NEW st, st = Statement(p)
  PROVE  LET m == Model(p)
             s == m.search[call[p].k]
         IN /\ i \in Nat
            /\ Done(p) /\ UNCHANGED <<dialect, request, ready, late>> => Sends(p, i)
            /\ st.op = "create-table" =>
                 call[p].at = "create" /\ i = 0 /\ st = CreateTableSQL(m, Config(p))
            /\ st.op = "add-column" => /\ call[p].at \in {"add", "up"} /\ i \in DOMAIN m.fields
                                       /\ st = AddColumnSQL(m.table, m.fields[i])
            /\ st.op = "drop-column" => /\ call[p].at = "down" /\ i \in DOMAIN m.fields
                                        /\ st = DropColumnSQL(m.table, m.fields[i])
            /\ st.op = "create-index" =>
                 /\ call[p].at \in {"create", "sync"} /\ i \in DOMAIN IndexDefs(m)
                 /\ st = IndexSQL(IndexDefs(m)[i])
            /\ st.op = "create-join" => /\ call[p].at = "join" /\ i = 1
                                        /\ st = CreateJoinTableSQL(m.relations[call[p].k])
            /\ st.op = "create-sidecar" =>
                 call[p].at = "search" /\ i = 1 /\ st = CreateSidecarSQL(m, s)
            /\ st.op = "create-trigger" => /\ call[p].at = "search" /\ i \in 2 .. 4 /\ ~s.hooked
                                           /\ st = TriggerSQL(m, s, EventUp(i))
            /\ st.op = "drop-trigger" => /\ call[p].at = "drop" /\ i \in 1 .. 3
                                         /\ st = DropTriggerSQL(m, s, EventDown(i))
            /\ st.op = "drop-sidecar" =>
                 call[p].at = "drop" /\ i = 4 /\ st = DropSidecarSQL(s)
            /\ st.op = "provision" => /\ call[p].at = "store" /\ i \in DOMAIN m.lobs
                                      /\ st = ProvisionSQL(m, m.lobs[i])
<1> DEFINE m == Model(p)
           s == m.search[call[p].k]
<1>1. /\ i \in call[p].todo /\ (\A j \in call[p].todo : i <= j)
      /\ call[p].at \in DOMAIN After
      /\ Done(p) => Goes(p, Same(p, Reach(call[p].at, call[p].todo \ {i}), call[p].k,
                                 call[p].todo \ {i}))
  BY Numbers
<1>2. i \in Nat
  BY <1>1 DEF Shapes
<1>3. st = Numbered(p, i)
  BY DEF Statement
<1>4. Done(p) /\ UNCHANGED <<dialect, request, ready, late>> => Sends(p, i)
  BY <1>1 DEF Sends
<1>5. /\ CreateTableSQL(m, Config(p)).op = "create-table"
      /\ \A d : IndexSQL(d).op = "create-index"
      /\ \A t, f : AddColumnSQL(t, f).op = "add-column"
      /\ \A t, f : DropColumnSQL(t, f).op = "drop-column"
      /\ \A r : CreateJoinTableSQL(r).op = "create-join"
      /\ CreateSidecarSQL(m, s).op = "create-sidecar"
      /\ \A e : TriggerSQL(m, s, e).op = "create-trigger"
      /\ \A e : DropTriggerSQL(m, s, e).op = "drop-trigger"
      /\ DropSidecarSQL(s).op = "drop-sidecar"
      /\ \A f : ProvisionSQL(m, f).op = "provision"
  BY DEF CreateTableSQL, IndexSQL, AddColumnSQL, DropColumnSQL, CreateJoinTableSQL,
         CreateSidecarSQL, TriggerSQL, DropTriggerSQL, DropSidecarSQL, ProvisionSQL
<1>6. /\ call[p].at = "create" /\ i = 0 => st = CreateTableSQL(m, Config(p))
      /\ call[p].at = "create" /\ i # 0 => i \in DOMAIN IndexDefs(m) /\ st = IndexSQL(IndexDefs(m)[i])
      /\ call[p].at \in {"add", "up"} =>
           i \in DOMAIN m.fields /\ st = AddColumnSQL(m.table, m.fields[i])
      /\ call[p].at = "down" =>
           i \in DOMAIN m.fields /\ st = DropColumnSQL(m.table, m.fields[i])
      /\ call[p].at = "sync" => i \in DOMAIN IndexDefs(m) /\ st = IndexSQL(IndexDefs(m)[i])
      /\ call[p].at = "join" => i = 1 /\ st = CreateJoinTableSQL(m.relations[call[p].k])
      /\ call[p].at = "search" =>
           \/ i = 1 /\ st = CreateSidecarSQL(m, s)
           \/ i \in 2 .. 4 /\ ~s.hooked /\ st = TriggerSQL(m, s, EventUp(i))
      /\ call[p].at = "drop" =>
           \/ i \in 1 .. 3 /\ st = DropTriggerSQL(m, s, EventDown(i))
           \/ i = 4 /\ st = DropSidecarSQL(s)
      /\ call[p].at = "store" => i \in DOMAIN m.lobs /\ st = ProvisionSQL(m, m.lobs[i])
  BY <1>1, <1>3, Statements
<1> HIDE DEF m, s
<1>7. call[p].at \in {"create", "add", "sync", "join", "search", "store", "drop", "up", "down"}
  BY <1>1, AfterIs
<1> QED
  <2>1. CASE call[p].at = "create" /\ i = 0
    BY <1>2, <1>4, <1>5, <1>6, <2>1 DEF m, s
  <2>2. CASE call[p].at = "create" /\ i # 0
    BY <1>2, <1>4, <1>5, <1>6, <2>2 DEF m, s
  <2>3. CASE call[p].at \in {"add", "up"}
    BY <1>2, <1>4, <1>5, <1>6, <2>3 DEF m, s
  <2>4. CASE call[p].at \in {"down", "sync", "join"}
    BY <1>2, <1>4, <1>5, <1>6, <2>4 DEF m, s
  <2>5. CASE call[p].at = "search"
    BY <1>2, <1>4, <1>5, <1>6, <2>5 DEF m, s
  <2>6. CASE call[p].at = "drop"
    BY <1>2, <1>4, <1>5, <1>6, <2>6 DEF m, s
  <2>7. CASE call[p].at = "store"
    BY <1>2, <1>4, <1>5, <1>6, <2>7 DEF m, s
  <2> QED
    BY <1>7, <2>1, <2>2, <2>3, <2>4, <2>5, <2>6, <2>7

\* The steps that send a statement: it is executed or refused.
LEMMA Sending ==
  ASSUME Shapes, Stages, NEW p \in Procs,
         \/ CreateTable(p) \/ AddColumn(p) \/ DropColumn(p) \/ CreateIndex(p) \/ CreateJoin(p)
         \/ CreateSidecar(p) \/ CreateTrigger(p) \/ DropTrigger(p) \/ DropSidecar(p)
         \/ ProvisionStore(p) \/ Fail(p)
  PROVE  Stops(p) \/ Executes(p)
<1> DEFINE m == Model(p)
           s == m.search[call[p].k]
           i == Least(call[p].todo)
           st == Statement(p)
<1>0. call[p].todo # {} /\ Done(p) => ~Rejected(p)
  <2> SUFFICES ASSUME call[p].todo # {}, Done(p), Rejected(p) PROVE FALSE
    OBVIOUS
  <2>1. call'[p].at = Reach(call[p].at, call[p].todo \ {i})
    BY Numbers DEF Goes, Same
  <2>2. call'[p].at = "error"
    BY Going DEF Goes, Same
  <2>3. call[p].at \in DOMAIN After
    BY Numbers
  <2> QED
    BY <2>1, <2>2, <2>3, AfterIs DEF Reach
<1>1. Rejected(p) /\ Quiet /\ InProgress(p) => Stops(p)
  BY Going DEF Stops
<1>p. call[p].todo # {} => InProgress(p)
  BY Numbers, AfterIs DEF InProgress, AtRest
<1>2. CASE Fail(p)
  <2>1. InProgress(p)
    BY <1>2, <1>p DEF Fail, InProgress, AtRest
  <2> QED
    BY <1>1, <1>2, <2>1 DEF Fail, others, ddl, data, Quiet
<1>3. CASE CreateTable(p)
  <2>1. call[p].todo # {} /\ st.op = "create-table"
    BY <1>3 DEF CreateTable, Doing
  <2>2. call[p].at = "create" /\ i = 0 /\ st = CreateTableSQL(m, Config(p))
    BY <2>1, Operations
  <2>3. st.table = m.table /\ st.columns = m.fields
    BY <2>2 DEF CreateTableSQL
  <2>4. CASE Rejected(p)
    BY <1>0, <1>1, <1>p, <1>3, <2>1, <2>4 DEF CreateTable, past, data, Quiet
  <2>5. CASE ~Rejected(p)
    <3>1. /\ cols[m.table] = {} /\ NoTwins([j \in DOMAIN m.fields |-> m.fields[j].column])
          /\ Done(p) /\ cols' = [cols EXCEPT ![m.table] = {Column(f) : f \in Elements(m.fields)}]
          /\ UNCHANGED <<past, idx, sides, trigs, stores, data>>
      BY <1>3, <2>3, <2>5 DEF CreateTable
    <3>2. Sends(p, 0)
      BY <2>1, <2>2, <3>1, Operations DEF past
    <3> QED
      BY <2>2, <3>1, <3>2 DEF MakesTable, Executes, NoTwins, data
  <2> QED
    BY <2>4, <2>5
<1>4. CASE AddColumn(p)
  <2>1. call[p].todo # {} /\ st.op = "add-column"
    BY <1>4 DEF AddColumn, Doing
  <2>2. /\ call[p].at \in {"add", "up"} /\ i \in DOMAIN m.fields
        /\ st = AddColumnSQL(m.table, m.fields[i]) /\ i \in Nat
    BY <2>1, Operations
  <2>3. /\ st.table = m.table /\ st.column = Column(m.fields[i])
        /\ st.column.name = m.fields[i].column
    BY <2>2 DEF AddColumnSQL, Column
  <2>4. CASE Rejected(p)
    BY <1>0, <1>1, <1>p, <1>4, <2>1, <2>4 DEF AddColumn, past, data, Quiet
  <2>5. CASE ~Rejected(p)
    <3>1. /\ cols[m.table] # {} /\ m.fields[i].column \notin ColumnNames(m.table)
          /\ Done(p) /\ cols' = [cols EXCEPT ![m.table] = @ \cup {Column(m.fields[i])}]
          /\ UNCHANGED <<past, idx, fks, sides, trigs, stores, data>>
      BY <1>4, <2>3, <2>5 DEF AddColumn
    <3>2. Sends(p, i)
      BY <2>1, <2>2, <3>1, Operations DEF past
    <3>3. AddsColumn(p, i)
      BY <2>2, <3>1, <3>2 DEF AddsColumn, data
    <3> QED
      BY <2>2, <3>3 DEF Executes
  <2> QED
    BY <2>4, <2>5
<1>5. CASE DropColumn(p)
  <2>1. call[p].todo # {} /\ st.op = "drop-column"
    BY <1>5 DEF DropColumn, Doing
  <2>2. /\ call[p].at = "down" /\ i \in DOMAIN m.fields
        /\ st = DropColumnSQL(m.table, m.fields[i]) /\ i \in Nat
    BY <2>1, Operations
  <2>3. st.table = m.table /\ st.column.name = m.fields[i].column
    BY <2>2 DEF DropColumnSQL, Column
  <2>4. Sends(p, i)
    BY <1>5, <2>1, <2>2, Operations DEF past, DropColumn
  <2>5. DropsColumn(p, i)
    BY <1>5, <2>2, <2>3, <2>4 DEF DropsColumn, DropColumn, data
  <2> QED
    BY <2>2, <2>5 DEF Executes
<1>6. CASE CreateIndex(p)
  <2>1. call[p].todo # {} /\ st.op = "create-index"
    BY <1>6 DEF CreateIndex, Doing
  <2>2. /\ call[p].at \in {"create", "sync"} /\ i \in DOMAIN IndexDefs(m)
        /\ st = IndexSQL(IndexDefs(m)[i]) /\ i \in Nat
    BY <2>1, Operations
  <2>3. st.index = IndexDefs(m)[i]
    BY <2>2 DEF IndexSQL
  <2>4. CASE Rejected(p)
    BY <1>0, <1>1, <1>p, <1>6, <2>1, <2>4 DEF CreateIndex, past, data, Quiet
  <2>5. CASE ~Rejected(p)
    <3>1. /\ IndexDefs(m)[i].column \in ColumnNames(IndexDefs(m)[i].table)
          /\ Done(p) /\ idx' = idx \cup {IndexDefs(m)[i]}
          /\ UNCHANGED <<past, cols, fks, sides, trigs, stores, data>>
      BY <1>6, <2>3, <2>5 DEF CreateIndex
    <3>2. Sends(p, i)
      BY <2>1, <2>2, <3>1, Operations DEF past
    <3>3. AddsIndex(p, i)
      BY <2>2, <3>1, <3>2 DEF AddsIndex, data
    <3> QED
      BY <2>2, <3>3 DEF Executes
  <2> QED
    BY <2>4, <2>5
<1>7. CASE CreateJoin(p)
  <2> DEFINE r == m.relations[call[p].k]
  <2>1. call[p].todo # {} /\ st.op = "create-join"
    BY <1>7 DEF CreateJoin, Doing
  <2>2. call[p].at = "join" /\ i = 1 /\ st = CreateJoinTableSQL(r)
    BY <2>1, Operations
  <2>3. st.table = r.join /\ JoinColumns(st.relation) = <<r.ownerFK, r.targetFK>>
    BY <2>2 DEF CreateJoinTableSQL, JoinColumns
  <2>4. CASE Rejected(p)
    BY <1>0, <1>1, <1>p, <1>7, <2>1, <2>4 DEF CreateJoin, past, data, Quiet
  <2>5. CASE ~Rejected(p)
    <3>1. /\ cols[r.join] = {} /\ NoTwins(<<r.ownerFK, r.targetFK>>)
          /\ Done(p)
          /\ cols' = [cols EXCEPT ![r.join] = {[name |-> c, type |-> "key"] :
                                                 c \in Elements(<<r.ownerFK, r.targetFK>>)}]
          /\ UNCHANGED <<past, idx, fks, sides, trigs, stores, data>>
      BY ZenonT(60), <1>7, <2>3, <2>5 DEF CreateJoin
    <3>2. Sends(p, 1)
      BY <2>1, <2>2, <3>1, Operations DEF past
    <3>3. /\ Elements(<<r.ownerFK, r.targetFK>>) = {r.ownerFK, r.targetFK}
          /\ r.ownerFK # r.targetFK
      <4>1. DOMAIN <<r.ownerFK, r.targetFK>> = {1, 2}
        OBVIOUS
      <4> QED
        BY <3>1, <4>1 DEF Elements, NoTwins
    <3> QED
      BY ZenonT(60), <2>2, <3>1, <3>2, <3>3 DEF MakesJoin, Executes, data
  <2> QED
    BY <2>4, <2>5
<1>8. CASE CreateSidecar(p)
  <2>1. call[p].todo # {} /\ st.op = "create-sidecar"
    BY <1>8 DEF CreateSidecar, Doing
  <2>2. call[p].at = "search" /\ i = 1 /\ st.side = s.name
    BY <2>1, Operations DEF CreateSidecarSQL
  <2>3. Sends(p, 1)
    BY <1>8, <2>1, <2>2, Operations DEF past, CreateSidecar
  <2> QED
    BY <1>8, <2>2, <2>3 DEF CreateSidecar, MakesSidecar, Executes, data
<1>9. CASE CreateTrigger(p)
  <2>1. call[p].todo # {} /\ st.op = "create-trigger"
    BY <1>9 DEF CreateTrigger, Doing
  <2>2. /\ call[p].at = "search" /\ i \in 2 .. 4 /\ ~s.hooked /\ i \in Nat
        /\ st.trigger = Trigger(m, s, EventUp(i))
    BY <2>1, Operations DEF TriggerSQL
  <2>3. Sends(p, i)
    BY <1>9, <2>1, <2>2, Operations DEF past, CreateTrigger
  <2>4. MakesTrigger(p, i)
    BY <1>9, <2>2, <2>3 DEF CreateTrigger, MakesTrigger, data
  <2> QED
    BY <2>2, <2>4 DEF Executes
<1>10. CASE DropTrigger(p)
  <2>1. call[p].todo # {} /\ st.op = "drop-trigger"
    BY <1>10 DEF DropTrigger, Doing
  <2>2. /\ call[p].at = "drop" /\ i \in 1 .. 3 /\ i \in Nat
        /\ st.trigger = Trigger(m, s, EventDown(i))
    BY <2>1, Operations DEF DropTriggerSQL
  <2>3. Sends(p, i)
    BY <1>10, <2>1, <2>2, Operations DEF past, DropTrigger
  <2>4. DropsTrigger(p, i)
    BY <1>10, <2>2, <2>3 DEF DropTrigger, DropsTrigger, data
  <2> QED
    BY <2>2, <2>4 DEF Executes
<1>11. CASE DropSidecar(p)
  <2>1. call[p].todo # {} /\ st.op = "drop-sidecar"
    BY <1>11 DEF DropSidecar, Doing
  <2>2. call[p].at = "drop" /\ i = 4 /\ st.side = s.name
    BY <2>1, Operations DEF DropSidecarSQL
  <2>3. Sends(p, 4)
    BY <1>11, <2>1, <2>2, Operations DEF past, DropSidecar
  <2> QED
    BY <1>11, <2>2, <2>3 DEF DropSidecar, DropsSidecar, Executes
<1>12. CASE ProvisionStore(p)
  <2>1. call[p].todo # {} /\ st.op = "provision"
    BY <1>12 DEF ProvisionStore, Doing
  <2>2. /\ call[p].at = "store" /\ i \in DOMAIN m.lobs /\ i \in Nat
        /\ st.store = <<m.table, m.lobs[i].column>>
    BY <2>1, Operations DEF ProvisionSQL
  <2>3. Sends(p, i)
    BY <1>12, <2>1, <2>2, Operations DEF past, ProvisionStore
  <2>4. MakesStore(p, i)
    BY <1>12, <2>2, <2>3 DEF ProvisionStore, MakesStore, data
  <2> QED
    BY <2>2, <2>4 DEF Executes
<1> QED
  BY <1>2, <1>3, <1>4, <1>5, <1>6, <1>7, <1>8, <1>9, <1>10, <1>11, <1>12

\* Every step of a call is one of these.
LEMMA Effects ==
  ASSUME Shapes, Stages, NEW p \in Procs, Step(p) \/ Fail(p)
  PROVE  Does(p)
BY Looking, Sending DEF Step, Does

(***************************************************************************)
(* Calls: Shapes, Stages and Alone.                                        *)
(***************************************************************************)
\* The application writes a row.
Writes == \E t \in Tables, r \in Rows, ev \in Events, present \in BOOLEAN : Write(t, r, ev, present)

\* A step is a write, the start of a call, or one of the effects above.
LEMMA NextCases ==
  ASSUME Shapes, Stages, Next
  PROVE  Writes \/ \E p \in Procs : Start(p) \/ Does(p)
<1>1. Searched \subseteq Tables
  BY Requests DEF Searched, IsModel, Elements
<1>2. "ai" \in Events /\ "au" \in Events /\ "ad" \in Events
  BY DEF Events
<1>3. ASSUME NEW t \in Searched, NEW r \in Rows, InsertRow(t, r) \/ UpdateRow(t, r) \/ DeleteRow(t, r)
      PROVE  Writes
  BY <1>1, <1>2, <1>3 DEF InsertRow, UpdateRow, DeleteRow, Writes
<1> QED
  BY <1>3, Effects DEF Next

\* What it means that one call moves.
LEMMA Going1 ==
  ASSUME NEW p \in Procs, NEW c, Goes(p, c)
  PROVE  /\ call' = [q \in Procs |-> call'[q]]
         /\ call'[p] = c
         /\ \A q \in Procs : q # p => call'[q] = call[q]
BY DEF Goes

\* Whatever a step does, it is the call of one process that moves, or none.
LEMMA OneMoves ==
  ASSUME Shapes, NEW p \in Procs, Start(p) \/ Does(p)
  PROVE  /\ call' = [q \in Procs |-> call'[q]]
         /\ \A q \in Procs : q # p => call'[q] = call[q]
         /\ dialect' = dialect /\ request' = request
<1>1. CASE Start(p)
  <2>1. call = [q \in Procs |-> call[q]]
    BY DEF Shapes
  <2> QED
    BY <1>1, <2>1 DEF Start
<1>2. CASE Stops(p)
  BY <1>2, Going1 DEF Stops, Quiet
<1>3. CASE Looks(p)
  BY <1>3, Going1 DEF Looks, Quiet, Resolves, Introspects, Lists, Joins, Searches, Provides,
                     Reverts, Continues
<1>4. CASE Returns(p)
  BY <1>4, Going1 DEF Returns
<1>5. CASE Executes(p)
  <2>1. \A i : Sends(p, i) => /\ call' = [q \in Procs |-> call'[q]]
                              /\ \A q \in Procs : q # p => call'[q] = call[q]
                              /\ dialect' = dialect /\ request' = request
    BY Going1 DEF Sends
  <2> QED
    BY <1>5, <2>1 DEF Executes, MakesTable, AddsColumn, DropsColumn, AddsIndex, MakesJoin,
                     MakesSidecar, MakesTrigger, DropsTrigger, DropsSidecar, MakesStore
<1> QED
  BY <1>1, <1>2, <1>3, <1>4, <1>5 DEF Does

\* What Start makes of a call.
LEMMA Starting ==
  ASSUME Shapes, NEW p \in Procs, Start(p)
  PROVE  \E b : /\ b => \A m \in Elements(request[p].models) : Declared(m)
                /\ call'[p] = [at |-> "model", m |-> 1, k |-> 0, todo |-> {}, down |-> {},
                               before |-> {}, clean |-> b]
<1> DEFINE b == \A m \in Elements(request[p].models) : Declared(m)
<1>1. call = [q \in Procs |-> call[q]]
  BY DEF Shapes
<1>2. call'[p] = [Idle EXCEPT !.at = "model", !.clean = b]
  BY <1>1 DEF Start
<1>3. b => \A m \in Elements(request[p].models) : Declared(m)
  OBVIOUS
<1> HIDE DEF b
<1>4. call'[p] = [at |-> "model", m |-> 1, k |-> 0, todo |-> {}, down |-> {},
                  before |-> {}, clean |-> b]
  BY <1>2 DEF Idle
<1> QED
  BY <1>3, <1>4

\* A record with these fields is a call.
LEMMA CallIs ==
  /\ \A at, m, k, todo, down, before, clean :
       IsCall([at |-> at, m |-> m, k |-> k, todo |-> todo, down |-> down, before |-> before,
               clean |-> clean])
  /\ \A p, at, k, todo : IsCall(Same(p, at, k, todo))
BY DEF IsCall, Same

ShapeOf(p) ==
  /\ IsCall(call[p])
  /\ call[p].m \in DOMAIN request[p].models
  /\ call[p].k \in Nat
  /\ call[p].todo \subseteq Nat

\* The record of a call stays one.
LEMMA ShapeNext ==
  ASSUME Shapes, Stages, NEW p \in Procs, Start(p) \/ Does(p)
  PROVE  ShapeOf(p)'
<1> DEFINE m == Model(p)
<1>1. /\ call[p].m \in DOMAIN request[p].models /\ call[p].k \in Nat /\ call[p].todo \subseteq Nat
      /\ IsCall(call[p])
  BY DEF Shapes
<1>2. request' = request
  BY OneMoves
<1>3. IsModel(m) /\ DOMAIN request[p].models = 1 .. Len(request[p].models)
      /\ Len(request[p].models) \in Nat /\ 1 \in DOMAIN request[p].models
  BY Requests
<1>4. ASSUME NEW at, NEW k \in Nat, NEW todo, todo \subseteq Nat, Goes(p, Same(p, at, k, todo))
      PROVE  ShapeOf(p)'
  <2>1. call'[p] = Same(p, at, k, todo)
    BY <1>4, Going1
  <2>2. call'[p].m \in DOMAIN request'[p].models /\ call'[p].k = k /\ call'[p].todo = todo
        /\ call'[p].m = call[p].m /\ call'[p].down = call[p].down
        /\ call'[p].before = call[p].before /\ call'[p].clean = call[p].clean
        /\ call'[p].at = at
    BY <2>1, <1>1, <1>2 DEF Same
  <2>3. IsCall(call'[p])
    <3>1. IsCall(Same(p, at, k, todo))
      BY CallIs
    <3> QED
      BY <2>1, <3>1
  <2>4. call'[p].todo \subseteq Nat /\ call'[p].k \in Nat
    BY <2>2, <1>4
  <2> QED
    BY <2>2, <2>3, <2>4 DEF ShapeOf
<1>5. CASE Start(p)
  <2>1. PICK b : call'[p] = [at |-> "model", m |-> 1, k |-> 0, todo |-> {}, down |-> {},
                             before |-> {}, clean |-> b]
    BY <1>5, Starting
  <2>2. IsCall(call'[p]) /\ call'[p].m = 1 /\ call'[p].k = 0 /\ call'[p].todo = {}
    BY <2>1, CallIs
  <2> QED
    BY <1>2, <1>3, <2>2 DEF ShapeOf
<1>6. CASE Stops(p)
  BY <1>1, <1>4, <1>6 DEF Stops
<1>7. CASE Resolves(p)
  <2>1. DOMAIN m.fields \subseteq Nat
    BY <1>3 DEF IsModel
  <2>2. Added(m) \subseteq Nat
    BY <2>1 DEF Added
  <2>3. CASE ~(request[p].op = "review")
    <3>1. \/ Goes(p, Same(p, "columns", call[p].k, {}))
          \/ Goes(p, Same(p, "specs", call[p].k, {}))
      BY <1>7, <2>3 DEF Resolves
    <3> QED
      BY <1>1, <1>4, <3>1
  <2>4. CASE request[p].op = "review"
    <3>1. PICK at, new : /\ Goes(p, [Same(p, at, call[p].k, new)
                                       EXCEPT !.down = new, !.before = cols[m.table]])
                         /\ new \subseteq Nat
      BY <1>7, <2>2, <2>4 DEF Resolves, Migrates
    <3>2. call'[p] = [at |-> at, m |-> call[p].m, k |-> call[p].k, todo |-> new, down |-> new,
                      before |-> cols[m.table], clean |-> call[p].clean]
      <4>1. call'[p] = [Same(p, at, call[p].k, new) EXCEPT !.down = new, !.before = cols[m.table]]
        BY <3>1, Going1
      <4>2. PICK c, b : c = call[p] /\ b = cols[m.table]
        OBVIOUS
      <4>3. call'[p] = [[at |-> at, m |-> c.m, k |-> c.k, todo |-> new, down |-> c.down,
                         before |-> c.before, clean |-> c.clean]
                          EXCEPT !.down = new, !.before = b]
        BY <4>1, <4>2 DEF Same
      <4> QED
        BY <4>2, <4>3
    <3>3. /\ IsCall(call'[p]) /\ call'[p].m = call[p].m /\ call'[p].k = call[p].k
          /\ call'[p].todo = new
      BY <3>2, CallIs
    <3> QED
      BY <1>1, <1>2, <3>1, <3>3 DEF ShapeOf
  <2> QED
    BY <2>3, <2>4
<1>8. CASE Continues(p)
  <2>1. call'[p] = [call[p] EXCEPT !.at = "model", !.m = call[p].m + 1, !.k = 0]
        /\ call[p].m < Len(request[p].models)
    BY <1>8, Going1 DEF Continues
  <2>2. call[p].m + 1 \in DOMAIN request[p].models
    BY <2>1, <1>1, <1>3
  <2>3. /\ call'[p].at = "model" /\ call'[p].m = call[p].m + 1 /\ call'[p].k = 0
        /\ call'[p].todo = call[p].todo /\ call'[p].down = call[p].down
        /\ call'[p].before = call[p].before /\ call'[p].clean = call[p].clean
        /\ IsCall(call'[p])
    <3>1. PICK c, n : c = call[p] /\ n = call[p].m + 1
      OBVIOUS
    <3>2. call'[p] = [c EXCEPT !.at = "model", !.m = n, !.k = 0] /\ IsCall(c)
      BY <1>1, <2>1, <3>1
    <3> QED
      BY <3>1, <3>2 DEF IsCall
  <2> QED
    BY <1>1, <1>2, <2>2, <2>3 DEF ShapeOf
<1>9. CASE Introspects(p)
  <2>1. {0} \cup DOMAIN IndexDefs(m) \subseteq Nat /\ AddMissing(m, cols[m.table]) \subseteq Nat
    BY <1>3 DEF IsModel, AddMissing
  <2>2. PICK at, todo : Goes(p, Same(p, at, call[p].k, todo)) /\ todo \subseteq Nat
    BY <1>9, <2>1 DEF Introspects
  <2> QED
    BY <1>1, <1>4, <2>2
<1>10. CASE Lists(p)
  <2>1. MissingIndexes(m) \subseteq Nat
    BY <1>3 DEF IsModel, MissingIndexes
  <2>2. PICK at, todo : Goes(p, Same(p, at, call[p].k, todo)) /\ todo \subseteq Nat
    BY <1>10, <2>1 DEF Lists
  <2> QED
    BY <1>1, <1>4, <2>2
<1>11. CASE Joins(p)
  <2>1. Junctions(m) \subseteq Nat
    BY <1>3 DEF IsModel
  <2>2. PICK at, k, todo : Goes(p, Same(p, at, k, todo)) /\ todo \subseteq Nat /\ k \in Nat
    <3>1. CASE Goes(p, Same(p, "specs", 0, {}))
      BY <3>1
    <3>2. CASE \E l \in Junctions(m) :
                 Goes(p, Same(p, "join", l, {1})) \/ Goes(p, Same(p, "joins", l, {}))
      BY <2>1, <3>2
    <3> QED
      BY <1>11, <3>1, <3>2 DEF Joins
  <2> QED
    BY <1>4, <2>2
<1>12. CASE Searches(p)
  <2>1. DOMAIN m.search \subseteq Nat
    BY <1>3 DEF IsModel
  <2>2. CASE Goes(p, Same(p, IF Migrates(p) THEN "lobs" ELSE "end", call[p].k, {}))
    BY <1>1, <1>4, <2>2
  <2>3. CASE \E l \in DOMAIN m.search :
               \/ Goes(p, Same(p, "search", l, DOMAIN ProvisionSearchSQL(m, m.search[l])))
               \/ Goes(p, Same(p, "drop", l, 1 .. 4))
    <3>1. PICK l \in DOMAIN m.search :
               \/ Goes(p, Same(p, "search", l, DOMAIN ProvisionSearchSQL(m, m.search[l])))
               \/ Goes(p, Same(p, "drop", l, 1 .. 4))
      BY <2>3
    <3>2. DOMAIN ProvisionSearchSQL(m, m.search[l]) \subseteq Nat /\ 1 .. 4 \subseteq Nat /\ l \in Nat
      BY <2>1, SearchSQLIs
    <3> QED
      BY <1>4, <3>1, <3>2
  <2> QED
    BY <1>12, <2>2, <2>3 DEF Searches
<1>13. CASE Provides(p)
  <2>1. PICK at, todo : Goes(p, Same(p, at, call[p].k, todo)) /\ todo \subseteq Nat
    BY <1>13, <1>3 DEF Provides, IsModel
  <2> QED
    BY <1>1, <1>4, <2>1
<1>14. CASE Reverts(p)
  <2>1. call[p].down \subseteq DOMAIN m.fields
    BY <1>14 DEF Reverts, Stages, Staged
  <2>2. PICK at, todo : Goes(p, Same(p, at, call[p].k, todo)) /\ todo \subseteq Nat
    BY <1>14, <2>1, <1>3 DEF Reverts, IsModel
  <2> QED
    BY <1>1, <1>4, <2>2
<1>15. CASE Returns(p)
  BY <1>1, <1>4, <1>15 DEF Returns
<1>16. CASE Executes(p)
  <2>1. \A i : Sends(p, i) => ShapeOf(p)'
    <3> TAKE i
    <3> HAVE Sends(p, i)
    <3>1. PICK at, todo : Goes(p, Same(p, at, call[p].k, todo)) /\ todo \subseteq Nat
      BY <1>1 DEF Sends
    <3> QED
      BY <1>1, <1>4, <3>1
  <2> QED
    BY <1>16, <2>1 DEF Executes, MakesTable, AddsColumn, DropsColumn, AddsIndex, MakesJoin,
                     MakesSidecar, MakesTrigger, DropsTrigger, DropsSidecar, MakesStore
<1> QED
  BY <1>5, <1>6, <1>7, <1>8, <1>9, <1>10, <1>11, <1>12, <1>13, <1>14, <1>15, <1>16 DEF Does, Looks

\* A statement changes one table at most.
LEMMA OneTable ==
  ASSUME NEW p \in Procs, Start(p) \/ Does(p)
  PROVE  rows' = rows /\ (cols' = cols \/ \E t, S : cols' = [cols EXCEPT ![t] = S])
<1>1. CASE Start(p)
  BY <1>1 DEF Start, ddl, data
<1>2. CASE Stops(p) \/ Looks(p) \/ Returns(p)
  BY <1>2 DEF Stops, Looks, Returns, Quiet, Resolves, Introspects, Lists, Joins, Searches,
              Provides, Reverts, Continues
<1>3. CASE Executes(p)
  BY <1>3 DEF Executes, MakesTable, AddsColumn, DropsColumn, AddsIndex, MakesJoin,
              MakesSidecar, MakesTrigger, DropsTrigger, DropsSidecar, MakesStore
<1> QED
  BY <1>1, <1>2, <1>3 DEF Does

\* Failures are counted as far as they go.
LEMMA FaultsNext ==
  ASSUME Shapes, Next
  PROVE  faults' \in 0 .. MaxFaults
<1>1. faults \in Nat /\ faults <= MaxFaults /\ MaxFaults \in Nat
  BY AutoMigrateAssumption DEF Shapes
<1>2. faults' = faults \/ (faults' = faults + 1 /\ faults < MaxFaults) => faults' \in 0 .. MaxFaults
  BY <1>1
<1>3. ASSUME NEW p \in Procs, Step(p)
      PROVE  faults' = faults \/ (faults' = faults + 1 /\ faults < MaxFaults)
  <2>1. CASE ReadColumns(p) \/ ReadJunction(p)
    BY ZenonT(60), <2>1 DEF ReadColumns, ReadJunction, Introspected
  <2>2. CASE Resolve(p) \/ ReadIndexes(p) \/ ReadSearch(p) \/ ReadLOBs(p) \/ Revert(p) \/ NextModel(p)
    BY <2>2 DEF Resolve, ReadIndexes, ReadSearch, ReadLOBs, Revert, NextModel
  <2>3. CASE ~(\/ Resolve(p) \/ ReadColumns(p) \/ ReadIndexes(p) \/ ReadJunction(p)
               \/ ReadSearch(p) \/ ReadLOBs(p) \/ Revert(p) \/ NextModel(p))
    BY <1>3, <2>3 DEF Step, CreateTable, AddColumn, DropColumn, CreateIndex, CreateJoin,
                      CreateSidecar, CreateTrigger, DropTrigger, DropSidecar, ProvisionStore, past
  <2> QED
    BY <2>1, <2>2, <2>3
<1>4. ASSUME NEW p \in Procs, Start(p) \/ Fail(p)
      PROVE  faults' = faults \/ (faults' = faults + 1 /\ faults < MaxFaults)
  BY <1>4 DEF Start, Fail
<1>5. ASSUME NEW t, NEW r, InsertRow(t, r) \/ UpdateRow(t, r) \/ DeleteRow(t, r)
      PROVE  faults' = faults
  BY <1>5 DEF InsertRow, UpdateRow, DeleteRow, Write
<1> QED
  BY <1>2, <1>3, <1>4, <1>5 DEF Next

\* Calls, tables and failures stay what they are.
LEMMA ShapesNext ==
  ASSUME Shapes, Stages, Next
  PROVE  Shapes'
<1>1. faults' \in 0 .. MaxFaults
  BY FaultsNext
<1>2. CASE Writes
  <2>1. call' = call /\ request' = request /\ cols' = cols
    BY <1>2 DEF Writes, Write, ddl
  <2>2. rows' = [t \in Tables |-> rows'[t]]
    BY <1>2 DEF Writes, Write, Shapes
  <2> QED
    BY <1>1, <2>1, <2>2 DEF Shapes
<1>3. ASSUME NEW p \in Procs, Start(p) \/ Does(p)
      PROVE  Shapes'
  <2>1. /\ call' = [q \in Procs |-> call'[q]] /\ request' = request
        /\ \A q \in Procs : q # p => call'[q] = call[q]
    BY <1>3, OneMoves
  <2>2. rows' = rows /\ cols' = [t \in Tables |-> cols'[t]]
    BY <1>3, OneTable DEF Shapes
  <2>3. \A q \in Procs : ShapeOf(q)'
    <3> TAKE q \in Procs
    <3>1. CASE q = p
      BY <1>3, <3>1, ShapeNext
    <3>2. CASE q # p
      BY <2>1, <3>2 DEF ShapeOf, Shapes
    <3> QED
      BY <3>1, <3>2
  <2> QED
    BY <1>1, <2>1, <2>2, <2>3 DEF Shapes, ShapeOf
<1> QED
  BY <1>2, <1>3, NextCases

\* A stage is reached with its statements, or over at once.
LEMMA ReachIs ==
  ASSUME NEW at \in DOMAIN After, NEW todo
  PROVE  \/ todo = {} /\ Reach(at, todo) = After[at]
         \/ todo # {} /\ Reach(at, todo) = at
BY DEF Reach

\* A stage is reached with statements of that stage.
LEMMA StagedNext ==
  ASSUME Shapes, Stages, NEW p \in Procs, Start(p) \/ Does(p)
  PROVE  Staged(request[p].op, Model(p), call[p])'
<1>1. PICK op, m, c, d : op = request[p].op /\ m = Model(p) /\ c = call[p] /\ d = call'[p]
  OBVIOUS
<1>2. request' = request /\ dialect' = dialect
  BY OneMoves
<1>3. Staged(op, m, c) /\ op \in {"migrate", "all", "drop", "review"} /\ IsModel(m)
  BY <1>1, Requests DEF Stages
<1>4. d.m = c.m => Model(p)' = m
  BY <1>1, <1>2 DEF Model
<1>5. ASSUME d.m = c.m, Staged(op, m, d)
      PROVE  Staged(request[p].op, Model(p), call[p])'
  BY <1>1, <1>2, <1>4, <1>5 DEF Staged
<1>6. ASSUME d.at \in {"model", "error", "nil", "lobs", "joins", "indexes", "columns"}, d.todo = {},
             d.at \in Migrating => op \in {"migrate", "all"}
      PROVE  Staged(request[p].op, Model(p), call[p])'
  BY <1>1, <1>2, <1>6, AfterIs DEF Staged, Migrating, AtRest
<1>7. ASSUME NEW at, NEW k, NEW todo, Goes(p, Same(p, at, k, todo))
      PROVE  /\ d.at = at /\ d.k = k /\ d.todo = todo /\ d.m = c.m /\ d.down = c.down
  BY <1>1, <1>7, Going1 DEF Same
<1>8. CASE Start(p)
  <2>1. d.at = "model" /\ d.todo = {}
    <3>1. PICK b : call'[p] = [at |-> "model", m |-> 1, k |-> 0, todo |-> {}, down |-> {},
                               before |-> {}, clean |-> b]
      BY <1>8, Starting
    <3> QED
      BY <1>1, <3>1
  <2> QED
    BY <1>6, <2>1 DEF Migrating
<1>9. CASE Stops(p)
  BY <1>6, <1>7, <1>9 DEF Stops, Migrating
<1>10. CASE Resolves(p)
  <2>1. CASE op # "review"
    <3>1. \/ op \in {"migrate", "all"} /\ Goes(p, Same(p, "columns", c.k, {}))
          \/ op = "drop" /\ Goes(p, Same(p, "specs", c.k, {}))
      BY <1>1, <1>10, <2>1 DEF Resolves, Migrates
    <3>2. \/ op \in {"migrate", "all"} /\ d.at = "columns"
          \/ op = "drop" /\ d.at = "specs"
      BY <1>7, <3>1
    <3>3. d.todo = {} /\ d.m = c.m
      BY <1>7, <3>1
    <3>4. Staged(op, m, d)
      BY <3>2, <3>3, AfterIs DEF Staged, Migrating, AtRest
    <3> QED
      BY <1>5, <3>3, <3>4
  <2>2. CASE op = "review"
    <3> DEFINE new == Added(m)
    <3>1. Goes(p, [Same(p, Reach("up", new), c.k, new) EXCEPT !.down = new, !.before = cols[m.table]])
      BY <1>1, <1>10, <2>2 DEF Resolves, Migrates
    <3>2. d = [Same(p, Reach("up", new), c.k, new) EXCEPT !.down = new, !.before = cols[m.table]]
      BY <1>1, <3>1, Going1
    <3>3. d.at = Reach("up", new) /\ d.todo = new /\ d.down = new /\ d.m = c.m
      BY <1>1, <3>2 DEF Same
    <3>4. new \subseteq DOMAIN m.fields
      BY DEF Added
    <3>5. \/ new = {} /\ d.at = "reviewed"
          \/ new # {} /\ d.at = "up"
      BY <3>3, AfterIs DEF Reach
    <3>6. Staged(op, m, d)
      BY <2>2, <3>3, <3>4, <3>5, AfterIs DEF Staged, Migrating, AtRest
    <3> QED
      BY <1>5, <3>3, <3>6
  <2> QED
    BY <2>1, <2>2
<1>11. CASE Introspects(p)
  <2> DEFINE missing == AddMissing(m, cols[m.table])
  <2>1. op \in {"migrate", "all"}
    BY <1>1, <1>3, <1>11 DEF Introspects, Staged, Migrating
  <2>2. missing \subseteq DOMAIN m.fields
    BY DEF AddMissing
  <2>3. \/ Goes(p, Same(p, "create", c.k, {0} \cup DOMAIN IndexDefs(m)))
        \/ Goes(p, Same(p, Reach("add", missing), c.k, missing))
    BY <1>1, <1>11 DEF Introspects
  <2>4. \/ d.at = "create" /\ d.todo = {0} \cup DOMAIN IndexDefs(m)
        \/ d.at = Reach("add", missing) /\ d.todo = missing
    BY <1>7, <2>3
  <2>5. d.m = c.m
    BY <1>7, <2>3
  <2>6. Reach("add", missing) = IF missing = {} THEN "indexes" ELSE "add"
    BY AfterIs DEF Reach
  <2> HIDE DEF missing
  <2>7. Staged(op, m, d)
    BY <2>1, <2>2, <2>4, <2>6, AfterIs DEF Staged, Migrating, AtRest
  <2> QED
    BY <1>5, <2>5, <2>7
<1>12. CASE Lists(p)
  <2> DEFINE missing == MissingIndexes(m)
  <2>1. op \in {"migrate", "all"}
    BY <1>1, <1>3, <1>12 DEF Lists, Staged, Migrating
  <2>2. missing \subseteq DOMAIN IndexDefs(m)
    BY DEF MissingIndexes
  <2>3. Goes(p, Same(p, Reach("sync", missing), c.k, missing))
    BY <1>1, <1>12 DEF Lists
  <2>4. d.at = Reach("sync", missing) /\ d.todo = missing /\ d.m = c.m
    BY <1>7, <2>3
  <2>5. Reach("sync", missing) = IF missing = {} THEN "joins" ELSE "sync"
    BY AfterIs DEF Reach
  <2> HIDE DEF missing
  <2>6. Staged(op, m, d)
    BY <2>1, <2>2, <2>4, <2>5, AfterIs DEF Staged, Migrating, AtRest
  <2> QED
    BY <1>5, <2>4, <2>6
<1>13. CASE Joins(p)
  <2>1. op \in {"migrate", "all"}
    BY <1>1, <1>3, <1>13 DEF Joins, Staged, Migrating
  <2>2. \/ Goes(p, Same(p, "specs", 0, {}))
        \/ \E l \in Junctions(m) :
             Goes(p, Same(p, "join", l, {1})) \/ Goes(p, Same(p, "joins", l, {}))
    BY <1>1, <1>13 DEF Joins
  <2>3. /\ d.m = c.m
        /\ \/ d.at \in {"specs", "joins"} /\ d.todo = {}
           \/ d.at = "join" /\ d.todo = {1} /\ d.k \in Junctions(m)
    BY <1>7, <2>2
  <2>4. Staged(op, m, d)
    BY <2>1, <2>3, AfterIs DEF Staged, Migrating, AtRest
  <2> QED
    BY <1>5, <2>3, <2>4
<1>14. CASE Searches(p)
  <2>1. op # "review"
    BY <1>1, <1>3, <1>14 DEF Searches, Staged
  <2>2. \/ Migrates(p) /\ Goes(p, Same(p, "lobs", c.k, {}))
        \/ ~Migrates(p) /\ Goes(p, Same(p, "end", c.k, {}))
        \/ \E l \in DOMAIN m.search :
             /\ dialect = "sqlite" /\ m.search[l].valid
             /\ \/ Migrates(p) /\ Goes(p, Same(p, "search", l, DOMAIN ProvisionSearchSQL(m, m.search[l])))
                \/ ~Migrates(p) /\ Goes(p, Same(p, "drop", l, 1 .. 4))
    BY <1>1, <1>14 DEF Searches
  <2>3. Migrates(p) => op \in {"migrate", "all"}
    BY <1>1 DEF Migrates
  <2>4. ~Migrates(p) => op = "drop"
    BY <1>1, <1>3, <2>1 DEF Migrates
  <2>5. \A l : DOMAIN ProvisionSearchSQL(m, m.search[l]) # {}
    BY SearchSQLIs
  <2>6. /\ d.m = c.m
        /\ \/ d.at = "lobs" /\ d.todo = {} /\ op \in {"migrate", "all"}
           \/ d.at = "end" /\ d.todo = {}
           \/ /\ dialect = "sqlite" /\ m.search[d.k].valid /\ d.k \in DOMAIN m.search
              /\ \/ /\ d.at = "search" /\ d.todo = DOMAIN ProvisionSearchSQL(m, m.search[d.k])
                    /\ op \in {"migrate", "all"} /\ d.todo # {}
                 \/ d.at = "drop" /\ d.todo = 1 .. 4 /\ op = "drop"
    BY <1>7, <2>2, <2>3, <2>4, <2>5
  <2>7. 4 \in 1 .. 4
    OBVIOUS
  <2>8. Staged(op, m, d)
    BY <2>6, <2>7, AfterIs DEF Staged, Migrating, AtRest
  <2> QED
    BY <1>5, <2>6, <2>8
<1>15. CASE Provides(p)
  <2> DEFINE all == DOMAIN m.lobs
  <2>1. op \in {"migrate", "all"}
    BY <1>1, <1>3, <1>15 DEF Provides, Staged, Migrating
  <2>2. Goes(p, Same(p, Reach("store", all), c.k, all))
    BY <1>1, <1>15 DEF Provides
  <2>3. d.at = Reach("store", all) /\ d.todo = all /\ d.m = c.m
    BY <1>7, <2>2
  <2>4. Reach("store", all) = IF all = {} THEN "end" ELSE "store"
    BY AfterIs DEF Reach
  <2>5. Staged(op, m, d)
    BY <2>1, <2>3, <2>4, AfterIs DEF Staged, Migrating, AtRest
  <2> QED
    BY <1>5, <2>3, <2>5
<1>16. CASE Reverts(p)
  <2>1. op = "review" /\ c.down \subseteq DOMAIN m.fields
    BY <1>1, <1>3, <1>16 DEF Reverts, Staged
  <2>2. Goes(p, Same(p, Reach("down", c.down), c.k, c.down))
    BY <1>1, <1>16 DEF Reverts
  <2>3. d.at = Reach("down", c.down) /\ d.todo = c.down /\ d.m = c.m /\ d.down = c.down
    BY <1>7, <2>2
  <2>4. Reach("down", c.down) = IF c.down = {} THEN "end" ELSE "down"
    BY AfterIs DEF Reach
  <2>5. Staged(op, m, d)
    BY <2>1, <2>3, <2>4, AfterIs DEF Staged, Migrating, AtRest
  <2> QED
    BY <1>5, <2>3, <2>5
<1>17. CASE Continues(p)
  <2>1. call'[p] = [call[p] EXCEPT !.at = "model", !.m = call[p].m + 1, !.k = 0]
    BY <1>17, Going1 DEF Continues
  <2>2. call[p].todo = {}
    BY <1>17, NoneToDo, AfterIs DEF Continues
  <2>3. d.at = "model" /\ d.todo = {}
    BY <1>1, <2>1, <2>2 DEF Shapes, IsCall
  <2> QED
    BY <1>6, <2>3 DEF Migrating
<1>18. CASE Returns(p)
  BY <1>6, <1>7, <1>18 DEF Returns, Migrating
<1>19. CASE Executes(p)
  <2>1. PICK i : Sends(p, i)
    BY <1>19 DEF Executes, MakesTable, AddsColumn, DropsColumn, AddsIndex, MakesJoin,
                    MakesSidecar, MakesTrigger, DropsTrigger, DropsSidecar, MakesStore
  <2>2. /\ i \in c.todo /\ (\A j \in c.todo : i <= j)
        /\ Goes(p, Same(p, Reach(c.at, c.todo \ {i}), c.k, c.todo \ {i}))
    BY <1>1, <2>1 DEF Sends
  <2>3. /\ d.m = c.m /\ d.todo = c.todo \ {i} /\ d.at = Reach(c.at, d.todo) /\ d.k = c.k
        /\ d.down = c.down
    BY <1>7, <2>2
  <2>4. c.at \in DOMAIN After
    BY <1>3, <2>2 DEF Staged
  <2>5. CASE d.todo = {}
    <3>1. d.at = After[c.at]
      BY <2>3, <2>4, <2>5, ReachIs
    <3>2. Staged(op, m, d)
      BY <1>3, <2>3, <2>4, <2>5, <3>1, AfterIs DEF Staged, Migrating, AtRest
    <3> QED
      BY <1>5, <2>3, <3>2
  <2>6. CASE d.todo # {}
    <3>1. d.at = c.at
      BY <2>3, <2>4, <2>6, ReachIs
    <3>2. c.at = "join" => d.todo = c.todo
      BY <1>3, <2>2, <2>3, <2>6 DEF Staged
    <3>3. c.at = "drop" => 4 \in d.todo
      <4>1. SUFFICES ASSUME c.at = "drop", i = 4 PROVE d.todo = {}
        BY <1>3, <2>3, <2>6 DEF Staged
      <4>2. \A j \in c.todo : j \in 1 .. 4 /\ 4 <= j
        BY <1>3, <2>2, <4>1 DEF Staged
      <4>3. \A j \in c.todo : j = 4
        BY <4>2
      <4> QED
        BY <2>3, <4>1, <4>3
    <3>4. Staged(op, m, d)
      BY <1>3, <2>3, <2>4, <2>6, <3>1, <3>2, <3>3, AfterIs DEF Staged, Migrating, AtRest
    <3> QED
      BY <1>5, <2>3, <3>4
  <2> QED
    BY <2>5, <2>6
<1> QED
  BY <1>8, <1>9, <1>10, <1>11, <1>12, <1>13, <1>14, <1>15, <1>16, <1>17, <1>18, <1>19 DEF Does, Looks

\* Stages is kept, by p's own step and by those of the others.
LEMMA StagesNext ==
  ASSUME Shapes, Stages, Next
  PROVE  Stages'
<1>1. CASE Writes
  <2>1. call' = call /\ request' = request /\ dialect' = dialect
    BY <1>1 DEF Writes, Write
  <2> QED
    BY ZenonT(90), <2>1 DEF Stages, Staged, Model
<1>2. ASSUME NEW p \in Procs, Start(p) \/ Does(p), NEW q \in Procs
      PROVE  Staged(request[q].op, Model(q), call[q])'
  <2>1. CASE q = p
    BY <1>2, <2>1, StagedNext
  <2>2. CASE q # p
    <3>1. call'[q] = call[q] /\ request' = request /\ dialect' = dialect
      BY <1>2, <2>2, OneMoves
    <3> QED
      BY ZenonT(60), <3>1 DEF Stages, Staged, Model
  <2> QED
    BY <2>1, <2>2
<1> QED
  BY <1>1, <1>2, NextCases DEF Stages

\* A call at rest does not move but by Start.
LEMMA Resting ==
  ASSUME Stages, NEW p \in Procs, Does(p)
  PROVE  InProgress(p)
<1>1. \A at \in AtRest : at \notin DOMAIN After
  BY AfterIs DEF AtRest
<1>2. ASSUME NEW i, Sends(p, i) PROVE InProgress(p)
  <2>1. call[p].at \in DOMAIN After
    BY <1>2 DEF Sends, Stages, Staged
  <2> QED
    BY <1>1, <2>1 DEF InProgress
<1>3. CASE Executes(p)
  BY <1>2, <1>3 DEF Executes, MakesTable, AddsColumn, DropsColumn, AddsIndex, MakesJoin,
                    MakesSidecar, MakesTrigger, DropsTrigger, DropsSidecar, MakesStore
<1>4. CASE Looks(p)
  BY <1>4 DEF Looks, Resolves, Introspects, Lists, Joins, Searches, Provides, Reverts, Continues,
              InProgress, AtRest
<1> QED
  BY <1>3, <1>4 DEF Does, Stops, Returns, InProgress, AtRest

\* A drop or a review starts alone, and nothing starts beside one.
LEMMA AloneNext ==
  ASSUME Shapes, Stages, Alone, Next
  PROVE  Alone'
<1>1. CASE Writes
  <2>1. call' = call /\ request' = request
    BY <1>1 DEF Writes, Write
  <2> QED
    BY <2>1 DEF Alone, Exclusive, Migrates, InProgress
<1>2. ASSUME NEW p \in Procs, Does(p)
      PROVE  Alone'
  <2>1. \A q \in Procs : InProgress(q)' => InProgress(q)
    <3> TAKE q \in Procs
    <3>1. CASE q = p
      BY <1>2, <3>1, Resting
    <3>2. CASE q # p
      BY <1>2, <3>2, OneMoves DEF InProgress
    <3> QED
      BY <3>1, <3>2
  <2>2. request' = request
    BY <1>2, OneMoves
  <2> QED
    BY <2>1, <2>2 DEF Alone, Exclusive, Migrates
<1>3. ASSUME NEW p \in Procs, Start(p)
      PROVE  Alone'
  <2>1. /\ request' = request
        /\ \A q \in Procs : q # p => call'[q] = call[q]
    BY <1>3, OneMoves
  <2>2. \A q \in Procs : Exclusive(p) \/ Exclusive(q) => ~InProgress(q)
    BY <1>3 DEF Start, InProgress
  <2>3. \A q \in Procs : q # p /\ (Exclusive(p) \/ Exclusive(q)) => ~(InProgress(q)')
    BY <2>1, <2>2 DEF InProgress
  <2>4. \A q \in Procs : Exclusive(q)' = Exclusive(q)
    BY <2>1 DEF Exclusive, Migrates
  <2>5. \A q \in Procs : q # p => InProgress(q)' = InProgress(q)
    BY <2>1 DEF InProgress
  <2> QED
    BY <2>3, <2>4, <2>5 DEF Alone
<1> QED
  BY <1>1, <1>2, <1>3, NextCases

(***************************************************************************)
(* What a migration makes.                                                 *)
(***************************************************************************)
Grows ==
  /\ \A t \in Tables : cols[t] \subseteq cols'[t]
  /\ idx \subseteq idx' /\ sides \subseteq sides' /\ trigs \subseteq trigs'
  /\ stores \subseteq stores'
  /\ dialect' = dialect

\* While a migration is in progress nobody takes anything away.
LEMMA Growing ==
  ASSUME Shapes, Stages, Alone, Next, NEW q \in Procs, Migrates(q), InProgress(q)
  PROVE  Grows
<1>1. CASE Writes
  BY <1>1 DEF Writes, Write, Grows, ddl
<1>2. ASSUME NEW p \in Procs, Start(p)
      PROVE  Grows
  BY <1>2 DEF Start, Grows, ddl
<1>3. ASSUME NEW p \in Procs, Stops(p) \/ Looks(p) \/ Returns(p)
      PROVE  Grows
  BY <1>3 DEF Stops, Looks, Returns, Quiet, Resolves, Introspects, Lists, Joins, Searches,
              Provides, Reverts, Continues, Grows
<1>4. ASSUME NEW p \in Procs, Executes(p)
      PROVE  Grows
  <2>1. ~(call[p].at \in {"down", "drop"})
    <3> SUFFICES ASSUME call[p].at \in {"down", "drop"} PROVE FALSE
      OBVIOUS
    <3>1. Exclusive(p) /\ InProgress(p)
      BY DEF Stages, Staged, Exclusive, Migrates, InProgress, AtRest
    <3> QED
      BY <3>1 DEF Alone, Exclusive
  <2>2. \A i : Sends(p, i) => dialect' = dialect
    BY DEF Sends
  <2>3. CASE MakesTable(p) \/ MakesJoin(p) \/ \E i \in Nat : AddsColumn(p, i)
    BY <2>2, <2>3 DEF MakesTable, MakesJoin, AddsColumn, Grows, Shapes
  <2>4. CASE MakesSidecar(p) \/ \E i \in Nat : AddsIndex(p, i) \/ MakesTrigger(p, i) \/ MakesStore(p, i)
    BY <2>2, <2>4 DEF MakesSidecar, AddsIndex, MakesTrigger, MakesStore, Grows
  <2> QED
    BY <1>4, <2>1, <2>3, <2>4 DEF Executes, DropsColumn, DropsTrigger, DropsSidecar
<1> QED
  BY <1>1, <1>2, <1>3, <1>4, NextCases DEF Does

\* Declared, part by part, before a step and after it.
LEMMA DeclaredIs ==
  ASSUME NEW m
  PROVE  /\ Declared(m) <=>
              /\ \A i \in DOMAIN m.fields : HasField(m, i)
              /\ \A j \in DOMAIN IndexDefs(m) : HasIndex(m, j)
              /\ \A i \in Junctions(m) : HasJunction(m, i)
              /\ \A i \in DOMAIN m.search : HasSpec(m, i)
              /\ \A i \in DOMAIN m.lobs : HasStore(m, i)
         /\ Declared(m)' <=>
              /\ \A i \in DOMAIN m.fields : HasField(m, i)'
              /\ \A j \in DOMAIN IndexDefs(m) : HasIndex(m, j)'
              /\ \A i \in Junctions(m) : HasJunction(m, i)'
              /\ \A i \in DOMAIN m.search : HasSpec(m, i)'
              /\ \A i \in DOMAIN m.lobs : HasStore(m, i)'
<1>1. {f.column : f \in Elements(m.fields)} = {m.fields[i].column : i \in DOMAIN m.fields}
  BY DEF Elements
<1>2. {d.name : d \in Elements(IndexDefs(m))} = {IndexDefs(m)[j].name : j \in DOMAIN IndexDefs(m)}
  BY DEF Elements
<1>3. StoreNames(m) = {<<m.table, m.lobs[i].column>> : i \in DOMAIN m.lobs}
  BY DEF StoreNames, Elements
<1>4. /\ HasSearch(m) <=> \A i \in DOMAIN m.search : HasSpec(m, i)
      /\ HasSearch(m)' <=> \A i \in DOMAIN m.search : HasSpec(m, i)'
  BY DEF HasSearch, HasSpec, HasTriggers, Elements
<1> QED
  BY <1>1, <1>2, <1>3, <1>4 DEF Declared, HasField, HasIndex, HasJunction, HasStore, IndexNames

\* What grows keeps what it has.
LEMMA StillThere ==
  ASSUME Grows, NEW m, IsModel(m)
  PROVE  /\ \A i \in DOMAIN m.fields : HasField(m, i) => HasField(m, i)'
         /\ \A j \in DOMAIN IndexDefs(m) : HasIndex(m, j) => HasIndex(m, j)'
         /\ \A i \in Junctions(m) : HasJunction(m, i) => HasJunction(m, i)'
         /\ \A i \in DOMAIN m.search : HasSpec(m, i) => HasSpec(m, i)'
         /\ \A i \in DOMAIN m.lobs : HasStore(m, i) => HasStore(m, i)'
         /\ Declared(m) => Declared(m)'
<1>1. \A i \in DOMAIN m.fields : HasField(m, i) => HasField(m, i)'
  BY DEF Grows, HasField, ColumnNames, IsModel
<1>2. \A j \in DOMAIN IndexDefs(m) : HasIndex(m, j) => HasIndex(m, j)'
  BY DEF Grows, HasIndex, IndexNames
<1>3. \A i \in Junctions(m) : HasJunction(m, i) => HasJunction(m, i)'
  BY DEF Grows, HasJunction, IsModel
<1>4. \A i \in DOMAIN m.search : HasSpec(m, i) => HasSpec(m, i)'
  BY DEF Grows, HasSpec, HasTriggers
<1>5. \A i \in DOMAIN m.lobs : HasStore(m, i) => HasStore(m, i)'
  BY DEF Grows, HasStore
<1> QED
  BY <1>1, <1>2, <1>3, <1>4, <1>5, DeclaredIs

\* What a migration has reached is still there when others have worked.
LEMMA ReachedStays ==
  ASSUME Grows, NEW models, NEW c, \A j \in DOMAIN models : IsModel(models[j]),
         c.m \in DOMAIN models, Reached(models, c)
  PROVE  Reached(models, c)'
<1>1. PICK m : m = models[c.m] /\ IsModel(m)
  OBVIOUS
<1>2. \A j \in DOMAIN models : Declared(models[j]) => Declared(models[j])'
  BY StillThere
<1>3. /\ \A i \in DOMAIN m.fields : HasField(m, i) => HasField(m, i)'
      /\ \A j \in DOMAIN IndexDefs(m) : HasIndex(m, j) => HasIndex(m, j)'
      /\ \A i \in Junctions(m) : HasJunction(m, i) => HasJunction(m, i)'
      /\ \A i \in DOMAIN m.search : HasSpec(m, i) => HasSpec(m, i)'
      /\ \A i \in DOMAIN m.lobs : HasStore(m, i) => HasStore(m, i)'
  BY <1>1, StillThere
<1>4. ColumnsOf(m, c) => ColumnsOf(m, c)'
  BY <1>3 DEF ColumnsOf
<1>5. IndexesOf(m, c) => IndexesOf(m, c)'
  BY <1>3 DEF IndexesOf
<1>6. JunctionsOf(m, c) => JunctionsOf(m, c)'
  BY <1>3 DEF JunctionsOf
<1>7. SidecarsOf(m, c) => SidecarsOf(m, c)'
  BY <1>3 DEF SidecarsOf, Grows
<1>8. StoresOf(m, c) => StoresOf(m, c)'
  BY <1>3 DEF StoresOf
<1> QED
  BY <1>1, <1>2, <1>4, <1>5, <1>6, <1>7, <1>8 DEF Reached

\* How the record of a migration changes.
Turns(m, c, d) ==
  \/ d.at \in {"model", "columns"} /\ d.k = 0
  \/ c.at = "columns" /\ d.at = "create" /\ d.todo = {0} \cup DOMAIN IndexDefs(m) /\ d.k = c.k
  \/ /\ c.at = "columns" /\ d.k = c.k
     /\ d.at \in {"add", "indexes"}
     /\ d.at = "indexes" => d.todo = {}
     /\ \A i \in DOMAIN m.fields \ d.todo : HasField(m, i)
  \/ /\ c.at = "indexes" /\ d.k = c.k
     /\ d.at \in {"sync", "joins"}
     /\ d.at = "joins" => d.todo = {}
     /\ \A j \in DOMAIN IndexDefs(m) \ d.todo : HasIndex(m, j)
  \/ c.at = "joins" /\ d.at = "specs" /\ d.k = 0 /\ \A i \in Junctions(m) : i <= c.k
  \/ /\ c.at = "joins" /\ d.at \in {"joins", "join"} /\ First(d.k, Junctions(m), c.k)
     /\ d.at = "joins" => HasJunction(m, d.k)
  \/ /\ c.at = "specs" /\ d.at = "lobs"
     /\ dialect # "sqlite" \/ \A i \in DOMAIN m.search : i <= c.k
  \/ /\ c.at = "specs" /\ d.at = "search" /\ First(d.k, DOMAIN m.search, c.k)
     /\ d.todo = DOMAIN ProvisionSearchSQL(m, m.search[d.k])
  \/ /\ c.at = "lobs" /\ d.at \in {"store", "end"}
     /\ d.at = "store" => d.todo = DOMAIN m.lobs
     /\ d.at = "end" => DOMAIN m.lobs = {}
  \/ /\ c.at \in DOMAIN After /\ d.k = c.k
     /\ \/ d.at = c.at
        \/ d.at = After[c.at] /\ d.todo = {}
     /\ \E i \in c.todo :
          /\ d.todo = c.todo \ {i} /\ \A j \in c.todo : i <= j
          /\ \/ c.at = "create" /\ i = 0 /\ \A f \in DOMAIN m.fields : HasField(m, f)'
             \/ c.at = "create" /\ i # 0 /\ HasIndex(m, i)'
             \/ c.at = "add" /\ HasField(m, i)'
             \/ c.at = "sync" /\ HasIndex(m, i)'
             \/ c.at = "join" /\ i = 1 /\ HasJunction(m, c.k)'
             \/ c.at = "search" /\ i = 1 /\ m.search[c.k].name \in sides'
             \/ /\ c.at = "search" /\ i \in 2 .. 4 /\ ~m.search[c.k].hooked
                /\ Trigger(m, m.search[c.k], EventUp(i)) \in trigs'
             \/ c.at = "store" /\ HasStore(m, i)'

\* What a step of it does is there afterwards.
LEMMA Turning ==
  ASSUME Shapes, Stages, NEW p \in Procs, Does(p), Migrates(p),
         NEW m, m = Model(p), NEW c, c = call[p], NEW d, d = call'[p],
         d.at \notin AtRest, JunctionsOf(m, c)
  PROVE  /\ Turns(m, c, d)
         /\ d.m = c.m \/ (c.at = "end" /\ d.at = "model" /\ d.m = c.m + 1)
<1>1. Staged(request[p].op, m, c) /\ request[p].op \in {"migrate", "all"} /\ IsModel(m)
  BY Requests DEF Stages, Migrates
<1>2. ~(c.at \in {"drop", "up", "reviewed", "down"})
  BY <1>1 DEF Staged
<1>3. ASSUME NEW at, NEW k, NEW todo, Goes(p, Same(p, at, k, todo))
      PROVE  d.at = at /\ d.k = k /\ d.todo = todo /\ d.m = c.m
  BY <1>3, Going1 DEF Same
<1>4. ~Stops(p) /\ ~Returns(p)
  BY <1>3 DEF Stops, Returns, AtRest
<1>5. CASE Resolves(p)
  <2>1. Goes(p, Same(p, "columns", c.k, {}))
    BY <1>1, <1>5 DEF Resolves
  <2>2. c.k = 0
    BY <1>5 DEF Resolves, JunctionsOf
  <2> QED
    BY <1>3, <2>1, <2>2 DEF Turns
<1>6. CASE Introspects(p)
  <2> DEFINE missing == AddMissing(m, cols[m.table])
  <2>1. \/ Goes(p, Same(p, "create", c.k, {0} \cup DOMAIN IndexDefs(m)))
        \/ Goes(p, Same(p, Reach("add", missing), c.k, missing))
    BY <1>6 DEF Introspects
  <2>2. \A i \in DOMAIN m.fields \ missing : HasField(m, i)
    BY DEF AddMissing, HasField, ColumnNames
  <2>3. Reach("add", missing) = IF missing = {} THEN "indexes" ELSE "add"
    BY AfterIs DEF Reach
  <2> HIDE DEF missing
  <2>4. /\ d.m = c.m /\ d.k = c.k
        /\ \/ d.at = "create" /\ d.todo = {0} \cup DOMAIN IndexDefs(m)
           \/ /\ d.at \in {"add", "indexes"} /\ (d.at = "indexes" => missing = {})
              /\ d.todo = missing
    BY <1>3, <2>1, <2>3
  <2> QED
    BY <1>6, <2>2, <2>4 DEF Turns, Introspects
<1>7. CASE Lists(p)
  <2> DEFINE missing == MissingIndexes(m)
  <2>1. Goes(p, Same(p, Reach("sync", missing), c.k, missing))
    BY <1>7 DEF Lists
  <2>2. \A j \in DOMAIN IndexDefs(m) \ missing : HasIndex(m, j)
    BY DEF MissingIndexes, HasIndex, IndexNames
  <2>3. Reach("sync", missing) = IF missing = {} THEN "joins" ELSE "sync"
    BY AfterIs DEF Reach
  <2> HIDE DEF missing
  <2>4. /\ d.m = c.m /\ d.k = c.k /\ d.at \in {"sync", "joins"}
        /\ (d.at = "joins" => missing = {}) /\ d.todo = missing
    BY <1>3, <2>1, <2>3
  <2> QED
    BY <1>7, <2>2, <2>4 DEF Turns, Lists
<1>8. CASE Joins(p)
  <2>1. \/ (\A i \in Junctions(m) : i <= c.k) /\ Goes(p, Same(p, "specs", 0, {}))
        \/ \E l \in Junctions(m) :
             /\ First(l, Junctions(m), c.k)
             /\ \/ Goes(p, Same(p, "join", l, {1}))
                \/ HasJunction(m, l) /\ Goes(p, Same(p, "joins", l, {}))
    BY <1>8 DEF Joins
  <2>2. /\ d.m = c.m
        /\ \/ (\A i \in Junctions(m) : i <= c.k) /\ d.at = "specs" /\ d.k = 0
           \/ /\ First(d.k, Junctions(m), c.k) /\ d.at \in {"joins", "join"}
              /\ d.at = "joins" => HasJunction(m, d.k)
    BY <1>3, <2>1
  <2> QED
    BY <1>8, <2>2 DEF Turns, Joins
<1>9. CASE Searches(p)
  <2>1. \/ /\ dialect # "sqlite" \/ \A i \in DOMAIN m.search : i <= c.k
           /\ Goes(p, Same(p, "lobs", c.k, {}))
        \/ \E l \in DOMAIN m.search :
             /\ First(l, DOMAIN m.search, c.k)
             /\ Goes(p, Same(p, "search", l, DOMAIN ProvisionSearchSQL(m, m.search[l])))
    BY <1>9 DEF Searches
  <2>2. /\ d.m = c.m
        /\ \/ /\ d.at = "lobs"
              /\ dialect # "sqlite" \/ \A i \in DOMAIN m.search : i <= c.k
           \/ /\ d.at = "search" /\ First(d.k, DOMAIN m.search, c.k)
              /\ d.todo = DOMAIN ProvisionSearchSQL(m, m.search[d.k])
    BY <1>3, <2>1
  <2> QED
    BY <1>9, <2>2 DEF Turns, Searches
<1>10. CASE Provides(p)
  <2> DEFINE all == DOMAIN m.lobs
  <2>1. Goes(p, Same(p, Reach("store", all), c.k, all))
    BY <1>10 DEF Provides
  <2>2. Reach("store", all) = IF all = {} THEN "end" ELSE "store"
    BY AfterIs DEF Reach
  <2>3. d.m = c.m /\ d.at = (IF all = {} THEN "end" ELSE "store") /\ d.todo = all
    BY <1>3, <2>1, <2>2
  <2> QED
    BY <1>10, <2>3 DEF Turns, Provides
<1>11. CASE Reverts(p)
  BY <1>2, <1>11 DEF Reverts
<1>12. CASE Continues(p)
  <2>1. call'[p] = [call[p] EXCEPT !.at = "model", !.m = call[p].m + 1, !.k = 0]
    BY <1>12, Going1 DEF Continues
  <2>2. d.at = "model" /\ d.k = 0 /\ d.m = c.m + 1
    <3>1. PICK n : n = call[p].m + 1
      OBVIOUS
    <3>2. d = [c EXCEPT !.at = "model", !.m = n, !.k = 0] /\ IsCall(c)
      BY <2>1, <3>1 DEF Shapes
    <3> QED
      BY <3>1, <3>2 DEF IsCall
  <2> QED
    BY <1>12, <2>2 DEF Turns, Continues
<1>13. CASE Executes(p)
  <2>1. ASSUME NEW i, Sends(p, i)
        PROVE  /\ i \in c.todo /\ (\A j \in c.todo : i <= j)
               /\ d.todo = c.todo \ {i} /\ d.k = c.k /\ d.m = c.m /\ c.at \in DOMAIN After
               /\ \/ d.at = c.at
                  \/ d.at = After[c.at] /\ d.todo = {}
    <3>1. Goes(p, Same(p, Reach(c.at, c.todo \ {i}), c.k, c.todo \ {i})) /\ i \in c.todo
      BY <2>1 DEF Sends
    <3>2. d.todo = c.todo \ {i} /\ d.k = c.k /\ d.m = c.m /\ d.at = Reach(c.at, d.todo)
      BY <1>3, <3>1
    <3>3. c.at \in DOMAIN After
      BY <1>1, <3>1 DEF Staged
    <3> QED
      BY <2>1, <3>2, <3>3, ReachIs DEF Sends
  <2>2. m.table \in Tables /\ \A i \in Junctions(m) : m.relations[i].join \in Tables
    BY <1>1 DEF IsModel
  <2>3. CASE MakesTable(p)
    <3>1. cols'[m.table] = {Column(f) : f \in Elements(m.fields)}
      BY <2>2, <2>3 DEF MakesTable, Shapes
    <3>2. \A f \in DOMAIN m.fields : HasField(m, f)'
      <4>1. \A f : Column(f).name = f.column
        BY DEF Column
      <4>2. \A f \in DOMAIN m.fields : Column(m.fields[f]) \in cols'[m.table]
        BY <3>1 DEF Elements
      <4> QED
        BY <4>1, <4>2 DEF HasField, ColumnNames
    <3>3. c.at = "create" /\ Sends(p, 0)
      BY <2>3 DEF MakesTable
    <3> QED
      BY <2>1, <3>2, <3>3 DEF Turns
  <2>4. CASE MakesJoin(p)
    <3>1. c.at = "join" /\ Sends(p, 1) /\ c.k \in Junctions(m)
      BY <1>1, <2>4 DEF MakesJoin, Staged
    <3>2. HasJunction(m, c.k)'
      BY <2>2, <2>4, <3>1 DEF MakesJoin, HasJunction, Shapes
    <3> QED
      BY <2>1, <3>1, <3>2 DEF Turns
  <2>5. CASE MakesSidecar(p)
    <3>1. c.at = "search" /\ Sends(p, 1) /\ m.search[c.k].name \in sides'
      BY <2>5 DEF MakesSidecar
    <3> QED
      BY <2>1, <3>1 DEF Turns
  <2>6. CASE DropsSidecar(p) \/ \E i \in Nat : DropsColumn(p, i) \/ DropsTrigger(p, i)
    BY <1>2, <2>6 DEF DropsSidecar, DropsColumn, DropsTrigger
  <2>7. ASSUME NEW i \in Nat, AddsColumn(p, i)
        PROVE  Turns(m, c, d) /\ d.m = c.m
    <3>1. cols'[m.table] = cols[m.table] \cup {Column(m.fields[i])}
      BY <2>2, <2>7 DEF AddsColumn, Shapes
    <3>2. HasField(m, i)'
      <4>1. Column(m.fields[i]).name = m.fields[i].column
        BY DEF Column
      <4>2. Column(m.fields[i]) \in cols'[m.table]
        BY <3>1
      <4> QED
        BY <4>1, <4>2 DEF HasField, ColumnNames
    <3>3. c.at = "add" /\ Sends(p, i)
      BY <1>2, <2>7 DEF AddsColumn
    <3> QED
      BY <2>1, <3>2, <3>3 DEF Turns
  <2>8. ASSUME NEW i \in Nat, AddsIndex(p, i)
        PROVE  Turns(m, c, d) /\ d.m = c.m
    <3>1. c.at \in {"create", "sync"} /\ Sends(p, i) /\ i \in DOMAIN IndexDefs(m) /\ i # 0
      BY <1>1, <2>8 DEF AddsIndex, IsModel
    <3>2. idx' = idx \cup {IndexDefs(m)[i]} /\ IndexDefs(m)[i].table = m.table
      BY <1>1, <2>8 DEF AddsIndex, IsModel
    <3>3. HasIndex(m, i)'
      BY <3>2 DEF HasIndex, IndexNames
    <3> QED
      BY <2>1, <3>1, <3>3 DEF Turns
  <2>9. ASSUME NEW i \in Nat, MakesTrigger(p, i)
        PROVE  Turns(m, c, d) /\ d.m = c.m
    <3>1. /\ c.at = "search" /\ Sends(p, i) /\ i \in 2 .. 4 /\ ~m.search[c.k].hooked
          /\ Trigger(m, m.search[c.k], EventUp(i)) \in trigs'
      BY <2>9 DEF MakesTrigger
    <3> QED
      BY <2>1, <3>1 DEF Turns
  <2>10. ASSUME NEW i \in Nat, MakesStore(p, i)
         PROVE  Turns(m, c, d) /\ d.m = c.m
    <3>1. c.at = "store" /\ Sends(p, i) /\ HasStore(m, i)'
      BY <2>10 DEF MakesStore, HasStore
    <3> QED
      BY <2>1, <3>1 DEF Turns
  <2> QED
    BY <1>13, <2>3, <2>4, <2>5, <2>6, <2>7, <2>8, <2>9, <2>10 DEF Executes
<1> QED
  BY <1>4, <1>5, <1>6, <1>7, <1>8, <1>9, <1>10, <1>11, <1>12, <1>13 DEF Does, Looks

\* The columns: made with the table, or added one by one.
LEMMA ColumnsNext ==
  ASSUME Grows, NEW m, IsModel(m), NEW c, NEW d, Turns(m, c, d), ColumnsOf(m, c)
  PROVE  ColumnsOf(m, d)'
<1>1. \A i \in DOMAIN m.fields : HasField(m, i) => HasField(m, i)'
  BY StillThere
<1>2. c.at \in AfterColumns /\ d.at \in AfterColumns => ColumnsOf(m, d)'
  BY <1>1 DEF ColumnsOf, AfterColumns
<1>3. CASE d.at \in {"model", "columns"}
  BY <1>3 DEF ColumnsOf, AfterColumns
<1>4. CASE c.at = "columns" /\ d.at = "create" /\ d.todo = {0} \cup DOMAIN IndexDefs(m)
  BY <1>4 DEF ColumnsOf, AfterColumns
<1>5. CASE /\ c.at = "columns" /\ d.at \in {"add", "indexes"}
           /\ d.at = "indexes" => d.todo = {}
           /\ \A i \in DOMAIN m.fields \ d.todo : HasField(m, i)
  BY <1>1, <1>5 DEF ColumnsOf, AfterColumns
<1>6. CASE c.at \in DOMAIN After /\ ~(d.at \in {"model", "columns"})
  <2>1. CASE c.at \in {"create", "add"}
    <3>1. /\ d.at \in {"create", "add"} \/ d.todo = {}
          /\ d.at \in {"create", "add"} => d.at = c.at
          /\ \E i \in c.todo :
               /\ d.todo = c.todo \ {i} /\ \A j \in c.todo : i <= j
               /\ \/ c.at = "create" /\ i = 0 /\ \A f \in DOMAIN m.fields : HasField(m, f)'
                  \/ c.at = "create" /\ i # 0
                  \/ c.at = "add" /\ HasField(m, i)'
      BY <1>6, <2>1, AfterIs DEF Turns
    <3> QED
      BY <1>1, <2>1, <3>1 DEF ColumnsOf, AfterColumns
  <2>2. CASE ~(c.at \in {"create", "add"})
    <3>1. c.at \in AfterColumns /\ d.at \in AfterColumns
      BY <2>2, <1>6, AfterIs DEF Turns, AfterColumns
    <3> QED
      BY <1>2, <3>1
  <2> QED
    BY <2>1, <2>2
<1> QED
  BY <1>2, <1>3, <1>4, <1>5, <1>6 DEF Turns, AfterColumns

\* The indexes: those of a new table, or those that are missing.
LEMMA IndexesNext ==
  ASSUME Grows, NEW m, IsModel(m), NEW c, NEW d, Turns(m, c, d), IndexesOf(m, c)
  PROVE  IndexesOf(m, d)'
<1>1. \A j \in DOMAIN IndexDefs(m) : HasIndex(m, j) => HasIndex(m, j)'
  BY StillThere
<1>2. c.at \in AfterIndexes /\ d.at \in AfterIndexes => IndexesOf(m, d)'
  BY <1>1 DEF IndexesOf, AfterIndexes, AfterColumns
<1>3. CASE d.at \in {"model", "columns", "add", "indexes"}
  BY <1>3 DEF IndexesOf, AfterIndexes, AfterColumns
<1>4. CASE c.at = "columns" /\ d.at = "create" /\ d.todo = {0} \cup DOMAIN IndexDefs(m)
  BY <1>4 DEF IndexesOf, AfterIndexes, AfterColumns
<1>5. CASE /\ c.at = "indexes" /\ d.at \in {"sync", "joins"}
           /\ d.at = "joins" => d.todo = {}
           /\ \A j \in DOMAIN IndexDefs(m) \ d.todo : HasIndex(m, j)
  BY <1>1, <1>5 DEF IndexesOf, AfterIndexes, AfterColumns
<1>6. CASE c.at \in DOMAIN After /\ ~(d.at \in {"model", "columns", "add", "indexes"})
  <2>1. CASE c.at \in {"create", "sync"}
    <3>1. /\ d.at = c.at \/ (d.at = "joins" /\ d.todo = {})
          /\ \E i \in c.todo :
               /\ d.todo = c.todo \ {i}
               /\ i \in DOMAIN IndexDefs(m) => HasIndex(m, i)'
      BY <1>6, <2>1, AfterIs DEF Turns, IsModel
    <3> QED
      BY <1>1, <2>1, <3>1 DEF IndexesOf, AfterIndexes, AfterColumns
  <2>2. CASE ~(c.at \in {"create", "sync"})
    <3>1. c.at \in AfterIndexes /\ d.at \in AfterIndexes
      BY <2>2, <1>6, AfterIs DEF Turns, AfterIndexes, AfterColumns
    <3> QED
      BY <1>2, <3>1
  <2> QED
    BY <2>1, <2>2
<1> QED
  BY <1>2, <1>3, <1>4, <1>5, <1>6 DEF Turns, AfterIndexes, AfterColumns

\* The junction tables, one after the other.
LEMMA JunctionsNext ==
  ASSUME Grows, NEW m, IsModel(m), NEW c, c.k \in Nat, NEW d, Turns(m, c, d), JunctionsOf(m, c)
  PROVE  JunctionsOf(m, d)'
<1>1. \A i \in Junctions(m) : HasJunction(m, i) => HasJunction(m, i)'
  BY StillThere
<1>2. Junctions(m) \subseteq Nat \ {0}
  BY DEF IsModel
<1>3. c.at \in AfterJoins /\ d.at \in AfterJoins => JunctionsOf(m, d)'
  BY <1>1 DEF JunctionsOf, AfterJoins, AfterIndexes, AfterColumns
<1> DEFINE early == {"model", "columns", "create", "add", "indexes", "sync"}
<1>4. c.at \in early /\ d.at \in early /\ d.k = c.k => JunctionsOf(m, d)'
  BY DEF JunctionsOf, AfterJoins, AfterIndexes, AfterColumns
<1>5. c.at \in early /\ d.at = "joins" /\ d.k = c.k => JunctionsOf(m, d)'
  BY <1>2 DEF JunctionsOf, AfterJoins, AfterIndexes, AfterColumns
<1>6. CASE d.at \in {"model", "columns"} /\ d.k = 0
  BY <1>6 DEF JunctionsOf, AfterJoins, AfterIndexes, AfterColumns
<1>7. CASE c.at = "joins" /\ d.at = "specs" /\ d.k = 0 /\ \A i \in Junctions(m) : i <= c.k
  BY <1>1, <1>7 DEF JunctionsOf, AfterJoins, AfterIndexes, AfterColumns
<1>8. CASE /\ c.at = "joins" /\ d.at \in {"joins", "join"} /\ First(d.k, Junctions(m), c.k)
           /\ d.at = "joins" => HasJunction(m, d.k)
  <2>1. \A i \in Junctions(m) : i < d.k => HasJunction(m, i)
    BY <1>2, <1>8 DEF JunctionsOf, First
  <2>2. d.at = "joins" => \A i \in Junctions(m) : i <= d.k => HasJunction(m, i)
    BY <1>2, <1>8, <2>1 DEF First
  <2> QED
    BY <1>1, <1>8, <2>1, <2>2 DEF JunctionsOf, AfterJoins, AfterIndexes, AfterColumns
<1>9. CASE c.at \in DOMAIN After /\ ~(d.at \in {"model", "columns"})
  <2>1. CASE c.at \in {"create", "add", "sync"}
    <3>1. d.at \in early \cup {"joins"} /\ d.k = c.k
      BY <1>9, <2>1, AfterIs DEF Turns
    <3> QED
      BY <1>4, <1>5, <2>1, <3>1
  <2>2. CASE c.at = "join"
    <3>1. /\ \A i \in Junctions(m) : i < c.k => HasJunction(m, i)'
          /\ HasJunction(m, c.k)' /\ d.k = c.k /\ d.at \in {"join", "joins"}
      BY <1>1, <1>9, <2>2, AfterIs DEF Turns, JunctionsOf
    <3> QED
      BY <1>2, <3>1 DEF JunctionsOf, AfterJoins, AfterIndexes, AfterColumns
  <2>3. CASE ~(c.at \in {"create", "add", "sync", "join"})
    <3>1. c.at \in AfterJoins /\ d.at \in AfterJoins
      BY <1>9, <2>3, AfterIs DEF Turns, AfterJoins, AfterIndexes, AfterColumns
    <3> QED
      BY <1>3, <3>1
  <2> QED
    BY <2>1, <2>2, <2>3
<1>10. CASE /\ c.at \in {"columns", "indexes"} /\ d.k = c.k
            /\ d.at \in {"create", "add", "indexes", "sync", "joins"}
  BY <1>4, <1>5, <1>10
<1>11. CASE c.at \in {"specs", "lobs"} /\ d.at \in {"lobs", "search", "store", "end"}
  BY <1>3, <1>11 DEF AfterJoins, AfterIndexes, AfterColumns
<1> HIDE DEF early
<1>12. c.at \in DOMAIN After /\ (d.at = c.at \/ d.at = After[c.at]) => ~(d.at \in {"model", "columns"})
  BY AfterIs
<1> QED
  BY <1>6, <1>7, <1>8, <1>9, <1>10, <1>11, <1>12 DEF Turns

\* The sidecars with their triggers, one after the other.
LEMMA SidecarsOfNext ==
  ASSUME Grows, NEW m, IsModel(m), NEW c, c.k \in Nat, NEW d, Turns(m, c, d), SidecarsOf(m, c),
         c.at = "search" => c.k \in DOMAIN m.search
  PROVE  SidecarsOf(m, d)'
<1>1. \A i \in DOMAIN m.search : HasSpec(m, i) => HasSpec(m, i)'
  BY StillThere
<1>2. DOMAIN m.search \subseteq Nat \ {0}
  BY DEF IsModel
<1>3. c.at \in AfterSearch /\ d.at \in AfterSearch => SidecarsOf(m, d)'
  BY <1>1 DEF SidecarsOf, AfterSearch, AfterJoins, AfterIndexes, AfterColumns
<1>4. CASE ~(d.at \in {"specs", "search"} \cup AfterSearch)
  BY <1>4 DEF SidecarsOf
<1>5. CASE d.at = "specs" /\ d.k = 0
  BY <1>2, <1>5 DEF SidecarsOf, AfterSearch, AfterJoins, AfterIndexes, AfterColumns
<1>6. CASE /\ c.at = "specs" /\ d.at = "lobs"
           /\ dialect # "sqlite" \/ \A i \in DOMAIN m.search : i <= c.k
  <2>1. \A i \in DOMAIN m.search : HasSpec(m, i)
    BY <1>6 DEF SidecarsOf, HasSpec
  <2> QED
    BY <1>1, <1>6, <2>1 DEF SidecarsOf, AfterSearch, AfterJoins, AfterIndexes, AfterColumns
<1>7. CASE /\ c.at = "specs" /\ d.at = "search" /\ First(d.k, DOMAIN m.search, c.k)
           /\ d.todo = DOMAIN ProvisionSearchSQL(m, m.search[d.k])
  <2>1. \A i \in DOMAIN m.search : i < d.k => HasSpec(m, i)
    BY <1>2, <1>7 DEF SidecarsOf, First
  <2>2. 1 \in d.todo /\ (~m.search[d.k].hooked => 2 .. 4 \subseteq d.todo)
    BY <1>7, SearchSQLIs
  <2> QED
    BY <1>1, <1>7, <2>1, <2>2 DEF SidecarsOf, AfterSearch, AfterJoins, AfterIndexes, AfterColumns
<1>8. CASE c.at = "search" /\ ~(d.at \in {"model", "columns"})
  <2>1. PICK i \in c.todo :
          /\ d.todo = c.todo \ {i}
          /\ \/ i = 1 /\ m.search[c.k].name \in sides'
             \/ i \in 2 .. 4 /\ Trigger(m, m.search[c.k], EventUp(i)) \in trigs'
    BY <1>8 DEF Turns
  <2>2. d.k = c.k /\ (d.at = "search" \/ (d.at = "specs" /\ d.todo = {}))
    BY <1>8, AfterIs DEF Turns
  <2>3. /\ \A j \in DOMAIN m.search : j < d.k => HasSpec(m, j)'
        /\ 1 \notin d.todo => m.search[d.k].name \in sides'
        /\ ~m.search[d.k].hooked =>
             \A j \in 2 .. 4 : j \notin d.todo => Trigger(m, m.search[d.k], EventUp(j)) \in trigs'
    BY <1>1, <1>8, <2>1, <2>2 DEF SidecarsOf, Grows
  <2>4. CASE d.at = "search"
    BY <2>3, <2>4 DEF SidecarsOf, AfterSearch, AfterJoins, AfterIndexes, AfterColumns
  <2>5. CASE d.at = "specs"
    <3>1. HasSpec(m, d.k)'
      <4>1. ~m.search[d.k].hooked => /\ Trigger(m, m.search[d.k], EventUp(2)) \in trigs'
                                     /\ Trigger(m, m.search[d.k], EventUp(3)) \in trigs'
                                     /\ Trigger(m, m.search[d.k], EventUp(4)) \in trigs'
        BY <2>2, <2>3, <2>5
      <4>2. \A e \in Events : e = EventUp(2) \/ e = EventUp(3) \/ e = EventUp(4)
        BY DEF Events, EventUp
      <4> QED
        BY <2>2, <2>3, <2>5, <4>1, <4>2 DEF HasSpec, HasTriggers
    <3>2. \A j \in DOMAIN m.search : j <= d.k => HasSpec(m, j)'
      BY <1>2, <2>2, <2>3, <3>1
    <3> QED
      BY <2>5, <3>2 DEF SidecarsOf, AfterSearch, AfterJoins, AfterIndexes, AfterColumns
  <2> QED
    BY <2>2, <2>4, <2>5
<1>9. CASE c.at \in DOMAIN After \ {"search"} /\ ~(d.at \in {"model", "columns"})
  <2>1. CASE c.at = "store"
    <3>1. c.at \in AfterSearch /\ d.at \in AfterSearch
      BY <1>9, <2>1, AfterIs DEF Turns, AfterSearch, AfterJoins, AfterIndexes, AfterColumns
    <3> QED
      BY <1>3, <3>1
  <2>2. CASE c.at # "store"
    <3>1. ~(d.at \in {"specs", "search"} \cup AfterSearch)
      BY <1>9, <2>2, AfterIs DEF Turns, AfterSearch, AfterJoins, AfterIndexes, AfterColumns
    <3> QED
      BY <1>4, <3>1
  <2> QED
    BY <2>1, <2>2
<1> QED
  BY <1>3, <1>4, <1>5, <1>6, <1>7, <1>8, <1>9
     DEF Turns, AfterSearch, AfterJoins, AfterIndexes, AfterColumns

\* The stores.
LEMMA StoresNext ==
  ASSUME Grows, NEW m, IsModel(m), NEW c, NEW d, Turns(m, c, d), StoresOf(m, c)
  PROVE  StoresOf(m, d)'
<1>1. \A i \in DOMAIN m.lobs : HasStore(m, i) => HasStore(m, i)'
  BY StillThere
<1>2. CASE ~(d.at \in {"store", "end"})
  BY <1>2 DEF StoresOf
<1>3. CASE c.at = "lobs" /\ d.at \in {"store", "end"}
  BY <1>3, AfterIs DEF StoresOf, Turns
<1>4. CASE c.at # "lobs" /\ d.at \in {"store", "end"}
  <2>1. /\ c.at = "store" /\ (d.at = "end" => d.todo = {})
        /\ \E i \in c.todo : d.todo = c.todo \ {i} /\ HasStore(m, i)'
    BY <1>4, AfterIs DEF Turns
  <2> QED
    BY <1>1, <1>4, <2>1 DEF StoresOf
<1> QED
  BY <1>2, <1>3, <1>4

\* A step of a migration leads on with what there is then.
LEMMA ReachedNext ==
  ASSUME Shapes, Stages, Alone, Made, Next, NEW p \in Procs, Start(p) \/ Does(p), Migrates(p),
         InProgress(p)'
  PROVE  Reached(request[p].models, call[p])'
<1>1. PICK models, c, d : models = request[p].models /\ c = call[p] /\ d = call'[p]
  OBVIOUS
<1>2. /\ request' = request /\ DOMAIN models = 1 .. Len(models) /\ Len(models) \in Nat
      /\ \A j \in DOMAIN models : IsModel(models[j])
      /\ c.m \in DOMAIN models /\ c.k \in Nat
  BY <1>1, Requests, OneMoves DEF Shapes
<1>3. ASSUME d.at = "model", d.k = 0, \A j \in DOMAIN models : j < d.m => Declared(models[j])'
      PROVE  Reached(models, d)'
  BY <1>3 DEF Reached, ColumnsOf, IndexesOf, JunctionsOf, SidecarsOf, StoresOf,
              AfterSearch, AfterJoins, AfterIndexes, AfterColumns
<1>4. CASE Start(p)
  <2>1. d.at = "model" /\ d.k = 0 /\ d.m = 1
    <3>1. PICK b : d = [at |-> "model", m |-> 1, k |-> 0, todo |-> {}, down |-> {},
                        before |-> {}, clean |-> b]
      BY <1>1, <1>4, Starting
    <3> QED
      BY <3>1
  <2>2. \A j \in DOMAIN models : ~(j < 1)
    BY <1>2
  <2> QED
    BY <1>1, <1>2, <1>3, <2>1, <2>2
<1>5. CASE Does(p)
  <2>1. InProgress(p) /\ Grows
    BY <1>5, Resting, Growing
  <2>2. PICK m : m = models[c.m]
    OBVIOUS
  <2>3. /\ m = Model(p) /\ IsModel(m)
        /\ \A j \in DOMAIN models : j < c.m => Declared(models[j])
        /\ ColumnsOf(m, c) /\ IndexesOf(m, c) /\ JunctionsOf(m, c) /\ SidecarsOf(m, c)
        /\ StoresOf(m, c)
    BY <1>1, <1>2, <2>1, <2>2 DEF Made, Reached, Model
  <2>4. d.at \notin AtRest
    BY <1>1 DEF InProgress
  <2>5. /\ Turns(m, c, d)
        /\ d.m = c.m \/ (c.at = "end" /\ d.at = "model" /\ d.m = c.m + 1)
    BY <1>1, <1>5, <2>3, <2>4, Turning
  <2>6. c.at = "search" => c.k \in DOMAIN m.search
    BY <1>1, <2>3 DEF Stages, Staged
  <2>7. /\ ColumnsOf(m, d)' /\ IndexesOf(m, d)' /\ JunctionsOf(m, d)' /\ SidecarsOf(m, d)'
        /\ StoresOf(m, d)'
    BY <1>2, <2>1, <2>3, <2>5, <2>6, ColumnsNext, IndexesNext, JunctionsNext, SidecarsOfNext,
       StoresNext
  <2>8. \A j \in DOMAIN models : j < c.m => Declared(models[j])'
    BY <1>2, <2>1, <2>3, StillThere
  <2>9. CASE d.m = c.m
    BY <1>1, <1>2, <2>2, <2>7, <2>8, <2>9 DEF Reached
  <2>10. CASE c.at = "end" /\ d.at = "model" /\ d.m = c.m + 1
    <3>1. Declared(m)
      BY <2>3, <2>10, DeclaredIs DEF ColumnsOf, IndexesOf, JunctionsOf, SidecarsOf, StoresOf,
         AfterSearch, AfterJoins, AfterIndexes, AfterColumns
    <3>2. Declared(m)'
      BY <2>1, <2>3, <3>1, StillThere
    <3>3. \A j \in DOMAIN models : j < d.m => Declared(models[j])'
      <4>1. \A j \in DOMAIN models : j < c.m + 1 => j < c.m \/ j = c.m
        BY <1>2
      <4> QED
        BY <2>2, <2>8, <2>10, <3>2, <4>1
    <3>4. d.k = 0
      BY <2>5, <2>10, AfterIs DEF Turns
    <3> QED
      BY <1>1, <1>2, <1>3, <2>10, <3>3, <3>4
  <2> QED
    BY <2>5, <2>9, <2>10
<1> QED
  BY <1>4, <1>5

\* What a call at its end has made.
LEMMA AllDeclared ==
  ASSUME Shapes, Made, NEW p \in Procs, Migrates(p), call[p].at = "end",
         call[p].m = Len(request[p].models)
  PROVE  \A m \in Elements(request[p].models) : Declared(m)
<1>1. PICK models, c : models = request[p].models /\ c = call[p]
  OBVIOUS
<1>2. /\ DOMAIN models = 1 .. Len(models) /\ Len(models) \in Nat
      /\ c.m = Len(models) /\ c.m \in DOMAIN models
  BY <1>1, Requests DEF Shapes
<1>3. Reached(models, c) /\ c.at = "end"
  BY <1>1 DEF Made, InProgress, AtRest
<1>4. Declared(models[c.m])
  BY <1>3, DeclaredIs DEF Reached, ColumnsOf, IndexesOf, JunctionsOf, SidecarsOf, StoresOf,
     AfterSearch, AfterJoins, AfterIndexes, AfterColumns
<1>5. \A j \in DOMAIN models : j < c.m => Declared(models[j])
  BY <1>3 DEF Reached
<1>6. \A j \in DOMAIN models : j < c.m \/ j = c.m
  BY <1>2
<1> QED
  BY <1>1, <1>4, <1>5, <1>6 DEF Elements

\* What others do, and writes, leave it at that.
LEMMA MadeNext ==
  ASSUME Shapes, Stages, Alone, Made, Next
  PROVE  Made'
<1> SUFFICES ASSUME NEW q \in Procs, Migrates(q)', InProgress(q)'
             PROVE  Reached(request[q].models, call[q])'
  BY DEF Made
<1>1. ASSUME call'[q] = call[q], request' = request
      PROVE  Reached(request[q].models, call[q])'
  <2>1. Migrates(q) /\ InProgress(q)
    BY <1>1 DEF Migrates, InProgress
  <2>2. PICK models, c : models = request[q].models /\ c = call[q]
    OBVIOUS
  <2>3. Grows /\ Reached(models, c)
    BY <2>1, <2>2, Growing DEF Made
  <2>4. c.m \in DOMAIN models /\ \A j \in DOMAIN models : IsModel(models[j])
    BY <2>2, Requests DEF Shapes
  <2>5. Reached(models, c)'
    BY <2>3, <2>4, ReachedStays
  <2> QED
    BY <1>1, <2>2, <2>5
<1>2. CASE Writes
  BY <1>1, <1>2 DEF Writes, Write
<1>3. ASSUME NEW p \in Procs, Start(p) \/ Does(p)
      PROVE  Reached(request[q].models, call[q])'
  <2>1. request' = request /\ (q # p => call'[q] = call[q])
    BY <1>3, OneMoves
  <2>2. Migrates(q)
    BY <2>1 DEF Migrates
  <2> QED
    BY <1>1, <1>3, <2>1, <2>2, ReachedNext
<1> QED
  BY <1>2, <1>3, NextCases

\* What a call found when it started is noted for good.
LEMMA CleanStays ==
  ASSUME Shapes, NEW p \in Procs, Does(p)
  PROVE  call'[p].clean = call[p].clean
<1>1. ASSUME NEW at, NEW k, NEW todo, Goes(p, Same(p, at, k, todo))
      PROVE  call'[p].clean = call[p].clean
  BY <1>1, Going1 DEF Same
<1>2. CASE Stops(p) \/ Returns(p)
  BY <1>1, <1>2 DEF Stops, Returns
<1>3. CASE Introspects(p) \/ Lists(p) \/ Joins(p) \/ Provides(p) \/ Reverts(p)
  BY <1>1, <1>3 DEF Introspects, Lists, Joins, Provides, Reverts
<1>4. CASE Searches(p)
  BY <1>1, <1>4 DEF Searches
<1>5. CASE Resolves(p)
  <2>1. CASE \E at : Goes(p, Same(p, at, call[p].k, {}))
    BY <1>1, <2>1
  <2>2. CASE \E at, new, before :
               Goes(p, [Same(p, at, call[p].k, new) EXCEPT !.down = new, !.before = before])
    <3>0. PICK at, new, before :
            Goes(p, [Same(p, at, call[p].k, new) EXCEPT !.down = new, !.before = before])
      BY <2>2
    <3>1. call'[p] = [Same(p, at, call[p].k, new) EXCEPT !.down = new, !.before = before]
      BY <3>0, Going1
    <3>2. PICK c : c = call[p]
      OBVIOUS
    <3>3. call'[p] = [[at |-> at, m |-> c.m, k |-> c.k, todo |-> new, down |-> c.down,
                       before |-> c.before, clean |-> c.clean]
                        EXCEPT !.down = new, !.before = before]
      BY <3>1, <3>2 DEF Same
    <3> QED
      BY <3>2, <3>3
  <2> QED
    BY <1>5, <2>1, <2>2 DEF Resolves
<1>6. CASE Continues(p)
  <2>1. PICK n, c : n = call[p].m + 1 /\ c = call[p]
    OBVIOUS
  <2>2. call'[p] = [c EXCEPT !.at = "model", !.m = n, !.k = 0] /\ IsCall(c)
    BY <1>6, <2>1, Going1 DEF Continues, Shapes
  <2> QED
    BY <2>1, <2>2 DEF IsCall
<1>7. CASE Executes(p)
  <2>1. \A i : Sends(p, i) => call'[p].clean = call[p].clean
    BY <1>1 DEF Sends
  <2> QED
    BY <1>7, <2>1 DEF Executes, MakesTable, AddsColumn, DropsColumn, AddsIndex, MakesJoin,
                     MakesSidecar, MakesTrigger, DropsTrigger, DropsSidecar, MakesStore
<1> QED
  BY <1>2, <1>3, <1>4, <1>5, <1>6, <1>7 DEF Does, Looks

\* What a clean call does, if anything, is there already.
LEMMA CleanMoves ==
  ASSUME Shapes, Stages, Clean, NEW p \in Procs, Does(p), Migrates(p), call[p].clean
  PROVE  /\ UNCHANGED ddl /\ call'[p].clean
         /\ call'[p].at \notin {"add", "sync"}
         /\ call'[p].at = "create" => 0 \in call'[p].todo
<1>1. PICK m, c, d : m = Model(p) /\ c = call[p] /\ d = call'[p]
  OBVIOUS
<1>2. IsModel(m) /\ Declared(m) /\ InProgress(p)
  BY <1>1, Requests, Resting DEF Clean
<1>3. /\ \A i \in DOMAIN m.fields : HasField(m, i)
      /\ \A j \in DOMAIN IndexDefs(m) : HasIndex(m, j)
      /\ \A i \in Junctions(m) : HasJunction(m, i)
      /\ \A i \in DOMAIN m.search : HasSpec(m, i)
      /\ \A i \in DOMAIN m.lobs : HasStore(m, i)
  BY <1>2, DeclaredIs
<1>4. c.at \notin {"add", "sync"} /\ (c.at = "create" => 0 \in c.todo)
  BY <1>1, <1>2 DEF Clean
<1>5. Staged(request[p].op, m, c) /\ request[p].op \in {"migrate", "all"}
  BY <1>1 DEF Stages, Migrates
<1>6. ASSUME NEW at, NEW k, NEW todo, Goes(p, Same(p, at, k, todo))
      PROVE  d.at = at /\ d.todo = todo
  BY <1>1, <1>6, Going1 DEF Same
<1>c. d.clean
  BY <1>1, CleanStays
<1>7. Quiet => UNCHANGED ddl
  BY DEF Quiet, ddl
<1>8. CASE Stops(p) \/ Returns(p)
  <2>1. \E at, k, todo : at \in {"error", "nil"} /\ Goes(p, Same(p, at, k, todo))
    BY <1>8 DEF Stops, Returns
  <2>2. UNCHANGED ddl
    BY <1>7, <1>8 DEF Stops, Returns, ddl
  <2> QED
    BY <1>1, <1>6, <1>c, <2>1, <2>2
<1>9. CASE Resolves(p)
  <2>1. Goes(p, Same(p, "columns", c.k, {}))
    BY <1>1, <1>5, <1>9 DEF Resolves
  <2> QED
    BY <1>1, <1>6, <1>7, <1>c, <1>9, <2>1 DEF Resolves
<1>10. CASE Introspects(p)
  <2>1. AddMissing(m, cols[m.table]) = {}
    BY <1>3 DEF AddMissing, HasField, ColumnNames
  <2>2. \/ Goes(p, Same(p, "create", c.k, {0} \cup DOMAIN IndexDefs(m)))
        \/ Goes(p, Same(p, "indexes", c.k, {}))
    BY <1>1, <1>10, <2>1, AfterIs DEF Introspects, Reach
  <2>3. \/ d.at = "create" /\ d.todo = {0} \cup DOMAIN IndexDefs(m)
        \/ d.at = "indexes"
    BY <1>6, <2>2
  <2> QED
    BY <1>1, <1>7, <1>c, <1>10, <2>3 DEF Introspects
<1>11. CASE Lists(p)
  <2>1. MissingIndexes(m) = {}
    <3>1. \A j \in DOMAIN IndexDefs(m) :
            \E i \in idx : i.table = m.table /\ i.name = IndexDefs(m)[j].name
      BY <1>3 DEF HasIndex, IndexNames
    <3> QED
      BY <3>1 DEF MissingIndexes
  <2>2. Goes(p, Same(p, "joins", c.k, {}))
    BY <1>1, <1>11, <2>1, AfterIs DEF Lists, Reach
  <2> QED
    BY <1>1, <1>6, <1>7, <1>c, <1>11, <2>2 DEF Lists
<1>12. CASE Joins(p)
  <2>1. \E at, k, todo : at \in {"specs", "joins", "join"} /\ Goes(p, Same(p, at, k, todo))
    BY <1>12 DEF Joins
  <2> QED
    BY <1>1, <1>6, <1>7, <1>c, <1>12, <2>1 DEF Joins
<1>13. CASE Searches(p)
  <2>1. \E at, k, todo : at \in {"lobs", "end", "search", "drop"} /\ Goes(p, Same(p, at, k, todo))
    BY <1>13 DEF Searches
  <2> QED
    BY <1>1, <1>6, <1>7, <1>c, <1>13, <2>1 DEF Searches
<1>14. CASE Provides(p)
  <2>1. \E at, k, todo : at \in {"store", "end"} /\ Goes(p, Same(p, at, k, todo))
    BY <1>14, AfterIs DEF Provides, Reach
  <2> QED
    BY <1>1, <1>6, <1>7, <1>c, <1>14, <2>1 DEF Provides
<1>15. CASE Reverts(p)
  BY <1>1, <1>5, <1>15 DEF Reverts, Staged
<1>16. CASE Continues(p)
  <2>1. call'[p] = [call[p] EXCEPT !.at = "model", !.m = call[p].m + 1, !.k = 0]
    BY <1>16, Going1 DEF Continues
  <2>2. d.at = "model"
    <3>1. PICK n : n = call[p].m + 1
      OBVIOUS
    <3>2. d = [c EXCEPT !.at = "model", !.m = n, !.k = 0] /\ IsCall(c)
      BY <1>1, <2>1, <3>1 DEF Shapes
    <3> QED
      BY <3>1, <3>2 DEF IsCall
  <2> QED
    BY <1>1, <1>7, <1>c, <1>16, <2>2 DEF Continues
<1>17. CASE Executes(p)
  <2>1. ASSUME NEW i, Sends(p, i), c.at # "create"
        PROVE  d.at \notin {"add", "sync", "create"}
    <3>1. Goes(p, Same(p, Reach(c.at, c.todo \ {i}), c.k, c.todo \ {i})) /\ i \in c.todo
      BY <1>1, <2>1 DEF Sends
    <3>2. c.at \in DOMAIN After
      BY <1>5, <3>1 DEF Staged
    <3>3. Reach(c.at, c.todo \ {i}) \in {c.at, After[c.at]}
      BY DEF Reach
    <3>4. d.at \in {c.at, After[c.at]}
      BY <1>6, <3>1, <3>3
    <3> QED
      BY <1>4, <2>1, <3>2, <3>4, AfterIs
  <2>2. ~MakesTable(p)
    <3> SUFFICES ASSUME cols[m.table] = {} PROVE FALSE
      BY <1>1 DEF MakesTable
    <3> QED
      BY <1>2, <1>3 DEF HasField, ColumnNames, IsModel
  <2>3. ASSUME NEW i, c.at = "create", Sends(p, i)
        PROVE  i = 0
    <3>1. i \in c.todo /\ i <= 0
      BY <1>1, <1>4, <2>3 DEF Sends
    <3>2. c.todo \subseteq Nat
      BY <1>1 DEF Shapes
    <3> QED
      BY <3>1, <3>2
  <2>4. ASSUME NEW i, AddsIndex(p, i)
        PROVE  FALSE
    <3>1. c.at = "create" /\ Sends(p, i) /\ i \in DOMAIN IndexDefs(m)
      BY <1>1, <1>4, <2>4 DEF AddsIndex
    <3> QED
      BY <1>2, <2>3, <3>1 DEF IsModel
  <2>5. ~MakesJoin(p)
    <3> SUFFICES ASSUME MakesJoin(p) PROVE FALSE
      OBVIOUS
    <3>1. c.k \in Junctions(m) /\ cols[m.relations[c.k].join] = {}
      BY <1>1, <1>5 DEF MakesJoin, Staged
    <3> QED
      BY <1>3, <3>1 DEF HasJunction
  <2>6. ~DropsSidecar(p) /\ \A i : ~AddsColumn(p, i) /\ ~DropsColumn(p, i) /\ ~DropsTrigger(p, i)
    BY <1>1, <1>4, <1>5 DEF DropsSidecar, AddsColumn, DropsColumn, DropsTrigger, Staged
  <2>7. c.at = "search" => HasSpec(m, c.k) /\ dialect = "sqlite"
    BY <1>3, <1>5 DEF Staged
  <2>8. CASE MakesSidecar(p)
    <3>1. c.at = "search" /\ Sends(p, 1) /\ sides' = sides \cup {m.search[c.k].name}
          /\ UNCHANGED <<cols, idx, fks, trigs, stores>>
      BY <1>1, <2>8 DEF MakesSidecar, Sends
    <3>2. UNCHANGED ddl
      BY <2>7, <3>1 DEF HasSpec, ddl
    <3> QED
      BY <1>1, <1>c, <2>1, <3>1, <3>2
  <2>9. ASSUME NEW i \in Nat, MakesTrigger(p, i)
        PROVE  /\ UNCHANGED ddl
               /\ d.at \notin {"add", "sync", "create"}
    <3> DEFINE e == EventUp(i)
               x == Trigger(m, m.search[c.k], e)
    <3>1. c.at = "search" /\ Sends(p, i) /\ i \in 2 .. 4 /\ ~m.search[c.k].hooked
          /\ trigs' = trigs \cup {x}
          /\ UNCHANGED <<cols, idx, fks, sides, stores>>
      BY <1>1, <2>9 DEF MakesTrigger, Sends
    <3>2. e \in Events
      <4>1. i = 2 \/ i = 3 \/ i = 4
        BY <3>1
      <4> QED
        BY <4>1 DEF EventUp, Events
    <3> HIDE DEF e
    <3>3. x \in trigs
      BY <2>7, <3>1, <3>2 DEF HasSpec, HasTriggers
    <3> HIDE DEF x
    <3>4. UNCHANGED ddl
      BY <3>1, <3>3 DEF ddl
    <3> QED
      BY <1>1, <2>1, <3>1, <3>4
  <2>10. ASSUME NEW i \in Nat, MakesStore(p, i)
         PROVE  /\ UNCHANGED ddl
                /\ d.at \notin {"add", "sync", "create"}
    <3>1. c.at = "store" /\ Sends(p, i) /\ i \in DOMAIN m.lobs
          /\ stores' = stores \cup {<<m.table, m.lobs[i].column>>}
          /\ UNCHANGED <<cols, idx, fks, sides, trigs>>
      BY <1>1, <2>10 DEF MakesStore
    <3>2. UNCHANGED ddl
      BY <1>3, <3>1 DEF HasStore, ddl
    <3> QED
      BY <1>1, <1>c, <2>1, <3>1, <3>2
  <2> QED
    BY <1>1, <1>c, <1>17, <2>2, <2>4, <2>5, <2>6, <2>8, <2>9, <2>10 DEF Executes
<1> QED
  BY <1>8, <1>9, <1>10, <1>11, <1>12, <1>13, <1>14, <1>15, <1>16, <1>17 DEF Does, Looks

\* What a clean call found stays there.
LEMMA CleanNext ==
  ASSUME Shapes, Stages, Alone, Clean, Next
  PROVE  Clean'
<1> SUFFICES ASSUME NEW q \in Procs, Migrates(q)', InProgress(q)', call'[q].clean
             PROVE  /\ \A m \in Elements(request'[q].models) : Declared(m)'
                    /\ call'[q].at \notin {"add", "sync"}
                    /\ call'[q].at = "create" => 0 \in call'[q].todo
  BY DEF Clean
<1>1. \A m \in Elements(request[q].models) : IsModel(m)
  BY Requests
<1>2. ASSUME Migrates(q), InProgress(q), call[q].clean
      PROVE  \A m \in Elements(request[q].models) : Declared(m)'
  BY <1>1, <1>2, Growing, StillThere DEF Clean
<1>3. ASSUME call'[q] = call[q], request' = request
      PROVE  /\ \A m \in Elements(request'[q].models) : Declared(m)'
             /\ call'[q].at \notin {"add", "sync"}
             /\ call'[q].at = "create" => 0 \in call'[q].todo
  <2>1. Migrates(q) /\ InProgress(q) /\ call[q].clean
    BY <1>3 DEF Migrates, InProgress
  <2> QED
    BY <1>2, <1>3, <2>1 DEF Clean
<1>4. CASE Writes
  BY <1>3, <1>4 DEF Writes, Write
<1>5. ASSUME NEW p \in Procs, Start(p) \/ Does(p), q # p
      PROVE  /\ \A m \in Elements(request'[q].models) : Declared(m)'
             /\ call'[q].at \notin {"add", "sync"}
             /\ call'[q].at = "create" => 0 \in call'[q].todo
  BY <1>3, <1>5, OneMoves
<1>6. CASE Start(q)
  <2>1. PICK b : /\ b => \A m \in Elements(request[q].models) : Declared(m)
                 /\ call'[q] = [at |-> "model", m |-> 1, k |-> 0, todo |-> {}, down |-> {},
                                before |-> {}, clean |-> b]
    BY <1>6, Starting
  <2>2. Grows
    BY <1>6 DEF Start, Grows, ddl
  <2>3. call'[q].at = "model" /\ call'[q].clean = b /\ request' = request
    BY <1>6, <2>1, OneMoves
  <2>4. \A m \in Elements(request[q].models) : Declared(m)'
    BY <1>1, <2>1, <2>2, <2>3, StillThere
  <2> QED
    BY <2>3, <2>4
<1>7. CASE Does(q)
  <2>1. Migrates(q) /\ request' = request /\ InProgress(q)
    BY <1>7, OneMoves, Resting DEF Migrates
  <2>2. call[q].clean
    BY <1>7, <2>1, CleanStays
  <2> QED
    BY <1>2, <1>7, <2>1, <2>2, CleanMoves
<1> QED
  BY <1>4, <1>5, <1>6, <1>7, NextCases

(***************************************************************************)
(* The catalogue and the two scripts of a review: Catalogued and Reviews.  *)
(***************************************************************************)
\* A column is what it is as long as the engine is.
LEMMA ColumnIs ==
  /\ \A f : Column(f).name = f.column
  /\ dialect' = dialect => \A m, S : AddedBy(m, S)' = AddedBy(m, S)
<1>1. \A f : Column(f).name = f.column
  BY DEF Column
<1>2. ASSUME dialect' = dialect, NEW f
      PROVE  Column(f)' = Column(f)
  BY <1>2, Zenon DEF Column, ColumnType, Catalog
<1> QED
  BY <1>1, <1>2 DEF AddedBy

\* A column more, as the up script adds them.
LEMMA OneMore ==
  ASSUME NEW m, NEW S, NEW i, NEW before, NEW old, old = before \cup AddedBy(m, S), OneEach(m, S),
         \A x \in old : x.name # m.fields[i].column
  PROVE  /\ old \cup {Column(m.fields[i])} = before \cup AddedBy(m, S \cup {i})
         /\ OneEach(m, S \cup {i})
<1>1. AddedBy(m, S \cup {i}) = AddedBy(m, S) \cup {Column(m.fields[i])}
  BY DEF AddedBy
<1>2. \A j \in S : Column(m.fields[j]) \in old
  BY DEF AddedBy
<1>3. \A j \in S : m.fields[j].column # m.fields[i].column
  BY <1>2, ColumnIs
<1> QED
  BY <1>1, <1>3 DEF OneEach

\* A column less, as the down script drops them.
LEMMA OneLess ==
  ASSUME NEW m, NEW S, NEW i \in S, NEW before, OneEach(m, S),
         \A x \in before : x.name # m.fields[i].column
  PROVE  /\ {x \in before \cup AddedBy(m, S) : x.name # m.fields[i].column}
              = before \cup AddedBy(m, S \ {i})
         /\ OneEach(m, S \ {i})
<1>1. \A j \in S : Column(m.fields[j]).name = m.fields[i].column <=> j = i
  BY ColumnIs DEF OneEach
<1>2. {x \in AddedBy(m, S) : x.name # m.fields[i].column} = AddedBy(m, S \ {i})
  BY <1>1 DEF AddedBy
<1>3. {x \in before : x.name # m.fields[i].column} = before
  OBVIOUS
<1> QED
  BY <1>2, <1>3 DEF OneEach

\* A statement puts these columns into a table.
Rewrites(t, S) ==
  /\ t \in Tables /\ cols' = [cols EXCEPT ![t] = S]
  /\ \A x, y \in S : x.name = y.name => x = y
  /\ \A i \in idx : i.table = t => i.column \in {x.name : x \in S}
  /\ UNCHANGED <<idx, rows, sides, indexed>>

\* An index is of a column there is, a sidecar holds rows of it only if it is there.
LEMMA CataloguedNext ==
  ASSUME Shapes, Stages, Reviews, Catalogued, Next
  PROVE  Catalogued'
<1>1. CASE Writes
  <2>1. PICK t \in Tables, r \in Rows, ev \in Events, present \in BOOLEAN :
           Write(t, r, ev, present)
    BY <1>1 DEF Writes
  <2>2. cols' = cols /\ idx' = idx /\ sides' = sides
    BY <2>1 DEF Write, ddl
  <2>3. \A u \in Tables : rows'[u] \subseteq Rows
    BY <2>1 DEF Write, Catalogued, Shapes
  <2>4. indexed' \subseteq sides \X Rows
    <3> DEFINE on == Sides(Fired(t, ev))
    <3>1. on \subseteq sides /\ (indexed' = indexed \cup (on \X {r}) \/ indexed' = indexed \ (on \X {r}))
      BY <2>1 DEF Write
    <3> HIDE DEF on
    <3> QED
      BY <3>1 DEF Catalogued
  <2> QED
    BY <2>2, <2>3, <2>4 DEF Catalogued, ColumnNames
<1>2. ASSUME NEW p \in Procs, Start(p) \/ Stops(p) \/ Looks(p) \/ Returns(p)
      PROVE  Catalogued'
  <2>1. UNCHANGED <<cols, idx, sides, rows, indexed>>
    BY <1>2 DEF Start, ddl, data, Stops, Looks, Returns, Quiet, Resolves, Introspects, Lists,
                Joins, Searches, Provides, Reverts, Continues
  <2> QED
    BY <2>1 DEF Catalogued, ColumnNames
<1>3. ASSUME NEW p \in Procs, Executes(p)
      PROVE  Catalogued'
  <2>1. PICK m, c : m = Model(p) /\ c = call[p]
    OBVIOUS
  <2>2. IsModel(m) /\ Staged(request[p].op, m, c)
    BY <2>1, Requests DEF Stages
  <2>3. ASSUME UNCHANGED <<cols, rows, sides, indexed>>,
               \A i \in idx' \ idx : i.table \in Tables /\ i.column \in ColumnNames(i.table)
        PROVE  Catalogued'
    BY <2>3 DEF Catalogued, ColumnNames
  <2>4. ASSUME NEW t, NEW S, Rewrites(t, S)
        PROVE  Catalogued'
    <3>1. cols'[t] = S /\ \A u \in Tables : u # t => cols'[u] = cols[u]
      BY <2>4 DEF Rewrites, Shapes
    <3> QED
      BY <2>4, <3>1 DEF Rewrites, Catalogued, ColumnNames
  <2>5. CASE MakesTable(p)
    <3> DEFINE S == {Column(f) : f \in Elements(m.fields)}
    <3>1. /\ cols' = [cols EXCEPT ![m.table] = S] /\ cols[m.table] = {} /\ m.table \in Tables
          /\ UNCHANGED <<idx, rows, sides, indexed>>
      BY <2>1, <2>2, <2>5 DEF MakesTable, IsModel
    <3>2. \A x, y \in S : x.name = y.name => x = y
      <4>1. \A i, j \in DOMAIN m.fields : m.fields[i].column = m.fields[j].column => i = j
        BY <2>1, <2>5 DEF MakesTable
      <4>2. S = {Column(m.fields[i]) : i \in DOMAIN m.fields}
        BY DEF Elements
      <4> HIDE DEF S
      <4>3. SUFFICES ASSUME NEW x \in S, NEW y \in S, x.name = y.name PROVE x = y
        OBVIOUS
      <4>4. PICK i, j : /\ i \in DOMAIN m.fields /\ x = Column(m.fields[i])
                        /\ j \in DOMAIN m.fields /\ y = Column(m.fields[j])
        BY <4>2
      <4> QED
        BY <4>1, <4>3, <4>4, ColumnIs
    <3>3. \A i \in idx : i.table # m.table
      BY <3>1 DEF Catalogued, ColumnNames
    <3>4. \A i \in idx : i.table = m.table => i.column \in {x.name : x \in S}
      BY <3>3
    <3> HIDE DEF S
    <3>5. Rewrites(m.table, S)
      BY <3>1, <3>2, <3>4 DEF Rewrites
    <3> QED
      BY <2>4, <3>5
  <2>6. ASSUME NEW i \in Nat, AddsColumn(p, i)
        PROVE  Catalogued'
    <3> DEFINE S == cols[m.table] \cup {Column(m.fields[i])}
    <3>1. /\ cols' = [cols EXCEPT ![m.table] = S] /\ m.table \in Tables
          /\ m.fields[i].column \notin ColumnNames(m.table)
          /\ UNCHANGED <<idx, rows, sides, indexed>>
      BY <2>1, <2>2, <2>6 DEF AddsColumn, IsModel
    <3>2. \A x, y \in S : x.name = y.name => x = y
      BY <3>1, ColumnIs DEF Catalogued, ColumnNames
    <3>3. \A x \in idx : x.table = m.table => x.column \in {y.name : y \in S}
      BY <3>1 DEF Catalogued, ColumnNames
    <3> HIDE DEF S
    <3>4. Rewrites(m.table, S)
      BY <3>1, <3>2, <3>3 DEF Rewrites
    <3> QED
      BY <2>4, <3>4
  <2>7. ASSUME NEW i \in Nat, DropsColumn(p, i)
        PROVE  Catalogued'
    <3> DEFINE S == {x \in cols[m.table] : x.name # m.fields[i].column}
    <3>1. /\ cols' = [cols EXCEPT ![m.table] = S] /\ m.table \in Tables
          /\ c.at = "down" /\ i \in c.todo /\ i \in DOMAIN m.fields
          /\ UNCHANGED <<idx, rows, sides, indexed>>
      BY <2>1, <2>2, <2>7 DEF DropsColumn, IsModel, Sends
    <3>2. Reviewed(m, c) /\ i \in c.down
      BY <2>1, <2>2, <3>1 DEF Reviews, Staged
    <3>3. \A x, y \in S : x.name = y.name => x = y
      BY <3>1 DEF Catalogued
    <3>4. \A x \in idx : x.table = m.table => x.column \in {y.name : y \in S}
      <4>1. \A x \in idx : x.table = m.table => x.column # m.fields[i].column
        BY <3>1, <3>2 DEF Reviewed
      <4> QED
        BY <3>1, <4>1 DEF Catalogued, ColumnNames
    <3> HIDE DEF S
    <3>5. Rewrites(m.table, S)
      BY <3>1, <3>3, <3>4 DEF Rewrites
    <3> QED
      BY <2>4, <3>5
  <2>8. CASE MakesJoin(p)
    <3> DEFINE r == m.relations[c.k]
               S == {[name |-> n, type |-> "key"] : n \in {r.ownerFK, r.targetFK}}
    <3>1. /\ cols' = [cols EXCEPT ![r.join] = S] /\ cols[r.join] = {} /\ c.k \in Junctions(m)
          /\ UNCHANGED <<idx, rows, sides, indexed>>
      BY <2>1, <2>2, <2>8 DEF MakesJoin, Staged
    <3>2. r.join \in Tables
      BY <2>2, <3>1 DEF IsModel
    <3>3. \A x, y \in S : x.name = y.name => x = y
      OBVIOUS
    <3>4. \A i \in idx : i.table # r.join
      BY <3>1, <3>2 DEF Catalogued, ColumnNames
    <3> HIDE DEF S, r
    <3>5. Rewrites(r.join, S)
      BY <3>1, <3>2, <3>3, <3>4 DEF Rewrites
    <3> QED
      BY <2>4, <3>5
  <2>9. ASSUME NEW i \in Nat, AddsIndex(p, i)
        PROVE  Catalogued'
    <3>1. /\ idx' = idx \cup {IndexDefs(m)[i]} /\ i \in DOMAIN IndexDefs(m)
          /\ IndexDefs(m)[i].column \in ColumnNames(IndexDefs(m)[i].table)
          /\ UNCHANGED <<cols, rows, sides, indexed>>
      BY <2>1, <2>9 DEF AddsIndex
    <3>2. IndexDefs(m)[i].table \in Tables
      BY <2>2, <3>1 DEF IsModel
    <3> QED
      BY <2>3, <3>1, <3>2
  <2>10. ASSUME UNCHANGED <<cols, idx, rows>>, indexed' \subseteq sides' \X Rows
         PROVE  Catalogued'
    BY <2>10 DEF Catalogued, ColumnNames
  <2>11. CASE MakesSidecar(p)
    BY <2>10, <2>11 DEF MakesSidecar, Catalogued
  <2>12. CASE DropsSidecar(p)
    <3>1. PICK name : /\ sides' = sides \ {name} /\ indexed' = {x \in indexed : x[1] # name}
                      /\ UNCHANGED <<cols, idx, rows>>
      BY <2>12 DEF DropsSidecar
    <3>2. indexed' \subseteq sides' \X Rows
      BY <3>1 DEF Catalogued
    <3> QED
      BY <2>10, <3>1, <3>2
  <2>13. ASSUME NEW i \in Nat, MakesTrigger(p, i) \/ DropsTrigger(p, i) \/ MakesStore(p, i)
         PROVE  Catalogued'
    <3>1. UNCHANGED <<cols, idx, rows, sides, indexed>>
      BY <2>13 DEF MakesTrigger, DropsTrigger, MakesStore
    <3> QED
      BY <2>10, <3>1 DEF Catalogued
  <2> QED
    BY <1>3, <2>5, <2>6, <2>7, <2>8, <2>9, <2>11, <2>12, <2>13 DEF Executes
<1> QED
  BY <1>1, <1>2, <1>3, NextCases DEF Does

\* The columns applied so far, at each stage of a review.
LEMMA AppliedIs ==
  ASSUME NEW c
  PROVE  /\ c.at = "up" => Applied(c) = c.down \ c.todo
         /\ c.at = "reviewed" => Applied(c) = c.down
         /\ c.at = "down" => Applied(c) = c.todo
BY DEF Applied

\* A statement of the down script leaves the columns of those still to come.
LEMMA Dropping ==
  ASSUME Shapes, Stages, Reviews, NEW p \in Procs, NEW i, DropsColumn(p, i)
  PROVE  LET rest == call[p].todo \ {i}
             m    == Model(p)
         IN /\ cols'[m.table] = call[p].before \cup AddedBy(m, rest)
            /\ OneEach(m, rest)
            /\ Goes(p, Same(p, Reach("down", rest), call[p].k, rest))
<1>1. PICK m, c : m = Model(p) /\ c = call[p]
  OBVIOUS
<1>2. /\ IsModel(m) /\ Staged(request[p].op, m, c)
      /\ c.at = "down" /\ Sends(p, i) /\ i \in c.todo /\ i \in DOMAIN m.fields
      /\ cols' = [cols EXCEPT ![m.table] = {x \in @ : x.name # m.fields[i].column}]
  BY <1>1, Requests DEF Stages, DropsColumn, Sends
<1>3. Reviewed(m, c) /\ c.todo \subseteq c.down
  BY <1>1, <1>2 DEF Reviews, Staged
<1>4. /\ cols[m.table] = c.before \cup AddedBy(m, c.todo) /\ OneEach(m, c.todo)
      /\ \A x \in c.before : x.name # m.fields[i].column
  BY <1>2, <1>3, AppliedIs DEF Reviewed
<1>5. cols'[m.table] = {x \in cols[m.table] : x.name # m.fields[i].column}
  BY <1>2 DEF Shapes, IsModel
<1>6. cols'[m.table] = c.before \cup AddedBy(m, c.todo \ {i}) /\ OneEach(m, c.todo \ {i})
  <2>1. PICK before, S : before = c.before /\ S = c.todo
    OBVIOUS
  <2>2. /\ {x \in before \cup AddedBy(m, S) : x.name # m.fields[i].column}
             = before \cup AddedBy(m, S \ {i})
        /\ OneEach(m, S \ {i})
    <3>1. i \in S /\ OneEach(m, S) /\ \A x \in before : x.name # m.fields[i].column
      BY <1>2, <1>4, <2>1
    <3> QED
      BY <3>1, OneLess
  <2>3. cols'[m.table] = {x \in before \cup AddedBy(m, S) : x.name # m.fields[i].column}
    BY <1>4, <1>5, <2>1
  <2> QED
    BY <2>1, <2>2, <2>3
<1>7. Goes(p, Same(p, Reach("down", c.todo \ {i}), c.k, c.todo \ {i}))
  BY <1>1, <1>2 DEF Sends
<1> QED
  BY <1>1, <1>6, <1>7

\* A review goes from script to script with the columns and the indexes it should have.
LEMMA ReviewedNext ==
  ASSUME Shapes, Stages, Reviews, Catalogued, NEW p \in Procs, Does(p),
         call'[p].at \in {"up", "reviewed", "down"}, request[p].op = "review"
  PROVE  Reviewed(Model(p), call[p])'
<1>1. PICK m, c, d : m = Model(p) /\ c = call[p] /\ d = call'[p]
  OBVIOUS
<1>2. /\ IsModel(m) /\ Staged(request[p].op, m, c)
      /\ request' = request /\ dialect' = dialect
  BY <1>1, Requests, OneMoves DEF Stages
<1>3. ~Migrates(p) /\ c.at \notin Migrating \cup {"specs", "drop"}
  BY <1>2 DEF Staged, Migrates
<1>4. ASSUME NEW at, NEW k, NEW todo, Goes(p, Same(p, at, k, todo))
      PROVE  /\ d.at = at /\ d.todo = todo /\ d.down = c.down /\ d.before = c.before
             /\ Model(p)' = m
  BY <1>1, <1>2, <1>4, Going1 DEF Same, Model
<1>5. ASSUME Model(p)' = m, cols'[m.table] = d.before \cup AddedBy(m, Applied(d)),
             OneEach(m, Applied(d)),
             \A i \in DOMAIN m.fields :
               i \in d.down <=> m.fields[i].column \notin {x.name : x \in d.before},
             \A x \in idx' : x.table = m.table => x.column \in {y.name : y \in d.before}
      PROVE  Reviewed(Model(p), call[p])'
  <2>1. AddedBy(m, Applied(d))' = AddedBy(m, Applied(d))
    BY <1>2, ColumnIs
  <2>2. Reviewed(m, d)'
    BY <1>5, <2>1 DEF Reviewed
  <2> QED
    BY <1>1, <1>5, <2>2
<1>6. CASE Resolves(p)
  <2> DEFINE new == Added(m)
  <2>1. Goes(p, [Same(p, Reach("up", new), call[p].k, new) EXCEPT !.down = new, !.before = cols[m.table]])
        /\ Quiet
    BY <1>1, <1>3, <1>6 DEF Resolves, Migrates
  <2>2. /\ d.at = Reach("up", new) /\ d.todo = new /\ d.down = new /\ d.before = cols[m.table]
        /\ d.m = c.m
    <3>1. d = [Same(p, Reach("up", new), call[p].k, new) EXCEPT !.down = new, !.before = cols[m.table]]
      BY <1>1, <2>1, Going1
    <3>2. PICK at, b, n : at = Reach("up", new) /\ b = cols[m.table] /\ n = new
      OBVIOUS
    <3>3. d = [[at |-> at, m |-> c.m, k |-> c.k, todo |-> n, down |-> c.down,
                before |-> c.before, clean |-> c.clean] EXCEPT !.down = n, !.before = b]
      BY <1>1, <3>1, <3>2 DEF Same
    <3> HIDE DEF new
    <3> QED
      BY <3>2, <3>3
  <2>3. Model(p)' = m
    BY <1>1, <1>2, <2>2 DEF Model
  <2>4. \A i \in DOMAIN m.fields : i \in new <=> m.fields[i].column \notin {x.name : x \in cols[m.table]}
    BY DEF Added, ColumnNames
  <2>5. \A x \in idx' : x.table = m.table => x.column \in {y.name : y \in cols[m.table]}
    BY <2>1 DEF Catalogued, ColumnNames, Quiet
  <2> HIDE DEF new
  <2>6. Applied(d) = {}
    <3>1. d.at = "up" \/ (d.at = "reviewed" /\ d.down = {})
      BY <2>2, ReachIs, AfterIs
    <3> QED
      BY <2>2, <3>1, AppliedIs
  <2>7. AddedBy(m, {}) = {} /\ OneEach(m, {})
    BY DEF AddedBy, OneEach
  <2>8. cols'[m.table] = cols[m.table]
    BY <2>1 DEF Quiet
  <2>9. cols'[m.table] = d.before \cup AddedBy(m, Applied(d)) /\ OneEach(m, Applied(d))
    BY <2>2, <2>6, <2>7, <2>8
  <2> QED
    BY <1>5, <2>2, <2>3, <2>4, <2>5, <2>9
<1>7. CASE Reverts(p)
  <2>1. Goes(p, Same(p, Reach("down", c.down), c.k, c.down)) /\ Quiet /\ c.at = "reviewed"
    BY <1>1, <1>7 DEF Reverts
  <2>2. d.at = "down" /\ d.todo = c.down
    BY <1>1, <1>4, <2>1, ReachIs, AfterIs
  <2>3. Applied(d) = Applied(c) /\ Reviewed(m, c)
    BY <1>1, <2>1, <2>2, AppliedIs DEF Reviews
  <2> QED
    BY <1>4, <1>5, <2>1, <2>3 DEF Reviewed, Quiet
<1>8. ASSUME NEW i \in Nat, AddsColumn(p, i)
      PROVE  Reviewed(Model(p), call[p])'
  <2>1. /\ c.at = "up" /\ Sends(p, i) /\ i \in c.todo /\ idx' = idx
        /\ m.fields[i].column \notin ColumnNames(m.table)
        /\ cols' = [cols EXCEPT ![m.table] = @ \cup {Column(m.fields[i])}]
    BY <1>1, <1>3, <1>8 DEF AddsColumn, Sends, Migrating
  <2>2. Goes(p, Same(p, Reach("up", c.todo \ {i}), c.k, c.todo \ {i}))
    BY <1>1, <2>1 DEF Sends
  <2>3. /\ d.todo = c.todo \ {i} /\ d.down = c.down /\ d.before = c.before /\ Model(p)' = m
        /\ d.at = "up" \/ (d.at = "reviewed" /\ d.todo = {})
    BY <1>4, <2>2, ReachIs, AfterIs
  <2>4. Reviewed(m, c) /\ c.todo \subseteq c.down
    BY <1>1, <1>2, <2>1 DEF Reviews, Staged
  <2>5. Applied(d) = Applied(c) \cup {i}
    BY <2>1, <2>3, <2>4, AppliedIs
  <2>6. cols'[m.table] = cols[m.table] \cup {Column(m.fields[i])}
    BY <1>2, <2>1 DEF Shapes, IsModel
  <2>7. \A x \in cols[m.table] : x.name # m.fields[i].column
    BY <2>1 DEF ColumnNames
  <2>8. /\ cols'[m.table] = c.before \cup AddedBy(m, Applied(c) \cup {i})
        /\ OneEach(m, Applied(c) \cup {i})
    BY <2>4, <2>6, <2>7, OneMore DEF Reviewed
  <2> QED
    BY <1>5, <2>1, <2>3, <2>4, <2>5, <2>8 DEF Reviewed
<1>9. ASSUME NEW i \in Nat, DropsColumn(p, i)
      PROVE  Reviewed(Model(p), call[p])'
  <2>1. /\ cols'[m.table] = c.before \cup AddedBy(m, c.todo \ {i})
        /\ OneEach(m, c.todo \ {i})
        /\ Goes(p, Same(p, Reach("down", c.todo \ {i}), c.k, c.todo \ {i}))
    BY <1>1, <1>9, Dropping
  <2>2. c.at = "down" /\ idx' = idx
    BY <1>1, <1>9 DEF DropsColumn
  <2>3. /\ d.todo = c.todo \ {i} /\ d.down = c.down /\ d.before = c.before /\ Model(p)' = m
        /\ d.at = "down"
    BY <1>1, <1>4, <2>1, ReachIs, AfterIs
  <2>4. Applied(d) = c.todo \ {i}
    BY <2>3, AppliedIs
  <2>5. Reviewed(m, c)
    BY <1>1, <2>2 DEF Reviews
  <2> QED
    BY <1>5, <2>1, <2>2, <2>3, <2>4, <2>5 DEF Reviewed
<1>10. CASE Stops(p) \/ Returns(p)
  <2>1. \E at, k, todo : at \in {"error", "nil"} /\ Goes(p, Same(p, at, k, todo))
    BY <1>10 DEF Stops, Returns
  <2> QED
    BY <1>1, <1>4, <2>1
<1>11. CASE Continues(p)
  <2>1. PICK n : n = call[p].m + 1
    OBVIOUS
  <2>2. d = [c EXCEPT !.at = "model", !.m = n, !.k = 0] /\ IsCall(c)
    BY <1>1, <1>11, <2>1, Going1 DEF Continues, Shapes
  <2>3. d.at = "model"
    BY <2>2 DEF IsCall
  <2> QED
    BY <1>1, <2>3
<1>12. CASE Introspects(p) \/ Lists(p) \/ Joins(p) \/ Searches(p) \/ Provides(p)
  BY <1>1, <1>3, <1>12 DEF Introspects, Lists, Joins, Searches, Provides, Migrating
<1>13. CASE Executes(p) /\ ~(\E i \in Nat : AddsColumn(p, i) \/ DropsColumn(p, i))
  BY <1>1, <1>3, <1>13 DEF Executes, MakesTable, AddsIndex, MakesJoin,
     MakesSidecar, MakesTrigger, DropsTrigger, DropsSidecar, MakesStore, Migrating
<1> QED
  BY <1>6, <1>7, <1>8, <1>9, <1>10, <1>11, <1>12, <1>13 DEF Does, Looks

\* A review is alone, so it is only its own steps that matter to it.
LEMMA ReviewsNext ==
  ASSUME Shapes, Stages, Alone, Reviews, Catalogued, Next
  PROVE  Reviews'
<1> SUFFICES ASSUME NEW q \in Procs, call'[q].at \in {"up", "reviewed", "down"}
             PROVE  Reviewed(Model(q), call[q])'
  BY DEF Reviews
<1>1. Stages'
  BY StagesNext
<1>2. request'[q].op = "review"
  BY <1>1 DEF Stages, Staged
<1>3. CASE Writes
  <2>1. UNCHANGED <<dialect, request, call, cols, idx>>
    BY <1>3 DEF Writes, Write, ddl
  <2>2. PICK m, c : m = Model(q) /\ c = call[q]
    OBVIOUS
  <2>3. Reviewed(m, c)
    BY <2>1, <2>2 DEF Reviews
  <2>4. Model(q)' = m /\ call'[q] = c
    BY <2>1, <2>2 DEF Model
  <2>5. AddedBy(m, Applied(c))' = AddedBy(m, Applied(c))
    BY <2>1, ColumnIs
  <2>6. Reviewed(m, c)'
    BY <2>1, <2>3, <2>5 DEF Reviewed
  <2> QED
    BY <2>4, <2>6
<1>4. ASSUME NEW p \in Procs, Start(p) \/ Does(p), p # q
      PROVE  FALSE
  <2>1. call'[q] = call[q] /\ request' = request
    BY <1>4, OneMoves
  <2>2. Exclusive(q) /\ InProgress(q)
    BY <1>2, <2>1 DEF Exclusive, Migrates, InProgress, AtRest
  <2>3. CASE Start(p)
    BY <2>2, <2>3 DEF Start, InProgress
  <2>4. CASE Does(p)
    BY <1>4, <2>2, <2>4, Resting DEF Alone
  <2> QED
    BY <1>4, <2>3, <2>4
<1>5. CASE Start(q)
  <2>1. PICK b : call'[q] = [at |-> "model", m |-> 1, k |-> 0, todo |-> {}, down |-> {},
                             before |-> {}, clean |-> b]
    BY <1>5, Starting
  <2> QED
    BY <2>1
<1>6. CASE Does(q)
  <2>1. request' = request
    BY <1>6, OneMoves
  <2> QED
    BY <1>2, <1>6, <2>1, ReviewedNext
<1> QED
  BY <1>3, <1>4, <1>5, <1>6, NextCases

(***************************************************************************)
(* The invariant, and what follows from it.                                *)
(***************************************************************************)
LEMMA InitHolds == Init => IInv
<1> SUFFICES ASSUME Init PROVE IInv
  OBVIOUS
<1>1. call = [p \in Procs |-> Idle] /\ request \in Scenarios
  BY DEF Init
<1>2. \A p \in Procs : /\ call[p].at = "idle" /\ call[p].m = 1 /\ call[p].k = 0
                       /\ call[p].todo = {} /\ IsCall(call[p])
  BY <1>1 DEF Idle, IsCall
<1>3. \A p \in Procs : ~InProgress(p)
  BY <1>2 DEF InProgress, AtRest
<1>4. \A p \in Procs : 1 \in DOMAIN request[p].models
  BY <1>1, AutoMigrateAssumption, Sequence
<1>5. Shapes
  <2>1. MaxFaults \in Nat /\ faults = 0
    BY AutoMigrateAssumption DEF Init
  <2>2. faults \in 0 .. MaxFaults
    BY <2>1
  <2> QED
    BY <1>1, <1>2, <1>4, <2>2 DEF Shapes, Init
<1>6. Stages
  BY <1>2, AfterIs DEF Stages, Staged, AtRest, Migrating
<1>7. Reviews
  BY <1>2 DEF Reviews
<1>8. Catalogued
  BY DEF Catalogued, Init
<1> QED
  BY <1>3, <1>5, <1>6, <1>7, <1>8 DEF IInv, Alone, Made, Clean

\* Every step keeps the invariant.
LEMMA IInvNext == IInv /\ [Next]_vars => IInv'
<1>1. IInv /\ Next => IInv'
  BY ShapesNext, StagesNext, AloneNext, MadeNext, CleanNext, ReviewsNext, CataloguedNext DEF IInv
<1>2. ASSUME IInv, UNCHANGED vars
      PROVE  IInv'
  <2>1. /\ UNCHANGED <<dialect, request, call, cols, idx, sides, trigs, stores, rows, indexed, faults>>
        /\ dialect' = dialect
    BY <1>2 DEF vars, ddl, data
  <2>2. Shapes' /\ Alone' /\ Catalogued'
    BY <1>2, <2>1 DEF IInv, Shapes, Alone, InProgress, Exclusive, Migrates, Catalogued, ColumnNames
  <2>3. Stages'
    BY ZenonT(90), <1>2, <2>1 DEF IInv, Stages, Staged, Model
  <2>4. Grows
    BY <2>1 DEF Grows
  <2>5. \A p \in Procs : (Migrates(p) <=> Migrates(p)') /\ (InProgress(p) <=> InProgress(p)')
    BY <2>1 DEF Migrates, InProgress
  <2>6. Made'
    <3> SUFFICES ASSUME NEW q \in Procs, Migrates(q)', InProgress(q)'
                 PROVE  Reached(request[q].models, call[q])'
      BY DEF Made
    <3>1. PICK models, c : models = request[q].models /\ c = call[q]
      OBVIOUS
    <3>2. /\ Reached(models, c) /\ c.m \in DOMAIN models
          /\ \A j \in DOMAIN models : IsModel(models[j])
      BY <1>2, <2>5, <3>1, Requests DEF IInv, Made, Shapes
    <3>3. Reached(models, c)'
      BY <2>4, <3>2, ReachedStays
    <3> QED
      BY <2>1, <3>1, <3>3
  <2>7. Clean'
    <3>1. \A q \in Procs : \A m \in Elements(request[q].models) : Declared(m) => Declared(m)'
      BY <1>2, <2>4, StillThere, Requests DEF IInv
    <3> QED
      BY <1>2, <2>1, <2>5, <3>1 DEF IInv, Clean
  <2>8. Reviews'
    <3> SUFFICES ASSUME NEW q \in Procs, call'[q].at \in {"up", "reviewed", "down"}
                 PROVE  Reviewed(Model(q), call[q])'
      BY DEF Reviews
    <3>1. PICK m, c : m = Model(q) /\ c = call[q]
      OBVIOUS
    <3>2. Reviewed(m, c) /\ Model(q)' = m /\ call'[q] = c
      BY <1>2, <2>1, <3>1 DEF IInv, Reviews, Model
    <3>3. AddedBy(m, Applied(c))' = AddedBy(m, Applied(c))
      BY <2>1, ColumnIs
    <3>4. Reviewed(m, c)'
      BY <2>1, <3>2, <3>3 DEF Reviewed
    <3> QED
      BY <3>2, <3>4
  <2> QED
    BY <2>2, <2>3, <2>6, <2>7, <2>8 DEF IInv
<1> QED
  BY <1>1, <1>2

\* The invariant of a migration, for every set of processes and of models, on every
\* engine, with any number of failures.
THEOREM Inductive == Spec => []IInv
<1>1. Init => IInv
  BY InitHolds
<1>2. IInv /\ [Next]_vars => IInv'
  BY IInvNext
<1> QED
  BY <1>1, <1>2, PTL DEF Spec

\* TypeOK: one column of a name in a table, every index of a column there is, rows
\* in no sidecar but one that is there, and a call where its statements say.
THEOREM Types == Spec => []TypeOK
<1>1. IInv => TypeOK
  BY DEF IInv, Shapes, Stages, Staged, Catalogued, TypeOK, ColumnNames
<1> QED
  BY <1>1, Inductive, PTL

\* A step in which the call of p changes is one of p's.
LEMMA OwnStep ==
  ASSUME IInv, [Next]_vars, NEW p \in Procs, call'[p] # call[p]
  PROVE  Start(p) \/ Does(p)
<1>1. Next
  BY DEF vars
<1>2. ~Writes
  BY DEF Writes, Write
<1>3. PICK q \in Procs : Start(q) \/ Does(q)
  BY <1>1, <1>2, NextCases DEF IInv
<1> QED
  BY <1>3, OneMoves DEF IInv

\* Every index is one that a model declares.
IndexesMade ==
  \A x \in idx : \E q \in Procs : \E n \in Elements(request[q].models) :
    x \in Elements(IndexDefs(n))

\* Only a call makes indexes, and those of its models.
LEMMA IndexesMadeNext == IInv /\ IndexesMade /\ [Next]_vars => IndexesMade'
<1> SUFFICES ASSUME IInv, IndexesMade, [Next]_vars PROVE IndexesMade'
  OBVIOUS
<1>1. CASE idx' = idx /\ request' = request
  BY <1>1 DEF IndexesMade
<1>2. CASE UNCHANGED vars \/ Writes
  BY <1>1, <1>2 DEF vars, ddl, Writes, Write
<1>3. CASE \E p \in Procs : Start(p) \/ Does(p)
  <2>1. PICK p \in Procs : Start(p) \/ Does(p)
    BY <1>3
  <2>2. request' = request
    BY <2>1, OneMoves DEF IInv
  <2>3. CASE \E i \in Nat : AddsIndex(p, i)
    <3>1. PICK i \in Nat : AddsIndex(p, i)
      BY <2>3
    <3>2. PICK m : m = Model(p)
      OBVIOUS
    <3>3. m \in Elements(request[p].models)
      BY <3>2, Requests DEF IInv
    <3>4. i \in DOMAIN IndexDefs(m) /\ idx' = idx \cup {IndexDefs(m)[i]}
      BY <3>1, <3>2 DEF AddsIndex
    <3>5. IndexDefs(m)[i] \in Elements(IndexDefs(m))
      BY <3>4 DEF Elements
    <3> QED
      BY <2>2, <3>3, <3>4, <3>5 DEF IndexesMade
  <2>4. CASE ~\E i \in Nat : AddsIndex(p, i)
    <3>1. idx' = idx
      <4>1. CASE Start(p)
        BY <4>1 DEF Start, ddl
      <4>2. CASE Stops(p) \/ Returns(p)
        BY <4>2 DEF Stops, Returns, Quiet
      <4>3. CASE Looks(p)
        BY <4>3 DEF Looks, Resolves, Introspects, Lists, Joins, Searches, Provides, Reverts,
                    Continues, Quiet
      <4>4. CASE Executes(p)
        BY <2>4, <4>4 DEF Executes, MakesTable, AddsColumn, DropsColumn, MakesJoin, MakesSidecar,
                          MakesTrigger, DropsTrigger, DropsSidecar, MakesStore
      <4> QED
        BY <2>1, <4>1, <4>2, <4>3, <4>4 DEF Does
    <3> QED
      BY <1>1, <2>2, <3>1
  <2> QED
    BY <2>3, <2>4
<1> QED
  BY <1>2, <1>3, NextCases DEF IInv

\* So an index of the name a model declares is the one it declares, or another's.
LEMMA IndexThere ==
  ASSUME IInv, IndexesMade, NEW m, IsModel(m), Declared(m), NEW d \in Elements(IndexDefs(m))
  PROVE  d \in idx \/ MadeOtherwise(d)
<1>1. d.table = m.table
  BY DEF IsModel, Elements
<1>2. d.name \in {x.name : x \in {y \in idx : y.table = m.table}}
  BY DEF Declared
<1>3. PICK x \in idx : x.table = m.table /\ x.name = d.name
  BY <1>2
<1>4. PICK q \in Procs :
        \E n \in Elements(request[q].models) : x \in Elements(IndexDefs(n))
  BY <1>3 DEF IndexesMade
<1> QED
  BY <1>1, <1>3, <1>4 DEF MadeOtherwise

\* NilMeansDeclared: a call of AutoMigrate that returns nil has left nothing of its
\* models missing, whatever the others did meanwhile and wherever an attempt before it
\* broke off, and each of their indexes is as they declare it or as another model does.
THEOREM NilIsDeclared == Spec => NilMeansDeclared
<1>1. ASSUME IInv, [Next]_vars, NEW p \in Procs, Migrates(p), call[p].at = "end",
             call'[p].at = "nil"
      PROVE  \A m \in Elements(request[p].models) : Declared(m)
  <2>1. Start(p) \/ Does(p)
    BY <1>1, OwnStep
  <2>2. ~Start(p)
    BY <1>1 DEF Start, AtRest
  <2>3. \A i : ~Sends(p, i)
    BY <1>1, AfterIs DEF IInv, Stages, Staged, Sends
  <2>4. ~Executes(p)
    BY <2>3 DEF Executes, MakesTable, AddsColumn, DropsColumn, AddsIndex, MakesJoin,
                MakesSidecar, MakesTrigger, DropsTrigger, DropsSidecar, MakesStore
  <2>5. ~Stops(p)
    <3> SUFFICES ASSUME Stops(p) PROVE FALSE
      OBVIOUS
    <3>1. call'[p] = Same(p, "error", call[p].k, {})
      BY Going1 DEF Stops
    <3> QED
      BY <1>1, <3>1 DEF Same
  <2>6. ~Looks(p)
    <3> SUFFICES ASSUME Looks(p) PROVE FALSE
      OBVIOUS
    <3>1. Continues(p)
      BY <1>1 DEF Looks, Resolves, Introspects, Lists, Joins, Searches, Provides, Reverts
    <3>2. PICK n, c : n = call[p].m + 1 /\ c = call[p]
      OBVIOUS
    <3>3. call'[p] = [c EXCEPT !.at = "model", !.m = n, !.k = 0] /\ IsCall(c)
      BY <1>1, <3>1, <3>2, Going1 DEF Continues, IInv, Shapes
    <3>4. call'[p].at = "model"
      BY <3>3 DEF IsCall
    <3> QED
      BY <1>1, <3>4
  <2>7. call[p].m = Len(request[p].models)
    BY <2>1, <2>2, <2>4, <2>5, <2>6 DEF Does, Returns
  <2> QED
    BY <1>1, <2>7, AllDeclared DEF IInv
<1>2. ASSUME IInv, IndexesMade, [Next]_vars, NEW p \in Procs, Migrates(p),
             call[p].at = "end", call'[p].at = "nil",
             NEW m \in Elements(request[p].models)
      PROVE  /\ Declared(m)
             /\ \A d \in Elements(IndexDefs(m)) : d \in idx \/ MadeOtherwise(d)
  BY <1>1, <1>2, IndexThere, Requests DEF IInv
<1>3. IInv /\ IndexesMade /\ [Next]_vars =>
        \A p \in Procs : Migrates(p) /\ call[p].at = "end" /\ call'[p].at = "nil" =>
          \A m \in Elements(request[p].models) :
            /\ Declared(m)
            /\ \A d \in Elements(IndexDefs(m)) : d \in idx \/ MadeOtherwise(d)
  BY <1>2
<1>4. Init => IndexesMade
  BY DEF Init, IndexesMade
<1> QED
  BY <1>3, <1>4, IndexesMadeNext, Inductive, PTL DEF Spec, NilMeansDeclared

\* RerunChangesNothing: a call that found everything declared when it started executes no
\* statement that changes the schema.
THEOREM RerunsAreQuiet == Spec => RerunChangesNothing
<1>1. ASSUME IInv, [Next]_vars, NEW p \in Procs, Migrates(p), call[p].clean, call'[p] # call[p]
      PROVE  UNCHANGED ddl
  <2>1. Start(p) \/ Does(p)
    BY <1>1, OwnStep
  <2>2. CASE Start(p)
    BY <2>2 DEF Start
  <2>3. CASE Does(p)
    BY <1>1, <2>3, CleanMoves DEF IInv
  <2> QED
    BY <2>1, <2>2, <2>3
<1>2. IInv /\ [Next]_vars =>
        \A p \in Procs : Migrates(p) /\ call[p].clean /\ call'[p] # call[p] => UNCHANGED ddl
  BY <1>1
<1> QED
  BY <1>2, Inductive, PTL DEF Spec, RerunChangesNothing

\* DownUndoesUp: after the up script of GenerateMigration no column of the model is
\* missing, and after the down script the table has the columns it had before.
THEOREM ScriptsAreInverse == Spec => DownUndoesUp
<1> DEFINE Up(p) ==
             call[p].at = "up" /\ call'[p].at = "reviewed" =>
               {f.column : f \in Elements(Model(p).fields)} \subseteq {c.name : c \in cols'[Model(p).table]}
           Down(p) ==
             call[p].at = "down" /\ call'[p].at = "end" => cols'[Model(p).table] = call[p].before
<1>1. ASSUME IInv, [Next]_vars, IInv', NEW p \in Procs, call[p].at = "up", call'[p].at = "reviewed"
      PROVE  {f.column : f \in Elements(Model(p).fields)} \subseteq {c.name : c \in cols'[Model(p).table]}
  <2>1. Does(p) /\ request' = request /\ dialect' = dialect
    BY <1>1, OwnStep, OneMoves DEF IInv, Start, AtRest
  <2>2. PICK m, d : m = Model(p) /\ d = call'[p]
    OBVIOUS
  <2>3. call'[p].m = call[p].m
    <3>1. ASSUME NEW i, Sends(p, i) PROVE call'[p].m = call[p].m
      BY <3>1, Going1 DEF Sends, Same
    <3>2. Executes(p)
      <4>1. ~Returns(p) /\ ~Looks(p)
        BY <1>1 DEF Returns, Looks, Resolves, Introspects, Lists, Joins, Searches, Provides,
                    Reverts, Continues
      <4>2. ~Stops(p)
        <5> SUFFICES ASSUME Stops(p) PROVE FALSE
          OBVIOUS
        <5>1. call'[p] = Same(p, "error", call[p].k, {})
          BY Going1 DEF Stops
        <5> QED
          BY <1>1, <5>1 DEF Same
      <4> QED
        BY <2>1, <4>1, <4>2 DEF Does
    <3> QED
      BY <3>1, <3>2 DEF Executes, MakesTable, AddsColumn, DropsColumn, AddsIndex, MakesJoin,
                        MakesSidecar, MakesTrigger, DropsTrigger, DropsSidecar, MakesStore
  <2>4. Model(p)' = m
    BY <2>1, <2>2, <2>3 DEF Model
  <2>5. Reviewed(m, d)'
    BY <1>1, <2>2, <2>4 DEF IInv, Reviews
  <2>6. d.at = "reviewed" /\ Applied(d) = d.down
    BY <1>1, <2>2, AppliedIs
  <2>7. AddedBy(m, Applied(d))' = AddedBy(m, Applied(d))
    BY <2>1, ColumnIs
  <2>8. /\ cols'[m.table] = d.before \cup AddedBy(m, d.down)
        /\ \A i \in DOMAIN m.fields : i \in d.down <=> m.fields[i].column \notin {x.name : x \in d.before}
    BY <2>5, <2>6, <2>7 DEF Reviewed
  <2>9. \A i \in DOMAIN m.fields : m.fields[i].column \in {x.name : x \in cols'[m.table]}
    <3> TAKE i \in DOMAIN m.fields
    <3>1. CASE i \in d.down
      <4>1. Column(m.fields[i]) \in cols'[m.table]
        BY <2>8, <3>1 DEF AddedBy
      <4> QED
        BY <4>1, ColumnIs
    <3>2. CASE i \notin d.down
      BY <2>8, <3>2
    <3> QED
      BY <3>1, <3>2
  <2> QED
    BY <2>2, <2>9 DEF Elements
<1>2. ASSUME IInv, [Next]_vars, NEW p \in Procs, call[p].at = "down", call'[p].at = "end"
      PROVE  cols'[Model(p).table] = call[p].before
  <2>1. Does(p)
    BY <1>2, OwnStep DEF Start, AtRest
  <2>2. ~Returns(p) /\ ~Looks(p)
    BY <1>2 DEF Returns, Looks, Resolves, Introspects, Lists, Joins, Searches, Provides,
                Reverts, Continues
  <2>3. ~Stops(p)
    <3> SUFFICES ASSUME Stops(p) PROVE FALSE
      OBVIOUS
    <3>1. call'[p] = Same(p, "error", call[p].k, {})
      BY Going1 DEF Stops
    <3> QED
      BY <1>2, <3>1 DEF Same
  <2>4. PICK i : DropsColumn(p, i)
    BY <1>2, <2>1, <2>2, <2>3 DEF Does, Executes, MakesTable, AddsColumn, AddsIndex, MakesJoin,
       MakesSidecar, MakesTrigger, DropsTrigger, DropsSidecar, MakesStore
  <2>5. PICK m, rest : m = Model(p) /\ rest = call[p].todo \ {i}
    OBVIOUS
  <2>6. /\ cols'[m.table] = call[p].before \cup AddedBy(m, rest)
        /\ Goes(p, Same(p, Reach("down", rest), call[p].k, rest))
    BY <1>2, <2>4, <2>5, Dropping DEF IInv
  <2>7. call'[p].at = Reach("down", rest)
    BY <2>6, Going1 DEF Same
  <2>8. rest = {}
    BY <1>2, <2>7, ReachIs, AfterIs
  <2>9. AddedBy(m, {}) = {}
    BY DEF AddedBy
  <2> QED
    BY <2>5, <2>6, <2>8, <2>9
<1>3. IInv /\ [Next]_vars => \A p \in Procs : Up(p) /\ Down(p)
  BY <1>1, <1>2, IInvNext
<1> QED
  <2>1. IInv /\ [Next]_vars =>
          \A p \in Procs :
            /\ call[p].at = "up" /\ call'[p].at = "reviewed" =>
                 {f.column : f \in Elements(Model(p).fields)} \subseteq {c.name : c \in cols'[Model(p).table]}
            /\ call[p].at = "down" /\ call'[p].at = "end" =>
                 cols'[Model(p).table] = call[p].before
    BY <1>3
  <2> QED
    BY <2>1, Inductive, PTL DEF Spec, DownUndoesUp

(***************************************************************************)
(* Sidecars follow their tables, if a sidecar is of one table.             *)
(***************************************************************************)
\* Sidecars of one name have the same triggers.
LEMMA OneSidecar ==
  ASSUME SearchNames, Shapes, NEW m \in AllModels, NEW n \in AllModels,
         NEW x \in Elements(m.search), NEW y \in Elements(n.search), x.name = y.name
  PROVE  m.table = n.table /\ \A e : Trigger(m, x, e) = Trigger(n, y, e)
<1>1. PICK s \in Scenarios : s = request
  BY DEF Shapes
<1>2. m \in UNION {Elements(s[p].models) : p \in Procs} /\ n \in UNION {Elements(s[p].models) : p \in Procs}
  BY <1>1 DEF AllModels
<1>3. m.table = n.table /\ x.kind = y.kind
  BY <1>2 DEF SearchNames
<1> QED
  BY <1>3 DEF Trigger

\* The models of a call are among all, and so is the one it is at.
LEMMA AreModels ==
  ASSUME Shapes, NEW p \in Procs
  PROVE  /\ Elements(request[p].models) \subseteq AllModels
         /\ Model(p) \in Elements(request[p].models) /\ IsModel(Model(p))
         /\ \A m \in AllModels : IsModel(m)
<1>1. Elements(request[p].models) \subseteq AllModels
  BY DEF AllModels
<1>2. \A m \in AllModels : IsModel(m)
  BY Requests DEF AllModels
<1> QED
  BY <1>1, <1>2, Requests

\* A trigger, taken apart.
LEMMA TriggerIs ==
  \A m, s, e : Trigger(m, s, e).table = m.table /\ Trigger(m, s, e).side = s.name
               /\ Trigger(m, s, e).event = e
BY DEF Trigger

Fed ==
  /\ Sides(trigs) \subseteq sides
  /\ \A x \in trigs : \E m \in AllModels : \E s \in Elements(m.search) : \E e \in Events :
       x = Trigger(m, s, e)

Following ==
  \A m \in AllModels : \A s \in Elements(m.search) :
    s.name \in ready => HasTriggers(m, s) /\ Agrees(m, s)

DropOf(p) ==
  request[p].op = "drop" /\ InProgress(p) =>
    /\ \A s \in SearchOf(request[p].models) : s.name \notin ready
    /\ call[p].at = "drop" => \A i \in 1 .. 3 : i \notin call[p].todo =>
         Trigger(Model(p), Model(p).search[call[p].k], EventDown(i)) \notin trigs

\* Sidecars in three parts, before a step and after it.
LEMMA SidecarsAre ==
  /\ Sidecars <=> Fed /\ Following /\ \A p \in Procs : DropOf(p)
  /\ Sidecars' <=> Fed' /\ Following' /\ \A p \in Procs : DropOf(p)'
BY DEF Sidecars, Fed, Following, DropOf

\* The triggers of a sidecar that is ready make it agree with its table on the row that is
\* written, and those of the others leave it alone.
LEMMA WritesFollow ==
  ASSUME SearchNames, Shapes, Sidecars, Writes
  PROVE  Sidecars'
<1>1. PICK t \in Tables, r \in Rows, ev \in Events, present \in BOOLEAN : Write(t, r, ev, present)
  BY DEF Writes
<1>2. UNCHANGED <<request, call, sides, trigs, ready>>
  BY <1>1 DEF Write, ddl
<1>3. PICK on : on = Sides(Fired(t, ev))
  OBVIOUS
<1>4. /\ rows' = [rows EXCEPT ![t] = IF present THEN @ \cup {r} ELSE @ \ {r}]
      /\ indexed' = IF present THEN indexed \cup (on \X {r}) ELSE indexed \ (on \X {r})
      /\ late' = late \ (on \X {r})
  BY <1>1, <1>3 DEF Write
<1>5. ASSUME NEW m \in AllModels, NEW s \in Elements(m.search), s.name \in ready
      PROVE  HasTriggers(m, s)' /\ Agrees(m, s)'
  <2>1. HasTriggers(m, s) /\ Agrees(m, s)
    BY <1>5 DEF Sidecars
  <2>2. HasTriggers(m, s)'
    BY <1>2, <2>1 DEF HasTriggers
  <2>3. m.table \in Tables
    BY AreModels DEF AllModels, IsModel
  <2>4. s.name \in on <=> m.table = t
    <3>1. CASE m.table = t
      <4>1. PICK x : x = Trigger(m, s, ev)
        OBVIOUS
      <4>2. x \in trigs /\ x.table = t /\ x.event = ev /\ x.side = s.name
        BY <2>1, <3>1, <4>1, TriggerIs DEF HasTriggers
      <4> QED
        BY <1>3, <3>1, <4>2 DEF Sides, Fired
    <3>2. CASE m.table # t
      <4> SUFFICES ASSUME s.name \in on PROVE FALSE
        BY <3>2
      <4>1. PICK x \in trigs : x.table = t /\ x.side = s.name
        BY <1>3 DEF Sides, Fired
      <4>2. PICK n \in AllModels : \E y \in Elements(n.search), e \in Events : x = Trigger(n, y, e)
        BY <4>1 DEF Sidecars
      <4>3. PICK y \in Elements(n.search), e \in Events : x = Trigger(n, y, e)
        BY <4>2
      <4>4. n.table = t /\ y.name = s.name
        BY <4>1, <4>3, TriggerIs
      <4> QED
        BY <3>2, <4>4, OneSidecar
    <3> QED
      BY <3>1, <3>2
  <2>5. \A q \in Rows :
          /\ q \in rows'[m.table] <=> IF m.table = t /\ q = r THEN present ELSE q \in rows[m.table]
          /\ <<s.name, q>> \in indexed' <=>
               IF m.table = t /\ q = r THEN present ELSE <<s.name, q>> \in indexed
          /\ <<s.name, q>> \in late' <=> <<s.name, q>> \in late /\ ~(m.table = t /\ q = r)
    <3>1. ASSUME NEW q \in Rows
          PROVE  <<s.name, q>> \in on \X {r} <=> m.table = t /\ q = r
      BY <2>4
    <3>2. ASSUME NEW q \in Rows
          PROVE  q \in rows'[m.table] <=> IF m.table = t /\ q = r THEN present ELSE q \in rows[m.table]
      <4>1. CASE m.table = t
        <5>1. rows'[m.table] = IF present THEN rows[m.table] \cup {r} ELSE rows[m.table] \ {r}
          BY <1>4, <2>3, <4>1 DEF Shapes
        <5> QED
          BY <4>1, <5>1
      <4>2. CASE m.table # t
        <5>1. rows'[m.table] = rows[m.table]
          BY <1>4, <2>3, <4>2 DEF Shapes
        <5> QED
          BY <4>2, <5>1
      <4> QED
        BY <4>1, <4>2
    <3>3. ASSUME NEW q \in Rows
          PROVE  <<s.name, q>> \in indexed' <=>
                   IF m.table = t /\ q = r THEN present ELSE <<s.name, q>> \in indexed
      <4>1. <<s.name, q>> \in indexed' <=>
              IF present THEN <<s.name, q>> \in indexed \/ <<s.name, q>> \in on \X {r}
                ELSE <<s.name, q>> \in indexed /\ ~(<<s.name, q>> \in on \X {r})
        BY <1>4
      <4> QED
        BY <3>1, <4>1
    <3>4. ASSUME NEW q \in Rows
          PROVE  <<s.name, q>> \in late' <=> <<s.name, q>> \in late /\ ~(m.table = t /\ q = r)
      <4>1. <<s.name, q>> \in late' <=> <<s.name, q>> \in late /\ ~(<<s.name, q>> \in on \X {r})
        BY <1>4
      <4> QED
        BY <3>1, <4>1
    <3> QED
      BY <3>2, <3>3, <3>4
  <2>6. Agrees(m, s)'
    BY <2>1, <2>5 DEF Agrees
  <2> QED
    BY <2>2, <2>6
<1>6. AllModels' = AllModels
  BY <1>2 DEF AllModels
<1>7. Following'
  BY <1>2, <1>5, <1>6 DEF Following
<1>8. Fed'
  BY <1>2, <1>6 DEF Sidecars, Fed, Sides
<1>9. \A p \in Procs : DropOf(p)'
  BY <1>2, SidecarsAre DEF DropOf, InProgress, Model
<1> QED
  BY <1>7, <1>8, <1>9, SidecarsAre

\* Steps that touch neither sidecars nor triggers nor rows, nor which sidecars are ready.
LEMMA ApartFollow ==
  ASSUME Shapes, Stages, Sidecars, NEW p \in Procs, Does(p),
         UNCHANGED <<sides, trigs, rows, indexed, ready, late>>,
         call'[p].at = "drop" => \A i \in 1 .. 3 : i \in call'[p].todo
  PROVE  Sidecars'
<1>1. request' = request /\ InProgress(p) /\ \A q \in Procs : q # p => call'[q] = call[q]
  BY OneMoves, Resting
<1>2. AllModels' = AllModels
  BY <1>1 DEF AllModels
<1>3. Fed'
  BY <1>2 DEF Sidecars, Fed, Sides
<1>4. \A m, s : (HasTriggers(m, s) => HasTriggers(m, s)') /\ (Agrees(m, s) => Agrees(m, s)')
  BY DEF HasTriggers, Agrees
<1>5. Following'
  BY <1>2, <1>4 DEF Sidecars, Following
<1>6. ASSUME NEW q \in Procs
      PROVE  DropOf(q)'
  <2>1. CASE q = p
    BY <1>1, <2>1 DEF Sidecars, DropOf
  <2>2. CASE q # p
    <3>1. call'[q] = call[q] /\ Model(q)' = Model(q)
      BY <1>1, <2>2 DEF Model
    <3> QED
      BY <1>1, <3>1 DEF Sidecars, DropOf, InProgress
  <2> QED
    BY <2>1, <2>2
<1> QED
  BY <1>3, <1>5, <1>6, SidecarsAre

\* A drop is alone, so while another process works it has nothing to lose.
LEMMA NoDrop ==
  ASSUME Shapes, Alone, NEW p \in Procs, Migrates(p), InProgress(p), NEW q \in Procs
  PROVE  ~(request[q].op = "drop" /\ InProgress(q))
BY DEF Alone, Exclusive, Migrates

\* A statement of another stage than "drop" leads to no statement of a drop.
LEMMA SendsOn ==
  ASSUME Shapes, Stages, NEW p \in Procs, NEW i, Sends(p, i)
  PROVE  /\ call'[p].todo = call[p].todo \ {i} /\ call'[p].k = call[p].k
         /\ call'[p].m = call[p].m
         /\ call'[p].at = "drop" => call[p].at = "drop"
<1>1. call'[p] = Same(p, Reach(call[p].at, call[p].todo \ {i}), call[p].k, call[p].todo \ {i})
  BY Going1 DEF Sends
<1>2. call[p].at \in DOMAIN After
  BY DEF Sends, Stages, Staged
<1>3. call'[p].at = Reach(call[p].at, call[p].todo \ {i}) /\ call'[p].todo = call[p].todo \ {i}
      /\ call'[p].k = call[p].k /\ call'[p].m = call[p].m
  BY <1>1 DEF Same
<1> QED
  BY <1>2, <1>3, ReachIs, AfterIs

\* A drop that starts leaves none of its sidecars ready.
LEMMA StartFollows ==
  ASSUME Shapes, Sidecars, NEW p \in Procs, Start(p)
  PROVE  Sidecars'
<1>1. /\ request' = request /\ UNCHANGED <<sides, trigs, rows, indexed, late>>
      /\ \A q \in Procs : q # p => call'[q] = call[q]
  BY OneMoves DEF Start, ddl, data
<1>2. AllModels' = AllModels
  BY <1>1 DEF AllModels
<1>3. Fed'
  BY <1>1, <1>2 DEF Sidecars, Fed, Sides
<1>4. /\ ready' \subseteq ready
      /\ request[p].op = "drop" => \A s \in SearchOf(request[p].models) : s.name \notin ready'
  BY DEF Start, SearchOf
<1>5. \A m, s : (HasTriggers(m, s) => HasTriggers(m, s)') /\ (Agrees(m, s) => Agrees(m, s)')
  BY <1>1 DEF HasTriggers, Agrees
<1>6. Following'
  BY <1>2, <1>4, <1>5 DEF Sidecars, Following
<1>7. ASSUME NEW q \in Procs
      PROVE  DropOf(q)'
  <2>1. CASE q = p
    <3>1. PICK b : call'[p] = [at |-> "model", m |-> 1, k |-> 0, todo |-> {}, down |-> {},
                               before |-> {}, clean |-> b]
      BY Starting
    <3>2. call'[p].at = "model"
      BY <3>1
    <3> QED
      BY <1>1, <1>4, <2>1, <3>2 DEF DropOf
  <2>2. CASE q # p
    <3>1. call'[q] = call[q] /\ Model(q)' = Model(q)
      BY <1>1, <2>2 DEF Model
    <3> QED
      BY <1>1, <1>4, <3>1 DEF Sidecars, DropOf, InProgress
  <2> QED
    BY <2>1, <2>2
<1> QED
  BY <1>3, <1>6, <1>7, SidecarsAre

\* The sidecars a call that returns nil has provided have their triggers, and the rows that
\* do not agree at that moment are set down as late.
LEMMA ReturnFollows ==
  ASSUME SearchNames, Shapes, Stages, Alone, Made, Sidecars, NEW p \in Procs, Returns(p)
  PROVE  Sidecars'
<1>1. /\ request' = request /\ UNCHANGED <<sides, trigs, rows, indexed>> /\ Does(p)
      /\ \A q \in Procs : q # p => call'[q] = call[q]
      /\ call[p].at = "end" /\ call[p].m = Len(request[p].models)
  BY OneMoves DEF Returns, Does
<1>2. AllModels' = AllModels
  BY <1>1 DEF AllModels
<1>3. Fed'
  BY <1>1, <1>2 DEF Sidecars, Fed, Sides
<1>4. \A m, s : HasTriggers(m, s) => HasTriggers(m, s)'
  BY <1>1 DEF HasTriggers
<1>5. PICK new : /\ new = IF Migrates(p) THEN Provided(request[p].models) ELSE {}
                 /\ ready' = ready \cup {n[1] : n \in new}
                 /\ late' = late \cup UNION {{<<n[1], r>> : r \in Disagree(n[1], n[2])} :
                                               n \in {x \in new : x[1] \notin ready}}
  BY DEF Returns
<1>6. ASSUME NEW m \in AllModels, NEW s \in Elements(m.search), s.name \in ready
      PROVE  HasTriggers(m, s)' /\ Agrees(m, s)'
  <2>1. HasTriggers(m, s) /\ Agrees(m, s)
    BY <1>6 DEF Sidecars
  <2>2. late \subseteq late'
    BY <1>5
  <2> QED
    BY <1>1, <1>4, <2>1, <2>2 DEF Agrees
<1>7. ASSUME NEW m \in AllModels, NEW s \in Elements(m.search), s.name \in ready', s.name \notin ready
      PROVE  HasTriggers(m, s)' /\ Agrees(m, s)'
  <2>1. PICK n \in new : n[1] = s.name
    BY <1>5, <1>7
  <2>2. Migrates(p) /\ n \in Provided(request[p].models)
    BY <1>5, <2>1
  <2>3. PICK w \in Elements(request[p].models) : \E y \in TriggerSynced(w) : n = <<y.name, w.table>>
    BY <2>2 DEF Provided
  <2>4. PICK y \in TriggerSynced(w) : n = <<y.name, w.table>>
    BY <2>3
  <2>5. y \in Elements(w.search) /\ ~y.hooked /\ dialect = "sqlite"
    BY <2>4 DEF TriggerSynced
  <2>6. Declared(w)
    BY <1>1, <2>2, AllDeclared
  <2>7. HasTriggers(w, y)
    BY <2>5, <2>6 DEF Declared, HasSearch, HasTriggers
  <2>8. w \in AllModels /\ y.name = s.name
    BY <2>1, <2>4, AreModels
  <2>9. w.table = m.table /\ \A e : Trigger(w, y, e) = Trigger(m, s, e)
    BY <2>5, <2>8, OneSidecar
  <2>10. HasTriggers(m, s)
    BY <2>7, <2>9 DEF HasTriggers
  <2>11. n[1] = s.name /\ n[2] = m.table /\ n \in {x \in new : x[1] \notin ready}
    BY <1>7, <2>1, <2>4, <2>9
  <2>12. \A r \in Disagree(s.name, m.table) : <<s.name, r>> \in late'
    <3>1. \A r \in Disagree(n[1], n[2]) : <<n[1], r>> \in late'
      BY <1>5, <2>11
    <3> QED
      BY <2>11, <3>1
  <2>13. Agrees(m, s)'
    <3>1. \A r \in Rows : r \notin Disagree(s.name, m.table) =>
                            (r \in rows[m.table] <=> <<s.name, r>> \in indexed)
      BY DEF Disagree
    <3> QED
      BY <1>1, <2>12, <3>1 DEF Agrees
  <2> QED
    BY <1>4, <2>10, <2>13
<1>8. Following'
  BY <1>2, <1>6, <1>7 DEF Following
<1>9. ASSUME NEW q \in Procs
      PROVE  DropOf(q)'
  <2>1. CASE q = p
    <3>1. call'[p] = Same(p, "nil", call[p].k, {})
      BY Going1 DEF Returns
    <3>2. call'[p].at = "nil"
      BY <3>1 DEF Same
    <3> QED
      BY <2>1, <3>2 DEF DropOf, InProgress, AtRest
  <2>2. CASE q # p /\ Migrates(p)
    <3>1. ~(request[q].op = "drop" /\ InProgress(q))
      BY <1>1, <2>2, Resting, NoDrop
    <3> QED
      BY <1>1, <2>2, <3>1 DEF DropOf, InProgress
  <2>3. CASE q # p /\ ~Migrates(p)
    <3>1. call'[q] = call[q] /\ Model(q)' = Model(q)
      BY <1>1, <2>3 DEF Model
    <3>2. ready' = ready
      BY <1>5, <2>3
    <3> QED
      BY <1>1, <3>1, <3>2 DEF Sidecars, DropOf, InProgress
  <2> QED
    BY <2>1, <2>2, <2>3
<1> QED
  BY <1>3, <1>8, <1>9, SidecarsAre

\* A trigger is made after its sidecar.
LEMMA TriggerFollows ==
  ASSUME Shapes, Stages, Alone, Made, Sidecars, NEW p \in Procs, NEW i \in Nat, MakesTrigger(p, i)
  PROVE  Sidecars'
<1>1. PICK m, c : m = Model(p) /\ c = call[p]
  OBVIOUS
<1>2. PICK s : s = m.search[c.k]
  OBVIOUS
<1>3. /\ c.at = "search" /\ Sends(p, i) /\ i \in 2 .. 4
      /\ trigs' = trigs \cup {Trigger(m, s, EventUp(i))}
      /\ UNCHANGED <<sides, rows, indexed, ready, late>>
  BY <1>1, <1>2 DEF MakesTrigger, Sends
<1>4. Does(p)
  BY DEF Does, Executes
<1>5. /\ request' = request /\ InProgress(p)
      /\ \A q \in Procs : q # p => call'[q] = call[q]
  BY <1>4, OneMoves, Resting
<1>6. Staged(request[p].op, m, c) /\ Migrates(p)
  BY <1>1, <1>3 DEF Stages, Staged, Migrating, Migrates
<1>7. m \in AllModels /\ s \in Elements(m.search) /\ EventUp(i) \in Events
  <2>1. m \in AllModels
    BY <1>1, AreModels
  <2>2. s \in Elements(m.search)
    BY <1>2, <1>3, <1>6 DEF Staged, Elements
  <2>3. i = 2 \/ i = 3 \/ i = 4
    BY <1>3
  <2> QED
    BY <2>1, <2>2, <2>3 DEF EventUp, Events
<1>8. s.name \in sides
  <2>1. 1 \notin c.todo
    BY <1>1, <1>3 DEF Sends
  <2>2. SidecarsOf(m, c)
    BY <1>1, <1>5, <1>6 DEF Made, Reached, Model
  <2> QED
    BY <1>2, <1>3, <2>1, <2>2 DEF SidecarsOf
<1>9. AllModels' = AllModels
  BY <1>5 DEF AllModels
<1>10. Fed'
  <2>1. PICK x : x = Trigger(m, s, EventUp(i))
    OBVIOUS
  <2>2. x.side \in sides /\ trigs' = trigs \cup {x}
    BY <1>3, <1>8, <2>1, TriggerIs
  <2>3. \E n \in AllModels : \E y \in Elements(n.search) : \E e \in Events : x = Trigger(n, y, e)
    BY <1>7, <2>1
  <2> QED
    BY <1>3, <1>9, <2>2, <2>3 DEF Sidecars, Fed, Sides
<1>11. \A n, y : (HasTriggers(n, y) => HasTriggers(n, y)') /\ (Agrees(n, y) => Agrees(n, y)')
  <2>1. trigs \subseteq trigs'
    BY <1>3
  <2> QED
    BY <1>3, <2>1 DEF HasTriggers, Agrees
<1>12. Following'
  BY <1>3, <1>9, <1>11 DEF Sidecars, Following
<1>13. ASSUME NEW q \in Procs
       PROVE  DropOf(q)'
  <2>1. ~(request[q].op = "drop" /\ InProgress(q))
    BY <1>5, <1>6, NoDrop
  <2>2. CASE q = p
    BY <1>5, <1>6, <2>2 DEF DropOf, Migrates
  <2>3. CASE q # p
    BY <1>5, <2>1, <2>3 DEF DropOf, InProgress
  <2> QED
    BY <2>2, <2>3
<1> QED
  BY <1>10, <1>12, <1>13, SidecarsAre

\* A sidecar is made before its triggers.
LEMMA SidecarFollows ==
  ASSUME Shapes, Stages, Sidecars, NEW p \in Procs, MakesSidecar(p)
  PROVE  Sidecars'
<1>1. /\ call[p].at = "search" /\ Sends(p, 1) /\ sides \subseteq sides'
      /\ UNCHANGED <<trigs, rows, indexed, ready, late>>
  BY DEF MakesSidecar, Sends
<1>2. /\ request' = request /\ InProgress(p)
      /\ \A q \in Procs : q # p => call'[q] = call[q]
  BY OneMoves, Resting DEF Does, Executes
<1>3. AllModels' = AllModels
  BY <1>2 DEF AllModels
<1>4. Fed'
  BY <1>1, <1>3 DEF Sidecars, Fed, Sides
<1>5. \A n, y : (HasTriggers(n, y) => HasTriggers(n, y)') /\ (Agrees(n, y) => Agrees(n, y)')
  BY <1>1 DEF HasTriggers, Agrees
<1>6. Following'
  BY <1>1, <1>3, <1>5 DEF Sidecars, Following
<1>7. ASSUME NEW q \in Procs
      PROVE  DropOf(q)'
  <2>1. CASE q = p
    <3>1. call'[p].at # "drop"
      BY <1>1, SendsOn
    <3> QED
      BY <1>1, <1>2, <2>1, <3>1 DEF Sidecars, DropOf
  <2>2. CASE q # p
    <3>1. call'[q] = call[q] /\ Model(q)' = Model(q)
      BY <1>2, <2>2 DEF Model
    <3> QED
      BY <1>1, <1>2, <3>1 DEF Sidecars, DropOf, InProgress
  <2> QED
    BY <2>1, <2>2
<1> QED
  BY <1>4, <1>6, <1>7, SidecarsAre

\* What a drop is at: a sidecar that is not ready any more.
LEMMA DropIs ==
  ASSUME Shapes, Stages, Alone, Sidecars, NEW p \in Procs, call[p].at = "drop", Does(p)
  PROVE  LET m == Model(p)
             s == m.search[call[p].k]
         IN /\ request[p].op = "drop" /\ m \in AllModels /\ s \in Elements(m.search)
            /\ \A x \in SearchOf(request[p].models) : x.name \notin ready
            /\ s.name \notin ready
            /\ \A i \in 1 .. 3 : i \notin call[p].todo => Trigger(m, s, EventDown(i)) \notin trigs
            /\ \A q \in Procs : q # p => ~InProgress(q)
            /\ call[p].todo \subseteq 1 .. 4
<1>1. PICK m, c : m = Model(p) /\ c = call[p]
  OBVIOUS
<1>2. PICK s : s = m.search[c.k]
  OBVIOUS
<1>3. request[p].op = "drop" /\ c.k \in DOMAIN m.search /\ c.todo \subseteq 1 .. 4
  BY <1>1 DEF Stages, Staged
<1>4. InProgress(p)
  BY Resting
<1>5. m \in AllModels /\ s \in Elements(m.search)
  BY <1>1, <1>2, <1>3, AreModels DEF Elements
<1>6. s \in SearchOf(request[p].models)
  BY <1>1, <1>5, AreModels DEF SearchOf
<1>7. /\ \A x \in SearchOf(request[p].models) : x.name \notin ready
      /\ \A i \in 1 .. 3 : i \notin c.todo => Trigger(m, s, EventDown(i)) \notin trigs
  BY <1>1, <1>2, <1>3, <1>4 DEF Sidecars
<1>8. \A q \in Procs : q # p => ~InProgress(q)
  BY <1>3, <1>4 DEF Alone, Exclusive, Migrates
<1> QED
  BY <1>1, <1>2, <1>3, <1>5, <1>6, <1>7, <1>8

\* The triggers go first,
LEMMA DropTriggerFollows ==
  ASSUME Shapes, Stages, Alone, Sidecars, NEW p \in Procs, NEW i \in Nat, DropsTrigger(p, i)
  PROVE  Sidecars'
<1>1. PICK m, c : m = Model(p) /\ c = call[p]
  OBVIOUS
<1>2. PICK s : s = m.search[c.k]
  OBVIOUS
<1>3. PICK x : x = Trigger(m, s, EventDown(i))
  OBVIOUS
<1>4. /\ c.at = "drop" /\ Sends(p, i) /\ i \in 1 .. 3 /\ trigs' = trigs \ {x}
      /\ UNCHANGED <<sides, rows, indexed, ready, late>> /\ Does(p)
  BY <1>1, <1>2, <1>3 DEF DropsTrigger, Sends, Does, Executes
<1>5. /\ request' = request /\ \A q \in Procs : q # p => call'[q] = call[q]
  BY <1>4, OneMoves
<1>6. /\ request[p].op = "drop" /\ s.name \notin ready
      /\ \A y \in SearchOf(request[p].models) : y.name \notin ready
      /\ \A j \in 1 .. 3 : j \notin c.todo => Trigger(m, s, EventDown(j)) \notin trigs
      /\ \A q \in Procs : q # p => ~InProgress(q)
  BY <1>1, <1>2, <1>4, DropIs
<1>7. AllModels' = AllModels
  BY <1>5 DEF AllModels
<1>8. Fed'
  BY <1>4, <1>7 DEF Sidecars, Fed, Sides
<1>9. ASSUME NEW n \in AllModels, NEW y \in Elements(n.search), y.name \in ready'
      PROVE  HasTriggers(n, y)' /\ Agrees(n, y)'
  <2>1. HasTriggers(n, y) /\ Agrees(n, y) /\ y.name # s.name
    BY <1>4, <1>6, <1>9 DEF Sidecars
  <2>2. \A e : Trigger(n, y, e) # x
    BY <1>3, <2>1, TriggerIs
  <2> QED
    BY <1>4, <2>1, <2>2 DEF HasTriggers, Agrees
<1>10. Following'
  BY <1>7, <1>9 DEF Following
<1>11. ASSUME NEW q \in Procs
       PROVE  DropOf(q)'
  <2>1. CASE q = p
    <3>1. /\ call'[p].todo = c.todo \ {i} /\ call'[p].k = c.k /\ call'[p].m = c.m
      BY <1>1, <1>4, SendsOn
    <3>2. Model(p)' = m
      BY <1>1, <1>5, <3>1 DEF Model
    <3>3. \A j \in 1 .. 3 : j \notin c.todo \ {i} => Trigger(m, s, EventDown(j)) \notin trigs'
      BY <1>3, <1>4, <1>6
    <3>4. SearchOf(request[p].models)' = SearchOf(request[p].models)
      BY <1>5
    <3> QED
      BY <1>2, <1>4, <1>5, <1>6, <2>1, <3>1, <3>2, <3>3, <3>4 DEF DropOf
  <2>2. CASE q # p
    BY <1>5, <1>6, <2>2 DEF DropOf, InProgress
  <2> QED
    BY <2>1, <2>2
<1> QED
  BY <1>8, <1>10, <1>11, SidecarsAre

\* and when the sidecar goes they are gone.
LEMMA DropSidecarFollows ==
  ASSUME SearchNames, Shapes, Stages, Alone, Sidecars, NEW p \in Procs, DropsSidecar(p)
  PROVE  Sidecars'
<1>1. PICK m, c : m = Model(p) /\ c = call[p]
  OBVIOUS
<1>2. PICK s : s = m.search[c.k]
  OBVIOUS
<1>4. /\ c.at = "drop" /\ Sends(p, 4) /\ sides' = sides \ {s.name}
      /\ indexed' = {x \in indexed : x[1] # s.name}
      /\ UNCHANGED <<trigs, rows, ready, late>> /\ Does(p)
  BY <1>1, <1>2 DEF DropsSidecar, Sends, Does, Executes
<1>5. /\ request' = request /\ \A q \in Procs : q # p => call'[q] = call[q]
  BY <1>4, OneMoves
<1>6. /\ request[p].op = "drop" /\ s.name \notin ready
      /\ m \in AllModels /\ s \in Elements(m.search)
      /\ \A y \in SearchOf(request[p].models) : y.name \notin ready
      /\ \A j \in 1 .. 3 : j \notin c.todo => Trigger(m, s, EventDown(j)) \notin trigs
      /\ \A q \in Procs : q # p => ~InProgress(q)
  BY <1>1, <1>2, <1>4, DropIs
<1>7. AllModels' = AllModels
  BY <1>5 DEF AllModels
<1>8. \A e \in Events : Trigger(m, s, e) \notin trigs
  <2>1. \A j \in 1 .. 3 : j \notin c.todo
    <3>1. \A j \in c.todo : 4 <= j
      BY <1>1, <1>4 DEF Sends
    <3> QED
      BY <3>1
  <2>2. \A e \in Events : e = EventDown(1) \/ e = EventDown(2) \/ e = EventDown(3)
    BY DEF Events, EventDown
  <2>3. 1 \in 1 .. 3 /\ 2 \in 1 .. 3 /\ 3 \in 1 .. 3
    OBVIOUS
  <2>4. /\ Trigger(m, s, EventDown(1)) \notin trigs
        /\ Trigger(m, s, EventDown(2)) \notin trigs
        /\ Trigger(m, s, EventDown(3)) \notin trigs
    BY <1>6, <2>1, <2>3
  <2> QED
    BY <2>2, <2>4
<1>9. s.name \notin Sides(trigs)
  <2> SUFFICES ASSUME NEW x \in trigs, x.side = s.name PROVE FALSE
    BY DEF Sides
  <2>1. PICK n \in AllModels : \E y \in Elements(n.search), e \in Events : x = Trigger(n, y, e)
    BY DEF Sidecars
  <2>2. PICK y \in Elements(n.search), e \in Events : x = Trigger(n, y, e)
    BY <2>1
  <2>3. y.name = s.name
    BY <2>2, TriggerIs
  <2>4. x = Trigger(m, s, e)
    BY <1>6, <2>2, <2>3, OneSidecar
  <2> QED
    BY <1>8, <2>2, <2>4
<1>10. Fed'
  BY <1>4, <1>7, <1>9 DEF Sidecars, Fed, Sides
<1>11. ASSUME NEW n \in AllModels, NEW y \in Elements(n.search), y.name \in ready'
       PROVE  HasTriggers(n, y)' /\ Agrees(n, y)'
  <2>1. HasTriggers(n, y) /\ Agrees(n, y) /\ y.name # s.name
    BY <1>4, <1>6, <1>11 DEF Sidecars
  <2>2. \A r \in Rows : <<y.name, r>> \in indexed' <=> <<y.name, r>> \in indexed
    BY <1>4, <2>1
  <2> QED
    BY <1>4, <2>1, <2>2 DEF HasTriggers, Agrees
<1>12. Following'
  BY <1>7, <1>11 DEF Following
<1>13. ASSUME NEW q \in Procs
       PROVE  DropOf(q)'
  <2>1. CASE q = p
    <3>1. /\ call'[p].todo = c.todo \ {4} /\ call'[p].k = c.k /\ call'[p].m = c.m
      BY <1>1, <1>4, SendsOn
    <3>2. Model(p)' = m
      BY <1>1, <1>5, <3>1 DEF Model
    <3>3. \A j \in 1 .. 3 : j \notin c.todo \ {4} => Trigger(m, s, EventDown(j)) \notin trigs'
      BY <1>4, <1>6
    <3> QED
      BY <1>2, <1>4, <1>5, <1>6, <2>1, <3>1, <3>2, <3>3 DEF DropOf
  <2>2. CASE q # p
    BY <1>5, <1>6, <2>2 DEF DropOf, InProgress
  <2> QED
    BY <2>1, <2>2
<1> QED
  BY <1>10, <1>12, <1>13, SidecarsAre

\* Every step keeps Sidecars.
LEMMA SidecarsNext ==
  ASSUME SearchNames, IInv, Sidecars, [Next]_vars
  PROVE  Sidecars'
<1> USE DEF IInv
<1>1. CASE Writes
  BY <1>1, WritesFollow
<1>2. CASE UNCHANGED vars
  <2>1. UNCHANGED <<request, call, sides, trigs, ready, rows, indexed, late>>
    BY <1>2 DEF vars, ddl, data
  <2>2. AllModels' = AllModels
    BY <2>1 DEF AllModels
  <2>3. Fed' /\ \A p \in Procs : DropOf(p)'
    BY <2>1, <2>2, SidecarsAre DEF Fed, Sides, DropOf, InProgress, Model
  <2>4. Following'
    BY <2>1, <2>2, SidecarsAre DEF Following, HasTriggers, Agrees
  <2> QED
    BY <2>3, <2>4, SidecarsAre
<1>3. ASSUME NEW p \in Procs, Start(p)
      PROVE  Sidecars'
  BY <1>3, StartFollows
<1>4. ASSUME NEW p \in Procs, Stops(p) \/ Looks(p)
      PROVE  Sidecars'
  <2>1. Does(p) /\ UNCHANGED <<sides, trigs, rows, indexed, ready, late>>
    BY <1>4 DEF Does, Stops, Looks, Quiet, Resolves, Introspects, Lists, Joins, Searches,
                Provides, Reverts, Continues
  <2>2. call'[p].at = "drop" => \A i \in 1 .. 3 : i \in call'[p].todo
    <3>1. ASSUME NEW at, NEW k, NEW todo, Goes(p, Same(p, at, k, todo)),
                 at # "drop" \/ todo = 1 .. 4
          PROVE  call'[p].at = "drop" => \A i \in 1 .. 3 : i \in call'[p].todo
      <4>1. call'[p] = Same(p, at, k, todo)
        BY <3>1, Going1
      <4>2. call'[p].at = at /\ call'[p].todo = todo
        BY <4>1 DEF Same
      <4> QED
        BY <3>1, <4>2
    <3>2. \A at, todo : at \in {"add", "sync", "store", "down", "up"} => Reach(at, todo) # "drop"
      BY AfterIs DEF Reach
    <3>3. CASE Stops(p)
      BY <3>1, <3>3 DEF Stops
    <3>4. CASE Introspects(p)
      BY <3>1, <3>2, <3>4 DEF Introspects
    <3>5. CASE Lists(p) \/ Joins(p) \/ Provides(p) \/ Reverts(p)
      BY <3>1, <3>2, <3>5 DEF Lists, Joins, Provides, Reverts
    <3>6. CASE Searches(p)
      <4>1. CASE \E k : Goes(p, Same(p, IF Migrates(p) THEN "lobs" ELSE "end", k, {}))
        BY <3>1, <4>1
      <4>2. CASE \E l, todo : Goes(p, Same(p, "search", l, todo))
        BY <3>1, <4>2
      <4>3. CASE \E l : Goes(p, Same(p, "drop", l, 1 .. 4))
        BY <3>1, <4>3
      <4> QED
        BY <3>6, <4>1, <4>2, <4>3 DEF Searches
    <3>7. CASE Resolves(p)
      <4>1. CASE \E at \in {"columns", "specs"} : Goes(p, Same(p, at, call[p].k, {}))
        BY <3>1, <4>1
      <4>2. CASE ~(\E at \in {"columns", "specs"} : Goes(p, Same(p, at, call[p].k, {})))
        <5>0. request[p].op = "review"
          BY <3>7, <4>2 DEF Resolves
        <5>1. request'[p].op = "review" /\ Staged(request[p].op, Model(p), call[p])'
          BY <5>0, <2>1, OneMoves, StagedNext
        <5> QED
          BY <5>1 DEF Staged
      <4> QED
        BY <4>1, <4>2
    <3>8. CASE Continues(p)
      <4>1. PICK n, c : n = call[p].m + 1 /\ c = call[p]
        OBVIOUS
      <4>2. call'[p] = [c EXCEPT !.at = "model", !.m = n, !.k = 0] /\ IsCall(c)
        BY <3>8, <4>1, Going1 DEF Continues, Shapes
      <4> QED
        BY <4>2 DEF IsCall
    <3> QED
      BY <1>4, <3>3, <3>4, <3>5, <3>6, <3>7, <3>8 DEF Looks
  <2> QED
    BY <2>1, <2>2, ApartFollow
<1>5. ASSUME NEW p \in Procs, Returns(p)
      PROVE  Sidecars'
  BY <1>5, ReturnFollows
<1>6. ASSUME NEW p \in Procs, Executes(p)
      PROVE  Sidecars'
  <2>1. ASSUME NEW i, Sends(p, i), call[p].at # "drop",
               UNCHANGED <<sides, trigs, rows, indexed>>
        PROVE  Sidecars'
    <3>1. call'[p].at # "drop" /\ UNCHANGED <<ready, late>> /\ Does(p)
      BY <1>6, <2>1, SendsOn DEF Sends, Does
    <3> QED
      BY <2>1, <3>1, ApartFollow
  <2>2. CASE MakesTable(p) \/ MakesJoin(p)
    BY <2>1, <2>2 DEF MakesTable, MakesJoin
  <2>3. CASE \E i \in Nat : AddsColumn(p, i) \/ DropsColumn(p, i) \/ AddsIndex(p, i) \/ MakesStore(p, i)
    BY <2>1, <2>3 DEF AddsColumn, DropsColumn, AddsIndex, MakesStore
  <2> QED
    BY <1>6, <2>2, <2>3, SidecarFollows, TriggerFollows, DropTriggerFollows, DropSidecarFollows
       DEF Executes
<1> QED
  BY <1>1, <1>2, <1>3, <1>4, <1>5, <1>6, NextCases DEF Does

\* SearchFollows: a sidecar that a migration has provided holds the rows of its table from
\* then on, whatever statements, failures and writes come between, until it is dropped; and
\* no trigger is without its sidecar.  Provided that a sidecar of one name is of one table.
THEOREM SidecarsFollow ==
  ASSUME SearchNames
  PROVE  Spec => []SearchFollows
<1>1. Init => Sidecars
  BY DEF Init, Sidecars, Sides, InProgress, Idle, AtRest
<1>2. IInv /\ Sidecars /\ [Next]_vars => Sidecars'
  BY SidecarsNext
<1>3. Sidecars => SearchFollows
  BY DEF Sidecars, SearchFollows, AllModels, Agrees
<1> QED
  BY <1>1, <1>2, <1>3, Inductive, PTL DEF Spec

(***************************************************************************)
(* What is made of a model agrees with the database: ModelsAgree.          *)
(***************************************************************************)

\* A call comes to a model by way of the valid ones before it.
Validated ==
  \A p \in Procs :
    LET models == request[p].models
        c      == call[p]
    IN /\ \A j \in DOMAIN models : j < c.m => models[j].valid
       /\ c.at \notin {"idle", "error", "model"} => models[c.m].valid
       /\ c.at = "nil" => \A j \in DOMAIN models : models[j].valid

NamesOf(S) == {c.name : c \in S}

Reviewing == {"up", "reviewed", "down"}

\* A table has all columns of one of those that make it, or is not there.
Whole(t, S) ==
  S = {} \/ \E m \in ValidModels(request) :
              \/ m.table = t /\ FieldNames(m) \subseteq NamesOf(S)
              \/ \E r \in ManyToMany(m) : r.join = t /\ Elements(JoinColumns(r)) \subseteq NamesOf(S)

Wholes ==
  /\ \A t \in Tables : Whole(t, cols[t])
  /\ \A p \in Procs : call[p].at \in Reviewing =>
       /\ Whole(Model(p).table, call[p].before)
       /\ call[p].before = {} => cols[Model(p).table] = {}

\* A column is of the type a model gives it, or of a junction.
TypedIn(t, c) ==
  \E m \in ValidModels(request) : \/ m.table = t /\ \E f \in Elements(m.fields) : c = Column(f)
                                  \/ \E r \in ManyToMany(m) : r.join = t

Typed == dialect \in Dialects /\ \A t \in Tables : \A c \in cols[t] : TypedIn(t, c)

\* What a call that returned nil has made stays, reviews begin and end with it.
KeptBy(m) ==
  /\ FieldNames(m) \subseteq ColumnNames(m.table)
  /\ \A r \in ManyToMany(m) : cols[r.join] # {}
  /\ \A q \in Procs : call[q].at \in Reviewing /\ Model(q).table = m.table =>
                        FieldNames(m) \subseteq NamesOf(call[q].before)

Kept ==
  \A p \in Procs : Migrates(p) /\ call[p].at = "nil" =>
    \A m \in Elements(request[p].models) : KeptBy(m)

Agreement == Validated /\ Wholes /\ Typed /\ Kept

\* The types of each engine.
LEMMA EmittedAre ==
  /\ DOMAIN DDLType = {"sqlite", "postgres", "mysql", "mssql"}
  /\ Emitted("sqlite") = {"integer", "real", "blob", "timestamp", "text"}
  /\ Emitted("postgres") = {"boolean", "bigint", "integer", "double_precision", "bytea",
                            "timestamptz", "text", "bigserial"}
  /\ Emitted("mysql") = {"tinyint", "bigint", "int", "double", "blob", "datetime", "varchar"}
  /\ Emitted("mssql") = {"bit", "bigint", "int", "float", "varbinary", "datetime2", "nvarchar"}
<1>1. DOMAIN DDLType = {"sqlite", "postgres", "mysql", "mssql"}
  BY DEF DDLType
<1>2. Emitted("sqlite") = {"integer", "real", "blob", "timestamp", "text"}
  BY DEF DDLType, Emitted
<1>3. Emitted("postgres") = {"boolean", "bigint", "integer", "double_precision", "bytea",
                            "timestamptz", "text", "bigserial"}
  BY DEF DDLType, Emitted
<1>4. Emitted("mysql") = {"tinyint", "bigint", "int", "double", "blob", "datetime", "varchar"}
  BY DEF DDLType, Emitted
<1>5. Emitted("mssql") = {"bit", "bigint", "int", "float", "varbinary", "datetime2", "nvarchar"}
  BY DEF DDLType, Emitted
<1> QED
  BY <1>1, <1>2, <1>3, <1>4, <1>5

\* The names those types have, the catalog's included.
Answered(d) == Emitted(d) \cup IF d = "postgres" THEN {"timestamp_with_time_zone"} ELSE {}

\* What the catalog calls a type is a type too, called the same.
LEMMA CatalogIs ==
  /\ dialect \in {"sqlite", "mysql", "mssql"} => \A a \in Emitted(dialect) : Catalog(a) = a
  /\ dialect = "postgres" =>
       \A a \in Answered(dialect) :
         /\ a \notin {"bigserial", "timestamptz"} => Catalog(a) = a
         /\ a = "bigserial" => Catalog(a) = "bigint"
         /\ a = "timestamptz" => Catalog(a) = "timestamp_with_time_zone"
         /\ Catalog(a) \in Answered(dialect) /\ Catalog(Catalog(a)) = Catalog(a)
BY EmittedAre DEF Catalog, Answered

\* No spelling of one is a spelling of another.
LEMMA Spelled ==
  ASSUME dialect \in DOMAIN DDLType
  PROVE  /\ \A S \in Spellings[dialect] : \A x, y \in Answered(dialect) :
              x \in S /\ y \in S => Catalog(x) = Catalog(y)
         /\ \A x \in Answered(dialect) : \E S \in Spellings[dialect] : x \in S /\ Catalog(x) \in S
<1>1. CASE dialect = "sqlite"
  <2>1. Answered(dialect) = {"integer", "real", "blob", "timestamp", "text"}
    BY <1>1, EmittedAre DEF Answered
  <2>2. \A x \in Answered(dialect) : Catalog(x) = x
    BY <1>1, CatalogIs DEF Answered
  <2>3. \A S \in Spellings[dialect] : \A x, y \in Answered(dialect) : x \in S /\ y \in S => x = y
    BY <1>1, <2>1 DEF Spellings
  <2>4. \A x \in Answered(dialect) : \E S \in Spellings[dialect] : x \in S
    BY <1>1, <2>1 DEF Spellings
  <2> QED
    BY <2>2, <2>3, <2>4
<1>2. CASE dialect = "mssql"
  <2>1. Answered(dialect) = {"bit", "bigint", "int", "float", "varbinary", "datetime2", "nvarchar"}
    BY <1>2, EmittedAre DEF Answered
  <2>2. \A x \in Answered(dialect) : Catalog(x) = x
    BY <1>2, CatalogIs DEF Answered
  <2>3. \A S \in Spellings[dialect] : \A x, y \in Answered(dialect) : x \in S /\ y \in S => x = y
    BY <1>2, <2>1 DEF Spellings
  <2>4. \A x \in Answered(dialect) : \E S \in Spellings[dialect] : x \in S
    BY <1>2, <2>1 DEF Spellings
  <2> QED
    BY <2>2, <2>3, <2>4
<1>3. CASE dialect = "mysql"
  <2>1. Answered(dialect) = {"tinyint", "bigint", "int", "double", "blob", "datetime", "varchar"}
    BY <1>3, EmittedAre DEF Answered
  <2>2. \A x \in Answered(dialect) : Catalog(x) = x
    BY <1>3, CatalogIs DEF Answered
  <2>3. \A S \in Spellings[dialect] : \A x, y \in Answered(dialect) : x \in S /\ y \in S => x = y
    BY <1>3, <2>1 DEF Spellings
  <2>4. \A x \in Answered(dialect) : \E S \in Spellings[dialect] : x \in S
    BY <1>3, <2>1 DEF Spellings
  <2> QED
    BY <2>2, <2>3, <2>4
<1>4. CASE dialect = "postgres"
  <2>1. Answered(dialect) = {"boolean", "bigint", "integer", "double_precision", "bytea",
                             "timestamptz", "text", "bigserial", "timestamp_with_time_zone"}
    BY <1>4, EmittedAre DEF Answered
  <2>2. \A S \in Spellings[dialect] : \A x, y \in Answered(dialect) :
          x \in S /\ y \in S => \/ x = y
                                \/ {x, y} \subseteq {"bigint", "bigserial"}
                                \/ {x, y} \subseteq {"timestamptz", "timestamp_with_time_zone"}
    BY <1>4, <2>1 DEF Spellings
  <2>3. \A x \in Answered(dialect) : \E S \in Spellings[dialect] : x \in S
    BY <1>4, <2>1 DEF Spellings
  <2>4. \E S \in Spellings[dialect] : {"bigint", "bigserial"} \subseteq S
    BY <1>4 DEF Spellings
  <2>5. \E S \in Spellings[dialect] : {"timestamptz", "timestamp_with_time_zone"} \subseteq S
    BY <1>4 DEF Spellings
  <2> QED
    BY <1>4, <2>1, <2>2, <2>3, <2>4, <2>5, CatalogIs
<1> QED
  BY <1>1, <1>2, <1>3, <1>4, EmittedAre

\* Of the types DDL is generated with, two that differ in the catalog are a change, and
\* none is a change because of its spelling.
LEMMA Comparing ==
  ASSUME dialect \in DOMAIN DDLType, NEW a \in Emitted(dialect), NEW b \in Emitted(dialect)
  PROVE  TypeChanged(Catalog(a), b) <=> Catalog(b) # Catalog(a)
<1>1. a \in Answered(dialect) /\ b \in Answered(dialect)
  BY DEF Answered
<1>2. Catalog(a) \in Answered(dialect) /\ Catalog(Catalog(a)) = Catalog(a)
  BY <1>1, CatalogIs, EmittedAre DEF Answered
<1> QED
  BY <1>1, <1>2, Spelled DEF TypeChanged

\* A column is not reported for its own type.
LEMMA SameType ==
  ASSUME dialect \in DOMAIN DDLType, NEW a
  PROVE  ~TypeChanged(Catalog(a), a)
<1> DEFINE one(x, y) == \E S \in Spellings[dialect] : x \in S /\ y \in S
<1>1. SUFFICES ASSUME a \in UNION Spellings[dialect] PROVE one(Catalog(a), a)
  BY DEF TypeChanged
<1>2. CASE Catalog(a) = a
  BY <1>1, <1>2
<1>3. CASE a = "bigserial"
  BY <1>1, <1>3, EmittedAre DEF Spellings, Catalog
<1>4. CASE a = "timestamptz"
  BY <1>1, <1>4, EmittedAre DEF Spellings, Catalog
<1>5. CASE a = "varchar" /\ dialect = "postgres"
  BY <1>1, <1>5, EmittedAre DEF Spellings, Catalog
<1> QED
  BY <1>2, <1>3, <1>4, <1>5 DEF Catalog

\* The type of a column is the one the field names, or one DDL is generated with.
LEMMA ColumnTypeIs ==
  ASSUME dialect \in DOMAIN DDLType, NEW f
  PROVE  /\ f.sqlType # Untyped => ColumnType(f) = f.sqlType
         /\ f.sqlType = Untyped /\ f.goType \in DOMAIN DDLType[dialect] =>
              ColumnType(f) \in Emitted(dialect)
<1>1. f.sqlType # Untyped => ColumnType(f) = f.sqlType
  BY Zenon DEF ColumnType, Untyped
<1>2. CASE f.sqlType = Untyped /\ f.auto /\ dialect = "postgres"
  <2>1. ColumnType(f) = "bigserial"
    BY <1>2, Zenon DEF ColumnType, Untyped
  <2> QED
    BY <1>2, <2>1 DEF Emitted
<1>3. CASE f.sqlType = Untyped /\ ~(f.auto /\ dialect = "postgres")
  <2>1. ColumnType(f) = DDLType[dialect][f.goType]
    BY <1>3, Zenon DEF ColumnType, Untyped
  <2> QED
    BY <1>3, <2>1 DEF Emitted
<1> QED
  BY <1>1, <1>2, <1>3

\* How a call moves, from model to model and to its end.
LEMMA Moving ==
  ASSUME Shapes, Stages, NEW p \in Procs, Does(p)
  PROVE  /\ Continues(p) => call'[p].m = call[p].m + 1 /\ call'[p].at = "model"
         /\ ~Continues(p) => call'[p].m = call[p].m
         /\ call'[p].at = "nil" => Returns(p)
         /\ Stops(p) \/ Resolves(p) \/ call[p].at \notin AtRest \cup {"model"}
         /\ Stops(p) => call'[p].at = "error"
<1>1. ASSUME NEW at, NEW k, NEW todo, Goes(p, Same(p, at, k, todo))
      PROVE  call'[p].at = at /\ call'[p].m = call[p].m
  BY <1>1, Going1 DEF Same
<1>2. ASSUME Continues(p)
      PROVE  call'[p].m = call[p].m + 1 /\ call'[p].at = "model"
  <2>1. PICK n, c : n = call[p].m + 1 /\ c = call[p]
    OBVIOUS
  <2>2. call'[p] = [c EXCEPT !.at = "model", !.m = n, !.k = 0] /\ IsCall(c)
    BY <1>2, <2>1, Going1 DEF Continues, Shapes
  <2>3. call'[p].at = "model" /\ call'[p].m = n
    BY <2>2 DEF IsCall
  <2> QED
    BY <2>1, <2>3
<1>3. Stops(p) => call'[p].at = "error" /\ call'[p].m = call[p].m
  BY <1>1 DEF Stops
<1>4. ASSUME NEW at \in DOMAIN After, NEW todo
      PROVE  at \notin AtRest \cup {"model"} /\ Reach(at, todo) # "nil"
  BY <1>4, ReachIs, AfterIs DEF AtRest
<1>5. CASE Executes(p)
  <2>1. ASSUME NEW i, Sends(p, i)
        PROVE  /\ call'[p].m = call[p].m /\ call'[p].at # "nil"
               /\ call[p].at \notin AtRest \cup {"model"}
    <3>1. call[p].at \in DOMAIN After
      BY <2>1 DEF Sends, Stages, Staged
    <3>2. /\ call'[p].at = Reach(call[p].at, call[p].todo \ {i})
          /\ call'[p].m = call[p].m
      BY <1>1, <2>1 DEF Sends
    <3> QED
      BY <1>4, <3>1, <3>2
  <2>2. /\ call'[p].m = call[p].m /\ call'[p].at # "nil"
        /\ call[p].at \notin AtRest \cup {"model"}
    BY <1>5, <2>1 DEF Executes, MakesTable, AddsColumn, DropsColumn, AddsIndex, MakesJoin,
                      MakesSidecar, MakesTrigger, DropsTrigger, DropsSidecar, MakesStore
  <2> QED
    BY <1>2, <1>3, <2>2
<1>6. CASE Resolves(p)
  <2>1. call'[p].m = call[p].m /\ call'[p].at # "nil"
    <3>1. CASE \/ Goes(p, Same(p, "columns", call[p].k, {}))
               \/ Goes(p, Same(p, "specs", call[p].k, {}))
      BY <1>1, <3>1
    <3>2. CASE ~(\/ Goes(p, Same(p, "columns", call[p].k, {}))
                 \/ Goes(p, Same(p, "specs", call[p].k, {})))
      <4> DEFINE new == Added(Model(p))
      <4>1. call'[p] = [Same(p, Reach("up", new), call[p].k, new)
                          EXCEPT !.down = new, !.before = cols[Model(p).table]]
        BY <1>6, <3>2, Going1 DEF Resolves
      <4>2. PICK at, b, n : at = Reach("up", new) /\ b = cols[Model(p).table] /\ n = new
        OBVIOUS
      <4>3. at # "nil"
        BY <1>4, <4>2, AfterIs
      <4> HIDE DEF new
      <4>4. call'[p] = [[at |-> at, m |-> call[p].m, k |-> call[p].k, todo |-> n,
                         down |-> call[p].down, before |-> call[p].before,
                         clean |-> call[p].clean] EXCEPT !.down = n, !.before = b]
        BY <4>1, <4>2 DEF Same
      <4>5. call'[p].at = at /\ call'[p].m = call[p].m
        BY <4>4
      <4> QED
        BY <4>3, <4>5
    <3> QED
      BY <3>1, <3>2
  <2> QED
    BY <1>2, <1>3, <1>6, <2>1
<1>7. CASE \/ Introspects(p) \/ Lists(p) \/ Joins(p) \/ Searches(p) \/ Provides(p) \/ Reverts(p)
  <2>1. \E at, k, todo : Goes(p, Same(p, at, k, todo)) /\ at # "nil"
    BY <1>4, <1>7, AfterIs DEF Introspects, Lists, Joins, Searches, Provides, Reverts
  <2>2. call[p].at \notin AtRest \cup {"model"}
    BY <1>7 DEF Introspects, Lists, Joins, Searches, Provides, Reverts, AtRest
  <2> QED
    BY <1>1, <1>2, <1>3, <2>1, <2>2
<1>8. CASE Continues(p)
  BY <1>2, <1>3, <1>8 DEF Continues, AtRest
<1>9. CASE Returns(p)
  <2>1. call'[p].m = call[p].m /\ call[p].at = "end"
    BY <1>1, <1>9 DEF Returns
  <2> QED
    BY <1>2, <1>3, <1>9, <2>1 DEF AtRest
<1>10. CASE Stops(p)
  BY <1>2, <1>3, <1>10
<1> QED
  BY <1>5, <1>6, <1>7, <1>8, <1>9, <1>10 DEF Does, Looks

\* A call that works on a model works on a valid one.
LEMMA WorkingIsValid ==
  ASSUME Shapes, Validated, NEW p \in Procs, call[p].at \notin AtRest \cup {"model"}
  PROVE  Model(p) \in ValidModels(request)
<1>1. Model(p).valid
  BY DEF Validated, Model, AtRest
<1> QED
  BY <1>1, Requests DEF ValidModels

\* SchemaOf is checked before anything is done for a model.
LEMMA ValidatedNext ==
  ASSUME Shapes, Stages, Validated, Next
  PROVE  Validated'
<1> SUFFICES ASSUME NEW q \in Procs
             PROVE  LET models == request'[q].models
                        c      == call'[q]
                    IN /\ \A j \in DOMAIN models : j < c.m => models[j].valid
                       /\ c.at \notin {"idle", "error", "model"} => models[c.m].valid
                       /\ c.at = "nil" => \A j \in DOMAIN models : models[j].valid
  BY DEF Validated
<1>1. CASE call'[q] = call[q] /\ request' = request
  BY <1>1 DEF Validated
<1>2. CASE Start(q)
  <2>1. call'[q].m = 1 /\ call'[q].at = "model" /\ request' = request
    <3>1. PICK b : call'[q] = [at |-> "model", m |-> 1, k |-> 0, todo |-> {}, down |-> {},
                               before |-> {}, clean |-> b]
      BY <1>2, Starting
    <3> QED
      BY <1>2, <3>1, OneMoves
  <2>2. \A j \in DOMAIN request[q].models : ~(j < 1)
    BY Requests
  <2> QED
    BY <2>1, <2>2
<1>3. CASE Does(q)
  <2>1. PICK models, c, d : models = request[q].models /\ c = call[q] /\ d = call'[q]
    OBVIOUS
  <2>2. /\ request' = request /\ c.m \in DOMAIN models
        /\ DOMAIN models = 1 .. Len(models) /\ Len(models) \in Nat
        /\ Model(q) = models[c.m]
    BY <1>3, <2>1, OneMoves, Requests DEF Shapes, Model
  <2>3. /\ \A j \in DOMAIN models : j < c.m => models[j].valid
        /\ c.at \notin {"idle", "error", "model"} => models[c.m].valid
    BY <2>1 DEF Validated
  <2>4. d.at = "error" \/ models[c.m].valid
    BY <1>3, <2>1, <2>2, <2>3, Moving DEF Resolves, AtRest
  <2>5. CASE Continues(q)
    <3>1. d.m = c.m + 1 /\ d.at = "model" /\ c.at = "end"
      BY <1>3, <2>1, <2>5, Moving DEF Continues
    <3>2. \A j \in DOMAIN models : j < d.m => j < c.m \/ j = c.m
      BY <2>2, <3>1
    <3> QED
      BY <2>1, <2>2, <2>3, <3>1, <3>2
  <2>6. CASE ~Continues(q)
    <3>1. d.m = c.m
      BY <1>3, <2>1, <2>6, Moving
    <3>2. CASE d.at = "nil"
      <4>1. c.m = Len(models) /\ models[c.m].valid
        BY <1>3, <2>1, <2>4, <3>2, Moving DEF Returns
      <4>2. \A j \in DOMAIN models : j < c.m \/ j = c.m
        BY <2>2, <4>1
      <4> QED
        BY <2>1, <2>2, <2>3, <3>1, <4>1, <4>2
    <3>3. CASE d.at # "nil"
      BY <2>1, <2>2, <2>3, <2>4, <3>1, <3>3
    <3> QED
      BY <3>2, <3>3
  <2> QED
    BY <2>5, <2>6
<1>4. ASSUME NEW p \in Procs, Start(p) \/ Does(p), p # q
      PROVE  call'[q] = call[q] /\ request' = request
  BY <1>4, OneMoves
<1>5. Writes => call'[q] = call[q] /\ request' = request
  BY DEF Writes, Write
<1> QED
  BY <1>1, <1>2, <1>3, <1>4, <1>5, NextCases

\* What a step of a call makes of the columns.
LEMMA ColumnsMove ==
  ASSUME NEW p \in Procs, Does(p)
  PROVE  \/ cols' = cols
         \/ MakesTable(p) \/ MakesJoin(p)
         \/ \E i \in Nat : AddsColumn(p, i) \/ DropsColumn(p, i)
<1>1. Stops(p) \/ Looks(p) \/ Returns(p) => cols' = cols
  BY DEF Stops, Looks, Returns, Quiet, Resolves, Introspects, Lists, Joins, Searches, Provides,
         Reverts, Continues
<1>2. Executes(p) => \/ cols' = cols
                     \/ MakesTable(p) \/ MakesJoin(p)
                     \/ \E i \in Nat : AddsColumn(p, i) \/ DropsColumn(p, i)
  BY DEF Executes, MakesSidecar, DropsSidecar, AddsIndex, MakesTrigger, DropsTrigger, MakesStore
<1> QED
  BY <1>1, <1>2 DEF Does

\* How a call comes to be in a review.
LEMMA ReviewMoves ==
  ASSUME Shapes, Stages, NEW p \in Procs, Does(p), call'[p].at \in Reviewing
  PROVE  /\ call'[p].m = call[p].m
         /\ \/ Resolves(p) /\ call'[p].before = cols[Model(p).table] /\ cols' = cols
            \/ /\ call[p].at \in Reviewing /\ call'[p].before = call[p].before
               /\ cols' = cols \/ \E i \in Nat : AddsColumn(p, i) \/ DropsColumn(p, i)
<1>1. ASSUME NEW at, NEW k, NEW todo, Goes(p, Same(p, at, k, todo))
      PROVE  call'[p].at = at /\ call'[p].before = call[p].before
  BY <1>1, Going1 DEF Same
<1>2. call'[p].m = call[p].m
  BY Moving DEF Reviewing
<1>3. ASSUME NEW at \in DOMAIN After, NEW todo, Reach(at, todo) \in Reviewing
      PROVE  at \in {"up", "down"}
  BY <1>3, ReachIs, AfterIs DEF Reviewing
<1>4. CASE Executes(p)
  <2>1. ASSUME NEW i, Sends(p, i)
        PROVE  call[p].at \in {"up", "down"} /\ call'[p].before = call[p].before
    <3>1. call[p].at \in DOMAIN After
      BY <2>1 DEF Sends, Stages, Staged
    <3>2. /\ call'[p].at = Reach(call[p].at, call[p].todo \ {i})
          /\ call'[p].before = call[p].before
      BY <1>1, <2>1 DEF Sends
    <3> QED
      BY <1>3, <3>1, <3>2
  <2>2. CASE \E i \in Nat : AddsColumn(p, i) \/ DropsColumn(p, i)
    BY <1>2, <2>1, <2>2 DEF AddsColumn, DropsColumn, Reviewing
  <2>3. CASE ~(\E i \in Nat : AddsColumn(p, i) \/ DropsColumn(p, i))
    BY <1>4, <2>1, <2>3 DEF Executes, MakesTable, AddsIndex, MakesJoin, MakesSidecar,
       MakesTrigger, DropsTrigger, DropsSidecar, MakesStore
  <2> QED
    BY <2>2, <2>3
<1>5. CASE Resolves(p)
  <2>1. ~(\/ Goes(p, Same(p, "columns", call[p].k, {})) \/ Goes(p, Same(p, "specs", call[p].k, {})))
    BY <1>1 DEF Reviewing
  <2> DEFINE new == Added(Model(p))
  <2>2. call'[p] = [Same(p, Reach("up", new), call[p].k, new)
                      EXCEPT !.down = new, !.before = cols[Model(p).table]]
    BY <1>5, <2>1, Going1 DEF Resolves
  <2>3. PICK at, b, n : at = Reach("up", new) /\ b = cols[Model(p).table] /\ n = new
    OBVIOUS
  <2> HIDE DEF new
  <2>4. call'[p] = [[at |-> at, m |-> call[p].m, k |-> call[p].k, todo |-> n,
                     down |-> call[p].down, before |-> call[p].before,
                     clean |-> call[p].clean] EXCEPT !.down = n, !.before = b]
    BY <2>2, <2>3 DEF Same
  <2>5. call'[p].before = b
    BY <2>4
  <2> QED
    BY <1>2, <1>5, <2>3, <2>5 DEF Resolves, Quiet
<1>6. CASE Reverts(p)
  <2>1. call[p].at \in Reviewing /\ cols' = cols
    BY <1>6 DEF Reverts, Reviewing, Quiet
  <2>2. call'[p].before = call[p].before
    BY <1>1, <1>6 DEF Reverts
  <2> QED
    BY <1>2, <2>1, <2>2
<1>7. ~(Introspects(p) \/ Lists(p) \/ Joins(p) \/ Searches(p) \/ Provides(p))
  <2> SUFFICES ASSUME Introspects(p) \/ Lists(p) \/ Joins(p) \/ Searches(p) \/ Provides(p)
               PROVE  FALSE
    OBVIOUS
  <2>1. \E at, k, todo : Goes(p, Same(p, at, k, todo)) /\ at \notin Reviewing
    BY <1>3, AfterIs DEF Introspects, Lists, Joins, Searches, Provides, Reviewing
  <2> QED
    BY <1>1, <2>1
<1>8. ~Continues(p) /\ ~Stops(p)
  BY Moving DEF Reviewing
<1>9. ~Returns(p)
  BY <1>1 DEF Returns, Reviewing
<1> QED
  BY <1>4, <1>5, <1>6, <1>7, <1>8, <1>9 DEF Does, Looks

\* Nobody is in a review beside a call that moves.
LEMMA ReviewAlone ==
  ASSUME Shapes, Stages, Alone, NEW p \in Procs, NEW q \in Procs, q # p, Start(p) \/ Does(p)
  PROVE  call'[q].at \notin Reviewing
<1> SUFFICES ASSUME call'[q].at \in Reviewing PROVE FALSE
  OBVIOUS
<1>1. call[q].at \in Reviewing
  BY OneMoves
<1>2. Exclusive(q) /\ InProgress(q)
  BY <1>1 DEF Stages, Staged, Exclusive, Migrates, InProgress, AtRest, Reviewing
<1>3. CASE Start(p)
  BY <1>2, <1>3 DEF Start, InProgress
<1>4. CASE Does(p)
  BY <1>2, <1>4, Resting DEF Alone
<1> QED
  BY <1>3, <1>4

\* More columns are no less.
LEMMA StillWhole ==
  ASSUME NEW t, NEW S, NEW T, Whole(t, S), S \subseteq T, S = {} => T = {}
  PROVE  Whole(t, T)
<1>1. NamesOf(S) \subseteq NamesOf(T)
  BY DEF NamesOf
<1> QED
  BY <1>1 DEF Whole

\* Columns stay, except those a review takes back to the columns before it.
LEMMA ColumnsStay ==
  ASSUME IInv, Wholes, NEW p \in Procs, Does(p), NEW t \in Tables
  PROVE  \/ cols[t] \subseteq cols'[t]
         \/ /\ call[p].at \in Reviewing /\ Model(p).table = t
            /\ call[p].before \subseteq cols'[t]
            /\ Whole(t, call[p].before)
            /\ call[p].before = {} => cols[t] = {} /\ cols'[t] = {}
<1>0. Shapes /\ Stages /\ Reviews /\ IsModel(Model(p))
  BY Requests DEF IInv
<1>1. CASE cols' = cols
  BY <1>1
<1>2. CASE MakesTable(p)
  BY <1>0, <1>2 DEF MakesTable, Shapes, IsModel
<1>3. CASE MakesJoin(p)
  BY <1>0, <1>3 DEF MakesJoin, Shapes
<1>4. ASSUME NEW i \in Nat, AddsColumn(p, i) PROVE cols[t] \subseteq cols'[t]
  BY <1>0, <1>4 DEF AddsColumn, Shapes, IsModel
<1>5. ASSUME NEW i \in Nat, DropsColumn(p, i), Model(p).table # t PROVE cols'[t] = cols[t]
  BY <1>0, <1>5 DEF DropsColumn, Shapes
<1>6. ASSUME NEW i \in Nat, DropsColumn(p, i), Model(p).table = t
      PROVE  /\ call[p].at \in Reviewing /\ call[p].before \subseteq cols'[t]
             /\ Whole(t, call[p].before)
             /\ call[p].before = {} => cols[t] = {} /\ cols'[t] = {}
  <2>1. call[p].at \in Reviewing
    BY <1>6 DEF DropsColumn, Reviewing
  <2>2. Whole(t, call[p].before) /\ (call[p].before = {} => cols[t] = {})
    BY <1>6, <2>1 DEF Wholes
  <2>3. call[p].before \subseteq cols'[t]
    BY <1>0, <1>6, Dropping
  <2>4. cols'[t] \subseteq cols[t]
    BY <1>0, <1>6 DEF DropsColumn, Shapes, IsModel
  <2> QED
    BY <2>1, <2>2, <2>3, <2>4
<1> QED
  BY <1>1, <1>2, <1>3, <1>4, <1>5, <1>6, ColumnsMove

\* A table that is made is whole.
LEMMA TablesWhole ==
  ASSUME IInv, Validated, Wholes, NEW p \in Procs, Does(p), NEW t \in Tables
  PROVE  Whole(t, cols'[t])
<1>0. Shapes /\ Stages /\ IsModel(Model(p)) /\ Whole(t, cols[t])
  BY Requests DEF IInv, Wholes
<1>1. CASE cols[t] # {} \/ cols'[t] = {} \/ cols'[t] = cols[t]
  <2>1. CASE cols[t] \subseteq cols'[t] /\ cols[t] # {}
    BY <1>0, <2>1, StillWhole
  <2>2. CASE call[p].before # {} /\ Whole(t, call[p].before) /\ call[p].before \subseteq cols'[t]
    BY <2>2, StillWhole
  <2>3. CASE cols'[t] = {}
    BY <2>3 DEF Whole
  <2>4. CASE cols'[t] = cols[t]
    BY <1>0, <2>4
  <2> QED
    BY <1>1, <2>1, <2>2, <2>3, <2>4, ColumnsStay
<1>2. CASE cols[t] = {} /\ cols'[t] # cols[t]
  <2>1. \A i \in Nat : ~AddsColumn(p, i) /\ ~DropsColumn(p, i)
    BY <1>0, <1>2 DEF AddsColumn, DropsColumn, Shapes
  <2>2. CASE MakesTable(p)
    <3>1. PICK m : m = Model(p)
      OBVIOUS
    <3>2. m \in ValidModels(request)
      BY <1>0, <2>2, <3>1, WorkingIsValid DEF MakesTable, AtRest
    <3>3. t = m.table /\ cols'[t] = {Column(f) : f \in Elements(m.fields)}
      BY <1>0, <1>2, <2>2, <3>1 DEF MakesTable, Shapes, IsModel
    <3>4. FieldNames(m) \subseteq NamesOf(cols'[t])
      BY <3>3, ColumnIs DEF FieldNames, NamesOf
    <3> QED
      BY <3>2, <3>3, <3>4 DEF Whole
  <2>3. CASE MakesJoin(p)
    <3>1. PICK m, r : m = Model(p) /\ r = m.relations[call[p].k]
      OBVIOUS
    <3>2. m \in ValidModels(request)
      BY <1>0, <2>3, <3>1, WorkingIsValid DEF MakesJoin, AtRest
    <3>3. call[p].k \in Junctions(m)
      BY <1>0, <2>3, <3>1 DEF MakesJoin, Stages, Staged
    <3>4. r \in ManyToMany(m)
      BY <3>1, <3>3 DEF ManyToMany, Junctions, Elements
    <3>5. /\ t = r.join
          /\ cols'[t] = {[name |-> c, type |-> "key"] : c \in {r.ownerFK, r.targetFK}}
      BY <1>0, <1>2, <2>3, <3>1 DEF MakesJoin, Shapes
    <3>6. Elements(JoinColumns(r)) \subseteq NamesOf(cols'[t])
      <4>1. Elements(JoinColumns(r)) = {r.ownerFK, r.targetFK}
        <5>1. DOMAIN <<r.ownerFK, r.targetFK>> = {1, 2}
          OBVIOUS
        <5> QED
          BY <5>1 DEF Elements, JoinColumns
      <4>2. PICK S : S = cols'[t]
        OBVIOUS
      <4>3. \A c \in {r.ownerFK, r.targetFK} : [name |-> c, type |-> "key"] \in S
        BY <3>5, <4>2
      <4>4. \A c \in {r.ownerFK, r.targetFK} : c \in NamesOf(S)
        BY <4>3 DEF NamesOf
      <4> QED
        BY <4>1, <4>2, <4>4
    <3> QED
      BY <3>2, <3>4, <3>5, <3>6 DEF Whole
  <2> QED
    BY <1>2, <2>1, <2>2, <2>3, ColumnsMove
<1> QED
  BY <1>1, <1>2

\* A review starts from a whole table, and without one its script is refused.
LEMMA BeforeWhole ==
  ASSUME IInv, Wholes, NEW p \in Procs, Does(p), call'[p].at \in Reviewing
  PROVE  /\ Whole(Model(p).table, call'[p].before)
         /\ call'[p].before = {} => cols'[Model(p).table] = {}
         /\ Model(p)' = Model(p)
<1>0. Shapes /\ Stages /\ IsModel(Model(p)) /\ request' = request
  BY Requests, OneMoves DEF IInv
<1>1. PICK m : m = Model(p) /\ m.table \in Tables
  BY <1>0 DEF IsModel
<1>2. Model(p)' = m
  BY <1>0, <1>1, ReviewMoves DEF Model
<1>3. CASE call'[p].before = cols[m.table] /\ cols' = cols
  BY <1>1, <1>2, <1>3 DEF Wholes
<1>4. CASE call[p].at \in Reviewing /\ call'[p].before = call[p].before
  <2>1. Whole(m.table, call[p].before) /\ (call[p].before = {} => cols[m.table] = {})
    BY <1>1, <1>4 DEF Wholes
  <2>2. CASE \E i \in Nat : AddsColumn(p, i)
    BY <1>1, <1>2, <1>4, <2>1, <2>2 DEF AddsColumn
  <2>3. CASE \E i \in Nat : DropsColumn(p, i)
    <3>1. cols'[m.table] \subseteq cols[m.table]
      BY <1>0, <1>1, <2>3 DEF DropsColumn, Shapes
    <3> QED
      BY <1>1, <1>2, <1>4, <2>1, <3>1
  <2>4. CASE cols' = cols
    BY <1>1, <1>2, <1>4, <2>1, <2>4
  <2> QED
    BY <1>0, <1>4, <2>2, <2>3, <2>4, ReviewMoves, <1>1, <1>2, <2>1
<1> QED
  BY <1>0, <1>1, <1>3, <1>4, ReviewMoves

\* Where nothing of it moves, the agreement stays.
LEMMA AgreementStays ==
  ASSUME Agreement, UNCHANGED <<dialect, request, call, cols>>
  PROVE  Agreement'
<1>1. Validated'
  BY DEF Agreement, Validated
<1>2. Wholes'
  <2>1. \A t, S : Whole(t, S) => Whole(t, S)'
    BY DEF Whole, ValidModels
  <2> QED
    BY <2>1 DEF Agreement, Wholes, Model
<1>3. \A t, c : TypedIn(t, c) => TypedIn(t, c)'
  <2>1. \A f : Column(f)' = Column(f)
    BY Zenon DEF Column, ColumnType, Catalog
  <2> QED
    BY <2>1 DEF TypedIn, ValidModels
<1>4. Typed'
  BY <1>3 DEF Agreement, Typed
<1>5. Kept'
  BY DEF Agreement, Kept, KeptBy, ColumnNames, Migrates, Model
<1> QED
  BY <1>1, <1>2, <1>4, <1>5 DEF Agreement

\* What the start of a call leaves, and that nobody is in a review beside it.
LEMMA StartIs ==
  ASSUME Shapes, Stages, Alone, NEW p \in Procs, Start(p)
  PROVE  /\ cols' = cols /\ request' = request /\ dialect' = dialect
         /\ call'[p].at = "model"
         /\ \A q \in Procs : call'[q].at \notin Reviewing
<1>1. cols' = cols
  BY DEF Start, ddl
<1>2. call'[p].at = "model"
  <2>1. PICK b : call'[p] = [at |-> "model", m |-> 1, k |-> 0, todo |-> {}, down |-> {},
                             before |-> {}, clean |-> b]
    BY Starting
  <2> QED
    BY <2>1
<1>3. \A q \in Procs : call'[q].at \notin Reviewing
  BY <1>2, ReviewAlone DEF Reviewing
<1> QED
  BY <1>1, <1>2, <1>3, OneMoves

\* Tables stay whole, and reviews with them.
LEMMA WholesNext ==
  ASSUME IInv, Validated, Wholes, NEW p \in Procs, Start(p) \/ Does(p)
  PROVE  Wholes'
<1>0. Shapes /\ Stages /\ Alone
  BY DEF IInv
<1>1. ASSUME NEW t, NEW S, request' = request, Whole(t, S)
      PROVE  Whole(t, S)'
  BY <1>1 DEF Whole, ValidModels
<1>2. CASE Start(p)
  BY <1>0, <1>2, StartIs DEF Wholes, Whole, ValidModels
<1>3. CASE Does(p)
  <2>1. request' = request
    BY <1>0, <1>3, OneMoves
  <2>2. ASSUME NEW t \in Tables PROVE Whole(t, cols[t])'
    <3>1. PICK S : S = cols'[t]
      OBVIOUS
    <3>2. Whole(t, S)
      BY <1>3, <3>1, TablesWhole
    <3> QED
      BY <2>1, <3>1, <3>2 DEF Whole, ValidModels
  <2>3. ASSUME NEW q \in Procs, call'[q].at \in Reviewing
        PROVE  /\ Whole(Model(q).table, call[q].before)'
               /\ call'[q].before = {} => cols'[Model(q)'.table] = {}
    <3>1. q = p
      BY <1>0, <1>3, <2>3, ReviewAlone
    <3>2. PICK t, S : t = Model(p).table /\ S = call'[p].before
      OBVIOUS
    <3>3. Whole(t, S) /\ (S = {} => cols'[t] = {}) /\ Model(p)'.table = t
      BY <1>3, <2>3, <3>1, <3>2, BeforeWhole
    <3> QED
      BY <2>1, <3>1, <3>2, <3>3 DEF Whole, ValidModels
  <2> QED
    BY <2>2, <2>3 DEF Wholes
<1> QED
  BY <1>2, <1>3

\* A column is made with the type a model gives it.
LEMMA TypedNext ==
  ASSUME IInv, Validated, Typed, NEW p \in Procs, Start(p) \/ Does(p)
  PROVE  Typed'
<1>0. Shapes /\ Stages /\ Alone /\ IsModel(Model(p))
  BY Requests DEF IInv
<1>1. request' = request /\ dialect' = dialect
  BY <1>0, OneMoves
<1>2. \A t, c : TypedIn(t, c) => TypedIn(t, c)'
  <2>1. \A f : Column(f)' = Column(f)
    BY <1>1, Zenon DEF Column, ColumnType, Catalog
  <2> QED
    BY <1>1, <2>1 DEF TypedIn, ValidModels
<1>3. SUFFICES ASSUME NEW t \in Tables, NEW c \in cols'[t], c \notin cols[t]
               PROVE  TypedIn(t, c)
  BY <1>1, <1>2 DEF Typed
<1>4. Does(p) /\ cols' # cols
  BY <1>0, <1>3, StartIs
<1>5. PICK m : m = Model(p)
  OBVIOUS
<1>6. call[p].at \notin AtRest \cup {"model"} => m \in ValidModels(request)
  BY <1>0, <1>5, WorkingIsValid
<1>7. CASE MakesTable(p)
  <2>1. m \in ValidModels(request)
    BY <1>6, <1>7 DEF MakesTable, AtRest
  <2>2. t = m.table /\ c \in {Column(f) : f \in Elements(m.fields)}
    BY <1>0, <1>3, <1>5, <1>7 DEF MakesTable, Shapes, IsModel
  <2> QED
    BY <2>1, <2>2 DEF TypedIn
<1>8. CASE \E i \in Nat : AddsColumn(p, i)
  <2>1. PICK i \in Nat : AddsColumn(p, i)
    BY <1>8
  <2>2. m \in ValidModels(request)
    BY <1>6, <2>1 DEF AddsColumn, AtRest
  <2>3. t = m.table /\ c = Column(m.fields[i]) /\ i \in DOMAIN m.fields
    BY <1>0, <1>3, <1>5, <2>1 DEF AddsColumn, Shapes, IsModel
  <2>4. m.fields[i] \in Elements(m.fields)
    BY <2>3 DEF Elements
  <2> QED
    BY <2>2, <2>3, <2>4 DEF TypedIn
<1>9. CASE MakesJoin(p)
  <2>1. PICK r : r = m.relations[call[p].k]
    OBVIOUS
  <2>2. m \in ValidModels(request)
    BY <1>6, <1>9 DEF MakesJoin, AtRest
  <2>3. call[p].k \in Junctions(m)
    BY <1>0, <1>5, <1>9 DEF MakesJoin, Stages, Staged
  <2>4. r \in ManyToMany(m)
    BY <2>1, <2>3 DEF ManyToMany, Junctions, Elements
  <2>5. t = r.join
    BY <1>0, <1>3, <1>5, <1>9, <2>1 DEF MakesJoin, Shapes
  <2> QED
    BY <2>2, <2>4, <2>5 DEF TypedIn
<1>10. \A i \in Nat : ~DropsColumn(p, i)
  BY <1>0, <1>3 DEF DropsColumn, Shapes, IsModel
<1> QED
  BY <1>4, <1>7, <1>8, <1>9, <1>10, ColumnsMove

\* A junction table is one of the tables.
LEMMA JoinsAreTables ==
  ASSUME NEW m, IsModel(m), NEW r \in ManyToMany(m)
  PROVE  r.join \in Tables /\ \E i \in Junctions(m) : m.relations[i] = r
<1>1. PICK i \in DOMAIN m.relations : m.relations[i] = r /\ r.kind = "many-to-many"
  BY DEF ManyToMany, Elements
<1> QED
  BY <1>1 DEF IsModel, Junctions

\* What a call has returned nil for stays: it is there then, and later a review takes
\* back only what it has added.
LEMMA KeptNext ==
  ASSUME IInv, Wholes, Kept, NEW p \in Procs, Start(p) \/ Does(p)
  PROVE  Kept'
<1>0. Shapes /\ Stages /\ Alone /\ Made
  BY DEF IInv
<1>1. request' = request /\ \A q \in Procs : q # p => call'[q] = call[q]
  BY <1>0, OneMoves
<1>2. SUFFICES ASSUME NEW q \in Procs, Migrates(q), call'[q].at = "nil",
                      NEW m \in Elements(request[q].models)
               PROVE  KeptBy(m)'
  BY <1>1 DEF Kept, Migrates
<1>3. IsModel(m)
  BY <1>0, Requests
<1>4. CASE q = p
  <2>1. Does(p)
    BY <1>0, <1>2, <1>4, StartIs
  <2>2. Returns(p)
    BY <1>0, <1>2, <1>4, <2>1, Moving
  <2>3. cols' = cols /\ Declared(m)
    BY <1>0, <1>2, <1>4, <2>2, AllDeclared DEF Returns
  <2>4. FieldNames(m) \subseteq ColumnNames(m.table)
    BY <2>3 DEF Declared, FieldNames
  <2>5. \A r \in ManyToMany(m) : cols[r.join] # {}
    BY <1>3, <2>3, JoinsAreTables DEF Declared
  <2>6. \A o \in Procs : call'[o].at \notin Reviewing
    BY <1>0, <1>2, <1>4, ReviewAlone DEF Reviewing
  <2> QED
    BY <2>3, <2>4, <2>5, <2>6 DEF KeptBy, ColumnNames
<1>5. CASE q # p
  <2>1. KeptBy(m)
    BY <1>1, <1>2, <1>5 DEF Kept
  <2>2. CASE Start(p)
    BY <1>0, <2>1, <2>2, StartIs DEF KeptBy, ColumnNames
  <2>3. CASE Does(p)
    <3>1. FieldNames(m) \subseteq {c.name : c \in cols'[m.table]}
      <4>1. m.table \in Tables
        BY <1>3 DEF IsModel
      <4>2. CASE cols[m.table] \subseteq cols'[m.table]
        BY <2>1, <4>2 DEF KeptBy, ColumnNames
      <4>3. CASE /\ call[p].at \in Reviewing /\ Model(p).table = m.table
                 /\ call[p].before \subseteq cols'[m.table]
        BY <2>1, <4>3 DEF KeptBy, NamesOf
      <4> QED
        BY <2>3, <4>1, <4>2, <4>3, ColumnsStay
    <3>2. ASSUME NEW r \in ManyToMany(m)
          PROVE  cols'[r.join] # {}
      <4>1. r.join \in Tables /\ cols[r.join] # {}
        BY <1>3, <2>1, JoinsAreTables DEF KeptBy, ManyToMany
      <4> QED
        BY <2>3, <4>1, ColumnsStay
    <3>3. ASSUME NEW o \in Procs, call'[o].at \in Reviewing, Model(o)'.table = m.table
          PROVE  FieldNames(m) \subseteq NamesOf(call'[o].before)
      <4>1. o = p
        BY <1>0, <2>3, <3>3, ReviewAlone
      <4>2. Model(p).table = m.table
        BY <2>3, <3>3, <4>1, BeforeWhole
      <4>3. CASE call'[p].before = cols[Model(p).table]
        BY <2>1, <4>1, <4>2, <4>3 DEF KeptBy, ColumnNames, NamesOf
      <4>4. CASE call[p].at \in Reviewing /\ call'[p].before = call[p].before
        BY <2>1, <4>1, <4>2, <4>4 DEF KeptBy
      <4> QED
        BY <1>0, <2>3, <3>3, <4>1, <4>3, <4>4, ReviewMoves
    <3> QED
      BY <3>1, <3>2, <3>3 DEF KeptBy, ColumnNames, ManyToMany, NamesOf
  <2> QED
    BY <2>2, <2>3
<1> QED
  BY <1>4, <1>5

\* At the beginning there is neither a call nor a column.
LEMMA AgreementInit == Init => Agreement
<1> SUFFICES ASSUME Init PROVE Agreement
  OBVIOUS
<1>1. \A p \in Procs : call[p].at = "idle" /\ call[p].m = 1
  BY DEF Init, Idle
<1>2. \A t \in Tables : cols[t] = {}
  BY DEF Init
<1>3. \A p \in Procs : \A j \in DOMAIN request[p].models : ~(j < 1)
  BY InitHolds, Requests DEF IInv
<1>4. Validated
  BY <1>1, <1>3 DEF Validated
<1>5. Wholes /\ Typed /\ Kept
  BY <1>1, <1>2 DEF Wholes, Whole, Typed, Kept, Reviewing, Init
<1> QED
  BY <1>4, <1>5 DEF Agreement

\* Every step keeps the agreement.
LEMMA AgreementNext == IInv /\ Agreement /\ [Next]_vars => Agreement'
<1> SUFFICES ASSUME IInv, Agreement, [Next]_vars PROVE Agreement'
  OBVIOUS
<1>1. CASE UNCHANGED vars
  <2>1. UNCHANGED <<dialect, request, call, cols>>
    BY <1>1 DEF vars, ddl
  <2> QED
    BY <2>1, AgreementStays
<1>2. CASE Writes
  <2>1. UNCHANGED <<dialect, request, call, cols>>
    BY <1>2 DEF Writes, Write, ddl
  <2> QED
    BY <2>1, AgreementStays
<1>3. CASE Next /\ \E p \in Procs : Start(p) \/ Does(p)
  BY <1>3, ValidatedNext, WholesNext, TypedNext, KeptNext DEF Agreement, IInv
<1> QED
  BY <1>1, <1>2, <1>3, NextCases DEF IInv

\* The models of the processes are those of a scenario.
LEMMA OfScenario ==
  ASSUME Shapes, KeysDeclared, TypesSettled
  PROVE  KeysIn(ValidModels(request)) /\ TypesIn(ValidModels(request))
BY DEF Shapes, KeysDeclared, TypesSettled

\* A table that is there has what all who make it make it with.
LEMMA WholeHas ==
  ASSUME NEW t \in Tables, Wholes, cols[t] # {}, NEW S, MadeWith(ValidModels(request), t, S)
  PROVE  S \subseteq ColumnNames(t)
<1>1. ColumnNames(t) = NamesOf(cols[t])
  BY DEF ColumnNames, NamesOf
<1>2. PICK m \in ValidModels(request) :
        \/ m.table = t /\ FieldNames(m) \subseteq NamesOf(cols[t])
        \/ \E r \in ManyToMany(m) : r.join = t /\ Elements(JoinColumns(r)) \subseteq NamesOf(cols[t])
  BY DEF Wholes, Whole
<1> QED
  BY <1>1, <1>2 DEF MadeWith

\* After a call that returned nil the relations of its models can be loaded.
LEMMA Joinable ==
  ASSUME IInv, Agreement, KeysIn(ValidModels(request)), NEW p \in Procs, Migrates(p),
         call[p].at = "nil", NEW m \in Elements(request[p].models), NEW r \in Elements(m.relations)
  PROVE  RelationJoinable(m, r)
<1>1. m.valid
  BY DEF Agreement, Validated, Elements
<1>2. m \in ValidModels(request) /\ IsModel(m) /\ KeptBy(m)
  BY <1>1, Requests DEF ValidModels, IInv, Agreement, Kept
<1>3. /\ r.ownerKey \in FieldNames(m)
      /\ r.target \in Tables /\ MadeWith(ValidModels(request), r.target, {r.targetKey})
      /\ r.kind = "many-to-many" => MadeWith(ValidModels(request), r.join, Elements(JoinColumns(r)))
  BY <1>2 DEF KeysIn
<1>4. r.ownerKey \in ColumnNames(m.table)
  BY <1>2, <1>3 DEF KeptBy
<1>5. cols[r.target] # {} => r.targetKey \in ColumnNames(r.target)
  BY <1>3, WholeHas DEF Agreement
<1>6. r.kind = "many-to-many" => Elements(JoinColumns(r)) \subseteq ColumnNames(r.join)
  <2>1. SUFFICES ASSUME r.kind = "many-to-many"
                 PROVE  Elements(JoinColumns(r)) \subseteq ColumnNames(r.join)
    OBVIOUS
  <2>2. r \in ManyToMany(m)
    BY <2>1 DEF ManyToMany
  <2>3. r.join \in Tables /\ cols[r.join] # {}
    BY <1>2, <2>2, JoinsAreTables DEF KeptBy
  <2> QED
    BY <1>3, <2>1, <2>3, WholeHas DEF Agreement
<1> QED
  BY <1>4, <1>5, <1>6 DEF RelationJoinable

\* A column is reported if its model would have made it with another type.
LEMMA Reported ==
  ASSUME Typed, TypesSettled, TypesIn(ValidModels(request)), NEW m \in ValidModels(request),
         m.table \in Tables, NEW f \in Elements(m.fields), NEW c \in cols[m.table],
         c.name = f.column
  PROVE  TypeChanged(c.type, ColumnType(f)) <=> Catalog(ColumnType(f)) # c.type
<1>1. dialect \in Dialects /\ dialect \in DOMAIN DDLType
  BY DEF Typed, TypesSettled
<1>2. PICK n \in ValidModels(request) :
        \/ n.table = m.table /\ \E g \in Elements(n.fields) : c = Column(g)
        \/ \E r \in ManyToMany(n) : r.join = m.table
  BY DEF Typed, TypedIn
<1>3. \A r \in ManyToMany(n) : r.join # m.table
  BY DEF TypesIn
<1>4. n.table = m.table
  BY <1>2, <1>3
<1>5. PICK g \in Elements(n.fields) : c = Column(g)
  BY <1>2, <1>3
<1>6. g.column = f.column /\ c.type = Catalog(ColumnType(g))
  BY <1>5 DEF Column
<1>7. Comparable(f, g)
  BY <1>4, <1>6 DEF TypesIn
<1>8. /\ f.sqlType = Untyped => f.goType \in DOMAIN DDLType[dialect]
      /\ g.sqlType = Untyped => g.goType \in DOMAIN DDLType[dialect]
  BY <1>1 DEF TypesIn
<1>9. CASE ColumnType(f) = ColumnType(g)
  BY <1>1, <1>6, <1>9, SameType
<1>10. CASE ColumnType(f) \in Emitted(dialect) /\ ColumnType(g) \in Emitted(dialect)
  BY <1>1, <1>6, <1>10, Comparing
<1>11. CASE f.sqlType = g.sqlType
  BY <1>1, <1>8, <1>9, <1>10, <1>11, ColumnTypeIs
<1>12. CASE {f.sqlType, g.sqlType} \subseteq {Untyped} \cup Emitted(dialect)
  BY <1>1, <1>8, <1>10, <1>12, ColumnTypeIs
<1> QED
  BY <1>1, <1>7, <1>11, <1>12 DEF Comparable

\* ModelsAgree: the columns a relation is loaded by exist on both sides once a call for
\* its model has returned nil, though other releases make, review and take back columns
\* of the same tables; and Diff reports the columns whose type another release would
\* create otherwise, and none because of the way its type is spelled.  What it asks of
\* the schemas is that they declare the keys their relations use and that the releases
\* settle the type of a column; of processes, tables and failures there is any number.
THEOREM ModelsMatch ==
  ASSUME KeysDeclared, TypesSettled
  PROVE  Spec => []ModelsAgree
<1>1. ASSUME IInv, Agreement
      PROVE  ModelsAgree
  <2>1. KeysIn(ValidModels(request)) /\ TypesIn(ValidModels(request))
    BY <1>1, OfScenario DEF IInv
  <2>2. ASSUME NEW p \in Procs, Migrates(p), call[p].at = "nil",
               NEW m \in Elements(request[p].models), NEW r \in Elements(m.relations)
        PROVE  RelationJoinable(m, r)
    BY <1>1, <2>1, <2>2, Joinable
  <2>3. ASSUME NEW p \in Procs, NEW m \in Elements(request[p].models), m.valid
        PROVE  Changed(m) = {c.name : c \in {x \in cols[m.table] :
                 \E f \in Elements(m.fields) : f.column = x.name /\ Catalog(ColumnType(f)) # x.type}}
    <3>1. m \in ValidModels(request) /\ m.table \in Tables
      BY <1>1, <2>3, Requests DEF ValidModels, IInv, IsModel
    <3>2. \A f \in Elements(m.fields), c \in cols[m.table] : c.name = f.column =>
            (TypeChanged(c.type, ColumnType(f)) <=> Catalog(ColumnType(f)) # c.type)
      BY <1>1, <2>1, <3>1, Reported DEF Agreement
    <3> QED
      BY <3>2 DEF Changed
  <2> QED
    BY <2>2, <2>3 DEF ModelsAgree
<1>2. Init => Agreement
  BY AgreementInit
<1>3. IInv /\ Agreement /\ [Next]_vars => Agreement'
  BY AgreementNext
<1> QED
  BY <1>1, <1>2, <1>3, Inductive, PTL DEF Spec
=============================================================================
