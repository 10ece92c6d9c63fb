---------------------------- MODULE AutoMigrate ----------------------------
(***************************************************************************)
(* orm.AutoMigrate, AutoMigrateAll, DropSearchIndexes and the migration    *)
(* GenerateMigration proposes: processes of different releases bring one   *)
(* database to the schemas of their models, statement by statement.        *)
(* Between two statements others work, any statement may fail and the      *)
(* process may die; then the call is made again.                           *)
(*                                                                         *)
(* A schema is what Schema!SchemaOf makes of a Go type.  The database      *)
(* knows columns, indexes, constraints, search sidecars, the triggers that *)
(* feed them, large-object stores and which rows a sidecar holds.          *)
(***************************************************************************)
EXTENDS Naturals, FiniteSets, Sequences

\* Sequences, of fields, relations and models.
Elements(s) == {s[i] : i \in DOMAIN s}

IsSequence(s) == s \in Seq(Elements(s))

CONSTANTS
  Procs,        \* processes
  Dialects,     \* the engines looked at, one per behaviour
  Scenarios,    \* what the processes call, one scenario per behaviour
  Tables,       \* names of tables and junction tables
  Rows,         \* rows the application writes into tables with a sidecar
  MaxFaults     \* how many statements may fail

\* A call is made with at least one model; a model has at least one column.
ASSUME AutoMigrateAssumption ==
  /\ MaxFaults \in Nat
  /\ \A s \in Scenarios, p \in Procs :
       /\ s[p].op \in {"migrate", "all", "drop", "review"}
       /\ s[p].models # <<>> /\ IsSequence(s[p].models)
       /\ \A m \in Elements(s[p].models) :
            /\ m.table \in Tables
            /\ m.fields # <<>> /\ IsSequence(m.fields)
            /\ IsSequence(m.relations) /\ IsSequence(m.search) /\ IsSequence(m.lobs)
            /\ \A r \in Elements(m.relations) : r.kind = "many-to-many" => r.join \in Tables

VARIABLES
  dialect,      \* the engine
  request,      \* request[p]: the call process p makes, and makes again
  call,         \* call[p]: how far it is
  cols,         \* cols[t]: the columns of t, none if there is no such table
  idx,          \* indexes
  fks,          \* foreign keys
  sides,        \* sidecar tables
  trigs,        \* triggers
  stores,       \* large-object stores
  rows,         \* the rows of each table
  indexed,      \* which rows each sidecar holds
  ready,        \* sidecars a call that returned nil has provided (history)
  late,         \* rows that did not agree with a sidecar at that time (history)
  faults

ddl  == <<cols, idx, fks, sides, trigs, stores>>
data == <<rows, indexed>>
vars == <<dialect, request, call, ddl, data, ready, late, faults>>

(***************************************************************************)
(* Types: what the DDL says, what the catalog then answers, and which      *)
(* spellings are one type.  A name of two words has an underscore here.    *)
(***************************************************************************)
DDLType == [
  sqlite   |-> [bool |-> "integer", int64 |-> "integer", int32 |-> "integer",
                float64 |-> "real", bytes |-> "blob", time |-> "timestamp", string |-> "text"],
  postgres |-> [bool |-> "boolean", int64 |-> "bigint", int32 |-> "integer",
                float64 |-> "double_precision", bytes |-> "bytea", time |-> "timestamptz",
                string |-> "text"],
  mysql    |-> [bool |-> "tinyint", int64 |-> "bigint", int32 |-> "int",
                float64 |-> "double", bytes |-> "blob", time |-> "datetime",
                string |-> "varchar"],
  mssql    |-> [bool |-> "bit", int64 |-> "bigint", int32 |-> "int", float64 |-> "float",
                bytes |-> "varbinary", time |-> "datetime2", string |-> "nvarchar"]]

ColumnType(f) ==
  CASE f.sqlType # ""                            -> f.sqlType
    [] f.sqlType = "" /\ f.auto /\ dialect = "postgres" -> "bigserial"
    [] OTHER                                     -> DDLType[dialect][f.goType]

\* What the engine calls the type afterwards.
Catalog(type) ==
  CASE type = "bigserial"   -> "bigint"
    [] type = "timestamptz" -> "timestamp_with_time_zone"
    [] type = "varchar" /\ dialect = "postgres" -> "character_varying"
    [] OTHER                -> type

Spellings == [
  sqlite   |-> {{"integer", "int"}, {"text"}, {"real", "double", "float"}, {"blob"},
                {"timestamp", "datetime"}, {"numeric"}},
  postgres |-> {{"bigint", "int8", "bigserial", "serial8"}, {"smallint", "int2"},
                {"integer", "int", "int4", "serial", "serial4"}, {"boolean", "bool"},
                {"double_precision", "float8"}, {"real", "float4"}, {"numeric", "decimal"},
                {"text"}, {"character_varying", "varchar"}, {"char", "character"}, {"bytea"},
                {"timestamp_with_time_zone", "timestamptz"}, {"date"}, {"time"},
                {"timestamp_without_time_zone", "timestamp"}, {"json"}, {"jsonb"}, {"uuid"}},
  mysql    |-> {{"bigint"}, {"int", "integer"}, {"smallint"}, {"mediumint"}, {"tinyint"},
                {"double", "double_precision", "real"}, {"float"}, {"decimal", "numeric"},
                {"varchar"}, {"char"}, {"text", "tinytext", "mediumtext", "longtext"},
                {"blob", "tinyblob", "mediumblob", "longblob"}, {"datetime"}, {"timestamp"},
                {"date"}, {"time"}, {"json"}},
  mssql    |-> {{"bigint"}, {"int"}, {"smallint"}, {"tinyint"}, {"bit"}, {"float"}, {"real"},
                {"decimal", "numeric"}, {"nvarchar"}, {"varchar"}, {"nchar"}, {"char"},
                {"varbinary"}, {"binary"}, {"datetime2"}, {"datetime"}, {"date"}, {"time"},
                {"uniqueidentifier"}}]

TypeChangedByName(from, to) == from # to           \* mutant: spellings compared

\* Only two known types that are not spellings of one type are a change.
TypeChanged(from, to) ==
  LET known == UNION Spellings[dialect]
  IN /\ {from, to} \subseteq known
     /\ \A one \in Spellings[dialect] : ~({from, to} \subseteq one)

(***************************************************************************)
(* What a model declares.                                                  *)
(***************************************************************************)
Column(f) == [name |-> f.column, type |-> Catalog(ColumnType(f))]

Columns(m) == {Column(f) : f \in Elements(m.fields)}

ColumnNames(t) == {c.name : c \in cols[t]}

AllRows == ""

\* The soft-delete column, of the last field that is tagged so.
SoftDelete(m) ==
  LET soft == {i \in DOMAIN m.fields : m.fields[i].softDelete}
  IN IF soft = {} THEN AllRows
       ELSE m.fields[CHOOSE i \in soft : \A j \in soft : j <= i].column

\* among: the rows whose soft-delete column is NULL, by a partial index or, on MySQL,
\* by a functional one; or all rows.
UniqueIndex(m, f) ==
  [table |-> m.table, name |-> "ux_" \o m.table \o "_" \o f.column, column |-> f.column,
   unique |-> TRUE, among |-> SoftDelete(m)]

PlainIndex(m, f) ==
  [table |-> m.table, column |-> f.column, unique |-> FALSE, among |-> AllRows,
   name |-> IF f.indexName # "" THEN f.indexName ELSE "ix_" \o m.table \o "_" \o f.column]

\* indexDefs: the unique indexes first.  Statements have numbers, in the order in
\* which they are executed; not every number has one.
IndexDefs(m) ==
  LET n      == Len(m.fields)
      unique == {i \in 1 .. n : m.fields[i].unique}
      plain  == {i \in 1 .. n : m.fields[i].index /\ ~m.fields[i].unique}
  IN [j \in unique \cup {n + i : i \in plain} |->
        IF j <= n THEN UniqueIndex(m, m.fields[j]) ELSE PlainIndex(m, m.fields[j - n])]

\* foreignKeysFor: belongs-to relations, all of them or the tagged ones.
ForeignKeys(m, cfg) ==
  {[table |-> m.table, column |-> r.ownerKey, ref |-> r.target] :
     r \in {x \in Elements(m.relations) : x.kind = "belongs-to" /\ (cfg.fks \/ x.constraint)}}

\* The relations with a junction table.
Junctions(m) == {i \in DOMAIN m.relations : m.relations[i].kind = "many-to-many"}

JoinColumns(r) == <<r.ownerFK, r.targetFK>>

StoreNames(m) == {<<m.table, f.column>> : f \in Elements(m.lobs)}

Events == {"ai", "ad", "au"}

(***************************************************************************)
(* The statements of a call.                                               *)
(***************************************************************************)
CreateTableSQL(m, cfg) == [op |-> "create-table", table |-> m.table, columns |-> m.fields,
                           fks |-> ForeignKeys(m, cfg)]

AddColumnSQL(t, f) == [op |-> "add-column", table |-> t, column |-> Column(f)]

DropColumnSQL(t, f) == [op |-> "drop-column", table |-> t, column |-> Column(f)]

IndexSQLFull(def) ==                \* mutant: the soft-delete column is forgotten
  [op |-> "create-index", index |-> [def EXCEPT !.among = AllRows]]

IndexSQL(def) == [op |-> "create-index", index |-> def]

CreateJoinTableSQL(r) == [op |-> "create-join", table |-> r.join, relation |-> r]

Trigger(m, spec, ev) ==
  [table |-> m.table, side |-> spec.name, kind |-> spec.kind, event |-> ev]

CreateSidecarSQL(m, spec) == [op |-> "create-sidecar", table |-> m.table, side |-> spec.name]

TriggerSQL(m, spec, ev) == [op |-> "create-trigger", trigger |-> Trigger(m, spec, ev)]

DropTriggerSQL(m, spec, ev) == [op |-> "drop-trigger", trigger |-> Trigger(m, spec, ev)]

DropSidecarSQL(spec) == [op |-> "drop-sidecar", side |-> spec.name]

ProvisionSearchSQLAnew(m, spec) ==                  \* mutant: made anew every time
  IF spec.hooked THEN <<DropSidecarSQL(spec), CreateSidecarSQL(m, spec)>>
    ELSE <<DropSidecarSQL(spec), CreateSidecarSQL(m, spec), TriggerSQL(m, spec, "ai"),
           TriggerSQL(m, spec, "ad"), TriggerSQL(m, spec, "au")>>

\* ProvisionSearchSQL of searchSpecOf: the sidecar, then its triggers.
ProvisionSearchSQL(m, spec) ==
  IF spec.hooked THEN <<CreateSidecarSQL(m, spec)>>
    ELSE <<CreateSidecarSQL(m, spec), TriggerSQL(m, spec, "ai"),
           TriggerSQL(m, spec, "ad"), TriggerSQL(m, spec, "au")>>

DropSearchSQLTableFirst(m, spec) ==                 \* mutant: the table goes first
  <<DropSidecarSQL(spec), DropTriggerSQL(m, spec, "ai"),
    DropTriggerSQL(m, spec, "au"), DropTriggerSQL(m, spec, "ad")>>

\* DropSearchSQL: the triggers, then the sidecar.
DropSearchSQL(m, spec) ==
  <<DropTriggerSQL(m, spec, "ai"), DropTriggerSQL(m, spec, "au"),
    DropTriggerSQL(m, spec, "ad"), DropSidecarSQL(spec)>>

ProvisionSQL(m, f) == [op |-> "provision", store |-> <<m.table, f.column>>]

\* What provisionLOBs refuses at once: an option for a field that is none, and fields
\* without a provisioner.
LOBsRefused(m, cfg) ==
  \/ ~(cfg.overrides \subseteq {f.go : f \in Elements(m.lobs)})
  \/ m.lobs # <<>> /\ ~cfg.imported

(***************************************************************************)
(* Diff and GenerateMigration.                                             *)
(***************************************************************************)
Added(m) == {i \in DOMAIN m.fields : m.fields[i].column \notin ColumnNames(m.table)}

Removed(m) == ColumnNames(m.table) \ {f.column : f \in Elements(m.fields)}

Changed(m) ==
  {f.column : f \in {g \in Elements(m.fields) :
     \E c \in cols[m.table] : c.name = g.column /\ TypeChanged(c.type, ColumnType(g))}}

GeneratedDownAll(m) == DOMAIN m.fields              \* mutant: drops what the model has

\* The parts of the two scripts that are not commented out: which columns the one
\* adds and the other drops.
GeneratedUp(m) == Added(m)

GeneratedDown(m) == Added(m)

(***************************************************************************)
(* Calls.                                                                  *)
(***************************************************************************)
AtRest == {"idle", "nil", "error"}

AfterAddNoIndexes ==                                \* mutant: no index sync on a table that is there
  [create |-> "joins", add |-> "joins", sync |-> "joins", join |-> "joins",
   search |-> "specs", store |-> "end", drop |-> "specs", up |-> "reviewed", down |-> "end"]

\* What follows when the statements of a stage are done.
After == [create |-> "joins", add |-> "indexes", sync |-> "joins", join |-> "joins",
          search |-> "specs", store |-> "end", drop |-> "specs", up |-> "reviewed",
          down |-> "end"]

\* m: which model; k: which relation or search index of it; todo: the numbers of the
\* statements of the stage still to come; down: those of the down script.
Idle == [at |-> "idle", m |-> 1, k |-> 0, todo |-> {}, down |-> {},
         before |-> {}, clean |-> FALSE]

Init ==
  /\ dialect \in Dialects
  /\ request \in Scenarios
  /\ call = [p \in Procs |-> Idle]
  /\ cols = [t \in Tables |-> {}]
  /\ rows = [t \in Tables |-> {}]
  /\ idx = {} /\ fks = {} /\ sides = {} /\ trigs = {} /\ stores = {}
  /\ indexed = {} /\ ready = {} /\ late = {}
  /\ faults = 0

Model(p) == request[p].models[call[p].m]

\* AutoMigrateAll takes no options.  "imported": the program imports
\* dialect/sqlite/lob, "bad": an option was given a value out of range.
Config(p) ==
  IF request[p].op = "migrate" THEN request[p].cfg
    ELSE [fks |-> FALSE, overrides |-> {}, bad |-> FALSE, imported |-> request[p].cfg.imported]

Migrates(p) == request[p].op \in {"migrate", "all"}

\* A drop or a review of generated SQL is not run beside other calls.
Exclusive(p) == ~Migrates(p)

TriggerSynced(m) ==
  IF dialect = "sqlite" THEN {s \in Elements(m.search) : s.valid /\ ~s.hooked} ELSE {}

HasSearch(m) ==
  \A s \in Elements(m.search) :
    dialect = "sqlite" => /\ s.name \in sides
                          /\ ~s.hooked => \A e \in Events : Trigger(m, s, e) \in trigs

\* Everything the schema asks for is in the database, as far as a call looks at it:
\* columns, indexes and sidecars of these names, whatever their types and forms.
Declared(m) ==
  /\ {f.column : f \in Elements(m.fields)} \subseteq ColumnNames(m.table)
  /\ {d.name : d \in Elements(IndexDefs(m))} \subseteq {i.name : i \in {j \in idx : j.table = m.table}}
  /\ \A i \in Junctions(m) : cols[m.relations[i].join] # {}
  /\ HasSearch(m)
  /\ StoreNames(m) \subseteq stores

Start(p) ==
  /\ call[p].at \in AtRest
  /\ call[p].at = "nil" => Migrates(p)
  /\ \A q \in Procs : Exclusive(p) \/ Exclusive(q) => call[q].at \in AtRest
  /\ call' = [call EXCEPT ![p] =
       [Idle EXCEPT !.at = "model", !.clean = \A m \in Elements(request[p].models) : Declared(m)]]
  /\ ready' = IF request[p].op = "drop"
                THEN ready \ UNION {{s.name : s \in Elements(m.search)} :
                                      m \in Elements(request[p].models)}
                ELSE ready
  /\ UNCHANGED <<dialect, request, ddl, data, late, faults>>

Least(S) == CHOOSE i \in S : \A j \in S : i <= j

\* Statement i of the stage.
Numbered(p, i) ==
  LET m  == Model(p)
      at == call[p].at
  IN CASE at = "create" /\ i = 0  -> CreateTableSQL(m, Config(p))
       [] at = "create" /\ i # 0  -> IndexSQL(IndexDefs(m)[i])
       [] at \in {"add", "up"}    -> AddColumnSQL(m.table, m.fields[i])
       [] at = "down"             -> DropColumnSQL(m.table, m.fields[i])
       [] at = "sync"             -> IndexSQL(IndexDefs(m)[i])
       [] at = "join"             -> CreateJoinTableSQL(m.relations[call[p].k])
       [] at = "search"           -> ProvisionSearchSQL(m, m.search[call[p].k])[i]
       [] at = "drop"             -> DropSearchSQL(m, m.search[call[p].k])[i]
       [] at = "store"            -> ProvisionSQL(m, m.lobs[i])

Goto(p, at) == call' = [call EXCEPT ![p].at = at]

\* A stage with these statements to do; with none it is over at once.
Reach(at, todo) == IF todo = {} THEN After[at] ELSE at

Stage(p, at, todo) == call' = [call EXCEPT ![p].at = Reach(at, todo), ![p].todo = todo]

\* The same for relation or search index k.
StageOf(p, k, at, todo) ==
  call' = [call EXCEPT ![p].at = Reach(at, todo), ![p].k = k, ![p].todo = todo]

others == <<dialect, request, ddl, data, ready, late>>

\* SchemaOf and the options, checked before anything is done.
Resolve(p) ==
  /\ call[p].at = "model"
  /\ IF ~Model(p).valid \/ Config(p).bad
       THEN Goto(p, "error")
       ELSE CASE Migrates(p) -> Goto(p, "columns")
              [] request[p].op = "drop" -> Goto(p, "specs")
              [] request[p].op = "review" ->
                   call' = [call EXCEPT ![p].at = Reach("up", GeneratedUp(Model(p))),
                                        ![p].todo = GeneratedUp(Model(p)),
                                        ![p].down = GeneratedDown(Model(p)),
                                        ![p].before = cols[Model(p).table]]
  /\ UNCHANGED <<others, faults>>

\* An introspection that fails looks like a table that is not there.
Introspected(t, seen) ==
  \/ seen = cols[t] /\ faults' = faults
  \/ seen = {} /\ cols[t] # {} /\ faults < MaxFaults /\ faults' = faults + 1

AddMissing(m, seen) ==
  {i \in DOMAIN m.fields : m.fields[i].column \notin {c.name : c \in seen}}

ReadColumns(p) ==
  /\ call[p].at = "columns"
  /\ \E seen \in {cols[Model(p).table], {}} :
       /\ Introspected(Model(p).table, seen)
       /\ IF seen = {} THEN Stage(p, "create", {0} \cup DOMAIN IndexDefs(Model(p)))
                      ELSE Stage(p, "add", AddMissing(Model(p), seen))
  /\ UNCHANGED others

MissingIndexesAll(m) == DOMAIN IndexDefs(m)         \* mutant: the live indexes are not listed

\* syncIndexes compares names.
MissingIndexes(m) ==
  {j \in DOMAIN IndexDefs(m) :
     ~\E i \in idx : i.table = m.table /\ i.name = IndexDefs(m)[j].name}

ReadIndexes(p) ==
  /\ call[p].at = "indexes"
  /\ Stage(p, "sync", MissingIndexes(Model(p)))
  /\ UNCHANGED <<others, faults>>

\* The junction tables, one after the other.
ReadJunction(p) ==
  LET left == {i \in Junctions(Model(p)) : i > call[p].k}
      join == Model(p).relations[Least(left)].join
  IN /\ call[p].at = "joins"
     /\ IF left = {}
          THEN call' = [call EXCEPT ![p].at = "specs", ![p].k = 0] /\ faults' = faults
          ELSE \E seen \in {cols[join], {}} :
                 /\ Introspected(join, seen)
                 /\ StageOf(p, Least(left), "join", IF seen = {} THEN {1} ELSE {})
     /\ UNCHANGED others

\* provisionSearch and DropSearchIndexes, one search index after the other, on SQLite,
\* the only SearchProvisioner.
ReadSearch(p) ==
  LET m    == Model(p)
      left == {i \in DOMAIN m.search : dialect = "sqlite" /\ i > call[p].k}
      spec == m.search[Least(left)]
  IN /\ call[p].at = "specs"
     /\ CASE left = {} -> Goto(p, IF Migrates(p) THEN "lobs" ELSE "end")
          [] left # {} /\ ~spec.valid -> Goto(p, "error")
          [] left # {} /\ spec.valid /\ Migrates(p) ->
               StageOf(p, Least(left), "search", DOMAIN ProvisionSearchSQL(m, spec))
          [] OTHER -> StageOf(p, Least(left), "drop", DOMAIN DropSearchSQL(m, spec))
     /\ UNCHANGED <<others, faults>>

ReadLOBs(p) ==
  /\ call[p].at = "lobs"
  /\ IF LOBsRefused(Model(p), Config(p)) THEN Goto(p, "error")
       ELSE Stage(p, "store", DOMAIN Model(p).lobs)
  /\ UNCHANGED <<others, faults>>

\* The reviewer applied the up script and now applies the down script.
Revert(p) ==
  /\ call[p].at = "reviewed"
  /\ Stage(p, "down", call[p].down)
  /\ UNCHANGED <<others, faults>>

Disagree(side, t) ==
  {r \in Rows : (r \in rows[t]) # (<<side, r>> \in indexed)}

NextModel(p) ==
  /\ call[p].at = "end"
  /\ IF call[p].m < Len(request[p].models)
       THEN /\ call' = [call EXCEPT ![p].at = "model", ![p].m = @ + 1, ![p].k = 0]
            /\ UNCHANGED <<ready, late>>
       ELSE LET new == IF Migrates(p)
                         THEN UNION {{<<s.name, m.table>> : s \in TriggerSynced(m)} :
                                       m \in Elements(request[p].models)}
                         ELSE {}
            IN /\ Goto(p, "nil")
               /\ ready' = ready \cup {n[1] : n \in new}
               /\ late' = late \cup UNION {{<<n[1], r>> : r \in Disagree(n[1], n[2])} :
                                             n \in {x \in new : x[1] \notin ready}}
  /\ UNCHANGED <<dialect, request, ddl, data, faults>>

(***************************************************************************)
(* The statements.  What the engine refuses is an error of the call.       *)
(***************************************************************************)
Statement(p) == Numbered(p, Least(call[p].todo))

Doing(p, op) == call[p].todo # {} /\ Statement(p).op = op

Done(p) == Stage(p, call[p].at, call[p].todo \ {Least(call[p].todo)})

RejectedGoesOn(p) == call' = [call EXCEPT ![p].at = "error"]   \* mutant: the rest is still sent

Rejected(p) == call' = [call EXCEPT ![p].at = "error", ![p].todo = {}]

past == <<dialect, request, ready, late, faults>>

NoTwins(names) == \A i, j \in DOMAIN names : names[i] = names[j] => i = j

CreateTable(p) ==
  /\ Doing(p, "create-table")
  /\ LET s  == Statement(p)
         ok == /\ cols[s.table] = {}
               /\ NoTwins([i \in DOMAIN s.columns |-> s.columns[i].column])
               /\ dialect # "sqlite" =>
                    \A k \in s.fks : k.ref = s.table \/ cols[k.ref] # {}
     IN IF ok
          THEN /\ Done(p)
               /\ cols' = [cols EXCEPT ![s.table] = {Column(f) : f \in Elements(s.columns)}]
               /\ fks' = fks \cup s.fks
          ELSE Rejected(p) /\ UNCHANGED <<cols, fks>>
  /\ UNCHANGED <<past, idx, sides, trigs, stores, data>>

\* Introspection finds no columns in a table that is not there: a review then adds all
\* of them to it, which the engine refuses.
AddColumn(p) ==
  /\ Doing(p, "add-column")
  /\ LET s == Statement(p)
     IN IF cols[s.table] # {} /\ s.column.name \notin ColumnNames(s.table)
          THEN Done(p) /\ cols' = [cols EXCEPT ![s.table] = @ \cup {s.column}]
          ELSE Rejected(p) /\ cols' = cols
  /\ UNCHANGED <<past, idx, fks, sides, trigs, stores, data>>

DropColumn(p) ==
  /\ Doing(p, "drop-column")
  /\ LET s == Statement(p)
     IN cols' = [cols EXCEPT ![s.table] = {c \in @ : c.name # s.column.name}]
  /\ Done(p)
  /\ UNCHANGED <<past, idx, fks, sides, trigs, stores, data>>

\* SQLite and Postgres have one space of index names, the others one per table.
NameFree(d) ==
  \A i \in idx : i.name = d.name => dialect \notin {"sqlite", "postgres"} /\ i.table # d.table

CreateIndex(p) ==
  /\ Doing(p, "create-index")
  /\ LET d == Statement(p).index
     IN IF /\ NameFree(d)
           /\ d.column \in ColumnNames(d.table)
           /\ d.among \in ColumnNames(d.table) \cup {AllRows}
          THEN Done(p) /\ idx' = idx \cup {d}
          ELSE Rejected(p) /\ idx' = idx
  /\ UNCHANGED <<past, cols, fks, sides, trigs, stores, data>>

\* createJoinTableSQL: the two foreign keys, which together are the key.
CreateJoin(p) ==
  /\ Doing(p, "create-join")
  /\ LET s    == Statement(p)
         both == JoinColumns(s.relation)
     IN IF cols[s.table] = {} /\ NoTwins(both)
          THEN /\ Done(p)
               /\ cols' = [cols EXCEPT ![s.table] =
                             {[name |-> c, type |-> "key"] : c \in Elements(both)}]
          ELSE Rejected(p) /\ cols' = cols
  /\ UNCHANGED <<past, idx, fks, sides, trigs, stores, data>>

\* IF NOT EXISTS, so a sidecar and a trigger of that name stay as they are.
CreateSidecar(p) ==
  /\ Doing(p, "create-sidecar")
  /\ sides' = sides \cup {Statement(p).side}
  /\ Done(p)
  /\ UNCHANGED <<past, cols, idx, fks, trigs, stores, data>>

CreateTrigger(p) ==
  /\ Doing(p, "create-trigger")
  /\ trigs' = trigs \cup {Statement(p).trigger}
  /\ Done(p)
  /\ UNCHANGED <<past, cols, idx, fks, sides, stores, data>>

DropTrigger(p) ==
  /\ Doing(p, "drop-trigger")
  /\ trigs' = trigs \ {Statement(p).trigger}
  /\ Done(p)
  /\ UNCHANGED <<past, cols, idx, fks, sides, stores, data>>

DropSidecar(p) ==
  /\ Doing(p, "drop-sidecar")
  /\ sides' = sides \ {Statement(p).side}
  /\ indexed' = {x \in indexed : x[1] # Statement(p).side}
  /\ Done(p)
  /\ UNCHANGED <<past, cols, idx, fks, trigs, stores, rows>>

ProvisionStore(p) ==
  /\ Doing(p, "provision")
  /\ stores' = stores \cup {Statement(p).store}
  /\ Done(p)
  /\ UNCHANGED <<past, cols, idx, fks, sides, trigs, data>>

\* A statement or the listing of the indexes fails, or the process ends before it.
Fail(p) ==
  /\ call[p].todo # {} \/ call[p].at = "indexes"
  /\ faults < MaxFaults
  /\ faults' = faults + 1
  /\ Rejected(p)
  /\ UNCHANGED <<others>>

(***************************************************************************)
(* The application writes rows.  The triggers of a table are part of the   *)
(* write: one whose sidecar is gone fails it.                              *)
(***************************************************************************)
Fired(t, ev) == {x \in trigs : x.table = t /\ x.event = ev}

Sides(triggers) == {x.side : x \in triggers}

Write(t, r, ev, present) ==
  LET on == Sides(Fired(t, ev))
  IN /\ cols[t] # {}
     /\ on \subseteq sides
     /\ rows' = [rows EXCEPT ![t] = IF present THEN @ \cup {r} ELSE @ \ {r}]
     /\ indexed' = IF present THEN indexed \cup (on \X {r}) ELSE indexed \ (on \X {r})
     /\ late' = late \ (on \X {r})
     /\ UNCHANGED <<dialect, request, call, ddl, ready, faults>>

\* vec0 refuses a key it holds already.
InsertRow(t, r) ==
  /\ r \notin rows[t]
  /\ \A x \in Fired(t, "ai") : x.kind = "vector" => <<x.side, r>> \notin indexed
  /\ Write(t, r, "ai", TRUE)

UpdateRow(t, r) == r \in rows[t] /\ Write(t, r, "au", TRUE)

DeleteRow(t, r) == r \in rows[t] /\ Write(t, r, "ad", FALSE)

(***************************************************************************)
(* The specification.                                                      *)
(***************************************************************************)
Step(p) ==
  \/ Resolve(p) \/ ReadColumns(p) \/ ReadIndexes(p) \/ ReadJunction(p) \/ ReadSearch(p)
  \/ ReadLOBs(p)
  \/ CreateTable(p) \/ AddColumn(p) \/ DropColumn(p) \/ CreateIndex(p) \/ CreateJoin(p)
  \/ CreateSidecar(p) \/ CreateTrigger(p) \/ DropTrigger(p) \/ DropSidecar(p)
  \/ ProvisionStore(p) \/ Revert(p) \/ NextModel(p)

Searched == UNION {{m.table : m \in {x \in Elements(request[p].models) : x.search # <<>>}} :
                     p \in Procs}

Next ==
  \/ \E p \in Procs : Start(p) \/ Step(p) \/ Fail(p)
  \/ \E t \in Searched, r \in Rows : InsertRow(t, r) \/ UpdateRow(t, r) \/ DeleteRow(t, r)

\* A call that was made is finished, and one that failed is made again, in its turn
\* between the reviews and drops that are not run beside it.
Fairness == \A p \in Procs : WF_vars(Step(p)) /\ SF_vars(call[p].at # "nil" /\ Start(p))

Spec == Init /\ [][Next]_vars /\ Fairness

(***************************************************************************)
(* Properties.                                                             *)
(***************************************************************************)

\* The database holds tables, indexes and sidecars of the models only, and a
\* call is where its statements say.
TypeOK ==
  /\ \A t \in Tables : \A c, d \in cols[t] : c.name = d.name => c = d
  /\ \A i \in idx : cols[i.table] # {} /\ i.column \in ColumnNames(i.table)
  /\ \A t \in Tables : rows[t] \subseteq Rows
  /\ indexed \subseteq sides \X Rows
  /\ \A p \in Procs : call[p].todo # {} => call[p].at \in DOMAIN After
  /\ faults \in 0..MaxFaults

\* The index as another declaration of its name has it, which was executed first.
MadeOtherwise(d) ==
  \E p \in Procs : \E m \in Elements(request[p].models) : \E e \in Elements(IndexDefs(m)) :
    e \in idx /\ e.table = d.table /\ e.name = d.name /\ e # d

\* A call that returns nil has left no column, index, junction table, sidecar,
\* trigger or store of its models missing; whatever was there before, whoever worked
\* beside it and wherever an earlier attempt broke off.  What was there before under
\* the name stays as it is, a column of another type and an index of another form:
\* so an index is made as this model declares it, or another release declares it
\* otherwise and was first.
NilMeansDeclared ==
  [][\A p \in Procs :
       Migrates(p) /\ call[p].at = "end" /\ call'[p].at = "nil" =>
         \A m \in Elements(request[p].models) :
           /\ Declared(m)
           /\ \A d \in Elements(IndexDefs(m)) : d \in idx \/ MadeOtherwise(d)]_vars

\* "Unique indexes get the soft-delete fix ... so a soft-deleted row stops occupying
\* the unique key" (AutoMigrate): after a call that returned nil each unique index of a
\* model with soft delete is over the rows that are not deleted.
UniqueIndexesFixed ==
  [][\A p \in Procs :
       Migrates(p) /\ call[p].at = "end" /\ call'[p].at = "nil" =>
         \A m \in Elements(request[p].models) : \A d \in Elements(IndexDefs(m)) :
           d.unique /\ d.among # AllRows => d \in idx]_vars

\* A call that found everything declared when it started, by name, changes nothing.
RerunChangesNothing ==
  [][\A p \in Procs :
       Migrates(p) /\ call[p].clean /\ call'[p] # call[p] => UNCHANGED ddl]_vars

\* From the return of the call that made it a sidecar holds the rows of its
\* table, those aside that did not agree at that moment and were not written
\* since; and no trigger is without the sidecar it writes to, which would
\* fail every write to the table.
SearchFollows ==
  /\ \A m \in UNION {Elements(request[p].models) : p \in Procs} :
       \A s \in Elements(m.search) : \A r \in Rows :
         s.name \in ready /\ <<s.name, r>> \notin late =>
           (r \in rows[m.table] <=> <<s.name, r>> \in indexed)
  /\ Sides(trigs) \subseteq sides

RelationJoinable(m, r) ==
  LET has(t, c) == cols[t] # {} => c \in ColumnNames(t)
  IN /\ has(m.table, r.ownerKey) /\ has(r.target, r.targetKey)
     /\ r.kind = "many-to-many" => Elements(JoinColumns(r)) \subseteq ColumnNames(r.join)

\* What is made of a model agrees with the database.  The columns a relation is
\* loaded by exist on both sides once a call for its model has returned nil (the
\* other side as soon as it is migrated too).  Diff reports the columns whose type
\* another release would create otherwise, and no column because of the way its
\* type is spelled.
ModelsAgree ==
  \A p \in Procs : \A m \in Elements(request[p].models) :
    /\ Migrates(p) /\ call[p].at = "nil" =>
         \A r \in Elements(m.relations) : RelationJoinable(m, r)
    /\ m.valid =>
         Changed(m) = {c.name : c \in {x \in cols[m.table] :
           \E f \in Elements(m.fields) : f.column = x.name /\ Catalog(ColumnType(f)) # x.type}}

\* The two scripts of GenerateMigration are inverse: after the first no column of
\* the model is missing (an index may be), after the second the columns of the table
\* are what they were.
DownUndoesUp ==
  [][\A p \in Procs :
       /\ call[p].at = "up" /\ call'[p].at = "reviewed" =>
            {f.column : f \in Elements(Model(p).fields)} \subseteq {c.name : c \in cols'[Model(p).table]}
       /\ call[p].at = "down" /\ call'[p].at = "end" =>
            cols'[Model(p).table] = call[p].before]_vars

\* What a call can be satisfied with on this engine.
Sound(p) ==
  /\ ~Config(p).bad
  /\ \A m \in Elements(request[p].models) :
       /\ m.valid
       /\ dialect = "sqlite" => \A s \in Elements(m.search) : s.valid
       /\ Config(p).overrides \subseteq {f.go : f \in Elements(m.lobs)}
       /\ m.lobs # <<>> => Config(p).imported

\* Made again until it returns nil, a call with sound models does so, though
\* other releases migrate the same tables at the same time.
EventuallyMigrated ==
  \A p \in Procs : Migrates(p) /\ Sound(p) => <>(call[p].at = "nil")

(***************************************************************************)
(* What ModelsAgree asks of the schemas: that they declare the keys their  *)
(* relations use, and that the releases settle the type of a column.       *)
(***************************************************************************)
ValidModels(s) == {m \in UNION {Elements(s[p].models) : p \in Procs} : m.valid}

FieldNames(m) == {f.column : f \in Elements(m.fields)}

ManyToMany(m) == {r \in Elements(m.relations) : r.kind = "many-to-many"}

\* Whichever of the models makes table t makes it with the columns S.
MadeWith(models, t, S) ==
  \A m \in models : /\ m.table = t => S \subseteq FieldNames(m)
                    /\ \A r \in ManyToMany(m) : r.join = t => S \subseteq Elements(JoinColumns(r))

\* A relation goes from a column of its model to one that all releases of its target
\* have, and programs that share a junction table call its columns the same.
KeysIn(models) ==
  \A m \in models : \A r \in Elements(m.relations) :
    /\ r.ownerKey \in FieldNames(m)
    /\ r.target \in Tables /\ MadeWith(models, r.target, {r.targetKey})
    /\ r.kind = "many-to-many" => MadeWith(models, r.join, Elements(JoinColumns(r)))

KeysDeclared == \A s \in Scenarios : KeysIn(ValidModels(s))

Untyped == ""

\* The types DDL is generated with.
Emitted(d) ==
  {DDLType[d][k] : k \in DOMAIN DDLType[d]} \cup IF d = "postgres" THEN {"bigserial"} ELSE {}

Comparable(f, g) ==
  \/ f.sqlType = g.sqlType
  \/ \A d \in Dialects : {f.sqlType, g.sqlType} \subseteq {Untyped} \cup Emitted(d)

TypesIn(models) ==
  \A m, n \in models :
    /\ \A r \in ManyToMany(n) : r.join # m.table
    /\ \A f \in Elements(m.fields) :
         /\ f.sqlType = Untyped => \A d \in Dialects : f.goType \in DOMAIN DDLType[d]
         /\ \A g \in Elements(n.fields) :
              m.table = n.table /\ f.column = g.column => Comparable(f, g)

\* A table is a junction or the table of a model, and two releases that name the type of
\* one column name the same one, or leave it to the Go type, or name what it stands for.
TypesSettled ==
  /\ Dialects \subseteq DOMAIN DDLType
  /\ \A s \in Scenarios : TypesIn(ValidModels(s))
=============================================================================
