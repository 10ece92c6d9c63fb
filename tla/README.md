# A verification project for liteorm

TLA+ models of [liteorm](../src) (`liteorm.org`, a Go SQL toolkit and ORM), the TLC
configurations that check them on small instances, and TLAPS proofs of the properties that
matter most for every value of the constants.

liteorm keeps little state in memory.  What it adds to a database is *sequences of
statements*: a savepoint taken here and released there, a ledger marked dirty before a
migration and clean after it, a row, then its search sidecar, a content object, then the row
that names it.  What goes wrong in such code goes wrong between two statements: another
session runs there, the second one fails, the process dies, the caller tries again, or a
struct in memory no longer says what the row says.  The models keep those sequences step by
step, with every guard, early return and error path, and leave the text of the SQL out.

- [1 Inventory](#1-inventory)
- [2 The models](#2-the-models)
- [3 The runs](#3-the-runs)
- [4 Fairness, deadlock, symmetry](#4-fairness-deadlock-symmetry)
- [5 The proofs](#5-the-proofs)
- [6 Where code and documentation disagree](#6-where-code-and-documentation-disagree)
- [7 What is not modelled](#7-what-is-not-modelled)
- [8 Plan](#8-plan)

To run: `tlc -config <run>.cfg <module>.tla` for a row of the table in section 3, `tlapm
<module>.tla` for one of section 5.

## 1 Inventory

| Component | Source | State it keeps | Operations | Hard behaviour | Correct means |
|---|---|---|---|---|---|
| Transactions, retry | `tx.go`, `errors.go` | loop variable, open transaction | `Transaction`, `TransactionRetry` | COMMIT whose answer is lost, panic of `fn`, cancellation against the back-off timer | `fn` is applied at most once, the caller is told what happened, the connection comes back |
| Handles, savepoints | `db.go`, `internal/sqladapter`, `dialect/postgres` | `sql.Tx`, depth and savepoint name per handle | `Begin`, nested `Begin`, `Exec`, `Commit`, `Rollback` | names that repeat, handles used after they are finished, four engines with different savepoint rules | the handles are nested transactions |
| Migration runner | `migrate/migrate.go` | ledger table with one row (version, dirty) | `Up`, `UpTo`, `Down`, `DownTo`, `Status`, `Version`, `Force` | every statement commits on its own; death or failure between any two | a clean ledger describes the schema |
| Migration files | `migrate/source.go`, `emit.go`, `split.go` | none | `Load`, `WritePair`, `splitStatements` | quoting and comments, numeric versions | what is read is what was written |
| Large objects | `dialect/sqlite/lob`, `orm/lob.go` | id column in a row, content objects beside it, id in the struct | `Open`, `WriteFrom`, `Drop`, `Clone`, `InTx`, `Stat`, versions | allocation and UPDATE are two commits; stale ids in structs; ids that come back after a rollback | no row names a missing or a foreign object, none leaks |
| Batched reads | `orm/read.go` | the cursor | `FindInBatches` (and `First`, `Find`, `Count`) | others insert, delete and move rows between batches, `fn` writes into the batch | every row once |
| Associations | `orm/association.go`, `load.go` | foreign keys, join rows, the same in structs | `Append`, `Delete`, `Clear`, `Replace`, `Count`, `Attach`, `Detach` | several statements per call, polymorphic owners with equal keys | the set is what was asked for, no other owner is touched |
| Eager loading | `orm/loadpath.go` | relation fields of structs | `Load`, nested paths | grouping one result over many parents | each parent gets its rows and no others |
| Repository writes | `orm/repo.go`, `write.go` | struct, soft-delete scope | `Create`, `Get`, `Update`, `Updates`, `Save`, `FirstOrCreate`, `Delete`, `ForceDelete`, `Restore`, `Upsert`, `CreateInBatches` | stale structs, retries, scopes | a write hits the row it is for, a deleted row stays deleted |
| Hooks, sidecars | `orm/hooks.go`, `searchsync.go`, `search.go` | vector sidecar tables | Before and After hooks, `syncSearchUpsert`, `syncSearchDelete` | statements after the row, each of which may fail | the sidecar follows the rows |
| Schema by reflection | `orm/schema.go`, `relations.go`, `search.go`, `lob.go`, `internal/scan/tags.go` | process-wide cache | `SchemaOf`, `UsePluralTableNames` | everything is inferred from names and tags, twice (orm and scan plan) | the key a relation is inferred from exists; what is read is what was migrated |
| AutoMigrate | `orm/migrate.go`, `introspect.go`, `typenorm.go`, `internal/sqlgen/dialects.go` | the database's schema | `AutoMigrate`, `AutoMigrateAll`, `DropSearchIndexes`, `Diff`, `GenerateMigration` | many statements that commit one by one; two releases at a time; an introspection error that reads as "no table" | nil means declared, a second run finds nothing to do, a retry gets there |
| Query builder | `query/` | the builder's clauses, which calls change in place | `Select`, `Where`, `Filter`, joins, CTEs, set operations, locks, `Update`, `Delete`, `Insert`, `Upsert`, terminals | order of placeholders over nested parts; builders held by others and changed later; checks made before | arguments line up with placeholders, conditions mean what was built, nothing the engine or the model lacks is sent |
| SQL generation | `internal/sqlgen`, `dialect` | none | text of statements per dialect | numbering, identity columns, limits | as above |
| Row scanning | `internal/scan` | plan caches | `Into`, `All`, `Iter` | rows that stay open | the connection comes back |
| Observers, logging | `observer.go`, `logging.go`, `log` | the list of observers | Before and After around each call | errors and panics on the way | After for each Before, in reverse order |
| Notifications | `dialect/postgres/listen.go` | a pooled connection | `Listen`, `Notify`, `Close` | a subscription on a connection that goes back to the pool | nobody else hears it |
| Search | `dialect/sqlite/search` | none | full text, k-NN, hybrid by rank fusion | ties and missing ranks | the order the formula gives |
| Driver glue | `dialect/sqlite`, `mysql`, `mssql`, `changeset`, `vault` | driver handles | open, register, wrap | none of its own | - |
| Codecs | `codec` | a registry behind a lock | encode and decode one value | none of its own | - |
| Generators | `gen`, `cmd/sqlc-gen-liteorm` | none | code at build time | none at run time | - |
| Conformance, examples | `conformance`, `examples` | none | tests and samples | - | read as documentation |

How they interact.  Everything above the drivers talks to a `liteorm.Session`, which is a `DB`
(each statement commits on its own) or a `BoundTx` (statements of one transaction), so the
same `orm` code runs in both and its guarantees differ: what a failing call leaves behind is
undone inside `Transaction` and stays outside it.  `orm.Repo` builds its statements with
`query` and `internal/sqlgen`, calls the model's hooks with an `Event` that holds the same
session, and from the After hooks writes the sidecars.  `lob` is called by applications beside
`orm.Repo` and writes the same rows.  The migrator and `AutoMigrate` run before all of them.
Callers are goroutines over a shared `DB`; structs are each caller's own.

The hazards this leads to are listed with their lines in `PROJECT.json` ("hazards"), each with
the properties that would catch it going wrong, or the reason there is none.

## 2 The models

Source names are kept: an action named `Persist` or `SetVersion` is the code of that name, and
`PROJECT.json` ("map") gives the lines of every definition.  External parts (the database
engines, the blobstore of gosqlite.org) are modelled from the statements the code sends them
and are marked so in the map.

### Savepoints, NestedTx

`NestedTx` is the promise of `liteorm.Tx`: a stack of levels; a nested commit hands its work to
the enclosing level, a nested rollback takes back what was done since the level began, only
the outermost commit makes work durable.  Work is a set of marks, one per write.

`Savepoints` is the code: handles (a `sql.Tx`, a depth, a name made from the depth) and the
statements they send, over an engine with its savepoint stack.  SQLite and MySQL keep or
replace an older savepoint of the same name, SQL Server has no RELEASE, Postgres goes through
pgx, whose handles know when they are finished.  Handles are used from the inside out, the way
`Transaction` and deferred rollbacks use them; finished ones may be rolled back again
(`LateRollback`, for the engines in `DeferOn`) and the connection may be lost at any moment.

### TxRetry

One call of `TransactionRetry`: begin, fn, rollback or commit, decide, back off, again.  Each
round trip may succeed, fail for good or fail in a way `IsRetryable` accepts; COMMIT may also be
executed and not answered; `fn` may return an error or panic; the context may be cancelled at
any moment, the timer and the cancellation may be ready together (Go's `select` then takes
either).  `applied` counts how often fn's effect became durable.

### Migrator

Processes call `UpTo`, `Down`, `DownTo`, `Status` and `Force`; each statement on the ledger or of
a migration is one step that commits on its own, fails, or is the last one of its process.
`done[v]` is how many statements of `v` are in effect; a statement whose effect is there
already is refused, as `CREATE TABLE` is.  The ledger is created in two steps, table and row.
`Calls` is the lists of migrations the callers pass, `FromFiles` says that they went through
`WritePair` and `Load`.  `Exclusive` says that one call runs at a time: the code has no lock, so
this is an assumption about deployments and not something the code provides.

### Lob

A row's id column, the objects of the blobstore, the id in each caller's struct.  `Open` is
`ensure` and a write: create an object, UPDATE the row, and on failure delete the object again;
`Drop`, `Clone` and `InTx` are their statements.  Each commits on its own outside `InTx`.  A
rollback of `InTx` takes the ids back too (the counter is a table), so ids are given out again.
The content of an object is the set of rows through whose structs it was written.  `Reload` says
that callers read structs again after a rollback.  `Uses` says who calls what: a behaviour picks
one use, with its callers, its operations and its faults, and stays with it.

### BatchScan

One walk: a SELECT of the rows after the cursor, `fn` over them, the cursor of the last element,
until a batch is short.  Between its statements rows come, go and come back anywhere.  `fn` works
on the slice from which the loop reads its next cursor afterwards: `Fn` leaves the last key alone,
`FnRaises` leaves any greater one there (as `repo.Create(ctx, &batch[i])` with a zeroed key does) and
`FnLowers` any lower one, zero included.  `moved` remembers which of the two has happened.

### Association

Has-many and has-one (a foreign key in the target's row, polymorphic: with an owner type) and
many-to-many (a join table) relations of owners of two types with equal keys; the statements of
each call, with failures between any two, and the foreign key in the caller's struct of each
target.  A has-one is the same foreign key, so nothing keeps `Append` from giving it several targets;
`Load` then takes one of them.  `Load` is one query for several parents and the grouping of its rows;
a parent without rows is passed over, as in `scatter`.

### OrmRepo

The keyed writes of `orm.Repo` on a soft-delete model with a vector sidecar kept by hooks.  A
row is its `deleted_at` and who made it; a struct has a key, a `deleted_at` and the maker of the
row it was filled from (which is what tells a row from another one that got its key later).  A
call is the row statement, the After hooks, and the statements of the sidecar (DELETE, then
INSERT); outside a transaction each commits on its own and may be the last.  Updates write
`deleted_at` from the struct; Delete stamps it in the row and not in the struct; Restore clears
it in both.  Reads of other callers see what is committed.  Keys come from a counter a rollback
turns back, as SQLite's do.

### Schema, AutoMigrate

`Schema` is a function from a Go type (names, fields, kinds, struct tags as maps) to what `SchemaOf`
caches: the columns with embedded structs flattened under their prefixes, keys and the
auto-increment rule, unique and plain indexes, codecs, large objects, search indexes from tags and
from the method with the later one winning, and the relations with every inference, override and
refusal.  `Planned` gives a type the columns and the single key that both front-ends compute; the
spellings of names (snake case) come with the type, tag parsing is the map itself.

`AutoMigrate` runs calls over such schemas: `AutoMigrate`, `AutoMigrateAll` (`Migrates`),
`DropSearchIndexes` and a reviewer who applies both scripts of `GenerateMigration`.  A call goes
through the stages of `migrateSchema` - columns, indexes, junction tables, search, large objects -
each with the numbers of the statements it still has to send, least first; every statement commits on its own, can fail
(`Fail`, at most `MaxFaults` times) or be refused by an engine to which somebody else has sent it
before, and then the call ends with an error and may be made again.  An index is its table, column and
name, whether it is unique, and the rows it is over (`among`: all of them, or those a soft-delete
column leaves: the partial or functional form of `indexDefs`); `syncIndexes` compares names only.  `Introspected` is
`tryIntrospect`: an error looks like a table that is not there.  The engines differ where the code
does: types and their spellings in the catalogue, the scope of index names, foreign keys to tables
that do not exist yet, search (SQLite only).  The application writes rows all the time; triggers are
part of the write.  `IntrospectColumns` finds no columns in a table that is not there and reports no error, so
a review may generate a script that adds all columns to it; the engine refuses that script (`AddColumn`).  Drops and reviews are run beside no other call (`Exclusive`).

### SqlGen, Query, QueryScope

`SqlGen` is `internal/sqlgen`: SELECT with CTEs, arms and locks, INSERT, upsert and MERGE, UPDATE,
DELETE, for four dialects.  A statement is a sequence of words; a placeholder carries its number and
the value the program gave where it stands, and `args` is what is bound, so that one can be compared
with the other.  An `Expr` holds markers that `AppendFragment` numbers with a running counter, as the
code does with `?`.

`Query` is the builders over it.  There are two select builders, and every call that takes another
query places `inner` in `outer`: CTEs, derived tables, joined subqueries and arms copy it at the
call, predicates and fields hold the builder and render it when the statement is built, after any
change made to it meanwhile.  Checks are where the code has them: a predicate's error and features
when it is made, columns and features again in `resolved`, the terminal's own.  A lock is copied
with its builder (in the code a CTE body shares the pointer, section 6).  A predicate is what its
`render` closure returns: fragments in order, with a place for the builder it holds, and what `cols`,
`feat` and `err` say when it is made.  How it was made is kept beside that (`op`, `vals`, `ps`) for
`QueryScope`, which says what rows a condition selects by walking it, and checks that the text means
the same; it is a module of its own because the walk is RECURSIVE.

How the two fit: the columns `Query` knows are those of a scan plan, which is `Schema!Planned`;
`ScopeExpr` is what `Repo.selectBuilder` adds for a soft-delete field of `Schema`.

## 3 The runs

Sizes are distinct states and times on two workers.

| Run | Module | Checks | Bounds | Size |
|---|---|---|---|---|
| `savepoints` | `MCSavepoints` | `OpenHandlesRestorable`, `ImplementsNestedTx` (refinement), `LateRollbackIsNoOp`, types | four engines, four handles (two levels twice, or four levels), two writes; deferred rollbacks where they are harmless | 78,712, 8 s |
| `savepoints_defer_mssql` | `MCSavepoints` | `LateRollbackIsNoOp` fails | SQL Server with deferred rollbacks | 122 |
| `tx_retry` | `TxRetry` | `AppliedAtMostOnce`, `OutcomeIsHonest`, `ConnectionReturned`, `Returns` (the call ends, and starts no attempt after a cancellation) | `Max` 0, 1 and 3: the corrected value, no retry, a retry of a retry | 356 |
| `migrator` | `MCMigrator` | `CleanMeansComplete`, `InPlace`, `RefusesUntilForce`, `CallsComplete` (every call ends; nil from Up and DownTo means done), types | two processes, three versions, the second of two statements (so that it can be half done), the third without a Down; each release's list | 18,372, 6 s |
| `lob` | `MCLob` | `RowsKeepTheirObjects`, `StoreExact`, `WriteReachesRow`, types | two rows, three ids; two processes that allocate and write in and out of `InTx` with errors and crashes, or one process that makes every call with errors | 894,798, 1 min |
| `batch_scan` | `BatchScan` | `NoneSkipped`, `NoneTwice`, `WalkEnds`, types | five keys, batches of two: two full batches and a short one, room to insert before, in and behind; the last key left alone, raised or lowered at each batch | 1,450,450, 2 min |
| `associations` | `MCAssociation` | `CallsExact` (what Replace, Append, Attach and Load leave when they return nil), `OwnerDecides`, `WritesBack`, types with one owner per target of a foreign key | three owners of two types, two of them with the same key, two targets, all kinds | 554,212, 1 min |
| `orm_repo` | `MCOrmRepo` | `NoResurrection`, `WritesOwnRow`, `SidecarTracks`, types | two callers, two keys, four row statements, two embeddings | 1,196,446, 2 min |
| `auto_migrate` | `MCAutoMigrate` | `NilMeansDeclared`, `RerunChangesNothing`, `SearchFollows`, `ModelsAgree`, `DownUndoesUp`, `EventuallyMigrated`, types | eleven struct types; eight pairs of calls by two processes on four engines; one failing statement, one row | 134,668, 2 min |
| `auto_migrate_soft_delete` | `MCAutoMigrate` | `UniqueIndexesFixed` fails | the same instance; the second release adds a soft-delete field | - |
| `queries` | `MCQuery` | `BindsInPlace`, `RowsInScope`, `FeaturesGated`, `NothingUnknownSent` | nine families of calls: up to four calls on two select builders or three on a write builder, then terminals, one after another | 166,477, 2 min |
| `query_lock_within` | `MCQuery` | `RefusedWithin` fails | one family: a lock asked for in a subquery of a predicate, on SQLite and Postgres | - |

What they show, and why the bounds are enough:

- **Savepoints.** A name collides only with a handle of the same depth opened before, so two
  handles of one depth under one parent, and their parent, exhibit every collision; four handles
  leave room for a level above or below.  The refinement is checked through connection loss and
  for all four engines.  The proofs allow any number of handles and writes.
- **TxRetry.** The only numbers are the attempts, compared with `Max` and with each other; 3 has
  a first, a middle and a last attempt.  The proofs of section 5 remove the bound for safety.
- **Migrator.** A version is before, at or behind the one that was interrupted, and a migration
  can be undone, half done or done; three versions around one of two statements have all of it.  The
  proofs remove the bound for everything but that a call ends.
- **Lob.** A wrong object needs an id to be given out twice (one rollback) and two rows; the third
  id gives a replacement next to a leak.  The two uses ask two questions: whether concurrent
  allocation with crashes can corrupt, and whether all calls of one process agree with the store.  The
  proofs remove the bounds, and the restriction to these uses.
- **BatchScan.** See the table; proofs remove the bound for safety.  `NoneSkipped` holds unless fn has
  raised the last key of a batch, whatever else it did, `NoneTwice` unless fn has lowered one, and
  `WalkEnds` says that the walk ends or fn lowers the key again and again: each of the two changes does
  the harm of its own kind and no other.  The keys are finite, so endless insertion ahead of the cursor is
  outside the model.
- **Association.** A wrong owner needs two owners that share a key or a type, a partial failure two
  targets, and so does a has-one with one too many.  `CallsExact` says of `Load` what a parent gets
  that has rows, and that structs which were not loaded stay; of a parent without rows it says nothing,
  because there the code and the guide differ (section 6).  The proofs allow every set of owners and
  every finite set of targets.
- **OrmRepo.** The shortest trouble takes a Create, a statement of a second caller on the same row
  and a third one that overwrites it; the fourth gives a rollback something to come back to.  Two
  keys let one be reused while the other is there.  `tracked` limits what `SidecarTracks` claims: a
  call outside a transaction that is cut off between row and sidecar, or crosses another one on the
  same row, does leave the sidecar behind, as docs/guides/hooks.md concedes ("inside a transaction
  you'd roll back"); inside a transaction it never does.
  The proofs remove all four bounds.
- **AutoMigrate.** A pair is the least that interferes, one failure is enough to leave any half of a
  schema behind (a second one only shortens the next attempt), and one row is there before, between
  or after the statements.  The types together have every kind of field, index and relation; each
  pair is about one thing: two releases, a shared junction table, sidecars made, dropped and made
  again, a review, constraints, stores and their options, models that cannot be migrated.
  `NilMeansDeclared` says that nothing of a model is missing by name, and of the form of an index that a
  model of the program asks for it: with the form each model asks for itself it would be
  `UniqueIndexesFixed`, which fails (section 6).  Columns that are there keep their type, by design.
  The proofs allow any processes, models, tables, rows and number of failures; only
  `EventuallyMigrated` remains as bounded.
- **Schema.** Its definitions are checked through `ModelsAgree` and `NilMeansDeclared`: a relation
  whose key is nowhere, or a column `Diff` reports for its spelling, shows in the database.
- **Query.** A wrong number needs two values that come from different places, a lost parenthesis two
  conditions, a missed check a predicate in a predicate; the families give each call to every
  other one up to depth two, and up to depth four (two placements, of parts that have values
  themselves) where values travel.  Predicates nest to depth three.  `FeaturesGated` is about the words of
  what is sent, and says nothing of whether a refusal reaches the caller; `RefusedWithin` does, and fails.

Every property of a passing run has a mutant of the modelled code, defined next to it (marked
"mutant"), under which TLC finds it violated: `DecideRetriesAll` retries an error of COMMIT that is
not retryable, `SetVersionKeepsDirty` does not write the dirty flag, `MatchesAny` forgets the scope
predicate, `FragmentNumbered` numbers the placeholders of a subquery by itself, and so on.  The module's
type invariant is not checked again in `tx_retry` (the proofs use it) and `queries` has none: its state
is what the calls built.

## 4 Fairness, deadlock, symmetry

Safety is checked without fairness.  Liveness assumes only that a process that can take its next
step does (`WF`), which is what a goroutine that is not blocked does: `TxRetry` of the call's own
steps (each answer of the engine arrives in the end, with success or an error; a driver that hangs
without a deadline on its context hangs the caller too), `Migrator` of the steps of each call, `BatchScan` of
the steps of the walk, and `AutoMigrate` of the steps of a call and of
making a failed call again, which is a deployment that restarts until its migration succeeds: with at most
`MaxFaults` failures of statements, `EventuallyMigrated` says that nothing a failed attempt or another
release left behind stops it.  That one is strong (`SF`), because a deployment has to find its turn: nothing
is run beside a review or a drop, and a review of a table that is not there yet fails and may be made again
and again.  Whoever keeps them apart has to let the deployment in between.  The environment (cancellation, other sessions, crashes, new calls) is never
fair: nothing relies on it.

`CHECK_DEADLOCK FALSE` is said where the modelled system really comes to its end: one call of
`TransactionRetry`, one walk, the handles a behaviour of `Savepoints` may open, and the calls of a
program that builds queries (`depth`).  In the others a
deadlock would be reported.

Symmetry is used in `savepoints` (marks), `lob` (rows) and `orm_repo` (callers, embeddings): no definition
compares two of them otherwise than by equality or chooses one, and none of these runs checks liveness
(`ImplementsNestedTx` is a safety specification, `WriteReachesRow` an action property).

## 5 The proofs

The theorems of a component are in a module of their own: `TransactionProofs` has those of
`Savepoints` and of `TxRetry`, `QueryProofs` those of `Query` and of the `SqlGen` under it; `Schema`
has none.  Every theorem is about the specification the runs check, for every value of the
constants that satisfies the assumption its module states (`SavepointsAssumption`,
`PoliciesAssumption`, `LobAssumption`, ...): the shape of the constants, and no bound
(only the targets of associations are said to be finite).  `Query` assumes nothing: its scenarios
are any sets of calls, dialects and terminals, and any depth.  Other hypotheses are in the statement of the theorem and are named below.

| Module | Theorems | Beyond the module's assumption |
|---|---|---|
| `TransactionProofs` | `Types` | - |
| | `AlwaysRestorable`, `LateRollbackStutters`, `HandlesNest` | `"mssql" \notin DeferOn` |
| | `AtMostOnce`, `HonestOutcome`, `NoConnectionKept`, `NotStartedAgain` | - |
| `MigratorProofs` | `MigratorTypes`, `LedgerIsTrue`, `StatementsInPlace`, `RefusalHolds`, `NilMeansDone` | `Deployment` |
| `LobProofs` | `Types`, `RowsKeep`, `StoreStaysExact`, `WritesReach` | `Reread` |
| `BatchScanProofs` | `ScanTypes`, `ScanOnce`, `ScanComplete` | - |
| `AssociationProofs` | `Types`, `CallsAreExact`, `OwnersDecide` | - |
| | `StructsFollow` | `Assignable` |
| `OrmRepoProofs` | `Types`, `SidecarFollows`, `Deleted` | - |
| | `OwnRowsWritten` | `Reload` |
| `AutoMigrateProofs` | `Types`, `NilIsDeclared`, `RerunsAreQuiet`, `ScriptsAreInverse` | - |
| | `SidecarsFollow` | `SearchNames` |
| | `ModelsMatch` | `KeysDeclared`, `TypesSettled` |
| `QueryProofs` | `BuildersWellFormed`, `ValuesInPlace`, `GatesHold`, `ColumnsKnown` | - |

Hardly any invariant of the runs is inductive.  What each proof adds (`IInv` in the modules, `RetryInv` for `TxRetry`,
checked by TLC on the component's run before it was proved), and why:

- **`Savepoints`.**  `Restorable` says where the savepoint of an open handle is: none after it
  in the engine's stack has its name or the name of a handle further out.  Names come from depths
  and repeat, so this needs `Nesting` (what was opened after an open level lies deeper) and
  `NoGaps` (no depth is left out).  `NamesGrow`, `NamesAreOld` and `NoneLeft` are what RELEASE
  gives on the engines that have it, and with them a late rollback is refused.  SQL Server leaves
  the names of finished handles behind, harmlessly as long as nobody rolls back to them: a handle
  opened later takes the name again.  `HandlesNest` is the refinement: `Levels` says which level
  of `NestedTx` an open handle is, `PushesLevel` and `PopsLevel` what opening and ending one does to
  the stack, and `StepImplements` has one step per action.  The hypothesis is the finding
  of section 6: `savepoints_defer_mssql` shows what happens without it.
- **`TxRetry`.**  The invariant is `TypeOK /\ AppliedIsFinal /\ WaitHasNext /\
  ConnectionReturned`: `applied <= 1` alone would let a second attempt follow the first success.
  `AppliedIsFinal` says where the call can be once something is durable - at the end, or in front
  of a decision with an error that is not retryable - and `WaitHasNext` that the back-off is
  entered only with an attempt left.  `NotStartedAgain` is the half of `Returns` that needs no
  fairness: no step enters fn after a cancellation.
- **`Migrator`.**  `Deployment`: one migrator at a time, each list a prefix of history (a release
  appends to what the previous one had), and no Down that is a comment.  Without the first, two runs
  interleave; without the second, `Up` runs a late version out of order (`migrate.go:111` compares
  with the highest only); the third is the finding of section 6.  The invariant adds `OneCall`,
  `FreshLedger` (nothing is migrated before there is a ledger) and `CallKnows` (what a call in the
  middle knows: the version it read is still the ledger's, the statements before its own are in
  effect).  There is one lemma per step of a call, and `Focus` reduces the invariant to the process
  that moves.  `NilMeansDone` is what `CallsComplete` says besides that a call ends.  It needs
  `Applied`, which is about a list and not about the ledger: of what is in the list of an `UpTo`, all up to
  `cur` is in effect, also where no row says so yet.
- **`Lob`.**  A rollback gives back the whole store and the counter of ids, and leaves structs and
  calls of the other processes where they are.  So what is true of the store must be true of the
  snapshot too (`saved`), with the structs and calls of everybody but the process in the
  transaction (`Others`).  `GivenOut` bounds every id a process can come across; `NewUnnamed` and
  `NewUnknown` say that no row, struct or other call knows an object between its creation and the
  UPDATE of its row; `TxIds` that what a transaction has put into rows it has created.  From
  these follows `RowsKept`, which is the property of both views.  `StoreStaysExact` and
  `WritesReach` are about a lone process: `InStep` keeps its structs equal to the columns, `Exact`
  says which object is in excess while a call is in the middle.  `Reread` (callers read structs
  again after a rollback, or there are none) is needed: section 6 tells what happens without.
- **`BatchScan`.**  `Behind`: what was given to fn is behind the cursor and before the batch, until fn
  lowers a last key.  `Ahead`: what was there all the time and was not given yet is ahead of the cursor, in
  the batch, or behind a *full* batch, until fn raises one.  Each survives the other change, so
  `ScanOnce` and `ScanComplete` have one condition each.
- **`Association`.**  `Settled` says which statements a call may still send and for which targets,
  `Progress` which rows it has left so far: those that are done are linked, and after the Clear of
  a Replace nothing else is, whatever was there before: a has-one may have had several targets.
  `OneOwner` is what a foreign key can hold.  Owners that share a key with one of another type are among
  the owners; nothing is assumed of them.  `StructsFollow` needs its hypothesis: with `Assignable = FALSE`
  TLC finds `WritesBack` violated on the instance of `associations`.
- **`OrmRepo`.**  As in `Lob`, a rollback may come at any time, so each part speaks of the database
  and of the snapshot.  `InOrder`: keys are given out in order and nothing is above the last.
  `InCalls`: which keys calls in progress work on.  `Tracks`: of the callers at most one has the
  sidecar of a row to bring up to date, and then it is the embedding last written.  `OwnRows`
  (a struct stands for the row it was filled from, or for one that is gone) holds under `Reload`
  only, and only `OwnRowsWritten` rests on it.
- **`AutoMigrate`.**  `Made` says what every stage of a migration has made so far: the columns
  whose statements are done, the indexes, the junction tables before relation `k`, the sidecars
  before search index `k` with the triggers of the current one, the stores, and everything of the
  models before.  It stays true because nothing but a review or a drop takes a thing out of
  the catalogue, and nothing runs beside those (`Alone`).  A statement that another
  release has sent first is either one with IF NOT EXISTS, whose effect is there already, or is
  refused and ends the call with an error.  `Stages` says that a call's statements are those of its stage, `Clean` that a call that
  found everything has none to send, `Reviews` that the columns of the table are those of before
  and those applied so far.  One lemma for each part of `Reached` says what a
  step makes of it from stage to stage.  `Sidecars` is for the last theorem: of a sidecar that is
  ready, each trigger is there, and the rows agree.  `SearchNames`: a sidecar of one name is of one
  table and one kind.  Default names carry the table (`<table>_fts`, `<table>_vec`), and `orm/search.go:186` refuses equal names within a
  model; nothing refuses them in two models, whose rows would then share a sidecar.
  `IndexesMade` is for the second half of `NilIsDeclared`: only calls make indexes, and in the form of
  their models, so an index found by name has the form of one of these.
  `Agreement` is for `ModelsMatch`.  `Wholes`: a table has all columns of one of the releases that make
  it, or is not there - it is made by one statement, and a review takes back only what it has added, so
  a review has to start from a whole table too.  `Kept`: what a call that returned nil has made is
  still there, and was there before any review since.  `Typed`: every column has the type some model
  gives it.  `Validated`: nothing is sent for a model that `SchemaOf` refuses.  That gives the agreement
  if the schemas do their part, which is what the hypotheses say.  `KeysDeclared`: a relation goes from a
  column of its model to one that all releases of its target declare, and programs that share a
  junction table name its columns alike; a release that does not would make the table without the key.
  `TypesSettled`: no junction has the name of a model's table, and two releases that write a type
  into the tag of one column write the same, or one DDL is generated with; between other spellings
  `typenorm.go` reports nothing where it does not know one of them.  What `Schema` computes has
  both: TLC evaluates them on the types of `auto_migrate` that `SchemaOf` accepts (`MCKeysDeclared`,
  `MCTypesSettled`).
- **`Query`.**  The invariant is about text, and the same for every clause.  `Buffers(d)` are the
  outputs under construction whose k-th placeholder stands for the k-th argument, with nothing
  else between that looks like a placeholder, and whose words the engine and the model have;
  `Exprs(F)` are the raw fragments, with markers in place of numbers, that may be put into one.
  `InPlace` says this with the positions of the placeholders, `FragmentPlaces` is that `AppendFragment`
  numbers them on from where the buffer stands, and then there is one lemma per operator of
  `SqlGen`: it takes a buffer to a buffer (`LoopStays` does it for all that loop).  A builder may hold words its
  engine lacks as long as it is not built, so `BuilderOK` is conditional: what is in it is granted
  *if* the features it requires are there and its checks pass, which is what `Resolved` tests before
  anything is rendered, and what a subquery that fails later avoids by being an empty text.
  `GatesHold` and `ColumnsKnown` would not be invariants without that condition, `ValuesInPlace` not
  without the word part: a marker is a word too.  There is one step per call of the builders.

Only model-checked:

- liveness (`WalkEnds`, `EventuallyMigrated`, and of `Returns` and `CallsComplete` that a call ends),
  which is out of the prover's reach;
- that `Schema` infers no relation whose key is not declared: it walks a Go type with RECURSIVE
  operators, so that `KeysDeclared` and `TypesSettled` are hypotheses of `ModelsMatch` and TLC evaluates
  them, and `ModelsAgree`, on the types of the run;
- `RowsInScope`, which compares the condition that was sent with the meaning of the calls that
  built it: conditions nest to any depth, so their meaning is RECURSIVE (`QueryScope`), and the comparison
  an induction over them.

## 6 Where code and documentation disagree

Shown by a run:

- **A deferred rollback on SQL Server undoes committed nested work** (`savepoints_defer_mssql`).
  docs/guides/transactions.md:16 calls it "a no-op once you've committed".  `savepoint.Rollback`
  has no guard for a finished handle; on SQLite and MySQL the statement fails because RELEASE has
  removed the savepoint, on SQL Server there is no RELEASE.
- **A full unique index survives the arrival of soft delete** (`auto_migrate_soft_delete`).
  migrate.go:104 and docs/guides/migrations.md:32 say that unique indexes get the soft-delete fix, "so a
  soft-deleted row stops occupying the unique key".  `syncIndexes` looks for names only
  (`orm/migrate.go:368`), so the table of a release without soft delete keeps its index over all rows
  and AutoMigrate returns nil.
- **A subquery that is refused is sent as `IN ()`** (`query_lock_within`).  setops.go:96 says that a
  clause the dialect lacks is rejected before any SQL runs, and docs/guides/query.md:306 that a lock raises "a
  clear build error" on SQLite.  The features a subquery asks for itself are in no check of the outer
  builder (`featUnion` takes those of its predicates), and the error its own rendering gives is dropped
  (`subquery.go:33`): nothing the engine lacks is sent, but what is sent is no query.

Visible in the models, and shown by no run (what to change to see it is in parentheses):

- An empty Down is rolled back as if it did something.  `WritePair` promises an "explicitly
  irreversible" step and writes a comment (`emit.go:21`); `Down` tests for an empty string
  (`migrate.go:141`), runs no statement and lowers the version (`migrator.cfg` with `FromFiles = TRUE`
  and `IrreversibleStays` as an invariant).
- `Append` zeroes the foreign key in the struct when the field is the `sql.NullInt64` that
  docs/guides/associations.md:60 recommends and the key an `int64` (`association.go:104`); line 184 of the guide
  says that it is written back (`associations.cfg` with `Assignable = FALSE`).
- `Load` passes over a parent without rows (`loadpath.go:230`), so the rows of an earlier Load stay in
  its field; the guide (associations.md:184) and association.go:23 name `Load` as the way to refresh the
  field after any write.  `Scattered` has it; `CallsExact` leaves such parents out.
- `Append` gives a has-one a second target (`association.go:136`), while the guide (associations.md:181) says
  that its `Count` is 0 or 1; only `Replace` detaches.  `Load` then shows one of them.
- `Delete` of a target that belongs to another owner leaves its row alone and zeroes the key in its
  struct (`association.go:201`).
- `FindInBatches` takes its cursor from what fn has left in the last element (`read.go:170`): a
  greater key leaves rows out, a lower one gives rows again, and a blanked one may do so for ever.

Seen while modelling and left out of the models' assumptions or noted there:

- `Clone` frees the previous object of dst before the UPDATE of its row (`lob/info.go:88`), `Drop` the
  object before the row: when the UPDATE fails, the row names an object that is gone.
  `RowsKeepTheirObjects` and `StoreExact` speak of what the other calls leave.  info.go:62 promises
  "freed and replaced".
- A raw `Where("a OR b")` is joined to the other conditions with AND and without parentheses
  (`sqlgen.go:240`), and takes a read out of the soft-delete scope and of every other `Where` and
  `Filter` (docs/guides/orm.md:191 and query.go:76 say conditions are AND-combined).  `RowsInScope` sets
  such a condition aside when it is not alone; `FindInBatches` over one repeats rows.
- An index tag that is removed or changed is not noticed (`orm/migrate.go:368`), and of two fields that
  share an index name the second gets none.
- An error while reading the columns is taken for "no such table" (`introspect.go:210`): the caller
  sees the error of a CREATE TABLE that exists.
- `ADD COLUMN` leaves NOT NULL and CHECK out (`introspect.go:327`); the Postgres column query has no
  schema filter; a junction table is not compared column by column; a self-referential many-to-many
  without overrides has the same column twice and is refused by the engine.
- Rows written before a sidecar was provisioned are not in it (`late` in `AutoMigrate`), and a sidecar or
  trigger whose columns have changed keeps its old form (IF NOT EXISTS).  `DropSearchIndexes` beside an
  `AutoMigrate` can leave triggers without a sidecar; the model runs it alone.
- A relation in an embedded struct with a prefix is inferred from the unprefixed columns
  (`relations.go:81`), and its owner key is that of the outer model.
- The same `IN ()` is sent when a subquery gets an unknown column after it was placed; arms lose their own CTEs, arms, order and limit; a CTE's own CTEs are dropped
  (`sqlgen.go:124`).
- Some features are gated nowhere: `INTERSECT ALL` and `EXCEPT ALL` on SQLite and SQL Server, the word
  RECURSIVE and a WITH inside a derived table on SQL Server, OFFSET without LIMIT on SQLite and MySQL,
  JSON `->>`.  `FeaturesGated` speaks of the features `dialect.Feature` names.
- `First` leaves `LIMIT 1` in its builder; `Window.PartitionBy` drops the arguments of its fields;
  `Column.Of` is ignored by comparisons; a `?` inside a literal is numbered as a placeholder
  (`sqlgen.go:94`); a CTE body shares the lock of its builder by pointer.
- `InsertMany` sends its chunks outside a transaction (`query/repo.go:51`); `query.Repo.Insert` leaves
  the parts of a composite integer key out of the statement (`internal/scan/tags.go:78` marks each one
  auto; docs/guides/orm.md:65 describes composite keys as the caller's to assign).
- A schema that failed for a codec registered too late stays failed in the cache; `UsePluralTableNames`
  races with schemas being built.

- Two handles opened under one parent at the same time share a savepoint name
  (`sqladapter.go:232`): the rollback of the first takes back only the work since the second.
  `Savepoints` uses handles from the inside out.
- `ensureLedger` (`migrate.go:237`) is two statements.  After a crash between them there is a table
  without a row, `setVersion` updates nothing and migrations run unmarked; `CleanMeansComplete` and
  `InPlace` speak of ledgers that have their row.
- `Status` (`migrate.go:184`) reports a version without its dirty flag.
- `Up` skips a version that was added below the highest one applied (`migrate.go:111`).
- With `Reload = FALSE`, a struct whose allocation or creation was rolled back keeps the id, which is
  later given to another row: `lob` writes into the object of another row, `Save` updates the row of
  another caller.  `TransactionRetry` asks for an fn that is safe to run more than once; the id in
  the struct is an easy way not to be.
- Two callers that `Open` one unallocated row at a time both allocate; the second UPDATE wins and the
  content written through the first is unreachable (`lob.go:156`).
- After a unique violation `Attach` goes on (`load.go:160`), which inside a Postgres transaction cannot
  work.
- `Update` through `IncludeDeleted` of a struct that was read before a Delete clears `deleted_at`:
  `NoResurrection` allows it as the caller's choice of scope.
- `Upsert` with a conflict target fires AfterCreate and writes the sidecar under the struct's key even
  when the database did nothing; `ON CONFLICT(slug)` does not match the partial unique index a
  soft-delete model gets.

## 7 What is not modelled

The text of SQL beyond words and placeholders, quoting, formatting, logging and reflection, except where
a model says so.  Pure wrappers (`changeset`, `vault`, driver glue, codecs), observers, `LISTEN`, the
SQL of full-text and vector search, build-time generators, and the conformance suite and examples, which
were read as documentation.  In the modelled parts: reads that change nothing (`Stat`, `Size`, `Count`
outside associations); large-object versions and the values of their options; the schema caches and
plural names; the options of one search index (weights, tokenizers, metrics, encodings: valid or not);
column defaults, sizes and checks; the keyed calls and chunks of `query.Repo`; the parsing of migration
files (beyond an empty Down); in `orm.Repo`, `Upsert`, `CreateInBatches`, the column lists of `Select` and
`Omit`, automatic times and hooks that write through the event's session.

## 8 Plan

Done: `NestedTx`, `Savepoints`, `TxRetry`, `Migrator`, `Lob`, `BatchScan`, `Association`, `OrmRepo`,
`Schema`, `AutoMigrate`, `SqlGen`, `Query`, in the order of what an application loses when they are
wrong, with proofs for all but `Schema` (`NestedTx` is what `Savepoints` is proved to implement).

Next, proofs: the lemmas of `MigratorProofs` and `AutoMigrateProofs` gathered into fewer, and
`EventuallyMigrated` brought nearer with the safety half of its argument (a measure that no step
but a failure raises).

Models that would add to these, if anything is added: `Upsert` and `CreateInBatches` in `OrmRepo`; the
chunks of `InsertMany` and the keys `InsertManyCapturingPK` reads back by position; observers; the
connection an open `Iter` holds.
