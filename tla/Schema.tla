------------------------------- MODULE Schema -------------------------------
(***************************************************************************)
(* From a Go struct type to the metadata of a model, twice over: the orm   *)
(* front-end's Schema (orm/schema.go, relations.go, search.go, lob.go) and *)
(* the scan plan of the query front-end (internal/scan).  Both walk the    *)
(* same fields and must agree on what a row looks like.                    *)
(*                                                                         *)
(* A type is a record of its names and exported fields.  A field has a Go  *)
(* name, the snake_case form of it, a kind and its struct tags: a function *)
(* from the tags that are there (db, orm, gorm, vec, fts, lob) to their    *)
(* options; a field of a struct type (or of a slice, or a pointer, of one) *)
(* carries that type in "of".                                              *)
(***************************************************************************)
EXTENDS Naturals, SequencesExt

CONSTANT
  Codecs        \* the codecs that are registered when a schema is built

IntKinds == {"int64", "int32", "lob"}

StructKinds == {"struct", "slice"}

Tagged(f, tag) == tag \in DOMAIN f.tags

Has(f, tag, opt) == Tagged(f, tag) /\ opt \in DOMAIN f.tags[tag]

HasAny(f, tag, opts) == \E opt \in opts : Has(f, tag, opt)

Value(f, tag, opt) == IF Has(f, tag, opt) THEN f.tags[tag][opt] ELSE ""

FirstNonEmpty(a, b) == IF a # "" THEN a ELSE b

\* The orm tag hides the gorm tag, option by option they are never mixed.
TagOf(f) == IF Tagged(f, "orm") THEN "orm" ELSE "gorm"

(***************************************************************************)
(* Columns.                                                                *)
(***************************************************************************)
TableName(t) == IF t.method # "" THEN t.method ELSE t.snake

\* A struct is flattened if it is embedded or tagged so, else it is a relation.
Embedded(f) ==
  /\ f.kind = "struct"
  /\ \/ HasAny(f, "orm", {"embedded", "embed"})
     \/ Has(f, "gorm", "embedded")
     \/ f.anonymous

EmbeddedPrefix(f) ==
  IF HasAny(f, "orm", {"embedded", "embed"})
    THEN FirstNonEmpty(Value(f, "orm", "embeddedprefix"), Value(f, "orm", "prefix"))
    ELSE Value(f, "gorm", "embeddedprefix")

IsRelation(f) == f.kind \in StructKinds /\ ~Embedded(f)

Finalize(f, name, pk, auto, noAuto, codec) ==
  LET column == FirstNonEmpty(name, f.snake)
      key    == pk \/ column = "id"
  IN [name |-> column, pk |-> key, codec |-> codec,
      auto |-> auto \/ (key /\ ~noAuto /\ f.kind \in IntKinds)]

ColumnTag(f) == IF Tagged(f, "db") THEN "db" ELSE TagOf(f)

Skipped(f) ==
  LET tag == ColumnTag(f)
  IN IF tag = "gorm" THEN Has(f, tag, "-") ELSE Value(f, tag, "name") = "-"

ResolveColumn(f) ==
  LET tag == ColumnTag(f)
  IN CASE tag = "db" ->
            Finalize(f, Value(f, tag, "name"), Has(f, tag, "pk"),
                     HasAny(f, tag, {"auto", "autoincrement"}), Has(f, tag, "noauto"),
                     FirstNonEmpty(Value(f, tag, "codec"), Value(f, tag, "serializer")))
       [] tag = "orm" ->
            Finalize(f, Value(f, tag, "name"), HasAny(f, tag, {"pk", "primarykey"}),
                     HasAny(f, tag, {"auto", "autoincrement"}), Has(f, tag, "noauto"),
                     FirstNonEmpty(Value(f, tag, "codec"), Value(f, tag, "serializer")))
       [] tag = "gorm" ->
            Finalize(f, Value(f, tag, "column"), Has(f, tag, "primarykey"),
                     Has(f, tag, "autoincrement"), FALSE,
                     FirstNonEmpty(Value(f, tag, "serializer"), Value(f, tag, "codec")))

\* The columns of a type in field order: embedded structs are flattened under
\* their prefix, relations and skipped fields are not columns.
RECURSIVE Walk(_, _)
Walk(t, prefix) ==
  FlattenSeq([i \in DOMAIN t.fields |->
    LET f == t.fields[i]
    IN CASE Embedded(f) -> Walk(f.of, prefix \o EmbeddedPrefix(f))
         [] ~Embedded(f) /\ (IsRelation(f) \/ Skipped(f)) -> <<>>
         [] OTHER ->
              LET c == ResolveColumn(f)
              IN <<[field |-> f, name |-> prefix \o c.name, pk |-> c.pk,
                    auto |-> c.auto, codec |-> c.codec]>>])

Names(columns) == {columns[i].name : i \in DOMAIN columns}

IsKey(c) == c.pk

\* The plan of a type is made once: its columns and the key, if it has one column.
Planned(t) ==
  LET columns == Walk(t, "")
  IN [t EXCEPT !.columns = columns,
               !.key     = LET keys == SelectSeq(columns, IsKey)
                           IN IF Len(keys) = 1 THEN keys[1].name ELSE ""]

GoType(kind) ==
  CASE kind \in {"nullint64", "lob"} -> "int64"
    [] kind = "nulltime"             -> "time"
    [] OTHER                         -> kind

\* readFieldMeta: the options of the orm tag, else those of the gorm tag.
HasOption(f, opts) == HasAny(f, TagOf(f), opts)

Denied(f, opt) == Has(f, TagOf(f), opt) /\ Value(f, TagOf(f), opt) = "false"

\* addColumn.  The database generates no part of a composite key.
Field(c, composite) ==
  LET f    == c.field
      soft == HasOption(f, {"soft_delete", "softdelete"})
      type == Value(f, TagOf(f), "type")
  IN [go |-> f.go, column |-> c.name, pk |-> c.pk, auto |-> c.auto /\ ~(composite /\ c.pk),
      notNull    |-> (HasOption(f, {"notnull", "not null"}) \/ c.pk) /\ ~soft,
      unique     |-> HasOption(f, {"unique", "uniqueindex"}),
      index      |-> HasOption(f, {"index"}),
      indexName  |-> Value(f, TagOf(f), "index"),
      softDelete |-> soft,
      readable   |-> ~HasOption(f, {"writeonly"}) /\ ~Denied(f, "->"),
      writable   |-> ~HasOption(f, {"readonly"}) /\ ~Denied(f, "<-"),
      codec      |-> c.codec,
      lob        |-> f.kind = "lob",
      sqlType    |-> type,
      goType     |-> IF c.codec \in DOMAIN Codecs /\ type = ""
                       THEN Codecs[c.codec] ELSE GoType(f.kind)]

FieldsOf(t) ==
  [i \in DOMAIN t.columns |->
     Field(t.columns[i], Cardinality({j \in DOMAIN t.columns : t.columns[j].pk}) > 1)]

CodecsValid(fields) ==
  \A i \in DOMAIN fields :
    fields[i].codec # "" => ~fields[i].pk /\ fields[i].codec \in DOMAIN Codecs

(***************************************************************************)
(* Relations.  The foreign key is inferred from the names of the types and *)
(* must be there; an inference that finds no column is an error.           *)
(***************************************************************************)
Refused == [kind |-> "error"]

\* An override names a column or a Go field; a field wins.
ResolveCol(t, name) ==
  LET named == {i \in DOMAIN t.columns : t.columns[i].field.go = name}
  IN IF named = {} THEN name ELSE t.columns[CHOOSE i \in named : \A j \in named : j <= i].name

Override(f, ormKeys, gormKey) ==
  IF Tagged(f, "orm")
    THEN FirstNonEmpty(Value(f, "orm", ormKeys[1]), Value(f, "orm", ormKeys[2]))
    ELSE Value(f, "gorm", gormKey)

FK(f)  == Override(f, <<"fk", "foreignkey">>, "foreignkey")
Ref(f) == Override(f, <<"references", "ref">>, "references")
M2M(f) == Override(f, <<"m2m", "many2many">>, "many2many")
JoinFK(f)  == Override(f, <<"joinfk", "joinforeignkey">>, "joinforeignkey")
JoinRef(f) == Override(f, <<"joinref", "joinreferences">>, "joinreferences")
Polymorphic(f) == FirstNonEmpty(Value(f, TagOf(f), "polymorphic"), Value(f, TagOf(f), "poly"))

\* The column on the owner that the other side refers to.  A relation of an
\* embedded struct is inferred from the names and columns of that struct, but
\* with the key and the table of the model it is embedded in (outer).
Referenced(owner, outer, f) ==
  IF Ref(f) # "" THEN ResolveCol(owner, Ref(f)) ELSE outer.key

KeyedBy(owner, target, f) ==
  FirstNonEmpty(ResolveCol(target, FK(f)), owner.snake \o "_id")

Relation(f, kind, target, ownerKey, targetKey) ==
  [go |-> f.go, kind |-> kind, target |-> TableName(target), targetType |-> target.name,
   ownerKey |-> ownerKey, targetKey |-> targetKey,
   constraint |-> kind = "belongs-to" /\ HasOption(f, {"constraint"}),
   join |-> "", ownerFK |-> "", targetFK |-> "", typeColumn |-> "", typeValue |-> ""]

InferPolymorphic(owner, outer, target, f) ==
  LET named(opt, suffix) ==
        LET v == Value(f, TagOf(f), opt)
        IN IF v = "" THEN Polymorphic(f) \o suffix ELSE ResolveCol(target, v)
      id   == named("polymorphicid", "_id")
      type == named("polymorphictype", "_type")
  IN IF outer.key = "" \/ ~({id, type} \subseteq Names(target.columns))
       THEN Refused
       ELSE [Relation(f, IF f.kind = "slice" THEN "has-many" ELSE "has-one",
                      target, Referenced(owner, outer, f), id)
               EXCEPT !.typeColumn = type,
                      !.typeValue  = FirstNonEmpty(Value(f, TagOf(f), "polymorphicvalue"),
                                                   TableName(outer))]

InferM2M(owner, outer, target, f) ==
  IF "" \in {outer.key, target.key}
    THEN Refused
    ELSE [Relation(f, "many-to-many", target, outer.key, target.key)
            EXCEPT !.join     = M2M(f),
                   !.ownerFK  = FirstNonEmpty(JoinFK(f), owner.snake \o "_id"),
                   !.targetFK = FirstNonEmpty(JoinRef(f), target.snake \o "_id")]

InferOnTargetGuess(kind, owner, outer, target, f) ==      \* mutant: the name is guessed
  IF outer.key = "" THEN Refused
    ELSE Relation(f, kind, target, Referenced(owner, outer, f), KeyedBy(owner, target, f))

\* The target must have the key: a name that is not there is never guessed.
InferOnTarget(kind, owner, outer, target, f) ==
  IF outer.key = "" \/ KeyedBy(owner, target, f) \notin Names(target.columns)
    THEN Refused
    ELSE Relation(f, kind, target, Referenced(owner, outer, f), KeyedBy(owner, target, f))

OwnerFK(owner, target, f) ==
  FirstNonEmpty(ResolveCol(owner, FK(f)), target.snake \o "_id")

\* A struct field belongs to its target if the owner has the key, else has one.
InferSingular(owner, outer, target, f) ==
  IF OwnerFK(owner, target, f) \notin Names(owner.columns)
    THEN InferOnTarget("has-one", owner, outer, target, f)
    ELSE LET key == FirstNonEmpty(ResolveCol(target, Ref(f)), target.key)
         IN IF key = "" THEN Refused
              ELSE Relation(f, "belongs-to", target, OwnerFK(owner, target, f), key)

InferRelation(owner, outer, f) ==
  CASE Polymorphic(f) # "" -> InferPolymorphic(owner, outer, f.of, f)
    [] Polymorphic(f) = "" /\ f.kind = "struct" -> InferSingular(owner, outer, f.of, f)
    [] Polymorphic(f) = "" /\ f.kind = "slice" /\ M2M(f) # "" -> InferM2M(owner, outer, f.of, f)
    [] OTHER -> InferOnTarget("has-many", owner, outer, f.of, f)

RECURSIVE RelationsOf(_, _)
RelationsOf(t, outer) ==
  FlattenSeq([i \in DOMAIN t.fields |->
    LET f == t.fields[i]
    IN CASE Embedded(f)   -> RelationsOf(f.of, outer)
         [] IsRelation(f) -> <<InferRelation(t, outer, f)>>
         [] OTHER         -> <<>>])

(***************************************************************************)
(* Search indexes: those of the vec and fts tags, then those of the        *)
(* SearchIndexes method, which win when two name the same sidecar.         *)
(***************************************************************************)
RECURSIVE GoFields(_)
GoFields(t) ==
  FlattenSeq([i \in DOMAIN t.fields |->
    LET f == t.fields[i]
    IN IF Embedded(f) THEN GoFields(f.of) ELSE <<f>>])

FtsTag(f) == IF Tagged(f, "fts") THEN "fts" ELSE "fts5"

\* searchTagOf
TagIndex(f) ==
  LET tag  == IF Tagged(f, "vec") THEN "vec" ELSE FtsTag(f)
  IN [kind |-> IF tag = "vec" THEN "vector" ELSE "fulltext", fields |-> <<f.go>>,
      name |-> Value(f, tag, "table"), sync |-> FirstNonEmpty(Value(f, tag, "sync"), "auto"),
      valid |-> (tag = "vec" => Has(f, tag, "dim")) /\ ~(tag = "vec" /\ Tagged(f, FtsTag(f)))]

TagIndexes(t) ==
  LET tagged(f) == Tagged(f, "vec") \/ Tagged(f, FtsTag(f))
      fields    == SelectSeq(GoFields(t), tagged)
  IN [i \in DOMAIN fields |-> TagIndex(fields[i])]

\* validateSearchIndex, with the default name filled in.  "valid" stands for
\* the options of one index: dimension, weights, detail and encoding.
IndexValid(t, ix) ==
  LET fields == GoFields(t)
  IN /\ ix.valid /\ ix.fields # <<>>
     /\ \A i \in DOMAIN ix.fields : \E j \in DOMAIN fields : fields[j].go = ix.fields[i]
     /\ ix.kind = "vector" => Len(ix.fields) = 1

Named(t, ix) ==
  [ix EXCEPT !.name =
     FirstNonEmpty(ix.name, TableName(t) \o (IF ix.kind = "vector" THEN "_vec" ELSE "_fts"))]

\* One index per name, in the order the names were first seen, the last one wins.
SearchIndexes(t) ==
  LET all   == [i \in DOMAIN (TagIndexes(t) \o t.indexes) |->
                  Named(t, (TagIndexes(t) \o t.indexes)[i])]
      first(i) == \A j \in 1..(i - 1) : all[j].name # all[i].name
      order == SetToSortSeq({i \in DOMAIN all : first(i)}, <)
      last(n)  == CHOOSE i \in DOMAIN all : /\ all[i].name = n
                                            /\ \A j \in (i + 1)..Len(all) : all[j].name # n
  IN [i \in DOMAIN order |-> all[last(all[order[i]].name)]]

SearchValid(t) ==
  LET tags == TagIndexes(t)
  IN /\ \A i \in DOMAIN tags : IndexValid(t, tags[i])
     /\ \A i \in DOMAIN t.indexes : IndexValid(t, t.indexes[i])
     /\ \A i, j \in DOMAIN tags : Named(t, tags[i]).name = Named(t, tags[j]).name => i = j

(***************************************************************************)
(* searchSpecOf: fields become columns and the way of synchronising is     *)
(* settled, a vector that is a stored column by triggers, one that is not  *)
(* by the hooks of the orm.  FTS5 is keyed by the integer rowid.           *)
(***************************************************************************)
SearchSpec(t, fields, ix) ==
  LET column(go) == LET at == {i \in DOMAIN fields : fields[i].go = go}
                    IN IF at = {} THEN "" ELSE fields[CHOOSE i \in at : TRUE].column
      columns == [i \in DOMAIN ix.fields |-> column(ix.fields[i])]
      stored  == "" \notin Range(columns)
      key     == {i \in DOMAIN fields : fields[i].pk}
      rowid   == \A i \in key : fields[i].goType \in IntKinds
      hooked  == ix.kind = "vector" /\ (ix.sync = "hooks" \/ ~stored)
  IN [valid |-> /\ t.key # ""
                /\ ix.kind = "fulltext" => rowid /\ stored
                /\ ix.kind = "vector" /\ ix.sync = "triggers" => stored,
      name |-> ix.name, kind |-> ix.kind, hooked |-> hooked, columns |-> Range(columns)]

(***************************************************************************)
(* buildSchema                                                             *)
(***************************************************************************)
LOBFields(fields) == LET lob(f) == f.lob IN SelectSeq(fields, lob)

SchemaOf(t) ==
  LET fields    == FieldsOf(t)
      relations == RelationsOf(t, t)
      indexes   == SearchIndexes(t)
  IN [valid     |-> /\ CodecsValid(fields)
                    /\ Refused \notin Range(relations)
                    /\ SearchValid(t),
      type      |-> t.name,
      table     |-> TableName(t),
      fields    |-> fields,
      relations |-> relations,
      search    |-> [i \in DOMAIN indexes |-> SearchSpec(t, fields, indexes[i])],
      lobs      |-> LOBFields(fields)]
=============================================================================
