--------------------------- MODULE MCAutoMigrate ---------------------------
(* Models for AutoMigrate: struct types of two releases of a program, their *)
(* schemas by Schema!SchemaOf and the calls made of them.                   *)
EXTENDS AutoMigrate

CONSTANTS p1, p2

V(go, snake, kind, tags) ==
  [go |-> go, snake |-> snake, kind |-> kind, of |-> "", anonymous |-> FALSE, tags |-> tags]

S(go, snake, kind, of, tags) ==
  [go |-> go, snake |-> snake, kind |-> kind, of |-> of, anonymous |-> FALSE, tags |-> tags]

none == [x \in {} |-> ""]
orm(opts) == [orm |-> opts]
flag(o) == orm([x \in {o} |-> "true"])

T(name, snake, fields) ==
  [name |-> name, snake |-> snake, method |-> "", fields |-> fields, indexes |-> <<>>,
   columns |-> <<>>, key |-> ""]

ID == V("ID", "id", "int64", none)

GoTypes == [
  Org |-> T("Org", "org", <<ID, V("Name", "name", "string", orm([index |-> "true"])),
            S("Users", "users", "slice", "User1", none)>>),
  \* the first release of User, which belongs to an Org, and the second one:
  \* a new column with an index, a wider one and rows that are soft-deleted, which
  \* the unique index is not to count
  User1 |-> T("User", "user", <<ID, V("Email", "email", "string", flag("unique")),
              V("Age", "age", "int32", none), V("Old", "old", "bool", none),
              V("OrgID", "org_id", "int64", none),
              S("Org", "org", "struct", "Org", flag("constraint"))>>),
  User2 |-> T("User", "user", <<ID, V("Email", "email", "string", flag("unique")),
              V("Age", "age", "int64", none),
              V("Nick", "nick", "string", orm([type |-> "varchar", index |-> "ix_nick"])),
              V("DeletedAt", "deleted_at", "time", flag("soft_delete")),
              V("OrgID", "org_id", "int64", none),
              S("Org", "org", "struct", "Org", flag("constraint"))>>),
  \* many to many from both sides, polymorphic, a search index, an embedded struct
  Stamp |-> T("Stamp", "stamp", <<V("By", "by", "int64", none)>>),
  Post |-> [T("Post", "post", <<ID, V("Title", "title", "string", none),
              [S("Stamp", "stamp", "struct", "Stamp", none) EXCEPT !.anonymous = TRUE],
              S("Made", "made", "struct", "Stamp",
                orm([embedded |-> "true", embeddedprefix |-> "made_"])),
              S("Tags", "tags", "slice", "Tag", orm([m2m |-> "post_tags"])),
              S("Notes", "notes", "slice", "Note", orm([polymorphic |-> "owner"]))>>)
            EXCEPT !.indexes = <<[kind |-> "fulltext", fields |-> <<"Title">>, name |-> "",
                                  sync |-> "auto", valid |-> TRUE]>>],
  Tag  |-> T("Tag", "tag", <<ID, S("Posts", "posts", "slice", "Post", orm([m2m |-> "post_tags"]))>>),
  Note |-> T("Note", "note", <<ID, V("OwnerID", "owner_id", "int64", none),
             V("OwnerType", "owner_type", "string", none)>>),
  \* a composite key of integers
  Seat |-> T("Seat", "seat", <<V("Row", "row", "int64", flag("pk")), V("No", "no", "int64", flag("pk"))>>),
  \* a text that is indexed, a vector in a column and one that is not stored
  Doc |-> T("Doc", "doc", <<ID, V("Body", "body", "string", [fts |-> none]),
            V("Vec", "vec", "bytes", [vec |-> [dim |-> "3"]]),
            V("Img", "img", "bytes", [vec |-> [dim |-> "3", table |-> "img_vec"],
                                      orm |-> [name |-> "-"]])>>),
  File |-> T("File", "file", <<ID, V("Content", "content", "lob", none)>>),
  \* a full-text index on a key that is no integer, a relation without a key
  Page |-> T("Page", "page", <<V("Path", "path", "string", flag("pk")),
             V("Body", "body", "string", [fts |-> none])>>),
  Bad |-> T("Bad", "bad", <<ID, S("Notes", "notes", "slice", "Note", none)>>)]

Reflect == INSTANCE Schema WITH Codecs <- [c \in {"json"} |-> "string"]

\* Struct types refer to one another by name; linked as deep as a schema looks.
RECURSIVE Link(_, _, _)
Link(types, t, depth) ==
  IF depth = 0 THEN t
    ELSE Reflect!Planned([t EXCEPT !.fields =
           [i \in DOMAIN @ |-> IF @[i].of = "" THEN @[i]
                                ELSE [@[i] EXCEPT !.of = Link(types, types[@], depth - 1)]]])

Schemas == [n \in DOMAIN GoTypes |-> Reflect!SchemaOf(Link(GoTypes, GoTypes[n], 3))]

Plain == [fks |-> FALSE, overrides |-> {}, bad |-> FALSE, imported |-> TRUE]

Call(op, names, cfg) == [op |-> op, models |-> names, cfg |-> cfg]

Pair(a, b) == [p \in {p1, p2} |-> IF p = p1 THEN a ELSE b]

\* The calls with the names of the types replaced by the schemas of these.
Resolved(scenarios) ==
  LET schemas == Schemas
  IN {[p \in DOMAIN s |-> [s[p] EXCEPT !.models = [i \in DOMAIN @ |-> schemas[@[i]]]]] :
        s \in scenarios}

MCTables == {"org", "user", "post", "tag", "note", "post_tags", "seat", "doc", "file", "page", "bad"}

MCScenarios == Resolved({
  \* two releases at once
  Pair(Call("all", <<"Org", "User1">>, Plain), Call("all", <<"Org", "User2">>, Plain)),
  \* two programs that share a junction table, listed in a different order
  Pair(Call("all", <<"Post", "Tag">>, Plain), Call("all", <<"Tag", "Post", "Note">>, Plain)),
  \* sidecars made, dropped and made again
  Pair(Call("migrate", <<"Doc">>, Plain), Call("drop", <<"Doc">>, Plain)),
  \* the next release is reviewed instead
  Pair(Call("all", <<"Org", "User1">>, Plain), Call("review", <<"User2">>, Plain)),
  \* constraints on a table that another process makes
  Pair(Call("migrate", <<"User2">>, [Plain EXCEPT !.fks = TRUE]), Call("migrate", <<"Org">>, Plain)),
  \* stores, with an option for a field and for none
  Pair(Call("migrate", <<"File">>, [Plain EXCEPT !.overrides = {"Content"}]),
       Call("migrate", <<"File">>, [Plain EXCEPT !.overrides = {"Contents"}])),
  Pair(Call("migrate", <<"File">>, [Plain EXCEPT !.imported = FALSE]),
       Call("migrate", <<"Seat">>, [Plain EXCEPT !.bad = TRUE])),
  \* what cannot be done, beside what can
  Pair(Call("migrate", <<"Page">>, Plain), Call("all", <<"Note", "Seat", "Bad">>, Plain))})

\* The hypotheses of theorem ModelsMatch hold of these schemas; Bad is not one of them.
ASSUME MCKeysDeclared == \A s \in Scenarios : KeysIn({m \in ValidModels(s) : m.type # "Bad"})

ASSUME MCTypesSettled == TypesSettled
=============================================================================
