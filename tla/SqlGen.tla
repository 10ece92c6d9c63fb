------------------------------- MODULE SqlGen -------------------------------
(***************************************************************************)
(* internal/sqlgen: from a statement model to the SQL text and the list of *)
(* arguments sent with it.                                                 *)
(*                                                                         *)
(* Text is a sequence of tokens.  A raw fragment marks the places of its   *)
(* values with "?"; a rendered statement numbers them ("$" with number n). *)
(* Field v of such a token is the value its author meant there: it is not  *)
(* in the text, and the properties compare it with the argument the server *)
(* will take.                                                              *)
(*                                                                         *)
(* A keyword of several words is one token, written with "_".  Selects     *)
(* nest one level: a derived table holds none of its own (bound).          *)
(***************************************************************************)
EXTENDS Naturals, Sequences, FiniteSets

Word(w)    == [w |-> w, n |-> 0, v |-> 0]
Mark(v)    == [w |-> "?", n |-> 0, v |-> v]
Bind(n, v) == [w |-> "$", n |-> n, v |-> v]
Words(ws)  == [i \in DOMAIN ws |-> Word(ws[i])]

Comma      == ","

(* xs with sep between two of its elements, all of them sequences. *)
Joined(sep, xs) ==
  LET upTo[i \in 0..Len(xs)] ==
        IF i = 0 THEN <<>> ELSE upTo[i - 1] \o (IF i = 1 THEN <<>> ELSE sep) \o xs[i]
  IN upTo[Len(xs)]

(***************************************************************************)
(* Dialects: the features of each.  qmark is the wrapper subqueries are    *)
(* rendered through: it leaves "?" for the enclosing statement to number.  *)
(***************************************************************************)
Features == [
  sqlite   |-> {"Returning", "InsertOnConflict", "CTE", "JSON", "LastInsertID",
                "IntersectExcept", "UpdateFrom", "Match"},
  postgres |-> {"Returning", "InsertOnConflict", "CTE", "JSON", "JSONB", "Array", "Identity",
                "RowLocking", "DistinctOn", "IntersectExcept", "Lateral", "UpdateFrom"},
  mysql    |-> {"OnDuplicateKey", "CTE", "JSON", "Identity", "LastInsertID", "RowLocking"},
  mssql    |-> {"Output", "Merge", "OffsetFetch", "Identity", "IntersectExcept", "CTE",
                "UpdateFrom"}]

Dialect(name)     == [name |-> name, feats |-> Features[name], qmark |-> FALSE]
QmarkDialect(d)   == [d EXCEPT !.qmark = TRUE]
Placeholder(d, n, v) == IF d.qmark THEN Mark(v) ELSE Bind(n, v)

(***************************************************************************)
(* The output under construction: text, arguments, and the number of the   *)
(* next placeholder, shared by all clauses of a statement.                 *)
(***************************************************************************)
Empty == [sql |-> <<>>, args |-> <<>>, n |-> 1]

Put(b, ws)      == [b EXCEPT !.sql = @ \o Words(ws)]
PutText(b, sql) == [b EXCEPT !.sql = @ \o sql]

AppendPlaceholder(b, d, v) ==
  [b EXCEPT !.sql = Append(@, Placeholder(d, b.n, v)), !.n = @ + 1]

AppendFragment(b, d, sql) ==
  LET marksBefore(i) == Cardinality({j \in 1..(i - 1) : sql[j].w = "?"})
  IN [b EXCEPT
        !.sql = @ \o [i \in DOMAIN sql |->
                        IF sql[i].w = "?" THEN Placeholder(d, b.n + marksBefore(i), sql[i].v)
                                          ELSE sql[i]],
        !.n   = @ + marksBefore(Len(sql) + 1)]

AppendExpr(b, d, e) == [AppendFragment(b, d, e.sql) EXCEPT !.args = @ \o e.args]

(* exprs in order, sep before each but the first *)
AppendExprs(b, d, sep, exprs) ==
  LET upTo[i \in 0..Len(exprs)] ==
        IF i = 0 THEN b
        ELSE AppendExpr(Put(upTo[i - 1], IF i = 1 THEN <<>> ELSE sep), d, exprs[i])
  IN upTo[Len(exprs)]

AppendAndList(b, d, keyword, exprs) ==
  IF exprs = <<>> THEN b ELSE AppendExprs(Put(b, <<keyword>>), d, <<"AND">>, exprs)

(* a clause that is a list of terms without values: GROUP BY a, b *)
AppendTerms(b, keyword, terms) ==
  IF terms = <<>> THEN b ELSE PutText(Put(b, <<keyword>>), Joined(Words(<<Comma>>), terms))

ColumnList(cols) == Joined(<<Comma>>, [i \in DOMAIN cols |-> <<cols[i]>>])

(***************************************************************************)
(* SELECT.                                                                 *)
(***************************************************************************)
NoLock == [strength |-> "none", skipLocked |-> FALSE, noWait |-> FALSE]

AppendLock(b, lock) ==
  IF lock = NoLock THEN b
  ELSE Put(b, <<"FOR", lock.strength>> \o
              (IF lock.noWait THEN <<"NOWAIT">>
               ELSE IF lock.skipLocked THEN <<"SKIP_LOCKED">> ELSE <<>>))

AppendLimitOffset(b, d, s) ==
  LET limit(ws)  == IF s.hasLimit THEN ws ELSE <<>>
      offset(ws) == IF s.hasOffset THEN ws ELSE <<>>
  IN IF "OffsetFetch" \in d.feats
     THEN IF s.hasLimit \/ s.hasOffset
          THEN Put(b, <<"OFFSET", "ROWS">> \o limit(<<"FETCH", "ROWS_ONLY">>))
          ELSE b
     ELSE Put(b, limit(<<"LIMIT">>) \o offset(<<"OFFSET">>))

AppendTail(b, d, s) ==
  LET noOrder == (s.hasLimit \/ s.hasOffset) /\ "OffsetFetch" \in d.feats
      ordered == IF s.orderBy # <<>> THEN AppendTerms(b, "ORDER_BY", s.orderBy)
                 ELSE IF noOrder THEN Put(b, <<"ORDER_BY", "(", "SELECT", "NULL", ")">>)
                 ELSE b
  IN AppendLock(AppendLimitOffset(ordered, d, s), s.lock)

SelectHead(b, s) ==
  IF s.distinctOn # <<>>
  THEN Put(AppendTerms(Put(b, <<"SELECT", "DISTINCT_ON">>), "(", s.distinctOn), <<")">>)
  ELSE Put(b, IF s.distinct THEN <<"SELECT", "DISTINCT">> ELSE <<"SELECT">>)

SelectList(b, d, s) ==
  IF s.exprs # <<>> THEN AppendExprs(b, d, <<Comma>>, s.exprs)
  ELSE IF s.projection # <<>> THEN PutText(b, Joined(Words(<<Comma>>), s.projection))
  ELSE IF s.columns = <<>> THEN Put(b, <<"*">>)
  ELSE Put(b, Joined(<<Comma>>, [i \in DOMAIN s.columns |->
                                   <<s.columns[i].table, ".", s.columns[i].name>>]))

AppendClauses(b, d, s) ==
  LET where == AppendAndList(AppendExprs(b, d, <<>>, s.joins), d, "WHERE", s.where)
  IN AppendAndList(AppendTerms(where, "GROUP_BY", s.groupBy), d, "HAVING", s.having)

(* The select inside a derived table. *)
AppendFlat(b, d, s) ==
  LET from == Put(SelectList(SelectHead(b, s), d, s), <<"FROM", s.table>>)
  IN AppendTail(AppendClauses(from, d, s), d, s)

(* from holds the derived table, if there is one, and replaces table *)
FromSource(b, d, s) ==
  IF s.from = <<>> THEN Put(b, <<"FROM", s.table>>)
  ELSE Put(AppendFlat(Put(b, <<"FROM", "(">>), d, s.from[1]), <<")", "AS", s.alias>>)

AppendCore(b, d, s) ==
  AppendClauses(FromSource(SelectList(SelectHead(b, s), d, s), d, s), d, s)

(* Of an arm only the core is rendered: its own arms, order and limit are not. *)
AppendArms(b, d, arms) ==
  LET words(u)          == <<u.op>> \o (IF u.all THEN <<"ALL">> ELSE <<>>)
      upTo[i \in 0..Len(arms)] ==
        IF i = 0 THEN b
        ELSE AppendCore(Put(upTo[i - 1], words(arms[i])), d, arms[i].select)
  IN upTo[Len(arms)]

AppendSelect(b, d, s) == AppendTail(AppendArms(AppendCore(b, d, s), d, s.union), d, s)

AppendBodies(b, d, ctes) ==
  LET upTo[i \in 0..Len(ctes)] ==
        IF i = 0 THEN b
        ELSE LET sep  == IF i = 1 THEN <<>> ELSE <<Comma>>
                 name == Put(upTo[i - 1], sep \o <<ctes[i].name, "AS", "(">>)
             IN Put(AppendSelect(name, d, ctes[i].select), <<")">>)
  IN upTo[Len(ctes)]

AppendWith(b, d, s) ==
  LET recursive == \E i \in DOMAIN s.with : s.with[i].recursive
      start     == Put(b, <<"WITH">> \o (IF recursive THEN <<"RECURSIVE">> ELSE <<>>))
  IN IF s.with = <<>> THEN b ELSE AppendBodies(start, d, s.with)

(***************************************************************************)
(* What a build returns: a statement, or an error and no statement.        *)
(***************************************************************************)
Built(b) == [err |-> FALSE, sql |-> b.sql, args |-> b.args]
Failed   == [err |-> TRUE, sql |-> <<>>, args |-> <<>>]

BuildSelect(s, d) == Built(AppendSelect(AppendWith(Empty, d, s), d, s))

(***************************************************************************)
(* INSERT, with upsert and the generated key; UPDATE; DELETE.              *)
(***************************************************************************)
AppendOutput(b, cols, prefix) ==
  Put(b, <<"OUTPUT">> \o Joined(<<Comma>>, [i \in DOMAIN cols |-> <<prefix, cols[i]>>]))

AppendReturning(b, cols) == Put(b, <<"RETURNING">> \o ColumnList(cols))

(* the generated columns are asked for in the clause the engine has *)
Asked(d, feat, cols) == cols # <<>> /\ feat \in d.feats

AppendCells(b, d, row) ==
  LET upTo[i \in 0..Len(row)] ==
        IF i = 0 THEN b
        ELSE AppendPlaceholder(Put(upTo[i - 1], IF i = 1 THEN <<>> ELSE <<Comma>>), d, row[i])
  IN upTo[Len(row)]

AppendRow(b, d, row) ==
  [Put(AppendCells(Put(b, <<"(">>), d, row), <<")">>) EXCEPT !.args = @ \o row]

AppendRows(b, d, rows) ==
  LET upTo[i \in 0..Len(rows)] ==
        IF i = 0 THEN b
        ELSE AppendRow(Put(upTo[i - 1], IF i = 1 THEN <<>> ELSE <<Comma>>), d, rows[i])
  IN upTo[Len(rows)]

(* c SET x = y, ... over the columns to overwrite *)
Assign(cols, before, mid, after) ==
  Joined(<<Comma>>, [i \in DOMAIN cols |-> before \o <<cols[i]>> \o mid \o <<cols[i]>> \o after])

AppendUpsert(b, d, c) ==
  IF "InsertOnConflict" \in d.feats
  THEN Put(b, <<"ON_CONFLICT">> \o
              (IF c.columns = <<>> THEN <<>> ELSE <<"(">> \o ColumnList(c.columns) \o <<")">>) \o
              (IF c.nothing THEN <<"DO_NOTHING">>
               ELSE <<"DO_UPDATE_SET">> \o Assign(c.update, <<>>, <<"=", "EXCLUDED.">>, <<>>)))
  ELSE Put(b, <<"ON_DUPLICATE_KEY_UPDATE">> \o
              (IF c.nothing THEN <<c.columns[1], "=", c.columns[1]>>
               ELSE Assign(c.update, <<>>, <<"=", "VALUES", "(">>, <<")">>)))

BuildMerge(ins, d) ==
  LET c     == ins.conflict[1]
      using == AppendRows(Put(Empty, <<"MERGE", "INTO", ins.table, "AS", "tgt", "USING", "(",
                                       "VALUES">>), d, ins.rows)
      on    == Joined(<<"AND">>, [i \in DOMAIN c.columns |->
                                    <<"tgt.", c.columns[i], "=", "src.", c.columns[i]>>])
      full  == Put(using,
                 <<")", "AS", "src", "(">> \o ColumnList(ins.columns) \o <<")", "ON">> \o on \o
                 (IF c.nothing THEN <<>>
                  ELSE <<"WHEN_MATCHED", "SET">> \o
                       Assign(c.update, <<"tgt.">>, <<"=", "src.">>, <<>>)) \o
                 <<"WHEN_NOT_MATCHED", "(">> \o ColumnList(ins.columns) \o <<")", "VALUES", "(">> \o
                 Joined(<<Comma>>, [i \in DOMAIN ins.columns |-> <<"src.", ins.columns[i]>>]) \o
                 <<")">>)
  IN Built(IF ins.returning = <<>> THEN full
           ELSE AppendOutput(full, ins.returning, "INSERTED."))

BuildInsert(ins, d) ==
  LET upsert == ins.conflict # <<>>
      into == Put(Empty, <<"INSERT_INTO", ins.table, "(">> \o ColumnList(ins.columns) \o <<")">>)
      out  == IF Asked(d, "Output", ins.returning)
              THEN AppendOutput(into, ins.returning, "INSERTED.") ELSE into
      rows == AppendRows(Put(out, <<"VALUES">>), d, ins.rows)
      done == IF upsert THEN AppendUpsert(rows, d, ins.conflict[1]) ELSE rows
      illFormed == \/ ins.rows = <<>>
                   \/ ins.columns = <<>>
                   \/ \E i \in DOMAIN ins.rows : Len(ins.rows[i]) # Len(ins.columns)
      noTarget  == /\ upsert /\ "OnDuplicateKey" \in d.feats
                   /\ ins.conflict[1].nothing /\ ins.conflict[1].columns = <<>>
  IN IF illFormed THEN Failed
     ELSE IF upsert /\ "Merge" \in d.feats THEN BuildMerge(ins, d)
     ELSE IF noTarget THEN Failed       \* MySQL's no-op assignment needs a column
     ELSE Built(IF Asked(d, "Returning", ins.returning)
                THEN AppendReturning(done, ins.returning) ELSE done)

(* One assignment: a bound value, or a raw expression with its values. *)
AppendSet(b, d, s) ==
  LET target == Put(b, <<s.column, "=">>)
  IN IF s.sql # <<>> THEN AppendExpr(target, d, s)
     ELSE [AppendPlaceholder(target, d, s.args[1]) EXCEPT !.args = Append(@, s.args[1])]

AppendSetList(b, d, set) ==
  LET upTo[i \in 0..Len(set)] ==
        IF i = 0 THEN b
        ELSE AppendSet(Put(upTo[i - 1], IF i = 1 THEN <<>> ELSE <<Comma>>), d, set[i])
  IN upTo[Len(set)]

BuildUpdate(u, d) ==
  LET set == AppendSetList(Put(Empty, <<"UPDATE", u.table, "SET">>), d, u.set)
      out == IF Asked(d, "Output", u.returning)
             THEN AppendOutput(set, u.returning, "INSERTED.") ELSE set
      from == IF u.from = <<>> THEN out
              ELSE AppendExpr(Put(out, <<"UPDATE_FROM">>), d, u.from[1])
      where == AppendAndList(from, d, "WHERE", u.where)
  IN IF u.set = <<>> THEN Failed
     ELSE Built(IF Asked(d, "Returning", u.returning)
                THEN AppendReturning(where, u.returning) ELSE where)

BuildDelete(del, d) ==
  LET from == Put(Empty, <<"DELETE_FROM", del.table>>)
      out  == IF Asked(d, "Output", del.returning)
              THEN AppendOutput(from, del.returning, "DELETED.") ELSE from
      where == AppendAndList(out, d, "WHERE", del.where)
  IN Built(IF Asked(d, "Returning", del.returning)
           THEN AppendReturning(where, del.returning) ELSE where)

=============================================================================
