------------------------------- MODULE Query --------------------------------
(***************************************************************************)
(* The query builder: SelectBuilder, UpdateBuilder, DeleteBuilder and the  *)
(* inserts of Repo, from the calls that build a statement to what is sent. *)
(*                                                                         *)
(* There are two select builders, "outer" and "inner": the calls that take *)
(* another query place inner in outer.  A CTE, a derived table, a joined   *)
(* subquery and a set-operation arm copy inner at the call; a predicate or *)
(* a projected field holds the builder itself, and renders what it has     *)
(* become when the statement is built.                                     *)
(***************************************************************************)
EXTENDS SqlGen

CONSTANT Scenarios    \* which calls are made, on which dialects, how many

ASSUME QueryAssumption == \A s \in Scenarios : s.dialects \subseteq DOMAIN Features

VARIABLES
  scenario,
  dialect,
  b,          \* b[x]: the select builder x
  w,          \* the update or delete builder, and rows to insert
  used,       \* how many argument values the calls have bound so far
  calls,      \* calls made
  sent        \* the statement of the terminal just called, Unsent before it

vars == <<scenario, dialect, b, w, used, calls, sent>>

D == Dialect(dialect)

(***************************************************************************)
(* The model T.  "zz" is no column of it; "hid" is one of the table that   *)
(* the program declared Unvalidated.                                       *)
(***************************************************************************)
Known == {"a", "b"}
ColumnsOf(table) == <<[table |-> table, name |-> "a"], [table |-> table, name |-> "b"]>>

Col(name)         == [name |-> name, unvalidated |-> FALSE]
Unvalidated(name) == [name |-> name, unvalidated |-> TRUE]
ColsRef(c)        == IF c.unvalidated THEN {} ELSE {c.name}

NewSelect == [with |-> <<>>, table |-> "t", from |-> <<>>, alias |-> "none",
              columns |-> ColumnsOf("t"), projection |-> <<>>, exprs |-> <<>>,
              distinct |-> FALSE, distinctOn |-> <<>>, joins |-> <<>>, where |-> <<>>,
              groupBy |-> <<>>, having |-> <<>>, orderBy |-> <<>>, hasLimit |-> FALSE,
              hasOffset |-> FALSE, union |-> <<>>, lock |-> NoLock]

NewBuilder == [sel |-> NewSelect, preds |-> <<>>, order |-> <<>>, group |-> <<>>,
               distinctOn |-> <<>>, feat |-> {}, err |-> FALSE]

(***************************************************************************)
(* Predicates.  text is what its render closure will return, as fragments  *)
(* in order, with Sub where the builder it holds is rendered; cols, feat   *)
(* and err are what is known when the predicate is made.  op, vals and ps  *)
(* say how it was made.                                                    *)
(***************************************************************************)
Text(ws) == [sql |-> Words(ws), args |-> <<>>]
Value(v) == [sql |-> <<Mark(v)>>, args |-> <<v>>]
Sub      == Text(<<"<subquery>">>)

(* fragments one after the other *)
Then(e1, e2)  == [sql |-> e1.sql \o e2.sql, args |-> e1.args \o e2.args]
Valued(ws, v) == Then(Text(ws), Value(v))
Within(ws1, e, ws2) == Then(Then(Text(ws1), e), Text(ws2))
Concat(exprs) ==
  LET upTo[i \in 0..Len(exprs)] == IF i = 0 THEN Text(<<>>) ELSE Then(upTo[i - 1], exprs[i])
  IN upTo[Len(exprs)]

Predicate(op, cols, feat, vals, text) ==
  [op |-> op, vals |-> vals, ps |-> <<>>, text |-> text, cols |-> cols, feat |-> feat,
   err |-> FALSE]

(* The column walked to the path: keys are bound, the last one reads text. *)
ExtractText(c, keys) ==
  <<Text(<<c.name>>)>> \o
  [i \in DOMAIN keys |-> Valued(<<IF i = Len(keys) THEN "->>" ELSE "->">>, keys[i])]

(* a column, or the path keys into a JSON column, compared with a value *)
Compare(op, c, keys, v, feat) ==
  Predicate(op, ColsRef(c), feat, <<v>>, ExtractText(c, keys) \o <<Text(<<op>>), Value(v)>>)

ListText(op, c, keys, vals) ==
  IF vals # <<>>
  THEN ExtractText(c, keys) \o <<Text(<<op, "(">>)>> \o
       Joined(<<Text(<<Comma>>)>>, [i \in DOMAIN vals |-> <<Value(vals[i])>>]) \o <<Text(<<")">>)>>
  ELSE IF op \in {"IN", "&&ARRAY"} THEN <<Text(<<"1=0">>)>>
  ELSE IF op \in {"NOT_IN", "@>ARRAY"} THEN <<Text(<<"1=1">>)>>
  ELSE <<Text(<<"cardinality", "(", c.name, ")", "=", "0">>)>>

List(op, c, keys, vals, feat) ==
  Predicate(op, ColsRef(c), feat, vals, ListText(op, c, keys, vals))

NullCheck(c) == Predicate("IS_NULL", ColsRef(c), {}, <<>>, <<Text(<<c.name, "IS_NULL">>)>>)
EqCol(c)     == Predicate("EqCol", ColsRef(c), {}, <<>>, <<Text(<<c.name, "=", "o", ".", "a">>)>>)
HasElem(c, v) == Predicate("=ANY", ColsRef(c), {"Array"}, <<v>>,
                           <<Value(v), Text(<<"=ANY", "(", c.name, ")">>)>>)

FeatUnion(x) == UNION {x.preds[i].feat : i \in DOMAIN x.preds}

(* The checks a subquery gets when it is placed in a predicate or a field. *)
Invalid(x) ==
  x.err \/ \E i \in DOMAIN x.preds : x.preds[i].err \/ ~(x.preds[i].cols \subseteq Known)

InSub(op, c, sub) ==
  [Predicate(op, {c.name}, FeatUnion(sub), <<>>, <<Text(<<c.name, op, "(">>), Sub, Text(<<")">>)>>)
     EXCEPT !.err = Invalid(sub)]
ExistsPred(op, sub) ==
  [Predicate(op, {}, FeatUnion(sub), <<>>, <<Text(<<op, "(">>), Sub, Text(<<")">>)>>)
     EXCEPT !.err = Invalid(sub)]

(* a bug: a group without its parentheses *)
CombinedTextBare(op, ps) ==
  IF ps = <<>> THEN <<Text(<<"1=1">>)>>
  ELSE Joined(<<Text(<<op>>)>>, [i \in DOMAIN ps |-> ps[i].text])

CombinedText(op, ps) ==
  IF ps = <<>> THEN <<Text(<<"1=1">>)>>
  ELSE <<Text(<<"(">>)>> \o Joined(<<Text(<<op>>)>>, [i \in DOMAIN ps |-> ps[i].text]) \o
       <<Text(<<")">>)>>

Combine(op, ps) ==
  IF Len(ps) = 1 THEN ps[1]
  ELSE [op   |-> op, vals |-> <<>>, ps |-> ps, text |-> CombinedText(op, ps),
        cols |-> UNION {ps[i].cols : i \in DOMAIN ps},
        feat |-> UNION {ps[i].feat : i \in DOMAIN ps},
        err  |-> \E i \in DOMAIN ps : ps[i].err]

Not(p) ==
  [p EXCEPT !.op = "NOT", !.vals = <<>>, !.ps = <<p>>,
            !.text = <<Text(<<"NOT", "(">>)>> \o p.text \o <<Text(<<")">>)>>]

(* frag is the text and the arguments of the builder the predicate holds *)
RenderPred(p, frag) ==
  Concat([i \in DOMAIN p.text |->
            IF p.text[i] = Sub THEN [sql |-> frag.sql, args |-> frag.args] ELSE p.text[i]])

(***************************************************************************)
(* Fields of GROUP BY, DISTINCT ON and Into; ORDER BY terms.               *)
(***************************************************************************)
Field(kind, cols, err) == [kind |-> kind, cols |-> cols, err |-> err]
Name(col)             == Field("column", <<col>>, FALSE)
ScalarSubquery(sub)   == Field("scalar", <<>>, Invalid(sub))
ExistsField(sub)      == Field("exists", <<>>, Invalid(sub))
AggField(col)         == Field("aggregate", <<col>>, FALSE)
(* ROW_NUMBER() OVER (PARTITION BY p ORDER BY o): both columns are checked *)
WindowField(p, o)     == Field("window", <<p, o>>, FALSE)

RenderField(f, frag) ==
  CASE f.kind = "column"    -> Text(f.cols)
    [] f.kind = "aggregate" -> Text(<<"SUM", "(">> \o f.cols \o <<")", "AS", "x">>)
    [] f.kind = "window" ->
         Text(<<"ROW_NUMBER", "OVER", "(", "PARTITION_BY", f.cols[1]>> \o
              <<"ORDER_BY", f.cols[2], "ASC", ")", "AS", "x">>)
    [] f.kind = "scalar" -> Within(<<"(">>, frag, <<")", "AS", "x">>)
    [] f.kind = "exists" -> Within(<<"CASE", "EXISTS", "(">>, frag, <<")", "END", "AS", "x">>)

UnknownIn(cols) == \E i \in DOMAIN cols : cols[i] \notin Known
BadField(f)     == f.err \/ UnknownIn(f.cols)
(* GROUP BY and DISTINCT ON carry no values *)
BadClauseField(f, frag) == BadField(f) \/ RenderField(f, frag).args # <<>>

RenderTerm(t) == IF t.raw THEN Words(<<t.name>>) ELSE Words(<<t.name, "ASC">>)
BadTerm(t)    == ~t.raw /\ ~t.unvalidated /\ t.name \notin Known

(***************************************************************************)
(* resolved: the checks, then the typed parts rendered into the clauses.   *)
(***************************************************************************)
Gated == {"RowLocking", "DistinctOn", "IntersectExcept", "CTE", "Lateral", "UpdateFrom"}
GateFails(required, d) == ~((required \cap Gated) \subseteq d.feats)

(* a bug: the columns of a negated or grouped predicate are not looked at *)
BadPredShallow(p, d) ==
  p.err \/ (p.ps = <<>> /\ ~(p.cols \subseteq Known)) \/ ~(p.feat \subseteq d.feats)

BadPred(p, d) == p.err \/ ~(p.cols \subseteq Known) \/ ~(p.feat \subseteq d.feats)
AnyBad(ps, d) == \E i \in DOMAIN ps : BadPred(ps[i], d)

RenderPreds(base, preds, frag) == base \o [i \in DOMAIN preds |-> RenderPred(preds[i], frag)]

Resolved(x, d, frag) ==
  LET texts(fs) == [i \in DOMAIN fs |-> RenderField(fs[i], frag).sql]
      failed == \/ x.err
                \/ GateFails(x.feat, d)
                \/ AnyBad(x.preds, d)
                \/ \E i \in DOMAIN x.distinctOn : BadClauseField(x.distinctOn[i], frag)
                \/ \E i \in DOMAIN x.group : BadClauseField(x.group[i], frag)
                \/ \E i \in DOMAIN x.order : BadTerm(x.order[i])
  IN [err |-> failed,
      sel |-> IF failed THEN x.sel
              ELSE [x.sel EXCEPT
                      !.where      = RenderPreds(@, x.preds, frag),
                      !.distinctOn = texts(x.distinctOn),
                      !.groupBy    = texts(x.group),
                      !.orderBy    = [i \in DOMAIN x.order |-> RenderTerm(x.order[i])]]]

(* A subquery as a fragment; one that fails is an empty text (the error is  *)
(* dropped: those of its predicates were taken when it was placed).         *)
(* a bug: the subquery numbers its placeholders itself *)
FragmentNumbered(x, d, frag) ==
  LET r == Resolved(x, d, frag)
  IN IF r.err THEN Failed ELSE BuildSelect(r.sel, d)

Fragment(x, d, frag) ==
  LET r == Resolved(x, d, frag)
  IN IF r.err THEN Failed ELSE BuildSelect(r.sel, QmarkDialect(d))

Inner == Fragment(b["inner"], D, Failed)

(***************************************************************************)
(* Calls.  A call that binds k values takes used + 1 .. used + k.          *)
(***************************************************************************)
Unsent == [err |-> TRUE, sql |-> <<>>, args |-> <<>>, by |-> "nobody"]

Call(x, m, k) ==
  /\ <<x, m>> \in scenario.calls
  /\ sent = Unsent
  /\ calls < scenario.depth
  /\ calls' = calls + 1
  /\ used' = used + k
  /\ UNCHANGED <<scenario, dialect, sent>>

V(i) == used + i      \* the i-th value of this call
Cmp(c, v)      == Compare("=", c, <<>>, v, {})
RawCmp(col, v) == Valued(<<col, ">">>, v)
RawOr(v1, v2)  == Then(RawCmp("a", v1), Then(Text(<<"OR">>), RawCmp("b", v2)))
ScopeExpr      == Text(<<"deleted_at", "IS_NULL">>)

Builder(x, m, k, new) == Call(x, m, k) /\ b' = [b EXCEPT ![x] = new] /\ UNCHANGED w
Sel(x, m, k, sel)     == Builder(x, m, k, [b[x] EXCEPT !.sel = sel])

(* Where takes any text: one comparison, or two with an OR between them *)
Where(x) ==
  \E e \in {RawCmp("a", V(1)), RawOr(V(1), V(2))} :
    Sel(x, IF Len(e.args) = 1 THEN "Where" ELSE "WhereOr", 2,
        [b[x].sel EXCEPT !.where = Append(@, e)])
(* what orm's Repo.selectBuilder adds first when deleted rows are hidden *)
Scope(x) == /\ b[x].sel.where = <<>>
            /\ Sel(x, "Scope", 0, [b[x].sel EXCEPT !.where = Append(@, ScopeExpr)])

(* The predicates a call of Filter is tried with, by kind. *)
Preds(kind, sub) ==
  LET c == Cmp(Col("a"), V(1))
      e == Cmp(Col("b"), V(2))
  IN CASE kind = "cmp"    -> {c}
       [] kind = "list"   -> {List(op, Col("a"), <<>>, vs, {}) :
                                op \in {"IN", "NOT_IN"}, vs \in {<<>>, <<V(1), V(2)>>}}
       [] kind = "null"   -> {NullCheck(Col("a")), EqCol(Col("a"))}
       [] kind = "group"  -> {Combine("OR", <<c, e>>), Combine("AND", <<c, Combine("OR", <<e>>)>>),
                              Not(Combine("OR", <<c, e>>)), Combine("OR", <<>>),
                              Combine("OR", <<Combine("AND", <<c, e>>), Not(c)>>)}
       [] kind = "json"   -> {Compare("=", Col("a"), <<V(1), V(2)>>, V(3), {}),
                              List("IN", Col("a"), <<V(1)>>, <<V(2), V(3)>>, {}),
                              List("IN", Col("a"), <<V(1)>>, <<>>, {}),
                              Compare("@>", Col("a"), <<>>, V(1), {"JSONB"})}
       [] kind = "array"  -> {List(op, Col("a"), <<>>, vs, {"Array"}) :
                                op \in {"@>ARRAY", "<@ARRAY", "&&ARRAY"}, vs \in {<<>>, <<V(1)>>}}
                             \cup {HasElem(Col("a"), V(1))}
       [] kind = "match"  -> {Compare("MATCH", Col("a"), <<>>, V(1), {"Match"})}
       [] kind = "unknown" -> {Cmp(Col("zz"), V(1)), Cmp(Unvalidated("hid"), V(1)),
                               Not(Combine("OR", <<c, Cmp(Col("zz"), V(2))>>))}
       [] kind = "sub"    -> {InSub("IN_QUERY", Col("a"), sub), ExistsPred("NOT_EXISTS", sub),
                              Not(Combine("OR", <<c, ExistsPred("EXISTS", sub)>>))}

Filter(x) ==
  \E kind \in {"cmp", "list", "null", "group", "json", "array", "match", "unknown", "sub"} :
    /\ kind = "sub" => x = "outer"
    /\ \E p \in Preds(kind, b["inner"]) :
         Builder(x, kind, 3, [b[x] EXCEPT !.preds = Append(@, p)])

Distinct(x) == Sel(x, "Distinct", 0, [b[x].sel EXCEPT !.distinct = TRUE])
Having(x)   == Sel(x, "Having", 1, [b[x].sel EXCEPT !.having = Append(@, RawCmp("a", V(1)))])
Limit(x)    == Sel(x, "Limit", 0, [b[x].sel EXCEPT !.hasLimit = TRUE])
Offset(x)   == Sel(x, "Limit", 0, [b[x].sel EXCEPT !.hasOffset = TRUE])
Project(x)  == Sel(x, "Project", 0, [b[x].sel EXCEPT !.projection = Append(@, Words(<<"a">>))])

Join(x) ==
  Sel(x, "Join", 1,
      [b[x].sel EXCEPT !.joins = Append(@, Valued(<<"INNER_JOIN", "o", "ON", "b", ">">>, V(1)))])

GroupBy(x) ==
  \E f \in {Name("a"), Name("zz")} \cup (IF x = "outer" THEN {ScalarSubquery(b["inner"])} ELSE {}) :
    Builder(x, "GroupBy", 0, [b[x] EXCEPT !.group = Append(@, f)])

OrderBy(x) ==
  \E t \in {[name |-> "a", raw |-> FALSE, unvalidated |-> FALSE],
            [name |-> "zz", raw |-> FALSE, unvalidated |-> FALSE],
            [name |-> "hid", raw |-> FALSE, unvalidated |-> TRUE],
            [name |-> "random()", raw |-> TRUE, unvalidated |-> FALSE]} :
    Builder(x, "OrderBy", 0, [b[x] EXCEPT !.order = Append(@, t)])

DistinctOn(x) ==
  Builder(x, "DistinctOn", 0,
          [b[x] EXCEPT !.distinctOn = Append(@, Name("a")), !.feat = @ \cup {"DistinctOn"}])

(* From keeps a projection, and names the columns after the new source. *)
From(x) ==
  Sel(x, "From", 0,
      [b[x].sel EXCEPT !.table = "q", !.from = <<>>,
                       !.columns = IF b[x].sel.projection = <<>> THEN ColumnsOf("q") ELSE @])

(***************************************************************************)
(* Row locks.                                                              *)
(***************************************************************************)
Locked(x, strength) ==
  [x EXCEPT !.sel.lock.strength = strength, !.feat = @ \cup {"RowLocking"}]
(* a bug: the lock is there, the feature it needs is not asked for *)
EnsureLockUngated(x) == IF x.sel.lock = NoLock THEN [x EXCEPT !.sel.lock.strength = "UPDATE"] ELSE x
EnsureLock(x) == IF x.sel.lock = NoLock THEN Locked(x, "UPDATE") ELSE x

Lock(x) == \E s \in {"UPDATE", "SHARE"} : Builder(x, "Lock", 0, Locked(b[x], s))
SkipLocked(x) == Builder(x, "Lock", 0, [EnsureLock(b[x]) EXCEPT !.sel.lock.skipLocked = TRUE])
NoWait(x)     == Builder(x, "Lock", 0, [EnsureLock(b[x]) EXCEPT !.sel.lock.noWait = TRUE])

(***************************************************************************)
(* Calls that place inner in outer.                                        *)
(***************************************************************************)
Placed == Resolved(b["inner"], D, Failed)
Spoiled == [b["outer"] EXCEPT !.err = TRUE]

Place(m, new) == Builder("outer", m, 0, IF Placed.err THEN Spoiled ELSE new)

With ==
  \E recursive \in BOOLEAN :
    Place(IF recursive THEN "WithRecursive" ELSE "With",
          [b["outer"] EXCEPT
             !.sel.with = Append(@, [name |-> "q", recursive |-> recursive, select |-> Placed.sel]),
             !.feat = @ \cup {"CTE"} \cup FeatUnion(b["inner"])])

(* FromSubquery makes a builder: outer is still as Select made it. *)
DerivedFrom(s) ==
  [NewSelect EXCEPT !.table = "none", !.from = <<s>>, !.alias = "q", !.columns = ColumnsOf("q")]
FromSubquery ==
  /\ b["outer"] = NewBuilder
  /\ Place("FromSubquery",
           [NewBuilder EXCEPT !.sel = DerivedFrom(Placed.sel), !.feat = FeatUnion(b["inner"])])

JoinSubExpr(frag, lateral, v) ==
  Then(Then(Text(IF lateral THEN <<"LEFT_JOIN", "LATERAL", "(">> ELSE <<"INNER_JOIN", "(">>), frag),
       Valued(<<")", "AS", "q", "ON", "b", ">">>, v))

JoinSub ==
  \E lateral \in BOOLEAN :
    LET frag  == Inner
        asked == IF lateral THEN b["outer"].feat \cup {"Lateral"} ELSE b["outer"].feat
    IN Builder("outer", IF lateral THEN "JoinLateral" ELSE "JoinSub", 1,
               IF frag.err THEN [Spoiled EXCEPT !.feat = asked]
               ELSE [b["outer"] EXCEPT
                       !.sel.joins = Append(@, JoinSubExpr(frag, lateral, V(1))),
                       !.feat = asked \cup FeatUnion(b["inner"])])

Compound ==
  \E op \in {"UNION", "INTERSECT", "EXCEPT"}, all \in BOOLEAN :
    Place(IF all THEN "CompoundAll" ELSE op,
          IF Placed.sel.lock # NoLock THEN Spoiled
          ELSE [b["outer"] EXCEPT
                  !.sel.union = Append(@, [op |-> op, all |-> all, select |-> Placed.sel]),
                  !.feat = @ \cup b["inner"].feat \cup
                           (IF op = "UNION" THEN {} ELSE {"IntersectExcept"})])

(***************************************************************************)
(* Update, Delete and the rows of an insert.                               *)
(***************************************************************************)
NewWrite == [set |-> <<>>, from |-> <<>>, where |-> <<>>, preds |-> <<>>, feat |-> {},
             rows |-> <<>>]

Write(m, k, new) == Call("write", m, k) /\ w' = new /\ UNCHANGED b

(* Set binds a value; Inc, Dec and SetExpr assign an expression. *)
Set ==
  \E s \in {[column |-> "a", sql |-> <<>>, args |-> <<V(1)>>],
            [column |-> "zz", sql |-> <<>>, args |-> <<V(1)>>],
            [column |-> "b", sql |-> Valued(<<"b", "+">>, V(1)).sql, args |-> <<V(1)>>]} :
    Write("Set", 1, [w EXCEPT !.set = Append(@, s)])

WriteWhere == Write("Where", 1, [w EXCEPT !.where = Append(@, RawCmp("a", V(1)))])

WriteFilter ==
  \E kind \in {"cmp", "group", "unknown", "sub"} : \E p \in Preds(kind, b["inner"]) :
    Write(kind, 3, [w EXCEPT !.preds = Append(@, p)])

WriteFrom ==
  Write("From", 1,
        [w EXCEPT !.from = <<Valued(<<"src">>, V(1))>>,
                  !.feat = @ \cup {"UpdateFrom"}])

AddRow == Write("AddRow", 2, [w EXCEPT !.rows = Append(@, <<V(1), V(2)>>)])

(***************************************************************************)
(* Terminals: the statement each one sends.  A builder can be used again   *)
(* after one; First leaves its limit in it.                                *)
(***************************************************************************)
Unordered(s) ==
  [s EXCEPT !.orderBy = <<>>, !.hasLimit = FALSE, !.hasOffset = FALSE, !.lock = NoLock]

IsDerivedCount(s) == s.union # <<>> \/ s.groupBy # <<>> \/ s.distinct \/ s.distinctOn # <<>>
IsGrouped(s)      == s.groupBy # <<>> \/ s.distinctOn # <<>> \/ s.union # <<>>

(* The terminals of a select: by is the function; Into and Pluck project typed *)
(* fields, PluckExpr a raw expression with values, the aggregates one column.  *)
Read(by, fields) == [by |-> by, fields |-> fields]
ReadCalls ==
  {Read(by, <<>>) : by \in {"All", "First", "Count", "PluckExpr"}}      \* Iter, Exists alike
  \cup {Read("Into", fs) :
          fs \in {<<Name("a"), ScalarSubquery(b["inner"]), ExistsField(b["inner"])>>,
                  <<AggField("a"), WindowField("a", "b")>>, <<WindowField("a", "zz")>>}}
  \cup {Read(by, <<Name(c)>>) : by \in {"Pluck", "Sum"}, c \in {"a", "zz"}}

Projection(q, frag) ==
  IF q.by = "PluckExpr" THEN <<RawCmp("a", V(1))>>
  ELSE [i \in DOMAIN q.fields |-> RenderField(q.fields[i], frag)]

Shaped(q, s, frag) ==
  CASE q.by = "All"   -> s
    [] q.by = "First" -> [s EXCEPT !.hasLimit = TRUE]
    [] q.by = "Count" ->
         IF IsDerivedCount(s) THEN Unordered(s)
         ELSE [Unordered(s) EXCEPT !.columns = <<>>, !.projection = <<Words(<<"count(*)">>)>>]
    [] q.by = "Sum"   ->
         [Unordered(s) EXCEPT !.columns = <<>>,
                              !.projection = <<Words(<<"SUM", "(">> \o q.fields[1].cols \o <<")">>)>>]
    [] q.by \in {"Into", "Pluck", "PluckExpr"} ->
         [s EXCEPT !.columns = <<>>, !.exprs = Projection(q, frag)]

Derived(st) == [st EXCEPT !.sql = Words(<<"SELECT", "count(*)", "FROM", "(">>) \o @ \o
                                  Words(<<")", "AS", "_cnt">>)]

ReadStatement(q) ==
  LET frag == Inner
      r    == Resolved(b["outer"], D, frag)
      st   == BuildSelect(Shaped(q, r.sel, frag), D)
  IN IF \/ \E i \in DOMAIN q.fields : BadField(q.fields[i])
        \/ r.err
        \/ q.by = "Sum" /\ IsGrouped(r.sel)
     THEN Failed
     ELSE IF q.by = "Count" /\ IsDerivedCount(r.sel) THEN Derived(st) ELSE st

CanReturn == {"Returning", "Output"} \cap D.feats # {}

UpdateStatement(returning) ==
  LET where == RenderPreds(w.where, w.preds, Inner)
  IN IF \/ GateFails(w.feat, D)
        \/ \E i \in DOMAIN w.set : w.set[i].column \notin Known
        \/ AnyBad(w.preds, D)
        \/ where = <<>>
        \/ returning # <<>> /\ ~CanReturn
     THEN Failed
     ELSE BuildUpdate([table |-> "t", set |-> w.set, from |-> w.from, where |-> where,
                       returning |-> returning], D)

DeleteStatement(returning) ==
  LET where == RenderPreds(w.where, w.preds, Inner)
  IN IF AnyBad(w.preds, D) \/ where = <<>> \/ (returning # <<>> /\ ~CanReturn) THEN Failed
     ELSE BuildDelete([table |-> "t", where |-> where, returning |-> returning], D)

(* InsertCapturingPK: ask for the generated key where the statement can. *)
InsertStatement(conflict) ==
  BuildInsert([table |-> "t", columns |-> <<"a", "b">>, rows |-> w.rows, conflict |-> conflict,
               returning |-> IF CanReturn THEN <<"id">> ELSE <<>>], D)

Subtract(all, remove) ==
  LET upTo[i \in 0..Len(all)] ==
        IF i = 0 THEN <<>>
        ELSE upTo[i - 1] \o (IF \E j \in DOMAIN remove : remove[j] = all[i] THEN <<>> ELSE <<all[i]>>)
  IN upTo[Len(all)]

(* Upsert: by default every column that is not a conflict target is overwritten *)
UpdateColumns(oc) ==
  IF oc.update = <<>> /\ ~oc.nothing THEN Subtract(<<"a", "b">>, oc.columns) ELSE oc.update
Conflicts == {[columns |-> cs, update |-> <<>>, nothing |-> n] :
                cs \in {<<>>, <<"a">>, <<"a", "b">>}, n \in BOOLEAN}
NothingToUpdate(oc) == ~oc.nothing /\ UpdateColumns(oc) = <<>>
InsertConflicts == {<<>>} \cup {<<[oc EXCEPT !.update = UpdateColumns(oc)]>> :
                                  oc \in {c \in Conflicts : ~NothingToUpdate(c)}}

Terminal(by, st) ==
  /\ by \in scenario.terminals
  /\ sent = Unsent
  /\ sent' = [err |-> st.err, sql |-> st.sql, args |-> st.args, by |-> by]
  /\ UNCHANGED <<scenario, dialect, w, used, calls>>

ReadRows ==
  \E q \in ReadCalls :
    /\ Terminal(q.by, ReadStatement(q))
    /\ b' = [b EXCEPT !["outer"].sel.hasLimit = @ \/ q.by = "First"]

ReturningLists == {<<>>, <<"a", "b">>}          \* Exec, Returning
UpdateRows ==
  \E cols \in ReturningLists : Terminal("Update", UpdateStatement(cols)) /\ UNCHANGED b
DeleteRows ==
  \E cols \in ReturningLists : Terminal("Delete", DeleteStatement(cols)) /\ UNCHANGED b
InsertRows ==
  \E conflict \in InsertConflicts :
    Terminal("Insert", InsertStatement(conflict)) /\ UNCHANGED b

UseAgain == sent # Unsent /\ sent' = Unsent /\ UNCHANGED <<scenario, dialect, b, w, used, calls>>

Init ==
  /\ scenario \in Scenarios
  /\ dialect \in scenario.dialects
  /\ b = [x \in {"outer", "inner"} |-> NewBuilder]
  /\ w = NewWrite
  /\ used = 0
  /\ calls = 0
  /\ sent = Unsent

OnBuilder(x) ==
  \/ Where(x) \/ Scope(x) \/ Filter(x) \/ Distinct(x) \/ Having(x) \/ Limit(x) \/ Offset(x)
  \/ Project(x) \/ Join(x) \/ GroupBy(x) \/ OrderBy(x) \/ DistinctOn(x) \/ From(x)
  \/ Lock(x) \/ SkipLocked(x) \/ NoWait(x)

Next ==
  \/ \E x \in {"outer", "inner"} : OnBuilder(x)
  \/ With \/ FromSubquery \/ JoinSub \/ Compound
  \/ Set \/ WriteWhere \/ WriteFilter \/ WriteFrom \/ AddRow
  \/ ReadRows \/ UpdateRows \/ DeleteRows \/ InsertRows \/ UseAgain

Spec == Init /\ [][Next]_vars

(***************************************************************************)
(* Properties.                                                             *)
(***************************************************************************)
(* The server takes for the k-th placeholder of a statement the k-th argument.  *)
(* That is the value the program gave where the placeholder stands, whichever   *)
(* clauses, subqueries, CTEs and arms the values came through (sqlgen.go, the   *)
(* counter n; subquery.go, qmarkDialect).                                       *)
BindsInPlace ==
  LET places == {i \in DOMAIN sent.sql : sent.sql[i].w \in {"$", "?"}}
      args   == sent.args
  IN /\ \A i \in places : \E k \in DOMAIN args : sent.sql[i] = Bind(k, args[k])
     /\ \A k \in DOMAIN args : \E i \in places : sent.sql[i].n = k
     /\ \A i, j \in places : i < j => sent.sql[i].n < sent.sql[j].n

(* No statement that is sent holds a clause the engine does not have, whether   *)
(* the program asked for it, or a subquery, a CTE, an arm or a late change of a *)
(* placed builder brought it in (setops.go, gateFeatures; predicate.go, feat).  *)
(* That the program is told is another matter: RefusedWithin.                   *)
Needs == [IntersectExcept |-> {"INTERSECT", "EXCEPT"}, Lateral |-> {"LATERAL"},
          Match |-> {"MATCH"}, RowLocking |-> {"FOR"}, CTE |-> {"WITH"},
          DistinctOn |-> {"DISTINCT_ON"}, UpdateFrom |-> {"UPDATE_FROM"}, JSONB |-> {"@>"},
          Array |-> {"@>ARRAY", "<@ARRAY", "&&ARRAY", "=ANY", "cardinality"},
          Returning |-> {"RETURNING"}, Output |-> {"OUTPUT"}, OffsetFetch |-> {"FETCH"},
          Merge |-> {"MERGE"}, InsertOnConflict |-> {"ON_CONFLICT"},
          OnDuplicateKey |-> {"ON_DUPLICATE_KEY_UPDATE"}]
FeaturesGated ==
  LET words == {sent.sql[i].w : i \in DOMAIN sent.sql}
  IN \A feat \in DOMAIN Needs : words \cap Needs[feat] # {} => feat \in D.feats

(* "gateFeatures rejects a statement whose requested clauses need a feature the *)
(* dialect lacks, before any SQL runs - the loud-at-build-time stance shared by *)
(* every builder ... and the predicate feature gate" (setops.go): a statement   *)
(* with a predicate over inner is an error when inner asked for such a clause.  *)
RefusedWithin ==
  LET preds == IF sent.by \in {"Update", "Delete"} THEN w.preds
               ELSE IF sent.by = "Insert" THEN <<>> ELSE b["outer"].preds
      HoldsInner(p) == \E j \in DOMAIN p.text : p.text[j] = Sub
  IN /\ sent # Unsent
     /\ GateFails(b["inner"].feat, D)
     /\ \E i \in DOMAIN preds : HoldsInner(preds[i])
     => sent.err

(* A column the model does not have, named in a typed call, is in no statement  *)
(* that is sent, however deep (predicate.go, checkPred; clauses.go, unknownCol; *)
(* subquery.go, validateColumns).                                               *)
NothingUnknownSent == \A i \in DOMAIN sent.sql : sent.sql[i].w # "zz"

=============================================================================
