----------------------------- MODULE QueryScope -----------------------------
(***************************************************************************)
(* What the condition of a statement means: read as SQL reads it, and as   *)
(* the calls that built it meant it.  The meaning of a condition is by     *)
(* recursion over its text, so it is kept apart from Query.                *)
(***************************************************************************)
EXTENDS Query, SequencesExt

(* How SQL reads a condition: OR binds weaker than AND, AND weaker than NOT.    *)
(* all are the sets of simple conditions that may hold of a row; the result is  *)
(* those that satisfy sql.                                                      *)
Simple(sql) == [i \in DOMAIN sql |-> IF sql[i].w = "$" THEN Mark(sql[i].v) ELSE sql[i]]
Depth(sql, i) == Cardinality({j \in 1..(i - 1) : sql[j].w = "("})
                 - Cardinality({j \in 1..i : sql[j].w = ")"})
TopLevel(sql, words) == {i \in {j \in DOMAIN sql : sql[j].w \in words} : Depth(sql, i) = 0}
Least(S) == CHOOSE i \in S : \A j \in S : i <= j
Halves(sql, S) == <<SubSeq(sql, 1, Least(S) - 1), SubSeq(sql, Least(S) + 1, Len(sql))>>

RECURSIVE Satisfying(_, _)
Satisfying(sql, all) ==
  LET ors  == TopLevel(sql, {"OR"})
      ands == TopLevel(sql, {"AND"})
      of(S) == [i \in 1..2 |-> Satisfying(Halves(sql, S)[i], all)]
  IN IF ors # {} THEN of(ors)[1] \cup of(ors)[2]
     ELSE IF ands # {} THEN of(ands)[1] \cap of(ands)[2]
     ELSE CASE sql[1].w = "NOT" -> all \ Satisfying(Tail(sql), all)
            [] sql[1].w = "("   -> Satisfying(SubSeq(sql, 2, Len(sql) - 1), all)
            [] sql[1].w = "1=1" -> all
            [] sql[1].w = "1=0" -> {}
            [] OTHER            -> {T \in all : sql \in T}

(* What the program asked for with a predicate. *)
RECURSIVE Meant(_, _, _), SimpleOf(_, _)
Meant(p, all, frag) ==
  CASE p.ps # <<>> /\ p.op = "AND" -> {T \in all : \A i \in DOMAIN p.ps : T \in Meant(p.ps[i], all, frag)}
    [] p.ps # <<>> /\ p.op = "OR"  -> UNION {Meant(p.ps[i], all, frag) : i \in DOMAIN p.ps}
    [] p.op = "NOT" -> all \ Meant(p.ps[1], all, frag)
    [] p.op \in {"AND", "OR"} -> all
    [] p.vals = <<>> /\ p.op \in {"IN", "&&ARRAY"}     -> {}
    [] p.vals = <<>> /\ p.op \in {"NOT_IN", "@>ARRAY"} -> all
    [] OTHER -> LET s == RenderPred(p, frag).sql IN {T \in all : s \in T}

SimpleOf(p, frag) ==
  IF p.ps = <<>> THEN {RenderPred(p, frag).sql}
  ELSE UNION {SimpleOf(p.ps[i], frag) : i \in DOMAIN p.ps}

RawSimple(sql) ==
  LET or == TopLevel(sql, {"OR"})
  IN IF or = {} THEN {sql} ELSE ToSet(Halves(sql, or))

(* the condition of a statement: from its WHERE to the next clause *)
ClauseEnds == {"GROUP_BY", "HAVING", "ORDER_BY", "UNION", "INTERSECT", "EXCEPT", "LIMIT",
               "OFFSET", "FOR", "RETURNING"}
Condition(sql) ==
  LET body  == IF sql[Len(sql)].w = "_cnt" THEN SubSeq(sql, 5, Len(sql) - 3) ELSE sql
      start == Least(TopLevel(body, {"WHERE"}))
      after == {i \in TopLevel(body, ClauseEnds) : i > start} \cup {Len(body) + 1}
  IN Simple(SubSeq(body, start + 1, Least(after) - 1))

(* Every statement works on the rows for which the soft-delete scope, each      *)
(* Where and each Filter hold, whatever their order and nesting; an UPDATE or a *)
(* DELETE always has a condition (query.go:76, predicate.go:233; write.go:218). *)
(* A raw condition with an OR of its own is joined to the others as it is, not  *)
(* in parentheses, and takes the statement out of their scope: that case is set *)
(* aside.                                                                       *)
RowsInScope ==
  LET frag   == Inner
      write  == sent.by \in {"Update", "Delete"}
      where  == IF write THEN w.where ELSE b["outer"].sel.where
      preds  == IF write THEN w.preds ELSE b["outer"].preds
      all    == SUBSET UNION ({RawSimple(where[i].sql) : i \in DOMAIN where}
                              \cup {SimpleOf(preds[i], frag) : i \in DOMAIN preds})
      asked  == {Satisfying(where[i].sql, all) : i \in DOMAIN where}
                \cup {Meant(preds[i], all, frag) : i \in DOMAIN preds}
      rawOr   == \E i \in DOMAIN where : TopLevel(where[i].sql, {"OR"}) # {}
  IN ~sent.err /\ sent.by # "Insert" /\ ~(rawOr /\ Len(where) + Len(preds) > 1) =>
       /\ write => asked # {}
       /\ asked # {} => Satisfying(Condition(sent.sql), all) = {T \in all : \A S \in asked : T \in S}

=============================================================================
