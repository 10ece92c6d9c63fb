----------------------------- MODULE QueryProofs -----------------------------
(***************************************************************************)
(* What is sent, for every program of calls on the query builder: any      *)
(* number of calls, in any order, on any of the dialects.                  *)
(*                                                                         *)
(* The argument is one invariant about text.  Buffers(d) are the outputs   *)
(* under construction in which the k-th placeholder stands for the k-th    *)
(* argument and every word is one the engine and the model have; each      *)
(* clause takes such a buffer to another.  Exprs(F) are the raw fragments  *)
(* that can be put into one.  Of a predicate or a builder this holds on    *)
(* the condition under which it is rendered: that its checks pass.         *)
(***************************************************************************)
EXTENDS Query, SequenceTheorems, FiniteSetTheorems, WellFoundedInduction, TLAPS

(***************************************************************************)
(* Loops.                                                                  *)
(***************************************************************************)
\* A set of naturals has a least element.
LEMMA LeastNatural ==
  ASSUME NEW S, S \subseteq Nat, S # {}
  PROVE  \E i \in S : \A j \in S : i <= j
<1>1. \E i \in S : \A j \in S : ~(<<j, i>> \in OpToRel(<, Nat))
  BY WFMin, NatLessThanWellFounded
<1>2. \A i, j \in S : ~(<<j, i>> \in OpToRel(<, Nat)) => i <= j
  BY DEF OpToRel
<1> QED
  BY <1>1, <1>2

\* A loop that starts in S and whose body stays in S is always in S.
LEMMA LoopStays ==
  ASSUME NEW S, NEW n \in Nat, NEW f, f[0] \in S,
         \A i \in 1..n : f[i - 1] \in S => f[i] \in S
  PROVE  \A i \in 0..n : f[i] \in S
<1> DEFINE Out == {i \in 0..n : f[i] \notin S}
<1> SUFFICES ASSUME Out # {} PROVE FALSE
  OBVIOUS
<1>0. Out \subseteq Nat
  OBVIOUS
<1>1. PICK i \in Out : \A j \in Out : i <= j
  <2> HIDE DEF Out
  <2> QED
    BY <1>0, LeastNatural
<1>2. i \in 1..n /\ i - 1 \in 0..n /\ i - 1 \notin Out
  BY <1>1
<1> QED
  BY <1>1, <1>2

\* Each pass of a loop over 1..n takes an element of S to one.
Passes(step, S, n) == \A p \in S, i \in 1..n : step[<<p, i>>] \in S
Runs(g, step, base, n) == g[0] = base /\ \A i \in 1..n : g[i] = step[<<g[i - 1], i>>]

\* There is a function that runs the loop.
LEMMA LoopExists ==
  ASSUME NEW S, NEW n \in Nat, NEW base \in S, NEW step, Passes(step, S, n)
  PROVE  \E g \in [0..n -> S] : Runs(g, step, base, n)
<1> DEFINE Out == {k \in 0..n : ~ \E g \in [0..k -> S] : Runs(g, step, base, k)}
<1> SUFFICES ASSUME Out # {} PROVE FALSE
  <2>1. n \notin Out => \E g \in [0..n -> S] : Runs(g, step, base, n)
    OBVIOUS
  <2> QED
    BY <2>1
<1>0. Out \subseteq Nat
  OBVIOUS
<1>1. PICK k \in Out : \A j \in Out : k <= j
  <2> HIDE DEF Out
  <2> QED
    BY <1>0, LeastNatural
<1>2. CASE k = 0
  <2>1. [i \in 0..0 |-> base] \in [0..0 -> S] /\ Runs([i \in 0..0 |-> base], step, base, 0)
    BY DEF Runs
  <2> QED
    BY <1>1, <1>2, <2>1
<1>3. CASE k # 0
  <2>1. k \in 1..n /\ k - 1 \in 0..n /\ k - 1 \notin Out
    <3>1. k \in 0..n
      OBVIOUS
    <3>2. k - 1 \notin Out
      <4> HIDE DEF Out
      <4> QED
        BY <1>0, <1>1, <1>3
    <3> QED
      BY <1>3, <3>1, <3>2
  <2>2. PICK g \in [0..(k - 1) -> S] : Runs(g, step, base, k - 1)
    BY <2>1
  <2> DEFINE h == [i \in 0..k |-> IF i < k THEN g[i] ELSE step[<<g[k - 1], k>>]]
  <2>3. g[k - 1] \in S /\ step[<<g[k - 1], k>>] \in S
    BY <2>1 DEF Passes
  <2>4. h \in [0..k -> S] /\ h[0] = base
    BY <2>1, <2>2, <2>3 DEF Runs
  <2>5. ASSUME NEW i \in 1..k PROVE h[i] = step[<<h[i - 1], i>>]
    <3>1. i - 1 \in 0..k /\ i - 1 < k /\ h[i - 1] = g[i - 1]
      BY <2>1
    <3>2. CASE i < k
      <4>1. h[i] = g[i] /\ i \in 1..(k - 1)
        BY <2>1, <3>2
      <4> QED
        BY <2>2, <3>1, <4>1 DEF Runs
    <3>3. CASE i = k
      BY <2>1, <3>1, <3>3
    <3> QED
      BY <2>1, <3>2, <3>3
  <2>6. Runs(h, step, base, k)
    BY <2>4, <2>5 DEF Runs
  <2> QED
    BY <1>1, <2>4, <2>6
<1> QED
  BY <1>2, <1>3

(***************************************************************************)
(* Text.                                                                   *)
(***************************************************************************)
\* The words no engine has to be asked for.
Common == {
  Comma, "(", ")", "*", "+", "->", "->>", ".", "0", "1=0", "1=1", "=", ">", "<subquery>",
  "SELECT", "DISTINCT", "FROM", "AS", "INNER_JOIN", "LEFT_JOIN", "ON", "WHERE", "AND", "OR", "NOT",
  "IN", "NOT_IN", "IN_QUERY", "IS_NULL", "EXISTS", "NOT_EXISTS", "GROUP_BY", "HAVING", "ORDER_BY",
  "ASC", "NULL", "LIMIT", "OFFSET", "ROWS", "ROWS_ONLY", "UNION", "ALL", "RECURSIVE", "UPDATE",
  "SHARE", "NOWAIT", "SKIP_LOCKED", "CASE", "END", "SUM", "ROW_NUMBER", "OVER", "PARTITION_BY",
  "count(*)", "random()", "INSERT_INTO", "VALUES", "INTO", "USING", "SET", "DELETE_FROM",
  "DO_NOTHING", "DO_UPDATE_SET", "WHEN_MATCHED", "WHEN_NOT_MATCHED", "EXCLUDED.", "INSERTED.",
  "DELETED.", "src.", "tgt.", "src", "tgt", "_cnt", "deleted_at", "id", "t", "q", "o", "x", "a", "b",
  "hid", "none"}

\* What an engine with the features F understands and the model has: no word of
\* a feature that is not in F, no unknown column, no placeholder.
WordsOf(F) == Common \cup {word \in UNION {Needs[feat] : feat \in DOMAIN Needs} :
                             \A feat \in DOMAIN Needs : word \in Needs[feat] => feat \in F}
Granted(F, word) ==
  /\ word \notin {"?", "$", "zz"}
  /\ \A feat \in DOMAIN Needs : word \in Needs[feat] => feat \in F
Plain(F)   == [w : WordsOf(F), n : {0}, v : {0}]
Tokens(F)  == Plain(F) \cup [w : {"?", "$"}, n : Nat, v : Nat]

IsPlace(t) == t.w \in {"?", "$"}
Spot(qmark, n, v) == IF qmark THEN Mark(v) ELSE Bind(n, v)

\* pos[k] is where the value args[k] stands in sql: in the order of the
\* arguments, numbered from first on, and there are no other placeholders.
Positions(pos, qmark, first, sql, args) ==
  /\ pos \in [1..Len(args) -> 1..Len(sql)]
  /\ \A i, j \in 1..Len(args) : i < j => pos[i] < pos[j]
  /\ \A k \in 1..Len(args) : sql[pos[k]] = Spot(qmark, first + k - 1, args[k])
  /\ \A i \in 1..Len(sql) : IsPlace(sql[i]) => \E k \in 1..Len(args) : pos[k] = i
InPlace(qmark, first, sql, args) == \E pos : Positions(pos, qmark, first, sql, args)

\* Raw fragments; outputs under construction on the dialect d.
Exprs(F) == {e \in [sql : Seq(Tokens(F)), args : Seq(Nat)] : InPlace(TRUE, 1, e.sql, e.args)}
Buffers(d) ==
  {buf \in [sql : Seq(Tokens(d.feats)), args : Seq(Nat), n : Nat] :
     buf.n = Len(buf.args) + 1 /\ InPlace(d.qmark, 1, buf.sql, buf.args)}

IsDialect(d) == d.qmark \in BOOLEAN

\* What WordsOf means.
LEMMA WordsGranted ==
  ASSUME NEW F, NEW word \in WordsOf(F)
  PROVE  Granted(F, word)
<1>1. Comma \notin {"?", "$", "zz"}
  BY DEF Comma
<1>2. \A feat \in DOMAIN Needs : Comma \notin Needs[feat]
  <2> DEFINE Listed == {"INTERSECT", "EXCEPT", "LATERAL", "MATCH", "FOR", "WITH", "DISTINCT_ON",
                        "UPDATE_FROM", "@>", "@>ARRAY", "<@ARRAY", "&&ARRAY", "=ANY",
                        "cardinality", "RETURNING", "OUTPUT", "FETCH", "MERGE", "ON_CONFLICT",
                        "ON_DUPLICATE_KEY_UPDATE"}
  <2>1. Comma \notin Listed
    BY Zenon DEF Comma
  <2>2. \A feat \in DOMAIN Needs : Needs[feat] \subseteq Listed
    BY DEF Needs
  <2> QED
    BY <2>1, <2>2
<1>3. CASE word \in Common
  <2>1. word \notin {"?", "$", "zz"}
    BY <1>1, <1>3 DEF Common
  <2>2. ASSUME NEW feat \in DOMAIN Needs PROVE word \notin Needs[feat]
    BY <1>2, <1>3 DEF Common, Needs
  <2> QED
    BY <2>1, <2>2 DEF Granted
<1>4. CASE word \notin Common
  <2>1. \A feat \in DOMAIN Needs : \A other \in Needs[feat] : other \notin {"?", "$", "zz"}
    BY DEF Needs
  <2> QED
    BY <1>4, <2>1 DEF Granted, WordsOf
<1> QED
  BY <1>3, <1>4

\* A text without placeholders takes no argument.
LEMMA NoPlace ==
  ASSUME NEW F, NEW sql \in Seq(Plain(F)), NEW qmark, NEW first
  PROVE  InPlace(qmark, first, sql, <<>>)
<1> DEFINE pos == [k \in 1..0 |-> 1]
<1>1. \A i \in 1..Len(sql) : sql[i] \in Plain(F)
  BY ElementOfSeq
<1>2. \A t \in Plain(F) : ~IsPlace(t)
  BY WordsGranted DEF Plain, Granted, IsPlace
<1>3. Positions(pos, qmark, first, sql, <<>>)
  BY <1>1, <1>2 DEF Positions
<1> QED
  BY <1>3 DEF InPlace

\* A placeholder takes one.
LEMMA OnePlace ==
  ASSUME NEW qmark \in BOOLEAN, NEW first \in Nat, NEW v \in Nat
  PROVE  InPlace(qmark, first, <<Spot(qmark, first, v)>>, <<v>>)
<1> DEFINE pos == [k \in 1..1 |-> 1]
<1>1. Positions(pos, qmark, first, <<Spot(qmark, first, v)>>, <<v>>)
  BY DEF Positions
<1> QED
  BY <1>1 DEF InPlace

\* Two texts one after the other, the second numbered on from the first.
LEMMA PlacesJoin ==
  ASSUME NEW F, NEW s \in Seq(Tokens(F)), NEW t \in Seq(Tokens(F)),
         NEW a \in Seq(Nat), NEW c \in Seq(Nat), NEW qmark, NEW first \in Nat,
         InPlace(qmark, first, s, a), InPlace(qmark, first + Len(a), t, c)
  PROVE  InPlace(qmark, first, s \o t, a \o c)
<1>1. PICK p : Positions(p, qmark, first, s, a)
  BY DEF InPlace
<1>2. PICK q : Positions(q, qmark, first + Len(a), t, c)
  BY DEF InPlace
<1> DEFINE m == Len(a)
           l == Len(s)
           r == [k \in 1..(m + Len(c)) |-> IF k <= m THEN p[k] ELSE l + q[k - m]]
<1>3. /\ m \in Nat /\ l \in Nat /\ Len(c) \in Nat /\ Len(t) \in Nat
      /\ Len(s \o t) = l + Len(t) /\ Len(a \o c) = m + Len(c)
  BY ConcatProperties, LenProperties
<1>4. /\ \A i \in 1..l : (s \o t)[i] = s[i]
      /\ \A i \in 1..Len(t) : (s \o t)[l + i] = t[i]
      /\ \A i \in 1..m : (a \o c)[i] = a[i]
      /\ \A i \in 1..Len(c) : (a \o c)[m + i] = c[i]
  BY <1>3
<1>5. ASSUME NEW k \in 1..m
      PROVE  k \in 1..(m + Len(c)) /\ r[k] = p[k] /\ p[k] \in 1..l
  <2>1. k \in 1..(m + Len(c)) /\ k <= m
    BY <1>3
  <2>2. p[k] \in 1..l
    BY <1>1 DEF Positions
  <2> QED
    BY <2>1, <2>2
<1>6. ASSUME NEW k \in 1..Len(c)
      PROVE  /\ m + k \in 1..(m + Len(c)) /\ r[m + k] = l + q[k] /\ q[k] \in 1..Len(t)
  <2>1. m + k \in 1..(m + Len(c)) /\ ~(m + k <= m) /\ (m + k) - m = k
    BY <1>3
  <2>2. q[k] \in 1..Len(t)
    BY <1>2, <1>3 DEF Positions
  <2> QED
    BY <2>1, <2>2
<1>7. \A k \in 1..(m + Len(c)) : k \in 1..m \/ \E j \in 1..Len(c) : k = m + j
  <2> SUFFICES ASSUME NEW k \in 1..(m + Len(c)), k \notin 1..m
               PROVE  \E j \in 1..Len(c) : k = m + j
    OBVIOUS
  <2>1. k - m \in 1..Len(c) /\ k = m + (k - m)
    BY <1>3
  <2> QED
    BY <2>1
<1>a. \A i, j \in 1..m : i < j => p[i] < p[j]
  BY <1>1 DEF Positions
<1>b. \A i, j \in 1..Len(c) : i < j => q[i] < q[j]
  BY <1>2 DEF Positions
<1>c. \A k \in 1..m : s[p[k]] = Spot(qmark, first + k - 1, a[k])
  BY <1>1 DEF Positions
<1>d. \A k \in 1..Len(c) : t[q[k]] = Spot(qmark, first + m + k - 1, c[k])
  BY <1>2 DEF Positions
<1>f. m \in Nat /\ l \in Nat /\ Len(c) \in Nat /\ Len(t) \in Nat
  BY <1>3
<1>e. r = [k \in 1..(m + Len(c)) |-> r[k]]
  OBVIOUS
<1> HIDE DEF r, m, l
<1>8. r \in [1..(m + Len(c)) -> 1..(l + Len(t))]
  <2>1. ASSUME NEW k \in 1..(m + Len(c)) PROVE r[k] \in 1..(l + Len(t))
    <3>1. CASE k \in 1..m
      <4>1. r[k] \in 1..l
        BY <1>5, <3>1
      <4> QED
        BY <1>f, <4>1
    <3>2. ASSUME NEW j \in 1..Len(c), k = m + j PROVE r[k] \in 1..(l + Len(t))
      <4>1. r[k] = l + q[j] /\ q[j] \in 1..Len(t)
        BY <1>6, <3>2
      <4> QED
        BY <1>3, <4>1
    <3> QED
      BY <1>7, <3>1, <3>2
  <2> QED
    BY <2>1, <1>e
<1>9. ASSUME NEW i \in 1..(m + Len(c)), NEW j \in 1..(m + Len(c)), i < j PROVE r[i] < r[j]
  <2>1. CASE i \in 1..m /\ j \in 1..m
    BY <1>a, <1>5, <1>9, <2>1
  <2>2. ASSUME i \in 1..m, NEW x \in 1..Len(c), j = m + x PROVE r[i] < r[j]
    <3>1. r[i] \in 1..l /\ r[j] = l + q[x] /\ q[x] \in 1..Len(t)
      BY <1>5, <1>6, <2>2
    <3> QED
      BY <1>f, <3>1
  <2>3. ASSUME NEW x \in 1..Len(c), NEW y \in 1..Len(c), i = m + x, j = m + y
        PROVE  r[i] < r[j]
    <3>1. x < y
      BY <1>3, <1>9, <2>3
    <3>2. q[x] < q[y]
      BY <1>b, <3>1
    <3>3. r[i] = l + q[x] /\ r[j] = l + q[y] /\ q[x] \in 1..Len(t) /\ q[y] \in 1..Len(t)
      BY <1>6, <2>3
    <3>4. \A x1, y1 \in Nat : x1 < y1 => l + x1 < l + y1
      BY <1>f
    <3>5. q[x] \in Nat /\ q[y] \in Nat
      <4>1. 1..Len(t) \subseteq Nat
        BY <1>f
      <4> QED
        BY <3>3, <4>1
    <3> QED
      BY <3>2, <3>3, <3>4, <3>5
  <2>4. ~(i \notin 1..m /\ j \in 1..m)
    BY <1>3, <1>9
  <2> QED
    BY <1>7, <2>1, <2>2, <2>3, <2>4
<1>10. ASSUME NEW k \in 1..(m + Len(c))
       PROVE  (s \o t)[r[k]] = Spot(qmark, first + k - 1, (a \o c)[k])
  <2>1. CASE k \in 1..m
    <3>1. r[k] = p[k] /\ p[k] \in 1..l
      BY <1>5, <2>1
    <3>2. (s \o t)[p[k]] = s[p[k]]
      BY <1>4, <3>1
    <3>3. (a \o c)[k] = a[k]
      BY <1>4, <2>1
    <3> QED
      BY <1>c, <2>1, <3>1, <3>2, <3>3
  <2>2. ASSUME NEW j \in 1..Len(c), k = m + j
        PROVE  (s \o t)[r[k]] = Spot(qmark, first + k - 1, (a \o c)[k])
    <3>1. first + m + j - 1 = first + k - 1
      BY <1>3, <2>2
    <3>2. r[k] = l + q[j] /\ q[j] \in 1..Len(t)
      BY <1>6, <2>2
    <3>3. (s \o t)[r[k]] = t[q[j]] /\ (a \o c)[k] = c[j]
      BY <1>4, <2>2, <3>2
    <3> QED
      BY <1>d, <3>1, <3>3
  <2> QED
    BY <1>7, <2>1, <2>2
<1>11. ASSUME NEW i \in 1..(l + Len(t)), IsPlace((s \o t)[i])
       PROVE  \E k \in 1..(m + Len(c)) : r[k] = i
  <2>1. CASE i \in 1..l
    <3>1. PICK k \in 1..m : p[k] = i
      BY <1>1, <1>4, <1>11, <2>1 DEF Positions, m, l
    <3>2. k \in 1..(m + Len(c))
      BY <1>3
    <3> QED
      BY <1>5, <3>1, <3>2
  <2>2. CASE i \notin 1..l
    <3>1. i - l \in 1..Len(t) /\ i = l + (i - l)
      BY <1>3, <2>2
    <3>2. IsPlace(t[i - l])
      BY <1>4, <1>11, <3>1
    <3>3. PICK k \in 1..Len(c) : q[k] = i - l
      BY <1>2, <3>1, <3>2 DEF Positions
    <3> QED
      BY <1>6, <3>1, <3>3
  <2> QED
    BY <2>1, <2>2
<1>12. Positions(r, qmark, first, s \o t, a \o c)
  BY <1>3, <1>8, <1>9, <1>10, <1>11 DEF Positions, m, l
<1> QED
  BY <1>12 DEF InPlace

\* The images under an injection of 1..m are m in number.
LEMMA CountImages ==
  ASSUME NEW m \in Nat, NEW p, \A i, j \in 1..m : i # j => p[i] # p[j]
  PROVE  Cardinality({p[i] : i \in 1..m}) = m
<1> DEFINE T == {p[i] : i \in 1..m}
           f == [i \in 1..m |-> p[i]]
<1>1. f \in Bijection(1..m, T)
  <2>1. f \in [1..m -> T] /\ \A i \in 1..m : f[i] = p[i]
    OBVIOUS
  <2>2. \A t \in T : \E i \in 1..m : f[i] = t
    OBVIOUS
  <2> HIDE DEF f, T
  <2>3. f \in Injection(1..m, T)
    BY <2>1 DEF Injection, IsInjective
  <2>4. f \in Surjection(1..m, T)
    BY <2>1, <2>2 DEF Surjection
  <2> QED
    BY <2>3, <2>4 DEF Bijection
<1>2. ExistsBijection(1..m, T)
  BY <1>1 DEF ExistsBijection
<1>3. IsFiniteSet(1..m) /\ Cardinality(1..m) = m
  BY FS_Interval
<1> QED
  BY <1>2, <1>3, FS_Bijection

\* The number of marks before the place of the k-th argument, and in all.
LEMMA MarksBefore ==
  ASSUME NEW F, NEW e \in Exprs(F), NEW pos, Positions(pos, TRUE, 1, e.sql, e.args)
  PROVE  /\ \A k \in 1..Len(e.args) :
              Cardinality({j \in 1..(pos[k] - 1) : e.sql[j].w = "?"}) = k - 1
         /\ Cardinality({j \in 1..Len(e.sql) : e.sql[j].w = "?"}) = Len(e.args)
<1> DEFINE sql == e.sql
           m   == Len(e.args)
           l   == Len(e.sql)
<1>1. e.sql \in Seq(Tokens(F)) /\ e.args \in Seq(Nat) /\ m \in Nat /\ l \in Nat
  BY DEF Exprs
<1>2. /\ \A k \in 1..m : pos[k] \in 1..l
      /\ \A i, j \in 1..m : i < j => pos[i] < pos[j]
  BY DEF Positions
<1>3. \A i \in 1..l : sql[i].w = "?" <=> \E k \in 1..m : pos[k] = i
  <2>1. \A k \in 1..m : sql[pos[k]].w = "?"
    <3>1. \A k \in 1..m : sql[pos[k]] = Mark(e.args[k])
      BY DEF Positions, Spot
    <3>2. \A v : Mark(v).w = "?"
      BY DEF Mark
    <3> QED
      BY <3>1, <3>2
  <2>2. \A i \in 1..l : sql[i].w = "?" => \E k \in 1..m : pos[k] = i
    BY DEF Positions, IsPlace
  <2> QED
    BY <2>1, <2>2
<1> HIDE DEF m, l, sql
<1>4. \A k \in 1..m : pos[k] \in Nat
  <2>1. 1..l \subseteq Nat
    BY <1>1
  <2> QED
    BY <1>2, <2>1
<1>5. \A i, j \in 1..m : i # j => pos[i] # pos[j]
  <2> SUFFICES ASSUME NEW i \in 1..m, NEW j \in 1..m, i # j PROVE pos[i] # pos[j]
    OBVIOUS
  <2>1. i < j \/ j < i
    BY <1>1
  <2>2. \A x, y \in Nat : x < y => x # y
    OBVIOUS
  <2> QED
    BY <1>2, <1>4, <2>1, <2>2
<1>6. ASSUME NEW k \in 1..m
      PROVE  Cardinality({j \in 1..(pos[k] - 1) : sql[j].w = "?"}) = k - 1
  <2>1. k - 1 \in Nat /\ 1..(k - 1) \subseteq 1..m
    BY <1>1
  <2>2. Cardinality({pos[x] : x \in 1..(k - 1)}) = k - 1
    BY <1>5, <2>1, CountImages
  <2>3. ASSUME NEW j \in 1..(pos[k] - 1), sql[j].w = "?" PROVE \E x \in 1..(k - 1) : pos[x] = j
    <3>1. j \in 1..l
      BY <1>1, <1>2, <1>4, <2>3
    <3>2. PICK x \in 1..m : pos[x] = j
      BY <1>3, <2>3, <3>1
    <3>3. x < k
      <4>1. pos[x] < pos[k]
        BY <1>4, <2>3, <3>2
      <4>2. ~(k < x) /\ k # x
        <5>1. \A y, z \in Nat : y < z => ~(z < y) /\ y # z
          OBVIOUS
        <5> QED
          BY <1>2, <1>4, <4>1, <5>1
      <4> QED
        BY <1>1, <4>2
    <3> QED
      BY <1>1, <3>2, <3>3
  <2>4. ASSUME NEW x \in 1..(k - 1)
        PROVE  pos[x] \in 1..(pos[k] - 1) /\ sql[pos[x]].w = "?"
    <3>1. x \in 1..m /\ x < k
      BY <1>1
    <3>2. pos[x] < pos[k] /\ pos[x] \in 1..l /\ pos[x] \in Nat /\ pos[k] \in Nat
      BY <1>2, <1>4, <3>1
    <3>3. sql[pos[x]].w = "?"
      BY <1>3, <3>1, <3>2
    <3>4. 1 <= pos[x]
      BY <1>1, <3>2
    <3> QED
      BY <3>2, <3>3, <3>4
  <2>5. {j \in 1..(pos[k] - 1) : sql[j].w = "?"} = {pos[x] : x \in 1..(k - 1)}
    BY <2>3, <2>4
  <2> QED
    BY <2>2, <2>5
<1>7. Cardinality({j \in 1..l : sql[j].w = "?"}) = m
  <2>1. Cardinality({pos[x] : x \in 1..m}) = m
    <3>1. m \in Nat
      BY <1>1
    <3> QED
      BY <1>5, <3>1, CountImages
  <2>2. {j \in 1..l : sql[j].w = "?"} = {pos[x] : x \in 1..m}
    BY <1>2, <1>3
  <2> QED
    BY <2>1, <2>2
<1> QED
  BY <1>6, <1>7 DEF m, l, sql

\* A fragment put into an output: its marks numbered from the next number on.
LEMMA FragmentPlaces ==
  ASSUME NEW F, NEW e \in Exprs(F), NEW d, IsDialect(d), NEW buf, buf.n \in Nat
  PROVE  LET text == [i \in DOMAIN e.sql |->
                        IF e.sql[i].w = "?"
                        THEN Placeholder(d, buf.n + Cardinality({j \in 1..(i - 1) : e.sql[j].w = "?"}),
                                         e.sql[i].v)
                        ELSE e.sql[i]]
         IN  /\ text \in Seq(Tokens(F))
             /\ InPlace(d.qmark, buf.n, text, e.args)
             /\ Cardinality({j \in 1..Len(e.sql) : e.sql[j].w = "?"}) = Len(e.args)
<1> DEFINE marks(i) == Cardinality({j \in 1..(i - 1) : e.sql[j].w = "?"})
           text == [i \in DOMAIN e.sql |-> IF e.sql[i].w = "?"
                                           THEN Placeholder(d, buf.n + marks(i), e.sql[i].v)
                                           ELSE e.sql[i]]
           m    == Len(e.args)
           l    == Len(e.sql)
<1>1. /\ e.sql \in Seq(Tokens(F)) /\ e.args \in Seq(Nat) /\ m \in Nat /\ l \in Nat
      /\ DOMAIN e.sql = 1..l /\ InPlace(TRUE, 1, e.sql, e.args)
  <2>1. e.sql \in Seq(Tokens(F)) /\ e.args \in Seq(Nat) /\ InPlace(TRUE, 1, e.sql, e.args)
    BY DEF Exprs
  <2> QED
    BY <2>1, LenProperties
<1>2. PICK pos : Positions(pos, TRUE, 1, e.sql, e.args)
  BY <1>1 DEF InPlace
<1>3. \A k \in 1..m : pos[k] \in 1..l
  BY <1>2 DEF Positions
<1>4. \A k \in 1..m : marks(pos[k]) = k - 1
  BY <1>2, MarksBefore
<1>5. \A k \in 1..m : e.sql[pos[k]] = Mark(e.args[k])
  BY <1>2 DEF Positions, Spot
<1>6. \A i \in 1..l : IsPlace(e.sql[i]) => \E k \in 1..m : pos[k] = i
  BY <1>2 DEF Positions
<1>7. ASSUME NEW k \in 1..m PROVE text[pos[k]] = Spot(d.qmark, buf.n + k - 1, e.args[k])
  <2>1. text[pos[k]] = Placeholder(d, buf.n + (k - 1), e.args[k])
    <3>1. pos[k] \in DOMAIN e.sql
      BY <1>1, <1>3
    <3>2. e.sql[pos[k]].w = "?" /\ e.sql[pos[k]].v = e.args[k]
      <4>1. \A v : Mark(v).w = "?" /\ Mark(v).v = v
        BY DEF Mark
      <4>2. e.sql[pos[k]] = Mark(e.args[k])
        BY <1>5
      <4> QED
        BY <4>1, <4>2
    <3> HIDE DEF marks
    <3>3. text[pos[k]] = Placeholder(d, buf.n + marks(pos[k]), e.args[k])
      BY <3>1, <3>2
    <3> QED
      BY <1>4, <3>3
  <2>2. buf.n + (k - 1) = buf.n + k - 1
    BY <1>1
  <2> QED
    BY <2>1, <2>2 DEF Spot, Placeholder
<1>8. ASSUME NEW i \in 1..l, ~ \E k \in 1..m : pos[k] = i
      PROVE  text[i] = e.sql[i] /\ ~IsPlace(e.sql[i])
  BY <1>1, <1>6, <1>8 DEF IsPlace
<1>9. DOMAIN text = 1..l
  BY <1>1
<1> HIDE DEF text
<1>10. ASSUME NEW i \in 1..l PROVE text[i] \in Tokens(F)
  <2>1. CASE \E k \in 1..m : pos[k] = i
    <3>1. PICK k \in 1..m : pos[k] = i
      BY <2>1
    <3>2. buf.n + k - 1 \in Nat /\ e.args[k] \in Nat
      <4>1. e.args[k] \in Nat
        BY <1>1, ElementOfSeq
      <4> QED
        BY <1>1, <4>1
    <3>3. Spot(d.qmark, buf.n + k - 1, e.args[k]) \in Tokens(F)
      BY <3>2 DEF Spot, Mark, Bind, Tokens
    <3> QED
      BY <1>7, <3>1, <3>3
  <2>2. CASE ~ \E k \in 1..m : pos[k] = i
    BY <1>1, <1>8, <2>2, ElementOfSeq
  <2> QED
    BY <2>1, <2>2
<1>11. text \in Seq(Tokens(F)) /\ Len(text) = l
  <2>1. text = [i \in 1..l |-> text[i]]
    BY <1>9 DEF text
  <2>2. text \in [1..l -> Tokens(F)]
    BY <1>10, <2>1
  <2>3. text \in Seq(Tokens(F))
    BY <1>1, <2>2 DEF Seq
  <2>4. Len(text) = l
    BY <1>1, <1>9, <2>3, LenProperties
  <2> QED
    BY <2>3, <2>4
<1>12. Positions(pos, d.qmark, buf.n, text, e.args)
  <2>1. pos \in [1..m -> 1..Len(text)] /\ \A i, j \in 1..m : i < j => pos[i] < pos[j]
    BY <1>2, <1>11 DEF Positions
  <2>2. \A i \in 1..Len(text) : IsPlace(text[i]) => \E k \in 1..m : pos[k] = i
    BY <1>8, <1>11
  <2> QED
    BY <1>7, <2>1, <2>2 DEF Positions
<1>13. Cardinality({j \in 1..l : e.sql[j].w = "?"}) = m
  BY <1>2, MarksBefore
<1> QED
  BY <1>11, <1>12, <1>13 DEF InPlace, text

(***************************************************************************)
(* Outputs under construction.                                             *)
(***************************************************************************)
\* An output with some of its fields changed.
LEMMA Changed ==
  ASSUME NEW buf, buf = [sql |-> buf.sql, args |-> buf.args, n |-> buf.n]
  PROVE  /\ \A x : [buf EXCEPT !.sql = x] = [sql |-> x, args |-> buf.args, n |-> buf.n]
         /\ \A x, z : [buf EXCEPT !.sql = x, !.n = z] = [sql |-> x, args |-> buf.args, n |-> z]
         /\ \A y : [buf EXCEPT !.args = y] = [sql |-> buf.sql, args |-> y, n |-> buf.n]
<1>1. ASSUME NEW x PROVE [buf EXCEPT !.sql = x] = [sql |-> x, args |-> buf.args, n |-> buf.n]
  OBVIOUS
<1>2. ASSUME NEW x, NEW z
      PROVE  [buf EXCEPT !.sql = x, !.n = z] = [sql |-> x, args |-> buf.args, n |-> z]
  <2> DEFINE one == [buf EXCEPT !.sql = x]
  <2>1. [buf EXCEPT !.sql = x, !.n = z] = [one EXCEPT !.n = z]
    OBVIOUS
  <2>2. one = [sql |-> x, args |-> buf.args, n |-> buf.n]
    BY <1>1
  <2> HIDE DEF one
  <2>3. [one EXCEPT !.n = z] = [sql |-> x, args |-> buf.args, n |-> z]
    BY <2>2
  <2> QED
    BY <2>1, <2>3
<1>3. ASSUME NEW y PROVE [buf EXCEPT !.args = y] = [sql |-> buf.sql, args |-> y, n |-> buf.n]
  OBVIOUS
<1> QED
  BY <1>1, <1>2, <1>3

\* Words make plain text.
LEMMA WordsPlain ==
  ASSUME NEW F, NEW ws \in Seq(WordsOf(F))
  PROVE  Words(ws) \in Seq(Plain(F))
<1>1. Len(ws) \in Nat /\ DOMAIN ws = 1..Len(ws) /\ \A i \in 1..Len(ws) : ws[i] \in WordsOf(F)
  BY LenProperties, ElementOfSeq
<1>2. \A word \in WordsOf(F) : Word(word) \in Plain(F)
  BY DEF Word, Plain
<1>3. Words(ws) \in [1..Len(ws) -> Plain(F)]
  BY <1>1, <1>2 DEF Words
<1> QED
  BY <1>1, <1>3 DEF Seq

\* Plain text is text.
LEMMA PlainTokens ==
  ASSUME NEW F
  PROVE  Plain(F) \subseteq Tokens(F) /\ \A sql \in Seq(Plain(F)) : sql \in Seq(Tokens(F))
<1>1. Plain(F) \subseteq Tokens(F)
  BY DEF Tokens
<1> QED
  BY <1>1, SeqMonotonic

\* What an output is made of.
LEMMA BufferType ==
  ASSUME NEW d, NEW buf \in Buffers(d)
  PROVE  /\ buf \in [sql : Seq(Tokens(d.feats)), args : Seq(Nat), n : Nat]
         /\ buf = [sql |-> buf.sql, args |-> buf.args, n |-> buf.n]
         /\ buf.sql \in Seq(Tokens(d.feats)) /\ buf.args \in Seq(Nat) /\ buf.n \in Nat
         /\ buf.n = Len(buf.args) + 1 /\ buf.n = 1 + Len(buf.args)
         /\ InPlace(d.qmark, 1, buf.sql, buf.args)
<1>1. /\ buf \in [sql : Seq(Tokens(d.feats)), args : Seq(Nat), n : Nat]
      /\ buf.n = Len(buf.args) + 1 /\ InPlace(d.qmark, 1, buf.sql, buf.args)
  BY DEF Buffers
<1>2. Len(buf.args) \in Nat
  BY <1>1, LenProperties
<1> QED
  BY <1>1, <1>2

\* A text that is numbered from the next number on, and its arguments.
LEMMA Extended ==
  ASSUME NEW d, NEW buf \in Buffers(d), NEW sql \in Seq(Tokens(d.feats)), NEW args \in Seq(Nat),
         InPlace(d.qmark, buf.n, sql, args)
  PROVE  [sql |-> buf.sql \o sql, args |-> buf.args \o args, n |-> buf.n + Len(args)] \in Buffers(d)
<1>1. /\ buf.sql \in Seq(Tokens(d.feats)) /\ buf.args \in Seq(Nat) /\ buf.n \in Nat
      /\ buf.n = Len(buf.args) + 1 /\ buf.n = 1 + Len(buf.args)
      /\ InPlace(d.qmark, 1, buf.sql, buf.args)
  BY BufferType
<1>2. InPlace(d.qmark, 1, buf.sql \o sql, buf.args \o args)
  BY <1>1, PlacesJoin
<1>3. Len(buf.args) \in Nat /\ Len(args) \in Nat /\ buf.args \o args \in Seq(Nat)
      /\ Len(buf.args \o args) = Len(buf.args) + Len(args)
      /\ buf.sql \o sql \in Seq(Tokens(d.feats))
  BY <1>1, LenProperties, ConcatProperties
<1>4. buf.n + Len(args) = Len(buf.args \o args) + 1 /\ buf.n + Len(args) \in Nat
  BY <1>1, <1>3
<1> QED
  BY <1>2, <1>3, <1>4 DEF Buffers

\* Plain text after it.
LEMMA PutTextStays ==
  ASSUME NEW d, NEW buf \in Buffers(d), NEW sql \in Seq(Plain(d.feats))
  PROVE  PutText(buf, sql) \in Buffers(d)
<1>1. /\ buf = [sql |-> buf.sql, args |-> buf.args, n |-> buf.n]
      /\ buf.sql \in Seq(Tokens(d.feats)) /\ buf.args \in Seq(Nat) /\ buf.n \in Nat
  BY BufferType
<1>2. InPlace(d.qmark, buf.n, sql, <<>>)
  BY NoPlace
<1>3. sql \in Seq(Tokens(d.feats)) /\ <<>> \in Seq(Nat) /\ Len(<<>>) = 0
  BY PlainTokens, EmptySeq
<1>4. [sql |-> buf.sql \o sql, args |-> buf.args \o <<>>, n |-> buf.n + 0] \in Buffers(d)
  BY <1>2, <1>3, Extended
<1>5. buf.args \o <<>> = buf.args /\ buf.n + 0 = buf.n
  BY <1>1, ConcatEmptySeq
<1>6. PutText(buf, sql) = [sql |-> buf.sql \o sql, args |-> buf.args, n |-> buf.n]
  <2>1. \A x : [buf EXCEPT !.sql = x] = [sql |-> x, args |-> buf.args, n |-> buf.n]
    BY <1>1, Changed
  <2> QED
    BY <2>1 DEF PutText
<1> QED
  BY <1>4, <1>5, <1>6

\* Words after it.
LEMMA PutStays ==
  ASSUME NEW d, NEW buf \in Buffers(d), NEW ws \in Seq(WordsOf(d.feats))
  PROVE  Put(buf, ws) \in Buffers(d)
<1>1. Put(buf, ws) = PutText(buf, Words(ws))
  BY DEF Put, PutText
<1> QED
  BY <1>1, PutTextStays, WordsPlain

\* A raw fragment and its arguments.
LEMMA ExprStays ==
  ASSUME NEW d, IsDialect(d), NEW buf \in Buffers(d), NEW e \in Exprs(d.feats)
  PROVE  AppendExpr(buf, d, e) \in Buffers(d)
<1> DEFINE text == [i \in DOMAIN e.sql |->
                      IF e.sql[i].w = "?"
                      THEN Placeholder(d, buf.n + Cardinality({j \in 1..(i - 1) : e.sql[j].w = "?"}),
                                       e.sql[i].v)
                      ELSE e.sql[i]]
           marks(i) == Cardinality({j \in 1..(i - 1) : e.sql[j].w = "?"})
<1>1. /\ buf = [sql |-> buf.sql, args |-> buf.args, n |-> buf.n]
      /\ buf.sql \in Seq(Tokens(d.feats)) /\ buf.args \in Seq(Nat) /\ buf.n \in Nat
  BY BufferType
<1>2. /\ text \in Seq(Tokens(d.feats))
      /\ InPlace(d.qmark, buf.n, text, e.args)
      /\ Cardinality({j \in 1..Len(e.sql) : e.sql[j].w = "?"}) = Len(e.args)
  BY <1>1, FragmentPlaces
<1>3. marks(Len(e.sql) + 1) = Len(e.args)
  <2>1. Len(e.sql) \in Nat
    BY LenProperties DEF Exprs
  <2>2. (Len(e.sql) + 1) - 1 = Len(e.sql)
    BY <2>1
  <2> QED
    BY <1>2, <2>2
<1>4. AppendExpr(buf, d, e) =
        [sql |-> buf.sql \o text, args |-> buf.args \o e.args, n |-> buf.n + Len(e.args)]
  <2> DEFINE one == [sql |-> buf.sql \o text, args |-> buf.args, n |-> buf.n + Len(e.args)]
  <2>1. AppendFragment(buf, d, e.sql) = [buf EXCEPT !.sql = @ \o text, !.n = @ + Len(e.args)]
    BY <1>3 DEF AppendFragment
  <2> HIDE DEF text
  <2>2. AppendFragment(buf, d, e.sql) = one
    BY <1>1, <2>1, Changed
  <2>3. [one EXCEPT !.args = @ \o e.args] =
          [sql |-> buf.sql \o text, args |-> buf.args \o e.args, n |-> buf.n + Len(e.args)]
    <3>1. one.sql = buf.sql \o text /\ one.args = buf.args
      OBVIOUS
    <3>2. one = [sql |-> one.sql, args |-> one.args, n |-> one.n]
      OBVIOUS
    <3> QED
      BY <3>1, <3>2, Changed
  <2> QED
    BY <2>2, <2>3 DEF AppendExpr
<1>5. e.args \in Seq(Nat)
  BY DEF Exprs
<1> HIDE DEF text
<1> QED
  BY <1>2, <1>4, <1>5, Extended

\* A placeholder, with the argument it stands for put after the arguments.
LEMMA PlaceholderStays ==
  ASSUME NEW d, IsDialect(d), NEW buf \in Buffers(d), NEW v \in Nat
  PROVE  [AppendPlaceholder(buf, d, v) EXCEPT !.args = Append(@, v)] \in Buffers(d)
<1>1. /\ buf = [sql |-> buf.sql, args |-> buf.args, n |-> buf.n]
      /\ buf.sql \in Seq(Tokens(d.feats)) /\ buf.args \in Seq(Nat) /\ buf.n \in Nat
  BY BufferType
<1> DEFINE text == <<Spot(d.qmark, buf.n, v)>>
<1>2. InPlace(d.qmark, buf.n, text, <<v>>)
  BY <1>1, OnePlace DEF IsDialect
<1>3. Spot(d.qmark, buf.n, v) \in Tokens(d.feats)
  BY <1>1 DEF Spot, Mark, Bind, Tokens
<1>4. text \in Seq(Tokens(d.feats)) /\ <<v>> \in Seq(Nat) /\ Len(<<v>>) = 1
  BY <1>3
<1>5. [sql |-> buf.sql \o text, args |-> buf.args \o <<v>>, n |-> buf.n + 1] \in Buffers(d)
  BY <1>2, <1>4, Extended
<1>6. Append(buf.sql, Spot(d.qmark, buf.n, v)) = buf.sql \o text /\ Append(buf.args, v) = buf.args \o <<v>>
  BY <1>1, <1>3, AppendIsConcat
<1>7. [AppendPlaceholder(buf, d, v) EXCEPT !.args = Append(@, v)] =
        [sql |-> buf.sql \o text, args |-> buf.args \o <<v>>, n |-> buf.n + 1]
  <2> DEFINE one == [sql |-> buf.sql \o text, args |-> buf.args, n |-> buf.n + 1]
  <2>1. AppendPlaceholder(buf, d, v) = [buf EXCEPT !.sql = buf.sql \o text, !.n = buf.n + 1]
    BY <1>6 DEF AppendPlaceholder, Placeholder, Spot
  <2> HIDE DEF text
  <2>2. AppendPlaceholder(buf, d, v) = one
    BY <1>1, <2>1, Changed
  <2>3. [one EXCEPT !.args = Append(@, v)] =
          [sql |-> buf.sql \o text, args |-> Append(buf.args, v), n |-> buf.n + 1]
    <3>1. one.sql = buf.sql \o text /\ one.args = buf.args
      OBVIOUS
    <3>2. one = [sql |-> one.sql, args |-> one.args, n |-> one.n]
      OBVIOUS
    <3> QED
      BY <3>1, <3>2, Changed
  <2> QED
    BY <1>6, <2>2, <2>3
<1> QED
  BY <1>5, <1>7

\* Nothing is an output.
LEMMA EmptyBuffer ==
  ASSUME NEW d
  PROVE  Empty \in Buffers(d)
<1>1. <<>> \in Seq(Plain(d.feats)) /\ <<>> \in Seq(Tokens(d.feats)) /\ <<>> \in Seq(Nat)
      /\ Len(<<>>) = 0
  BY EmptySeq
<1>2. InPlace(d.qmark, 1, <<>>, <<>>)
  BY <1>1, NoPlace
<1> QED
  BY <1>1, <1>2 DEF Empty, Buffers

(***************************************************************************)
(* Words.                                                                  *)
(***************************************************************************)
\* What every engine understands.
LEMMA CommonWords ==
  ASSUME NEW F
  PROVE  Common \subseteq WordsOf(F) /\ \A ws \in Seq(Common) : ws \in Seq(WordsOf(F))
<1>1. Common \subseteq WordsOf(F)
  BY DEF WordsOf
<1> QED
  BY <1>1, SeqMonotonic

\* The words of an engine that has the feature.
LEMMA FeatureWords ==
  ASSUME NEW F
  PROVE  /\ "IntersectExcept" \in F => "INTERSECT" \in WordsOf(F) /\ "EXCEPT" \in WordsOf(F)
         /\ "Lateral" \in F => "LATERAL" \in WordsOf(F)
         /\ "Match" \in F => "MATCH" \in WordsOf(F)
         /\ "RowLocking" \in F => "FOR" \in WordsOf(F)
         /\ "CTE" \in F => "WITH" \in WordsOf(F)
         /\ "DistinctOn" \in F => "DISTINCT_ON" \in WordsOf(F)
         /\ "UpdateFrom" \in F => "UPDATE_FROM" \in WordsOf(F)
         /\ "JSONB" \in F => "@>" \in WordsOf(F)
         /\ "Array" \in F => {"@>ARRAY", "<@ARRAY", "&&ARRAY", "=ANY", "cardinality"} \subseteq WordsOf(F)
         /\ "Returning" \in F => "RETURNING" \in WordsOf(F)
         /\ "Output" \in F => "OUTPUT" \in WordsOf(F)
         /\ "OffsetFetch" \in F => "FETCH" \in WordsOf(F)
         /\ "Merge" \in F => "MERGE" \in WordsOf(F)
         /\ "InsertOnConflict" \in F => "ON_CONFLICT" \in WordsOf(F)
         /\ "OnDuplicateKey" \in F => "ON_DUPLICATE_KEY_UPDATE" \in WordsOf(F)
<1> DEFINE Only(feat, word) == /\ feat \in DOMAIN Needs /\ word \in Needs[feat]
                              /\ \A other \in DOMAIN Needs : word \in Needs[other] => other = feat
<1>1. ASSUME NEW feat, NEW word, Only(feat, word), feat \in F
      PROVE  word \in WordsOf(F)
  BY <1>1 DEF WordsOf
<1>2. Only("IntersectExcept", "INTERSECT") /\ Only("IntersectExcept", "EXCEPT")
  BY DEF Needs
<1>3. Only("Lateral", "LATERAL") /\ Only("Match", "MATCH") /\ Only("RowLocking", "FOR")
  BY DEF Needs
<1>4. Only("CTE", "WITH") /\ Only("DistinctOn", "DISTINCT_ON") /\ Only("UpdateFrom", "UPDATE_FROM")
  BY DEF Needs
<1>5. ASSUME NEW word \in {"@>ARRAY", "<@ARRAY", "&&ARRAY", "=ANY", "cardinality"}
      PROVE  Only("Array", word)
  BY DEF Needs
<1>6. Only("JSONB", "@>") /\ Only("Returning", "RETURNING") /\ Only("Output", "OUTPUT")
  BY DEF Needs
<1>7. Only("OffsetFetch", "FETCH") /\ Only("Merge", "MERGE")
  BY DEF Needs
<1>8. Only("InsertOnConflict", "ON_CONFLICT") /\ Only("OnDuplicateKey", "ON_DUPLICATE_KEY_UPDATE")
  BY DEF Needs
<1> HIDE DEF Only
<1>9. "IntersectExcept" \in F => "INTERSECT" \in WordsOf(F) /\ "EXCEPT" \in WordsOf(F)
  BY <1>1, <1>2
<1>10. /\ "Lateral" \in F => "LATERAL" \in WordsOf(F)
       /\ "Match" \in F => "MATCH" \in WordsOf(F)
       /\ "RowLocking" \in F => "FOR" \in WordsOf(F)
  BY <1>1, <1>3
<1>11. /\ "CTE" \in F => "WITH" \in WordsOf(F)
       /\ "DistinctOn" \in F => "DISTINCT_ON" \in WordsOf(F)
       /\ "UpdateFrom" \in F => "UPDATE_FROM" \in WordsOf(F)
  BY <1>1, <1>4
<1>12. "Array" \in F => {"@>ARRAY", "<@ARRAY", "&&ARRAY", "=ANY", "cardinality"} \subseteq WordsOf(F)
  BY <1>1, <1>5
<1>13. /\ "JSONB" \in F => "@>" \in WordsOf(F)
       /\ "Returning" \in F => "RETURNING" \in WordsOf(F)
       /\ "Output" \in F => "OUTPUT" \in WordsOf(F)
  BY <1>1, <1>6
<1>14. /\ "OffsetFetch" \in F => "FETCH" \in WordsOf(F)
       /\ "Merge" \in F => "MERGE" \in WordsOf(F)
  BY <1>1, <1>7
<1>15. /\ "InsertOnConflict" \in F => "ON_CONFLICT" \in WordsOf(F)
       /\ "OnDuplicateKey" \in F => "ON_DUPLICATE_KEY_UPDATE" \in WordsOf(F)
  BY <1>1, <1>8
<1> QED
  BY <1>9, <1>10, <1>11, <1>12, <1>13, <1>14, <1>15

(***************************************************************************)
(* Lists.                                                                  *)
(***************************************************************************)
\* Sequences over X with a separator make one over X.
LEMMA JoinedStays ==
  ASSUME NEW X, NEW sep \in Seq(X), NEW xs \in Seq(Seq(X))
  PROVE  Joined(sep, xs) \in Seq(X)
<1> DEFINE S == Seq(X)
           n == Len(xs)
           Body(p, i) == p \o (IF i = 1 THEN <<>> ELSE sep) \o xs[i]
           step == [x \in S \X (1..n) |-> Body(x[1], x[2])]
           f == CHOOSE h : h = [i \in 0..n |-> IF i = 0 THEN <<>> ELSE Body(h[i - 1], i)]
<1>1. n \in Nat /\ <<>> \in S
  BY LenProperties, EmptySeq
<1>2. ASSUME NEW p \in S, NEW i \in 1..n PROVE Body(p, i) \in S
  <2>1. xs[i] \in Seq(X)
    BY ElementOfSeq
  <2>2. (IF i = 1 THEN <<>> ELSE sep) \in Seq(X)
    BY EmptySeq
  <2> QED
    BY <2>1, <2>2, ConcatProperties
<1>3. Joined(sep, xs) = f[n]
  BY DEF Joined
<1> HIDE DEF Body, S, n
<1>4. \A p \in S, i \in 1..n : step[<<p, i>>] = Body(p, i)
  OBVIOUS
<1>5. Passes(step, S, n)
  BY <1>2, <1>4 DEF Passes
<1> HIDE DEF step
<1>6. PICK g \in [0..n -> S] : Runs(g, step, <<>>, n)
  BY <1>1, <1>5, LoopExists
<1>7. /\ \A i \in 1..n : i - 1 \in 0..n
      /\ \A i \in 0..n : i = 0 \/ i \in 1..n
  BY <1>1
<1>8. g = [i \in 0..n |-> IF i = 0 THEN <<>> ELSE Body(g[i - 1], i)]
  BY <1>4, <1>6, <1>7 DEF Runs
<1>9. f = [i \in 0..n |-> IF i = 0 THEN <<>> ELSE Body(f[i - 1], i)]
  BY <1>8
<1> HIDE DEF f
<1>10. f[0] = <<>> /\ \A i \in 1..n : f[i] = Body(f[i - 1], i)
  BY <1>1, <1>9
<1>11. f[0] \in S /\ \A i \in 1..n : f[i - 1] \in S => f[i] \in S
  BY <1>1, <1>2, <1>10
<1>12. \A i \in 0..n : f[i] \in S
  BY <1>1, <1>11, LoopStays
<1> QED
  BY <1>1, <1>3, <1>12 DEF S

\* Fragments with a separator.
LEMMA ExprsStay ==
  ASSUME NEW d, IsDialect(d), NEW buf \in Buffers(d), NEW sep \in Seq(WordsOf(d.feats)),
         NEW exprs \in Seq(Exprs(d.feats))
  PROVE  AppendExprs(buf, d, sep, exprs) \in Buffers(d)
<1> DEFINE S == Buffers(d)
           n == Len(exprs)
           Body(p, i) == AppendExpr(Put(p, IF i = 1 THEN <<>> ELSE sep), d, exprs[i])
           step == [x \in S \X (1..n) |-> Body(x[1], x[2])]
           f == CHOOSE h : h = [i \in 0..n |-> IF i = 0 THEN buf ELSE Body(h[i - 1], i)]
<1>1. n \in Nat /\ buf \in S
  BY LenProperties
<1>2. ASSUME NEW p \in S, NEW i \in 1..n PROVE Body(p, i) \in S
  <2>1. exprs[i] \in Exprs(d.feats)
    BY ElementOfSeq
  <2>2. (IF i = 1 THEN <<>> ELSE sep) \in Seq(WordsOf(d.feats))
    BY EmptySeq
  <2> QED
    BY <2>1, <2>2, PutStays, ExprStays
<1>3. AppendExprs(buf, d, sep, exprs) = f[n]
  BY DEF AppendExprs
<1> HIDE DEF Body, S, n
<1>4. \A p \in S, i \in 1..n : step[<<p, i>>] = Body(p, i)
  OBVIOUS
<1>5. Passes(step, S, n)
  BY <1>2, <1>4 DEF Passes
<1> HIDE DEF step
<1>6. PICK g \in [0..n -> S] : Runs(g, step, buf, n)
  BY <1>1, <1>5, LoopExists
<1>7. /\ \A i \in 1..n : i - 1 \in 0..n
      /\ \A i \in 0..n : i = 0 \/ i \in 1..n
  BY <1>1
<1>8. g = [i \in 0..n |-> IF i = 0 THEN buf ELSE Body(g[i - 1], i)]
  BY <1>4, <1>6, <1>7 DEF Runs
<1>9. f = [i \in 0..n |-> IF i = 0 THEN buf ELSE Body(f[i - 1], i)]
  BY <1>8
<1> HIDE DEF f
<1>10. f[0] = buf /\ \A i \in 1..n : f[i] = Body(f[i - 1], i)
  BY <1>1, <1>9
<1>11. f[0] \in S /\ \A i \in 1..n : f[i - 1] \in S => f[i] \in S
  BY <1>1, <1>2, <1>10
<1>12. \A i \in 0..n : f[i] \in S
  BY <1>1, <1>11, LoopStays
<1> QED
  BY <1>1, <1>3, <1>12 DEF S

\* The marks of a fragment have no number.
LEMMA MarksAnywhere ==
  ASSUME NEW sql, NEW args, NEW i, NEW j, InPlace(TRUE, i, sql, args)
  PROVE  InPlace(TRUE, j, sql, args)
BY DEF InPlace, Positions, Spot

\* Two fragments make one.
LEMMA ThenStays ==
  ASSUME NEW F, NEW e1 \in Exprs(F), NEW e2 \in Exprs(F)
  PROVE  Then(e1, e2) \in Exprs(F)
<1>1. /\ e1.sql \in Seq(Tokens(F)) /\ e1.args \in Seq(Nat) /\ InPlace(TRUE, 1, e1.sql, e1.args)
      /\ e2.sql \in Seq(Tokens(F)) /\ e2.args \in Seq(Nat) /\ InPlace(TRUE, 1, e2.sql, e2.args)
  BY DEF Exprs
<1>2. InPlace(TRUE, 1 + Len(e1.args), e2.sql, e2.args)
  BY <1>1, MarksAnywhere
<1>3. InPlace(TRUE, 1, e1.sql \o e2.sql, e1.args \o e2.args)
  BY <1>1, <1>2, PlacesJoin
<1> QED
  BY <1>1, <1>3, ConcatProperties DEF Then, Exprs

\* Plain text is a fragment without arguments, and such a fragment is plain text.
LEMMA PlainExpr ==
  ASSUME NEW F
  PROVE  /\ \A sql \in Seq(Plain(F)) : [sql |-> sql, args |-> <<>>] \in Exprs(F)
         /\ \A ws \in Seq(WordsOf(F)) : Text(ws) \in Exprs(F)
<1>1. ASSUME NEW sql \in Seq(Plain(F)) PROVE [sql |-> sql, args |-> <<>>] \in Exprs(F)
  BY NoPlace, PlainTokens, EmptySeq DEF Exprs
<1> QED
  BY <1>1, WordsPlain DEF Text

\* A fragment without arguments is plain text.
LEMMA BareExpr ==
  ASSUME NEW F, NEW e \in Exprs(F), e.args = <<>>
  PROVE  e.sql \in Seq(Plain(F))
<1>1. e.sql \in Seq(Tokens(F)) /\ InPlace(TRUE, 1, e.sql, <<>>) /\ Len(<<>>) = 0
  BY DEF Exprs
<1>2. \A i \in 1..Len(e.sql) : ~IsPlace(e.sql[i])
  BY <1>1 DEF InPlace, Positions
<1>3. \A i \in 1..Len(e.sql) : e.sql[i] \in Plain(F)
  BY <1>1, <1>2, ElementOfSeq DEF Tokens, IsPlace
<1>4. e.sql \in [1..Len(e.sql) -> Plain(F)] /\ Len(e.sql) \in Nat
  BY <1>1, <1>3, LenProperties
<1> QED
  BY <1>4 DEF Seq

\* A value is one.
LEMMA ValueExpr ==
  ASSUME NEW F, NEW v \in Nat
  PROVE  Value(v) \in Exprs(F)
<1>1. InPlace(TRUE, 1, <<Mark(v)>>, <<v>>)
  BY OnePlace DEF Spot
<1>2. Mark(v) \in Tokens(F)
  BY DEF Mark, Tokens
<1>3. <<Mark(v)>> \in Seq(Tokens(F)) /\ <<v>> \in Seq(Nat)
  BY <1>2
<1>4. Value(v).sql = <<Mark(v)>> /\ Value(v).args = <<v>>
      /\ Value(v) \in [sql : Seq(Tokens(F)), args : Seq(Nat)]
  BY <1>3 DEF Value
<1> QED
  BY <1>1, <1>4 DEF Exprs

\* Words and a value after them; a fragment between words.
LEMMA ValuedStays ==
  ASSUME NEW F, NEW ws \in Seq(WordsOf(F)), NEW v \in Nat
  PROVE  Valued(ws, v) \in Exprs(F)
BY PlainExpr, ValueExpr, ThenStays DEF Valued

\* Fragments one after the other.
LEMMA ConcatStays ==
  ASSUME NEW F, NEW exprs \in Seq(Exprs(F))
  PROVE  Concat(exprs) \in Exprs(F)
<1> DEFINE S == Exprs(F)
           n == Len(exprs)
           Body(p, i) == Then(p, exprs[i])
           step == [x \in S \X (1..n) |-> Body(x[1], x[2])]
           f == CHOOSE h : h = [i \in 0..n |-> IF i = 0 THEN Text(<<>>) ELSE Body(h[i - 1], i)]
<1>1. n \in Nat /\ Text(<<>>) \in S
  BY LenProperties, PlainExpr, EmptySeq
<1>2. ASSUME NEW p \in S, NEW i \in 1..n PROVE Body(p, i) \in S
  <2>1. exprs[i] \in Exprs(F)
    BY ElementOfSeq
  <2> QED
    BY <2>1, ThenStays
<1>3. Concat(exprs) = f[n]
  BY DEF Concat
<1> HIDE DEF Body, S, n
<1>4. \A p \in S, i \in 1..n : step[<<p, i>>] = Body(p, i)
  OBVIOUS
<1>5. Passes(step, S, n)
  BY <1>2, <1>4 DEF Passes
<1> HIDE DEF step
<1>6. PICK g \in [0..n -> S] : Runs(g, step, Text(<<>>), n)
  BY <1>1, <1>5, LoopExists
<1>7. /\ \A i \in 1..n : i - 1 \in 0..n
      /\ \A i \in 0..n : i = 0 \/ i \in 1..n
  BY <1>1
<1>8. g = [i \in 0..n |-> IF i = 0 THEN Text(<<>>) ELSE Body(g[i - 1], i)]
  BY <1>4, <1>6, <1>7 DEF Runs
<1>9. f = [i \in 0..n |-> IF i = 0 THEN Text(<<>>) ELSE Body(f[i - 1], i)]
  BY <1>8
<1> HIDE DEF f
<1>10. f[0] = Text(<<>>) /\ \A i \in 1..n : f[i] = Body(f[i - 1], i)
  BY <1>1, <1>9
<1>11. f[0] \in S /\ \A i \in 1..n : f[i - 1] \in S => f[i] \in S
  BY <1>1, <1>2, <1>10
<1>12. \A i \in 0..n : f[i] \in S
  BY <1>1, <1>11, LoopStays
<1> QED
  BY <1>1, <1>3, <1>12 DEF S

(***************************************************************************)
(* Statements.                                                             *)
(***************************************************************************)
Terms(F)   == Seq(Seq(Plain(F)))
Names      == {"t", "q", "none"}
Columns    == Seq([table : {"t", "q"}, name : {"a", "b"}])
Locks      == [strength : {"none", "UPDATE", "SHARE"}, skipLocked : BOOLEAN, noWait : BOOLEAN]

Shapes(F, withs, froms, unions) ==
  {s \in [with : withs, table : Names, from : froms, alias : Names, columns : Columns,
          projection : Terms(F), exprs : Seq(Exprs(F)), distinct : BOOLEAN, distinctOn : Terms(F),
          joins : Seq(Exprs(F)), where : Seq(Exprs(F)), groupBy : Terms(F),
          having : Seq(Exprs(F)), orderBy : Terms(F), hasLimit : BOOLEAN, hasOffset : BOOLEAN,
          union : unions, lock : Locks] :
     /\ s.lock # NoLock => "RowLocking" \in F
     /\ s.distinctOn # <<>> => "DistinctOn" \in F}

\* The selects the model can render on an engine with the features F: those that
\* are placed in others, and those that hold them.
Flats(F)   == Shapes(F, {<<>>}, {<<>>}, {<<>>})
Withs(F)   == {ws \in Seq([name : {"q"}, recursive : BOOLEAN, select : Flats(F)]) :
                 ws # <<>> => "CTE" \in F}
Froms(F)   == {<<>>} \cup {<<s>> : s \in Flats(F)}
SetOps(F)  == {op \in {"UNION", "INTERSECT", "EXCEPT"} : op # "UNION" => "IntersectExcept" \in F}
Unions(F)  == Seq([op : SetOps(F), all : BOOLEAN, select : Flats(F)])
Selects(F) == Shapes(F, Withs(F), Froms(F), Unions(F))

\* The clauses of a select.
LEMMA ShapeFields ==
  ASSUME NEW F, NEW withs, NEW froms, NEW unions, NEW s \in Shapes(F, withs, froms, unions)
  PROVE  /\ s.with \in withs /\ s.from \in froms /\ s.union \in unions
         /\ s.table \in Names /\ s.alias \in Names /\ s.columns \in Columns
         /\ s.projection \in Terms(F) /\ s.exprs \in Seq(Exprs(F))
         /\ s.distinctOn \in Terms(F) /\ s.groupBy \in Terms(F) /\ s.orderBy \in Terms(F)
         /\ s.joins \in Seq(Exprs(F)) /\ s.where \in Seq(Exprs(F)) /\ s.having \in Seq(Exprs(F))
         /\ s.lock \in Locks /\ (s.lock # NoLock => "RowLocking" \in F)
         /\ (s.distinctOn # <<>> => "DistinctOn" \in F)
BY DEF Shapes

\* A placed select is a select.
LEMMA FlatSelects ==
  ASSUME NEW F
  PROVE  Flats(F) \subseteq Selects(F)
<1>1. <<>> \in Withs(F) /\ <<>> \in Froms(F) /\ <<>> \in Unions(F)
  BY EmptySeq DEF Withs, Froms, Unions
<1> QED
  BY <1>1 DEF Flats, Selects, Shapes

\* A function on the indices of a sequence is one.
LEMMA MappedSeq ==
  ASSUME NEW T, NEW xs \in Seq(T), NEW S, NEW f \in [DOMAIN xs -> S]
  PROVE  f \in Seq(S) /\ Len(f) = Len(xs) /\ DOMAIN f = 1..Len(xs)
<1>1. Len(xs) \in Nat /\ DOMAIN xs = 1..Len(xs)
  BY LenProperties
<1>2. f \in Seq(S)
  BY <1>1 DEF Seq
<1> QED
  BY <1>1, <1>2, LenProperties

\* Terms between commas.
LEMMA TermList ==
  ASSUME NEW F, NEW terms \in Terms(F)
  PROVE  Joined(Words(<<Comma>>), terms) \in Seq(Plain(F))
<1>1. Comma \in WordsOf(F)
  BY CommonWords DEF Common
<1>2. <<Comma>> \in Seq(WordsOf(F))
  BY <1>1
<1> QED
  BY <1>2, WordsPlain, JoinedStays DEF Terms

\* One word after an output.
LEMMA PutWord ==
  ASSUME NEW d, NEW buf \in Buffers(d), NEW word \in WordsOf(d.feats)
  PROVE  Put(buf, <<word>>) \in Buffers(d)
<1>1. <<word>> \in Seq(WordsOf(d.feats))
  OBVIOUS
<1> QED
  BY <1>1, PutStays

\* GROUP BY and its like.
LEMMA TermsStay ==
  ASSUME NEW d, NEW buf \in Buffers(d), NEW keyword \in WordsOf(d.feats), NEW terms \in Terms(d.feats)
  PROVE  AppendTerms(buf, keyword, terms) \in Buffers(d)
<1>1. Put(buf, <<keyword>>) \in Buffers(d)
  BY PutWord
<1> QED
  BY <1>1, TermList, PutTextStays DEF AppendTerms

\* WHERE and HAVING.
LEMMA AndListStays ==
  ASSUME NEW d, IsDialect(d), NEW buf \in Buffers(d), NEW keyword \in WordsOf(d.feats),
         NEW exprs \in Seq(Exprs(d.feats))
  PROVE  AppendAndList(buf, d, keyword, exprs) \in Buffers(d)
<1>1. Put(buf, <<keyword>>) \in Buffers(d)
  BY PutWord
<1>2. "AND" \in WordsOf(d.feats)
  BY CommonWords DEF Common
<1>3. <<"AND">> \in Seq(WordsOf(d.feats))
  BY <1>2
<1> QED
  BY <1>1, <1>3, ExprsStay DEF AppendAndList

\* FOR UPDATE, with its modifier.
LEMMA LockStays ==
  ASSUME NEW d, NEW buf \in Buffers(d), NEW lock \in Locks, lock # NoLock => "RowLocking" \in d.feats
  PROVE  AppendLock(buf, lock) \in Buffers(d)
<1>1. CASE lock # NoLock
  <2>1. "FOR" \in WordsOf(d.feats)
    BY <1>1, FeatureWords
  <2>2. lock.strength \in WordsOf(d.feats) /\ "NOWAIT" \in WordsOf(d.feats)
        /\ "SKIP_LOCKED" \in WordsOf(d.feats)
    BY CommonWords DEF Common, Locks
  <2>3. <<"FOR", lock.strength>> \in Seq(WordsOf(d.feats))
    BY <2>1, <2>2
  <2>4. (IF lock.noWait THEN <<"NOWAIT">> ELSE IF lock.skipLocked THEN <<"SKIP_LOCKED">> ELSE <<>>)
          \in Seq(WordsOf(d.feats))
    <3>1. <<"NOWAIT">> \in Seq(WordsOf(d.feats)) /\ <<"SKIP_LOCKED">> \in Seq(WordsOf(d.feats))
      BY <2>2
    <3> QED
      BY <3>1, EmptySeq
  <2> QED
    BY <1>1, <2>3, <2>4, ConcatProperties, PutStays DEF AppendLock
<1>2. CASE lock = NoLock
  BY <1>2 DEF AppendLock
<1> QED
  BY <1>1, <1>2

\* LIMIT and OFFSET, or OFFSET ROWS FETCH.
LEMMA LimitOffsetStays ==
  ASSUME NEW d, NEW buf \in Buffers(d), NEW s
  PROVE  AppendLimitOffset(buf, d, s) \in Buffers(d)
<1>1. {"OFFSET", "ROWS", "ROWS_ONLY", "LIMIT"} \subseteq WordsOf(d.feats)
  BY CommonWords DEF Common
<1>2. <<"OFFSET", "ROWS">> \in Seq(WordsOf(d.feats)) /\ <<"LIMIT">> \in Seq(WordsOf(d.feats))
      /\ <<"OFFSET">> \in Seq(WordsOf(d.feats)) /\ <<>> \in Seq(WordsOf(d.feats))
  BY <1>1, EmptySeq
<1>3. CASE "OffsetFetch" \in d.feats
  <2>1. "FETCH" \in WordsOf(d.feats)
    BY <1>3, FeatureWords
  <2>2. <<"FETCH", "ROWS_ONLY">> \in Seq(WordsOf(d.feats))
    BY <1>1, <2>1
  <2>3. <<"OFFSET", "ROWS">> \o (IF s.hasLimit THEN <<"FETCH", "ROWS_ONLY">> ELSE <<>>)
          \in Seq(WordsOf(d.feats))
    BY <1>2, <2>2, ConcatProperties
  <2> QED
    BY <1>3, <2>3, PutStays DEF AppendLimitOffset
<1>4. CASE "OffsetFetch" \notin d.feats
  <2>1. (IF s.hasLimit THEN <<"LIMIT">> ELSE <<>>) \o (IF s.hasOffset THEN <<"OFFSET">> ELSE <<>>)
          \in Seq(WordsOf(d.feats))
    BY <1>2, ConcatProperties
  <2> QED
    BY <1>4, <2>1, PutStays DEF AppendLimitOffset
<1> QED
  BY <1>3, <1>4

\* What follows the core: the order, the limit, the lock.
LEMMA TailStays ==
  ASSUME NEW d, NEW withs, NEW froms, NEW unions, NEW s \in Shapes(d.feats, withs, froms, unions),
         NEW buf \in Buffers(d)
  PROVE  AppendTail(buf, d, s) \in Buffers(d)
<1> DEFINE noOrder == (s.hasLimit \/ s.hasOffset) /\ "OffsetFetch" \in d.feats
           ordered == IF s.orderBy # <<>> THEN AppendTerms(buf, "ORDER_BY", s.orderBy)
                      ELSE IF noOrder THEN Put(buf, <<"ORDER_BY", "(", "SELECT", "NULL", ")">>)
                      ELSE buf
<1>1. s.orderBy \in Terms(d.feats) /\ s.lock \in Locks /\ (s.lock # NoLock => "RowLocking" \in d.feats)
  BY ShapeFields
<1>2. {"ORDER_BY", "(", "SELECT", "NULL", ")"} \subseteq WordsOf(d.feats)
  BY CommonWords DEF Common
<1>3. <<"ORDER_BY", "(", "SELECT", "NULL", ")">> \in Seq(WordsOf(d.feats))
  BY <1>2
<1>4. ordered \in Buffers(d)
  <2>1. AppendTerms(buf, "ORDER_BY", s.orderBy) \in Buffers(d)
    BY <1>1, <1>2, TermsStay
  <2>2. Put(buf, <<"ORDER_BY", "(", "SELECT", "NULL", ")">>) \in Buffers(d)
    BY <1>3, PutStays
  <2> QED
    BY <2>1, <2>2
<1>5. AppendTail(buf, d, s) = AppendLock(AppendLimitOffset(ordered, d, s), s.lock)
  BY DEF AppendTail
<1> HIDE DEF ordered
<1> QED
  BY <1>1, <1>4, <1>5, LimitOffsetStays, LockStays

\* SELECT, SELECT DISTINCT, SELECT DISTINCT ON.
LEMMA HeadStays ==
  ASSUME NEW d, NEW withs, NEW froms, NEW unions, NEW s \in Shapes(d.feats, withs, froms, unions),
         NEW buf \in Buffers(d)
  PROVE  SelectHead(buf, s) \in Buffers(d)
<1>1. s.distinctOn \in Terms(d.feats) /\ (s.distinctOn # <<>> => "DistinctOn" \in d.feats)
  BY ShapeFields
<1>2. {"SELECT", "DISTINCT", "(", ")"} \subseteq WordsOf(d.feats)
  BY CommonWords DEF Common
<1>3. CASE s.distinctOn # <<>>
  <2>1. "DISTINCT_ON" \in WordsOf(d.feats)
    BY <1>1, <1>3, FeatureWords
  <2>2. <<"SELECT", "DISTINCT_ON">> \in Seq(WordsOf(d.feats))
    BY <1>2, <2>1
  <2>3. AppendTerms(Put(buf, <<"SELECT", "DISTINCT_ON">>), "(", s.distinctOn) \in Buffers(d)
    BY <1>1, <1>2, <2>2, PutStays, TermsStay
  <2> QED
    BY <1>2, <1>3, <2>3, PutWord DEF SelectHead
<1>4. CASE s.distinctOn = <<>>
  <2>1. <<"SELECT", "DISTINCT">> \in Seq(WordsOf(d.feats)) /\ <<"SELECT">> \in Seq(WordsOf(d.feats))
    BY <1>2
  <2> QED
    BY <1>4, <2>1, PutStays DEF SelectHead
<1> QED
  BY <1>3, <1>4

\* The columns, the projection or the typed fields.
LEMMA SelectListStays ==
  ASSUME NEW d, IsDialect(d), NEW withs, NEW froms, NEW unions,
         NEW s \in Shapes(d.feats, withs, froms, unions), NEW buf \in Buffers(d)
  PROVE  SelectList(buf, d, s) \in Buffers(d)
<1> DEFINE names == [i \in DOMAIN s.columns |-> <<s.columns[i].table, ".", s.columns[i].name>>]
<1>1. s.exprs \in Seq(Exprs(d.feats)) /\ s.projection \in Terms(d.feats) /\ s.columns \in Columns
  BY ShapeFields
<1>2. {Comma, "*", ".", "t", "q", "a", "b"} \subseteq WordsOf(d.feats)
  BY CommonWords DEF Common
<1>3. <<Comma>> \in Seq(WordsOf(d.feats)) /\ <<"*">> \in Seq(WordsOf(d.feats))
  BY <1>2
<1>4. AppendExprs(buf, d, <<Comma>>, s.exprs) \in Buffers(d)
  BY <1>1, <1>3, ExprsStay
<1>5. PutText(buf, Joined(Words(<<Comma>>), s.projection)) \in Buffers(d)
  BY <1>1, TermList, PutTextStays
<1>6. names \in Seq(Seq(WordsOf(d.feats)))
  <2>1. \A i \in DOMAIN s.columns : s.columns[i].table \in {"t", "q"} /\ s.columns[i].name \in {"a", "b"}
    <3> DEFINE R == [table : {"t", "q"}, name : {"a", "b"}]
    <3>1. s.columns \in Seq(R)
      BY <1>1 DEF Columns
    <3> HIDE DEF R
    <3>2. \A i \in DOMAIN s.columns : s.columns[i] \in R
      BY <3>1, LenProperties, ElementOfSeq
    <3> QED
      BY <3>2 DEF R
  <2>2. \A i \in DOMAIN s.columns :
          <<s.columns[i].table, ".", s.columns[i].name>> \in Seq(WordsOf(d.feats))
    <3> SUFFICES ASSUME NEW i \in DOMAIN s.columns
                 PROVE  <<s.columns[i].table, ".", s.columns[i].name>> \in Seq(WordsOf(d.feats))
      OBVIOUS
    <3>1. s.columns[i].table \in WordsOf(d.feats) /\ s.columns[i].name \in WordsOf(d.feats)
          /\ "." \in WordsOf(d.feats)
      BY <1>2, <2>1
    <3> QED
      BY <3>1
  <2>3. names \in [DOMAIN s.columns -> Seq(WordsOf(d.feats))]
    BY <2>2
  <2> DEFINE R == [table : {"t", "q"}, name : {"a", "b"}]
  <2>4. s.columns \in Seq(R)
    BY <1>1 DEF Columns
  <2> HIDE DEF R, names
  <2> QED
    BY <2>3, <2>4, MappedSeq
<1>7. Put(buf, Joined(<<Comma>>, names)) \in Buffers(d)
  <2> HIDE DEF names
  <2> QED
    BY <1>3, <1>6, JoinedStays, PutStays
<1> QED
  BY <1>3, <1>4, <1>5, <1>7, PutStays DEF SelectList

\* The joins, WHERE, GROUP BY, HAVING.
LEMMA ClausesStay ==
  ASSUME NEW d, IsDialect(d), NEW withs, NEW froms, NEW unions,
         NEW s \in Shapes(d.feats, withs, froms, unions), NEW buf \in Buffers(d)
  PROVE  AppendClauses(buf, d, s) \in Buffers(d)
<1>1. /\ s.joins \in Seq(Exprs(d.feats)) /\ s.where \in Seq(Exprs(d.feats))
      /\ s.having \in Seq(Exprs(d.feats)) /\ s.groupBy \in Terms(d.feats)
  BY ShapeFields
<1>2. {"WHERE", "GROUP_BY", "HAVING"} \subseteq WordsOf(d.feats)
  BY CommonWords DEF Common
<1>3. AppendExprs(buf, d, <<>>, s.joins) \in Buffers(d)
  BY <1>1, EmptySeq, ExprsStay
<1>4. AppendAndList(AppendExprs(buf, d, <<>>, s.joins), d, "WHERE", s.where) \in Buffers(d)
  BY <1>1, <1>2, <1>3, AndListStays
<1> QED
  BY <1>1, <1>2, <1>4, TermsStay, AndListStays DEF AppendClauses

\* FROM a table.
LEMMA TableStays ==
  ASSUME NEW d, NEW buf \in Buffers(d), NEW table \in Names
  PROVE  Put(buf, <<"FROM", table>>) \in Buffers(d)
<1>1. "FROM" \in WordsOf(d.feats) /\ table \in WordsOf(d.feats)
  BY CommonWords DEF Common, Names
<1>2. <<"FROM", table>> \in Seq(WordsOf(d.feats))
  BY <1>1
<1> QED
  BY <1>2, PutStays

\* The select inside a derived table.
LEMMA FlatStays ==
  ASSUME NEW d, IsDialect(d), NEW s \in Flats(d.feats), NEW buf \in Buffers(d)
  PROVE  AppendFlat(buf, d, s) \in Buffers(d)
<1>1. s \in Shapes(d.feats, {<<>>}, {<<>>}, {<<>>}) /\ s.table \in Names
  BY ShapeFields DEF Flats
<1>2. SelectList(SelectHead(buf, s), d, s) \in Buffers(d)
  BY <1>1, HeadStays, SelectListStays
<1>3. Put(SelectList(SelectHead(buf, s), d, s), <<"FROM", s.table>>) \in Buffers(d)
  BY <1>1, <1>2, TableStays
<1> QED
  BY <1>1, <1>3, ClausesStay, TailStays DEF AppendFlat

\* FROM a table or a derived table.
LEMMA FromStays ==
  ASSUME NEW d, IsDialect(d), NEW s \in Selects(d.feats), NEW buf \in Buffers(d)
  PROVE  FromSource(buf, d, s) \in Buffers(d)
<1>1. s.table \in Names /\ s.alias \in Names /\ s.from \in Froms(d.feats)
  BY ShapeFields DEF Selects
<1>2. CASE s.from = <<>>
  BY <1>1, <1>2, TableStays DEF FromSource
<1>3. CASE s.from # <<>>
  <2>1. PICK inside \in Flats(d.feats) : s.from = <<inside>>
    BY <1>1, <1>3 DEF Froms
  <2>2. {"FROM", "(", ")", "AS", s.alias} \subseteq WordsOf(d.feats)
    BY <1>1, CommonWords DEF Common, Names
  <2>3. <<"FROM", "(">> \in Seq(WordsOf(d.feats)) /\ <<")", "AS", s.alias>> \in Seq(WordsOf(d.feats))
    BY <2>2
  <2>4. AppendFlat(Put(buf, <<"FROM", "(">>), d, inside) \in Buffers(d)
    BY <2>3, PutStays, FlatStays
  <2>5. FromSource(buf, d, s) =
          Put(AppendFlat(Put(buf, <<"FROM", "(">>), d, inside), <<")", "AS", s.alias>>)
    BY <1>3, <2>1 DEF FromSource
  <2> QED
    BY <2>3, <2>4, <2>5, PutStays
<1> QED
  BY <1>2, <1>3

\* A core.
LEMMA CoreStays ==
  ASSUME NEW d, IsDialect(d), NEW s \in Selects(d.feats), NEW buf \in Buffers(d)
  PROVE  AppendCore(buf, d, s) \in Buffers(d)
<1>1. s \in Shapes(d.feats, Withs(d.feats), Froms(d.feats), Unions(d.feats))
  BY DEF Selects
<1>2. SelectList(SelectHead(buf, s), d, s) \in Buffers(d)
  BY <1>1, HeadStays, SelectListStays
<1>3. FromSource(SelectList(SelectHead(buf, s), d, s), d, s) \in Buffers(d)
  BY <1>2, FromStays
<1> QED
  BY <1>1, <1>3, ClausesStay DEF AppendCore

\* The arms of a set operation.
LEMMA ArmsStay ==
  ASSUME NEW d, IsDialect(d), NEW buf \in Buffers(d), NEW arms \in Unions(d.feats)
  PROVE  AppendArms(buf, d, arms) \in Buffers(d)
<1> DEFINE S == Buffers(d)
           n == Len(arms)
           Body(p, i) == AppendCore(Put(p, <<arms[i].op>> \o (IF arms[i].all THEN <<"ALL">> ELSE <<>>)), d, arms[i].select)
           step == [x \in S \X (1..n) |-> Body(x[1], x[2])]
           f == CHOOSE h : h = [i \in 0..n |-> IF i = 0 THEN buf ELSE Body(h[i - 1], i)]
<1>1. n \in Nat /\ buf \in S
  BY LenProperties DEF Unions
<1>2. ASSUME NEW p \in S, NEW i \in 1..n PROVE Body(p, i) \in S
  <2>1. arms[i].op \in SetOps(d.feats) /\ arms[i].select \in Flats(d.feats)
    <3> DEFINE R == [op : SetOps(d.feats), all : BOOLEAN, select : Flats(d.feats)]
    <3>1. arms \in Seq(R)
      BY DEF Unions
    <3> HIDE DEF R
    <3>2. arms[i] \in R
      BY <3>1, ElementOfSeq
    <3> QED
      BY <3>2 DEF R
  <2>2. arms[i].op \in WordsOf(d.feats) /\ "ALL" \in WordsOf(d.feats)
    BY <2>1, CommonWords, FeatureWords DEF Common, SetOps
  <2>3. <<arms[i].op>> \in Seq(WordsOf(d.feats)) /\ <<"ALL">> \in Seq(WordsOf(d.feats))
    BY <2>2
  <2>4. <<arms[i].op>> \o (IF arms[i].all THEN <<"ALL">> ELSE <<>>) \in Seq(WordsOf(d.feats))
    BY <2>3, EmptySeq, ConcatProperties
  <2> QED
    BY <2>1, <2>4, FlatSelects, PutStays, CoreStays
<1>3. AppendArms(buf, d, arms) = f[n]
  BY DEF AppendArms
<1> HIDE DEF Body, S, n
<1>4. \A p \in S, i \in 1..n : step[<<p, i>>] = Body(p, i)
  OBVIOUS
<1>5. Passes(step, S, n)
  BY <1>2, <1>4 DEF Passes
<1> HIDE DEF step
<1>6. PICK g \in [0..n -> S] : Runs(g, step, buf, n)
  BY <1>1, <1>5, LoopExists
<1>7. /\ \A i \in 1..n : i - 1 \in 0..n
      /\ \A i \in 0..n : i = 0 \/ i \in 1..n
  BY <1>1
<1>8. g = [i \in 0..n |-> IF i = 0 THEN buf ELSE Body(g[i - 1], i)]
  BY <1>4, <1>6, <1>7 DEF Runs
<1>9. f = [i \in 0..n |-> IF i = 0 THEN buf ELSE Body(f[i - 1], i)]
  BY <1>8
<1> HIDE DEF f
<1>10. f[0] = buf /\ \A i \in 1..n : f[i] = Body(f[i - 1], i)
  BY <1>1, <1>9
<1>11. f[0] \in S /\ \A i \in 1..n : f[i - 1] \in S => f[i] \in S
  BY <1>1, <1>2, <1>10
<1>12. \A i \in 0..n : f[i] \in S
  BY <1>1, <1>11, LoopStays
<1> QED
  BY <1>1, <1>3, <1>12 DEF S

\* A select without its CTEs.
LEMMA SelectStays ==
  ASSUME NEW d, IsDialect(d), NEW s \in Selects(d.feats), NEW buf \in Buffers(d)
  PROVE  AppendSelect(buf, d, s) \in Buffers(d)
<1>1. s \in Shapes(d.feats, Withs(d.feats), Froms(d.feats), Unions(d.feats)) /\ s.union \in Unions(d.feats)
  BY ShapeFields DEF Selects
<1>2. AppendArms(AppendCore(buf, d, s), d, s.union) \in Buffers(d)
  BY <1>1, CoreStays, ArmsStay
<1> QED
  BY <1>1, <1>2, TailStays DEF AppendSelect

\* The bodies of the CTEs.
LEMMA BodiesStay ==
  ASSUME NEW d, IsDialect(d), NEW buf \in Buffers(d), NEW ctes \in Withs(d.feats)
  PROVE  AppendBodies(buf, d, ctes) \in Buffers(d)
<1> DEFINE S == Buffers(d)
           n == Len(ctes)
           Body(p, i) == Put(AppendSelect(Put(p, (IF i = 1 THEN <<>> ELSE <<Comma>>) \o <<ctes[i].name, "AS", "(">>), d,
                                       ctes[i].select), <<")">>)
           step == [x \in S \X (1..n) |-> Body(x[1], x[2])]
           f == CHOOSE h : h = [i \in 0..n |-> IF i = 0 THEN buf ELSE Body(h[i - 1], i)]
<1>1. n \in Nat /\ buf \in S
  BY LenProperties DEF Withs
<1>2. ASSUME NEW p \in S, NEW i \in 1..n PROVE Body(p, i) \in S
  <2>1. ctes[i].name = "q" /\ ctes[i].select \in Flats(d.feats)
    <3> DEFINE R == [name : {"q"}, recursive : BOOLEAN, select : Flats(d.feats)]
    <3>1. ctes \in Seq(R)
      BY DEF Withs
    <3> HIDE DEF R
    <3>2. ctes[i] \in R
      BY <3>1, ElementOfSeq
    <3> QED
      BY <3>2 DEF R
  <2>2. {Comma, "q", "AS", "(", ")"} \subseteq WordsOf(d.feats)
    BY CommonWords DEF Common
  <2>3. <<Comma>> \in Seq(WordsOf(d.feats)) /\ <<ctes[i].name, "AS", "(">> \in Seq(WordsOf(d.feats))
    BY <2>1, <2>2
  <2>4. (IF i = 1 THEN <<>> ELSE <<Comma>>) \o <<ctes[i].name, "AS", "(">> \in Seq(WordsOf(d.feats))
    BY <2>3, EmptySeq, ConcatProperties
  <2> QED
    BY <2>1, <2>2, <2>4, FlatSelects, PutStays, PutWord, SelectStays
<1>3. AppendBodies(buf, d, ctes) = f[n]
  BY DEF AppendBodies
<1> HIDE DEF Body, S, n
<1>4. \A p \in S, i \in 1..n : step[<<p, i>>] = Body(p, i)
  OBVIOUS
<1>5. Passes(step, S, n)
  BY <1>2, <1>4 DEF Passes
<1> HIDE DEF step
<1>6. PICK g \in [0..n -> S] : Runs(g, step, buf, n)
  BY <1>1, <1>5, LoopExists
<1>7. /\ \A i \in 1..n : i - 1 \in 0..n
      /\ \A i \in 0..n : i = 0 \/ i \in 1..n
  BY <1>1
<1>8. g = [i \in 0..n |-> IF i = 0 THEN buf ELSE Body(g[i - 1], i)]
  BY <1>4, <1>6, <1>7 DEF Runs
<1>9. f = [i \in 0..n |-> IF i = 0 THEN buf ELSE Body(f[i - 1], i)]
  BY <1>8
<1> HIDE DEF f
<1>10. f[0] = buf /\ \A i \in 1..n : f[i] = Body(f[i - 1], i)
  BY <1>1, <1>9
<1>11. f[0] \in S /\ \A i \in 1..n : f[i - 1] \in S => f[i] \in S
  BY <1>1, <1>2, <1>10
<1>12. \A i \in 0..n : f[i] \in S
  BY <1>1, <1>11, LoopStays
<1> QED
  BY <1>1, <1>3, <1>12 DEF S

\* WITH.
LEMMA WithStays ==
  ASSUME NEW d, IsDialect(d), NEW s \in Selects(d.feats), NEW buf \in Buffers(d)
  PROVE  AppendWith(buf, d, s) \in Buffers(d)
<1> DEFINE recursive == \E i \in DOMAIN s.with : s.with[i].recursive
           words == <<"WITH">> \o (IF recursive THEN <<"RECURSIVE">> ELSE <<>>)
<1>1. s.with \in Withs(d.feats)
  BY ShapeFields DEF Selects
<1>2. CASE s.with # <<>>
  <2>1. "WITH" \in WordsOf(d.feats) /\ "RECURSIVE" \in WordsOf(d.feats)
    BY <1>1, <1>2, CommonWords, FeatureWords DEF Common, Withs
  <2>2. <<"WITH">> \in Seq(WordsOf(d.feats)) /\ <<"RECURSIVE">> \in Seq(WordsOf(d.feats))
    BY <2>1
  <2>3. words \in Seq(WordsOf(d.feats))
    BY <2>2, EmptySeq, ConcatProperties
  <2>4. AppendWith(buf, d, s) = AppendBodies(Put(buf, words), d, s.with)
    BY <1>2 DEF AppendWith
  <2> HIDE DEF words
  <2> QED
    BY <1>1, <2>3, <2>4, PutStays, BodiesStay
<1>3. CASE s.with = <<>>
  BY <1>3 DEF AppendWith
<1> QED
  BY <1>2, <1>3

\* What a build returns, sent or as a fragment of another statement.
Statement(st, d) == /\ st.sql \in Seq(Tokens(d.feats)) /\ st.args \in Seq(Nat)
                    /\ InPlace(d.qmark, 1, st.sql, st.args)

\* The output that is returned.
LEMMA BuiltStatement ==
  ASSUME NEW d, NEW buf \in Buffers(d)
  PROVE  Statement(Built(buf), d)
BY BufferType DEF Built, Statement

\* No statement.
LEMMA FailedStatement ==
  ASSUME NEW d
  PROVE  Statement(Failed, d)
<1>1. <<>> \in Seq(Plain(d.feats)) /\ <<>> \in Seq(Tokens(d.feats)) /\ <<>> \in Seq(Nat)
  BY EmptySeq
<1>2. InPlace(d.qmark, 1, <<>>, <<>>)
  BY <1>1, NoPlace
<1> QED
  BY <1>1, <1>2 DEF Failed, Statement

\* A select.
LEMMA SelectBuilt ==
  ASSUME NEW d, IsDialect(d), NEW s \in Selects(d.feats)
  PROVE  Statement(BuildSelect(s, d), d)
<1>1. AppendSelect(AppendWith(Empty, d, s), d, s) \in Buffers(d)
  BY EmptyBuffer, WithStays, SelectStays
<1> QED
  BY <1>1, BuiltStatement DEF BuildSelect

(***************************************************************************)
(* INSERT, UPDATE and DELETE.                                              *)
(***************************************************************************)
Cells     == {"a", "b", "id"}
\* Every engine has one of the three upserts, and OUTPUT beside MERGE.
Engine(F) == /\ {"InsertOnConflict", "OnDuplicateKey", "Merge"} \cap F # {}
             /\ "Merge" \in F => "Output" \in F

\* Column names between commas, each with words before and after it.
LEMMA CellList ==
  ASSUME NEW F, NEW cols \in Seq(Cells), NEW before \in Seq(WordsOf(F)),
         NEW mid \in Seq(WordsOf(F)), NEW after \in Seq(WordsOf(F))
  PROVE  /\ ColumnList(cols) \in Seq(WordsOf(F))
         /\ Assign(cols, before, mid, after) \in Seq(WordsOf(F))
         /\ \A sep \in Seq(WordsOf(F)), prefix \in WordsOf(F) :
              Joined(sep, [i \in DOMAIN cols |-> <<prefix, cols[i]>>]) \in Seq(WordsOf(F))
<1>1. \A i \in DOMAIN cols : cols[i] \in WordsOf(F)
  <2>1. Cells \subseteq WordsOf(F)
    BY CommonWords DEF Common, Cells
  <2> QED
    BY <2>1, LenProperties, ElementOfSeq
<1>2. <<Comma>> \in Seq(WordsOf(F))
  <2>1. Comma \in WordsOf(F)
    BY CommonWords DEF Common
  <2> QED
    BY <2>1
<1>3. \A i \in DOMAIN cols : <<cols[i]>> \in Seq(WordsOf(F))
  BY <1>1
<1>4. ColumnList(cols) \in Seq(WordsOf(F))
  <2> DEFINE f == [i \in DOMAIN cols |-> <<cols[i]>>]
  <2>1. f \in [DOMAIN cols -> Seq(WordsOf(F))]
    BY <1>3
  <2> HIDE DEF f
  <2>2. f \in Seq(Seq(WordsOf(F)))
    BY <2>1, MappedSeq
  <2>3. Joined(<<Comma>>, f) \in Seq(WordsOf(F))
    BY <1>2, <2>2, JoinedStays
  <2> QED
    BY <2>3 DEF ColumnList, f
<1>5. Assign(cols, before, mid, after) \in Seq(WordsOf(F))
  <2> DEFINE f == [i \in DOMAIN cols |-> before \o <<cols[i]>> \o mid \o <<cols[i]>> \o after]
  <2>1. ASSUME NEW i \in DOMAIN cols
        PROVE  before \o <<cols[i]>> \o mid \o <<cols[i]>> \o after \in Seq(WordsOf(F))
    <3>1. <<cols[i]>> \in Seq(WordsOf(F))
      BY <1>3
    <3> QED
      BY <3>1, ConcatProperties
  <2>2. f \in [DOMAIN cols -> Seq(WordsOf(F))]
    BY <2>1
  <2> HIDE DEF f
  <2>3. f \in Seq(Seq(WordsOf(F)))
    BY <2>2, MappedSeq
  <2>4. Joined(<<Comma>>, f) \in Seq(WordsOf(F))
    BY <1>2, <2>3, JoinedStays
  <2> QED
    BY <2>4 DEF Assign, f
<1>6. ASSUME NEW sep \in Seq(WordsOf(F)), NEW prefix \in WordsOf(F)
      PROVE  Joined(sep, [i \in DOMAIN cols |-> <<prefix, cols[i]>>]) \in Seq(WordsOf(F))
  <2> DEFINE f == [i \in DOMAIN cols |-> <<prefix, cols[i]>>]
  <2>1. f \in [DOMAIN cols -> Seq(WordsOf(F))]
    BY <1>1
  <2> HIDE DEF f
  <2>2. f \in Seq(Seq(WordsOf(F)))
    BY <2>1, MappedSeq
  <2>3. Joined(sep, f) \in Seq(WordsOf(F))
    BY <2>2, JoinedStays
  <2> QED
    BY <2>3 DEF f
<1> QED
  BY <1>4, <1>5, <1>6

\* OUTPUT.
LEMMA OutputStays ==
  ASSUME NEW d, NEW buf \in Buffers(d), NEW cols \in Seq(Cells), NEW prefix \in {"INSERTED.", "DELETED."},
         "Output" \in d.feats
  PROVE  AppendOutput(buf, cols, prefix) \in Buffers(d)
<1>1. prefix \in WordsOf(d.feats) /\ Comma \in WordsOf(d.feats) /\ "OUTPUT" \in WordsOf(d.feats)
  BY CommonWords, FeatureWords DEF Common
<1>2. <<Comma>> \in Seq(WordsOf(d.feats)) /\ <<"OUTPUT">> \in Seq(WordsOf(d.feats))
  BY <1>1
<1>3. Joined(<<Comma>>, [i \in DOMAIN cols |-> <<prefix, cols[i]>>]) \in Seq(WordsOf(d.feats))
  BY <1>1, <1>2, CellList, EmptySeq
<1> QED
  BY <1>2, <1>3, ConcatProperties, PutStays DEF AppendOutput

\* RETURNING.
LEMMA ReturningStays ==
  ASSUME NEW d, NEW buf \in Buffers(d), NEW cols \in Seq(Cells), "Returning" \in d.feats
  PROVE  AppendReturning(buf, cols) \in Buffers(d)
<1>1. "RETURNING" \in WordsOf(d.feats)
  BY FeatureWords
<1>2. <<"RETURNING">> \in Seq(WordsOf(d.feats)) /\ <<>> \in Seq(WordsOf(d.feats))
  BY <1>1, EmptySeq
<1>3. ColumnList(cols) \in Seq(WordsOf(d.feats))
  BY <1>2, CellList
<1> QED
  BY <1>2, <1>3, ConcatProperties, PutStays DEF AppendReturning

\* Arguments one after the other.
LEMMA ConcatNumbers == \A x, y, z \in Seq(Nat) : (x \o y) \o z = x \o (y \o z)
BY ConcatAssociative

\* An output under construction ...
IsOutput(p) == p = [sql |-> p.sql, args |-> p.args, n |-> p.n]

\* ... to which a cell is appended.
LEMMA CellFields ==
  ASSUME NEW d, NEW ws, NEW v, NEW p, IsOutput(p)
  PROVE  AppendPlaceholder(Put(p, ws), d, v) =
           [sql |-> Append(p.sql \o Words(ws), Placeholder(d, p.n, v)), args |-> p.args, n |-> p.n + 1]
<1>1. Put(p, ws) = [sql |-> p.sql \o Words(ws), args |-> p.args, n |-> p.n]
  BY Changed DEF Put, IsOutput
<1> DEFINE q == Put(p, ws)
<1>2. q.sql = p.sql \o Words(ws) /\ q.args = p.args /\ q.n = p.n
      /\ q = [sql |-> q.sql, args |-> q.args, n |-> q.n]
  BY <1>1
<1>3. AppendPlaceholder(q, d, v) =
        [q EXCEPT !.sql = Append(q.sql, Placeholder(d, q.n, v)), !.n = q.n + 1]
  BY DEF AppendPlaceholder
<1> HIDE DEF q
<1>4. AppendPlaceholder(q, d, v) =
        [sql |-> Append(q.sql, Placeholder(d, q.n, v)), args |-> q.args, n |-> q.n + 1]
  BY <1>2, <1>3, Changed
<1> QED
  BY <1>2, <1>4 DEF q

\* The cells of a row: their placeholders come first and their arguments after,
\* so what is an output is each prefix of them with the arguments so far.
LEMMA CellsStay ==
  ASSUME NEW d, IsDialect(d), NEW buf \in Buffers(d), NEW row \in Seq(Nat)
  PROVE  /\ AppendCells(buf, d, row).args = buf.args
         /\ [AppendCells(buf, d, row) EXCEPT !.args = buf.args \o row] \in Buffers(d)
         /\ AppendCells(buf, d, row) \in [sql : Seq(Tokens(d.feats)), args : {buf.args}, n : Nat]
<1> DEFINE S == [sql : Seq(Tokens(d.feats)), args : {buf.args}, n : Nat]
           n == Len(row)
           Sep(i) == IF i = 1 THEN <<>> ELSE <<Comma>>
           Body(p, i) == AppendPlaceholder(Put(p, IF i = 1 THEN <<>> ELSE <<Comma>>), d, row[i])
           step == [x \in S \X (1..n) |-> Body(x[1], x[2])]
           f == CHOOSE h : h = [i \in 0..n |-> IF i = 0 THEN buf ELSE Body(h[i - 1], i)]
<1>0. Comma \in WordsOf(d.feats)
  BY CommonWords DEF Common
<1>1. n \in Nat /\ buf \in S /\ \A i \in 1..n : row[i] \in Nat
  BY BufferType, LenProperties, ElementOfSeq
<1>a. \A i \in 1..n : Sep(i) \in Seq(WordsOf(d.feats)) /\ Words(Sep(i)) \in Seq(Tokens(d.feats))
  <2>1. <<Comma>> \in Seq(WordsOf(d.feats))
    BY <1>0
  <2>2. \A i \in 1..n : Sep(i) \in Seq(WordsOf(d.feats))
    BY <2>1, EmptySeq
  <2> HIDE DEF Sep
  <2> QED
    BY <2>2, WordsPlain, PlainTokens
<1>b. \A p, i : Body(p, i) = AppendPlaceholder(Put(p, Sep(i)), d, row[i])
  OBVIOUS
<1>3. AppendCells(buf, d, row) = f[n]
  BY DEF AppendCells
<1> HIDE DEF Body, n, Sep
<1>c. ASSUME NEW p \in S, NEW i \in 1..n
      PROVE  Body(p, i) = [sql |-> Append(p.sql \o Words(Sep(i)), Placeholder(d, p.n, row[i])),
                           args |-> buf.args, n |-> p.n + 1]
  <2>1. IsOutput(p) /\ p.args = buf.args
    BY DEF IsOutput
  <2> QED
    BY <1>b, <2>1, CellFields
<1>2. ASSUME NEW p \in S, NEW i \in 1..n PROVE Body(p, i) \in S
  <2>1. p.n \in Nat /\ row[i] \in Nat /\ p.sql \in Seq(Tokens(d.feats))
    BY <1>1
  <2>2. Placeholder(d, p.n, row[i]) \in Tokens(d.feats)
    BY <2>1 DEF Placeholder, Mark, Bind, Tokens
  <2>3. p.sql \o Words(Sep(i)) \in Seq(Tokens(d.feats))
    BY <1>a, <2>1, ConcatProperties
  <2>4. Append(p.sql \o Words(Sep(i)), Placeholder(d, p.n, row[i])) \in Seq(Tokens(d.feats))
    BY <2>2, <2>3, AppendProperties
  <2>5. p.n + 1 \in Nat
    BY <2>1
  <2>6. \A x \in Seq(Tokens(d.feats)), m \in Nat : [sql |-> x, args |-> buf.args, n |-> m] \in S
    OBVIOUS
  <2> QED
    BY <1>c, <2>4, <2>5, <2>6
<1> HIDE DEF S
<1>4. \A p \in S, i \in 1..n : step[<<p, i>>] = Body(p, i)
  OBVIOUS
<1>5. Passes(step, S, n)
  BY <1>2, <1>4 DEF Passes
<1> HIDE DEF step
<1>6. PICK g \in [0..n -> S] : Runs(g, step, buf, n)
  BY <1>1, <1>5, LoopExists
<1>7. /\ \A i \in 1..n : i - 1 \in 0..n
      /\ \A i \in 0..n : i = 0 \/ i \in 1..n
  BY <1>1
<1>8. g = [i \in 0..n |-> IF i = 0 THEN buf ELSE Body(g[i - 1], i)]
  BY <1>4, <1>6, <1>7 DEF Runs
<1>9. f = [i \in 0..n |-> IF i = 0 THEN buf ELSE Body(f[i - 1], i)]
  BY <1>8
<1> HIDE DEF f
<1>10. f[0] = buf /\ \A i \in 1..n : f[i] = Body(f[i - 1], i)
  BY <1>1, <1>9
<1>11. f[0] \in S /\ \A i \in 1..n : f[i - 1] \in S => f[i] \in S
  BY <1>1, <1>2, <1>10
<1>12. \A i \in 0..n : f[i] \in S
  BY <1>1, <1>11, LoopStays
<1> DEFINE B == Buffers(d)
           Bound(i) == [sql |-> f[i].sql, args |-> buf.args \o SubSeq(row, 1, i), n |-> f[i].n]
           h == [i \in 0..n |-> Bound(i)]
<1>13. h[0] \in B
  <2>1. SubSeq(row, 1, 0) = <<>> /\ buf.args \o <<>> = buf.args
    BY BufferType, SubSeqEmpty, ConcatEmptySeq
  <2>2. h[0] = Bound(0)
    BY <1>1
  <2>3. Bound(0) = [sql |-> buf.sql, args |-> buf.args, n |-> buf.n]
    BY <1>10, <2>1
  <2> QED
    BY <2>2, <2>3, BufferType
<1>14. ASSUME NEW i \in 1..n, h[i - 1] \in B PROVE h[i] \in B
  <2> DEFINE q == Bound(i - 1)
             all == [AppendPlaceholder(Put(q, Sep(i)), d, row[i]) EXCEPT !.args = Append(@, row[i])]
  <2>1. h[i - 1] = q /\ h[i] = Bound(i) /\ f[i - 1] \in S
    BY <1>1, <1>7, <1>12
  <2>2. all \in B
    BY <1>1, <1>14, <1>a, <2>1, PutStays, PlaceholderStays
  <2>3. AppendPlaceholder(Put(q, Sep(i)), d, row[i]) =
          [sql |-> Append(f[i - 1].sql \o Words(Sep(i)), Placeholder(d, f[i - 1].n, row[i])),
           args |-> buf.args \o SubSeq(row, 1, i - 1), n |-> f[i - 1].n + 1]
    <3>1. q.sql = f[i - 1].sql /\ q.args = buf.args \o SubSeq(row, 1, i - 1) /\ q.n = f[i - 1].n
      OBVIOUS
    <3>2. IsOutput(q)
      BY DEF IsOutput
    <3> HIDE DEF q
    <3>3. AppendPlaceholder(Put(q, Sep(i)), d, row[i]) =
            [sql |-> Append(q.sql \o Words(Sep(i)), Placeholder(d, q.n, row[i])),
             args |-> q.args, n |-> q.n + 1]
      BY <3>2, CellFields
    <3> QED
      BY <3>1, <3>3
  <2>4. f[i] = [sql |-> Append(f[i - 1].sql \o Words(Sep(i)), Placeholder(d, f[i - 1].n, row[i])),
                args |-> buf.args, n |-> f[i - 1].n + 1]
    BY <1>10, <1>c, <2>1 DEF S
  <2>5. SubSeq(row, 1, i) = SubSeq(row, 1, i - 1) \o <<row[i]>>
    BY <1>1, SubSeqRecursiveSecond DEF n
  <2>6. SubSeq(row, 1, i - 1) \in Seq(Nat) /\ <<row[i]>> \in Seq(Nat) /\ row[i] \in Nat
        /\ buf.args \in Seq(Nat)
    <3>1. \A j \in 1..(i - 1) : row[j] \in Nat
      BY <1>1
    <3>2. i - 1 \in Int /\ row[i] \in Nat
      BY <1>1
    <3>3. SubSeq(row, 1, i - 1) \in Seq(Nat)
      BY <3>1, <3>2, SubSeqProperties
    <3> QED
      BY <3>2, <3>3, BufferType
  <2>7. buf.args \o SubSeq(row, 1, i) = Append(buf.args \o SubSeq(row, 1, i - 1), row[i])
    <3>1. buf.args \o SubSeq(row, 1, i - 1) \in Seq(Nat)
      BY <2>6, ConcatProperties
    <3>2. Append(buf.args \o SubSeq(row, 1, i - 1), row[i]) =
            (buf.args \o SubSeq(row, 1, i - 1)) \o <<row[i]>>
      BY <2>6, <3>1, AppendIsConcat
    <3>3. (buf.args \o SubSeq(row, 1, i - 1)) \o <<row[i]>> =
            buf.args \o (SubSeq(row, 1, i - 1) \o <<row[i]>>)
      <4>1. \A x, y, z \in Seq(Nat) : (x \o y) \o z = x \o (y \o z)
        BY ConcatNumbers
      <4> QED
        BY <2>6, <4>1
    <3> QED
      BY <2>5, <3>2, <3>3
  <2>8. all = Bound(i)
    <3> DEFINE one == AppendPlaceholder(Put(q, Sep(i)), d, row[i])
    <3>1. IsOutput(one) /\ one.args = buf.args \o SubSeq(row, 1, i - 1)
          /\ one.sql = f[i].sql /\ one.n = f[i].n
      <4> HIDE DEF q
      <4> DEFINE x == Append(f[i - 1].sql \o Words(Sep(i)), Placeholder(d, f[i - 1].n, row[i]))
                 y == buf.args \o SubSeq(row, 1, i - 1)
      <4>1. one = [sql |-> x, args |-> y, n |-> f[i - 1].n + 1]
        BY <2>3
      <4>2. f[i] = [sql |-> x, args |-> buf.args, n |-> f[i - 1].n + 1]
        BY <2>4
      <4> HIDE DEF one, x, y
      <4>3. IsOutput(one) /\ one.args = y /\ one.sql = f[i].sql /\ one.n = f[i].n
        BY <4>1, <4>2 DEF IsOutput
      <4> QED
        BY <4>3 DEF y
    <3>2. all = [one EXCEPT !.args = Append(one.args, row[i])]
      OBVIOUS
    <3> HIDE DEF one, all
    <3>3. all = [sql |-> one.sql, args |-> Append(one.args, row[i]), n |-> one.n]
      BY <3>1, <3>2, Changed DEF IsOutput
    <3> QED
      BY <2>7, <3>1, <3>3
  <2> QED
    BY <2>1, <2>2, <2>8
<1>15. \A i \in 0..n : h[i] \in B
  <2> HIDE DEF h, B
  <2> QED
    BY <1>1, <1>13, <1>14, LoopStays
<1>16. f[n] \in S /\ h[n] = Bound(n) /\ h[n] \in B /\ SubSeq(row, 1, n) = row
  <2>1. n \in 0..n
    BY <1>1
  <2>2. SubSeq(row, 1, n) = row
    BY SubSeqFull DEF n
  <2> QED
    BY <1>12, <1>15, <2>1, <2>2
<1>17. [f[n] EXCEPT !.args = buf.args \o row] = Bound(n)
  <2>1. f[n] = [sql |-> f[n].sql, args |-> f[n].args, n |-> f[n].n]
    BY <1>16 DEF S
  <2> QED
    BY <1>16, <2>1, Changed
<1> QED
  BY <1>3, <1>16, <1>17 DEF S

\* A row.
LEMMA RowStays ==
  ASSUME NEW d, IsDialect(d), NEW buf \in Buffers(d), NEW row \in Seq(Nat)
  PROVE  AppendRow(buf, d, row) \in Buffers(d)
<1> DEFINE start == Put(buf, <<"(">>)
           cells == AppendCells(start, d, row)
<1>1. "(" \in WordsOf(d.feats) /\ ")" \in WordsOf(d.feats)
  BY CommonWords DEF Common
<1>2. start \in Buffers(d)
  BY <1>1, PutWord
<1>3. /\ cells.args = start.args
      /\ [cells EXCEPT !.args = start.args \o row] \in Buffers(d)
      /\ cells \in [sql : Seq(Tokens(d.feats)), args : {start.args}, n : Nat]
  BY <1>2, CellsStay
<1> DEFINE full == [cells EXCEPT !.args = start.args \o row]
<1>4. Put(full, <<")">>) \in Buffers(d)
  BY <1>1, <1>3, PutWord
<1>5. AppendRow(buf, d, row) = Put(full, <<")">>)
  <2>1. cells = [sql |-> cells.sql, args |-> cells.args, n |-> cells.n]
    BY <1>3
  <2> HIDE DEF cells, start
  <2>2. full = [sql |-> cells.sql, args |-> start.args \o row, n |-> cells.n]
    BY <2>1, Changed
  <2>3. Put(full, <<")">>) =
          [sql |-> cells.sql \o Words(<<")">>), args |-> start.args \o row, n |-> cells.n]
    <3>1. full.sql = cells.sql /\ full.args = start.args \o row /\ full.n = cells.n
          /\ full = [sql |-> full.sql, args |-> full.args, n |-> full.n]
      BY <2>2
    <3> HIDE DEF full
    <3>2. Put(full, <<")">>) = [sql |-> full.sql \o Words(<<")">>), args |-> full.args, n |-> full.n]
      BY <3>1, Changed DEF Put
    <3> QED
      BY <3>1, <3>2
  <2> DEFINE closed == Put(cells, <<")">>)
  <2>4. closed = [sql |-> cells.sql \o Words(<<")">>), args |-> cells.args, n |-> cells.n]
    BY <2>1, Changed DEF Put
  <2>5. [closed EXCEPT !.args = closed.args \o row] =
          [sql |-> cells.sql \o Words(<<")">>), args |-> start.args \o row, n |-> cells.n]
    <3>1. closed.sql = cells.sql \o Words(<<")">>) /\ closed.args = cells.args /\ closed.n = cells.n
          /\ closed = [sql |-> closed.sql, args |-> closed.args, n |-> closed.n]
      BY <2>4
    <3> HIDE DEF closed
    <3>2. [closed EXCEPT !.args = closed.args \o row] =
            [sql |-> closed.sql, args |-> closed.args \o row, n |-> closed.n]
      BY <3>1, Changed
    <3> QED
      BY <1>3, <3>1, <3>2
  <2>6. AppendRow(buf, d, row) = [closed EXCEPT !.args = closed.args \o row]
    BY DEF AppendRow, closed, cells, start
  <2> QED
    BY <2>3, <2>5, <2>6
<1> QED
  BY <1>4, <1>5

\* The rows of an insert.
LEMMA RowsStay ==
  ASSUME NEW d, IsDialect(d), NEW buf \in Buffers(d), NEW rows \in Seq(Seq(Nat))
  PROVE  AppendRows(buf, d, rows) \in Buffers(d)
<1> DEFINE S == Buffers(d)
           n == Len(rows)
           Body(p, i) == AppendRow(Put(p, IF i = 1 THEN <<>> ELSE <<Comma>>), d, rows[i])
           step == [x \in S \X (1..n) |-> Body(x[1], x[2])]
           f == CHOOSE h : h = [i \in 0..n |-> IF i = 0 THEN buf ELSE Body(h[i - 1], i)]
<1>1. n \in Nat /\ buf \in S
  BY LenProperties
<1>2. ASSUME NEW p \in S, NEW i \in 1..n PROVE Body(p, i) \in S
  <2>0. Comma \in WordsOf(d.feats)
    BY CommonWords DEF Common
  <2>1. <<Comma>> \in Seq(WordsOf(d.feats))
    BY <2>0
  <2>2. (IF i = 1 THEN <<>> ELSE <<Comma>>) \in Seq(WordsOf(d.feats))
    BY <2>1, EmptySeq
  <2>3. rows[i] \in Seq(Nat)
    BY ElementOfSeq
  <2> QED
    BY <2>2, <2>3, PutStays, RowStays
<1>3. AppendRows(buf, d, rows) = f[n]
  BY DEF AppendRows
<1> HIDE DEF Body, S, n
<1>4. \A p \in S, i \in 1..n : step[<<p, i>>] = Body(p, i)
  OBVIOUS
<1>5. Passes(step, S, n)
  BY <1>2, <1>4 DEF Passes
<1> HIDE DEF step
<1>6. PICK g \in [0..n -> S] : Runs(g, step, buf, n)
  BY <1>1, <1>5, LoopExists
<1>7. /\ \A i \in 1..n : i - 1 \in 0..n
      /\ \A i \in 0..n : i = 0 \/ i \in 1..n
  BY <1>1
<1>8. g = [i \in 0..n |-> IF i = 0 THEN buf ELSE Body(g[i - 1], i)]
  BY <1>4, <1>6, <1>7 DEF Runs
<1>9. f = [i \in 0..n |-> IF i = 0 THEN buf ELSE Body(f[i - 1], i)]
  BY <1>8
<1> HIDE DEF f
<1>10. f[0] = buf /\ \A i \in 1..n : f[i] = Body(f[i - 1], i)
  BY <1>1, <1>9
<1>11. f[0] \in S /\ \A i \in 1..n : f[i - 1] \in S => f[i] \in S
  BY <1>1, <1>2, <1>10
<1>12. \A i \in 0..n : f[i] \in S
  BY <1>1, <1>11, LoopStays
<1> QED
  BY <1>1, <1>3, <1>12 DEF S

\* What is overwritten when the row is there already.
Targets == [columns : Seq({"a", "b"}), update : Seq({"a", "b"}), nothing : BOOLEAN]
\* The columns of a conflict are columns of the table.
LEMMA TargetCells ==
  ASSUME NEW c \in Targets
  PROVE  c.columns \in Seq(Cells) /\ c.update \in Seq(Cells)
<1>1. {"a", "b"} \subseteq Cells
  BY DEF Cells
<1> QED
  BY <1>1, SeqMonotonic DEF Targets

\* ON CONFLICT, or ON DUPLICATE KEY UPDATE.
LEMMA UpsertStays ==
  ASSUME NEW d, NEW buf \in Buffers(d), NEW c \in Targets,
         "InsertOnConflict" \in d.feats \/ "OnDuplicateKey" \in d.feats,
         "InsertOnConflict" \notin d.feats /\ c.nothing => c.columns # <<>>
  PROVE  AppendUpsert(buf, d, c) \in Buffers(d)
<1> DEFINE W == Seq(WordsOf(d.feats))
<1>1. c.columns \in Seq(Cells) /\ c.update \in Seq(Cells)
  BY TargetCells
<1>2. {"(", ")", "=", "EXCLUDED.", "VALUES", "DO_NOTHING", "DO_UPDATE_SET"} \subseteq WordsOf(d.feats)
  BY CommonWords DEF Common
<1>3. /\ <<"(">> \in W /\ <<")">> \in W /\ <<"=", "EXCLUDED.">> \in W
      /\ <<"=", "VALUES", "(">> \in W /\ <<"DO_NOTHING">> \in W /\ <<"DO_UPDATE_SET">> \in W
      /\ <<>> \in W
  BY <1>2, EmptySeq
<1> HIDE DEF W
<1>4. \A x, y \in W : x \o y \in W
  BY ConcatProperties DEF W
<1>5. CASE "InsertOnConflict" \in d.feats
  <2>1. "ON_CONFLICT" \in WordsOf(d.feats)
    BY <1>5, FeatureWords
  <2>2. <<"ON_CONFLICT">> \in W
    BY <2>1 DEF W
  <2>3. ColumnList(c.columns) \in W /\ Assign(c.update, <<>>, <<"=", "EXCLUDED.">>, <<>>) \in W
    BY <1>1, <1>3, CellList DEF W
  <2>4. (IF c.columns = <<>> THEN <<>> ELSE <<"(">> \o ColumnList(c.columns) \o <<")">>) \in W
    BY <1>3, <1>4, <2>3
  <2>5. (IF c.nothing THEN <<"DO_NOTHING">>
         ELSE <<"DO_UPDATE_SET">> \o Assign(c.update, <<>>, <<"=", "EXCLUDED.">>, <<>>)) \in W
    BY <1>3, <1>4, <2>3
  <2> DEFINE columns == IF c.columns = <<>> THEN <<>> ELSE <<"(">> \o ColumnList(c.columns) \o <<")">>
             action == IF c.nothing THEN <<"DO_NOTHING">>
                       ELSE <<"DO_UPDATE_SET">> \o Assign(c.update, <<>>, <<"=", "EXCLUDED.">>, <<>>)
  <2>6. AppendUpsert(buf, d, c) = Put(buf, <<"ON_CONFLICT">> \o columns \o action)
    BY <1>5 DEF AppendUpsert
  <2> HIDE DEF columns, action
  <2>7. <<"ON_CONFLICT">> \o columns \o action \in W
    BY <1>4, <2>2, <2>4, <2>5 DEF columns, action
  <2> QED
    BY <2>6, <2>7, PutStays DEF W
<1>6. CASE "InsertOnConflict" \notin d.feats
  <2>1. "ON_DUPLICATE_KEY_UPDATE" \in WordsOf(d.feats)
    BY <1>6, FeatureWords
  <2>2. <<"ON_DUPLICATE_KEY_UPDATE">> \in W
    BY <2>1 DEF W
  <2>3. Assign(c.update, <<>>, <<"=", "VALUES", "(">>, <<")">>) \in W
    BY <1>1, <1>3, CellList DEF W
  <2>4. ASSUME c.nothing PROVE <<c.columns[1], "=", c.columns[1]>> \in W
    <3>1. c.columns[1] \in Cells
      BY <1>1, <1>6, <2>4, EmptySeq, ElementOfSeq
    <3>2. c.columns[1] \in WordsOf(d.feats)
      BY <3>1, CommonWords DEF Common, Cells
    <3> QED
      BY <1>2, <3>2 DEF W
  <2> DEFINE action == IF c.nothing THEN <<c.columns[1], "=", c.columns[1]>>
                       ELSE Assign(c.update, <<>>, <<"=", "VALUES", "(">>, <<")">>)
  <2>5. action \in W
    BY <2>3, <2>4
  <2>6. AppendUpsert(buf, d, c) = Put(buf, <<"ON_DUPLICATE_KEY_UPDATE">> \o action)
    BY <1>6 DEF AppendUpsert
  <2> HIDE DEF action
  <2>7. <<"ON_DUPLICATE_KEY_UPDATE">> \o action \in W
    BY <1>4, <2>2, <2>5
  <2> QED
    BY <2>6, <2>7, PutStays DEF W
<1> QED
  BY <1>5, <1>6

\* The inserts the model can render.
Inserts(F) ==
  {ins \in [table : Names, columns : Seq(Cells), rows : Seq(Seq(Nat)),
            conflict : {<<>>} \cup {<<c>> : c \in Targets}, returning : Seq(Cells)] :
     ins.returning # <<>> => "Returning" \in F \/ "Output" \in F}

\* MERGE.
LEMMA MergeBuilt ==
  ASSUME NEW d, IsDialect(d), Engine(d.feats), NEW ins \in Inserts(d.feats),
         ins.conflict # <<>>, "Merge" \in d.feats
  PROVE  Statement(BuildMerge(ins, d), d)
<1> DEFINE W == Seq(WordsOf(d.feats))
           c == ins.conflict[1]
           head == <<"MERGE", "INTO", ins.table, "AS", "tgt", "USING", "(", "VALUES">>
           on == Joined(<<"AND">>, [i \in DOMAIN c.columns |->
                                      <<"tgt.", c.columns[i], "=", "src.", c.columns[i]>>])
           matched == IF c.nothing THEN <<>>
                      ELSE <<"WHEN_MATCHED", "SET">> \o
                           Assign(c.update, <<"tgt.">>, <<"=", "src.">>, <<>>)
           from == Joined(<<Comma>>, [i \in DOMAIN ins.columns |-> <<"src.", ins.columns[i]>>])
           tail == <<")", "AS", "src", "(">> \o ColumnList(ins.columns) \o <<")", "ON">> \o on \o
                   matched \o
                   <<"WHEN_NOT_MATCHED", "(">> \o ColumnList(ins.columns) \o <<")", "VALUES", "(">> \o
                   from \o <<")">>
           using == AppendRows(Put(Empty, head), d, ins.rows)
           full == Put(using, tail)
<1>1. /\ ins.table \in Names /\ ins.columns \in Seq(Cells) /\ ins.rows \in Seq(Seq(Nat))
      /\ ins.returning \in Seq(Cells) /\ c \in Targets
  BY DEF Inserts
<1>2. c.columns \in Seq(Cells) /\ c.update \in Seq(Cells)
  BY <1>1, TargetCells
<1>3. /\ {"INTO", "AS", "tgt", "USING", "(", "VALUES", "AND", "tgt.", "=", "src."} \subseteq WordsOf(d.feats)
      /\ {"WHEN_MATCHED", "SET", ")", "src", "ON", "WHEN_NOT_MATCHED", Comma} \subseteq WordsOf(d.feats)
      /\ ins.table \in WordsOf(d.feats) /\ "MERGE" \in WordsOf(d.feats)
  BY <1>1, CommonWords, FeatureWords DEF Common, Names
<1>4. /\ head \in W /\ <<"AND">> \in W /\ <<"WHEN_MATCHED", "SET">> \in W /\ <<"tgt.">> \in W
      /\ <<"=", "src.">> \in W /\ <<")", "AS", "src", "(">> \in W /\ <<")", "ON">> \in W
      /\ <<"WHEN_NOT_MATCHED", "(">> \in W /\ <<")", "VALUES", "(">> \in W /\ <<")">> \in W
      /\ <<Comma>> \in W /\ <<>> \in W
  BY <1>3, EmptySeq
<1> HIDE DEF W, c, head
<1>5. \A x, y \in W : x \o y \in W
  BY ConcatProperties DEF W
<1>6. ColumnList(ins.columns) \in W /\ from \in W
  BY <1>1, <1>3, <1>4, CellList DEF W
<1>7. matched \in W
  <2>1. Assign(c.update, <<"tgt.">>, <<"=", "src.">>, <<>>) \in W
    BY <1>2, <1>4, CellList DEF W
  <2> QED
    BY <1>4, <1>5, <2>1
<1>8. on \in W
  <2> DEFINE f == [i \in DOMAIN c.columns |-> <<"tgt.", c.columns[i], "=", "src.", c.columns[i]>>]
  <2>1. ASSUME NEW i \in DOMAIN c.columns
        PROVE  <<"tgt.", c.columns[i], "=", "src.", c.columns[i]>> \in W
    <3>1. c.columns[i] \in Cells
      BY <1>2, LenProperties, ElementOfSeq
    <3>2. c.columns[i] \in WordsOf(d.feats)
      BY <3>1, CommonWords DEF Common, Cells
    <3> QED
      BY <1>3, <3>2 DEF W
  <2>2. f \in [DOMAIN c.columns -> W]
    BY <2>1
  <2> HIDE DEF f
  <2>3. f \in Seq(W)
    BY <1>2, <2>2, MappedSeq
  <2>4. Joined(<<"AND">>, f) \in W
    BY <1>4, <2>3, JoinedStays DEF W
  <2> QED
    BY <2>4 DEF f
<1> HIDE DEF on, matched, from
<1>9. tail \in W
  BY <1>4, <1>5, <1>6, <1>7, <1>8
<1>10. using \in Buffers(d)
  <2>1. Put(Empty, head) \in Buffers(d)
    BY <1>4, EmptyBuffer, PutStays DEF W
  <2> QED
    BY <1>1, <2>1, RowsStay
<1>11. BuildMerge(ins, d) = Built(IF ins.returning = <<>> THEN full
                                  ELSE AppendOutput(full, ins.returning, "INSERTED."))
  BY DEF BuildMerge, c, head, on, matched, from
<1> HIDE DEF tail, using
<1>12. full \in Buffers(d)
  BY <1>9, <1>10, PutStays DEF W
<1> HIDE DEF full
<1>13. AppendOutput(full, ins.returning, "INSERTED.") \in Buffers(d)
  BY <1>1, <1>12, OutputStays DEF Engine
<1> QED
  BY <1>11, <1>12, <1>13, BuiltStatement

\* An insert.
LEMMA InsertBuilt ==
  ASSUME NEW d, IsDialect(d), Engine(d.feats), NEW ins \in Inserts(d.feats)
  PROVE  Statement(BuildInsert(ins, d), d)
<1> DEFINE W == Seq(WordsOf(d.feats))
           upsert == ins.conflict # <<>>
           into == Put(Empty, <<"INSERT_INTO", ins.table, "(">> \o ColumnList(ins.columns) \o <<")">>)
           out == IF Asked(d, "Output", ins.returning)
                  THEN AppendOutput(into, ins.returning, "INSERTED.") ELSE into
           rows == AppendRows(Put(out, <<"VALUES">>), d, ins.rows)
           done == IF upsert THEN AppendUpsert(rows, d, ins.conflict[1]) ELSE rows
           illFormed == \/ ins.rows = <<>>
                        \/ ins.columns = <<>>
                        \/ \E i \in DOMAIN ins.rows : Len(ins.rows[i]) # Len(ins.columns)
           noTarget == /\ upsert /\ "OnDuplicateKey" \in d.feats
                       /\ ins.conflict[1].nothing /\ ins.conflict[1].columns = <<>>
<1>1. /\ ins.table \in Names /\ ins.columns \in Seq(Cells) /\ ins.rows \in Seq(Seq(Nat))
      /\ ins.returning \in Seq(Cells) /\ (upsert => ins.conflict[1] \in Targets)
  BY DEF Inserts
<1>2. CASE upsert /\ "Merge" \in d.feats
  <2>1. Statement(BuildMerge(ins, d), d)
    BY <1>2, MergeBuilt
  <2>2. BuildInsert(ins, d) = BuildMerge(ins, d) \/ BuildInsert(ins, d) = Failed
    BY <1>2 DEF BuildInsert
  <2> QED
    BY <2>1, <2>2, FailedStatement
<1>3. CASE ~(upsert /\ "Merge" \in d.feats) /\ (illFormed \/ noTarget)
  <2>1. BuildInsert(ins, d) = Failed
    BY <1>3 DEF BuildInsert
  <2> QED
    BY <2>1, FailedStatement
<1>4. CASE ~(upsert /\ "Merge" \in d.feats) /\ ~(illFormed \/ noTarget)
  <2>1. {"INSERT_INTO", "(", ")", "VALUES", ins.table} \subseteq WordsOf(d.feats)
    BY <1>1, CommonWords DEF Common, Names
  <2>2. <<"INSERT_INTO", ins.table, "(">> \in W /\ <<")">> \in W /\ <<>> \in W
    BY <2>1, EmptySeq
  <2>3. ColumnList(ins.columns) \in W
    BY <1>1, <2>2, CellList
  <2>4. into \in Buffers(d)
    BY <2>2, <2>3, ConcatProperties, EmptyBuffer, PutStays
  <2>5. out \in Buffers(d)
    <3> HIDE DEF into
    <3> QED
      BY <1>1, <2>4, OutputStays DEF Asked
  <2>6. rows \in Buffers(d)
    <3> HIDE DEF out
    <3> QED
      BY <1>1, <2>1, <2>5, PutWord, RowsStay
  <2>7. done \in Buffers(d)
    <3> HIDE DEF rows
    <3>1. ASSUME upsert PROVE AppendUpsert(rows, d, ins.conflict[1]) \in Buffers(d)
      <4>1. "InsertOnConflict" \in d.feats \/ "OnDuplicateKey" \in d.feats
        BY <1>4, <3>1 DEF Engine
      <4>2. "InsertOnConflict" \notin d.feats /\ ins.conflict[1].nothing => ins.conflict[1].columns # <<>>
        BY <1>4, <3>1, <4>1
      <4> QED
        BY <1>1, <2>6, <3>1, <4>1, <4>2, UpsertStays
    <3> QED
      BY <2>6, <3>1
  <2>8. BuildInsert(ins, d) = Built(IF Asked(d, "Returning", ins.returning)
                                    THEN AppendReturning(done, ins.returning) ELSE done)
    BY <1>4 DEF BuildInsert
  <2> HIDE DEF done
  <2>9. Asked(d, "Returning", ins.returning) => AppendReturning(done, ins.returning) \in Buffers(d)
    BY <1>1, <2>7, ReturningStays DEF Asked
  <2> QED
    BY <2>7, <2>8, <2>9, BuiltStatement
<1> QED
  BY <1>2, <1>3, <1>4

\* An assignment to a column: a bound value, or an expression.
Sets(F) == {s \in [column : {"a", "b"}, sql : Seq(Tokens(F)), args : Seq(Nat)] :
              IF s.sql = <<>> THEN \E v \in Nat : s.args = <<v>>
              ELSE [sql |-> s.sql, args |-> s.args] \in Exprs(F)}

\* One assignment.
LEMMA SetStays ==
  ASSUME NEW d, IsDialect(d), NEW buf \in Buffers(d), NEW s \in Sets(d.feats)
  PROVE  AppendSet(buf, d, s) \in Buffers(d)
<1> DEFINE target == Put(buf, <<s.column, "=">>)
<1>1. s.column \in WordsOf(d.feats) /\ "=" \in WordsOf(d.feats)
  BY CommonWords DEF Common, Sets
<1>2. target \in Buffers(d)
  <2>1. <<s.column, "=">> \in Seq(WordsOf(d.feats))
    BY <1>1
  <2> QED
    BY <2>1, PutStays
<1> HIDE DEF target
<1>3. CASE s.sql # <<>>
  <2> DEFINE e == [sql |-> s.sql, args |-> s.args]
  <2>1. e \in Exprs(d.feats) /\ e.sql = s.sql /\ e.args = s.args
    BY <1>3 DEF Sets
  <2> HIDE DEF e
  <2>2. AppendExpr(target, d, s) = AppendExpr(target, d, e)
    BY <2>1 DEF AppendExpr
  <2>3. AppendSet(buf, d, s) = AppendExpr(target, d, s)
    BY <1>3 DEF AppendSet, target
  <2> QED
    BY <1>2, <2>1, <2>2, <2>3, ExprStays
<1>4. CASE s.sql = <<>>
  <2>1. PICK v \in Nat : s.args = <<v>>
    BY <1>4 DEF Sets
  <2>2. AppendSet(buf, d, s) = [AppendPlaceholder(target, d, v) EXCEPT !.args = Append(@, v)]
    BY <1>4, <2>1 DEF AppendSet, target
  <2> QED
    BY <1>2, <2>2, PlaceholderStays
<1> QED
  BY <1>3, <1>4

\* The assignments of an update.
LEMMA SetListStays ==
  ASSUME NEW d, IsDialect(d), NEW buf \in Buffers(d), NEW set \in Seq(Sets(d.feats))
  PROVE  AppendSetList(buf, d, set) \in Buffers(d)
<1> DEFINE S == Buffers(d)
           n == Len(set)
           Body(p, i) == AppendSet(Put(p, IF i = 1 THEN <<>> ELSE <<Comma>>), d, set[i])
           step == [x \in S \X (1..n) |-> Body(x[1], x[2])]
           f == CHOOSE h : h = [i \in 0..n |-> IF i = 0 THEN buf ELSE Body(h[i - 1], i)]
<1>1. n \in Nat /\ buf \in S
  BY LenProperties
<1>2. ASSUME NEW p \in S, NEW i \in 1..n PROVE Body(p, i) \in S
  <2>0. Comma \in WordsOf(d.feats)
    BY CommonWords DEF Common
  <2>1. <<Comma>> \in Seq(WordsOf(d.feats))
    BY <2>0
  <2>2. (IF i = 1 THEN <<>> ELSE <<Comma>>) \in Seq(WordsOf(d.feats))
    BY <2>1, EmptySeq
  <2>3. set[i] \in Sets(d.feats)
    BY ElementOfSeq
  <2> QED
    BY <2>2, <2>3, PutStays, SetStays
<1>3. AppendSetList(buf, d, set) = f[n]
  BY DEF AppendSetList
<1> HIDE DEF Body, S, n
<1>4. \A p \in S, i \in 1..n : step[<<p, i>>] = Body(p, i)
  OBVIOUS
<1>5. Passes(step, S, n)
  BY <1>2, <1>4 DEF Passes
<1> HIDE DEF step
<1>6. PICK g \in [0..n -> S] : Runs(g, step, buf, n)
  BY <1>1, <1>5, LoopExists
<1>7. /\ \A i \in 1..n : i - 1 \in 0..n
      /\ \A i \in 0..n : i = 0 \/ i \in 1..n
  BY <1>1
<1>8. g = [i \in 0..n |-> IF i = 0 THEN buf ELSE Body(g[i - 1], i)]
  BY <1>4, <1>6, <1>7 DEF Runs
<1>9. f = [i \in 0..n |-> IF i = 0 THEN buf ELSE Body(f[i - 1], i)]
  BY <1>8
<1> HIDE DEF f
<1>10. f[0] = buf /\ \A i \in 1..n : f[i] = Body(f[i - 1], i)
  BY <1>1, <1>9
<1>11. f[0] \in S /\ \A i \in 1..n : f[i - 1] \in S => f[i] \in S
  BY <1>1, <1>2, <1>10
<1>12. \A i \in 0..n : f[i] \in S
  BY <1>1, <1>11, LoopStays
<1> QED
  BY <1>1, <1>3, <1>12 DEF S

\* The updates and the deletes the model can render.
Updates(F) ==
  {u \in [table : Names, set : Seq(Sets(F)), from : {<<>>} \cup {<<e>> : e \in Exprs(F)},
          where : Seq(Exprs(F)), returning : Seq(Cells)] : u.from # <<>> => "UpdateFrom" \in F}
Deletes(F) == [table : Names, where : Seq(Exprs(F)), returning : Seq(Cells)]

\* An update.
LEMMA UpdateBuilt ==
  ASSUME NEW d, IsDialect(d), NEW u \in Updates(d.feats)
  PROVE  Statement(BuildUpdate(u, d), d)
<1> DEFINE set == AppendSetList(Put(Empty, <<"UPDATE", u.table, "SET">>), d, u.set)
           out == IF Asked(d, "Output", u.returning)
                  THEN AppendOutput(set, u.returning, "INSERTED.") ELSE set
           from == IF u.from = <<>> THEN out
                   ELSE AppendExpr(Put(out, <<"UPDATE_FROM">>), d, u.from[1])
           where == AppendAndList(from, d, "WHERE", u.where)
<1>1. /\ u.table \in Names /\ u.set \in Seq(Sets(d.feats)) /\ u.where \in Seq(Exprs(d.feats))
      /\ u.returning \in Seq(Cells)
      /\ (u.from # <<>> => u.from[1] \in Exprs(d.feats) /\ "UpdateFrom" \in d.feats)
  BY DEF Updates
<1>2. {"UPDATE", u.table, "SET", "WHERE"} \subseteq WordsOf(d.feats)
  BY <1>1, CommonWords DEF Common, Names
<1>3. set \in Buffers(d)
  <2>1. <<"UPDATE", u.table, "SET">> \in Seq(WordsOf(d.feats))
    BY <1>2
  <2>2. Put(Empty, <<"UPDATE", u.table, "SET">>) \in Buffers(d)
    BY <2>1, EmptyBuffer, PutStays
  <2> QED
    BY <1>1, <2>2, SetListStays
<1>4. out \in Buffers(d)
  <2> HIDE DEF set
  <2> QED
    BY <1>1, <1>3, OutputStays DEF Asked
<1>5. from \in Buffers(d)
  <2> HIDE DEF out
  <2>1. ASSUME u.from # <<>> PROVE AppendExpr(Put(out, <<"UPDATE_FROM">>), d, u.from[1]) \in Buffers(d)
    <3>1. "UPDATE_FROM" \in WordsOf(d.feats)
      BY <1>1, <2>1, FeatureWords
    <3> QED
      BY <1>1, <1>4, <2>1, <3>1, PutWord, ExprStays
  <2> QED
    BY <1>4, <2>1
<1>6. where \in Buffers(d)
  <2> HIDE DEF from
  <2> QED
    BY <1>1, <1>2, <1>5, AndListStays
<1>7. BuildUpdate(u, d) = IF u.set = <<>> THEN Failed
                          ELSE Built(IF Asked(d, "Returning", u.returning)
                                     THEN AppendReturning(where, u.returning) ELSE where)
  BY DEF BuildUpdate
<1> HIDE DEF where
<1>8. Asked(d, "Returning", u.returning) => AppendReturning(where, u.returning) \in Buffers(d)
  BY <1>1, <1>6, ReturningStays DEF Asked
<1> QED
  BY <1>6, <1>7, <1>8, BuiltStatement, FailedStatement

\* A delete.
LEMMA DeleteBuilt ==
  ASSUME NEW d, IsDialect(d), NEW del \in Deletes(d.feats)
  PROVE  Statement(BuildDelete(del, d), d)
<1> DEFINE start == Put(Empty, <<"DELETE_FROM", del.table>>)
           out == IF Asked(d, "Output", del.returning)
                  THEN AppendOutput(start, del.returning, "DELETED.") ELSE start
           where == AppendAndList(out, d, "WHERE", del.where)
<1>1. del.table \in Names /\ del.where \in Seq(Exprs(d.feats)) /\ del.returning \in Seq(Cells)
  BY DEF Deletes
<1>2. {"DELETE_FROM", del.table, "WHERE"} \subseteq WordsOf(d.feats)
  BY <1>1, CommonWords DEF Common, Names
<1>3. start \in Buffers(d)
  <2>1. <<"DELETE_FROM", del.table>> \in Seq(WordsOf(d.feats))
    BY <1>2
  <2> QED
    BY <2>1, EmptyBuffer, PutStays
<1>4. out \in Buffers(d)
  <2> HIDE DEF start
  <2> QED
    BY <1>1, <1>3, OutputStays DEF Asked
<1>5. where \in Buffers(d)
  <2> HIDE DEF out
  <2> QED
    BY <1>1, <1>2, <1>4, AndListStays
<1>6. BuildDelete(del, d) = Built(IF Asked(d, "Returning", del.returning)
                                  THEN AppendReturning(where, del.returning) ELSE where)
  BY DEF BuildDelete
<1> HIDE DEF where
<1>7. Asked(d, "Returning", del.returning) => AppendReturning(where, del.returning) \in Buffers(d)
  BY <1>1, <1>5, ReturningStays DEF Asked
<1> QED
  BY <1>5, <1>6, <1>7, BuiltStatement

(***************************************************************************)
(* Predicates, fields and terms.                                           *)
(***************************************************************************)
IsPred(p) == p = [op |-> p.op, vals |-> p.vals, ps |-> p.ps, text |-> p.text, cols |-> p.cols,
                  feat |-> p.feat, err |-> p.err]

\* If its checks pass, a predicate is made of fragments the engine understands.
PredOK(p, F) == IsPred(p) /\ (p.err \/ ~(p.cols \subseteq Known) \/ ~(p.feat \subseteq F)
                                \/ p.text \in Seq(Exprs(F)))

\* If its check passes, so is a field, around a subquery that is a fragment.
IsFrag(frag, F) == [sql |-> frag.sql, args |-> frag.args] \in Exprs(F)
FieldOK(f, F)   == BadField(f) \/ \A frag : IsFrag(frag, F) => RenderField(f, frag) \in Exprs(F)
TermOK(t, F)    == BadTerm(t) \/ RenderTerm(t) \in Seq(Plain(F))

\* A column that is known, or that the program declared, can be named.
ColumnOK(c) == ColsRef(c) \subseteq Known => c.name \in Common

\* The columns the calls name.
LEMMA ColumnsOK ==
  ColumnOK(Col("a")) /\ ColumnOK(Col("b")) /\ ColumnOK(Col("zz")) /\ ColumnOK(Unvalidated("hid"))
BY DEF ColumnOK, ColsRef, Col, Unvalidated, Known, Common

\* What Predicate makes.
LEMMA PredicateOK ==
  ASSUME NEW F, NEW op, NEW cols, NEW feat, NEW vals, NEW text,
         cols \subseteq Known /\ feat \subseteq F => text \in Seq(Exprs(F))
  PROVE  PredOK(Predicate(op, cols, feat, vals, text), F)
BY DEF PredOK, IsPred, Predicate

\* The column and the path into it.
LEMMA ExtractStays ==
  ASSUME NEW F, NEW c, c.name \in Common, NEW keys \in Seq(Nat)
  PROVE  ExtractText(c, keys) \in Seq(Exprs(F))
<1> DEFINE arrow(i) == IF i = Len(keys) THEN "->>" ELSE "->"
           part(i) == Valued(<<arrow(i)>>, keys[i])
           f == [i \in DOMAIN keys |-> part(i)]
<1>1. ASSUME NEW i \in DOMAIN keys PROVE part(i) \in Exprs(F)
  <2>1. keys[i] \in Nat
    BY LenProperties, ElementOfSeq
  <2>2. arrow(i) \in WordsOf(F)
    BY CommonWords DEF Common
  <2> HIDE DEF arrow
  <2>3. <<arrow(i)>> \in Seq(WordsOf(F))
    BY <2>2
  <2> QED
    BY <2>1, <2>3, ValuedStays
<1>2. f \in Seq(Exprs(F))
  <2>1. f \in [DOMAIN keys -> Exprs(F)]
    BY <1>1
  <2> HIDE DEF f
  <2> QED
    BY <2>1, MappedSeq
<1>3. <<Text(<<c.name>>)>> \in Seq(Exprs(F))
  <2>1. c.name \in WordsOf(F)
    BY CommonWords
  <2>2. <<c.name>> \in Seq(WordsOf(F))
    BY <2>1
  <2>3. Text(<<c.name>>) \in Exprs(F)
    BY <2>2, PlainExpr
  <2> QED
    BY <2>3
<1>4. ExtractText(c, keys) = <<Text(<<c.name>>)>> \o f
  BY DEF ExtractText
<1> HIDE DEF f
<1> QED
  BY <1>2, <1>3, <1>4, ConcatProperties

\* A column compared with a value.
LEMMA CompareOK ==
  ASSUME NEW F, NEW op, NEW c, ColumnOK(c), NEW keys \in Seq(Nat), NEW v \in Nat, NEW feat,
         feat \subseteq F => op \in WordsOf(F)
  PROVE  PredOK(Compare(op, c, keys, v, feat), F)
<1> SUFFICES ASSUME ColsRef(c) \subseteq Known, feat \subseteq F
             PROVE  ExtractText(c, keys) \o <<Text(<<op>>), Value(v)>> \in Seq(Exprs(F))
  BY PredicateOK DEF Compare
<1>1. <<op>> \in Seq(WordsOf(F))
  OBVIOUS
<1>2. Text(<<op>>) \in Exprs(F) /\ Value(v) \in Exprs(F)
  BY <1>1, PlainExpr, ValueExpr
<1>3. <<Text(<<op>>), Value(v)>> \in Seq(Exprs(F))
  BY <1>2
<1>4. ExtractText(c, keys) \in Seq(Exprs(F))
  BY ExtractStays DEF ColumnOK
<1> QED
  BY <1>3, <1>4, ConcatProperties

\* A column looked for in a list.
LEMMA ListOK ==
  ASSUME NEW F, NEW op, NEW c, ColumnOK(c), NEW keys \in Seq(Nat), NEW vals \in Seq(Nat), NEW feat,
         feat \subseteq F => op \in WordsOf(F),
         op \in {"IN", "NOT_IN", "&&ARRAY", "@>ARRAY"} \/ "Array" \in feat
  PROVE  PredOK(List(op, c, keys, vals, feat), F)
<1> SUFFICES ASSUME ColsRef(c) \subseteq Known, feat \subseteq F
             PROVE  ListText(op, c, keys, vals) \in Seq(Exprs(F))
  BY PredicateOK DEF List
<1>1. c.name \in WordsOf(F) /\ op \in WordsOf(F)
      /\ {Comma, "(", ")", "=", "0", "1=0", "1=1"} \subseteq WordsOf(F)
  BY CommonWords DEF Common, ColumnOK
<1>2. CASE vals # <<>>
  <2> DEFINE f == [i \in DOMAIN vals |-> <<Value(vals[i])>>]
             open == <<Text(<<op, "(">>)>>
             close == <<Text(<<")">>)>>
             sep == <<Text(<<Comma>>)>>
  <2>1. <<op, "(">> \in Seq(WordsOf(F)) /\ <<")">> \in Seq(WordsOf(F)) /\ <<Comma>> \in Seq(WordsOf(F))
    BY <1>1
  <2>2. Text(<<op, "(">>) \in Exprs(F) /\ Text(<<")">>) \in Exprs(F) /\ Text(<<Comma>>) \in Exprs(F)
    BY <2>1, PlainExpr
  <2>3. open \in Seq(Exprs(F)) /\ close \in Seq(Exprs(F)) /\ sep \in Seq(Exprs(F))
    BY <2>2
  <2>4. ASSUME NEW i \in DOMAIN vals PROVE <<Value(vals[i])>> \in Seq(Exprs(F))
    <3>1. vals[i] \in Nat
      BY LenProperties, ElementOfSeq
    <3>2. Value(vals[i]) \in Exprs(F)
      BY <3>1, ValueExpr
    <3> QED
      BY <3>2
  <2>5. f \in [DOMAIN vals -> Seq(Exprs(F))]
    BY <2>4
  <2>6. ExtractText(c, keys) \in Seq(Exprs(F))
    BY ExtractStays DEF ColumnOK
  <2>7. ListText(op, c, keys, vals) = ExtractText(c, keys) \o open \o Joined(sep, f) \o close
    BY <1>2 DEF ListText
  <2> HIDE DEF f, open, close, sep
  <2>8. f \in Seq(Seq(Exprs(F)))
    BY <2>5, MappedSeq
  <2>9. Joined(sep, f) \in Seq(Exprs(F))
    BY <2>3, <2>8, JoinedStays
  <2> QED
    BY <2>3, <2>6, <2>7, <2>9, ConcatProperties
<1>3. CASE vals = <<>> /\ op \in {"IN", "&&ARRAY"}
  <2>1. <<"1=0">> \in Seq(WordsOf(F))
    BY <1>1
  <2>2. Text(<<"1=0">>) \in Exprs(F)
    BY <2>1, PlainExpr
  <2>3. ListText(op, c, keys, vals) = <<Text(<<"1=0">>)>>
    BY <1>3 DEF ListText
  <2> QED
    BY <2>2, <2>3
<1>4. CASE vals = <<>> /\ op \in {"NOT_IN", "@>ARRAY"}
  <2>1. <<"1=1">> \in Seq(WordsOf(F))
    BY <1>1
  <2>2. Text(<<"1=1">>) \in Exprs(F)
    BY <2>1, PlainExpr
  <2>3. ListText(op, c, keys, vals) = <<Text(<<"1=1">>)>>
    BY <1>4 DEF ListText
  <2> QED
    BY <2>2, <2>3
<1>5. CASE vals = <<>> /\ op \notin {"IN", "NOT_IN", "&&ARRAY", "@>ARRAY"}
  <2>1. "cardinality" \in WordsOf(F)
    BY <1>5, FeatureWords
  <2>2. <<"cardinality", "(", c.name, ")", "=", "0">> \in Seq(WordsOf(F))
    BY <1>1, <2>1
  <2>3. Text(<<"cardinality", "(", c.name, ")", "=", "0">>) \in Exprs(F)
    BY <2>2, PlainExpr
  <2>4. ListText(op, c, keys, vals) = <<Text(<<"cardinality", "(", c.name, ")", "=", "0">>)>>
    BY <1>5 DEF ListText
  <2> QED
    BY <2>3, <2>4
<1> QED
  BY <1>2, <1>3, <1>4, <1>5

\* A text of a few fragments; the marker of a subquery is one.
LEMMA SubExpr ==
  ASSUME NEW F
  PROVE  Sub \in Exprs(F)
<1>1. "<subquery>" \in WordsOf(F)
  BY CommonWords DEF Common
<1>2. <<"<subquery>">> \in Seq(WordsOf(F))
  BY <1>1
<1> QED
  BY <1>2, PlainExpr DEF Sub

\* IS NULL, and a column equal to another.
LEMMA NullOK ==
  ASSUME NEW F, NEW c, ColumnOK(c)
  PROVE  PredOK(NullCheck(c), F) /\ PredOK(EqCol(c), F)
<1>1. ASSUME ColsRef(c) \subseteq Known
      PROVE  <<Text(<<c.name, "IS_NULL">>)>> \in Seq(Exprs(F))
             /\ <<Text(<<c.name, "=", "o", ".", "a">>)>> \in Seq(Exprs(F))
  <2>1. {c.name, "IS_NULL", "=", "o", ".", "a"} \subseteq WordsOf(F)
    BY <1>1, CommonWords DEF Common, ColumnOK
  <2>2. <<c.name, "IS_NULL">> \in Seq(WordsOf(F)) /\ <<c.name, "=", "o", ".", "a">> \in Seq(WordsOf(F))
    BY <2>1
  <2>3. Text(<<c.name, "IS_NULL">>) \in Exprs(F) /\ Text(<<c.name, "=", "o", ".", "a">>) \in Exprs(F)
    BY <2>2, PlainExpr
  <2> QED
    BY <2>3
<1>2. PredOK(NullCheck(c), F)
  BY <1>1, PredicateOK DEF NullCheck
<1>3. PredOK(EqCol(c), F)
  BY <1>1, PredicateOK DEF EqCol
<1> QED
  BY <1>2, <1>3

\* A value in an array column.
LEMMA HasElemOK ==
  ASSUME NEW F, NEW c, ColumnOK(c), NEW v \in Nat
  PROVE  PredOK(HasElem(c, v), F)
<1>1. ASSUME ColsRef(c) \subseteq Known, {"Array"} \subseteq F
      PROVE  <<Value(v), Text(<<"=ANY", "(", c.name, ")">>)>> \in Seq(Exprs(F))
  <2>1. {"=ANY", "(", c.name, ")"} \subseteq WordsOf(F)
    BY <1>1, CommonWords, FeatureWords DEF Common, ColumnOK
  <2>2. <<"=ANY", "(", c.name, ")">> \in Seq(WordsOf(F))
    BY <2>1
  <2>3. Text(<<"=ANY", "(", c.name, ")">>) \in Exprs(F) /\ Value(v) \in Exprs(F)
    BY <2>2, PlainExpr, ValueExpr
  <2> QED
    BY <2>3
<1> QED
  BY <1>1, PredicateOK DEF HasElem

\* A predicate remains one when it takes the errors of the subquery it holds.
LEMMA SpoiledOK ==
  ASSUME NEW F, NEW p, PredOK(p, F), ~p.err, NEW err \in BOOLEAN
  PROVE  PredOK([p EXCEPT !.err = err], F)
<1>1. [p EXCEPT !.err = err] = [op |-> p.op, vals |-> p.vals, ps |-> p.ps, text |-> p.text,
                                cols |-> p.cols, feat |-> p.feat, err |-> err]
  BY DEF PredOK, IsPred
<1> QED
  BY <1>1 DEF PredOK, IsPred

\* A predicate around a subquery.
LEMMA InSubOK ==
  ASSUME NEW F, NEW op \in {"IN_QUERY"}, NEW c, c.name \in Common, NEW sub
  PROVE  PredOK(InSub(op, c, sub), F)
<1> DEFINE text == <<Text(<<c.name, op, "(">>), Sub, Text(<<")">>)>>
           p == Predicate(op, {c.name}, FeatUnion(sub), <<>>, text)
<1>1. {c.name, op, "(", ")"} \subseteq WordsOf(F)
  BY CommonWords DEF Common
<1>2. <<c.name, op, "(">> \in Seq(WordsOf(F)) /\ <<")">> \in Seq(WordsOf(F))
  BY <1>1
<1>3. Text(<<c.name, op, "(">>) \in Exprs(F) /\ Text(<<")">>) \in Exprs(F) /\ Sub \in Exprs(F)
  BY <1>2, PlainExpr, SubExpr
<1>4. text \in Seq(Exprs(F))
  BY <1>3
<1>5. InSub(op, c, sub) = [p EXCEPT !.err = Invalid(sub)] /\ ~p.err
  BY DEF InSub, Predicate
<1>6. Invalid(sub) \in BOOLEAN
  BY DEF Invalid
<1> HIDE DEF text
<1>7. PredOK(p, F)
  BY <1>4, PredicateOK
<1> HIDE DEF p
<1> QED
  BY <1>5, <1>6, <1>7, SpoiledOK

\* EXISTS.
LEMMA ExistsOK ==
  ASSUME NEW F, NEW op \in {"EXISTS", "NOT_EXISTS"}, NEW sub
  PROVE  PredOK(ExistsPred(op, sub), F)
<1> DEFINE text == <<Text(<<op, "(">>), Sub, Text(<<")">>)>>
           p == Predicate(op, {}, FeatUnion(sub), <<>>, text)
<1>1. {op, "(", ")"} \subseteq WordsOf(F)
  BY CommonWords DEF Common
<1>2. <<op, "(">> \in Seq(WordsOf(F)) /\ <<")">> \in Seq(WordsOf(F))
  BY <1>1
<1>3. Text(<<op, "(">>) \in Exprs(F) /\ Text(<<")">>) \in Exprs(F) /\ Sub \in Exprs(F)
  BY <1>2, PlainExpr, SubExpr
<1>4. text \in Seq(Exprs(F))
  BY <1>3
<1>5. ExistsPred(op, sub) = [p EXCEPT !.err = Invalid(sub)] /\ ~p.err
  BY DEF ExistsPred, Predicate
<1>6. Invalid(sub) \in BOOLEAN
  BY DEF Invalid
<1> HIDE DEF text
<1>7. PredOK(p, F)
  BY <1>4, PredicateOK
<1> HIDE DEF p
<1> QED
  BY <1>5, <1>6, <1>7, SpoiledOK

\* Several of them.
PredsFrom(S, ps, F) == ps \in Seq(S) /\ \A p \in S : PredOK(p, F)
PredsOK(ps, F) == \E S : PredsFrom(S, ps, F)

\* One, two and none; one more; each of them.
LEMMA PredLists ==
  ASSUME NEW F
  PROVE  /\ PredsOK(<<>>, F)
         /\ \A p : PredOK(p, F) => PredsOK(<<p>>, F)
         /\ \A p, q : PredOK(p, F) /\ PredOK(q, F) => PredsOK(<<p, q>>, F)
<1>1. PredsOK(<<>>, F)
  <2>1. PredsFrom({}, <<>>, F)
    BY EmptySeq DEF PredsFrom
  <2> QED
    BY <2>1 DEF PredsOK
<1>2. ASSUME NEW p, PredOK(p, F) PROVE PredsOK(<<p>>, F)
  <2>1. PredsFrom({p}, <<p>>, F)
    BY <1>2 DEF PredsFrom
  <2> QED
    BY <2>1 DEF PredsOK
<1>3. ASSUME NEW p, NEW q, PredOK(p, F), PredOK(q, F) PROVE PredsOK(<<p, q>>, F)
  <2>1. PredsFrom({p, q}, <<p, q>>, F)
    BY <1>3 DEF PredsFrom
  <2> QED
    BY <2>1 DEF PredsOK
<1> QED
  BY <1>1, <1>2, <1>3

\* One predicate more.
LEMMA PredMore ==
  ASSUME NEW F, NEW ps, PredsOK(ps, F), NEW p, PredOK(p, F)
  PROVE  PredsOK(Append(ps, p), F)
<1>1. PICK S : PredsFrom(S, ps, F)
  BY DEF PredsOK
<1>2. ps \in Seq(S \cup {p})
  BY <1>1, SeqMonotonic DEF PredsFrom
<1>3. PredsFrom(S \cup {p}, Append(ps, p), F)
  BY <1>1, <1>2, AppendProperties DEF PredsFrom
<1> QED
  BY <1>3 DEF PredsOK

\* A conjunction or a disjunction, in its parentheses.
LEMMA CombineOK ==
  ASSUME NEW F, NEW op \in {"AND", "OR"}, NEW ps, PredsOK(ps, F)
  PROVE  PredOK(Combine(op, ps), F)
<1>1. PICK S : PredsFrom(S, ps, F)
  BY DEF PredsOK
<1>2. /\ ps \in Seq(S) /\ DOMAIN ps = 1..Len(ps) /\ Len(ps) \in Nat
      /\ \A i \in DOMAIN ps : PredOK(ps[i], F)
  BY <1>1, LenProperties, ElementOfSeq DEF PredsFrom
<1>3. CASE Len(ps) = 1
  BY <1>2, <1>3 DEF Combine
<1>4. CASE Len(ps) # 1
  <2> DEFINE f == [i \in DOMAIN ps |-> ps[i].text]
             p == Combine(op, ps)
  <2>1. /\ p.text = CombinedText(op, ps) /\ IsPred(p)
        /\ p.cols = UNION {ps[i].cols : i \in DOMAIN ps}
        /\ p.feat = UNION {ps[i].feat : i \in DOMAIN ps}
        /\ p.err = \E i \in DOMAIN ps : ps[i].err
    BY <1>4 DEF Combine, IsPred
  <2> HIDE DEF p
  <2> SUFFICES ASSUME ~p.err, p.cols \subseteq Known, p.feat \subseteq F
               PROVE  CombinedText(op, ps) \in Seq(Exprs(F))
    BY <2>1 DEF PredOK, p
  <2>2. ASSUME NEW i \in DOMAIN ps PROVE ps[i].text \in Seq(Exprs(F))
    <3>1. ~ps[i].err /\ ps[i].cols \subseteq Known /\ ps[i].feat \subseteq F
      BY <2>1
    <3> QED
      BY <1>2, <3>1 DEF PredOK
  <2>3. f \in [DOMAIN ps -> Seq(Exprs(F))]
    BY <2>2
  <2>4. {"1=1", "(", ")", op} \subseteq WordsOf(F)
    BY CommonWords DEF Common
  <2>5. <<"1=1">> \in Seq(WordsOf(F)) /\ <<"(">> \in Seq(WordsOf(F)) /\ <<")">> \in Seq(WordsOf(F))
        /\ <<op>> \in Seq(WordsOf(F))
    BY <2>4
  <2>6. Text(<<"1=1">>) \in Exprs(F) /\ Text(<<"(">>) \in Exprs(F) /\ Text(<<")">>) \in Exprs(F)
        /\ Text(<<op>>) \in Exprs(F)
    BY <2>5, PlainExpr
  <2>7. <<Text(<<"1=1">>)>> \in Seq(Exprs(F)) /\ <<Text(<<"(">>)>> \in Seq(Exprs(F))
        /\ <<Text(<<")">>)>> \in Seq(Exprs(F)) /\ <<Text(<<op>>)>> \in Seq(Exprs(F))
    BY <2>6
  <2>8. CombinedText(op, ps) = IF ps = <<>> THEN <<Text(<<"1=1">>)>>
                               ELSE <<Text(<<"(">>)>> \o Joined(<<Text(<<op>>)>>, f) \o <<Text(<<")">>)>>
    BY DEF CombinedText
  <2> HIDE DEF f
  <2>9. f \in Seq(Seq(Exprs(F)))
    BY <1>2, <2>3, MappedSeq
  <2>10. Joined(<<Text(<<op>>)>>, f) \in Seq(Exprs(F))
    BY <2>7, <2>9, JoinedStays
  <2> QED
    BY <2>7, <2>8, <2>10, ConcatProperties
<1> QED
  BY <1>3, <1>4

\* A negation.
LEMMA NotOK ==
  ASSUME NEW F, NEW p, PredOK(p, F)
  PROVE  PredOK(Not(p), F)
<1> DEFINE text == <<Text(<<"NOT", "(">>)>> \o p.text \o <<Text(<<")">>)>>
<1>1. Not(p) = [op |-> "NOT", vals |-> <<>>, ps |-> <<p>>, text |-> text,
                cols |-> p.cols, feat |-> p.feat, err |-> p.err]
  <2> DEFINE p1 == [p EXCEPT !.op = "NOT"]
             p2 == [p1 EXCEPT !.vals = <<>>]
             p3 == [p2 EXCEPT !.ps = <<p>>]
  <2>1. p = [op |-> p.op, vals |-> p.vals, ps |-> p.ps, text |-> p.text, cols |-> p.cols,
             feat |-> p.feat, err |-> p.err]
    BY Zenon DEF PredOK, IsPred
  <2>2. p1 = [op |-> "NOT", vals |-> p.vals, ps |-> p.ps, text |-> p.text, cols |-> p.cols,
              feat |-> p.feat, err |-> p.err]
    BY <2>1
  <2>3. Not(p) = [p3 EXCEPT !.text = text]
    BY DEF Not
  <2> HIDE DEF p1
  <2>4. p2 = [op |-> "NOT", vals |-> <<>>, ps |-> p.ps, text |-> p.text, cols |-> p.cols,
              feat |-> p.feat, err |-> p.err]
    BY <2>2
  <2> HIDE DEF p2
  <2>5. p3 = [op |-> "NOT", vals |-> <<>>, ps |-> <<p>>, text |-> p.text, cols |-> p.cols,
              feat |-> p.feat, err |-> p.err]
    BY <2>4
  <2> HIDE DEF p3, text
  <2> QED
    BY <2>3, <2>5
<1>2. ASSUME p.text \in Seq(Exprs(F)) PROVE text \in Seq(Exprs(F))
  <2>1. {"NOT", "(", ")"} \subseteq WordsOf(F)
    BY CommonWords DEF Common
  <2>2. <<"NOT", "(">> \in Seq(WordsOf(F)) /\ <<")">> \in Seq(WordsOf(F))
    BY <2>1
  <2>3. Text(<<"NOT", "(">>) \in Exprs(F) /\ Text(<<")">>) \in Exprs(F)
    BY <2>2, PlainExpr
  <2>4. <<Text(<<"NOT", "(">>)>> \in Seq(Exprs(F)) /\ <<Text(<<")">>)>> \in Seq(Exprs(F))
    BY <2>3
  <2> QED
    BY <1>2, <2>4, ConcatProperties
<1> HIDE DEF text
<1> QED
  BY <1>1, <1>2 DEF PredOK, IsPred

\* A predicate rendered, around the text of the subquery it holds.
LEMMA RenderedPred ==
  ASSUME NEW F, NEW p, p.text \in Seq(Exprs(F)), NEW frag, IsFrag(frag, F)
  PROVE  RenderPred(p, frag) \in Exprs(F)
<1> DEFINE inner == [sql |-> frag.sql, args |-> frag.args]
           text == p.text
           f == [i \in DOMAIN text |-> IF text[i] = Sub THEN inner ELSE text[i]]
<1>1. DOMAIN text = 1..Len(text) /\ \A i \in DOMAIN text : text[i] \in Exprs(F)
  BY LenProperties, ElementOfSeq
<1>2. inner \in Exprs(F)
  BY DEF IsFrag
<1>3. RenderPred(p, frag) = Concat(f)
  BY DEF RenderPred
<1>4. text \in Seq(Exprs(F))
  OBVIOUS
<1> HIDE DEF text, inner
<1>5. f \in [DOMAIN text -> Exprs(F)]
  BY <1>1, <1>2
<1> HIDE DEF f
<1>6. f \in Seq(Exprs(F))
  BY <1>4, <1>5, MappedSeq
<1> QED
  BY <1>3, <1>6, ConcatStays

\* Predicates that pass their checks.
LEMMA RenderedPreds ==
  ASSUME NEW d, NEW base \in Seq(Exprs(d.feats)), NEW ps, PredsOK(ps, d.feats), ~AnyBad(ps, d),
         NEW frag, IsFrag(frag, d.feats)
  PROVE  RenderPreds(base, ps, frag) \in Seq(Exprs(d.feats))
<1> DEFINE f == [i \in DOMAIN ps |-> RenderPred(ps[i], frag)]
<1>1. PICK S : PredsFrom(S, ps, d.feats)
  BY DEF PredsOK
<1>2. ps \in Seq(S) /\ \A i \in DOMAIN ps : PredOK(ps[i], d.feats)
  BY <1>1, LenProperties, ElementOfSeq DEF PredsFrom
<1>3. ASSUME NEW i \in DOMAIN ps PROVE RenderPred(ps[i], frag) \in Exprs(d.feats)
  <2>1. ps[i].text \in Seq(Exprs(d.feats))
    BY <1>2 DEF AnyBad, BadPred, PredOK
  <2> QED
    BY <2>1, RenderedPred
<1>4. f \in [DOMAIN ps -> Exprs(d.feats)]
  BY <1>3
<1>5. RenderPreds(base, ps, frag) = base \o f
  BY DEF RenderPreds
<1> HIDE DEF f
<1>6. f \in Seq(Exprs(d.feats))
  BY <1>2, <1>4, MappedSeq
<1> QED
  BY <1>5, <1>6, ConcatProperties

\* Two values, one, none.
LEMMA ValueLists ==
  ASSUME NEW x \in Nat, NEW y \in Nat
  PROVE  <<>> \in Seq(Nat) /\ <<x>> \in Seq(Nat) /\ <<x, y>> \in Seq(Nat)
BY EmptySeq

\* The predicates of the calls.
LEMMA PredsPass ==
  ASSUME used \in Nat, NEW F, NEW sub,
         NEW kind \in {"cmp", "list", "null", "group", "json", "array", "match", "unknown", "sub"},
         NEW p \in Preds(kind, sub)
  PROVE  PredOK(p, F)
<1> DEFINE c == Cmp(Col("a"), V(1))
           e == Cmp(Col("b"), V(2))
<1>1. V(1) \in Nat /\ V(2) \in Nat /\ V(3) \in Nat
  BY DEF V
<1>2. {"=", "IN", "NOT_IN"} \subseteq WordsOf(F)
  BY CommonWords DEF Common
<1>3. <<>> \in Seq(Nat) /\ <<V(1)>> \in Seq(Nat) /\ <<V(1), V(2)>> \in Seq(Nat)
      /\ <<V(2), V(3)>> \in Seq(Nat)
  BY <1>1, ValueLists
<1>a. Col("a").name \in Common
  BY DEF Col, Common
<1>4. ASSUME NEW col, ColumnOK(col), NEW v \in Nat PROVE PredOK(Cmp(col, v), F)
  BY <1>2, <1>3, <1>4, CompareOK DEF Cmp
<1>5. PredOK(c, F) /\ PredOK(e, F)
  BY <1>1, <1>4, ColumnsOK
<1> HIDE DEF c, e
<1>6. CASE kind = "cmp"
  <2>1. p = c
    BY <1>6 DEF Preds, c
  <2> QED
    BY <1>5, <2>1
<1>7. CASE kind = "list"
  <2>1. PICK op \in {"IN", "NOT_IN"}, vs \in {<<>>, <<V(1), V(2)>>} : p = List(op, Col("a"), <<>>, vs, {})
    BY <1>7 DEF Preds
  <2>2. vs \in Seq(Nat) /\ op \in WordsOf(F)
    BY <1>2, <1>3
  <2> QED
    BY <1>3, <2>1, <2>2, ListOK, ColumnsOK
<1>8. CASE kind = "null"
  <2>1. p \in {NullCheck(Col("a")), EqCol(Col("a"))}
    BY <1>8 DEF Preds
  <2> QED
    BY <2>1, NullOK, ColumnsOK
<1>9. CASE kind = "group"
  <2>1. PredOK(Combine("OR", <<c, e>>), F) /\ PredOK(Combine("AND", <<c, e>>), F)
    BY <1>5, PredLists, CombineOK
  <2>2. PredOK(Not(c), F) /\ PredOK(Combine("OR", <<e>>), F) /\ PredOK(Combine("OR", <<>>), F)
    BY <1>5, PredLists, CombineOK, NotOK
  <2>3. PredOK(Combine("AND", <<c, Combine("OR", <<e>>)>>), F)
    BY <1>5, <2>2, PredLists, CombineOK
  <2>4. PredOK(Not(Combine("OR", <<c, e>>)), F)
    BY <2>1, NotOK
  <2>5. PredOK(Combine("OR", <<Combine("AND", <<c, e>>), Not(c)>>), F)
    BY <2>1, <2>2, PredLists, CombineOK
  <2>6. p \in {Combine("OR", <<c, e>>), Combine("AND", <<c, Combine("OR", <<e>>)>>),
               Not(Combine("OR", <<c, e>>)), Combine("OR", <<>>),
               Combine("OR", <<Combine("AND", <<c, e>>), Not(c)>>)}
    BY <1>9 DEF Preds, c, e
  <2> QED
    BY <2>1, <2>2, <2>3, <2>4, <2>5, <2>6
<1>10. CASE kind = "json"
  <2>1. PredOK(Compare("=", Col("a"), <<V(1), V(2)>>, V(3), {}), F)
    BY <1>1, <1>2, <1>3, CompareOK, ColumnsOK
  <2>2. PredOK(List("IN", Col("a"), <<V(1)>>, <<V(2), V(3)>>, {}), F)
    BY <1>2, <1>3, ListOK, ColumnsOK
  <2>3. PredOK(List("IN", Col("a"), <<V(1)>>, <<>>, {}), F)
    BY <1>2, <1>3, ListOK, ColumnsOK
  <2>4. {"JSONB"} \subseteq F => "@>" \in WordsOf(F)
    BY FeatureWords
  <2>5. PredOK(Compare("@>", Col("a"), <<>>, V(1), {"JSONB"}), F)
    BY <1>1, <1>3, <2>4, CompareOK, ColumnsOK
  <2>6. p \in {Compare("=", Col("a"), <<V(1), V(2)>>, V(3), {}),
               List("IN", Col("a"), <<V(1)>>, <<V(2), V(3)>>, {}),
               List("IN", Col("a"), <<V(1)>>, <<>>, {}),
               Compare("@>", Col("a"), <<>>, V(1), {"JSONB"})}
    BY <1>10 DEF Preds
  <2> QED
    BY <2>1, <2>2, <2>3, <2>5, <2>6
<1>11. CASE kind = "array"
  <2>1. ASSUME NEW op \in {"@>ARRAY", "<@ARRAY", "&&ARRAY"}, NEW vs \in {<<>>, <<V(1)>>}
        PROVE  PredOK(List(op, Col("a"), <<>>, vs, {"Array"}), F)
    <3>1. vs \in Seq(Nat)
      BY <1>3
    <3>2. {"Array"} \subseteq F => op \in WordsOf(F)
      BY FeatureWords
    <3> QED
      BY <1>3, <3>1, <3>2, ListOK, ColumnsOK
  <2>2. PredOK(HasElem(Col("a"), V(1)), F)
    BY <1>1, HasElemOK, ColumnsOK
  <2>3. \/ \E op \in {"@>ARRAY", "<@ARRAY", "&&ARRAY"}, vs \in {<<>>, <<V(1)>>} :
             p = List(op, Col("a"), <<>>, vs, {"Array"})
        \/ p = HasElem(Col("a"), V(1))
    BY <1>11 DEF Preds
  <2> QED
    BY <2>1, <2>2, <2>3
<1>12. CASE kind = "match"
  <2>1. {"Match"} \subseteq F => "MATCH" \in WordsOf(F)
    BY FeatureWords
  <2>2. p = Compare("MATCH", Col("a"), <<>>, V(1), {"Match"})
    BY <1>12 DEF Preds
  <2> QED
    BY <1>1, <1>3, <2>1, <2>2, CompareOK, ColumnsOK
<1>13. CASE kind = "unknown"
  <2>1. PredOK(Cmp(Col("zz"), V(1)), F) /\ PredOK(Cmp(Unvalidated("hid"), V(1)), F)
        /\ PredOK(Cmp(Col("zz"), V(2)), F)
    BY <1>1, <1>4, ColumnsOK
  <2>2. PredOK(Not(Combine("OR", <<c, Cmp(Col("zz"), V(2))>>)), F)
    BY <1>5, <2>1, PredLists, CombineOK, NotOK
  <2>3. p \in {Cmp(Col("zz"), V(1)), Cmp(Unvalidated("hid"), V(1)),
               Not(Combine("OR", <<c, Cmp(Col("zz"), V(2))>>))}
    BY <1>13 DEF Preds, c
  <2> QED
    BY <2>1, <2>2, <2>3
<1>14. CASE kind = "sub"
  <2>1. PredOK(InSub("IN_QUERY", Col("a"), sub), F)
    BY <1>a, InSubOK
  <2>2. PredOK(ExistsPred("NOT_EXISTS", sub), F) /\ PredOK(ExistsPred("EXISTS", sub), F)
    BY ExistsOK
  <2>3. PredOK(Not(Combine("OR", <<c, ExistsPred("EXISTS", sub)>>)), F)
    BY <1>5, <2>2, PredLists, CombineOK, NotOK
  <2>4. p \in {InSub("IN_QUERY", Col("a"), sub), ExistsPred("NOT_EXISTS", sub),
               Not(Combine("OR", <<c, ExistsPred("EXISTS", sub)>>))}
    BY <1>14 DEF Preds, c
  <2> QED
    BY <2>1, <2>2, <2>3, <2>4
<1> QED
  BY <1>6, <1>7, <1>8, <1>9, <1>10, <1>11, <1>12, <1>13, <1>14

\* A fragment between words.
LEMMA WithinStays ==
  ASSUME NEW F, NEW ws1 \in Seq(WordsOf(F)), NEW ws2 \in Seq(WordsOf(F)), NEW frag, IsFrag(frag, F)
  PROVE  Within(ws1, frag, ws2) \in Exprs(F) /\ Then(Text(ws1), frag) \in Exprs(F)
<1> DEFINE inner == [sql |-> frag.sql, args |-> frag.args]
<1>1. Then(Text(ws1), frag) = Then(Text(ws1), inner)
  BY DEF Then
<1>2. inner \in Exprs(F)
  BY DEF IsFrag
<1> HIDE DEF inner
<1>3. Text(ws1) \in Exprs(F) /\ Text(ws2) \in Exprs(F)
  BY PlainExpr
<1>4. Then(Text(ws1), frag) \in Exprs(F)
  BY <1>1, <1>2, <1>3, ThenStays
<1> QED
  BY <1>3, <1>4, ThenStays DEF Within

\* The name of a column.
LEMMA NameOK ==
  ASSUME NEW F, NEW col \in {"a", "b", "zz"}
  PROVE  FieldOK(Name(col), F) /\ FieldOK(AggField(col), F)
<1>1. CASE col = "zz"
  <2>1. BadField(Name(col)) /\ BadField(AggField(col))
    BY <1>1 DEF BadField, UnknownIn, Name, AggField, Field, Known
  <2> QED
    BY <2>1 DEF FieldOK
<1>2. CASE col # "zz"
  <2>1. {col, "SUM", "(", ")", "AS", "x"} \subseteq WordsOf(F)
    BY <1>2, CommonWords DEF Common
  <2>2. <<col>> \in Seq(WordsOf(F)) /\ <<"SUM", "(">> \in Seq(WordsOf(F))
        /\ <<")", "AS", "x">> \in Seq(WordsOf(F))
    BY <2>1
  <2>3. <<"SUM", "(">> \o <<col>> \o <<")", "AS", "x">> \in Seq(WordsOf(F))
    BY <2>2, ConcatProperties
  <2>4. Text(<<col>>) \in Exprs(F) /\ Text(<<"SUM", "(">> \o <<col>> \o <<")", "AS", "x">>) \in Exprs(F)
    BY <2>2, <2>3, PlainExpr
  <2>5. ASSUME NEW frag
        PROVE  /\ RenderField(Name(col), frag) = Text(<<col>>)
               /\ RenderField(AggField(col), frag) = Text(<<"SUM", "(">> \o <<col>> \o <<")", "AS", "x">>)
    BY DEF RenderField, Name, AggField, Field
  <2> QED
    BY <2>4, <2>5 DEF FieldOK
<1> QED
  BY <1>1, <1>2

\* The number of a row.
LEMMA WindowOK ==
  ASSUME NEW F, NEW p \in {"a"}, NEW o \in {"b", "zz"}
  PROVE  FieldOK(WindowField(p, o), F)
<1> DEFINE cols == <<p, o>>
<1>1. cols[1] = p /\ cols[2] = o /\ DOMAIN cols = {1, 2}
  OBVIOUS
<1>2. WindowField(p, o).kind = "window" /\ WindowField(p, o).cols = cols
  BY DEF WindowField, Field
<1> HIDE DEF cols
<1>3. CASE o = "zz"
  <2>1. BadField(WindowField(p, o))
    BY <1>1, <1>2, <1>3 DEF BadField, UnknownIn, Known
  <2> QED
    BY <2>1 DEF FieldOK
<1>4. CASE o = "b"
  <2> DEFINE ws1 == <<"ROW_NUMBER", "OVER", "(", "PARTITION_BY", p>>
             ws2 == <<"ORDER_BY", o, "ASC", ")", "AS", "x">>
  <2>1. {"ROW_NUMBER", "OVER", "(", "PARTITION_BY", "a", "b", "ORDER_BY", "ASC", ")", "AS", "x"}
          \subseteq WordsOf(F)
    BY CommonWords DEF Common
  <2>2. ws1 \in Seq(WordsOf(F)) /\ ws2 \in Seq(WordsOf(F))
    BY <1>4, <2>1
  <2>3. ASSUME NEW frag PROVE RenderField(WindowField(p, o), frag) = Text(ws1 \o ws2)
    BY <1>1, <1>2 DEF RenderField
  <2> HIDE DEF ws1, ws2
  <2>4. ws1 \o ws2 \in Seq(WordsOf(F))
    BY <2>2, ConcatProperties
  <2> QED
    BY <2>3, <2>4, PlainExpr DEF FieldOK
<1> QED
  BY <1>3, <1>4

\* A field that holds a subquery.
LEMMA SubFieldOK ==
  ASSUME NEW F, NEW sub
  PROVE  FieldOK(ScalarSubquery(sub), F) /\ FieldOK(ExistsField(sub), F)
<1>1. {"(", ")", "AS", "x", "CASE", "EXISTS", "END"} \subseteq WordsOf(F)
  BY CommonWords DEF Common
<1>2. <<"(">> \in Seq(WordsOf(F)) /\ <<")", "AS", "x">> \in Seq(WordsOf(F))
      /\ <<"CASE", "EXISTS", "(">> \in Seq(WordsOf(F)) /\ <<")", "END", "AS", "x">> \in Seq(WordsOf(F))
  BY <1>1
<1>3. ASSUME NEW frag
      PROVE  /\ RenderField(ScalarSubquery(sub), frag) = Within(<<"(">>, frag, <<")", "AS", "x">>)
             /\ RenderField(ExistsField(sub), frag)
                  = Within(<<"CASE", "EXISTS", "(">>, frag, <<")", "END", "AS", "x">>)
  BY DEF RenderField, ScalarSubquery, ExistsField, Field
<1>4. ASSUME NEW frag, IsFrag(frag, F)
      PROVE  /\ Within(<<"(">>, frag, <<")", "AS", "x">>) \in Exprs(F)
             /\ Within(<<"CASE", "EXISTS", "(">>, frag, <<")", "END", "AS", "x">>) \in Exprs(F)
  BY <1>2, <1>4, WithinStays
<1> QED
  BY <1>3, <1>4 DEF FieldOK

\* Several fields; several terms.
FieldsFrom(S, fs, F) == fs \in Seq(S) /\ \A f \in S : FieldOK(f, F)
FieldsOK(fs, F) == \E S : FieldsFrom(S, fs, F)
TermsFrom(S, ts, F) == ts \in Seq(S) /\ \A t \in S : TermOK(t, F)
TermsOK(ts, F) == \E S : TermsFrom(S, ts, F)

\* No fields, and one more.
LEMMA FieldMore ==
  ASSUME NEW F
  PROVE  /\ FieldsOK(<<>>, F)
         /\ \A fs, f : FieldsOK(fs, F) /\ FieldOK(f, F) => FieldsOK(Append(fs, f), F)
<1>1. FieldsFrom({}, <<>>, F)
  BY EmptySeq DEF FieldsFrom
<1>2. ASSUME NEW fs, NEW f, FieldsOK(fs, F), FieldOK(f, F) PROVE FieldsOK(Append(fs, f), F)
  <2>1. PICK S : FieldsFrom(S, fs, F)
    BY <1>2 DEF FieldsOK
  <2>2. fs \in Seq(S \cup {f})
    BY <2>1, SeqMonotonic DEF FieldsFrom
  <2>3. FieldsFrom(S \cup {f}, Append(fs, f), F)
    BY <1>2, <2>1, <2>2, AppendProperties DEF FieldsFrom
  <2> QED
    BY <2>3 DEF FieldsOK
<1> QED
  BY <1>1, <1>2 DEF FieldsOK

\* No terms, and one more.
LEMMA TermMore ==
  ASSUME NEW F
  PROVE  /\ TermsOK(<<>>, F)
         /\ \A ts, t : TermsOK(ts, F) /\ TermOK(t, F) => TermsOK(Append(ts, t), F)
<1>1. TermsFrom({}, <<>>, F)
  BY EmptySeq DEF TermsFrom
<1>2. ASSUME NEW ts, NEW t, TermsOK(ts, F), TermOK(t, F) PROVE TermsOK(Append(ts, t), F)
  <2>1. PICK S : TermsFrom(S, ts, F)
    BY <1>2 DEF TermsOK
  <2>2. ts \in Seq(S \cup {t})
    BY <2>1, SeqMonotonic DEF TermsFrom
  <2>3. TermsFrom(S \cup {t}, Append(ts, t), F)
    BY <1>2, <2>1, <2>2, AppendProperties DEF TermsFrom
  <2> QED
    BY <2>3 DEF TermsOK
<1> QED
  BY <1>1, <1>2 DEF TermsOK

\* Fields that pass their checks, rendered.
LEMMA FieldTexts ==
  ASSUME NEW F, NEW fs, FieldsOK(fs, F), \A i \in DOMAIN fs : ~BadField(fs[i]),
         NEW frag, IsFrag(frag, F)
  PROVE  [i \in DOMAIN fs |-> RenderField(fs[i], frag)] \in Seq(Exprs(F))
<1>1. PICK S : FieldsFrom(S, fs, F)
  BY DEF FieldsOK
<1>2. fs \in Seq(S) /\ \A i \in DOMAIN fs : FieldOK(fs[i], F)
  BY <1>1, LenProperties, ElementOfSeq DEF FieldsFrom
<1>3. \A i \in DOMAIN fs : RenderField(fs[i], frag) \in Exprs(F)
  BY <1>2 DEF FieldOK
<1> DEFINE f == [i \in DOMAIN fs |-> RenderField(fs[i], frag)]
<1>4. f \in [DOMAIN fs -> Exprs(F)]
  BY <1>3
<1> HIDE DEF f
<1>5. f \in Seq(Exprs(F))
  BY <1>2, <1>4, MappedSeq
<1> QED
  BY <1>5 DEF f

\* Those of a clause carry no values.
LEMMA ClauseTexts ==
  ASSUME NEW F, NEW fs, FieldsOK(fs, F), NEW frag, IsFrag(frag, F),
         \A i \in DOMAIN fs : ~BadClauseField(fs[i], frag)
  PROVE  /\ [i \in DOMAIN fs |-> RenderField(fs[i], frag).sql] \in Terms(F)
         /\ [i \in DOMAIN fs |-> RenderField(fs[i], frag).sql] # <<>> => fs # <<>>
<1>1. PICK S : FieldsFrom(S, fs, F)
  BY DEF FieldsOK
<1>2. fs \in Seq(S) /\ \A i \in DOMAIN fs : FieldOK(fs[i], F)
  BY <1>1, LenProperties, ElementOfSeq DEF FieldsFrom
<1>3. ASSUME NEW i \in DOMAIN fs PROVE RenderField(fs[i], frag).sql \in Seq(Plain(F))
  <2>1. RenderField(fs[i], frag) \in Exprs(F) /\ RenderField(fs[i], frag).args = <<>>
    BY <1>2 DEF FieldOK, BadClauseField
  <2> QED
    BY <2>1, BareExpr
<1> DEFINE f == [i \in DOMAIN fs |-> RenderField(fs[i], frag).sql]
<1>4. f \in [DOMAIN fs -> Seq(Plain(F))]
  BY <1>3
<1>5. fs = <<>> => f = <<>>
  OBVIOUS
<1> HIDE DEF f
<1>6. f \in Seq(Seq(Plain(F)))
  BY <1>2, <1>4, MappedSeq
<1> QED
  BY <1>5, <1>6 DEF f, Terms

\* Terms that pass theirs.
LEMMA TermTexts ==
  ASSUME NEW F, NEW ts, TermsOK(ts, F), \A i \in DOMAIN ts : ~BadTerm(ts[i])
  PROVE  [i \in DOMAIN ts |-> RenderTerm(ts[i])] \in Terms(F)
<1>1. PICK S : TermsFrom(S, ts, F)
  BY DEF TermsOK
<1>2. ts \in Seq(S) /\ \A i \in DOMAIN ts : TermOK(ts[i], F)
  BY <1>1, LenProperties, ElementOfSeq DEF TermsFrom
<1>3. \A i \in DOMAIN ts : RenderTerm(ts[i]) \in Seq(Plain(F))
  BY <1>2 DEF TermOK
<1> DEFINE f == [i \in DOMAIN ts |-> RenderTerm(ts[i])]
<1>4. f \in [DOMAIN ts -> Seq(Plain(F))]
  BY <1>3
<1> HIDE DEF f
<1>5. f \in Seq(Seq(Plain(F)))
  BY <1>2, <1>4, MappedSeq
<1> QED
  BY <1>5 DEF f, Terms

\* The terms of the calls.
LEMMA TermPasses ==
  ASSUME NEW F,
         NEW t \in {[name |-> "a", raw |-> FALSE, unvalidated |-> FALSE],
                    [name |-> "zz", raw |-> FALSE, unvalidated |-> FALSE],
                    [name |-> "hid", raw |-> FALSE, unvalidated |-> TRUE],
                    [name |-> "random()", raw |-> TRUE, unvalidated |-> FALSE]}
  PROVE  TermOK(t, F)
<1>1. CASE t.name = "zz"
  BY <1>1 DEF TermOK, BadTerm, Known
<1>2. CASE t.name # "zz"
  <2>1. {t.name, "ASC"} \subseteq WordsOf(F)
    BY <1>2, CommonWords DEF Common
  <2>2. <<t.name>> \in Seq(WordsOf(F)) /\ <<t.name, "ASC">> \in Seq(WordsOf(F))
    BY <2>1
  <2> QED
    BY <2>2, WordsPlain DEF TermOK, RenderTerm
<1> QED
  BY <1>1, <1>2

(***************************************************************************)
(* What a call does to a select.                                           *)
(***************************************************************************)
\* One clause of s changed, it is still in S.
Edits(s, S, F) ==
  /\ \A e \in Seq(Exprs(F)) : /\ [s EXCEPT !.where = e] \in S
                              /\ [s EXCEPT !.having = e] \in S
                              /\ [s EXCEPT !.joins = e] \in S
                              /\ [s EXCEPT !.exprs = e] \in S
  /\ \A ts \in Terms(F) : /\ [s EXCEPT !.projection = ts] \in S
                          /\ [s EXCEPT !.groupBy = ts] \in S
                          /\ [s EXCEPT !.orderBy = ts] \in S
                          /\ (ts # <<>> => "DistinctOn" \in F) => [s EXCEPT !.distinctOn = ts] \in S
  /\ \A cs \in Columns : [s EXCEPT !.columns = cs] \in S
  /\ \A t \in Names : [s EXCEPT !.table = t] \in S /\ [s EXCEPT !.alias = t] \in S
  /\ \A x \in BOOLEAN : /\ [s EXCEPT !.distinct = x] \in S
                        /\ [s EXCEPT !.hasLimit = x] \in S
                        /\ [s EXCEPT !.hasOffset = x] \in S
  /\ \A l \in Locks : (l # NoLock => "RowLocking" \in F) => [s EXCEPT !.lock = l] \in S

\* Every clause can be changed for one of its kind.
LEMMA Edited ==
  ASSUME NEW F, NEW withs, NEW froms, NEW unions, NEW s \in Shapes(F, withs, froms, unions)
  PROVE  /\ Edits(s, Shapes(F, withs, froms, unions), F)
         /\ \A x \in withs : [s EXCEPT !.with = x] \in Shapes(F, withs, froms, unions)
         /\ \A x \in froms : [s EXCEPT !.from = x] \in Shapes(F, withs, froms, unions)
         /\ \A x \in unions : [s EXCEPT !.union = x] \in Shapes(F, withs, froms, unions)
<1> DEFINE R == [with : withs, table : Names, from : froms, alias : Names, columns : Columns,
                 projection : Terms(F), exprs : Seq(Exprs(F)), distinct : BOOLEAN,
                 distinctOn : Terms(F), joins : Seq(Exprs(F)), where : Seq(Exprs(F)),
                 groupBy : Terms(F), having : Seq(Exprs(F)), orderBy : Terms(F),
                 hasLimit : BOOLEAN, hasOffset : BOOLEAN, union : unions, lock : Locks]
<1>1. s \in R /\ (s.lock # NoLock => "RowLocking" \in F) /\ (s.distinctOn # <<>> => "DistinctOn" \in F)
  BY DEF Shapes
<1>2. ASSUME NEW t \in R, t.lock # NoLock => "RowLocking" \in F,
             t.distinctOn # <<>> => "DistinctOn" \in F
      PROVE  t \in Shapes(F, withs, froms, unions)
  BY <1>2 DEF Shapes
<1>3. \A e \in Seq(Exprs(F)) : [s EXCEPT !.where = e] \in Shapes(F, withs, froms, unions)
  BY <1>1, <1>2
<1>4. \A e \in Seq(Exprs(F)) : [s EXCEPT !.having = e] \in Shapes(F, withs, froms, unions)
  BY <1>1, <1>2
<1>5. \A e \in Seq(Exprs(F)) : [s EXCEPT !.joins = e] \in Shapes(F, withs, froms, unions)
  BY <1>1, <1>2
<1>6. \A e \in Seq(Exprs(F)) : [s EXCEPT !.exprs = e] \in Shapes(F, withs, froms, unions)
  BY <1>1, <1>2
<1>7. \A ts \in Terms(F) : [s EXCEPT !.projection = ts] \in Shapes(F, withs, froms, unions)
  BY <1>1, <1>2
<1>8. \A ts \in Terms(F) : [s EXCEPT !.groupBy = ts] \in Shapes(F, withs, froms, unions)
  BY <1>1, <1>2
<1>9. \A ts \in Terms(F) : [s EXCEPT !.orderBy = ts] \in Shapes(F, withs, froms, unions)
  BY <1>1, <1>2
<1>10. \A ts \in Terms(F) : (ts # <<>> => "DistinctOn" \in F) =>
         [s EXCEPT !.distinctOn = ts] \in Shapes(F, withs, froms, unions)
  BY <1>1, <1>2
<1>11. \A cs \in Columns : [s EXCEPT !.columns = cs] \in Shapes(F, withs, froms, unions)
  BY <1>1, <1>2
<1>12. \A t \in Names : [s EXCEPT !.table = t] \in Shapes(F, withs, froms, unions)
  BY <1>1, <1>2
<1>13. \A t \in Names : [s EXCEPT !.alias = t] \in Shapes(F, withs, froms, unions)
  BY <1>1, <1>2
<1>14. \A x \in BOOLEAN : [s EXCEPT !.distinct = x] \in Shapes(F, withs, froms, unions)
  BY <1>1, <1>2
<1>15. \A x \in BOOLEAN : [s EXCEPT !.hasLimit = x] \in Shapes(F, withs, froms, unions)
  BY <1>1, <1>2
<1>16. \A x \in BOOLEAN : [s EXCEPT !.hasOffset = x] \in Shapes(F, withs, froms, unions)
  BY <1>1, <1>2
<1>17. \A l \in Locks : (l # NoLock => "RowLocking" \in F) =>
         [s EXCEPT !.lock = l] \in Shapes(F, withs, froms, unions)
  BY <1>1, <1>2
<1>18. \A x \in withs : [s EXCEPT !.with = x] \in Shapes(F, withs, froms, unions)
  BY <1>1, <1>2
<1>19. \A x \in froms : [s EXCEPT !.from = x] \in Shapes(F, withs, froms, unions)
  BY <1>1, <1>2
<1>20. \A x \in unions : [s EXCEPT !.union = x] \in Shapes(F, withs, froms, unions)
  BY <1>1, <1>2
<1> QED
  BY <1>3, <1>4, <1>5, <1>6, <1>7, <1>8, <1>9, <1>10, <1>11, <1>12, <1>13, <1>14, <1>15, <1>16,
     <1>17, <1>18, <1>19, <1>20 DEF Edits

\* What a builder may hold: inner holds no other, outer holds inner's.
Holds(x, F) == IF x = "outer" THEN Selects(F) ELSE Flats(F)

\* Also in what a builder holds.
LEMMA HeldEdits ==
  ASSUME NEW F, NEW x \in {"outer", "inner"}, NEW s \in Holds(x, F)
  PROVE  Edits(s, Holds(x, F), F) /\ [s EXCEPT !.from = <<>>] \in Holds(x, F)
<1>1. CASE x = "outer"
  <2>1. Holds(x, F) = Shapes(F, Withs(F), Froms(F), Unions(F)) /\ <<>> \in Froms(F)
    BY <1>1 DEF Holds, Selects, Froms
  <2> QED
    BY <2>1, Edited
<1>2. CASE x = "inner"
  <2>1. Holds(x, F) = Shapes(F, {<<>>}, {<<>>}, {<<>>}) /\ <<>> \in {<<>>}
    BY <1>2 DEF Holds, Flats
  <2> QED
    BY <2>1, Edited
<1> QED
  BY <1>1, <1>2

\* A builder: its predicates, fields and terms would pass or are refused, and
\* once the features it asks for are there, so are those of its select.
BuilderOK(x, sels, F) ==
  /\ x = [sel |-> x.sel, preds |-> x.preds, order |-> x.order, group |-> x.group,
          distinctOn |-> x.distinctOn, feat |-> x.feat, err |-> x.err]
  /\ PredsOK(x.preds, F) /\ TermsOK(x.order, F) /\ FieldsOK(x.group, F)
  /\ FieldsOK(x.distinctOn, F)
  /\ x.distinctOn # <<>> => "DistinctOn" \in x.feat
  /\ x.feat \cap Gated \subseteq F => x.sel \in sels

\* The select of a builder that passes its checks.
LEMMA ResolvedStays ==
  ASSUME NEW d, NEW withs, NEW froms, NEW unions, NEW x,
         BuilderOK(x, Shapes(d.feats, withs, froms, unions), d.feats),
         NEW frag, IsFrag(frag, d.feats), ~Resolved(x, d, frag).err
  PROVE  Resolved(x, d, frag).sel \in Shapes(d.feats, withs, froms, unions)
<1> DEFINE S == Shapes(d.feats, withs, froms, unions)
           where == RenderPreds(x.sel.where, x.preds, frag)
           distinctOn == [i \in DOMAIN x.distinctOn |-> RenderField(x.distinctOn[i], frag).sql]
           groupBy == [i \in DOMAIN x.group |-> RenderField(x.group[i], frag).sql]
           orderBy == [i \in DOMAIN x.order |-> RenderTerm(x.order[i])]
           s1 == [x.sel EXCEPT !.where = where]
           s2 == [s1 EXCEPT !.distinctOn = distinctOn]
           s3 == [s2 EXCEPT !.groupBy = groupBy]
           s4 == [s3 EXCEPT !.orderBy = orderBy]
           failed == \/ x.err
                     \/ GateFails(x.feat, d)
                     \/ AnyBad(x.preds, d)
                     \/ \E i \in DOMAIN x.distinctOn : BadClauseField(x.distinctOn[i], frag)
                     \/ \E i \in DOMAIN x.group : BadClauseField(x.group[i], frag)
                     \/ \E i \in DOMAIN x.order : BadTerm(x.order[i])
<1>1. Resolved(x, d, frag).err = failed
      /\ Resolved(x, d, frag).sel = IF failed THEN x.sel ELSE s4
  BY DEF Resolved
<1>2. ~failed
  BY <1>1
<1>3. Resolved(x, d, frag).sel = s4
  BY <1>1, <1>2
<1>4. x.feat \cap Gated \subseteq d.feats /\ x.sel \in S
  BY <1>2 DEF GateFails, BuilderOK
<1>5. where \in Seq(Exprs(d.feats))
  <2>1. x.sel.where \in Seq(Exprs(d.feats))
    BY <1>4, ShapeFields
  <2>2. PredsOK(x.preds, d.feats) /\ ~AnyBad(x.preds, d)
    BY <1>2 DEF BuilderOK
  <2> QED
    BY <2>1, <2>2, RenderedPreds
<1>6. distinctOn \in Terms(d.feats) /\ (distinctOn # <<>> => x.distinctOn # <<>>)
  <2>1. FieldsOK(x.distinctOn, d.feats)
        /\ \A i \in DOMAIN x.distinctOn : ~BadClauseField(x.distinctOn[i], frag)
    BY <1>2 DEF BuilderOK
  <2> QED
    BY <2>1, ClauseTexts
<1>7. groupBy \in Terms(d.feats)
  <2>1. FieldsOK(x.group, d.feats) /\ \A i \in DOMAIN x.group : ~BadClauseField(x.group[i], frag)
    BY <1>2 DEF BuilderOK
  <2> QED
    BY <2>1, ClauseTexts
<1>8. orderBy \in Terms(d.feats)
  <2>1. TermsOK(x.order, d.feats) /\ \A i \in DOMAIN x.order : ~BadTerm(x.order[i])
    BY <1>2 DEF BuilderOK
  <2> QED
    BY <2>1, TermTexts
<1>9. distinctOn # <<>> => "DistinctOn" \in d.feats
  BY <1>4, <1>6 DEF BuilderOK, Gated
<1> HIDE DEF failed, where, distinctOn, groupBy, orderBy
<1>10. s1 \in S
  BY <1>4, <1>5, Edited DEF Edits
<1> HIDE DEF s1
<1>11. s2 \in S
  BY <1>6, <1>9, <1>10, Edited DEF Edits
<1> HIDE DEF s2
<1>12. s3 \in S
  BY <1>7, <1>11, Edited DEF Edits
<1> HIDE DEF s3
<1>13. s4 \in S
  BY <1>8, <1>12, Edited DEF Edits
<1> QED
  BY <1>3, <1>13

\* No fragment is one, and so is the text of a builder that is placed in another.
LEMMA FragmentStays ==
  ASSUME NEW d, d = [name |-> d.name, feats |-> d.feats, qmark |-> d.qmark],
         NEW x, BuilderOK(x, Flats(d.feats), d.feats), NEW frag, IsFrag(frag, d.feats)
  PROVE  IsFrag(Failed, d.feats) /\ IsFrag(Fragment(x, d, frag), d.feats)
<1> DEFINE r == Resolved(x, d, frag)
           q == QmarkDialect(d)
<1>1. q.feats = d.feats /\ q.qmark = TRUE /\ IsDialect(q)
  BY DEF QmarkDialect, IsDialect
<1> HIDE DEF q
<1>2. \A st : Statement(st, q) => IsFrag(st, d.feats)
  BY <1>1 DEF Statement, IsFrag, Exprs
<1>3. IsFrag(Failed, d.feats)
  BY <1>2, FailedStatement
<1>4. CASE r.err
  BY <1>3, <1>4 DEF Fragment
<1>5. CASE ~r.err
  <2>1. r.sel \in Flats(d.feats)
    BY <1>5, ResolvedStays DEF Flats
  <2>2. r.sel \in Selects(q.feats)
    BY <1>1, <2>1, FlatSelects
  <2>3. Fragment(x, d, frag) = BuildSelect(r.sel, q)
    BY <1>5 DEF Fragment, q
  <2> HIDE DEF r
  <2>4. Statement(BuildSelect(r.sel, q), q)
    BY <1>1, <2>2, SelectBuilt
  <2>5. IsFrag(BuildSelect(r.sel, q), d.feats)
    BY <1>2, <2>4
  <2> QED
    BY <1>3, <2>3, <2>5
<1> QED
  BY <1>3, <1>4, <1>5

\* The dialects.
LEMMA DialectFacts ==
  ASSUME NEW name \in DOMAIN Features
  PROVE  /\ Dialect(name) = [name |-> name, feats |-> Features[name], qmark |-> FALSE]
         /\ Dialect(name).feats = Features[name] /\ Dialect(name).qmark = FALSE
         /\ IsDialect(Dialect(name))
         /\ Dialect(name) = [name |-> Dialect(name).name, feats |-> Dialect(name).feats,
                             qmark |-> Dialect(name).qmark]
         /\ Engine(Dialect(name).feats)
<1>1. Dialect(name) = [name |-> name, feats |-> Features[name], qmark |-> FALSE]
  BY DEF Dialect
<1>2. Engine(Features[name])
  <2>1. /\ "InsertOnConflict" \in Features["sqlite"] /\ "Merge" \notin Features["sqlite"]
        /\ "InsertOnConflict" \in Features["postgres"] /\ "Merge" \notin Features["postgres"]
    BY DEF Features
  <2>2. /\ "OnDuplicateKey" \in Features["mysql"] /\ "Merge" \notin Features["mysql"]
        /\ "Merge" \in Features["mssql"] /\ "Output" \in Features["mssql"]
    BY DEF Features
  <2>3. name \in {"sqlite", "postgres", "mysql", "mssql"}
    BY DEF Features
  <2> QED
    BY <2>1, <2>2, <2>3 DEF Engine
<1> QED
  BY <1>1, <1>2 DEF IsDialect

(***************************************************************************)
(* The invariant.                                                          *)
(***************************************************************************)
\* The assignments collected for an UPDATE: to a column that is refused, or well formed.
SetsFrom(S, set, F) == set \in Seq(S) /\ \A s \in S : s.column \in Known => s \in Sets(F)
SetsOK(set, F) == \E S : SetsFrom(S, set, F)

WriteOK(x, F) ==
  /\ x = [set |-> x.set, from |-> x.from, where |-> x.where, preds |-> x.preds, feat |-> x.feat,
          rows |-> x.rows]
  /\ SetsOK(x.set, F) /\ x.from \in {<<>>} \cup {<<e>> : e \in Exprs(F)}
  /\ x.from # <<>> => "UpdateFrom" \in x.feat
  /\ x.where \in Seq(Exprs(F)) /\ PredsOK(x.preds, F) /\ x.rows \in Seq(Seq(Nat))

IInv ==
  /\ dialect \in DOMAIN Features
  /\ used \in Nat
  /\ b = [x \in {"outer", "inner"} |-> b[x]]
  /\ \A x \in {"outer", "inner"} : BuilderOK(b[x], Holds(x, D.feats), D.feats)
  /\ WriteOK(w, D.feats)
  /\ Statement(sent, D)

\* The dialect of the connection.
LEMMA Connection ==
  ASSUME IInv
  PROVE  /\ IsDialect(D) /\ D.qmark = FALSE /\ Engine(D.feats)
         /\ D = [name |-> D.name, feats |-> D.feats, qmark |-> D.qmark]
BY DialectFacts DEF IInv, D

\* A select as it begins.
LEMMA NewSelectOK ==
  ASSUME NEW F
  PROVE  /\ NewSelect \in Flats(F)
         /\ \A t \in {"t", "q"} : ColumnsOf(t) \in Columns
<1>1. ASSUME NEW t \in {"t", "q"} PROVE ColumnsOf(t) \in Columns
  <2> DEFINE C == [table : {"t", "q"}, name : {"a", "b"}]
             c1 == [table |-> t, name |-> "a"]
             c2 == [table |-> t, name |-> "b"]
  <2>1. c1 \in C /\ c2 \in C
    OBVIOUS
  <2> HIDE DEF c1, c2, C
  <2>2. <<c1, c2>> \in Seq(C)
    BY <2>1
  <2> QED
    BY <2>2 DEF ColumnsOf, Columns, C, c1, c2
<1>2. NoLock \in Locks
  BY DEF NoLock, Locks
<1>3. <<>> \in Terms(F) /\ <<>> \in Seq(Exprs(F))
  BY EmptySeq DEF Terms
<1> DEFINE columns == ColumnsOf("t")
<1>4. columns \in Columns
  BY <1>1
<1>5. NewSelect = [with |-> <<>>, table |-> "t", from |-> <<>>, alias |-> "none",
              columns |-> columns, projection |-> <<>>, exprs |-> <<>>,
              distinct |-> FALSE, distinctOn |-> <<>>, joins |-> <<>>, where |-> <<>>,
              groupBy |-> <<>>, having |-> <<>>, orderBy |-> <<>>, hasLimit |-> FALSE,
              hasOffset |-> FALSE, union |-> <<>>, lock |-> NoLock]
  BY DEF NewSelect
<1> HIDE DEF columns
<1>6. NewSelect \in Flats(F)
  BY <1>2, <1>3, <1>4, <1>5 DEF Flats, Shapes, Names
<1> QED
  BY <1>1, <1>6

\* A builder as it begins.
LEMMA NewBuilderOK ==
  ASSUME NEW F, NEW x \in {"outer", "inner"}
  PROVE  BuilderOK(NewBuilder, Holds(x, F), F)
<1>1. NewSelect \in Holds(x, F)
  BY NewSelectOK, FlatSelects DEF Holds
<1>2. PredsOK(<<>>, F) /\ TermsOK(<<>>, F) /\ FieldsOK(<<>>, F)
  BY PredLists, TermMore, FieldMore
<1> QED
  BY <1>1, <1>2 DEF BuilderOK, NewBuilder

\* Nothing is sent.
LEMMA UnsentOK ==
  ASSUME NEW d
  PROVE  Statement(Unsent, d)
<1>1. Statement(Failed, d)
  BY FailedStatement
<1> QED
  BY <1>1 DEF Statement, Failed, Unsent

\* The first state.
LEMMA Initially == Init => IInv
<1> SUFFICES ASSUME Init PROVE IInv
  OBVIOUS
<1>1. dialect \in DOMAIN Features
  BY QueryAssumption DEF Init
<1>2. used \in Nat
  BY DEF Init
<1>3. b = [x \in {"outer", "inner"} |-> NewBuilder]
  BY DEF Init
<1>4. b = [x \in {"outer", "inner"} |-> b[x]]
      /\ \A x \in {"outer", "inner"} : BuilderOK(b[x], Holds(x, D.feats), D.feats)
  BY <1>3, NewBuilderOK
<1>5. WriteOK(w, D.feats)
  <2> DEFINE F == D.feats
  <2>1. w = [set |-> <<>>, from |-> <<>>, where |-> <<>>, preds |-> <<>>, feat |-> {}, rows |-> <<>>]
    BY DEF Init, NewWrite
  <2>2. SetsFrom({}, <<>>, F)
    BY EmptySeq DEF SetsFrom
  <2>3. SetsOK(<<>>, F)
    BY <2>2 DEF SetsOK
  <2>4. PredsOK(<<>>, F) /\ <<>> \in Seq(Exprs(F)) /\ <<>> \in Seq(Seq(Nat))
    BY PredLists, EmptySeq
  <2> HIDE DEF F
  <2>5. WriteOK(w, F)
    BY <2>1, <2>3, <2>4 DEF WriteOK
  <2> QED
    BY <2>5 DEF F
<1>6. Statement(sent, D)
  BY UnsentOK DEF Init
<1> QED
  BY <1>1, <1>2, <1>4, <1>5, <1>6 DEF IInv

(***************************************************************************)
(* Calls.                                                                  *)
(***************************************************************************)
\* A call that leaves a well-formed builder.
LEMMA BuilderStep ==
  ASSUME IInv, NEW x \in {"outer", "inner"}, NEW m, NEW k \in Nat, NEW new,
         BuilderOK(new, Holds(x, D.feats), D.feats), Builder(x, m, k, new)
  PROVE  IInv'
<1>1. /\ dialect' = dialect /\ used' = used + k /\ sent' = sent /\ w' = w
      /\ b' = [b EXCEPT ![x] = new]
  BY DEF Builder, Call
<1>2. D' = D
  BY <1>1 DEF D
<1>3. dialect \in DOMAIN Features /\ used \in Nat /\ b = [y \in {"outer", "inner"} |-> b[y]]
      /\ WriteOK(w, D.feats) /\ Statement(sent, D)
      /\ \A y \in {"outer", "inner"} : BuilderOK(b[y], Holds(y, D.feats), D.feats)
  BY DEF IInv
<1>4. b' = [y \in {"outer", "inner"} |-> IF y = x THEN new ELSE b[y]]
  BY <1>1, <1>3
<1>5. b' = [y \in {"outer", "inner"} |-> b'[y]]
      /\ \A y \in {"outer", "inner"} : BuilderOK(b'[y], Holds(y, D.feats), D.feats)
  BY <1>3, <1>4
<1>6. used' \in Nat
  BY <1>1, <1>3
<1>7. /\ dialect' \in DOMAIN Features
      /\ WriteOK(w', D'.feats) /\ Statement(sent', D')
      /\ \A y \in {"outer", "inner"} : BuilderOK(b'[y], Holds(y, D'.feats), D'.feats)
  BY <1>1, <1>2, <1>3, <1>5
<1> QED
  BY <1>5, <1>6, <1>7 DEF IInv

\* One that changes the select only.
LEMMA SelStep ==
  ASSUME IInv, NEW x \in {"outer", "inner"}, NEW m, NEW k \in Nat, NEW sel,
         b[x].feat \cap Gated \subseteq D.feats => sel \in Holds(x, D.feats), Sel(x, m, k, sel)
  PROVE  IInv'
<1> DEFINE new == [b[x] EXCEPT !.sel = sel]
<1>1. BuilderOK(b[x], Holds(x, D.feats), D.feats)
  BY DEF IInv
<1>2. new = [sel |-> sel, preds |-> b[x].preds, order |-> b[x].order, group |-> b[x].group,
             distinctOn |-> b[x].distinctOn, feat |-> b[x].feat, err |-> b[x].err]
  BY <1>1 DEF BuilderOK
<1>3. Builder(x, m, k, new)
  BY DEF Sel
<1> HIDE DEF new
<1>4. BuilderOK(new, Holds(x, D.feats), D.feats)
  BY <1>1, <1>2 DEF BuilderOK
<1> QED
  BY <1>3, <1>4, BuilderStep

\* A call on an update, a delete or the rows of an insert.
LEMMA WriteStep ==
  ASSUME IInv, NEW m, NEW k \in Nat, NEW new, WriteOK(new, D.feats), Write(m, k, new)
  PROVE  IInv'
<1>1. /\ dialect' = dialect /\ used' = used + k /\ sent' = sent /\ w' = new /\ b' = b
  BY DEF Write, Call
<1>2. D' = D
  BY <1>1 DEF D
<1>3. used' \in Nat
  BY <1>1 DEF IInv
<1>4. /\ dialect' \in DOMAIN Features /\ b' = [y \in {"outer", "inner"} |-> b'[y]]
      /\ Statement(sent', D') /\ WriteOK(w', D'.feats)
      /\ \A y \in {"outer", "inner"} : BuilderOK(b'[y], Holds(y, D'.feats), D'.feats)
  BY <1>1, <1>2 DEF IInv
<1> QED
  BY <1>3, <1>4 DEF IInv

\* A terminal that sends a statement, and may leave its mark on a builder.
LEMMA TerminalStep ==
  ASSUME IInv, NEW by, NEW st, Statement(st, D), Terminal(by, st),
         b' = [y \in {"outer", "inner"} |-> b'[y]],
         \A y \in {"outer", "inner"} : BuilderOK(b'[y], Holds(y, D.feats), D.feats)
  PROVE  IInv'
<1>1. /\ dialect' = dialect /\ used' = used /\ w' = w
      /\ sent' = [err |-> st.err, sql |-> st.sql, args |-> st.args, by |-> by]
  BY DEF Terminal
<1>2. D' = D
  BY <1>1 DEF D
<1>3. Statement(sent', D)
  BY <1>1 DEF Statement
<1>4. /\ dialect' \in DOMAIN Features /\ used' \in Nat
      /\ Statement(sent', D') /\ WriteOK(w', D'.feats)
      /\ \A y \in {"outer", "inner"} : BuilderOK(b'[y], Holds(y, D'.feats), D'.feats)
  BY <1>1, <1>2, <1>3 DEF IInv
<1> QED
  BY <1>4 DEF IInv

\* A change that asks for no feature less.
LEMMA Grown ==
  ASSUME NEW F, NEW S, NEW x, BuilderOK(x, S, F), NEW sel, NEW more, NEW err,
         x.sel \in S /\ (x.feat \cup more) \cap Gated \subseteq F => sel \in S
  PROVE  BuilderOK([sel |-> sel, preds |-> x.preds, order |-> x.order, group |-> x.group,
                    distinctOn |-> x.distinctOn, feat |-> x.feat \cup more, err |-> err], S, F)
<1> DEFINE new == [sel |-> sel, preds |-> x.preds, order |-> x.order, group |-> x.group,
                   distinctOn |-> x.distinctOn, feat |-> x.feat \cup more, err |-> err]
<1>1. /\ new.preds = x.preds /\ new.order = x.order /\ new.group = x.group
      /\ new.distinctOn = x.distinctOn /\ new.feat = x.feat \cup more /\ new.sel = sel
      /\ new = [sel |-> new.sel, preds |-> new.preds, order |-> new.order, group |-> new.group,
                distinctOn |-> new.distinctOn, feat |-> new.feat, err |-> new.err]
  OBVIOUS
<1> HIDE DEF new
<1>2. BuilderOK(new, S, F)
  BY <1>1 DEF BuilderOK
<1> QED
  BY <1>2 DEF new

\* A builder with one of its fields changed.
LEMMA Rebuilt ==
  ASSUME NEW x, x = [sel |-> x.sel, preds |-> x.preds, order |-> x.order, group |-> x.group,
                     distinctOn |-> x.distinctOn, feat |-> x.feat, err |-> x.err]
  PROVE  /\ \A sel : [x EXCEPT !.sel = sel] =
              [sel |-> sel, preds |-> x.preds, order |-> x.order, group |-> x.group,
               distinctOn |-> x.distinctOn, feat |-> x.feat, err |-> x.err]
         /\ \A err : [x EXCEPT !.err = err] =
              [sel |-> x.sel, preds |-> x.preds, order |-> x.order, group |-> x.group,
               distinctOn |-> x.distinctOn, feat |-> x.feat, err |-> err]
         /\ \A preds : [x EXCEPT !.preds = preds] =
              [sel |-> x.sel, preds |-> preds, order |-> x.order, group |-> x.group,
               distinctOn |-> x.distinctOn, feat |-> x.feat, err |-> x.err]
         /\ \A order : [x EXCEPT !.order = order] =
              [sel |-> x.sel, preds |-> x.preds, order |-> order, group |-> x.group,
               distinctOn |-> x.distinctOn, feat |-> x.feat, err |-> x.err]
         /\ \A group : [x EXCEPT !.group = group] =
              [sel |-> x.sel, preds |-> x.preds, order |-> x.order, group |-> group,
               distinctOn |-> x.distinctOn, feat |-> x.feat, err |-> x.err]
<1>1. ASSUME NEW sel PROVE [x EXCEPT !.sel = sel] =
            [sel |-> sel, preds |-> x.preds, order |-> x.order, group |-> x.group,
             distinctOn |-> x.distinctOn, feat |-> x.feat, err |-> x.err]
  OBVIOUS
<1>2. ASSUME NEW err PROVE [x EXCEPT !.err = err] =
            [sel |-> x.sel, preds |-> x.preds, order |-> x.order, group |-> x.group,
             distinctOn |-> x.distinctOn, feat |-> x.feat, err |-> err]
  OBVIOUS
<1>3. ASSUME NEW preds PROVE [x EXCEPT !.preds = preds] =
            [sel |-> x.sel, preds |-> preds, order |-> x.order, group |-> x.group,
             distinctOn |-> x.distinctOn, feat |-> x.feat, err |-> x.err]
  OBVIOUS
<1>4. ASSUME NEW order PROVE [x EXCEPT !.order = order] =
            [sel |-> x.sel, preds |-> x.preds, order |-> order, group |-> x.group,
             distinctOn |-> x.distinctOn, feat |-> x.feat, err |-> x.err]
  OBVIOUS
<1>5. ASSUME NEW group PROVE [x EXCEPT !.group = group] =
            [sel |-> x.sel, preds |-> x.preds, order |-> x.order, group |-> group,
             distinctOn |-> x.distinctOn, feat |-> x.feat, err |-> x.err]
  OBVIOUS
<1> QED
  BY <1>1, <1>2, <1>3, <1>4, <1>5

\* The clauses of the select of a builder.
LEMMA HeldFields ==
  ASSUME NEW F, NEW x \in {"outer", "inner"}, NEW s \in Holds(x, F)
  PROVE  /\ s.where \in Seq(Exprs(F)) /\ s.having \in Seq(Exprs(F)) /\ s.joins \in Seq(Exprs(F))
         /\ s.projection \in Terms(F) /\ s.columns \in Columns /\ s.lock \in Locks
         /\ (s.lock # NoLock => "RowLocking" \in F)
<1>1. CASE x = "outer"
  BY <1>1, ShapeFields DEF Holds, Selects
<1>2. CASE x = "inner"
  BY <1>2, ShapeFields DEF Holds, Flats
<1> QED
  BY <1>1, <1>2

\* The raw fragments of the calls.
LEMMA RawFragments ==
  ASSUME NEW F, NEW v \in Nat, NEW v2 \in Nat
  PROVE  /\ RawCmp("a", v) \in Exprs(F) /\ RawOr(v, v2) \in Exprs(F) /\ ScopeExpr \in Exprs(F)
         /\ Valued(<<"INNER_JOIN", "o", "ON", "b", ">">>, v) \in Exprs(F)
         /\ Valued(<<"src">>, v) \in Exprs(F) /\ Valued(<<"b", "+">>, v) \in Exprs(F)
         /\ Words(<<"a">>) \in Seq(Plain(F))
<1>1. {"a", "b", ">", "OR", "deleted_at", "IS_NULL", "INNER_JOIN", "o", "ON", "src", "+"}
        \subseteq WordsOf(F)
  BY CommonWords DEF Common
<1>2. <<"a", ">">> \in Seq(WordsOf(F)) /\ <<"b", ">">> \in Seq(WordsOf(F))
      /\ <<"OR">> \in Seq(WordsOf(F)) /\ <<"deleted_at", "IS_NULL">> \in Seq(WordsOf(F))
      /\ <<"INNER_JOIN", "o", "ON", "b", ">">> \in Seq(WordsOf(F)) /\ <<"src">> \in Seq(WordsOf(F))
      /\ <<"b", "+">> \in Seq(WordsOf(F)) /\ <<"a">> \in Seq(WordsOf(F))
  BY <1>1
<1>3. RawCmp("a", v) \in Exprs(F) /\ RawCmp("b", v2) \in Exprs(F)
  BY <1>2, ValuedStays DEF RawCmp
<1>4. Text(<<"OR">>) \in Exprs(F)
  BY <1>2, PlainExpr
<1>5. RawOr(v, v2) \in Exprs(F)
  BY <1>3, <1>4, ThenStays DEF RawOr
<1>6. ScopeExpr \in Exprs(F)
  BY <1>2, PlainExpr DEF ScopeExpr
<1>7. /\ Valued(<<"INNER_JOIN", "o", "ON", "b", ">">>, v) \in Exprs(F)
      /\ Valued(<<"src">>, v) \in Exprs(F) /\ Valued(<<"b", "+">>, v) \in Exprs(F)
  BY <1>2, ValuedStays
<1>8. Words(<<"a">>) \in Seq(Plain(F))
  BY <1>2, WordsPlain
<1> QED
  BY <1>3, <1>5, <1>6, <1>7, <1>8

\* Calls that change one clause.
LEMMA ClauseCalls ==
  ASSUME IInv, NEW x \in {"outer", "inner"},
         \/ Where(x) \/ Scope(x) \/ Distinct(x) \/ Having(x) \/ Limit(x) \/ Offset(x) \/ Project(x)
         \/ Join(x) \/ From(x)
  PROVE  IInv'
<1> DEFINE s == b[x].sel
           F == D.feats
           S == Holds(x, F)
<1>1. b[x].feat \cap Gated \subseteq F => s \in S
  BY DEF IInv, BuilderOK
<1>2. s \in S => Edits(s, S, F) /\ [s EXCEPT !.from = <<>>] \in S
  BY HeldEdits
<1>3. s \in S => /\ s.where \in Seq(Exprs(F)) /\ s.having \in Seq(Exprs(F))
                /\ s.joins \in Seq(Exprs(F)) /\ s.projection \in Terms(F) /\ s.columns \in Columns
  BY HeldFields
<1>4. V(1) \in Nat /\ V(2) \in Nat
  BY DEF IInv, V
<1>5. \A es, e : es \in Seq(Exprs(F)) /\ e \in Exprs(F) => Append(es, e) \in Seq(Exprs(F))
  BY AppendProperties
<1> HIDE DEF F, S
<1> DEFINE Stays(sel) == b[x].feat \cap Gated \subseteq F => sel \in S
<1>6. ASSUME NEW m, NEW k \in Nat, NEW sel, Stays(sel), Sel(x, m, k, sel) PROVE IInv'
  BY <1>6, SelStep DEF F, S
<1>7. ASSUME NEW e \in Exprs(F)
      PROVE  /\ Stays([b[x].sel EXCEPT !.where = Append(@, e)])
             /\ Stays([b[x].sel EXCEPT !.having = Append(@, e)])
             /\ Stays([b[x].sel EXCEPT !.joins = Append(@, e)])
  BY <1>1, <1>2, <1>3, <1>5 DEF Edits
<1>8. CASE Where(x)
  <2>1. PICK e \in {RawCmp("a", V(1)), RawOr(V(1), V(2))} :
          Sel(x, IF Len(e.args) = 1 THEN "Where" ELSE "WhereOr", 2,
              [b[x].sel EXCEPT !.where = Append(@, e)])
    BY <1>8 DEF Where
  <2>2. e \in Exprs(F)
    BY <1>4, RawFragments
  <2>3. Stays([b[x].sel EXCEPT !.where = Append(@, e)])
    BY <1>7, <2>2
  <2> HIDE DEF Stays
  <2> QED
    BY <1>6, <2>1, <2>3
<1>9. CASE Scope(x)
  <2>1. ScopeExpr \in Exprs(F)
    BY <1>4, RawFragments
  <2>2. Stays([b[x].sel EXCEPT !.where = Append(@, ScopeExpr)])
    BY <1>7, <2>1
  <2> HIDE DEF Stays
  <2> QED
    BY <1>6, <1>9, <2>2 DEF Scope
<1>10. CASE Distinct(x)
  <2>1. Stays([b[x].sel EXCEPT !.distinct = TRUE])
    BY <1>1, <1>2 DEF Edits
  <2> HIDE DEF Stays
  <2> QED
    BY <1>6, <1>10, <2>1 DEF Distinct
<1>11. CASE Having(x)
  <2>1. RawCmp("a", V(1)) \in Exprs(F)
    BY <1>4, RawFragments
  <2>2. Stays([b[x].sel EXCEPT !.having = Append(@, RawCmp("a", V(1)))])
    BY <1>7, <2>1
  <2> HIDE DEF Stays
  <2> QED
    BY <1>6, <1>11, <2>2 DEF Having
<1>12. CASE Limit(x)
  <2>1. Stays([b[x].sel EXCEPT !.hasLimit = TRUE])
    BY <1>1, <1>2 DEF Edits
  <2> HIDE DEF Stays
  <2> QED
    BY <1>6, <1>12, <2>1 DEF Limit
<1>13. CASE Offset(x)
  <2>1. Stays([b[x].sel EXCEPT !.hasOffset = TRUE])
    BY <1>1, <1>2 DEF Edits
  <2> HIDE DEF Stays
  <2> QED
    BY <1>6, <1>13, <2>1 DEF Offset
<1>14. CASE Project(x)
  <2>1. Words(<<"a">>) \in Seq(Plain(F))
    BY <1>4, RawFragments
  <2>2. \A ts : ts \in Terms(F) => Append(ts, Words(<<"a">>)) \in Terms(F)
    BY <2>1, AppendProperties DEF Terms
  <2>3. Stays([b[x].sel EXCEPT !.projection = Append(@, Words(<<"a">>))])
    BY <1>1, <1>2, <1>3, <2>2 DEF Edits
  <2> HIDE DEF Stays
  <2> QED
    BY <1>6, <1>14, <2>3 DEF Project
<1>15. CASE Join(x)
  <2> DEFINE e == Valued(<<"INNER_JOIN", "o", "ON", "b", ">">>, V(1))
  <2>1. e \in Exprs(F)
    BY <1>4, RawFragments
  <2>2. Sel(x, "Join", 1, [b[x].sel EXCEPT !.joins = Append(@, e)])
    BY <1>15 DEF Join
  <2> HIDE DEF e
  <2>3. Stays([b[x].sel EXCEPT !.joins = Append(@, e)])
    BY <1>7, <2>1
  <2> HIDE DEF Stays
  <2> QED
    BY <1>6, <2>2, <2>3
<1>16. CASE From(x)
  <2> DEFINE cols == IF b[x].sel.projection = <<>> THEN ColumnsOf("q") ELSE b[x].sel.columns
             s1 == [s EXCEPT !.table = "q"]
             s2 == [s1 EXCEPT !.from = <<>>]
             s3 == [s2 EXCEPT !.columns = cols]
  <2>1. Sel(x, "From", 0, s3)
    BY <1>16 DEF From
  <2>2. s \in S => cols \in Columns
    BY <1>3, NewSelectOK
  <2> HIDE DEF cols
  <2>3. s \in S => s1 \in S
    BY <1>2 DEF Edits, Names
  <2> HIDE DEF s1
  <2>4. s \in S => s2 \in S
    BY <2>3, HeldEdits DEF S
  <2> HIDE DEF s2
  <2>5. s \in S => s3 \in S
    BY <2>2, <2>4, HeldEdits DEF S, Edits
  <2>6. Stays(s3)
    BY <1>1, <2>5
  <2> HIDE DEF Stays, s3
  <2> QED
    BY <1>6, <2>1, <2>6
<1> QED
  BY <1>8, <1>9, <1>10, <1>11, <1>12, <1>13, <1>14, <1>15, <1>16

\* Calls that keep a predicate, a field or a term.
LEMMA PartCalls ==
  ASSUME IInv, NEW x \in {"outer", "inner"}, Filter(x) \/ GroupBy(x) \/ OrderBy(x) \/ DistinctOn(x)
  PROVE  IInv'
<1> DEFINE y == b[x]
           F == D.feats
           S == Holds(x, F)
<1>1. BuilderOK(y, S, F)
  BY DEF IInv
<1>2. /\ y = [sel |-> y.sel, preds |-> y.preds, order |-> y.order, group |-> y.group,
              distinctOn |-> y.distinctOn, feat |-> y.feat, err |-> y.err]
      /\ PredsOK(y.preds, F) /\ TermsOK(y.order, F) /\ FieldsOK(y.group, F)
      /\ FieldsOK(y.distinctOn, F) /\ (y.distinctOn # <<>> => "DistinctOn" \in y.feat)
      /\ (y.feat \cap Gated \subseteq F => y.sel \in S)
  BY <1>1 DEF BuilderOK
<1> HIDE DEF y
<1>3. ASSUME NEW m, NEW k \in Nat, NEW new, BuilderOK(new, S, F), Builder(x, m, k, new) PROVE IInv'
  BY <1>3, BuilderStep DEF F, S
<1>4. CASE Filter(x)
  <2>1. PICK kind \in {"cmp", "list", "null", "group", "json", "array", "match", "unknown", "sub"} :
          \E p \in Preds(kind, b["inner"]) :
            Builder(x, kind, 3, [y EXCEPT !.preds = Append(@, p)])
    BY <1>4 DEF Filter, y
  <2>2. PICK p \in Preds(kind, b["inner"]) : Builder(x, kind, 3, [y EXCEPT !.preds = Append(@, p)])
    BY <2>1
  <2>3. used \in Nat
    BY DEF IInv
  <2>4. PredOK(p, F)
    BY <2>3, PredsPass
  <2>5. PredsOK(Append(y.preds, p), F)
    BY <1>2, <2>4, PredMore
  <2> DEFINE new == [y EXCEPT !.preds = Append(y.preds, p)]
  <2>6. new = [sel |-> y.sel, preds |-> Append(y.preds, p), order |-> y.order, group |-> y.group,
               distinctOn |-> y.distinctOn, feat |-> y.feat, err |-> y.err]
    BY <1>2, Rebuilt
  <2>7. Builder(x, kind, 3, new)
    BY <2>2
  <2> HIDE DEF new
  <2>8. BuilderOK(new, S, F)
    BY <1>2, <2>5, <2>6 DEF BuilderOK
  <2> QED
    BY <1>3, <2>7, <2>8
<1>5. CASE GroupBy(x)
  <2>1. PICK f \in {Name("a"), Name("zz")} \cup
                   (IF x = "outer" THEN {ScalarSubquery(b["inner"])} ELSE {}) :
          Builder(x, "GroupBy", 0, [y EXCEPT !.group = Append(@, f)])
    BY <1>5 DEF GroupBy, y
  <2>2. FieldOK(f, F)
    BY NameOK, SubFieldOK
  <2>3. FieldsOK(Append(y.group, f), F)
    BY <1>2, <2>2, FieldMore
  <2> DEFINE new == [y EXCEPT !.group = Append(y.group, f)]
  <2>4. new = [sel |-> y.sel, preds |-> y.preds, order |-> y.order, group |-> Append(y.group, f),
               distinctOn |-> y.distinctOn, feat |-> y.feat, err |-> y.err]
    BY <1>2, Rebuilt
  <2>5. Builder(x, "GroupBy", 0, new)
    BY <2>1
  <2> HIDE DEF new
  <2>6. BuilderOK(new, S, F)
    BY <1>2, <2>3, <2>4 DEF BuilderOK
  <2> QED
    BY <1>3, <2>5, <2>6
<1>6. CASE OrderBy(x)
  <2>1. PICK t \in {[name |-> "a", raw |-> FALSE, unvalidated |-> FALSE],
                    [name |-> "zz", raw |-> FALSE, unvalidated |-> FALSE],
                    [name |-> "hid", raw |-> FALSE, unvalidated |-> TRUE],
                    [name |-> "random()", raw |-> TRUE, unvalidated |-> FALSE]} :
          Builder(x, "OrderBy", 0, [y EXCEPT !.order = Append(@, t)])
    BY <1>6 DEF OrderBy, y
  <2>2. TermOK(t, F)
    BY TermPasses
  <2>3. TermsOK(Append(y.order, t), F)
    BY <1>2, <2>2, TermMore
  <2> DEFINE new == [y EXCEPT !.order = Append(y.order, t)]
  <2>4. new = [sel |-> y.sel, preds |-> y.preds, order |-> Append(y.order, t), group |-> y.group,
               distinctOn |-> y.distinctOn, feat |-> y.feat, err |-> y.err]
    BY <1>2, Rebuilt
  <2>5. Builder(x, "OrderBy", 0, new)
    BY <2>1
  <2> HIDE DEF new
  <2>6. BuilderOK(new, S, F)
    BY <1>2, <2>3, <2>4 DEF BuilderOK
  <2> QED
    BY <1>3, <2>5, <2>6
<1>7. CASE DistinctOn(x)
  <2> DEFINE on == Append(y.distinctOn, Name("a"))
             feat == y.feat \cup {"DistinctOn"}
             new == [[y EXCEPT !.distinctOn = on] EXCEPT !.feat = feat]
  <2>1. FieldsOK(on, F)
    BY <1>2, NameOK, FieldMore
  <2> HIDE DEF on, feat
  <2>2. new = [sel |-> y.sel, preds |-> y.preds, order |-> y.order, group |-> y.group,
               distinctOn |-> on, feat |-> feat, err |-> y.err]
    <3> DEFINE z == [y EXCEPT !.distinctOn = on]
    <3>1. z = [sel |-> y.sel, preds |-> y.preds, order |-> y.order, group |-> y.group,
               distinctOn |-> on, feat |-> y.feat, err |-> y.err]
      BY <1>2
    <3>2. new = [z EXCEPT !.feat = feat]
      OBVIOUS
    <3> HIDE DEF z
    <3> QED
      BY <3>1, <3>2
  <2>3. [y EXCEPT !.distinctOn = Append(@, Name("a")), !.feat = @ \cup {"DistinctOn"}] = new
    BY <1>2 DEF on, feat
  <2>4. Builder(x, "DistinctOn", 0, new)
    BY <1>7, <2>3 DEF DistinctOn, y
  <2>5. "DistinctOn" \in feat /\ (feat \cap Gated \subseteq F => y.sel \in S)
    BY <1>2 DEF feat
  <2> HIDE DEF new
  <2>6. BuilderOK(new, S, F)
    BY <1>2, <2>1, <2>2, <2>5 DEF BuilderOK
  <2> QED
    BY <1>3, <2>4, <2>6
<1> QED
  BY <1>4, <1>5, <1>6, <1>7

\* A lock, and the feature it asks for.
LEMMA LockedOK ==
  ASSUME NEW F, NEW x \in {"outer", "inner"}, NEW y, BuilderOK(y, Holds(x, F), F),
         NEW strength \in {"UPDATE", "SHARE"}
  PROVE  BuilderOK(Locked(y, strength), Holds(x, F), F) /\ "RowLocking" \in Locked(y, strength).feat
<1> DEFINE S == Holds(x, F)
           lock == [y.sel.lock EXCEPT !.strength = strength]
           sel == [y.sel EXCEPT !.lock = lock]
           feat == y.feat \cup {"RowLocking"}
           new == [sel |-> sel, preds |-> y.preds, order |-> y.order, group |-> y.group,
                   distinctOn |-> y.distinctOn, feat |-> feat, err |-> y.err]
<1>1. y = [sel |-> y.sel, preds |-> y.preds, order |-> y.order, group |-> y.group,
           distinctOn |-> y.distinctOn, feat |-> y.feat, err |-> y.err]
  BY DEF BuilderOK
<1>2. Locked(y, strength) = [[y EXCEPT !.sel = sel] EXCEPT !.feat = feat]
  BY <1>1 DEF Locked
<1> HIDE DEF sel, feat
<1>3. Locked(y, strength) = new
  <2> DEFINE z == [y EXCEPT !.sel = sel]
  <2>1. z = [sel |-> sel, preds |-> y.preds, order |-> y.order, group |-> y.group,
             distinctOn |-> y.distinctOn, feat |-> y.feat, err |-> y.err]
    BY <1>1
  <2>2. Locked(y, strength) = [z EXCEPT !.feat = feat]
    BY <1>2
  <2> HIDE DEF z
  <2> QED
    BY <2>1, <2>2
<1>4. ASSUME y.sel \in S, feat \cap Gated \subseteq F PROVE sel \in S
  <2>1. "RowLocking" \in F
    BY <1>4 DEF Gated, feat
  <2>2. lock \in Locks
    BY <1>4, HeldFields DEF S, Locks
  <2> HIDE DEF lock
  <2> QED
    BY <1>4, <2>1, <2>2, HeldEdits DEF Edits, S, sel
<1>5. BuilderOK(new, S, F)
  BY <1>4, Grown DEF feat, S
<1>6. "RowLocking" \in new.feat
  BY DEF feat
<1> QED
  BY <1>3, <1>5, <1>6

\* A modifier brings a lock, if there is none yet.
LEMMA EnsuredOK ==
  ASSUME NEW F, NEW x \in {"outer", "inner"}, NEW y, BuilderOK(y, Holds(x, F), F)
  PROVE  /\ BuilderOK(EnsureLock(y), Holds(x, F), F)
         /\ EnsureLock(y).feat \cap Gated \subseteq F => "RowLocking" \in F
<1>1. CASE y.sel.lock = NoLock
  <2>1. EnsureLock(y) = Locked(y, "UPDATE")
    BY <1>1 DEF EnsureLock
  <2>2. BuilderOK(Locked(y, "UPDATE"), Holds(x, F), F) /\ "RowLocking" \in Locked(y, "UPDATE").feat
    BY LockedOK
  <2> QED
    BY <2>1, <2>2 DEF Gated
<1>2. CASE y.sel.lock # NoLock
  <2>1. EnsureLock(y) = y
    BY <1>2 DEF EnsureLock
  <2>2. y.feat \cap Gated \subseteq F => y.sel \in Holds(x, F)
    BY DEF BuilderOK
  <2>3. y.sel \in Holds(x, F) => "RowLocking" \in F
    BY <1>2, HeldFields
  <2> QED
    BY <2>1, <2>2, <2>3
<1> QED
  BY <1>1, <1>2

\* The calls that lock.
LEMMA LockCalls ==
  ASSUME IInv, NEW x \in {"outer", "inner"}, Lock(x) \/ SkipLocked(x) \/ NoWait(x)
  PROVE  IInv'
<1> DEFINE y == b[x]
           F == D.feats
           S == Holds(x, F)
           e == EnsureLock(y)
<1>1. BuilderOK(y, S, F)
  BY DEF IInv
<1>2. BuilderOK(e, S, F) /\ (e.feat \cap Gated \subseteq F => "RowLocking" \in F)
  BY <1>1, EnsuredOK
<1>3. ASSUME NEW m, NEW k \in Nat, NEW new, BuilderOK(new, S, F), Builder(x, m, k, new) PROVE IInv'
  BY <1>3, BuilderStep
<1>4. CASE Lock(x)
  <2>1. PICK strength \in {"UPDATE", "SHARE"} : Builder(x, "Lock", 0, Locked(y, strength))
    BY <1>4 DEF Lock
  <2>2. BuilderOK(Locked(y, strength), S, F)
    BY <1>1, LockedOK
  <2> QED
    BY <1>3, <2>1, <2>2
<1> DEFINE Locking(lock) == [e EXCEPT !.sel = [e.sel EXCEPT !.lock = lock]]
<1>5. ASSUME NEW lock, e.sel \in S => lock \in Locks PROVE BuilderOK(Locking(lock), S, F)
  <2> DEFINE sel == [e.sel EXCEPT !.lock = lock]
  <2>1. e = [sel |-> e.sel, preds |-> e.preds, order |-> e.order, group |-> e.group,
             distinctOn |-> e.distinctOn, feat |-> e.feat, err |-> e.err]
    BY <1>2 DEF BuilderOK
  <2> HIDE DEF e
  <2>2. Locking(lock) = [sel |-> sel, preds |-> e.preds, order |-> e.order, group |-> e.group,
                      distinctOn |-> e.distinctOn, feat |-> e.feat, err |-> e.err]
    BY <2>1, Rebuilt
  <2>3. ASSUME e.feat \cap Gated \subseteq F PROVE sel \in S
    <3>1. e.sel \in S /\ "RowLocking" \in F
      BY <1>2, <2>3 DEF BuilderOK
    <3>2. Edits(e.sel, S, F)
      BY <3>1, HeldEdits
    <3> QED
      BY <1>5, <3>1, <3>2 DEF Edits
  <2> HIDE DEF sel
  <2> DEFINE new == Locking(lock)
  <2>4. /\ new.preds = e.preds /\ new.order = e.order /\ new.group = e.group
        /\ new.distinctOn = e.distinctOn /\ new.feat = e.feat /\ new.sel = sel
        /\ new = [sel |-> new.sel, preds |-> new.preds, order |-> new.order, group |-> new.group,
                  distinctOn |-> new.distinctOn, feat |-> new.feat, err |-> new.err]
    BY <2>2
  <2> HIDE DEF new
  <2>5. BuilderOK(new, S, F)
    BY <1>2, <2>3, <2>4 DEF BuilderOK
  <2> QED
    BY <2>5 DEF new
<1>6. e.sel \in S => e.sel.lock \in Locks
  BY HeldFields
<1>7. CASE SkipLocked(x)
  <2> DEFINE lock == [e.sel.lock EXCEPT !.skipLocked = TRUE]
  <2>1. Builder(x, "Lock", 0, Locking(lock))
    BY <1>7 DEF SkipLocked
  <2>2. e.sel \in S => lock \in Locks
    BY <1>6 DEF Locks
  <2>3. BuilderOK(Locking(lock), S, F)
    BY <1>5, <2>2
  <2> QED
    BY <1>3, <2>1, <2>3
<1>8. CASE NoWait(x)
  <2> DEFINE lock == [e.sel.lock EXCEPT !.noWait = TRUE]
  <2>1. Builder(x, "Lock", 0, Locking(lock))
    BY <1>8 DEF NoWait
  <2>2. e.sel \in S => lock \in Locks
    BY <1>6 DEF Locks
  <2>3. BuilderOK(Locking(lock), S, F)
    BY <1>5, <2>2
  <2> QED
    BY <1>3, <2>1, <2>3
<1> QED
  BY <1>4, <1>7, <1>8

(***************************************************************************)
(* Calls that place inner in outer.                                        *)
(***************************************************************************)
\* What is placed, as a select and as a fragment.
LEMMA PlacedOK ==
  ASSUME IInv
  PROVE  /\ ~Placed.err => Placed.sel \in Flats(D.feats)
         /\ IsFrag(Inner, D.feats) /\ IsFrag(Failed, D.feats)
<1>1. BuilderOK(b["inner"], Flats(D.feats), D.feats)
  BY DEF IInv, Holds
<1>2. D = [name |-> D.name, feats |-> D.feats, qmark |-> D.qmark]
  BY Connection
<1>3. IsFrag(Failed, D.feats)
  <2> DEFINE d == D
  <2>1. Statement(Failed, QmarkDialect(d)) /\ QmarkDialect(d).feats = d.feats
        /\ QmarkDialect(d).qmark = TRUE
    BY <1>2, FailedStatement DEF QmarkDialect
  <2> QED
    BY <2>1 DEF Statement, IsFrag, Exprs
<1>4. IsFrag(Inner, D.feats)
  BY <1>1, <1>2, <1>3, FragmentStays DEF Inner
<1>5. ~Placed.err => Placed.sel \in Flats(D.feats)
  BY <1>1, <1>3, ResolvedStays DEF Placed, Flats
<1> QED
  BY <1>3, <1>4, <1>5

\* An error is kept in the builder.
LEMMA SpoiledStays ==
  ASSUME IInv, NEW more
  PROVE  /\ BuilderOK(Spoiled, Holds("outer", D.feats), D.feats)
         /\ BuilderOK([Spoiled EXCEPT !.feat = b["outer"].feat \cup more],
                      Holds("outer", D.feats), D.feats)
<1> DEFINE y == b["outer"]
           S == Holds("outer", D.feats)
           F == D.feats
           Spoilt(feat) == [sel |-> y.sel, preds |-> y.preds, order |-> y.order, group |-> y.group,
                            distinctOn |-> y.distinctOn, feat |-> feat, err |-> TRUE]
<1>1. BuilderOK(y, S, F)
  BY DEF IInv
<1>2. y = [sel |-> y.sel, preds |-> y.preds, order |-> y.order, group |-> y.group,
           distinctOn |-> y.distinctOn, feat |-> y.feat, err |-> y.err]
  BY <1>1 DEF BuilderOK
<1>3. Spoiled = [y EXCEPT !.err = TRUE]
  BY DEF Spoiled
<1> HIDE DEF y, S, F
<1>4. Spoiled = Spoilt(y.feat)
  BY <1>2, <1>3, Rebuilt
<1>5. [Spoiled EXCEPT !.feat = y.feat \cup more] = Spoilt(y.feat \cup more)
  <2> DEFINE z == Spoiled
             feat == y.feat \cup more
             err == TRUE
  <2>1. z = [sel |-> y.sel, preds |-> y.preds, order |-> y.order, group |-> y.group,
             distinctOn |-> y.distinctOn, feat |-> y.feat, err |-> err]
    BY <1>4
  <2> HIDE DEF z, feat, err
  <2>2. [z EXCEPT !.feat = feat] =
          [sel |-> y.sel, preds |-> y.preds, order |-> y.order, group |-> y.group,
           distinctOn |-> y.distinctOn, feat |-> feat, err |-> err]
    BY <2>1
  <2> QED
    BY <2>2 DEF z, feat, err
<1>6. BuilderOK(Spoilt(y.feat \cup {}), S, F) /\ BuilderOK(Spoilt(y.feat \cup more), S, F)
  BY <1>1, Grown
<1>7. y.feat \cup {} = y.feat
  OBVIOUS
<1> QED
  BY <1>4, <1>5, <1>6, <1>7 DEF y, S, F

\* A new select in outer, and the features it asks for.
LEMMA PlaceGrown ==
  ASSUME IInv, NEW sel, NEW more,
         b["outer"].sel \in Selects(D.feats) /\ (b["outer"].feat \cup more) \cap Gated \subseteq D.feats
           => sel \in Selects(D.feats)
  PROVE  BuilderOK([[b["outer"] EXCEPT !.sel = sel] EXCEPT !.feat = b["outer"].feat \cup more],
                   Holds("outer", D.feats), D.feats)
<1> DEFINE y == b["outer"]
           S == Holds("outer", D.feats)
           F == D.feats
<1>1. BuilderOK(y, S, F)
  BY DEF IInv
<1>2. y = [sel |-> y.sel, preds |-> y.preds, order |-> y.order, group |-> y.group,
           distinctOn |-> y.distinctOn, feat |-> y.feat, err |-> y.err]
  BY <1>1 DEF BuilderOK
<1>3. y.sel \in S /\ (y.feat \cup more) \cap Gated \subseteq F => sel \in S
  BY DEF Holds
<1> HIDE DEF y, S, F
<1>4. [[y EXCEPT !.sel = sel] EXCEPT !.feat = y.feat \cup more] =
        [sel |-> sel, preds |-> y.preds, order |-> y.order, group |-> y.group,
         distinctOn |-> y.distinctOn, feat |-> y.feat \cup more, err |-> y.err]
  <2> DEFINE z == [y EXCEPT !.sel = sel]
             feat == y.feat \cup more
  <2>1. z = [sel |-> sel, preds |-> y.preds, order |-> y.order, group |-> y.group,
             distinctOn |-> y.distinctOn, feat |-> y.feat, err |-> y.err]
    BY <1>2
  <2> HIDE DEF z, feat
  <2>2. [z EXCEPT !.feat = feat] =
          [sel |-> sel, preds |-> y.preds, order |-> y.order, group |-> y.group,
           distinctOn |-> y.distinctOn, feat |-> feat, err |-> y.err]
    BY <2>1
  <2> QED
    BY <2>2 DEF z, feat
<1>5. BuilderOK([sel |-> sel, preds |-> y.preds, order |-> y.order, group |-> y.group,
                 distinctOn |-> y.distinctOn, feat |-> y.feat \cup more, err |-> y.err], S, F)
  BY <1>1, <1>3, Grown
<1> QED
  BY <1>4, <1>5 DEF y, S, F

\* A call that places a select leaves outer as it should be, or with an error.
LEMMA PlaceStep ==
  ASSUME IInv, NEW m, NEW new, Place(m, new),
         ~Placed.err => BuilderOK(new, Holds("outer", D.feats), D.feats)
  PROVE  IInv'
<1>1. BuilderOK(IF Placed.err THEN Spoiled ELSE new, Holds("outer", D.feats), D.feats)
  BY SpoiledStays
<1>2. Builder("outer", m, 0, IF Placed.err THEN Spoiled ELSE new)
  BY DEF Place
<1> QED
  BY <1>1, <1>2, BuilderStep

\* With.
LEMMA WithCall == ASSUME IInv, With PROVE IInv'
<1> DEFINE y == b["outer"]
           F == D.feats
           more == {"CTE"} \cup FeatUnion(b["inner"])
           cte(recursive) == [name |-> "q", recursive |-> recursive, select |-> Placed.sel]
           sel(recursive) == [y.sel EXCEPT !.with = Append(y.sel.with, cte(recursive))]
           new(recursive) == [[y EXCEPT !.sel = sel(recursive)] EXCEPT !.feat = y.feat \cup more]
<1>1. PICK recursive \in BOOLEAN :
        Place(IF recursive THEN "WithRecursive" ELSE "With", new(recursive))
  <2>1. y.feat \cup {"CTE"} \cup FeatUnion(b["inner"]) = y.feat \cup more
    OBVIOUS
  <2> QED
    BY <2>1 DEF With
<1>2. ASSUME ~Placed.err, y.sel \in Selects(F), (y.feat \cup more) \cap Gated \subseteq F
      PROVE  sel(recursive) \in Selects(F)
  <2>1. "CTE" \in F
    BY <1>2 DEF Gated
  <2>2. Placed.sel \in Flats(F)
    BY <1>2, PlacedOK
  <2>3. cte(recursive) \in [name : {"q"}, recursive : BOOLEAN, select : Flats(F)]
    BY <2>2
  <2>4. y.sel.with \in Withs(F)
    BY <1>2, ShapeFields DEF Selects
  <2> HIDE DEF cte
  <2>5. Append(y.sel.with, cte(recursive)) \in Withs(F)
    BY <2>1, <2>3, <2>4, AppendProperties DEF Withs
  <2> QED
    BY <1>2, <2>5, Edited DEF Selects
<1> HIDE DEF sel
<1>3. ~Placed.err => BuilderOK(new(recursive), Holds("outer", F), F)
  BY <1>2, PlaceGrown
<1> HIDE DEF new
<1> QED
  BY <1>1, <1>3, PlaceStep

\* FromSubquery.
LEMMA FromCall == ASSUME IInv, FromSubquery PROVE IInv'
<1> DEFINE F == D.feats
           feat == FeatUnion(b["inner"])
           sel == DerivedFrom(Placed.sel)
           new == [[NewBuilder EXCEPT !.sel = sel] EXCEPT !.feat = feat]
<1>1. Place("FromSubquery", new) /\ b["outer"] = NewBuilder
  BY DEF FromSubquery
<1>2. ASSUME ~Placed.err PROVE sel \in Selects(F)
  <2> DEFINE s1 == [NewSelect EXCEPT !.table = "none"]
             s2 == [s1 EXCEPT !.from = <<Placed.sel>>]
             s3 == [s2 EXCEPT !.alias = "q"]
             columns == ColumnsOf("q")
             s4 == [s3 EXCEPT !.columns = columns]
  <2>1. sel = s4
    BY DEF DerivedFrom
  <2>2. NewSelect \in Selects(F) /\ columns \in Columns
    BY NewSelectOK, FlatSelects
  <2>3. <<Placed.sel>> \in Froms(F)
    BY <1>2, PlacedOK DEF Froms
  <2> HIDE DEF columns
  <2>4. s1 \in Selects(F)
    BY <2>2, Edited DEF Selects, Edits, Names
  <2> HIDE DEF s1
  <2>5. s2 \in Selects(F)
    BY <2>3, <2>4, Edited DEF Selects
  <2> HIDE DEF s2
  <2>6. s3 \in Selects(F)
    BY <2>5, Edited DEF Selects, Edits, Names
  <2> HIDE DEF s3
  <2>7. s4 \in Selects(F)
    BY <2>2, <2>6, Edited DEF Selects, Edits
  <2> QED
    BY <2>1, <2>7
<1> HIDE DEF sel
<1>3. /\ NewBuilder = b["outer"] /\ NewBuilder.feat \cup feat = feat
  BY <1>1 DEF NewBuilder
<1>4. ~Placed.err => BuilderOK(new, Holds("outer", F), F)
  <2>1. ~Placed.err => BuilderOK([[b["outer"] EXCEPT !.sel = sel] EXCEPT
                                    !.feat = b["outer"].feat \cup feat], Holds("outer", F), F)
    BY <1>2, PlaceGrown
  <2> QED
    BY <1>3, <2>1
<1> HIDE DEF new
<1> QED
  BY <1>1, <1>4, PlaceStep

\* JoinSub and JoinLateral.
LEMMA JoinCall == ASSUME IInv, JoinSub PROVE IInv'
<1> DEFINE y == b["outer"]
           F == D.feats
           more(lateral) == IF lateral THEN {"Lateral"} ELSE {}
           asked(lateral) == IF lateral THEN y.feat \cup {"Lateral"} ELSE y.feat
           all(lateral) == asked(lateral) \cup FeatUnion(b["inner"])
           e(lateral) == JoinSubExpr(Inner, lateral, V(1))
           sel(lateral) == [y.sel EXCEPT !.joins = Append(y.sel.joins, e(lateral))]
           spoiled(lateral) == [Spoiled EXCEPT !.feat = asked(lateral)]
           grown(lateral) == [[y EXCEPT !.sel = sel(lateral)] EXCEPT !.feat = all(lateral)]
<1>1. PICK lateral \in BOOLEAN :
        Builder("outer", IF lateral THEN "JoinLateral" ELSE "JoinSub", 1,
                IF Inner.err THEN spoiled(lateral) ELSE grown(lateral))
  BY DEF JoinSub
<1>2. asked(lateral) = y.feat \cup more(lateral)
      /\ all(lateral) = y.feat \cup (more(lateral) \cup FeatUnion(b["inner"]))
  OBVIOUS
<1>3. V(1) \in Nat
  BY DEF IInv, V
<1>4. ASSUME (y.feat \cup (more(lateral) \cup FeatUnion(b["inner"]))) \cap Gated \subseteq F
      PROVE  e(lateral) \in Exprs(F)
  <2> DEFINE open == IF lateral THEN <<"LEFT_JOIN", "LATERAL", "(">> ELSE <<"INNER_JOIN", "(">>
             close == <<")", "AS", "q", "ON", "b", ">">>
  <2>1. {"LEFT_JOIN", "(", "INNER_JOIN", ")", "AS", "q", "ON", "b", ">"} \subseteq WordsOf(F)
    BY CommonWords DEF Common
  <2>2. lateral => "LATERAL" \in WordsOf(F)
    BY <1>4, FeatureWords DEF Gated
  <2>3. <<"INNER_JOIN", "(">> \in Seq(WordsOf(F)) /\ close \in Seq(WordsOf(F))
    BY <2>1
  <2>4. lateral => <<"LEFT_JOIN", "LATERAL", "(">> \in Seq(WordsOf(F))
    BY <2>1, <2>2
  <2>5. open \in Seq(WordsOf(F))
    BY <2>3, <2>4
  <2>6. IsFrag(Inner, F)
    BY PlacedOK
  <2>7. e(lateral) = Then(Then(Text(open), Inner), Valued(close, V(1)))
    BY DEF JoinSubExpr
  <2> HIDE DEF open, close
  <2>8. Then(Text(open), Inner) \in Exprs(F)
    BY <2>5, <2>6, WithinStays
  <2>9. Valued(close, V(1)) \in Exprs(F)
    BY <1>3, <2>3, ValuedStays
  <2> QED
    BY <2>7, <2>8, <2>9, ThenStays
<1> HIDE DEF e
<1>5. ASSUME y.sel \in Selects(F),
             (y.feat \cup (more(lateral) \cup FeatUnion(b["inner"]))) \cap Gated \subseteq F
      PROVE  sel(lateral) \in Selects(F)
  <2>1. y.sel.joins \in Seq(Exprs(F))
    BY <1>5, ShapeFields DEF Selects
  <2>2. Append(y.sel.joins, e(lateral)) \in Seq(Exprs(F))
    BY <1>4, <1>5, <2>1, AppendProperties
  <2> QED
    BY <1>5, <2>2, Edited DEF Selects, Edits
<1> HIDE DEF sel, more, asked, all
<1>6. BuilderOK(spoiled(lateral), Holds("outer", F), F)
  BY <1>2, SpoiledStays
<1>7. BuilderOK(grown(lateral), Holds("outer", F), F)
  BY <1>2, <1>5, PlaceGrown
<1> HIDE DEF spoiled, grown
<1>8. BuilderOK(IF Inner.err THEN spoiled(lateral) ELSE grown(lateral), Holds("outer", F), F)
  BY <1>6, <1>7
<1> QED
  BY <1>1, <1>8, BuilderStep

\* UNION, INTERSECT and EXCEPT.
LEMMA CompoundCall == ASSUME IInv, Compound PROVE IInv'
<1> DEFINE y == b["outer"]
           F == D.feats
           gated(op) == IF op = "UNION" THEN {} ELSE {"IntersectExcept"}
           more(op) == b["inner"].feat \cup gated(op)
           arm(op, every) == [op |-> op, all |-> every, select |-> Placed.sel]
           sel(op, every) == [y.sel EXCEPT !.union = Append(y.sel.union, arm(op, every))]
           grown(op, every) == [[y EXCEPT !.sel = sel(op, every)] EXCEPT !.feat = y.feat \cup more(op)]
<1>1. PICK op \in {"UNION", "INTERSECT", "EXCEPT"}, every \in BOOLEAN :
        Place(IF every THEN "CompoundAll" ELSE op,
              IF Placed.sel.lock # NoLock THEN Spoiled ELSE grown(op, every))
  <2>1. \A op : y.feat \cup b["inner"].feat \cup gated(op) = y.feat \cup more(op)
    OBVIOUS
  <2> QED
    BY <2>1 DEF Compound
<1>2. ASSUME ~Placed.err, y.sel \in Selects(F), (y.feat \cup more(op)) \cap Gated \subseteq F
      PROVE  sel(op, every) \in Selects(F)
  <2>1. op # "UNION" => "IntersectExcept" \in F
    BY <1>2 DEF Gated
  <2>2. Placed.sel \in Flats(F)
    BY <1>2, PlacedOK
  <2>3. op \in SetOps(F)
    BY <2>1 DEF SetOps
  <2>4. arm(op, every) \in [op : SetOps(F), all : BOOLEAN, select : Flats(F)]
    BY <2>2, <2>3
  <2>5. y.sel.union \in Unions(F)
    BY <1>2, ShapeFields DEF Selects
  <2> HIDE DEF arm
  <2>6. Append(y.sel.union, arm(op, every)) \in Unions(F)
    BY <2>4, <2>5, AppendProperties DEF Unions
  <2> QED
    BY <1>2, <2>6, Edited DEF Selects
<1> HIDE DEF sel
<1>3. ~Placed.err => BuilderOK(grown(op, every), Holds("outer", F), F)
  BY <1>2, PlaceGrown
<1> HIDE DEF grown
<1>4. ~Placed.err => BuilderOK(IF Placed.sel.lock # NoLock THEN Spoiled ELSE grown(op, every),
                               Holds("outer", F), F)
  BY <1>3, SpoiledStays
<1> QED
  BY <1>1, <1>4, PlaceStep

(***************************************************************************)
(* Updates, deletes and inserts.                                           *)
(***************************************************************************)
\* One more assignment.
LEMMA SetMore ==
  ASSUME NEW F, NEW set, SetsOK(set, F), NEW s, s.column \in Known => s \in Sets(F)
  PROVE  SetsOK(Append(set, s), F)
<1>1. PICK S : SetsFrom(S, set, F)
  BY DEF SetsOK
<1>2. set \in Seq(S \cup {s})
  BY <1>1, SeqMonotonic DEF SetsFrom
<1>3. SetsFrom(S \cup {s}, Append(set, s), F)
  BY <1>1, <1>2, AppendProperties DEF SetsFrom
<1> QED
  BY <1>3 DEF SetsOK

\* The assignments of the calls: a value, one to an unknown column, an expression.
LEMMA SetPasses ==
  ASSUME NEW F, NEW v \in Nat,
         NEW s \in {[column |-> "a", sql |-> <<>>, args |-> <<v>>],
                    [column |-> "zz", sql |-> <<>>, args |-> <<v>>],
                    [column |-> "b", sql |-> Valued(<<"b", "+">>, v).sql, args |-> <<v>>]}
  PROVE  s.column \in Known => s \in Sets(F)
<1>1. CASE s = [column |-> "a", sql |-> <<>>, args |-> <<v>>]
  BY <1>1, EmptySeq DEF Sets
<1>2. CASE s = [column |-> "zz", sql |-> <<>>, args |-> <<v>>]
  BY <1>2 DEF Known
<1>3. CASE s = [column |-> "b", sql |-> Valued(<<"b", "+">>, v).sql, args |-> <<v>>]
  <2> DEFINE e == Valued(<<"b", "+">>, v)
  <2>1. e \in Exprs(F)
    BY RawFragments
  <2>2. e.args = <<v>>
    <3>1. e.args = <<>> \o <<v>>
      BY DEF Valued, Then, Text, Value
    <3>2. <<v>> \in Seq(Nat)
      OBVIOUS
    <3> QED
      BY <3>1, <3>2, ConcatEmptySeq
  <2>3. e = [sql |-> e.sql, args |-> e.args] /\ e.sql \in Seq(Tokens(F)) /\ e.args \in Seq(Nat)
    BY <2>1 DEF Exprs
  <2>4. s.column = "b" /\ s.sql = e.sql /\ s.args = <<v>>
        /\ s \in [column : {"a", "b"}, sql : Seq(Tokens(F)), args : Seq(Nat)]
    BY <1>3, <2>2, <2>3
  <2> HIDE DEF e
  <2> QED
    BY <2>1, <2>2, <2>3, <2>4 DEF Sets
<1> QED
  BY <1>1, <1>2, <1>3

\* Assignments to columns the model has.
LEMMA SetsKnown ==
  ASSUME NEW F, NEW set, SetsOK(set, F), \A i \in DOMAIN set : set[i].column \in Known
  PROVE  set \in Seq(Sets(F))
<1>1. PICK S : SetsFrom(S, set, F)
  BY DEF SetsOK
<1>2. set \in Seq(S) /\ \A i \in 1..Len(set) : set[i] \in Sets(F)
  BY <1>1, LenProperties, ElementOfSeq DEF SetsFrom
<1>3. set \in [1..Len(set) -> Sets(F)] /\ Len(set) \in Nat
  BY <1>2, LenProperties
<1> QED
  BY <1>3 DEF Seq

\* A write with one of its fields changed.
LEMMA Rewritten ==
  ASSUME NEW x, x = [set |-> x.set, from |-> x.from, where |-> x.where, preds |-> x.preds,
                     feat |-> x.feat, rows |-> x.rows]
  PROVE  /\ \A set : [x EXCEPT !.set = set] =
              [set |-> set, from |-> x.from, where |-> x.where, preds |-> x.preds,
               feat |-> x.feat, rows |-> x.rows]
         /\ \A from : [x EXCEPT !.from = from] =
              [set |-> x.set, from |-> from, where |-> x.where, preds |-> x.preds,
               feat |-> x.feat, rows |-> x.rows]
         /\ \A where : [x EXCEPT !.where = where] =
              [set |-> x.set, from |-> x.from, where |-> where, preds |-> x.preds,
               feat |-> x.feat, rows |-> x.rows]
         /\ \A rows : [x EXCEPT !.rows = rows] =
              [set |-> x.set, from |-> x.from, where |-> x.where, preds |-> x.preds,
               feat |-> x.feat, rows |-> rows]
<1>1. ASSUME NEW set PROVE [x EXCEPT !.set = set] =
            [set |-> set, from |-> x.from, where |-> x.where, preds |-> x.preds,
             feat |-> x.feat, rows |-> x.rows]
  OBVIOUS
<1>2. ASSUME NEW from PROVE [x EXCEPT !.from = from] =
            [set |-> x.set, from |-> from, where |-> x.where, preds |-> x.preds,
             feat |-> x.feat, rows |-> x.rows]
  OBVIOUS
<1>3. ASSUME NEW where PROVE [x EXCEPT !.where = where] =
            [set |-> x.set, from |-> x.from, where |-> where, preds |-> x.preds,
             feat |-> x.feat, rows |-> x.rows]
  OBVIOUS
<1>4. ASSUME NEW rows PROVE [x EXCEPT !.rows = rows] =
            [set |-> x.set, from |-> x.from, where |-> x.where, preds |-> x.preds,
             feat |-> x.feat, rows |-> rows]
  OBVIOUS
<1> QED
  BY <1>1, <1>2, <1>3, <1>4

\* The calls on an update, a delete or the rows of an insert.
LEMMA WriteCalls ==
  ASSUME IInv, Set \/ WriteWhere \/ WriteFilter \/ WriteFrom \/ AddRow
  PROVE  IInv'
<1> DEFINE F == D.feats
           x == w
<1>1. WriteOK(x, F) /\ used \in Nat
  BY DEF IInv
<1>2. V(1) \in Nat /\ V(2) \in Nat
  BY <1>1 DEF V
<1>3. /\ x = [set |-> x.set, from |-> x.from, where |-> x.where, preds |-> x.preds,
              feat |-> x.feat, rows |-> x.rows]
      /\ SetsOK(x.set, F) /\ x.from \in {<<>>} \cup {<<e>> : e \in Exprs(F)}
      /\ (x.from # <<>> => "UpdateFrom" \in x.feat)
      /\ x.where \in Seq(Exprs(F)) /\ PredsOK(x.preds, F) /\ x.rows \in Seq(Seq(Nat))
  BY <1>1 DEF WriteOK
<1>4. ASSUME NEW m, NEW k \in Nat, NEW new, WriteOK(new, F), Write(m, k, new) PROVE IInv'
  BY <1>4, WriteStep
<1>5. CASE Set
  <2>1. PICK s \in {[column |-> "a", sql |-> <<>>, args |-> <<V(1)>>],
                    [column |-> "zz", sql |-> <<>>, args |-> <<V(1)>>],
                    [column |-> "b", sql |-> Valued(<<"b", "+">>, V(1)).sql, args |-> <<V(1)>>]} :
          Write("Set", 1, [x EXCEPT !.set = Append(@, s)])
    BY <1>5 DEF Set
  <2>2. s.column \in Known => s \in Sets(F)
    BY <1>2, SetPasses
  <2>3. SetsOK(Append(x.set, s), F)
    BY <1>3, <2>2, SetMore
  <2> HIDE DEF x, F
  <2> DEFINE new == [x EXCEPT !.set = Append(x.set, s)]
  <2>4. new = [set |-> Append(x.set, s), from |-> x.from, where |-> x.where, preds |-> x.preds,
               feat |-> x.feat, rows |-> x.rows]
    BY <1>3, Rewritten
  <2>5. Write("Set", 1, new)
    BY <2>1
  <2> HIDE DEF new
  <2>6. WriteOK(new, F)
    BY <1>3, <2>3, <2>4 DEF WriteOK
  <2> QED
    BY <1>4, <2>5, <2>6
<1>6. CASE WriteWhere
  <2> DEFINE where == Append(x.where, RawCmp("a", V(1)))
             new == [x EXCEPT !.where = where]
  <2>1. where \in Seq(Exprs(F))
    BY <1>2, <1>3, RawFragments, AppendProperties
  <2>2. Write("Where", 1, new)
    BY <1>6 DEF WriteWhere
  <2> HIDE DEF x, F, where
  <2>3. new = [set |-> x.set, from |-> x.from, where |-> where, preds |-> x.preds,
               feat |-> x.feat, rows |-> x.rows]
    BY <1>3, Rewritten
  <2> HIDE DEF new
  <2>4. WriteOK(new, F)
    BY <1>3, <2>1, <2>3 DEF WriteOK
  <2> QED
    BY <1>4, <2>2, <2>4
<1>7. CASE WriteFilter
  <2>1. PICK kind \in {"cmp", "group", "unknown", "sub"} : \E p \in Preds(kind, b["inner"]) :
          Write(kind, 3, [x EXCEPT !.preds = Append(@, p)])
    BY <1>7 DEF WriteFilter
  <2>2. PICK p \in Preds(kind, b["inner"]) : Write(kind, 3, [x EXCEPT !.preds = Append(@, p)])
    BY <2>1
  <2>3. PredOK(p, F)
    BY <1>1, PredsPass
  <2> DEFINE preds == Append(x.preds, p)
             new == [x EXCEPT !.preds = preds]
  <2>4. PredsOK(preds, F)
    BY <1>3, <2>3, PredMore
  <2>5. Write(kind, 3, new)
    BY <2>2
  <2> HIDE DEF x, F, preds
  <2>6. new = [set |-> x.set, from |-> x.from, where |-> x.where, preds |-> preds,
               feat |-> x.feat, rows |-> x.rows]
    BY <1>3
  <2> HIDE DEF new
  <2>7. WriteOK(new, F)
    BY <1>3, <2>4, <2>6 DEF WriteOK
  <2> QED
    BY <1>4, <2>5, <2>7
<1>8. CASE WriteFrom
  <2> DEFINE from == <<Valued(<<"src">>, V(1))>>
             feat == x.feat \cup {"UpdateFrom"}
             y == [x EXCEPT !.from = from]
             new == [y EXCEPT !.feat = feat]
  <2>1. from \in {<<>>} \cup {<<e>> : e \in Exprs(F)}
    BY <1>2, RawFragments
  <2>2. "UpdateFrom" \in feat
    OBVIOUS
  <2> HIDE DEF from
  <2>3. [x EXCEPT !.from = from, !.feat = @ \cup {"UpdateFrom"}] = new
    <3> HIDE DEF x
    <3>1. y = [set |-> x.set, from |-> from, where |-> x.where, preds |-> x.preds,
               feat |-> x.feat, rows |-> x.rows]
      BY <1>3
    <3>2. y.feat = x.feat
      BY <3>1
    <3> HIDE DEF y
    <3> QED
      BY <3>2 DEF y
  <2>4. Write("From", 1, new)
    BY <1>8, <2>3 DEF WriteFrom, from
  <2> HIDE DEF x, F, feat
  <2>5. y = [set |-> x.set, from |-> from, where |-> x.where, preds |-> x.preds,
             feat |-> x.feat, rows |-> x.rows]
    BY <1>3, Rewritten
  <2> HIDE DEF y
  <2>6. new = [set |-> x.set, from |-> from, where |-> x.where, preds |-> x.preds,
               feat |-> feat, rows |-> x.rows]
    BY <2>5
  <2> HIDE DEF new
  <2>7. WriteOK(new, F)
    BY <1>3, <2>1, <2>2, <2>6 DEF WriteOK
  <2> QED
    BY <1>4, <2>4, <2>7
<1>9. CASE AddRow
  <2> DEFINE row == <<V(1), V(2)>>
             rows == Append(x.rows, row)
             new == [x EXCEPT !.rows = rows]
  <2>1. row \in Seq(Nat)
    BY <1>2, ValueLists
  <2> HIDE DEF row
  <2>2. rows \in Seq(Seq(Nat))
    BY <1>3, <2>1, AppendProperties
  <2>3. Write("AddRow", 2, new)
    BY <1>9 DEF AddRow, row
  <2> HIDE DEF x, F, rows
  <2>4. new = [set |-> x.set, from |-> x.from, where |-> x.where, preds |-> x.preds,
               feat |-> x.feat, rows |-> rows]
    BY <1>3, Rewritten
  <2> HIDE DEF new
  <2>5. WriteOK(new, F)
    BY <1>3, <2>2, <2>4 DEF WriteOK
  <2> QED
    BY <1>4, <2>3, <2>5
<1> QED
  BY <1>5, <1>6, <1>7, <1>8, <1>9

(***************************************************************************)
(* What the terminals send.                                                *)
(***************************************************************************)
\* Some of the columns of a list.
LEMMA SubtractStays ==
  ASSUME NEW X, NEW all \in Seq(X), NEW remove
  PROVE  Subtract(all, remove) \in Seq(X)
<1> DEFINE S == Seq(X)
           n == Len(all)
           Body(p, i) == p \o (IF \E j \in DOMAIN remove : remove[j] = all[i] THEN <<>> ELSE <<all[i]>>)
           step == [x \in S \X (1..n) |-> Body(x[1], x[2])]
           f == CHOOSE h : h = [i \in 0..n |-> IF i = 0 THEN <<>> ELSE Body(h[i - 1], i)]
<1>1. n \in Nat /\ <<>> \in S
  BY LenProperties, EmptySeq
<1>2. ASSUME NEW p \in S, NEW i \in 1..n PROVE Body(p, i) \in S
  <2>1. all[i] \in X
    BY ElementOfSeq
  <2>2. <<all[i]>> \in Seq(X) /\ <<>> \in Seq(X)
    BY <2>1, EmptySeq
  <2> QED
    BY <2>2, ConcatProperties
<1>3. Subtract(all, remove) = f[n]
  BY DEF Subtract
<1> HIDE DEF Body, S, n
<1>4. \A p \in S, i \in 1..n : step[<<p, i>>] = Body(p, i)
  OBVIOUS
<1>5. Passes(step, S, n)
  BY <1>2, <1>4 DEF Passes
<1> HIDE DEF step
<1>6. PICK g \in [0..n -> S] : Runs(g, step, <<>>, n)
  BY <1>1, <1>5, LoopExists
<1>7. /\ \A i \in 1..n : i - 1 \in 0..n
      /\ \A i \in 0..n : i = 0 \/ i \in 1..n
  BY <1>1
<1>8. g = [i \in 0..n |-> IF i = 0 THEN <<>> ELSE Body(g[i - 1], i)]
  BY <1>4, <1>6, <1>7 DEF Runs
<1>9. f = [i \in 0..n |-> IF i = 0 THEN <<>> ELSE Body(f[i - 1], i)]
  BY <1>8
<1> HIDE DEF f
<1>10. f[0] = <<>> /\ \A i \in 1..n : f[i] = Body(f[i - 1], i)
  BY <1>1, <1>9
<1>11. f[0] \in S /\ \A i \in 1..n : f[i - 1] \in S => f[i] \in S
  BY <1>1, <1>2, <1>10
<1>12. \A i \in 0..n : f[i] \in S
  BY <1>1, <1>11, LoopStays
<1> QED
  BY <1>1, <1>3, <1>12 DEF S

\* The columns that are asked for.
LEMMA AskedCells ==
  /\ \A cols \in ReturningLists : cols \in Seq(Cells)
  /\ <<"id">> \in Seq(Cells) /\ <<"a", "b">> \in Seq(Cells) /\ <<>> \in Seq(Cells)
  /\ <<"a">> \in Seq({"a", "b"}) /\ <<"a", "b">> \in Seq({"a", "b"}) /\ <<>> \in Seq({"a", "b"})
<1>1. {"a", "b", "id"} \subseteq Cells
  BY DEF Cells
<1>2. <<"id">> \in Seq(Cells) /\ <<"a", "b">> \in Seq(Cells) /\ <<>> \in Seq(Cells)
  BY <1>1, EmptySeq
<1>3. <<"a">> \in Seq({"a", "b"}) /\ <<"a", "b">> \in Seq({"a", "b"}) /\ <<>> \in Seq({"a", "b"})
  BY EmptySeq
<1> QED
  BY <1>2, <1>3 DEF ReturningLists

\* They can be asked for.
LEMMA CanReturnFeature == CanReturn => "Returning" \in D.feats \/ "Output" \in D.feats
BY DEF CanReturn

\* UPDATE.
LEMMA UpdateSent ==
  ASSUME IInv, NEW cols \in ReturningLists
  PROVE  Statement(UpdateStatement(cols), D)
<1> DEFINE F == D.feats
           where == RenderPreds(w.where, w.preds, Inner)
           u == [table |-> "t", set |-> w.set, from |-> w.from, where |-> where, returning |-> cols]
           failed == \/ GateFails(w.feat, D)
                     \/ \E i \in DOMAIN w.set : w.set[i].column \notin Known
                     \/ AnyBad(w.preds, D)
                     \/ where = <<>>
                     \/ cols # <<>> /\ ~CanReturn
<1>1. UpdateStatement(cols) = IF failed THEN Failed ELSE BuildUpdate(u, D)
  BY DEF UpdateStatement
<1>2. CASE failed
  BY <1>1, <1>2, FailedStatement
<1>3. CASE ~failed
  <2>1. /\ SetsOK(w.set, F) /\ w.from \in {<<>>} \cup {<<e>> : e \in Exprs(F)}
        /\ (w.from # <<>> => "UpdateFrom" \in w.feat)
        /\ w.where \in Seq(Exprs(F)) /\ PredsOK(w.preds, F)
    BY DEF IInv, WriteOK
  <2>2. w.set \in Seq(Sets(F))
    BY <1>3, <2>1, SetsKnown
  <2>3. w.from # <<>> => "UpdateFrom" \in F
    BY <1>3, <2>1 DEF GateFails, Gated
  <2>4. IsFrag(Inner, F)
    BY PlacedOK
  <2>5. where \in Seq(Exprs(F))
    BY <1>3, <2>1, <2>4, RenderedPreds
  <2>6. cols \in Seq(Cells)
    BY AskedCells
  <2>7. "t" \in Names
    BY DEF Names
  <2> HIDE DEF where
  <2>8. u \in Updates(F)
    BY <2>1, <2>2, <2>3, <2>5, <2>6, <2>7 DEF Updates
  <2> HIDE DEF u, failed
  <2>9. Statement(BuildUpdate(u, D), D)
    BY <2>8, Connection, UpdateBuilt
  <2> QED
    BY <1>1, <1>3, <2>9
<1> QED
  BY <1>2, <1>3

\* DELETE.
LEMMA DeleteSent ==
  ASSUME IInv, NEW cols \in ReturningLists
  PROVE  Statement(DeleteStatement(cols), D)
<1> DEFINE F == D.feats
           where == RenderPreds(w.where, w.preds, Inner)
           del == [table |-> "t", where |-> where, returning |-> cols]
           failed == AnyBad(w.preds, D) \/ where = <<>> \/ (cols # <<>> /\ ~CanReturn)
<1>1. DeleteStatement(cols) = IF failed THEN Failed ELSE BuildDelete(del, D)
  BY DEF DeleteStatement
<1>2. CASE failed
  BY <1>1, <1>2, FailedStatement
<1>3. CASE ~failed
  <2>1. w.where \in Seq(Exprs(F)) /\ PredsOK(w.preds, F)
    BY DEF IInv, WriteOK
  <2>2. IsFrag(Inner, F)
    BY PlacedOK
  <2>3. where \in Seq(Exprs(F))
    BY <1>3, <2>1, <2>2, RenderedPreds
  <2>4. cols \in Seq(Cells) /\ "t" \in Names
    BY AskedCells DEF Names
  <2> HIDE DEF where
  <2>5. del \in Deletes(F)
    BY <2>3, <2>4 DEF Deletes
  <2> HIDE DEF del, failed
  <2>6. Statement(BuildDelete(del, D), D)
    BY <2>5, Connection, DeleteBuilt
  <2> QED
    BY <1>1, <1>3, <2>6
<1> QED
  BY <1>2, <1>3

\* The conflict clauses.
LEMMA ConflictTargets ==
  ASSUME NEW conflict \in InsertConflicts
  PROVE  conflict \in {<<>>} \cup {<<c>> : c \in Targets}
<1>1. CASE conflict = <<>>
  BY <1>1
<1>2. CASE conflict # <<>>
  <2>1. PICK oc \in Conflicts : conflict = <<[oc EXCEPT !.update = UpdateColumns(oc)]>>
    BY <1>2 DEF InsertConflicts
  <2>2. PICK cs \in {<<>>, <<"a">>, <<"a", "b">>}, n \in BOOLEAN :
          oc = [columns |-> cs, update |-> <<>>, nothing |-> n]
    BY DEF Conflicts
  <2>3. cs \in Seq({"a", "b"})
    BY AskedCells
  <2> DEFINE update == UpdateColumns(oc)
  <2>4. update \in Seq({"a", "b"})
    <3>1. Subtract(<<"a", "b">>, oc.columns) \in Seq({"a", "b"})
      BY AskedCells, SubtractStays
    <3>2. oc.update = <<>>
      BY <2>2
    <3> QED
      BY <3>1, <3>2, AskedCells DEF UpdateColumns
  <2> HIDE DEF update
  <2>5. [oc EXCEPT !.update = update] = [columns |-> cs, update |-> update, nothing |-> n]
    BY <2>2
  <2>6. [oc EXCEPT !.update = update] \in Targets
    BY <2>3, <2>4, <2>5 DEF Targets
  <2> QED
    BY <2>1, <2>6 DEF update
<1> QED
  BY <1>1, <1>2

\* INSERT.
LEMMA InsertSent ==
  ASSUME IInv, NEW conflict \in InsertConflicts
  PROVE  Statement(InsertStatement(conflict), D)
<1> DEFINE F == D.feats
           columns == <<"a", "b">>
           returning == IF CanReturn THEN <<"id">> ELSE <<>>
           ins == [table |-> "t", columns |-> columns, rows |-> w.rows, conflict |-> conflict,
                   returning |-> returning]
<1>1. w.rows \in Seq(Seq(Nat))
  BY DEF IInv, WriteOK
<1>2. conflict \in {<<>>} \cup {<<c>> : c \in Targets}
  BY ConflictTargets
<1>3. returning \in Seq(Cells) /\ columns \in Seq(Cells)
  BY AskedCells
<1>4. returning # <<>> => "Returning" \in F \/ "Output" \in F
  BY CanReturnFeature
<1>5. "t" \in Names
  BY DEF Names
<1>6. InsertStatement(conflict) = BuildInsert(ins, D)
  BY DEF InsertStatement
<1> HIDE DEF columns, returning
<1>7. ins \in Inserts(F)
  BY <1>1, <1>2, <1>3, <1>4, <1>5 DEF Inserts
<1> HIDE DEF ins
<1> QED
  BY <1>6, <1>7, Connection, InsertBuilt

\* The statements that write leave the builders as they are.
LEMMA WriteTerminals ==
  ASSUME IInv, UpdateRows \/ DeleteRows \/ InsertRows
  PROVE  IInv'
<1>1. ASSUME NEW by, NEW st, Statement(st, D), Terminal(by, st), UNCHANGED b PROVE IInv'
  <2>1. b' = b
    BY <1>1
  <2>2. b' = [y \in {"outer", "inner"} |-> b'[y]]
        /\ \A y \in {"outer", "inner"} : BuilderOK(b'[y], Holds(y, D.feats), D.feats)
    BY <2>1 DEF IInv
  <2> QED
    BY <1>1, <2>2, TerminalStep
<1>2. CASE UpdateRows
  <2>1. PICK cols \in ReturningLists : Terminal("Update", UpdateStatement(cols)) /\ UNCHANGED b
    BY <1>2 DEF UpdateRows
  <2> QED
    BY <1>1, <2>1, UpdateSent
<1>3. CASE DeleteRows
  <2>1. PICK cols \in ReturningLists : Terminal("Delete", DeleteStatement(cols)) /\ UNCHANGED b
    BY <1>3 DEF DeleteRows
  <2> QED
    BY <1>1, <2>1, DeleteSent
<1>4. CASE InsertRows
  <2>1. PICK conflict \in InsertConflicts :
          Terminal("Insert", InsertStatement(conflict)) /\ UNCHANGED b
    BY <1>4 DEF InsertRows
  <2> QED
    BY <1>1, <2>1, InsertSent
<1> QED
  BY <1>2, <1>3, <1>4


(***************************************************************************)
(* The terminals of a select.                                              *)
(***************************************************************************)
\* The fields that Into projects: two or three of them at most.
LEMMA FieldLists ==
  ASSUME NEW F
  PROVE  /\ \A f : FieldOK(f, F) => FieldsOK(<<f>>, F)
         /\ \A f, g : FieldOK(f, F) /\ FieldOK(g, F) => FieldsOK(<<f, g>>, F)
         /\ \A f, g, h : FieldOK(f, F) /\ FieldOK(g, F) /\ FieldOK(h, F) => FieldsOK(<<f, g, h>>, F)
<1>1. ASSUME NEW f, FieldOK(f, F) PROVE FieldsOK(<<f>>, F)
  <2>1. FieldsFrom({f}, <<f>>, F)
    BY <1>1 DEF FieldsFrom
  <2> QED
    BY <2>1 DEF FieldsOK
<1>2. ASSUME NEW f, NEW g, FieldOK(f, F), FieldOK(g, F) PROVE FieldsOK(<<f, g>>, F)
  <2>1. FieldsFrom({f, g}, <<f, g>>, F)
    BY <1>2 DEF FieldsFrom
  <2> QED
    BY <2>1 DEF FieldsOK
<1>3. ASSUME NEW f, NEW g, NEW h, FieldOK(f, F), FieldOK(g, F), FieldOK(h, F)
      PROVE  FieldsOK(<<f, g, h>>, F)
  <2>1. FieldsFrom({f, g, h}, <<f, g, h>>, F)
    BY <1>3 DEF FieldsFrom
  <2> QED
    BY <2>1 DEF FieldsOK
<1> QED
  BY <1>1, <1>2, <1>3

\* The calls: their fields pass or are refused.
LEMMA ReadFields ==
  ASSUME NEW F, NEW q \in ReadCalls
  PROVE  /\ FieldsOK(q.fields, F)
         /\ q.by \in {"All", "First", "Count", "PluckExpr", "Into", "Pluck", "Sum"}
         /\ q.by = "Sum" => \E c \in {"a", "zz"} : q.fields = <<Name(c)>>
<1> DEFINE sub == b["inner"]
           lists == {<<Name("a"), ScalarSubquery(sub), ExistsField(sub)>>,
                     <<AggField("a"), WindowField("a", "b")>>, <<WindowField("a", "zz")>>}
<1>1. /\ FieldOK(Name("a"), F) /\ FieldOK(Name("zz"), F) /\ FieldOK(AggField("a"), F)
      /\ FieldOK(WindowField("a", "b"), F) /\ FieldOK(WindowField("a", "zz"), F)
      /\ FieldOK(ScalarSubquery(sub), F) /\ FieldOK(ExistsField(sub), F)
  BY NameOK, WindowOK, SubFieldOK
<1>2. ASSUME NEW fs \in lists PROVE FieldsOK(fs, F)
  BY <1>1, FieldLists
<1>3. ASSUME NEW c \in {"a", "zz"} PROVE FieldsOK(<<Name(c)>>, F)
  BY <1>1, FieldLists
<1>4. FieldsOK(<<>>, F)
  BY FieldMore
<1>5. CASE \E by \in {"All", "First", "Count", "PluckExpr"} : q = Read(by, <<>>)
  BY <1>4, <1>5 DEF Read
<1>6. CASE \E fs \in lists : q = Read("Into", fs)
  <2>1. PICK fs \in lists : q = Read("Into", fs)
    BY <1>6
  <2> HIDE DEF lists
  <2>2. q.by = "Into" /\ q.fields = fs
    BY <2>1 DEF Read
  <2> QED
    BY <1>2, <2>2
<1>7. CASE \E by \in {"Pluck", "Sum"}, c \in {"a", "zz"} : q = Read(by, <<Name(c)>>)
  <2>1. PICK by \in {"Pluck", "Sum"}, c \in {"a", "zz"} : q = Read(by, <<Name(c)>>)
    BY <1>7
  <2>2. q.by = by /\ q.fields = <<Name(c)>>
    BY <2>1 DEF Read
  <2> QED
    BY <1>3, <2>2
<1>8. \/ \E by \in {"All", "First", "Count", "PluckExpr"} : q = Read(by, <<>>)
      \/ \E fs \in lists : q = Read("Into", fs)
      \/ \E by \in {"Pluck", "Sum"}, c \in {"a", "zz"} : q = Read(by, <<Name(c)>>)
  BY DEF ReadCalls
<1> QED
  BY <1>5, <1>6, <1>7, <1>8

\* Without its order, its limit and its lock.
LEMMA UnorderedStays ==
  ASSUME NEW F, NEW s \in Selects(F)
  PROVE  Unordered(s) \in Selects(F)
<1> DEFINE S == Selects(F)
           none == FALSE
           s1 == [s EXCEPT !.orderBy = <<>>]
           s2 == [s1 EXCEPT !.hasLimit = none]
           s3 == [s2 EXCEPT !.hasOffset = none]
           s4 == [s3 EXCEPT !.lock = NoLock]
<1>1. Unordered(s) = s4
  BY DEF Unordered
<1>2. \A t \in S : Edits(t, S, F)
  BY HeldEdits DEF Holds
<1>3. <<>> \in Terms(F) /\ NoLock \in Locks /\ none \in BOOLEAN
  BY EmptySeq DEF Terms, NoLock, Locks
<1> HIDE DEF S, none
<1>4. s1 \in S
  BY <1>2, <1>3 DEF Edits, S
<1> HIDE DEF s1
<1>5. s2 \in S
  BY <1>2, <1>3, <1>4 DEF Edits
<1> HIDE DEF s2
<1>6. s3 \in S
  BY <1>2, <1>3, <1>5 DEF Edits
<1> HIDE DEF s3
<1>7. s4 \in S
  BY <1>2, <1>3, <1>6 DEF Edits
<1> QED
  BY <1>1, <1>7 DEF S

\* With one projection instead of the columns, or with expressions instead of them.
LEMMA ProjectedStays ==
  ASSUME NEW F, NEW s \in Selects(F)
  PROVE  /\ \A ts \in Terms(F) : [s EXCEPT !.columns = <<>>, !.projection = ts] \in Selects(F)
         /\ \A es \in Seq(Exprs(F)) : [s EXCEPT !.columns = <<>>, !.exprs = es] \in Selects(F)
<1> DEFINE S == Selects(F)
           s1 == [s EXCEPT !.columns = <<>>]
<1>1. \A t \in S : Edits(t, S, F)
  BY HeldEdits DEF Holds
<1>2. <<>> \in Columns
  BY EmptySeq DEF Columns
<1>3. s1 \in S
  BY <1>1, <1>2 DEF Edits
<1>4. ASSUME NEW ts \in Terms(F)
      PROVE  [s EXCEPT !.columns = <<>>, !.projection = ts] = [s1 EXCEPT !.projection = ts]
  OBVIOUS
<1>5. ASSUME NEW es \in Seq(Exprs(F))
      PROVE  [s EXCEPT !.columns = <<>>, !.exprs = es] = [s1 EXCEPT !.exprs = es]
  OBVIOUS
<1> HIDE DEF S, s1
<1>6. /\ \A ts \in Terms(F) : [s1 EXCEPT !.projection = ts] \in S
      /\ \A es \in Seq(Exprs(F)) : [s1 EXCEPT !.exprs = es] \in S
  BY <1>1, <1>3 DEF Edits
<1> QED
  BY <1>4, <1>5, <1>6 DEF S

\* What a terminal makes of the select, when its fields pass.
LEMMA ShapedStays ==
  ASSUME IInv, NEW F, NEW q \in ReadCalls, \A i \in DOMAIN q.fields : ~BadField(q.fields[i]),
         NEW s \in Selects(F), NEW frag, IsFrag(frag, F)
  PROVE  Shaped(q, s, frag) \in Selects(F)
<1>1. /\ FieldsOK(q.fields, F)
      /\ q.by \in {"All", "First", "Count", "PluckExpr", "Into", "Pluck", "Sum"}
      /\ q.by = "Sum" => \E c \in {"a", "zz"} : q.fields = <<Name(c)>>
  BY ReadFields
<1>2. Unordered(s) \in Selects(F)
  BY UnorderedStays
<1>3. CASE q.by = "All"
  BY <1>3 DEF Shaped
<1>4. CASE q.by = "First"
  <2> DEFINE yes == TRUE
  <2>1. Shaped(q, s, frag) = [s EXCEPT !.hasLimit = yes]
    BY <1>4 DEF Shaped
  <2>2. yes \in BOOLEAN
    OBVIOUS
  <2> HIDE DEF yes
  <2>3. Edits(s, Selects(F), F)
    BY HeldEdits DEF Holds
  <2> QED
    BY <2>1, <2>2, <2>3 DEF Edits
<1>5. CASE q.by = "Count"
  <2> DEFINE ts == <<Words(<<"count(*)">>)>>
             counted == [Unordered(s) EXCEPT !.columns = <<>>, !.projection = ts]
  <2>1. Shaped(q, s, frag) = IF IsDerivedCount(s) THEN Unordered(s) ELSE counted
    BY <1>5 DEF Shaped
  <2>2. "count(*)" \in WordsOf(F)
    BY CommonWords DEF Common
  <2>3. <<"count(*)">> \in Seq(WordsOf(F))
    BY <2>2
  <2>4. Words(<<"count(*)">>) \in Seq(Plain(F))
    BY <2>3, WordsPlain
  <2>5. ts \in Terms(F)
    BY <2>4 DEF Terms
  <2> HIDE DEF ts
  <2>6. counted \in Selects(F)
    BY <1>2, <2>5, ProjectedStays
  <2> QED
    BY <1>2, <2>1, <2>6
<1>6. CASE q.by = "Sum"
  <2>1. PICK c \in {"a", "zz"} : q.fields = <<Name(c)>>
    BY <1>1, <1>6
  <2>2. q.fields[1] = Name(c) /\ 1 \in DOMAIN q.fields
    BY <2>1
  <2>3. ~BadField(Name(c)) /\ Name(c).cols = <<c>>
    BY <2>2 DEF Name, Field
  <2>4. c = "a"
    BY <2>3 DEF BadField, UnknownIn, Known
  <2> DEFINE words == <<"SUM", "(">> \o q.fields[1].cols \o <<")">>
             ts == <<Words(words)>>
             sum == [Unordered(s) EXCEPT !.columns = <<>>, !.projection = ts]
  <2>5. Shaped(q, s, frag) = sum
    BY <1>6 DEF Shaped
  <2>6. {"SUM", "(", "a", ")"} \subseteq WordsOf(F)
    BY CommonWords DEF Common
  <2>7. <<"SUM", "(">> \in Seq(WordsOf(F)) /\ <<c>> \in Seq(WordsOf(F)) /\ <<")">> \in Seq(WordsOf(F))
    BY <2>4, <2>6
  <2>8. words \in Seq(WordsOf(F))
    BY <2>2, <2>3, <2>7, ConcatProperties
  <2> HIDE DEF words
  <2>9. Words(words) \in Seq(Plain(F))
    BY <2>8, WordsPlain
  <2>10. ts \in Terms(F)
    BY <2>9 DEF Terms
  <2> HIDE DEF ts
  <2>11. sum \in Selects(F)
    BY <1>2, <2>10, ProjectedStays
  <2> QED
    BY <2>5, <2>11
<1>7. CASE q.by \in {"Into", "Pluck", "PluckExpr"}
  <2> DEFINE es == Projection(q, frag)
             read == [s EXCEPT !.columns = <<>>, !.exprs = es]
  <2>1. Shaped(q, s, frag) = read
    BY <1>7 DEF Shaped
  <2>2. ASSUME q.by = "PluckExpr" PROVE es \in Seq(Exprs(F))
    <3>1. V(1) \in Nat
      BY DEF V, IInv
    <3>2. RawCmp("a", V(1)) \in Exprs(F)
      BY <3>1, RawFragments
    <3>3. <<RawCmp("a", V(1))>> \in Seq(Exprs(F))
      BY <3>2
    <3> QED
      BY <2>2, <3>3 DEF Projection
  <2>3. ASSUME q.by # "PluckExpr" PROVE es \in Seq(Exprs(F))
    <3>1. es = [i \in DOMAIN q.fields |-> RenderField(q.fields[i], frag)]
      BY <2>3 DEF Projection
    <3> QED
      BY <1>1, <3>1, FieldTexts
  <2>4. es \in Seq(Exprs(F))
    BY <2>2, <2>3
  <2> HIDE DEF es
  <2>5. read \in Selects(F)
    BY <2>4, ProjectedStays
  <2> QED
    BY <2>1, <2>5
<1> QED
  BY <1>1, <1>3, <1>4, <1>5, <1>6, <1>7

\* The count of the rows of a statement.
LEMMA DerivedStays ==
  ASSUME IInv, NEW st, Statement(st, D), st = [err |-> FALSE, sql |-> st.sql, args |-> st.args]
  PROVE  Statement(Derived(st), D)
<1> DEFINE F == D.feats
           before == Words(<<"SELECT", "count(*)", "FROM", "(">>)
           after == Words(<<")", "AS", "_cnt">>)
           T == Seq(Tokens(F))
<1>1. D.qmark = FALSE
  BY Connection
<1>2. {"SELECT", "count(*)", "FROM", "(", ")", "AS", "_cnt"} \subseteq WordsOf(F)
  BY CommonWords DEF Common
<1>3. <<"SELECT", "count(*)", "FROM", "(">> \in Seq(WordsOf(F)) /\ <<")", "AS", "_cnt">> \in Seq(WordsOf(F))
  BY <1>2
<1>4. before \in Seq(Plain(F)) /\ after \in Seq(Plain(F))
  BY <1>3, WordsPlain
<1>5. before \in T /\ after \in T
  BY <1>4, PlainTokens
<1>6. st.sql \in T /\ st.args \in Seq(Nat) /\ InPlace(FALSE, 1, st.sql, st.args)
  BY <1>1 DEF Statement
<1>7. Derived(st).sql = before \o st.sql \o after /\ Derived(st).args = st.args
  BY DEF Derived
<1> HIDE DEF before, after
<1>8. <<>> \in Seq(Nat) /\ Len(<<>>) = 0 /\ <<>> \o st.args = st.args /\ st.args \o <<>> = st.args
      /\ Len(st.args) \in Nat /\ 1 + Len(<<>>) = 1
  BY <1>6, EmptySeq, ConcatEmptySeq, LenProperties
<1>9. before \o st.sql \in T /\ InPlace(FALSE, 1, before \o st.sql, st.args)
  <2>1. InPlace(FALSE, 1, before, <<>>)
    BY <1>4, NoPlace
  <2>2. InPlace(FALSE, 1 + Len(<<>>), st.sql, st.args)
    <3> DEFINE one == 1 + Len(<<>>)
    <3>1. one = 1
      BY <1>8
    <3> HIDE DEF one
    <3>2. InPlace(FALSE, one, st.sql, st.args)
      BY <1>6, <3>1
    <3> QED
      BY <3>2 DEF one
  <2>3. InPlace(FALSE, 1, before \o st.sql, <<>> \o st.args)
    BY <1>5, <1>6, <1>8, <2>1, <2>2, PlacesJoin
  <2> QED
    BY <1>5, <1>6, <1>8, <2>3, ConcatProperties
<1> DEFINE both == before \o st.sql
<1>10. both \in T /\ InPlace(FALSE, 1, both, st.args)
  BY <1>9
<1>11. Derived(st).sql = both \o after
  BY <1>7
<1> HIDE DEF both
<1>12. both \o after \in T /\ InPlace(FALSE, 1, both \o after, st.args)
  <2>1. InPlace(FALSE, 1 + Len(st.args), after, <<>>)
    BY <1>4, NoPlace
  <2>2. InPlace(FALSE, 1, both \o after, st.args \o <<>>)
    BY <1>5, <1>6, <1>8, <1>10, <2>1, PlacesJoin
  <2> QED
    BY <1>5, <1>8, <1>10, <2>2, ConcatProperties
<1> QED
  BY <1>1, <1>6, <1>7, <1>11, <1>12 DEF Statement

\* What is sent.
LEMMA ReadSent ==
  ASSUME IInv, NEW q \in ReadCalls
  PROVE  Statement(ReadStatement(q), D)
<1> DEFINE frag == Inner
           r == Resolved(b["outer"], D, frag)
           shape == Shaped(q, r.sel, frag)
           st == BuildSelect(shape, D)
           failed == \/ \E i \in DOMAIN q.fields : BadField(q.fields[i])
                     \/ r.err
                     \/ q.by = "Sum" /\ IsGrouped(r.sel)
           counts == q.by = "Count" /\ IsDerivedCount(r.sel)
<1>1. ReadStatement(q) = IF failed THEN Failed ELSE IF counts THEN Derived(st) ELSE st
  BY DEF ReadStatement
<1>2. CASE failed
  BY <1>1, <1>2, FailedStatement
<1>3. CASE ~failed
  <2>1. IsFrag(frag, D.feats)
    BY PlacedOK
  <2>2. r.sel \in Selects(D.feats)
    <3>1. BuilderOK(b["outer"], Shapes(D.feats, Withs(D.feats), Froms(D.feats), Unions(D.feats)), D.feats)
      BY DEF IInv, Holds, Selects
    <3>2. ~r.err
      BY <1>3
    <3> HIDE DEF frag
    <3> QED
      BY <2>1, <3>1, <3>2, ResolvedStays DEF Selects
  <2>3. \A i \in DOMAIN q.fields : ~BadField(q.fields[i])
    BY <1>3
  <2> HIDE DEF r, frag
  <2>4. shape \in Selects(D.feats)
    BY <2>1, <2>2, <2>3, ShapedStays
  <2> HIDE DEF shape
  <2>5. Statement(st, D)
    BY <2>4, Connection, SelectBuilt
  <2>6. st = [err |-> FALSE, sql |-> st.sql, args |-> st.args]
    BY DEF BuildSelect, Built
  <2> HIDE DEF st
  <2>7. Statement(Derived(st), D)
    BY <2>5, <2>6, DerivedStays
  <2> HIDE DEF failed, counts
  <2> QED
    BY <1>1, <1>3, <2>5, <2>7
<1> QED
  BY <1>2, <1>3

\* The mark it leaves: First limits the builder.
LEMMA ReadTerminals ==
  ASSUME IInv, ReadRows
  PROVE  IInv'
<1>1. PICK q \in ReadCalls : /\ Terminal(q.by, ReadStatement(q))
                             /\ b' = [b EXCEPT !["outer"].sel.hasLimit = @ \/ q.by = "First"]
  BY DEF ReadRows
<1> DEFINE F == D.feats
           y == b["outer"]
           limit == y.sel.hasLimit \/ q.by = "First"
           sel == [y.sel EXCEPT !.hasLimit = limit]
           new == [y EXCEPT !.sel = sel]
<1>2. b' = [b EXCEPT !["outer"] = new]
  BY <1>1
<1>3. \A z \in {"outer", "inner"} : BuilderOK(b[z], Holds(z, F), F)
  BY DEF IInv
<1>4. b = [z \in {"outer", "inner"} |-> b[z]]
  BY DEF IInv
<1>5. y.feat \cap Gated \subseteq F => sel \in Holds("outer", F)
  <2> SUFFICES ASSUME y.feat \cap Gated \subseteq F PROVE sel \in Holds("outer", F)
    OBVIOUS
  <2>1. y.sel \in Holds("outer", F)
    BY <1>3 DEF BuilderOK
  <2>2. Edits(y.sel, Holds("outer", F), F)
    BY <2>1, HeldEdits
  <2>3. limit \in BOOLEAN
    OBVIOUS
  <2> HIDE DEF limit
  <2> QED
    BY <2>2, <2>3 DEF Edits
<1>6. BuilderOK(new, Holds("outer", F), F)
  <2>1. BuilderOK(y, Holds("outer", F), F)
    BY <1>3
  <2> HIDE DEF sel, y
  <2>2. new = [sel |-> sel, preds |-> y.preds, order |-> y.order, group |-> y.group,
               distinctOn |-> y.distinctOn, feat |-> y.feat, err |-> y.err]
    BY <2>1, Rebuilt DEF BuilderOK
  <2>3. y.feat \cup {} = y.feat
    OBVIOUS
  <2>4. BuilderOK([sel |-> sel, preds |-> y.preds, order |-> y.order, group |-> y.group,
                   distinctOn |-> y.distinctOn, feat |-> y.feat \cup {}, err |-> y.err],
                  Holds("outer", F), F)
    BY <1>5, <2>1, <2>3, Grown
  <2> QED
    BY <2>2, <2>3, <2>4
<1> HIDE DEF new, F
<1>7. b' = [z \in {"outer", "inner"} |-> IF z = "outer" THEN new ELSE b[z]]
  BY <1>2, <1>4
<1>8. /\ b' = [z \in {"outer", "inner"} |-> b'[z]]
      /\ \A z \in {"outer", "inner"} : BuilderOK(b'[z], Holds(z, F), F)
  BY <1>3, <1>6, <1>7
<1>9. Statement(ReadStatement(q), D)
  BY ReadSent
<1> QED
  BY <1>1, <1>8, <1>9, TerminalStep DEF F

(***************************************************************************)
(* Every step, and what follows.                                           *)
(***************************************************************************)
\* A call on a builder.
LEMMA OnBuilderCalls ==
  ASSUME IInv, NEW x \in {"outer", "inner"}, OnBuilder(x)
  PROVE  IInv'
<1>1. CASE \/ Where(x) \/ Scope(x) \/ Distinct(x) \/ Having(x) \/ Limit(x) \/ Offset(x)
           \/ Project(x) \/ Join(x) \/ From(x)
  BY <1>1, ClauseCalls
<1>2. CASE Filter(x) \/ GroupBy(x) \/ OrderBy(x) \/ DistinctOn(x)
  BY <1>2, PartCalls
<1>3. CASE Lock(x) \/ SkipLocked(x) \/ NoWait(x)
  BY <1>3, LockCalls
<1> QED
  BY <1>1, <1>2, <1>3 DEF OnBuilder

\* A builder is used again; nothing happens.
LEMMA Again == ASSUME IInv, UseAgain \/ UNCHANGED vars PROVE IInv'
<1>1. CASE UseAgain
  <2>1. /\ dialect' = dialect /\ used' = used /\ b' = b /\ w' = w /\ sent' = Unsent
    BY <1>1 DEF UseAgain
  <2>2. D' = D
    BY <2>1 DEF D
  <2>3. Statement(sent', D')
    BY <2>1, UnsentOK
  <2>4. /\ dialect' \in DOMAIN Features /\ used' \in Nat
        /\ b' = [x \in {"outer", "inner"} |-> b'[x]]
        /\ \A x \in {"outer", "inner"} : BuilderOK(b'[x], Holds(x, D'.feats), D'.feats)
        /\ WriteOK(w', D'.feats)
    BY <2>1, <2>2 DEF IInv
  <2> QED
    BY <2>3, <2>4 DEF IInv
<1>2. CASE UNCHANGED vars
  BY <1>2 DEF vars, IInv, D
<1> QED
  BY <1>1, <1>2

\* The invariant is inductive.
THEOREM BuildersWellFormed == Spec => []IInv
<1>1. Init => IInv
  BY Initially
<1>2. IInv /\ [Next]_vars => IInv'
  <2> SUFFICES ASSUME IInv, [Next]_vars PROVE IInv'
    OBVIOUS
  <2>1. CASE \E x \in {"outer", "inner"} : OnBuilder(x)
    BY <2>1, OnBuilderCalls
  <2>2. CASE With
    BY <2>2, WithCall
  <2>3. CASE FromSubquery
    BY <2>3, FromCall
  <2>4. CASE JoinSub
    BY <2>4, JoinCall
  <2>5. CASE Compound
    BY <2>5, CompoundCall
  <2>6. CASE Set \/ WriteWhere \/ WriteFilter \/ WriteFrom \/ AddRow
    BY <2>6, WriteCalls
  <2>7. CASE ReadRows
    BY <2>7, ReadTerminals
  <2>8. CASE UpdateRows \/ DeleteRows \/ InsertRows
    BY <2>8, WriteTerminals
  <2>9. CASE UseAgain \/ UNCHANGED vars
    BY <2>9, Again
  <2> QED
    BY <2>1, <2>2, <2>3, <2>4, <2>5, <2>6, <2>7, <2>8, <2>9 DEF Next
<1> QED
  BY <1>1, <1>2, PTL DEF Spec

\* Where the k-th argument stands, the statement has its k-th placeholder.
LEMMA ArgumentsInPlace == IInv => BindsInPlace
<1> SUFFICES ASSUME IInv PROVE BindsInPlace
  OBVIOUS
<1> DEFINE sql == sent.sql
           args == sent.args
           places == {i \in DOMAIN sql : sql[i].w \in {"$", "?"}}
<1>1. sql \in Seq(Tokens(D.feats)) /\ args \in Seq(Nat) /\ InPlace(FALSE, 1, sql, args)
  BY Connection DEF IInv, Statement
<1>2. PICK pos : Positions(pos, FALSE, 1, sql, args)
  BY <1>1 DEF InPlace
<1>3. /\ Len(args) \in Nat /\ Len(sql) \in Nat
      /\ DOMAIN args = 1..Len(args) /\ DOMAIN sql = 1..Len(sql)
  BY <1>1, LenProperties
<1>4. places = {i \in 1..Len(sql) : IsPlace(sql[i])}
  BY <1>3 DEF IsPlace
<1>5. BindsInPlace <=> /\ \A i \in places : \E k \in DOMAIN args : sql[i] = Bind(k, args[k])
                       /\ \A k \in DOMAIN args : \E i \in places : sql[i].n = k
                       /\ \A i, j \in places : i < j => sql[i].n < sql[j].n
  BY DEF BindsInPlace
<1> HIDE DEF sql, args, places
<1>6. ASSUME NEW k \in 1..Len(args)
      PROVE  sql[pos[k]] = Bind(k, args[k]) /\ sql[pos[k]].n = k /\ pos[k] \in places /\ pos[k] \in Nat
  <2>1. sql[pos[k]] = Spot(FALSE, 1 + k - 1, args[k]) /\ pos[k] \in 1..Len(sql)
    BY <1>2 DEF Positions
  <2>2. 1 + k - 1 = k
    BY <1>3
  <2>3. sql[pos[k]] = Bind(k, args[k])
    BY <2>1, <2>2 DEF Spot
  <2>4. sql[pos[k]].w = "$" /\ sql[pos[k]].n = k
    BY <2>3 DEF Bind
  <2>5. pos[k] \in places
    BY <1>4, <2>1, <2>4 DEF IsPlace
  <2>6. 1..Len(sql) \subseteq Nat
    BY <1>3
  <2> QED
    BY <2>1, <2>3, <2>4, <2>5, <2>6
<1>7. ASSUME NEW i \in places PROVE \E k \in 1..Len(args) : pos[k] = i
  BY <1>2, <1>4 DEF Positions
<1>8. ASSUME NEW i \in places, NEW j \in places, i < j PROVE sql[i].n < sql[j].n
  <2>1. PICK k \in 1..Len(args) : pos[k] = i
    BY <1>7
  <2>2. PICK l \in 1..Len(args) : pos[l] = j
    BY <1>7
  <2>3. sql[i].n = k /\ sql[j].n = l
    BY <1>6, <2>1, <2>2
  <2>4. l < k => pos[l] < pos[k]
    BY <1>2 DEF Positions
  <2>5. k \in Nat /\ l \in Nat /\ i \in Nat /\ j \in Nat
    BY <1>3, <1>6, <2>1, <2>2
  <2>6. k < l
    BY <1>8, <2>1, <2>2, <2>4, <2>5
  <2> QED
    BY <2>3, <2>6
<1> QED
  BY <1>3, <1>5, <1>6, <1>7, <1>8

\* The server takes for every placeholder the value the program gave there, through
\* whatever clauses, subqueries and arms it came (BindsInPlace).
THEOREM ValuesInPlace == Spec => []BindsInPlace
<1> QED
  BY BuildersWellFormed, ArgumentsInPlace, PTL

\* The words of a statement.
LEMMA SentWords ==
  ASSUME IInv, NEW i \in DOMAIN sent.sql
  PROVE  sent.sql[i].w \in {"?", "$"} \/ Granted(D.feats, sent.sql[i].w)
<1>1. sent.sql \in Seq(Tokens(D.feats))
  BY DEF IInv, Statement
<1>2. sent.sql[i] \in Tokens(D.feats)
  BY <1>1, LenProperties, ElementOfSeq
<1>3. CASE sent.sql[i] \in Plain(D.feats)
  <2>1. sent.sql[i].w \in WordsOf(D.feats)
    BY <1>3 DEF Plain
  <2> QED
    BY <2>1, WordsGranted
<1> QED
  BY <1>2, <1>3 DEF Tokens

\* No clause is sent to an engine that lacks it (FeaturesGated).
THEOREM GatesHold == Spec => []FeaturesGated
<1>1. IInv => FeaturesGated
  <2> SUFFICES ASSUME IInv, NEW i \in DOMAIN sent.sql, NEW feat \in DOMAIN Needs,
                      sent.sql[i].w \in Needs[feat]
               PROVE  feat \in D.feats
    BY DEF FeaturesGated
  <2>1. ~(sent.sql[i].w \in {"?", "$"})
    BY DEF Needs
  <2> QED
    BY <2>1, SentWords DEF Granted
<1> QED
  BY <1>1, BuildersWellFormed, PTL

\* No column the model does not have is sent (NothingUnknownSent).
THEOREM ColumnsKnown == Spec => []NothingUnknownSent
<1>1. IInv => NothingUnknownSent
  BY SentWords DEF NothingUnknownSent, Granted
<1> QED
  BY <1>1, BuildersWellFormed, PTL

====
