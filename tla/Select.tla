-------------------------------- MODULE Select --------------------------------
(***************************************************************************)
(* Sharded queries: the columns added to the field list, the LIMIT that is *)
(* pushed down, and the merging of the sub-tables' results                 *)
(* (proxy/plan/plan_select.go, decorator_limit.go, merge_result.go,        *)
(* mysql/resultset_sort.go).                                               *)
(*                                                                         *)
(* A query is [fields, group, having, order, limit, distinct].  A field is *)
(* [k |-> "col", col, as, q] (q: written with its table), [k |-> "agg", f, *)
(* col, as, once] (once: written with DISTINCT), [k |-> "star"] or         *)
(* [k |-> "expr", as].  An item of GROUP BY is [k, col, q] with k "col",   *)
(* "database" or "expr", one of ORDER BY has desc, too; having is <<>> or  *)
(* <<name, v>>, the condition name > v; limit is <<>>, <<count>> or        *)
(* <<offset, count>>.  A value is [t, v] with the type the driver gave it. *)
(***************************************************************************)
EXTENDS Shards

Null == [t |-> "null", v |-> 0]

-----------------------------------------------------------------------------
(* The plan.                                                               *)

\* The name of the function alone decides: its DISTINCT is not looked at.
CreateAggregateFunctionMerger(f) == f \in {"count", "sum", "max", "min"}

\* A column written with its table has been replaced by a decorator, which
\* is no column any more.
IsColumn(f) == f.k = "col" /\ ~f.q

\* The original fields by their alias and by their column; later ones win.
selectFields(fields) ==
  LET names(f) == (IF f.k # "star" /\ f.as # "" THEN {f.as} ELSE {}) \cup (IF IsColumn(f) THEN {f.col} ELSE {})
      of(n) == {i \in DOMAIN fields : n \in names(fields[i])}
  IN  [n \in UNION {names(fields[i]) : i \in DOMAIN fields} |->
         (CHOOSE i \in of(n) : \A j \in of(n) : j <= i) - 1]

ItemsOK(items) == \A i \in DOMAIN items : items[i].k \in {"col", "database"}

AsField(item) == [k |-> item.k, col |-> item.col, q |-> item.q, as |-> ""]

\* The items that no field already is are added behind the fields; the
\* place of each item counts from 0.
handleExtraFieldList(fields, items) ==
  LET sel == selectFields(fields)
      known(i) == IsColumn(items[i]) /\ items[i].col \in DOMAIN sel
      before(i) == Cardinality({j \in 1..(i - 1) : ~known(j)})
      added == SelectSeq([i \in DOMAIN items |-> i], LAMBDA i : ~known(i))
  IN  [place |-> [i \in DOMAIN items |-> IF known(i) THEN sel[items[i].col] ELSE Len(fields) + before(i)],
       fields |-> fields \o [k \in DOMAIN added |-> AsField(items[added[k]])]]

\* Mutant: the limit is pushed down with its offset.
LimitPushedAsIs(limit) ==
  CASE limit = <<>> -> [offset |-> -1, count |-> -1, pushed |-> <<>>]
    [] Len(limit) = 1 -> [offset |-> 0, count |-> limit[1], pushed |-> limit]
    [] Len(limit) = 2 -> [offset |-> limit[1], count |-> limit[2], pushed |-> limit]

\* Offset and count the proxy applies (count -1: none), and what is pushed
\* down: enough rows from the start.
NeedRewriteLimitOrCreateRewrite(limit) ==
  CASE limit = <<>> -> [offset |-> -1, count |-> -1, pushed |-> <<>>]
    [] Len(limit) = 1 -> [offset |-> 0, count |-> limit[1], pushed |-> limit]
    [] Len(limit) = 2 ->
         IF limit[1] = 0 THEN [offset |-> 0, count |-> limit[2], pushed |-> limit]
         ELSE [offset |-> limit[1], count |-> limit[2], pushed |-> <<Int64(limit[1] + limit[2])>>]

\* The plan and the query that each sub-table is sent.  HAVING is in that
\* query, but not in the plan: nothing applies it to merged rows.
PlanSelect(s) ==
  LET items == s.group \o [i \in DOMAIN s.order |-> [k |-> s.order[i].k, col |-> s.order[i].col, q |-> s.order[i].q]]
      x == handleExtraFieldList(s.fields, items)
      limit == NeedRewriteLimitOrCreateRewrite(s.limit)
      aggs == {i \in DOMAIN s.fields : s.fields[i].k = "agg"}
  IN  IF ~ItemsOK(items) \/ \E i \in aggs : ~CreateAggregateFunctionMerger(s.fields[i].f) THEN [err |-> "error"]
      ELSE [err |-> "", distinct |-> s.distinct, grouped |-> s.group # <<>>,
            group |-> SubSeq(x.place, 1, Len(s.group)),
            order |-> SubSeq(x.place, Len(s.group) + 1, Len(items)),
            desc |-> [i \in DOMAIN s.order |-> s.order[i].desc],
            aggs |-> [i \in {j - 1 : j \in aggs} |-> s.fields[i + 1].f],
            origin |-> Len(s.fields), columns |-> Len(x.fields),
            offset |-> limit.offset, count |-> limit.count,
            query |-> [s EXCEPT !.fields = x.fields, !.limit = limit.pushed]]

-----------------------------------------------------------------------------
(* Values.                                                                 *)

\* ResultRow.GetInt, GetUint and GetFloat; a text is a number or none.
AsNumber(x) == IF x.t = "null" THEN 0 ELSE x.v

NotNumeric(x) == x.t \in {"string", "bytes"} /\ x.v = NotANumber

Set(row, i, x) == [row EXCEPT ![i + 1] = x]

MergeCount(i, from, to) ==
  IF NotNumeric(from[i + 1]) \/ NotNumeric(to[i + 1]) THEN [err |-> "error"]
  ELSE [err |-> "", row |-> Set(to, i, [t |-> "int", v |-> Int64(AsNumber(from[i + 1]) + AsNumber(to[i + 1]))])]

\* The type of the row merged into decides; texts and NULL become floats.
MergeSum(i, from, to) ==
  LET t == IF to[i + 1].t \in {"int", "uint"} THEN to[i + 1].t ELSE "float"
      n == AsNumber(from[i + 1]) + AsNumber(to[i + 1])
  IN  CASE from[i + 1] = Null -> [err |-> "", row |-> to]
        [] from[i + 1] # Null /\ (NotNumeric(from[i + 1]) \/ NotNumeric(to[i + 1])) -> [err |-> "error"]
        [] OTHER -> [err |-> "", row |-> Set(to, i, [t |-> t, v |->
                       CASE t = "int" -> Int64(n) [] t = "uint" -> Uint64(n) [] t = "float" -> n])]

\* NULL is not compared; two types are not comparable, byte slices never.
MergeExtreme(i, from, to, Beats(_, _)) ==
  LET f == from[i + 1]  o == to[i + 1]
  IN  CASE f = Null -> [err |-> "", row |-> to]
        [] f # Null /\ o = Null -> [err |-> "", row |-> Set(to, i, f)]
        [] f # Null /\ o # Null ->
             IF o.t = "bytes" THEN [err |-> "error"]
             ELSE IF f.t # o.t THEN [err |-> "panic"]
             ELSE [err |-> "", row |-> IF Beats(f.v, o.v) THEN Set(to, i, f) ELSE to]

MergeMax(i, from, to) == MergeExtreme(i, from, to, LAMBDA x, y : x > y)

MergeMin(i, from, to) == MergeExtreme(i, from, to, LAMBDA x, y : x < y)

MergeTo(f, i, from, to) ==
  IF i >= Len(from) \/ i >= Len(to) THEN [err |-> "error"]
  ELSE CASE f = "count" -> MergeCount(i, from, to)
         [] f = "sum" -> MergeSum(i, from, to)
         [] f = "max" -> MergeMax(i, from, to)
         [] f = "min" -> MergeMin(i, from, to)

\* One row after another into the first, column by column.
MergeRow(p, from, to) ==
  FoldLeft(LAMBDA a, i : IF a.err # "" THEN a ELSE MergeTo(p.aggs[i], i, from, a.row),
           [err |-> "", row |-> to], SetToSeq(DOMAIN p.aggs))

\* The text of a value, and of the key of some columns.
formatValue(x) == IF x = Null THEN <<78, 85, 76, 76>> ELSE FormatInt(x.v)

generateMapKey(values) == FlattenSeq([i \in DOMAIN values |-> formatValue(values[i]) \o <<43>>])

\* NULL first; values of two types panic.
cmpValue(x, y) ==
  CASE x = Null /\ y = Null -> 0
    [] x = Null /\ y # Null -> -1
    [] x # Null /\ y = Null -> 1
    [] x # Null /\ y # Null -> IF x.v < y.v THEN -1 ELSE IF x.v > y.v THEN 1 ELSE 0

-----------------------------------------------------------------------------
(* Merging.  A result is [err, width, rows]: the fields' number and rows.  *)

\* A star stands for more fields than one: the difference moves all places.
Delta(p, r) == r.width - p.columns

mergeMultiResultSet(rs) == [rs[1] EXCEPT !.rows = FlattenSeq([i \in DOMAIN rs |-> rs[i].rows])]

\* The first row of each key stays where it is.
FirstOfKey(rows, Key(_)) ==
  SelectSeq([i \in DOMAIN rows |-> i], LAMBDA i : ~\E j \in 1..(i - 1) : Key(rows[j]) = Key(rows[i]))

removeDistinctRowInResult(p, r) ==
  LET n == p.origin + Delta(p, r)
      kept == FirstOfKey(r.rows, LAMBDA row : generateMapKey(SubSeq(row, 1, n)))
  IN  [r EXCEPT !.rows = [k \in DOMAIN kept |-> r.rows[kept[k]]]]

\* The rows of a key are merged into its first; the map gives any order.
MergeRows(p, rows) ==
  FoldLeft(LAMBDA a, row : IF a.err # "" THEN a ELSE MergeRow(p, row, a.row), [err |-> "", row |-> rows[1]], Tail(rows))

buildSelectGroupByResult(p, r) ==
  LET key(row) == generateMapKey([i \in DOMAIN p.group |-> row[p.group[i] + Delta(p, r) + 1]])
      first == FirstOfKey(r.rows, key)
      merged == [k \in DOMAIN first |->
                   MergeRows(p, SelectSeq(r.rows, LAMBDA row : key(row) = key(r.rows[first[k]])))]
      bad == {k \in DOMAIN merged : merged[k].err # ""}
  IN  IF bad # {} THEN [r EXCEPT !.err = merged[CHOOSE k \in bad : TRUE].err]
      ELSE [r EXCEPT !.rows = [k \in DOMAIN merged |-> merged[k].row]]

\* Without a row there is none to merge into: a nil row is returned.
buildSelectOnlyResult(p, r) ==
  IF DOMAIN p.aggs = {} THEN r
  ELSE IF r.rows = <<>> THEN [r EXCEPT !.rows = <<<<>>>>]
  ELSE LET m == MergeRows(p, r.rows)
       IN  IF m.err # "" THEN [r EXCEPT !.err = m.err] ELSE [r EXCEPT !.rows = <<m.row>>]

Less(p, d, x, y) ==
  \E i \in DOMAIN p.order :
    /\ cmpValue(x[p.order[i] + d + 1], y[p.order[i] + d + 1]) = IF p.desc[i] THEN 1 ELSE -1
    /\ \A j \in 1..(i - 1) : cmpValue(x[p.order[j] + d + 1], y[p.order[j] + d + 1]) = 0

\* Of the orders sort.Sort may leave, the one that keeps equal rows in place.
sortSelectResult(p, r) ==
  LET d == Delta(p, r)
      before(i, j) == Less(p, d, r.rows[i], r.rows[j]) \/ (~Less(p, d, r.rows[j], r.rows[i]) /\ i < j)
      s == SetToSortSeq(DOMAIN r.rows, before)
      mixed == \E i, j \in DOMAIN r.rows, k \in DOMAIN p.order :
                 LET x == r.rows[i][p.order[k] + d + 1]  y == r.rows[j][p.order[k] + d + 1]
                 IN  x # Null /\ y # Null /\ x.t # y.t
  IN  IF p.order = <<>> \/ r.rows = <<>> THEN r
      ELSE IF \E i \in DOMAIN r.rows, k \in DOMAIN p.order : p.order[k] + d >= Len(r.rows[i])
      THEN [r EXCEPT !.err = IF Len(r.rows) > 1 THEN "panic" ELSE ""]
      ELSE IF mixed THEN [r EXCEPT !.err = "panic"]
      ELSE [r EXCEPT !.rows = [k \in DOMAIN s |-> r.rows[s[k]]]]

limitSelectResult(p, r) ==
  LET n == Len(r.rows)
      end == Int64(p.offset + p.count)
      to == IF end < n THEN end ELSE n
  IN  CASE p.count = -1 -> r
        [] p.count # -1 /\ p.offset >= n -> [r EXCEPT !.rows = <<>>]
        [] p.count # -1 /\ p.offset < n ->
             IF to < p.offset THEN [r EXCEPT !.err = "panic"]
             ELSE [r EXCEPT !.rows = SubSeq(r.rows, p.offset + 1, to)]

\* The added columns are cut off again; a row too short for that panics.
trimExtraFields(p, r) ==
  LET n == Delta(p, r) + p.origin
  IN  IF \E i \in DOMAIN r.rows : Len(r.rows[i]) < n THEN [r EXCEPT !.err = "panic"]
      ELSE [r EXCEPT !.width = n, !.rows = [i \in DOMAIN r.rows |-> SubSeq(r.rows[i], 1, n)]]

\* The rows as they are sent: the texts of the values.
GenerateSelectResultRowData(r) ==
  IF \E i \in DOMAIN r.rows : Len(r.rows[i]) # r.width THEN [r EXCEPT !.err = "error"]
  ELSE [r EXCEPT !.rows = [i \in DOMAIN r.rows |-> [j \in DOMAIN r.rows[i] |->
                             IF r.rows[i][j] = Null THEN Null ELSE [t |-> "text", v |-> r.rows[i][j].v]]]]

Unless(r, Step(_)) == IF r.err # "" THEN r ELSE Step(r)

MergeSelectResult(p, rs) ==
  LET r1 == mergeMultiResultSet(rs)
      r2 == IF p.distinct THEN removeDistinctRowInResult(p, r1) ELSE r1
      r3 == IF p.grouped THEN buildSelectGroupByResult(p, r2) ELSE buildSelectOnlyResult(p, r2)
      r4 == Unless(r3, LAMBDA r : sortSelectResult(p, r))
      r5 == Unless(r4, LAMBDA r : limitSelectResult(p, r))
      r6 == Unless(r5, LAMBDA r : trimExtraFields(p, r))
  IN  Unless(r6, GenerateSelectResultRowData)

\* The result when no sub-table is asked: the names are written for all
\* fields, to a list that is as long as the original ones.
newEmptyResultset(p) ==
  IF p.columns > p.origin THEN [err |-> "panic"] ELSE [err |-> "", width |-> p.origin, rows |-> <<>>]

ExecuteSelect(p, rs) == IF rs = <<>> THEN newEmptyResultset(p) ELSE MergeSelectResult(p, rs)

\* INSERT, UPDATE, DELETE: rows add up, the least id of those inserted.
MergeExecResult(rs) ==
  LET ids == {rs[i].id : i \in DOMAIN rs} \ {0}
  IN  [rows |-> FoldLeft(LAMBDA n, r : Uint64(n + r.rows), 0, rs),
       id |-> IF ids = {} THEN 0 ELSE CHOOSE x \in ids : \A y \in ids : x <= y,
       status |-> UNION {rs[i].status : i \in DOMAIN rs}]

\* UPDATE and DELETE without a sub-table answer nothing (a nil result); an id
\* that INSERT was given replaces the session's last one.
ExecuteModify(rs) == IF rs = <<>> THEN [none |-> TRUE] ELSE MergeExecResult(rs)

ExecuteInsert(rs, lastInsertID) ==
  LET r == MergeExecResult(rs)
  IN  [result |-> r, lastInsertID |-> IF r.id # 0 THEN r.id ELSE lastInsertID]

-----------------------------------------------------------------------------
(***************************************************************************)
(* What merging promises: the answer a single table holding the rows of    *)
(* all sub-tables would give.  Tables have columns "a" and "b".            *)
(***************************************************************************)

Column(c) == [k |-> "col", col |-> c, as |-> "", q |-> FALSE]

Agg(f, c, as) == [k |-> "agg", f |-> f, col |-> c, as |-> as, once |-> FALSE]

AggOnce(f, c, as) == [Agg(f, c, as) EXCEPT !.once = TRUE]

Star == [k |-> "star"]

Item(c) == [k |-> "col", col |-> c, q |-> FALSE]

By(c, desc) == [k |-> "col", col |-> c, q |-> FALSE, desc |-> desc]

Num(v) == [t |-> "int", v |-> v]

-----------------------------------------------------------------------------
(* What the database server answers.                                       *)

Present(rows, c) == SelectSeq(rows, LAMBDA r : r[c] # Null)

Aggregate(field, rows) ==
  LET f == field.f
      c == field.col
      all == Present(rows, c)
      first == FirstOfKey(all, LAMBDA r : r[c])
      vs == IF field.once THEN [i \in DOMAIN first |-> all[first[i]]] ELSE all
      nums == {vs[i][c].v : i \in DOMAIN vs}
  IN  CASE f = "count" -> Num(Len(vs))
        [] f # "count" /\ vs = <<>> -> Null
        [] f = "sum" /\ vs # <<>> -> [t |-> "float", v |-> FoldLeft(LAMBDA n, r : n + r[c].v, 0, vs)]
        [] f = "max" /\ vs # <<>> -> Num(CHOOSE x \in nums : \A y \in nums : y <= x)
        [] f = "min" /\ vs # <<>> -> Num(CHOOSE x \in nums : \A y \in nums : x <= y)

\* The fields of one group of rows, and the value of a name in it.
Output(fields, rows) ==
  FlattenSeq([i \in DOMAIN fields |->
    CASE fields[i].k = "star" -> <<rows[1]["a"], rows[1]["b"]>>
      [] fields[i].k = "col" -> <<rows[1][fields[i].col]>>
      [] fields[i].k = "agg" -> <<Aggregate(fields[i], rows)>>])

Named(fields, rows, name) ==
  IF name \in {"a", "b"} THEN rows[1][name]
  ELSE LET i == CHOOSE i \in DOMAIN fields : fields[i].k = "agg" /\ fields[i].as = name
       IN  Aggregate(fields[i], rows)

Having(q, rows) ==
  q.having = <<>> \/ LET x == Named(q.fields, rows, q.having[1]) IN x # Null /\ x.v > q.having[2]

HasAgg(q) == \E i \in DOMAIN q.fields : q.fields[i].k = "agg"

Groups(q, rows) ==
  LET key(r) == [i \in DOMAIN q.group |-> r[q.group[i].col]]
      first == FirstOfKey(rows, key)
  IN  IF q.group # <<>> THEN [k \in DOMAIN first |-> SelectSeq(rows, LAMBDA r : key(r) = key(rows[first[k]]))]
      ELSE IF HasAgg(q) THEN <<rows>>
      ELSE [i \in DOMAIN rows |-> <<rows[i]>>]

\* All answers in order, before LIMIT, each with the values it is ordered by.
Answers(q, rows) ==
  LET g == SelectSeq(Groups(q, rows), LAMBDA group : Having(q, group))
      all == [i \in DOMAIN g |-> [out |-> Output(q.fields, g[i]),
                                  key |-> [k \in DOMAIN q.order |-> Named(q.fields, g[i], q.order[k].col)]]]
      once == FirstOfKey(all, LAMBDA r : r.out)
      kept == IF q.distinct THEN [k \in DOMAIN once |-> all[once[k]]] ELSE all
      less(x, y) == \E k \in DOMAIN q.order :
                      /\ cmpValue(x.key[k], y.key[k]) = IF q.order[k].desc THEN 1 ELSE -1
                      /\ \A j \in 1..(k - 1) : x.key[j] = y.key[j]
      s == SetToSortSeq(DOMAIN kept,
                        LAMBDA i, j : less(kept[i], kept[j]) \/ (~less(kept[j], kept[i]) /\ i < j))
  IN  [k \in DOMAIN s |-> kept[s[k]]]

Window(limit, answers) ==
  CASE limit = <<>> -> answers
    [] Len(limit) = 1 -> SubSeq(answers, 1, IF limit[1] < Len(answers) THEN limit[1] ELSE Len(answers))
    [] Len(limit) = 2 -> SubSeq(answers, limit[1] + 1,
                                IF limit[1] + limit[2] < Len(answers) THEN limit[1] + limit[2] ELSE Len(answers))

Eval(q, rows) ==
  LET w == Window(q.limit, Answers(q, rows))
  IN  [err |-> "", rows |-> [k \in DOMAIN w |-> w[k].out],
       width |-> Len(q.fields) + Cardinality({i \in DOMAIN q.fields : q.fields[i].k = "star"})]

-----------------------------------------------------------------------------
(* Queries and data.                                                       *)

FieldLists == {<<Column("a")>>, <<Column("b"), Column("a")>>, <<Star>>, <<Star, Column("b")>>, <<Column("b"), Star>>,
               <<Agg("count", "b", "n")>>, <<Agg("sum", "b", ""), Agg("max", "b", "")>>,
               <<Column("a"), Agg("min", "b", ""), Agg("sum", "b", "n")>>,
               <<AggOnce("count", "b", "n")>>, <<Column("a"), AggOnce("max", "b", "n")>>}

Havings == {<<>>, <<"a", 1>>, <<"b", 1>>, <<"n", 1>>}

Orders == {<<>>, <<By("a", TRUE)>>, <<By("b", FALSE), By("a", FALSE)>>, <<By("n", TRUE)>>}

Limits == {<<>>, <<1>>, <<1, 2>>, <<0>>}

Names(q) == {q.fields[i].col : i \in {j \in DOMAIN q.fields : q.fields[j].k = "col"}} \cup
            {q.fields[i].as : i \in {j \in DOMAIN q.fields : q.fields[j].k = "agg"}} \cup
            (IF \E i \in DOMAIN q.fields : q.fields[i].k = "star" THEN {"a", "b"} ELSE {})

\* The queries that have one meaning: outside aggregates, a grouped query
\* names group columns only; what is ordered by, or asked of, has a value in
\* each answer.
WellFormed(q) ==
  LET grouped == q.group # <<>> \/ HasAgg(q)
      group == {q.group[i].col : i \in DOMAIN q.group}
      order == {q.order[i].col : i \in DOMAIN q.order}
      having == IF q.having = <<>> THEN {} ELSE {q.having[1]}
  IN  /\ having \subseteq Names(q) \cup group
      /\ grouped => Names(q) \cap {"a", "b"} \subseteq group
      /\ order \subseteq Names(q) \cup (IF q.distinct THEN {} ELSE IF grouped THEN group ELSE {"a", "b"})

SelectQueries ==
  {q \in [fields : FieldLists, group : {<<>>, <<Item("a")>>, <<Item("a"), Item("b")>>},
          having : Havings, order : Orders, limit : Limits, distinct : BOOLEAN] : WellFormed(q)}

TableRows == {[a |-> Num(1), b |-> Num(1)], [a |-> Num(1), b |-> Num(2)],
              [a |-> Num(2), b |-> Num(1)], [a |-> Num(2), b |-> Null]}

SubTables ==
  LET r == SetToSeq(TableRows)
  IN  {<<>>} \cup {<<x>> : x \in TableRows} \cup
      {<<r[k[1]], r[k[2]]>> : k \in {x \in (DOMAIN r) \X (DOMAIN r) : x[1] <= x[2]}}

-----------------------------------------------------------------------------
(* Queries whose answer is known to differ.                                *)

\* A column named by the list keeps its place there, moved by the width of
\* the star also when the star comes after it.
StarMoves(q) ==
  \E i, j \in DOMAIN q.fields :
    /\ i < j /\ q.fields[i].k = "col" /\ q.fields[j].k = "star"
    /\ \/ \E k \in DOMAIN q.order : q.order[k].col = q.fields[i].col
       \/ \E k \in DOMAIN q.group : q.group[k].col = q.fields[i].col

\* LIMIT is pushed down below the grouping.
LimitsGroups(q) == q.group # <<>> /\ q.limit # <<>> /\
                     ~({q.group[i].col : i \in DOMAIN q.group} \subseteq {q.order[i].col : i \in DOMAIN q.order})

\* Equal partial results are taken for duplicates before they are merged.
DistinctAggregates(q) == q.distinct /\ HasAgg(q)

\* COUNT and SUM with DISTINCT: a value that two sub-tables hold counts twice.
CountsTwice(q) ==
  \E i \in DOMAIN q.fields : q.fields[i].k = "agg" /\ q.fields[i].once /\ q.fields[i].f \in {"count", "sum"}

\* HAVING asks each sub-table's part of an aggregate, and nobody the whole.
HavingOfParts(q) == q.having # <<>> /\ q.having[1] \notin {"a", "b"}

KnownDifference(q) ==
  StarMoves(q) \/ LimitsGroups(q) \/ DistinctAggregates(q) \/ CountsTwice(q) \/ HavingOfParts(q)

MergedQueries == {q \in SelectQueries : ~KnownDifference(q)}

-----------------------------------------------------------------------------
Merged(q, t1, t2) ==
  LET p == PlanSelect(q)
  IN  ExecuteSelect(p, <<Eval(p.query, t1), Eval(p.query, t2)>>)

AsText(x) == IF x = Null THEN Null ELSE [t |-> "text", v |-> x.v]

\* rows is the window of the answers, up to the order of equal keys.
IsAnswer(rows, q, answers) ==
  LET w == Window(q.limit, answers)
      text(out) == [i \in DOMAIN out |-> AsText(out[i])]
      class(k) == {j \in DOMAIN answers : answers[j].key = w[k].key}
      same(k) == {j \in class(k) : text(answers[j].out) = rows[k]}
      taken(k) == {j \in DOMAIN w : w[j].key = w[k].key /\ rows[j] = rows[k]}
  IN  /\ Len(rows) = Len(w)
      /\ \A k \in DOMAIN w : Cardinality(taken(k)) <= Cardinality(same(k))

\* The merged answer of a sharded query is one that the whole table would
\* give: same rows, same order, same window (MergeSelectResult).
MergeCorrect(q, t1, t2) ==
  LET r == Merged(q, t1, t2)
  IN  r.err = "" /\ IsAnswer(r.rows, q, Answers(q, t1 \o t2))

\* What sub-tables answer to a change.
ExecResults == [rows : {0, 1, 2, 2^Width - 1}, id : {0, 3, 5}, status : {{}, {"inTrans"}}]

\* The results of a change arrive in any order: what the client is told, and
\* the id the session keeps, do not depend on it (MergeExecResult).
ExecOrderless(r1, r2) ==
  /\ ExecuteModify(<<r1, r2>>) = ExecuteModify(<<r2, r1>>)
  /\ \A last \in {0, 4} : ExecuteInsert(<<r1, r2>>, last) = ExecuteInsert(<<r2, r1>>, last)
=============================================================================
