-------------------------------- MODULE Route --------------------------------
(***************************************************************************)
(* Routing: from a statement to the sub-tables it is sent to, and how it   *)
(* is rewritten for each of them (proxy/plan).                             *)
(*                                                                         *)
(* An operand is [k |-> "col", db, table, name], [k |-> "val", key],       *)
(* [k |-> "func", name] or [k |-> "expr"].  A condition is                 *)
(*   [k |-> "and" | "or", l, r], [k |-> "cmp", op, l, r],                  *)
(*   [k |-> "in", not, e, list], [k |-> "between", not, e, lo, hi],        *)
(*   [k |-> "paren", e] or [k |-> "expr", cols], the columns of any other. *)
(* A table source is [k |-> "table", db, name, alias, partition, on] or    *)
(* [k |-> "sub", tables, alias, on]; the sources of a join are in the      *)
(* order in which they are joined, each with its ON condition or NoCond.   *)
(***************************************************************************)
EXTENDS Rules

NoCond == [k |-> "none"]

-----------------------------------------------------------------------------
(* Lists of sub-tables.                                                    *)

makeList(start, end) == [i \in 1..(end - start) |-> start + i - 1]

RECURSIVE interList(_, _)
interList(a, b) ==
  CASE a = <<>> \/ b = <<>> -> <<>>
    [] a # <<>> /\ b # <<>> ->
         CASE a[1] = b[1] -> <<a[1]>> \o interList(Tail(a), Tail(b))
           [] a[1] < b[1] -> interList(Tail(a), b)
           [] a[1] > b[1] -> interList(a, Tail(b))

RECURSIVE unionList(_, _)
unionList(a, b) ==
  CASE a = <<>> -> b
    [] a # <<>> /\ b = <<>> -> a
    [] a # <<>> /\ b # <<>> ->
         CASE a[1] < b[1] -> <<a[1]>> \o unionList(Tail(a), b)
           [] a[1] > b[1] -> <<b[1]>> \o unionList(a, Tail(b))
           [] a[1] = b[1] -> <<a[1]>> \o unionList(Tail(a), Tail(b))

sortInts(S) == SetToSortSeq(S, LAMBDA x, y : x < y)

FirstTable(r) == r.idx[1]

LastTable(r) == r.idx[Len(r.idx)]

-----------------------------------------------------------------------------
(* The tables of the statement.                                            *)

\* rules and globals: the sharded and the global tables met so far, by
\* name; route: the db, table and sub-tables they determine.
NewStmtInfo(db, router) ==
  [err |-> "", db |-> db, router |-> router, rules |-> <<>>, globals |-> <<>>, aliases |-> <<>>,
   hint |-> <<>>, rdb |-> "", rtable |-> "", idx |-> <<>>]

With(f, k, v) == [x \in DOMAIN f \cup {k} |-> IF x = k THEN v ELSE f[x]]

checkAndGetDB(p, db) == db \in {"", p.db}

getShardRule(p, db, table) ==
  IF ~checkAndGetDB(p, db) THEN Error ELSE GetShardRule(p.router, p.db, <<table>>)

\* All sharded tables of a statement have one parent, which gives the route.
RecordShardTable(p, db, table) ==
  LET r == getShardRule(p, db, table)
      q == [p EXCEPT !.rules = With(@, table, r)]
  IN  IF r.err # "" THEN Error
      ELSE IF r.type = "global" THEN [p EXCEPT !.globals = With(@, table, r)]
      ELSE IF p.rdb = "" /\ p.rtable = ""
      THEN [q EXCEPT !.rdb = r.db, !.rtable = r.parent, !.idx = r.idx]
      ELSE IF p.rdb = r.db /\ p.rtable = r.parent THEN q ELSE Error

setTableAlias(p, table, alias) ==
  IF alias \in DOMAIN p.aliases /\ p.aliases[alias] # table THEN Error
  ELSE [p EXCEPT !.aliases = With(@, alias, table)]

RecordAliasedTable(p, s) ==
  LET q == RecordShardTable(p, s.db, s.name)
  IN  IF q.err # "" \/ s.alias = "" THEN q ELSE setTableAlias(q, s.name, s.alias)

\* A subquery's tables are recorded without their aliases, and its own alias
\* stands for any of the sharded tables.
Subquery(alias) == "gaea_subquery_" \o alias

RecordSubqueryTableAlias(p, alias) ==
  IF DOMAIN p.rules = {} THEN Error
  ELSE LET q == setTableAlias(p, Subquery(alias), alias)
           r == p.rules[CHOOSE t \in DOMAIN p.rules : TRUE]
       IN  IF q.err # "" THEN q ELSE [q EXCEPT !.rules = With(@, Subquery(alias), r)]

\* Only the sharded and global tables of other subqueries are refused.
handleSubquerySelectStmt(p, s) ==
  FoldLeft(LAMBDA a, t : IF a.err # "" THEN a ELSE IF t.k = "sub" \/ t.partition THEN Error
                         ELSE RecordShardTable(a, t.db, t.name),
           p, s.tables)

rewriteTableSource(p, s) ==
  IF s.k = "table"
  THEN LET q == RecordAliasedTable(p, s) IN IF q.err = "" /\ s.partition THEN Error ELSE q
  ELSE LET q == handleSubquerySelectStmt(p, s)
       IN  IF q.err # "" \/ s.alias = "" THEN q ELSE RecordSubqueryTableAlias(q, s.alias)

\* The rule a column of a condition belongs to: err "none" when it is none's.
getSettedRuleByColumnName(p, column) ==
  LET T == {t \in DOMAIN p.rules : p.rules[t].key = column}
  IN  CASE Cardinality(T) > 1 -> Error
        [] T = {} -> [err |-> "none"]
        [] Cardinality(T) = 1 -> p.rules[CHOOSE t \in T : TRUE]

getSettedRuleFromTable(p, db, table) ==
  LET t == IF table \in DOMAIN p.rules \cup DOMAIN p.globals THEN table
           ELSE IF table \in DOMAIN p.aliases THEN p.aliases[table] ELSE ""
  IN  CASE ~checkAndGetDB(p, db) -> Error
        [] checkAndGetDB(p, db) /\ t \in DOMAIN p.rules -> p.rules[t]
        [] checkAndGetDB(p, db) /\ t \notin DOMAIN p.rules /\ t \in DOMAIN p.globals -> p.globals[t]
        [] OTHER -> Error

\* needCreateColumnNameDecorator, for conditions.
RuleOfColumn(p, c) ==
  IF c.db = "" /\ c.table = "" THEN getSettedRuleByColumnName(p, c.name)
  ELSE getSettedRuleFromTable(p, c.db, c.table)

\* ...InField: a bare column of a field list needs no rule.
FieldColumnError(p, c) ==
  ~(c.db = "" /\ c.table = "") /\ RuleOfColumn(p, c).err # ""

-----------------------------------------------------------------------------
(* Conditions: whether they determine a route, the sub-tables, and the     *)
(* database that DATABASE() = ... names.                                   *)

Routed(idx) == [err |-> "", has |-> TRUE, idx |-> idx, hint |-> <<>>]

Unrouted == [err |-> "", has |-> FALSE, idx |-> <<>>, hint |-> <<>>]

RouteFails(res) == [err |-> res, has |-> FALSE, idx |-> <<>>, hint |-> <<>>]

inverseOperator(op) ==
  CASE op = ">" -> "<" [] op = ">=" -> "<=" [] op = "<" -> ">" [] op = "<=" -> ">=" [] OTHER -> op

adjustShardIndex(r, key, i) == IF EqualStart(r, key, i) THEN i - 1 ELSE i

\* The sub-tables for "column op value".
getFindTableIndexesFunc(r, op, column, key) ==
  LET f == FindTableIndex(r, key)
      upto == IF op = "<" THEN adjustShardIndex(r, key, f.idx) ELSE f.idx
  IN  IF r.key # column \/ op = "!=" THEN Routed(r.idx)
      ELSE IF op # "=" /\ r.type \notin RangeTypes THEN Routed(r.idx)
      ELSE IF f.res # "found" THEN RouteFails(f.res)
      ELSE CASE op = "=" -> Routed(<<f.idx>>)
             [] op \in {"<", "<="} -> Routed(makeList(FirstTable(r), upto + 1))
             [] op \in {">", ">="} -> Routed(makeList(f.idx, LastTable(r) + 1))

CompareColumnValue(p, op, c, key) ==
  LET r == RuleOfColumn(p, c)
  IN  CASE r.err = "none" -> Unrouted
        [] r.err = "error" -> RouteFails("error")
        [] r.err = "" /\ r.type = "global" -> Unrouted
        [] r.err = "" /\ r.type # "global" -> getFindTableIndexesFunc(r, op, c.name, key)

ColumnsResolve(p, ops) ==
  IF \E o \in ops : o.k = "col" /\ RuleOfColumn(p, o).err = "error" THEN RouteFails("error") ELSE Unrouted

\* getDatabaseFuncHint: "" when f is another function.
getDatabaseFuncHint(f, v) ==
  IF f.name # "database" THEN Unrouted
  ELSE CASE v.k = "col" -> [Unrouted EXCEPT !.hint = v.name]
         [] v.k = "val" -> [Unrouted EXCEPT !.hint = GetString(v.key)]
         [] OTHER -> RouteFails("error")

handleBinaryOperationExprMathCompare(p, e) ==
  LET h == CASE e.op = "=" /\ e.l.k = "func" -> getDatabaseFuncHint(e.l, e.r)
             [] e.op = "=" /\ e.l.k # "func" /\ e.r.k = "func" -> getDatabaseFuncHint(e.r, e.l)
             [] OTHER -> Unrouted
  IN  IF h # Unrouted THEN h
      ELSE CASE e.l.k = "col" /\ e.r.k = "val" -> CompareColumnValue(p, e.op, e.l, e.r.key)
             [] e.l.k = "val" /\ e.r.k = "col" -> CompareColumnValue(p, inverseOperator(e.op), e.r, e.l.key)
             [] OTHER -> ColumnsResolve(p, {e.l, e.r})

\* The values of an IN list by their sub-table.
PatternInValues(r, list) ==
  [i \in {FindTableIndex(r, list[j].key).idx : j \in DOMAIN list} |->
     SelectSeq(list, LAMBDA v : FindTableIndex(r, v.key).idx = i)]

BroadcastsIn(r, e) == r.type = "global" \/ e.not \/ r.key # e.e.name

\* getPatternInRouteResult.
getPatternInRouteResult(r, e) ==
  LET bad == {j \in DOMAIN e.list : FindTableIndex(r, e.list[j].key).res # "found"}
      first == CHOOSE j \in bad : \A k \in bad : j <= k
  IN  IF r.type # "global" /\ \E j \in DOMAIN e.list : e.list[j].k # "val" THEN RouteFails("error")
      ELSE IF BroadcastsIn(r, e) THEN Routed(r.idx)
      ELSE IF bad # {} THEN RouteFails(FindTableIndex(r, e.list[first].key).res)
      ELSE Routed(sortInts(DOMAIN PatternInValues(r, e.list)))

handlePatternInExpr(p, e) ==
  LET r == RuleOfColumn(p, e.e)
  IN  CASE e.sel -> RouteFails("error")
        [] ~e.sel /\ (e.e.k # "col" \/ r.err = "none") -> Unrouted
        [] ~e.sel /\ e.e.k = "col" /\ r.err = "error" -> RouteFails("error")
        [] ~e.sel /\ e.e.k = "col" /\ r.err = "" -> getPatternInRouteResult(r, e)

\* getShardBetweenExprRouteResult: bounds in either order.
getShardBetweenExprRouteResult(r, e) ==
  LET lo == FindTableIndex(r, e.lo.key)  hi == FindTableIndex(r, e.hi.key)
      swap == lo.idx > hi.idx
      start == IF swap THEN hi.idx ELSE lo.idx
      last == IF swap THEN lo.idx ELSE hi.idx
      before == adjustShardIndex(r, IF swap THEN e.hi.key ELSE e.lo.key, start)
  IN  IF e.lo.k # "val" \/ e.hi.k # "val" THEN RouteFails("error")
      ELSE IF lo.res # "found" THEN RouteFails(lo.res)
      ELSE IF hi.res # "found" THEN RouteFails(hi.res)
      ELSE IF e.not THEN Routed(unionList(makeList(FirstTable(r), before + 1), makeList(last, LastTable(r) + 1)))
      ELSE Routed(makeList(start, last + 1))

getBetweenExprRouteResult(r, e) ==
  IF r.type \notin RangeTypes \/ r.key # e.e.name THEN Routed(r.idx)
  ELSE getShardBetweenExprRouteResult(r, e)

handleBetweenExpr(p, e) ==
  LET r == RuleOfColumn(p, e.e)
  IN  CASE e.e.k # "col" \/ r.err = "none" -> Unrouted
        [] e.e.k = "col" /\ r.err = "error" -> RouteFails("error")
        [] e.e.k = "col" /\ r.err = "" -> getBetweenExprRouteResult(r, e)

\* Mutant: a side of OR without a route leaves the other side's.
OrTakesEither(op, l, r) ==
  LET hint == IF r.hint # <<>> THEN r.hint ELSE l.hint
  IN  CASE l.has /\ r.has -> [Routed(IF op = "and" THEN interList(l.idx, r.idx) ELSE unionList(l.idx, r.idx))
                              EXCEPT !.hint = hint]
        [] l.has # r.has -> [(IF l.has THEN l ELSE r) EXCEPT !.hint = hint]
        [] OTHER -> [Unrouted EXCEPT !.hint = hint]
\* Both sides of OR must have a route for it to have one.
mergeBinaryOperationRouteResult(op, l, r) ==
  LET hint == IF r.hint # <<>> THEN r.hint ELSE l.hint
  IN  CASE l.has /\ r.has -> [Routed(IF op = "and" THEN interList(l.idx, r.idx) ELSE unionList(l.idx, r.idx))
                              EXCEPT !.hint = hint]
        [] op = "and" /\ l.has # r.has -> [(IF l.has THEN l ELSE r) EXCEPT !.hint = hint]
        [] OTHER -> [Unrouted EXCEPT !.hint = hint]

\* The columns of any other expression are rewritten by a visitor, which
\* panics where a column's table is not of the statement.
RECURSIVE handleComparisonExpr(_, _)
handleComparisonExpr(p, e) ==
  CASE e.k = "none" -> Unrouted
    [] e.k \in {"and", "or"} ->
         LET l == handleComparisonExpr(p, e.l)  r == handleComparisonExpr(p, e.r)
         IN  IF l.err # "" THEN l ELSE IF r.err # "" THEN r ELSE mergeBinaryOperationRouteResult(e.k, l, r)
    [] e.k = "cmp" -> handleBinaryOperationExprMathCompare(p, e)
    [] e.k = "op" -> ColumnsResolve(p, {e.l, e.r})
    [] e.k = "in" -> handlePatternInExpr(p, e)
    [] e.k = "between" -> handleBetweenExpr(p, e)
    [] e.k = "paren" -> handleComparisonExpr(p, e.e)
    [] e.k = "expr" -> IF \E c \in e.cols : FieldColumnError(p, c) THEN RouteFails("panic") ELSE Unrouted

\* A condition narrows the route of the statement.
Inter(p, e) ==
  LET h == handleComparisonExpr(p, e)
  IN  IF h.err # "" THEN [err |-> h.err]
      ELSE [p EXCEPT !.idx = IF h.has THEN interList(@, h.idx) ELSE @,
                     !.hint = IF h.hint # <<>> THEN h.hint ELSE @]

\* USING may not name tables; the sources are recorded left to right, each
\* followed by its ON condition.
handleJoin(p, from) ==
  LET one(a, s) == IF a.err # "" THEN a
                   ELSE IF s.using THEN Error
                   ELSE LET q == rewriteTableSource(a, s) IN IF q.err # "" THEN q ELSE Inter(q, s.on)
  IN  FoldLeft(one, p, from)

-----------------------------------------------------------------------------
(* Rewriting for one sub-table.                                            *)

\* The name a table is given in the statement for sub-table i: mycat and
\* global tables keep theirs, in the database of the sub-table.
TableAt(r, t, i) == IF IsMycatShardingRule(r.type) \/ r.type = "global" THEN <<t>> ELSE <<t, i>>

\* A table named by its alias keeps the alias.
ColumnTableAt(p, c, i) ==
  IF c.table \in DOMAIN p.rules \cup DOMAIN p.globals THEN TableAt(RuleOfColumn(p, c), c.table, i)
  ELSE <<c.table>>

\* The database a named schema is replaced by.
SchemaAt(r, schema, i) ==
  IF IsMycatShardingRule(r.type) \/ r.type = "global" THEN GetDatabaseNameByTableIndex(r, i) ELSE schema

\* The list that IN is restored with: the values of that sub-table.
InListAt(p, e, i) ==
  LET r == RuleOfColumn(p, e.e)
  IN  IF e.e.k # "col" \/ r.err # "" \/ BroadcastsIn(r, e) THEN e.list
      ELSE LET m == PatternInValues(r, e.list) IN IF i \in DOMAIN m THEN m[i] ELSE <<>>

\* The condition as sub-table i is sent it.
RECURSIVE RestoreAt(_, _, _)
RestoreAt(p, e, i) ==
  CASE e.k \in {"and", "or"} -> [e EXCEPT !.l = RestoreAt(p, @, i), !.r = RestoreAt(p, @, i)]
    [] e.k = "paren" -> [e EXCEPT !.e = RestoreAt(p, @, i)]
    [] e.k = "in" -> [e EXCEPT !.list = InListAt(p, e, i)]
    [] OTHER -> e

\* generateShardingSQLs: where the statement for each sub-table goes.
generateShardingSQLs(p) ==
  LET r == GetShardRule(p.router, p.rdb, <<p.rtable>>)
      s(i) == GetSliceIndexFromTableIndex(r, i)
  IN  IF p.idx # <<>> /\ r.err # "" THEN Error
      ELSE IF \E k \in DOMAIN p.idx : s(p.idx[k]) \notin DOMAIN r.slices THEN Panic
      ELSE [p EXCEPT !.err = ""] @@
           [sqls |-> [k \in DOMAIN p.idx |-> [slice |-> r.slices[s(p.idx[k])],
                                               db |-> GetDatabaseNameByTableIndex(r, p.idx[k]),
                                               index |-> p.idx[k]]]]

\* A statement of global tables only: a query asks one, a change all.
GlobalOnly(p) == DOMAIN p.rules = {} /\ DOMAIN p.globals # {}

postHandleGlobalTableRouteResultInQuery(p) ==
  IF ~GlobalOnly(p) THEN p
  ELSE LET t == CHOOSE t \in DOMAIN p.globals : TRUE
       IN  [p EXCEPT !.rdb = p.globals[t].db, !.rtable = t, !.idx = <<0>>]

postHandleGlobalTableRouteResultInModify(p) ==
  IF ~GlobalOnly(p) THEN p
  ELSE LET t == CHOOSE t \in DOMAIN p.globals : TRUE
       IN  [p EXCEPT !.rdb = p.globals[t].db, !.rtable = t, !.idx = p.globals[t].idx]

\* DATABASE() = name replaces the route; only for mycat rules.
postHandleHintDatabaseFunction(p) ==
  LET r == GetShardRule(p.router, p.rdb, <<p.rtable>>)
  IN  IF p.hint = <<>> THEN p
      ELSE IF r.err # "" \/ ~IsMycatShardingRule(r.type) THEN Error
      ELSE LET i == GetTableIndexByDatabaseName(r, p.hint) IN IF i = -1 THEN Error ELSE [p EXCEPT !.idx = <<i>>]

-----------------------------------------------------------------------------
(* The plans of sharded statements.                                        *)

Then(p, Step(_)) == IF p.err # "" THEN p ELSE Step(p)

ColumnsOK(p, C) == IF \E c \in C : FieldColumnError(p, c) THEN Error ELSE p

\* cols: the columns of the field list, GROUP BY, ORDER BY and HAVING.
HandleSelectStmt(db, router, s) ==
  LET p1 == handleJoin(NewStmtInfo(db, router), s.from)
      p2 == Then(p1, LAMBDA p : ColumnsOK(p, s.cols))
      p3 == Then(p2, LAMBDA p : Inter(p, s.where))
      p4 == Then(p3, postHandleGlobalTableRouteResultInQuery)
      p5 == Then(p4, postHandleHintDatabaseFunction)
  IN  Then(p5, generateShardingSQLs)

\* The sharding column may not be assigned; a hint is not looked at.
handleUpdateAssignmentList(p, set) ==
  IF \E c \in set : LET r == RuleOfColumn(p, c) IN r.err = "error" \/ (r.err = "" /\ r.key = c.name)
  THEN Error ELSE p

handleUpdateTableRefs(p, from) == IF Len(from) > 1 THEN Error ELSE handleJoin(p, from)

handleUpdateOrderBy(p, cols) == ColumnsOK(p, cols)

\* DELETE is UPDATE without the assignments.
HandleModify(db, router, s, Assign(_)) ==
  LET p1 == handleUpdateTableRefs(NewStmtInfo(db, router), s.from)
      p2 == Then(p1, Assign)
      p3 == Then(p2, LAMBDA p : Inter(p, s.where))
      p4 == Then(p3, LAMBDA p : handleUpdateOrderBy(p, s.cols))
      p5 == Then(p4, postHandleGlobalTableRouteResultInModify)
  IN  Then(p5, generateShardingSQLs)

HandleUpdatePlan(db, router, s) == HandleModify(db, router, s, LAMBDA p : handleUpdateAssignmentList(p, s.set))

HandleDeletePlan(db, router, s) == HandleModify(db, router, s, LAMBDA p : p)

-----------------------------------------------------------------------------
(* INSERT and REPLACE: [db, name, partition, select, assign, cols, rows,   *)
(* dup].  With SET there is one row.                                       *)

precheckInsertStmt(s) ==
  IF \/ s.select
     \/ ~s.assign /\ (s.cols = <<>> \/ Len(s.cols) # Len(s.rows[1])) THEN Error ELSE [err |-> ""]

\* The place of the last column of that name; 0 when there is none.
LastOf(cols, name) ==
  LET at == {i \in DOMAIN cols : cols[i] = name}
  IN  IF at = {} THEN 0 ELSE CHOOSE i \in at : \A j \in at : j <= i

IsNextval(o) == o.k = "func" /\ o.name = "nextval"

\* seq: [pk, ids], the ids the sequence gives one after the other before it
\* fails.  NEXTVAL() in the column of the sequence takes one per row: of the
\* first column of that name in a list, with SET of the first that asks.
handleInsertGlobalSequenceValue(s, seq) ==
  LET at == {i \in DOMAIN s.cols : s.cols[i] = seq.pk /\ (s.assign => IsNextval(s.rows[1][i]))}
      c == CHOOSE i \in at : \A j \in at : i <= j
      asks(row) == c \in DOMAIN row /\ IsNextval(row[c])
      nth(k) == Cardinality({j \in 1..k : asks(s.rows[j])})
  IN  IF at = {} THEN [err |-> "", rows |-> s.rows]
      ELSE IF nth(Len(s.rows)) > Len(seq.ids) THEN Error
      ELSE [err |-> "", rows |-> [k \in DOMAIN s.rows |->
              IF asks(s.rows[k]) THEN [s.rows[k] EXCEPT ![c] = [k |-> "val", key |-> seq.ids[nth(k)]]]
              ELSE s.rows[k]]]

IsNull(key) == key.type = "null"

\* handleInsertValues: rows of each sub-table.  A row whose sharding value is
\* not a literal has no sub-table and is left out; with SET it stays in all.
handleInsertValues(p, r, c, rows, assign) ==
  LET val(k) == rows[k][c]
      lit == {k \in DOMAIN rows : val(k).k = "val"}
      find(k) == FindTableIndex(r, val(k).key)
      bad == {k \in lit : IsNull(val(k).key) \/ find(k).res # "found"}
      first == CHOOSE k \in bad : \A j \in bad : k <= j
      of(i) == SelectSeq([k \in DOMAIN rows |-> k], LAMBDA k : k \in lit /\ find(k).idx = i)
      idx == interList(p.idx, sortInts({find(k).idx : k \in lit}))
  IN  IF bad # {} THEN [err |-> IF IsNull(val(first).key) THEN "error" ELSE find(first).res]
      ELSE IF assign /\ lit = {} THEN [err |-> "", idx |-> p.idx, put |-> [i \in ToSet(p.idx) |-> <<1>>]]
      ELSE IF ~assign /\ idx = <<>> THEN Error
      ELSE [err |-> "", idx |-> idx, put |-> [i \in ToSet(idx) |-> of(i)]]

\* The table is recorded; rows of a global table go to every copy of it.
handleInsertTableRefs(p, s) ==
  LET q == RecordShardTable(p, s.db, s.name)
      g == q.globals[s.name]
  IN  IF q.err # "" \/ s.partition THEN Error
      ELSE IF s.name \notin DOMAIN q.globals THEN q @@ [fastReturn |-> FALSE]
      ELSE generateShardingSQLs([q EXCEPT !.rdb = g.db, !.rtable = g.table, !.idx = g.idx])
           @@ [fastReturn |-> TRUE, put |-> [i \in ToSet(g.idx) |-> [k \in DOMAIN s.rows |-> k]], rows |-> s.rows]

HandleInsertStmt(db, router, s, seq) ==
  LET p == handleInsertTableRefs(NewStmtInfo(db, router), s)
      r == p.rules[s.name]
      g == handleInsertGlobalSequenceValue(s, seq)
      c == LastOf(s.cols, r.key)
      short == \E k \in DOMAIN s.rows : c > Len(s.rows[k])
      v == handleInsertValues(p, r, c, g.rows, s.assign)
  IN  IF precheckInsertStmt(s).err # "" THEN Error
      ELSE IF p.err # "" \/ p.fastReturn THEN p
      ELSE IF g.err # "" \/ c = 0 \/ r.key \in ToSet(s.dup) THEN Error
      ELSE IF short THEN Panic
      ELSE IF v.err # "" THEN v
      ELSE generateShardingSQLs([p EXCEPT !.idx = v.idx]) @@ [put |-> v.put, rows |-> g.rows]

-----------------------------------------------------------------------------
(* Every statement: [kind, tables, ...], tables in the order in which they *)
(* are visited.                                                            *)

\* The visit ends at the first table without a database and at the first
\* sharded one; the tables up to there are those the plan is known to read.
Checker(db, router, tables) ==
  LET of(t) == IF ToLower(t.db) = "" THEN db ELSE ToLower(t.db)
      invalid(t) == db = "" /\ ToLower(t.db) = ""
      shard(t) == ~invalid(t) /\ GetShardRule(router, of(t), <<t.name>>).err = ""
      ends == {i \in DOMAIN tables : invalid(tables[i]) \/ shard(tables[i])}
      n == IF ends = {} THEN Len(tables) ELSE CHOOSE i \in ends : \A j \in ends : i <= j
      seen == SelectSeq(SubSeq(tables, 1, n), LAMBDA t : ~invalid(t))
  IN  [invalid |-> ends # {} /\ invalid(tables[n]),
       shard |-> ends # {} /\ shard(tables[n]),
       elapsed |-> [i \in DOMAIN seen |-> <<of(seen[i]), seen[i].name>>],
       unshard |-> IF ends # {} THEN SubSeq(tables, 1, n - 1) ELSE tables]

\* An unsharded statement goes to the default slice, its schemas replaced by
\* the physical databases.
CreateUnshardPlan(db, phy, tables) ==
  [err |-> "", sqls |-> <<[slice |-> "slice-0", db |-> db, index |-> 0]>>,
   tables |-> [i \in DOMAIN tables |->
                 IF tables[i].db \in DOMAIN phy THEN [tables[i] EXCEPT !.db = phy[@]] ELSE tables[i]]]

IsSelectLastInsertIDStmt(s) == s.kind = "select" /\ s.lastInsertId

buildShardPlan(db, router, s, seq) ==
  CASE s.kind = "select" -> HandleSelectStmt(db, router, s)
    [] s.kind = "insert" -> HandleInsertStmt(db, router, s, seq)
    [] s.kind = "update" -> HandleUpdatePlan(db, router, s)
    [] s.kind = "delete" -> HandleDeletePlan(db, router, s)
    [] OTHER -> Error

BuildStatementPlan(db, phy, router, s, seq) ==
  LET c == Checker(db, router, s.tables)
      p == IF c.shard THEN buildShardPlan(db, router, s, seq) ELSE CreateUnshardPlan(db, phy, c.unshard)
  IN  IF IsSelectLastInsertIDStmt(s) THEN [err |-> "", plan |-> "lastInsertId", sqls |-> <<>>]
      ELSE IF c.invalid THEN Error
      ELSE IF p.err # "" THEN p
      ELSE p @@ [plan |-> IF c.shard THEN "shard" ELSE "unshard", elapsed |-> c.elapsed]

\* An explained statement is planned and not executed: its sequence values
\* are taken all the same.
buildExplainPlan(db, phy, router, s, seq) ==
  LET p == BuildStatementPlan(db, phy, router, s.stmt, seq)
  IN  IF s.stmt.kind = "explain" \/ p.err # "" \/ p.plan = "lastInsertId" THEN Error
      ELSE [err |-> "", plan |-> "explain", sqls |->
              IF p.plan = "unshard" /\ db \in DOMAIN phy
              THEN <<[slice |-> "slice-0", db |-> phy[db], index |-> 0]>> ELSE p.sqls]

BuildPlan(db, phy, router, s, seq) ==
  IF s.kind = "explain" THEN buildExplainPlan(db, phy, router, s, seq)
  ELSE BuildStatementPlan(db, phy, router, s, seq)
=============================================================================
