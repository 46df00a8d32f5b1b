--------------------------- MODULE NamespaceChecks ---------------------------
(***************************************************************************)
(* What routing promises, on a table "t" (sharding column "id"), a table   *)
(* "c" linked to it (sharding column "tid") and a global table "g", where  *)
(* rows are in the sub-table that their key is found in; what a stored     *)
(* namespace promises the proxies that load it, and what a loaded rule     *)
(* promises the routes.                                                    *)
(***************************************************************************)
EXTENDS NamespaceConfig, Route

(* Keys: integers, and dates as text.                                      *)
IntKey(v) == [type |-> "int", v |-> v]

Text(codes) == [type |-> "string", text |-> codes]

Padded(n, k) == [i \in 1..k |-> 48 + ((n \div 10^(k - i)) % 10)]

Hyphen == <<45>>

Date(y, m, d) == Text(Padded(y, 4) \o Hyphen \o Padded(m, 2) \o Hyphen \o Padded(d, 2))

NullKey == [type |-> "null", v |-> 0]

KeyLess(a, b) ==
  IF IsText(a) THEN \E i \in DOMAIN a.text \cap DOMAIN b.text :
                      a.text[i] < b.text[i] /\ \A j \in 1..(i - 1) : a.text[j] = b.text[j]
  ELSE a.v < b.v

-----------------------------------------------------------------------------
(* The rules of the tables.                                                *)

Config(type, locations, dateRange, databases) ==
  [type |-> type, db |-> "db", table |-> "t", key |-> "id", parent |-> "", locations |-> locations,
   slices |-> <<"slice-0", "slice-1">>, dateRange |-> dateRange, limit |-> 3, databases |-> databases,
   count |-> <<1, 2>>, length |-> <<2, 1>>, hashSlice |-> <<0, 2>>, seed |-> 0, times |-> 2,
   padFrom |-> 0, padLength |-> 3, modBegin |-> 1, modEnd |-> 3]

Linked(c) == [c EXCEPT !.type = "linked", !.table = "c", !.key = "tid", !.parent = "t", !.slices = <<>>]

Global(c) == [c EXCEPT !.type = "global", !.table = "g", !.locations = <<1, 1>>, !.databases = <<>>]

Router(c) ==
  NewRouter([slices |-> <<"slice-0", "slice-1">>, defaultSlice |-> "slice-0", rules |-> <<c, Linked(c), Global(c)>>])

RouteRules == {Config("hash", <<1, 2>>, <<>>, <<>>), Config("range", <<2, 1>>, <<>>, <<>>),
               Config("date_year", <<>>, <<<<2015>>, <<2016, 2017>>>>, <<>>),
               Config("mycat_long", <<2, 1>>, <<>>, << <<"d", 0, 2>> >>)}

Keys(c) == IF c.type = "date_year" THEN {Date(2015, 3, 1), Date(2016, 1, 1), Date(2016, 7, 1), Date(2017, 1, 1)}
           ELSE {IntKey(0), IntKey(2), IntKey(3), IntKey(7)}

-----------------------------------------------------------------------------
(* Conditions.                                                             *)

Col(table, name) == [k |-> "col", db |-> "", table |-> table, name |-> name]

Val(key) == [k |-> "val", key |-> key]

Ops == {"=", "!=", "<", "<=", ">", ">="}

Cmp(op, l, r) == [k |-> "cmp", op |-> op, l |-> l, r |-> r]

In(not, col, list) == [k |-> "in", not |-> not, sel |-> FALSE, e |-> col, list |-> list]

Between(not, col, lo, hi) == [k |-> "between", not |-> not, e |-> col, lo |-> Val(lo), hi |-> Val(hi)]

\* The conditions on one column.
Atoms(col, K) ==
  {Cmp(op, col, Val(v)) : op \in Ops, v \in K} \cup {Cmp(op, Val(v), col) : op \in Ops, v \in K}
  \cup {In(not, col, <<Val(v), Val(w)>>) : not \in BOOLEAN, v \in K, w \in K}
  \cup {Between(not, col, v, w) : not \in BOOLEAN, v \in K, w \in K}

Other == Cmp("=", Col("", "b"), Val(IntKey(1)))

\* A few conditions of every kind, to be combined.
Few(col, K) ==
  LET least == CHOOSE v \in K : \A w \in K : ~KeyLess(w, v)
      most == CHOOSE v \in K : \A w \in K : ~KeyLess(v, w)
  IN  {Cmp("=", col, Val(v)) : v \in K} \cup {Cmp("<=", col, Val(v)) : v \in K \ {least}}
      \cup {Cmp("<", Val(v), col) : v \in K \ {most}} \cup {Cmp("!=", col, Val(least))}
      \cup {In(FALSE, col, <<Val(least), Val(most)>>), In(TRUE, col, <<Val(most)>>), Other}

Combined(A) == {[k |-> op, l |-> x, r |-> [k |-> "paren", e |-> y]] : op \in {"and", "or"}, x \in A, y \in A}

RECURSIVE Holds(_, _)
Holds(e, row) ==
  LET value(o) == IF o.k = "val" THEN o.key ELSE row[o.name]
      rel(op, a, b) == CASE op = "=" -> a = b [] op = "!=" -> a # b
                         [] op = "<" -> KeyLess(a, b) [] op = "<=" -> ~KeyLess(b, a)
                         [] op = ">" -> KeyLess(b, a) [] op = ">=" -> ~KeyLess(a, b)
      among(list) == \E j \in DOMAIN list : value(e.e) = list[j].key
      within == ~KeyLess(value(e.e), e.lo.key) /\ ~KeyLess(e.hi.key, value(e.e))
  IN  CASE e.k = "none" -> TRUE
        [] e.k = "and" -> Holds(e.l, row) /\ Holds(e.r, row)
        [] e.k = "or" -> Holds(e.l, row) \/ Holds(e.r, row)
        [] e.k = "paren" -> Holds(e.e, row)
        [] e.k = "cmp" -> rel(e.op, value(e.l), value(e.r))
        [] e.k = "in" -> among(e.list) # e.not
        [] e.k = "between" -> within # e.not

Table(name, alias, on) ==
  [k |-> "table", db |-> "", name |-> name, alias |-> alias, partition |-> FALSE, using |-> FALSE, on |-> on]

SelectFrom(from, where) ==
  [kind |-> "select", lastInsertId |-> FALSE, from |-> from, where |-> where, cols |-> {},
   tables |-> [i \in DOMAIN from |-> [db |-> from[i].db, name |-> from[i].name]]]

\* Queries on t; on t and c, joined on their keys, with conditions on both
\* through the alias of one; and on the global table with t.
SingleQueries(c) ==
  {SelectFrom(<<Table("t", "", NoCond)>>, e) :
     e \in {NoCond} \cup Atoms(Col("", "id"), Keys(c)) \cup Combined(Few(Col("", "id"), Keys(c)))}

JoinOn == Cmp("=", Col("x", "id"), Col("c", "tid"))

JoinQueries(c) ==
  {SelectFrom(<<Table("t", "x", NoCond), Table("c", "", [k |-> "and", l |-> JoinOn, r |-> e])>>, f) :
     e \in Few(Col("x", "id"), Keys(c)) \ {Other}, f \in Few(Col("c", "tid"), Keys(c)) \ {Other}}

GlobalQueries(c) ==
  {SelectFrom(<<Table("g", "", NoCond), Table("t", "", e)>>, NoCond) : e \in Few(Col("t", "id"), Keys(c)) \ {Other}}

\* Updates and deletes of t and of the global table.
Change(kind, table, e) == [SelectFrom(<<Table(table, "", NoCond)>>, e) EXCEPT !.kind = kind] @@
                          [set |-> {Col("", "b")}]

Changes(c) == {Change(kind, table, e) : kind \in {"update", "delete"}, table \in {"t", "g"},
                                        e \in {NoCond} \cup Few(Col("", "id"), Keys(c))}

Queries(c) == SingleQueries(c) \cup JoinQueries(c) \cup GlobalQueries(c) \cup Changes(c)

-----------------------------------------------------------------------------
(* What must be asked.                                                     *)

RowKeys(c) == Keys(c) \cup (IF c.type = "date_year" THEN {Date(2015, 12, 31), Date(2017, 9, 9)}
                            ELSE {IntKey(1), IntKey(4), IntKey(5), IntKey(8)})

Rows(c) == {[id |-> v, tid |-> v, b |-> IntKey(w)] : v \in RowKeys(c), w \in {1, 2}}

Conditions(s) == [i \in 1..(Len(s.from) + 1) |-> IF i <= Len(s.from) THEN s.from[i].on ELSE s.where]

\* Conditions known to leave out a sub-table with matching rows: on a date,
\* "<" and NOT BETWEEN leave out the sub-table of the date itself, which
\* EqualStart takes for its first; NOT BETWEEN with its bounds exchanged,
\* which is always true, leaves out what lies between them.
RECURSIVE LeavesOut(_, _)
LeavesOut(c, e) ==
  LET date == c.type = "date_year"
  IN  CASE e.k \in {"and", "or"} -> LeavesOut(c, e.l) \/ LeavesOut(c, e.r)
        [] e.k = "paren" -> LeavesOut(c, e.e)
        [] e.k = "cmp" -> date /\ ((e.op = "<" /\ e.l.k = "col") \/ (e.op = ">" /\ e.r.k = "col"))
        [] e.k = "between" -> e.not /\ (date \/ KeyLess(e.hi.key, e.lo.key))
        [] OTHER -> FALSE

KnownGap(c, s) == \E i \in DOMAIN Conditions(s) : LeavesOut(c, Conditions(s)[i])

\* Row x of s is found: its sub-table is asked, and what that is asked is
\* true of it.
Asked(c, s, p, x) ==
  LET i == FindTableIndex(p.router.rules[<<"db", "t">>], x.id).idx
  IN  /\ i \in ToSet(p.idx)
      /\ \A j \in DOMAIN Conditions(s) : Holds(RestoreAt(p, Conditions(s)[j], i), x)

\* The columns of a condition that are written with their table.
RECURSIVE NamedColumns(_)
NamedColumns(e) ==
  LET named(ops) == {o \in ops : o.k = "col" /\ o.table # ""}
  IN  CASE e.k \in {"and", "or"} -> NamedColumns(e.l) \cup NamedColumns(e.r)
        [] e.k = "paren" -> NamedColumns(e.e)
        [] e.k = "cmp" -> named({e.l, e.r})
        [] e.k \in {"in", "between"} -> named({e.e})
        [] OTHER -> {}

\* The name under which a source of the statement is known at sub-table i.
SourceAt(p, source, i) ==
  IF source.alias # "" THEN <<source.alias>>
  ELSE TableAt(getSettedRuleFromTable(p, "", source.name), source.name, i)

\* At each sub-table, the columns of the statement belong to its sources, and
\* the schema of a sharded table is the database the statement is sent to.
NamesAgree(s, p) ==
  \A k \in DOMAIN p.sqls :
    LET i == p.sqls[k].index
    IN  /\ \A j \in DOMAIN Conditions(s) : \A col \in NamedColumns(Conditions(s)[j]) :
             \E m \in DOMAIN s.from : ColumnTableAt(p, col, i) = SourceAt(p, s.from[m], i)
        /\ \A t \in DOMAIN p.rules : SchemaAt(p.rules[t], "db", i) = p.sqls[k].db

Selected(s, x) == \A j \in DOMAIN Conditions(s) : Holds(Conditions(s)[j], x)

\* Every row that a query selects is in a sub-table that the proxy asks, and
\* that sub-table is asked a condition the row satisfies, with the names of
\* that sub-table (getFindTableIndexesFunc, getPatternInRouteResult,
\* getShardBetweenExprRouteResult, the merging of lists, the decorators of
\* names).  A change of a global table is sent to every copy.
RoutesEveryRow(c, s) ==
  LET p == BuildPlan("db", <<>>, Router(c), s, <<>>)
      copies == p.router.rules[<<"db", "g">>].idx
  IN  p.err = "" => IF GlobalOnly(p) THEN s.kind # "select" => p.idx = copies
                    ELSE NamesAgree(s, p) /\ \A x \in Rows(c) : Selected(s, x) => Asked(c, s, p, x)

RouteComplete(c, s) == KnownGap(c, s) \/ RoutesEveryRow(c, s)

-----------------------------------------------------------------------------
(* Inserts.                                                                *)

Func(name) == [k |-> "func", name |-> name]

InsertInto(table, cols, rows, assign) ==
  [kind |-> "insert", db |-> "", name |-> table, partition |-> FALSE, select |-> FALSE, assign |-> assign,
   cols |-> cols, rows |-> rows, dup |-> <<>>, tables |-> <<[db |-> "", name |-> table]>>]

InsertValues(c) == {Val(v) : v \in Keys(c)} \cup
  (IF c.type = "date_year" THEN {Val(Date(2030, 1, 1))} ELSE {Val(IntKey(9)), Func("nextval")}) \cup
  {Val(NullKey), [k |-> "expr"]}

Inserts(c) ==
  {InsertInto(t, <<"b", "id">>, <<<<Val(IntKey(1)), v>>, <<Val(IntKey(2)), w>>>>, FALSE) :
     t \in {"t", "g"}, v \in InsertValues(c), w \in InsertValues(c)}
  \cup {InsertInto("t", <<"id", "b">>, <<<<v, Val(IntKey(1))>>>>, TRUE) : v \in InsertValues(c)}
  \cup {InsertInto("c", <<"tid">>, <<<<v>>>>, FALSE) : v \in InsertValues(c)}

Sequence == [pk |-> "id", ids |-> <<IntKey(5), IntKey(6)>>]

InsertPlan(c, s) == BuildPlan("db", <<>>, Router(c), s, Sequence)

\* Row k has a literal key and a sub-table of the configuration.
Placed(c, p, s, k) ==
  LET r == p.router.rules[<<"db", s.name>>]
      v == p.rows[k][LastOf(s.cols, r.key)]
  IN  v.k = "val" /\ FindTableIndex(r, v.key).idx \in ToSet(r.idx)

\* Every row of an accepted INSERT into a sharded table goes to exactly one
\* sub-table, the one its key is found in (handleInsertValues).
RowsRouted(c, s) ==
  LET p == InsertPlan(c, s)
      r == p.router.rules[<<"db", s.name>>]
      key(k) == p.rows[k][LastOf(s.cols, r.key)].key
  IN  p.err = "" /\ r.type # "global" =>
        \A k \in {k \in DOMAIN s.rows : Placed(c, p, s, k)} :
          {i \in DOMAIN p.put : k \in ToSet(p.put[i])} = {FindTableIndex(r, key(k)).idx}

\* The rows of an accepted INSERT are all put into one sub-table, as
\* docs/compatibility.md (no batch INSERT across shards) and the tests of
\* plan_insert_test.go have it.
InOneTable(c, s) ==
  LET p == InsertPlan(c, s)
  IN  p.err = "" => \E i \in DOMAIN p.put : DOMAIN s.rows \subseteq ToSet(p.put[i])

-----------------------------------------------------------------------------
(* Namespaces.                                                             *)

TheSlice(name) ==
  [name |-> name, user |-> "u", master |-> "m", slaves |-> <<>>, dcSlaves |-> <<>>, statistic |-> <<>>,
   capacity |-> 1, maxCapacity |-> 1]

User(name) == [user |-> name, password |-> "p", ns |-> "", rw |-> 1, split |-> 0, other |-> 0]

HashRule == Config("hash", <<1, 2>>, <<>>, <<>>)

Base ==
  [name |-> "ns", allowed |-> [db |-> TRUE], phy |-> <<>>, users |-> <<User("u")>>, slow |-> Empty, ips |-> <<>>,
   charset |-> "", collation |-> "", slices |-> <<TheSlice("slice-0"), TheSlice("slice-1")>>,
   defaultSlice |-> "slice-0", rules |-> <<HashRule, Linked(HashRule), Global(HashRule)>>, sequences |-> <<>>,
   masterDC |-> FALSE, forceMaster |-> FALSE]

\* Settings of the namespace itself.
Settings ==
  {[Base EXCEPT !.slow = slow, !.phy = phy, !.charset = cs[1], !.collation = cs[2], !.defaultSlice = d,
                !.sequences = seq, !.users = users] :
     slow \in {Empty, 5, -1}, phy \in {<<>>, [db |-> "real"], [other |-> "real"]},
     cs \in {<<"", "">>, <<"utf8", "">>, <<"utf8", "utf8_bin">>, <<"", "utf8_bin">>, <<"utf8", "gbk_bin">>},
     d \in {"slice-1", "", "slice-9"}, seq \in {<<>>, <<[slice |-> "slice-1"]>>, <<[slice |-> "slice-9"]>>},
     users \in {<<User("u"), User("v")>>, <<User("u"), User("u ")>>, <<>>, <<[User("u") EXCEPT !.ns = "other"]>>,
                <<[User("u") EXCEPT !.rw = 3]>>}}

\* Slices: their names, servers and the weights of the slaves.
SlaveLists == {<<>>, <<<<"a", 2>>, <<"b", 1>>>>, <<<<"a">>, <<"b", 0>>>>, <<<<"a", NotANumber>>>>, <<<<"">>>>}

Servers ==
  {[Base EXCEPT !.slices[2] = [TheSlice(name) EXCEPT !.master = master, !.slaves = slaves,
                                                     !.dcSlaves = dc, !.statistic = stat],
                !.rules = <<[HashRule EXCEPT !.slices[2] = name]>>, !.masterDC = local] :
     name \in {"slice-1", "slice-0", "slice-1 "}, master \in {"m", ""}, slaves \in SlaveLists,
     dc \in SlaveLists, stat \in SlaveLists \ {<<<<"">>>>}, local \in BOOLEAN}

\* Rules of every type, with one thing or another wrong.
Databases == {<<>>, <<<<"d", 0, 2>>>>, <<<<"d", 0>>, <<"e", 4, 5>>>>, <<<<"d", 2, 2>>>>}

DateRanges == {<<<<2015>>, <<2016, 2017>>>>, <<<<2017, 2016>>, <<2015>>>>, <<<<201511, 201602>>, <<201603>>>>,
               <<<<20160228, 20160301>>, <<20160302>>>>, <<<<20160230, 20160301>>, <<20160302>>>>, <<<<2015>>>>}

RuleConfigs ==
  {Config(type, loc, <<>>, <<>>) :
     type \in {"hash", "mod", "range", "global", "other", "default"}, loc \in {<<1, 2>>, <<2>>, <<0, 0>>}}
  \cup {Config(type, <<>>, r, <<>>) : type \in {"date_year", "date_month", "date_day"}, r \in DateRanges}
  \cup {[Config(type, loc, <<>>, dbs) EXCEPT !.count = cl[1], !.length = cl[2], !.hashSlice = hs, !.seed = seed] :
          type \in MycatTypes, loc \in {<<2, 1>>, <<1, 1>>}, dbs \in Databases,
          cl \in {<< <<1, 2>>, <<2, 1>> >>, << <<3>>, <<1>> >>, << <<2, 1>>, <<1>> >>, << <<2, 1>>, <<3, -2>> >>},
          hs \in {<<0, 2>>, <<-2>>, <<NotANumber>>}, seed \in {0, NotANumber}}
  \cup {[Config("mycat_padding_mod", <<2, 1>>, <<>>, <<<<"d", 0, 2>>>>) EXCEPT
            !.padFrom = from, !.padLength = n, !.modBegin = b, !.modEnd = e] :
          from \in 0..2, n \in {0, 2, 3}, b \in {0, 1, 2}, e \in {1, 2, 3}}

RuleLists(c) ==
  {<<c>>, <<c, Linked(c)>>, <<Linked(c), c>>, <<Linked(c)>>, <<c, [Linked(c) EXCEPT !.table = "T"]>>,
   <<c, [c EXCEPT !.table = "T"]>>, <<c, c>>, <<[c EXCEPT !.slices = <<"slice-0", "slice-9">>]>>}

Tables == {[Base EXCEPT !.rules = rs] : rs \in UNION {RuleLists(c) : c \in RuleConfigs}}

Namespaces == Settings \cup Servers \cup Tables

-----------------------------------------------------------------------------
(* What Verify accepts and loading refuses.                                *)

\* NewRouter needs a default slice.
NoDefaultSlice(n) == n.defaultSlice = ""

\* A sequence names its slice; Verify does not look at the sequences.
SequenceSlice(n) == Sequences(n).err # ""

\* Verify takes slaves alone, loading wants a master.
NoMaster(n) == \E i \in DOMAIN n.slices : n.slices[i].master = ""

\* The weights of slaves are only looked at when they are loaded.
BadWeights(n) ==
  \E i \in DOMAIN n.slices, role \in Roles :
    LET s == n.slices[i]
        list == CASE role = "masterdc" -> s.slaves [] role = "statistic" -> s.statistic
                  [] role = "slave" -> IF n.masterDC \/ n.forceMaster THEN s.slaves ELSE s.dcSlaves
    IN  \E k \in DOMAIN list : Len(list[k]) = 2 /\ list[k][2] \in {0, NotANumber}

\* Names that differ until they are trimmed or lower-cased.
SameNames(n) ==
  \/ \E i, j \in DOMAIN n.slices : i # j /\ TrimSpace(n.slices[i].name) = TrimSpace(n.slices[j].name)
  \/ \E i, j \in DOMAIN n.rules : i # j /\ ToLower(n.rules[i].table) = ToLower(n.rules[j].table)

\* The slices' names are trimmed before the router looks for them.
UntrimmedSlice(n) == \E i \in DOMAIN n.slices : n.slices[i].name # TrimSpace(n.slices[i].name)

\* Lengths of opposite signs add up, and fill places that are not there.
NegativeLength(n) ==
  \E i \in DOMAIN n.rules : /\ n.rules[i].type \in {"mycat_long", "mycat_string"}
                            /\ \E k \in DOMAIN n.rules[i].length : n.rules[i].length[k] < 0

VerifyGap(n) == NoDefaultSlice(n) \/ SequenceSlice(n) \/ NoMaster(n) \/ BadWeights(n) \/ SameNames(n)
                \/ UntrimmedSlice(n) \/ NegativeLength(n)

\* The names of its users differ, and its router has a rule for each table
\* that is configured and the default one for others.
Serves(n, router) ==
  LET users == VerifiedUsers(n)
      rule(db, t) == GetRule(router, n.defaultSlice, db, <<t>>)
  IN  /\ \A i, j \in DOMAIN users : i # j => users[i].user # users[j].user
      /\ \A i \in DOMAIN n.rules : LET r == rule(n.rules[i].db, ToLower(n.rules[i].table))
                                   IN  r.type # "default" /\ r.db = n.rules[i].db
      /\ rule("db", "unknown").type = "default"

\* A namespace that the control plane has verified and stored is loaded by
\* every proxy: models/ and proxy/ check the same things, up to the gaps
\* above (Verify; NewNamespace, NewRouter).
VerifiedLoads(n) ==
  Verify(n) = "" /\ ~VerifyGap(n) => LET ns == NewNamespace(n) IN ns.err = "" /\ Serves(n, ns.router)

-----------------------------------------------------------------------------
(* Keys and the sub-tables they are found in.                              *)

ShardKeys ==
  {IntKey(v) : v \in {0, 1, 2, 3, 5, 8, 9, 60, 127, -1, -2, -127, -128}}
  \cup {[type |-> "uint", v |-> v] : v \in {0, 3, 127, 128, 255}}
  \cup {[type |-> t, text |-> x] : t \in {"string", "bytes"},
          x \in {<<>>, <<48>>, <<49, 50>>, <<45, 51>>, <<97, 98, 99>>, Date(2016, 2, 29).text, Date(2015, 12, 1).text}}
  \cup {NullKey}

IsDateRule(c) == c.type \in {"date_year", "date_month", "date_day"}

\* The absolute value of the least integer is negative.
NoAbs(c, key) == c.type \in {"mod", "mycat_mod"} /\ ~IsText(key) /\ Int64(key.v) = -(2^(Width - 1))

\* Every key is found in a sub-table of its rule, on a slice of the rule,
\* and a database of mycat leads back to it; dates may be outside the
\* configured ranges (FindTableIndex and the FindForKey of every shard).
IndexIsTable(c, key) ==
  LET r == parseRule(c)
      f == FindTableIndex(r, key)
  IN  r.err = "" /\ f.res = "found" /\ ~NoAbs(c, key) =>
        \/ /\ f.idx \in ToSet(r.idx)
           /\ GetSliceIndexFromTableIndex(r, f.idx) \in DOMAIN r.slices
           /\ IsMycatShardingRule(c.type) =>
                GetTableIndexByDatabaseName(r, GetDatabaseNameByTableIndex(r, f.idx)) = f.idx
        \/ IsDateRule(c)
=============================================================================
