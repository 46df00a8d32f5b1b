-------------------------------- MODULE Rules --------------------------------
(***************************************************************************)
(* Sharding rules: from a configured rule to its sub-tables, the slice of  *)
(* each and its sharding function, and the router that finds the rule of a *)
(* table (proxy/router/rule.go, numkey.go and router.go).                  *)
(*                                                                         *)
(* A configured rule is a record with the fields of models.Shard that its  *)
(* type uses.  The text of a date range is the sequence of the one or two  *)
(* numbers it holds; a physical database is <<prefix, number>>, and a list *)
(* of databases "prefix[l-r]" is <<prefix, l, r>>.                         *)
(***************************************************************************)
EXTENDS Shards

CONSTANT ToLower(_)   \* strings.ToLower on names

\* What the parsers return when they fail, and when they panic.
Error == [err |-> "error"]

Panic == [err |-> "panic"]

MycatTypes == {"mycat_mod", "mycat_long", "mycat_murmur", "mycat_padding_mod", "mycat_string"}

IsMycatShardingRule(type) == type \in MycatTypes

RangeTypes == {"range", "date_year", "date_month", "date_day"}

-----------------------------------------------------------------------------
(* Date ranges.                                                            *)

TextLen(n) == Len(FormatInt(n))

\* The order of two texts of digits.
TextLess(a, b) ==
  LET s == FormatInt(a)  t == FormatInt(b)
  IN  \/ Len(s) < Len(t) /\ s = SubSeq(t, 1, Len(s))
      \/ \E i \in DOMAIN s \cap DOMAIN t : s[i] < t[i] /\ \A j \in 1..(i - 1) : s[j] = t[j]

Ordered(r) == IF TextLess(r[2], r[1]) THEN <<r[2], r[1]>> ELSE r

IsLeap(y) == y % 4 = 0 /\ (y % 100 # 0 \/ y % 400 = 0)

DaysIn(y, m) ==
  CASE m \in {4, 6, 9, 11} -> 30
    [] m = 2 -> IF IsLeap(y) THEN 29 ELSE 28
    [] OTHER -> 31

\* time.Parse("20060102") and time.Parse("200601").
IsDay(n) == LET m == (n \div 100) % 100 IN m \in 1..12 /\ n % 100 \in 1..DaysIn(n \div 10000, m)

IsMonth(n) == n % 100 \in 1..12

\* Twenty-four hours later, in UTC.
NextDay(n) ==
  LET y == n \div 10000  m == (n \div 100) % 100
  IN  CASE n % 100 < DaysIn(y, m) -> n + 1
        [] n % 100 = DaysIn(y, m) /\ m < 12 -> y * 10000 + (m + 1) * 100 + 1
        [] n % 100 = DaysIn(y, m) /\ m = 12 -> (y + 1) * 10000 + 101

RECURSIVE DaysFrom(_, _)
DaysFrom(d, end) == IF d > end THEN <<>> ELSE <<d>> \o DaysFrom(NextDay(d), end)

ParseDayRange(r) ==
  IF \E i \in DOMAIN r : TextLen(r[i]) # 8 THEN Error
  ELSE IF Len(r) = 1 THEN [err |-> "", list |-> r]
  ELSE LET o == Ordered(r)
       IN  IF IsDay(o[1]) /\ IsDay(o[2])
           THEN [err |-> "", list |-> DaysFrom(o[1], o[2])] ELSE Error

\* The months are counted out; the month after December is the next year's first.
ParseMonthRange(r) ==
  IF \E i \in DOMAIN r : TextLen(r[i]) # 6 THEN Error
  ELSE IF Len(r) = 1 THEN [err |-> "", list |-> r]
  ELSE LET o == Ordered(r)
           y == o[1] \div 100
           count == ((o[2] \div 100) - y) * 12 + (o[2] % 100) - (o[1] % 100) + 1
           step(a, i) == LET turn == a.m > 12
                             m == IF turn THEN a.m % 12 ELSE a.m
                             yy == IF turn THEN a.y + 1 ELSE a.y
                         IN  [y |-> yy, m |-> m + 1, list |-> Append(a.list, yy * 100 + m)]
       IN  [err |-> "", list |-> FoldLeft(step, [y |-> y, m |-> o[1] % 100, list |-> <<>>],
                                          [i \in 1..count |-> i]).list]

\* The length of the years is only looked at when there is one.
ParseYearRange(r) ==
  IF Len(r) = 1 THEN IF TextLen(r[1]) # 4 THEN Error ELSE [err |-> "", list |-> r]
  ELSE LET o == Ordered(r) IN [err |-> "", list |-> [i \in 1..(o[2] - o[1] + 1) |-> o[1] + i - 1]]

-----------------------------------------------------------------------------
(* The sub-tables of a rule and their slices.                              *)

\* Locations: how many sub-tables each slice holds.
parseHashRuleSliceInfos(c) ==
  LET add(a, i) ==
        [sum |-> a.sum + c.locations[i],
         idx |-> a.idx \o [j \in 1..c.locations[i] |-> a.sum + j - 1],
         map |-> [t \in DOMAIN a.map \cup {a.sum + j - 1 : j \in 1..c.locations[i]} |->
                    IF t \in a.sum..(a.sum + c.locations[i] - 1) THEN i ELSE a.map[t]]]
      all == FoldLeftDomain(add, [sum |-> 0, idx |-> <<>>, map |-> <<>>], c.locations)
  IN  IF Len(c.locations) # Len(c.slices) THEN Error
      ELSE [err |-> "", idx |-> all.idx, map |-> all.map]

getRealDatabases(dbs) ==
  IF \E i \in DOMAIN dbs : Len(dbs[i]) = 3 /\ dbs[i][3] <= dbs[i][2] THEN Error
  ELSE [err |-> "", list |-> FlattenSeq([i \in DOMAIN dbs |->
          IF Len(dbs[i]) = 2 THEN <<dbs[i]>>
          ELSE [k \in 1..(dbs[i][3] - dbs[i][2] + 1) |-> <<dbs[i][1], dbs[i][2] + k - 1>>]])]

parseMycatHashRuleSliceInfos(c) ==
  LET h == parseHashRuleSliceInfos(c)
      d == getRealDatabases(c.databases)
  IN  IF h.err # "" \/ d.err # "" \/ Cardinality(DOMAIN h.map) # Len(d.list) THEN Error ELSE h

\* Consecutive ranges must ascend: each slice's dates lie after the previous slice's.
parseDateRule(c, ParseRange(_)) ==
  LET ranges == [i \in DOMAIN c.dateRange |-> ParseRange(c.dateRange[i])]
      add(a, i) ==
        CASE a.err # "" -> a
          [] a.err = "" /\ ranges[i].err # "" -> Error
          [] a.err = "" /\ ranges[i].err = "" /\ a.idx # <<>> /\ ranges[i].list = <<>> -> Panic
          [] a.err = "" /\ ranges[i].err = "" /\ a.idx # <<>> /\ ranges[i].list # <<>>
                        /\ ranges[i].list[1] <= a.idx[Len(a.idx)] -> Error
          [] OTHER -> [err |-> "", idx |-> a.idx \o ranges[i].list,
                       map |-> [t \in DOMAIN a.map \cup ToSet(ranges[i].list) |->
                                  IF t \in ToSet(ranges[i].list) THEN i ELSE a.map[t]]]
  IN  IF Len(c.dateRange) # Len(c.slices) THEN Error
      ELSE FoldLeftDomain(add, [err |-> "", idx |-> <<>>, map |-> <<>>], c.dateRange)

parseDateDayRuleSliceInfos(c) == parseDateRule(c, ParseDayRange)

parseDateMonthRuleSliceInfos(c) == parseDateRule(c, ParseMonthRange)

parseDateYearRuleSliceInfos(c) == parseDateRule(c, ParseYearRange)

parseGlobalTableRuleSliceInfos(c) ==
  IF c.databases = <<>> THEN parseHashRuleSliceInfos(c) ELSE parseMycatHashRuleSliceInfos(c)

(* The shards of the mycat rules, made and initialised: an error, or the    *)
(* table the sharding function works from.                                 *)
Shard(table) == [err |-> "", table |-> table]

NewMycatPartitionLongShard(c, n) ==
  LET long == MycatLongInit(n, c.count, c.length)
  IN  IF long.err # "" THEN long ELSE Shard(long.segment)

NewMycatPartitionStringShard(c, n) ==
  LET long == NewMycatPartitionLongShard(c, n)
  IN  IF long.err = "" /\ parseHashSliceStartEnd(c.hashSlice) = <<>> THEN Error ELSE long

NewMycatPartitionMurmurHashShard(c, n) ==
  IF NotANumber \in {c.seed, c.times} THEN Error ELSE Shard(generateBucketMap(c.seed, c.times, n))

GetMycatPartitionPaddingModShard(c, n) == IF ~PaddingModOK(c, n) THEN Error ELSE Shard(<<>>)

\* The shard of a range rule: the ranges must be as many as the tables.
RangeShard(c, n) ==
  CASE SumSeq(c.locations) < 0 -> Panic
    [] SumSeq(c.locations) >= 0 /\ SumSeq(c.locations) # n -> Error
    [] OTHER -> Shard(ParseNumSharding(SumSeq(c.locations), c.limit))

\* The sub-tables, with the table the sharding function works from.
parseRuleSliceInfos(c) ==
  LET made(p, New(_, _)) ==
        IF p.err # "" THEN p
        ELSE LET shard == New(c, Cardinality(DOMAIN p.map))
             IN  IF shard.err # "" THEN shard
                 ELSE [idx |-> p.idx, map |-> p.map, err |-> "", shard |-> shard.table]
      plain(p) == made(p, LAMBDA x, n : Shard(<<>>))
      mycat(New(_, _)) == made(parseMycatHashRuleSliceInfos(c), New)
  IN  CASE c.type \in {"hash", "mod"} -> plain(parseHashRuleSliceInfos(c))
        [] c.type = "range" -> made(parseHashRuleSliceInfos(c), RangeShard)
        [] c.type = "date_day" -> plain(parseDateDayRuleSliceInfos(c))
        [] c.type = "date_month" -> plain(parseDateMonthRuleSliceInfos(c))
        [] c.type = "date_year" -> plain(parseDateYearRuleSliceInfos(c))
        [] c.type = "mycat_mod" -> plain(parseMycatHashRuleSliceInfos(c))
        [] c.type = "mycat_long" -> mycat(NewMycatPartitionLongShard)
        [] c.type = "mycat_string" -> mycat(NewMycatPartitionStringShard)
        [] c.type = "mycat_murmur" -> mycat(NewMycatPartitionMurmurHashShard)
        [] c.type = "mycat_padding_mod" -> mycat(GetMycatPartitionPaddingModShard)
        [] c.type = "global" -> plain(parseGlobalTableRuleSliceInfos(c))
        [] OTHER -> Error

\* A rule keeps its configuration (cfg) and what was made of it.
parseRule(c) ==
  LET p == parseRuleSliceInfos(c)
      dbs == CASE IsMycatShardingRule(c.type) \/ (c.type = "global" /\ c.databases # <<>>) ->
                    getRealDatabases(c.databases).list
               [] c.type = "global" /\ c.databases = <<>> -> [i \in DOMAIN p.idx |-> c.db]
               [] OTHER -> <<>>
  IN  IF p.err # "" THEN p
      ELSE [err |-> "", db |-> c.db, table |-> ToLower(c.table), key |-> ToLower(c.key),
            type |-> c.type, slices |-> c.slices, idx |-> p.idx, map |-> p.map,
            shard |-> p.shard, cfg |-> c, dbs |-> dbs, linked |-> FALSE, parent |-> ToLower(c.table)]

-----------------------------------------------------------------------------
(* What a rule answers.                                                    *)

\* A key that is neither an integer nor a text ("null", "float") is
\* refused by the date shards and panics in the others.
FindTableIndex(r, key) ==
  LET n == Cardinality(DOMAIN r.map)
  IN  IF key.type \in {"null", "float"}
      THEN IF r.type \in {"date_year", "date_month", "date_day"} THEN Failed ELSE Panics
      ELSE
      CASE r.type = "hash" -> HashShard(n, key)
        [] r.type = "mod" -> ModShard(n, key)
        [] r.type = "range" -> NumRangeShard(r.shard, key)
        [] r.type = "date_year" -> DateYearShard(key)
        [] r.type = "date_month" -> DateMonthShard(key)
        [] r.type = "date_day" -> DateDayShard(key)
        [] r.type = "mycat_mod" -> MycatPartitionModShard(n, key)
        [] r.type = "mycat_long" -> MycatPartitionLongShard(r.shard, key)
        [] r.type = "mycat_string" ->
             MycatPartitionStringShard(r.shard, parseHashSliceStartEnd(r.cfg.hashSlice), key)
        [] r.type = "mycat_murmur" -> MycatPartitionMurmurHashShard(r.shard, r.cfg.seed, key)
        [] r.type = "mycat_padding_mod" -> MycatPartitionPaddingModShard(r.cfg, n, key)
        [] r.type = "default" -> DefaultShard
        [] r.type = "global" -> GlobalTableShard

EqualStart(r, key, i) ==
  CASE r.type = "range" -> EqualStartRange(r.shard, key, i)
    [] r.type = "date_year" -> EqualStartYear(key, i)
    [] r.type = "date_month" -> EqualStartMonth(key, i)
    [] r.type = "date_day" -> EqualStartDay(key, i)

GetSliceIndexFromTableIndex(r, i) == IF i \in DOMAIN r.map THEN r.map[i] ELSE -1

\* index > len lets the index of one past the last table through, which panics.
GetDatabaseNameByTableIndex(r, i) ==
  IF IsMycatShardingRule(r.type) \/ r.type = "global"
  THEN IF i > Len(r.idx) THEN "error" ELSE IF i >= Len(r.dbs) THEN "panic" ELSE r.dbs[i + 1]
  ELSE r.db

\* Of databases with the same name the last one counts.
GetTableIndexByDatabaseName(r, name) ==
  LET at == {i \in DOMAIN r.dbs : r.dbs[i] = name}
  IN  IF at = {} THEN -1 ELSE (CHOOSE i \in at : \A j \in at : j <= i) - 1

\* A linked rule has its own names and everything else from its parent.
createLinkedRule(rules, c) ==
  LET p == <<c.db, ToLower(c.parent)>>
  IN  IF p \notin DOMAIN rules \/ rules[p].linked THEN Error
      ELSE [rules[p] EXCEPT !.table = ToLower(c.table), !.key = ToLower(c.key), !.linked = TRUE]

-----------------------------------------------------------------------------
(* The router.                                                             *)

includeSlice(slices, name) == name \in ToSet(slices)

Put(rules, r) == [k \in DOMAIN rules \cup {<<r.db, r.table>>} |->
                    IF k = <<r.db, r.table>> THEN r ELSE rules[k]]

\* n: the slices' names, the default slice and the configured rules.  The
\* linked rules are made last, and replace a rule of the same table.
NewRouter(n) ==
  LET base(a, c) ==
        LET r == parseRule(c)
        IN  CASE a.err # "" -> a
              [] a.err = "" /\ \E i \in DOMAIN c.slices : ~includeSlice(n.slices, c.slices[i]) -> Error
              [] OTHER ->
                   CASE c.type = "linked" -> [a EXCEPT !.linked = Append(@, c)]
                     [] c.type # "linked" /\ r.err # "" -> [err |-> r.err]
                     [] c.type # "linked" /\ r.err = "" ->
                          IF <<r.db, r.table>> \in DOMAIN a.rules THEN Error
                          ELSE [a EXCEPT !.rules = Put(@, IF c.type = "global"
                                                           THEN [r EXCEPT !.slices = n.slices] ELSE r)]
      first == FoldLeft(base, [err |-> "", rules |-> <<>>, linked |-> <<>>], n.rules)
      link(a, c) == IF a.err # "" THEN a
                    ELSE LET r == createLinkedRule(a.rules, c)
                         IN  IF "err" \in DOMAIN r /\ r.err # "" THEN Error ELSE [a EXCEPT !.rules = Put(@, r)]
  IN  IF ~includeSlice(n.slices, n.defaultSlice) THEN Error
      ELSE IF first.err # "" THEN first
      ELSE FoldLeft(link, first, first.linked)

\* A table that names its database ("db.table") is looked up there.
SplitTable(db, name) == IF Len(name) = 2 THEN name ELSE <<db, name[1]>>

GetShardRule(router, db, name) ==
  LET k == SplitTable(db, name)
  IN  IF k \in DOMAIN router.rules THEN router.rules[k] ELSE [err |-> "none"]

DefaultRule(slice, db) == [err |-> "", type |-> "default", db |-> db, slices |-> <<slice>>,
                           idx |-> <<>>, map |-> <<>>, linked |-> FALSE]

\* The one default rule of the router takes the database of whoever asked last.
GetRule(router, slice, db, name) ==
  LET r == GetShardRule(router, db, name)
  IN  IF r.err # "" THEN DefaultRule(slice, SplitTable(db, name)[1]) ELSE r
=============================================================================
