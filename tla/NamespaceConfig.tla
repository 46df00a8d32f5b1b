--------------------------- MODULE NamespaceConfig ---------------------------
(***************************************************************************)
(* A namespace's configuration: what Verify accepts when it is stored      *)
(* (models/namespace.go, shard_rule.go, slice.go, user.go), and what       *)
(* NewNamespace makes of it when the proxy loads it                        *)
(* (proxy/server/namespace.go, backend/slice.go).  The two are separate    *)
(* copies of the same rules.                                               *)
(*                                                                         *)
(* "" is the empty text.  Numbers held as text are numbers, NotANumber or  *)
(* Empty.  A slave's address is <<address>> or <<address, weight>>.  A     *)
(* pool that is open is named by its slice, its role and its place.        *)
(***************************************************************************)
EXTENDS Rules, Balancer

CONSTANTS TrimSpace(_),         \* strings.TrimSpace on names
          Charsets,             \* the names of character sets
          CollationCharset,     \* CollationNameToCharset: the set of each collation
          UTF8Charset           \* mysql.DefaultCharset

NoError == [err |-> ""]

FirstError(list) ==
  LET bad == {i \in DOMAIN list : list[i].err # ""}
  IN  IF bad = {} THEN NoError ELSE list[CHOOSE i \in bad : \A j \in bad : i <= j]

When(bad) == IF bad THEN Error ELSE NoError

-----------------------------------------------------------------------------
(* Verify.                                                                 *)

verifyName(n) == When(n.name = "")

verifyAllowDBS(n) == When(DOMAIN n.allowed = {})

\* The user's own checks; the texts are trimmed only after they are looked at.
verifyUser(u) == When(\/ "" \in {u.user, u.ns, u.password}
                      \/ u.rw \notin {1, 2} \/ u.split \notin {0, 1} \/ u.other \notin {0, 1})

UserNamespace(n, u) == IF u.ns = "" THEN n.name ELSE u.ns

verifyUsers(n) ==
  LET U == [i \in DOMAIN n.users |-> [n.users[i] EXCEPT !.ns = UserNamespace(n, n.users[i])]]
  IN  When(\/ U = <<>>
           \/ \E i \in DOMAIN U : \/ U[i].ns # n.name
                                 \/ verifyUser(U[i]).err # ""
                                 \/ \E j \in 1..(i - 1) : TrimSpace(U[j].user) = TrimSpace(U[i].user))

\* Verify leaves the trimmed texts in the configuration it was given.
VerifiedUsers(n) ==
  [i \in DOMAIN n.users |-> [n.users[i] EXCEPT !.user = TrimSpace(@), !.password = TrimSpace(@),
                                               !.ns = TrimSpace(UserNamespace(n, n.users[i]))]]

verifySlowSQLTime(n) == When(n.slow # Empty /\ (n.slow = NotANumber \/ n.slow < 0))

verifyDBs(n) == When(DOMAIN n.phy # {} /\ ~(DOMAIN n.allowed \subseteq DOMAIN n.phy))

\* An address is "", "ip", "cidr" or "bad", what ParseIPInfo makes of its text.
verifyAllowIps(n) == When("bad" \in ToSet(n.ips))

VerifyCharset(charset, collation) ==
  When(\/ charset = "" /\ collation # ""
       \/ charset # "" /\ charset \notin Charsets
       \/ charset # "" /\ collation # "" /\ collation \notin DOMAIN CollationCharset
       \/ charset # "" /\ collation \in DOMAIN CollationCharset /\ CollationCharset[collation] # charset)

verifySlice(s) ==
  When(\/ s.name = "" \/ s.user = ""
       \/ s.master = "" /\ s.slaves = <<>>
       \/ \E i \in DOMAIN s.slaves : s.slaves[i] = <<"">>
       \/ \E i \in DOMAIN s.dcSlaves : s.dcSlaves[i] = <<"">>
       \/ s.capacity <= 0 \/ s.maxCapacity <= 0)

SliceNames(n) == [i \in DOMAIN n.slices |-> n.slices[i].name]

verifySlices(n) ==
  When(\/ n.slices = <<>>
       \/ \E i \in DOMAIN n.slices : verifySlice(n.slices[i]).err # ""
       \/ \E i, j \in DOMAIN n.slices : i # j /\ n.slices[i].name = n.slices[j].name)

\* Mutant: any default slice is accepted.
DefaultSliceAny(n) == When(n.slices = <<>>)
verifyDefaultSlice(n) ==
  When(n.defaultSlice # "" /\ ~\E i \in DOMAIN n.slices : n.slices[i].name = n.defaultSlice)

-----------------------------------------------------------------------------
(* The rules.  The date ranges are checked more closely than the router    *)
(* checks them; everything else is the router's code again.                *)

VerifyDayRange(r) == IF \E i \in DOMAIN r : TextLen(r[i]) # 8 \/ ~IsDay(r[i]) THEN Error ELSE ParseDayRange(r)

VerifyMonthRange(r) == IF \E i \in DOMAIN r : TextLen(r[i]) # 6 \/ ~IsMonth(r[i]) THEN Error ELSE ParseMonthRange(r)

VerifyYearRange(r) == IF \E i \in DOMAIN r : TextLen(r[i]) # 4 THEN Error ELSE ParseYearRange(r)

verifyHashRuleSliceInfos(c) == parseHashRuleSliceInfos(c)

verifyMycatHashRuleSliceInfos(c) == parseMycatHashRuleSliceInfos(c)

verifyRangeRule(c) ==
  LET h == verifyHashRuleSliceInfos(c)
  IN  IF h.err # "" THEN h
      ELSE IF SumSeq(c.locations) < 0 THEN Panic
      ELSE When(SumSeq(c.locations) # Cardinality(DOMAIN h.map))

verifyDateDayRuleSliceInfos(c) == parseDateRule(c, VerifyDayRange)

verifyDateMonthRuleSliceInfos(c) == parseDateRule(c, VerifyMonthRange)

verifyDateYearRuleSliceInfos(c) == parseDateRule(c, VerifyYearRange)

verifyMycatPatitionLongShard(n, c) ==
  LET count == toIntArray(c.count)
      length == toIntArray(c.length)
  IN  [err |-> LongShardError(n, count, length)]

verifyHashSliceStartEnd(parts) == When(parseHashSliceStartEnd(parts) = <<>>)

\* What Init of the padding shard checks, too: the end of the cut is not
\* compared with the length of the padded text.
verifyMycatPartitionPaddingModShard(c, n) == When(~PaddingModOK(c, n))

verifyMycatRule(c) ==
  LET y == verifyMycatHashRuleSliceInfos(c)
      n == Cardinality(DOMAIN y.map)
  IN  IF y.err # "" THEN y
      ELSE CASE c.type = "mycat_mod" -> NoError
             [] c.type = "mycat_long" -> verifyMycatPatitionLongShard(n, c)
             [] c.type = "mycat_string" ->
                  FirstError(<<verifyMycatPatitionLongShard(n, c), verifyHashSliceStartEnd(c.hashSlice)>>)
             [] c.type = "mycat_murmur" -> When(NotANumber \in {c.seed, c.times})
             [] c.type = "mycat_padding_mod" -> verifyMycatPartitionPaddingModShard(c, n)

verifyGlobalTableRuleSliceInfos(c) ==
  IF c.databases = <<>> THEN verifyHashRuleSliceInfos(c) ELSE verifyMycatHashRuleSliceInfos(c)

\* ruleVerifyFuncMapping.
verifyRuleSliceInfos(c) ==
  CASE c.type \in {"hash", "mod"} -> verifyHashRuleSliceInfos(c)
    [] c.type = "range" -> verifyRangeRule(c)
    [] c.type = "date_day" -> verifyDateDayRuleSliceInfos(c)
    [] c.type = "date_month" -> verifyDateMonthRuleSliceInfos(c)
    [] c.type = "date_year" -> verifyDateYearRuleSliceInfos(c)
    [] c.type \in MycatTypes -> verifyMycatRule(c)
    [] c.type = "global" -> verifyGlobalTableRuleSliceInfos(c)
    [] OTHER -> Error

\* Tables are told apart by the names as they are written.
verifyShardRules(n) ==
  LET R == n.rules
      one(i) == FirstError(
        <<When(\E k \in DOMAIN R[i].slices : ~includeSlice(SliceNames(n), R[i].slices[k])),
          CASE R[i].type = "default" -> Error
            [] R[i].type = "linked" -> NoError
            [] OTHER -> verifyRuleSliceInfos(R[i]),
          When(\E j \in 1..(i - 1) : R[j].db = R[i].db /\ R[j].table = R[i].table)>>)
      linked(i) == When(R[i].type = "linked" /\
                        ~\E j \in DOMAIN R : /\ R[j].db = R[i].db /\ R[j].table = R[i].parent
                                             /\ R[j].type # "linked")
  IN  FirstError([i \in DOMAIN R |-> one(i)] \o [i \in DOMAIN R |-> linked(i)])

Verify(n) ==
  FirstError(<<verifyName(n), verifyAllowDBS(n), verifyUsers(n), verifySlowSQLTime(n), verifyDBs(n),
               verifyAllowIps(n), VerifyCharset(n.charset, n.collation), verifySlices(n),
               verifyDefaultSlice(n), verifyShardRules(n)>>).err

-----------------------------------------------------------------------------
(* NewNamespace.                                                           *)

parseSlowSQLTime(slow) ==
  IF slow = Empty THEN NoError ELSE When(slow = NotANumber \/ slow < 0)

TrimKeys(f) == [k \in {TrimSpace(d) : d \in DOMAIN f} |-> f[CHOOSE d \in DOMAIN f : TrimSpace(d) = k]]

parseDefaultPhyDB(phy, allowed) ==
  IF DOMAIN phy = {} THEN NoError ELSE When(~(DOMAIN allowed \subseteq DOMAIN phy))

parseAllowIps(ips) == When("bad" \in ToSet(ips))

parseCharset(charset, collation) ==
  CASE charset = "" /\ collation = "" -> NoError
    [] charset # "" /\ collation = "" -> When(charset \notin Charsets)
    [] collation # "" -> VerifyCharset(charset, collation)

\* The pools that reading a list of slaves opens before it fails or ends.
ParseSlaves(slice, role, slaves) ==
  LET bad == {i \in DOMAIN slaves : Len(slaves[i]) = 2 /\ slaves[i][2] = NotANumber}
      upto == IF bad = {} THEN Len(slaves) ELSE (CHOOSE i \in bad : \A j \in bad : i <= j) - 1
      weights == [i \in DOMAIN slaves |-> IF Len(slaves[i]) = 2 THEN slaves[i][2] ELSE 1]
  IN  [err |-> IF bad # {} THEN "error" ELSE IF BalancerPanics(ParsedWeights(role, weights)) THEN "panic" ELSE "",
       opened |-> {<<slice, role, i>> : i \in 1..upto}]

\* The slaves of the local data centre are read twice, for both roles.
parseSlice(s, n) ==
  LET master == IF s.master = "" THEN [err |-> "error", opened |-> {}]
                ELSE [err |-> "", opened |-> {<<s.name, "master", 1>>}]
      local == ParseSlaves(s.name, "masterdc", s.slaves)
      slave == ParseSlaves(s.name, "slave", IF n.masterDC \/ n.forceMaster THEN s.slaves ELSE s.dcSlaves)
      stat == ParseSlaves(s.name, "statistic", s.statistic)
      steps == <<master, local, slave, stat>>
      bad == {i \in 1..4 : steps[i].err # ""}
      last == IF bad = {} THEN 4 ELSE CHOOSE i \in bad : \A j \in bad : i <= j
  IN  [err |-> steps[last].err, opened |-> UNION {steps[i].opened : i \in 1..last}]

\* The names are trimmed in the configuration itself: the router sees them so.
parseSlices(n) ==
  LET S == [i \in DOMAIN n.slices |-> [n.slices[i] EXCEPT !.name = TrimSpace(@)]]
      one(i) == IF \E j \in 1..(i - 1) : S[j].name = S[i].name
                THEN [err |-> "error", opened |-> {}] ELSE parseSlice(S[i], n)
      bad == {i \in DOMAIN S : one(i).err # ""}
      last == IF bad = {} THEN Len(S) ELSE CHOOSE i \in bad : \A j \in bad : i <= j
  IN  [err |-> IF bad = {} THEN "" ELSE one(last).err,
       opened |-> UNION {one(i).opened : i \in 1..last}]

\* Close of a slice leaves the pools of the local data centre's slaves open.
SliceClose(pools) == {p \in pools : p[2] = "masterdc"}

Sequences(n) == When(\E i \in DOMAIN n.sequences :
                       ~\E j \in DOMAIN n.slices : TrimSpace(n.slices[j].name) = n.sequences[i].slice)

\* A step that fails sets err, so that the deferred Close runs; but the
\* namespace holds the slices only once parseSlices has succeeded, and the
\* error of a sequence without a slice is returned without being in err.
NewNamespace(n) ==
  LET early == FirstError(<<parseSlowSQLTime(n.slow), parseDefaultPhyDB(TrimKeys(n.phy), TrimKeys(n.allowed)),
                            parseAllowIps(n.ips), parseCharset(n.charset, n.collation)>>)
      slices == parseSlices(n)
      router == NewRouter([slices |-> [i \in DOMAIN n.slices |-> TrimSpace(n.slices[i].name)],
                           defaultSlice |-> n.defaultSlice, rules |-> n.rules])
  IN  CASE early.err # "" -> [err |-> early.err, opened |-> {}]
        [] early.err = "" /\ slices.err # "" -> slices
        [] early.err = "" /\ slices.err = "" /\ router.err # "" ->
             [err |-> router.err, opened |-> IF router.err = "panic" THEN slices.opened ELSE SliceClose(slices.opened)]
        [] early.err = "" /\ slices.err = "" /\ router.err = "" /\ Sequences(n).err # "" ->
             [err |-> "error", opened |-> slices.opened]
        [] OTHER -> [err |-> "", opened |-> slices.opened, router |-> router]
=============================================================================
