---------------------------- MODULE MCAlgorithms ------------------------------
(***************************************************************************)
(* Checks the algorithms on every input of the sets below and of the       *)
(* Checks modules: syntax trees, the lexer, prepared statements,           *)
(* fingerprints, decimals, packets and rows, routing, merging and the      *)
(* checks of a namespace.  A step chooses an input, or a part of one; Done *)
(* puts it away.  The properties are about the steps: every input is left, *)
(* by Done or for a larger one, and what is claimed holds of it then.      *)
(***************************************************************************)
EXTENDS Lexer, NamespaceChecks, TLC

CONSTANTS MaxSet,                             \* fields of a node that differ from the default
          MaxPacketSize, SequenceNumbers,     \* of Wire
          FloatDigits,                        \* of Rows
          digitsPerWord, wordBufLen           \* of Decimal

VARIABLE in

-----------------------------------------------------------------------------
(* Texts.                                                                  *)

Ascii == " !\"#$%&'()*+,-./0123456789:;<=>?@ABCDEFGHIJKLMNOPQRSTUVWXYZ[\\]^_"
Lowers == "abcdefghijklmnopqrstuvwxyz"

CodeOf == [n \in {SubSeq(Ascii, i, i) : i \in 1..64} |-> CHOOSE c \in 32..95 : SubSeq(Ascii, c - 31, c - 31) = n] @@
          [n \in {SubSeq(Lowers, i, i) : i \in 1..26} |-> CHOOSE c \in 97..122 : SubSeq(Lowers, c - 96, c - 96) = n]

Newline == <<10>>

\* The bytes of a text.
B(text) == [i \in 1..Len(text) |-> CodeOf[SubSeq(text, i, i)]]

Bs(texts) == {B(t) : t \in texts}

\* The texts over some bytes, up to a length.
UpTo(bytes, n) == UNION {[1..k -> bytes] : k \in 0..n}

OfLength(n) == [i \in 1..n |-> 97]

MCKeywords == Bs({"BEGIN", "START", "TRANSACTION", "COMMIT", "ROLLBACK", "SELECT", "DELETE", "SET",
                  "TRUE", "FALSE", "NULL"})
MCFunctions == Bs({"COUNT"})
MCCharsets == Bs({"utf8", "utf8mb4", "binary"})

Sy == INSTANCE SyntaxChecks
Fp == INSTANCE Fingerprint
De == INSTANCE Decimal
Ro == INSTANCE Rows WITH ServerVersion <- OfLength(3), NativePassword <- OfLength(2)

Is(what) == in # <<>> /\ in[1] = what

-----------------------------------------------------------------------------
(* Syntax trees: a default node, then one field after the other.           *)

NewNode == in = <<>> /\ \E kind \in Sy!Kinds : in' = <<"node", kind, Sy!Default(kind)>>

SetField == /\ Is("node")
       /\ \E f \in DOMAIN in[3] :
            /\ in[3][f] = Sy!Default(in[2])[f]
            /\ Cardinality({g \in DOMAIN in[3] : in[3][g] # Sy!Default(in[2])[g]}) < MaxSet
            /\ \E n \in Sy!Changes(in[2], in[3], f) : in' = <<"node", in[2], n>>

\* A statement that the proxy prints for a server has all the parts of the one
\* the client sent, except those SyntaxChecks names (Restore of every node).
PrintsAll == [][Is("node") => Sy!RestoreKeepsAll(in[2], in[3])]_in

\* A part of a statement that is printed is also visited, so that the routing
\* and the rewriting of names see it (Accept of every node), except those
\* SyntaxChecks names.
PrintedIsVisited == [][Is("node") => Sy!RestoredIsVisited(in[2], in[3])]_in

-----------------------------------------------------------------------------
(* The lexer, and the statements it shares with Preview and calcParams.    *)

Fragments == Bs({"", "ab", "1", "'x'", "@u", "1.5", "set"})

Closed(comment) == \A i \in 1..(Len(comment) - 1) : ~(comment[i] = 42 /\ comment[i + 1] = 47)

String == in = <<>> /\ \E q \in {34, 39}, body \in UpTo({34, 39, 92, 97, 110, 37, 195, 169}, 3) :
                         in' = <<"string", q, body>>

Literals ==
  Bs({"TRUE", "FALSE", "NULL", "0", "007", "9223372036854775806", "9223372036854775807", "9223372036854775808",
      "18446744073709551615", "18446744073709551616", "x''", "x'0f'", "X'AbCd'", "0x1", "0xabc", "x'abc'", "0X1",
      "b''", "b'0'", "B'101'", "0b101", "b'000000001'", "b'100000001'", "'a'", "_utf8'a'", "_UTF8'a'",
      "_utf8mb4'a'", "_binary'a'", "'a' 'b'"})

\* A literal in a node that may have held another one.
Value == in = <<>> /\ \E before \in (Literals \ Bs({"x'abc'", "0X1"})) \cup {<<>>}, text \in Literals :
                        in' = <<"value", before, text>>

Name == in = <<>> /\ \E name \in UpTo({39, 96, 97, 169, 195}, 3) : in' = <<"name", name>>

CommentAmong ==
  /\ in = <<>>
  /\ \E a, b \in Fragments, i \in UpTo({42, 47, 39, 97, 32}, 3) :
       \/ Closed(i \o <<42>>) /\ in' = <<"comment", a, B("/*") \o i \o B("*/"), <<>>, b>>
       \/ in' = <<"comment", a, B("#") \o i \o Newline, <<>>, b>>
       \/ in' = <<"comment", a, B("-- ") \o i \o Newline, <<>>, b>>

ExecutableComment ==
  in = <<>> /\ \E a, b, i \in Fragments, open \in Bs({"/*!", "/*!40101 ", "/*!401011", "/*! "}) :
                 in' = <<"comment", a, open \o i \o B(" */"), i, b>>

Statement ==
  in = <<>> /\ \E l1, l2 \in Bs({"", " ", "/*a*/", "/*!", "/*!40101 ", "("})
                              \cup {B("-- set a") \o Newline, B("# set a") \o Newline},
                  word \in Bs({"select a", "begin", "commit", "START transaction", "set a", "delete a"}),
                  trail \in Bs({"", " ", "/*a*/", " a", "*/", " */", "/*"}) :
                 in' = <<"statement", l1 \o l2 \o word \o trail>>

Arguments == {[quote |-> TRUE, text |-> t] : t \in UpTo({34, 39, 63, 92, 97}, 2)}
             \cup {[quote |-> FALSE, text |-> t] : t \in Bs({"NULL", "7", "1.5"})}

\* A statement with two markers and a literal between them.
Execute ==
  /\ in = <<>>
  /\ \E q \in {34, 39}, body \in UpTo({34, 39, 63, 97}, 2), x \in Arguments,
        y \in {[quote |-> TRUE, text |-> B("?'")], [quote |-> FALSE, text |-> B("7")]} :
       LET u == Unquoted(q, body \o <<q>>)
       IN  /\ u.closed /\ u.used = Len(body) + 1
           /\ in' = <<"execute", B("a=?,") \o <<q>> \o body \o <<q>> \o B(",?"), <<x, y>>>>

\* What the proxy writes into a statement, the lexer of a server reads as what
\* was meant: literals, names, comments, and the arguments of a prepared
\* statement in the places of its markers (StringKept, ValueKept, NameKept,
\* CommentsRead, ParamsKept of Lexer).
ReadAsMeant ==
  [][/\ Is("string") => StringKept(in[2], in[3])
     /\ Is("value") => ValueKept(in[2], in[3])
     /\ Is("name") => NameKept(in[2])
     /\ Is("comment") => CommentsRead(in[2], in[3], in[4], in[5])
     /\ Is("execute") => ParamsKept(in[2], in[3])]_in

\* Preview, which looks at the first word of the text, and the parser agree on
\* the kind of a statement, whatever comments are around it.
PreviewIsParsed == [][Is("statement") => PreviewAgrees(in[2])]_in

-----------------------------------------------------------------------------
(* Fingerprints: statements of up to two parts, some with a value.         *)

Parts ==
  {<<s[1], s[2], B("1"), v>> :
     s \in {<<B("a="), B(" ")>>, <<B("a in("), B(") ")>>, <<B("a in ("), B(") ")>>, <<B("values ("), B(") ")>>,
            <<B(", ("), B(") ")>>, <<B("f("), B(") ")>>, <<B("limit "), B(" ")>>, <<B("a < "), B(" ")>>},
     v \in Bs({"23", "'a'", "\"b c\"", "1.5", "0x1f", "'\\''"})}
  \cup {<<p, <<>>, <<>>, <<>>>> : p \in Bs({"and ", "order by a asc ", "/* c */ ", "select "})}

Part ==
  /\ in = <<>> \/ (Is("parts") /\ Len(in[2]) < 2)
  /\ \E p \in Parts : in' = <<"parts", Append(IF in = <<>> THEN <<>> ELSE in[2], p)>>

\* Statements that differ in their values only have one fingerprint, so that
\* the slow log and the blacklist take them for one (GetFingerprint).
SameFingerprint == [][Is("parts") => Fp!ValuesHidden(in[2])]_in

-----------------------------------------------------------------------------
(* Decimals.                                                               *)

Nines == UpTo({0, 9}, 3)

Decimal(neg, int, frac, exp) == [neg |-> neg, int |-> int, frac |-> frac, exp |-> exp]

Literal == in = <<>> /\ \E int \in Nines \cup {<<9, 1, 5, 0>>, <<1, 2, 3, 4, 5>>, <<9, 9, 9, 9, 9, 9>>},
                           frac \in Nines \cup {<<9, 1, 5, 0>>, <<1, 2, 3, 4, 5>>},
                           exp \in {<<>>} \cup {<<e>> : e \in -6..6} :
                          in' = <<"literal", Decimal(TRUE, int, frac, exp)>>

Rounded == in = <<>> /\ \E int \in Nines \cup {<<9, 1, 5, 0>>, <<9, 9, 9, 9>>},
                           frac \in Nines \cup {<<5>>, <<9, 5>>, <<9, 9, 9, 5>>, <<5, 0, 0, 0>>},
                           n \in -3..5, mode \in {"halfEven", "truncate"} :
                          in' = <<"rounded", Decimal(TRUE, int, frac, <<>>), n, mode>>

Sum == in = <<>> /\ \E int1, int2 \in UpTo({0, 5, 9}, 2) \cup {<<9, 9, 9, 9>>},
                       frac1, frac2 \in {<<>>, <<0>>, <<5>>, <<9, 5, 1>>}, neg \in BOOLEAN :
                      in' = <<"sum", Decimal(FALSE, int1, frac1, <<>>), Decimal(neg, int2, frac2, <<>>)>>

\* A decimal literal that the parser accepts keeps its value in the statement
\* printed for a server; sums, differences, comparisons and roundings that
\* report no error are exact (LiteralKept, RoundNearest, SumExact of Decimal).
DecimalsExact ==
  [][/\ Is("literal") => De!LiteralKept(in[2])
     /\ Is("rounded") => De!RoundNearest(in[2], in[3], in[4])
     /\ Is("sum") => De!SumExact(in[2], in[3], 4)]_in

-----------------------------------------------------------------------------
(* Packets and rows.                                                       *)

Integers64 == {Ro!U64(n) : n \in {0, 250, 251, 65535, 65536, 16777215}}
              \cup {<<0, 0, 0, 1, 0, 0, 0, 0>>, [i \in 1..8 |-> 255]}

TheField ==
  [schema |-> OfLength(1), table |-> OfLength(2), orgTable |-> <<>>, name |-> OfLength(1), orgName |-> OfLength(3),
   charset |-> 33, columnLength |-> 70000, type |-> 3, flag |-> 4097, decimal |-> 31,
   defaultLength |-> Ro!U64(0), default |-> <<>>]

TheFields == {TheField} \cup {[TheField EXCEPT !.name = OfLength(n)] : n \in {0, 250, 251, 252}}
             \cup {[TheField EXCEPT !.default = OfLength(n), !.defaultLength = Ro!U64(n)] : n \in {1, 251}}

TextRows == {Ro!AppendLenEncStringBytes(<<>>, OfLength(n)) : n \in {0, 1, 250, 251, 254}} \cup {<<251>>, <<0, 4, 1>>}

\* Two packets one after the other; a result without rows; one with rows; the
\* handshake of a client.
Frames == in = <<>> /\ \E n, m \in 0..9, seq \in 0..(SequenceNumbers - 1) : in' = <<"frames", n, m, seq>>

OkResult == in = <<>> /\ \E n, m \in Integers64, status \in {0, 2, 3} :
                           in' = <<"result", status, [set |-> <<>>, affected |-> n, insertID |-> m]>>

\* An error; a field, in the answer to PREPARE and in commands.
ErrorResult == in = <<>> /\ \E code \in {0, 1045, 65535}, state \in {<<>>, OfLength(5)}, n \in 0..4 :
                              in' = <<"error", code, state, OfLength(n)>>

AField == in = <<>> /\ \E f \in TheFields, params, columns \in 0..2 : in' = <<"field", f, params, columns>>

RowsResult ==
  in = <<>> /\ \E f, g \in TheFields, row \in TextRows, n \in 0..2 :
                 in' = <<"result", 2, [set |-> <<[fields |-> IF n = 1 THEN <<f>> ELSE <<f, g>>,
                                                  rows |-> [i \in 1..n |-> row]]>>,
                                       affected |-> Ro!U64(0), insertID |-> Ro!U64(0)]>>

Handshake == in = <<>> /\ \E user \in 0..2, auth \in {0, 20}, db \in 0..2, collation \in {0, 33, 255} :
                            in' = <<"handshake", user, auth, db, collation>>

\* What one side of a connection writes, the other side reads: packets of any
\* length under any sequence number, results, errors, fields and handshakes
\* (FramesAgree, ResultPasses, HeadersPass, ErrorPasses, BuffersFilled,
\* HandshakePasses of Wire).
ReadAsWritten ==
  [][/\ Is("frames") => Ro!FramesAgree(OfLength(in[2]), OfLength(in[3]), in[4])
     /\ Is("result") => /\ Ro!ResultPasses(in[2], in[3])
                        /\ Ro!HeadersPass(in[3].affected, in[3].insertID, in[2], 1)
     /\ Is("error") => Ro!ErrorPasses(in[2], in[3], in[4])
     /\ Is("field") => Ro!BuffersFilled(in[2], in[3], in[4])
     /\ Is("handshake") => Ro!HandshakePasses(10001, [i \in 1..20 |-> 100 + i], OfLength(in[2]),
                                              [i \in 1..in[3] |-> i], OfLength(in[4]), in[5])]_in

Column(type, unsigned, v) == <<[type |-> type, unsigned |-> unsigned], [null |-> FALSE, v |-> v]>>

NullColumn == <<[type |-> "Long", unsigned |-> FALSE], [null |-> TRUE]>>

Number(neg, int, frac) == [neg |-> neg, int |-> int, frac |-> frac]

Columns ==
  {NullColumn, <<[type |-> "Null", unsigned |-> FALSE], [null |-> TRUE]>>,
   Column("Longlong", TRUE, [i \in 1..8 |-> 255]),
   Column("Double", FALSE, Number(TRUE, B("1"), B("50"))), Column("Float", FALSE, Number(FALSE, B("1"), <<>>)),
   Column("NewDecimal", FALSE, Number(FALSE, B("10"), B("5")))}
  \cup {Column("Tiny", FALSE, Ro!SignExtend(<<n>>)) : n \in {0, 127, 128, 255}}
  \cup {Column("Tiny", TRUE, Ro!ZeroExtend(<<n>>)) : n \in {0, 128, 255}}
  \cup {Column(type, FALSE, Ro!SignExtend(<<0, n>>)) : type \in {"Short", "Long", "Longlong"}, n \in {0, 127, 128}}
  \cup {Column(type, FALSE, OfLength(n)) : type \in {"VarString", "Blob", "JSON"}, n \in {0, 1, 251}}
  \cup {Column("Date", FALSE, [y |-> y, mo |-> 12, d |-> 31]) : y \in {2020, 9999}}
  \cup {Column("Date", FALSE, Ro!ZeroDate), Column("Datetime", FALSE, Ro!ZeroDatetime)}
  \cup {Column("Datetime", FALSE, [y |-> 2020, mo |-> 2, d |-> 29, h |-> h, mi |-> 0, s |-> h, us |-> us]) :
          h \in {0, 23}, us \in {0, 999999}}
  \cup {Column("Duration", FALSE, [neg |-> neg, h |-> h, mi |-> 1, s |-> 0, us |-> us]) :
          neg \in BOOLEAN, h \in {0, 23, 24, 838}, us \in {0, 1}}

\* A row of a prepared statement; NULL columns before the two of interest move
\* the bits of the others over the end of a byte.
Row == in = <<>> /\ \E x, y \in Columns, nulls \in {0, 5, 6} :
                      in' = <<"row", [i \in 1..nulls |-> NullColumn] \o <<x, y>>>>

\* The values of a row that a server sends as text are those that the client
\* of a prepared statement reads in binary, and those that are read from a
\* result the proxy builds of them (BuildBinaryResultset, BuildResultset).
PreparedRowIsRow ==
  [][Is("row") =>
       LET fields == [i \in DOMAIN in[2] |-> in[2][i][1]]
           cells == [i \in DOMAIN in[2] |-> in[2][i][2]]
       IN  Ro!PreparedRowKept(fields, cells) /\ Ro!BuiltRowKept(fields, cells)]_in

-----------------------------------------------------------------------------
(* Routing, merging and configuration.                                     *)

\* Stand-ins for the functions of the libraries.
MCCrc32(text) == 5
MCMurmur(seed, text) == IF text = <<>> THEN 0 ELSE (text[1] * 7 + text[Len(text)] * 5 + seed) % 11
MCCivil(seconds) == <<2016, 1, 1>>
MCLower(name) == IF name = "T" THEN "t" ELSE name
MCTrim(name) == CASE name = "u " -> "u" [] name = "slice-1 " -> "slice-1" [] OTHER -> name
MCCollations == [utf8_bin |-> "utf8", gbk_bin |-> "gbk"]

Se == INSTANCE Select

\* A query, an update or a delete is planned.
Query == in = <<>> /\ \E c \in RouteRules : \E s \in Queries(c) : in' = <<"query", c, s>>

\* An INSERT is planned.
Insert == in = <<>> /\ \E c \in RouteRules : \E s \in Inserts(c) : in' = <<"insert", c, s>>

\* A key is looked for under a rule.
Find == in = <<>> /\ \E c \in RuleConfigs, key \in ShardKeys : in' = <<"find", c, key>>

\* The answers of two sub-tables are merged.
Merge == in = <<>> /\ \E q \in Se!MergedQueries, t1, t2 \in Se!SubTables : in' = <<"merge", q, t1, t2>>

\* The results of a change on two sub-tables are merged.
MergeExec == in = <<>> /\ \E r1, r2 \in Se!ExecResults : in' = <<"exec", r1, r2>>

\* A namespace is verified, stored and loaded.
Load == in = <<>> /\ \E n \in Namespaces : in' = <<"load", n>>

\* Every row that a statement selects, changes or inserts is in a sub-table
\* that the proxy asks, changes or inserts into, under the conditions it keeps
\* for that sub-table; and the sub-table of a key is one of the rule's
\* (RouteComplete, RowsRouted, IndexIsTable; proxy/plan, FindTableIndex).
RoutedWhereStored ==
  [][/\ Is("query") => RouteComplete(in[2], in[3])
     /\ Is("insert") => RowsRouted(in[2], in[3])
     /\ Is("find") => IndexIsTable(in[2], in[3])]_in

\* The proxy's answer to a sharded query is one that the whole table would
\* give: same rows, same order, same window (MergeSelectResult), outside the
\* five known differences: StarMoves, LimitsGroups, DistinctAggregates,
\* CountsTwice, HavingOfParts.  The result of a change does not depend on
\* which sub-table answers first.
MergedAsWhole ==
  [][/\ Is("merge") => Se!MergeCorrect(in[2], in[3], in[4])
     /\ Is("exec") => Se!ExecOrderless(in[2], in[3])]_in

\* A namespace that Verify accepts is one that NewNamespace can load, up to
\* the named gaps between the two.
VerifiedIsLoaded == [][Is("load") => VerifiedLoads(in[2])]_in

\* An INSERT that is accepted puts all its rows into one sub-table: one across
\* sub-tables is refused, and none of its rows is left out
\* (handleInsertValues; docs/compatibility.md:37).
InsertedInOne == [][Is("insert") => InOneTable(in[2], in[3])]_in

-----------------------------------------------------------------------------
Init == in = <<>>

Done == in # <<>> /\ in' = <<>>

Next == NewNode \/ SetField \/ String \/ Value \/ Name \/ CommentAmong \/ ExecutableComment \/ Statement \/ Execute \/ Part
        \/ Literal \/ Rounded \/ Sum \/ Frames \/ OkResult \/ ErrorResult \/ AField \/ RowsResult \/ Handshake \/ Row
        \/ Query \/ Insert \/ Find \/ Merge \/ MergeExec \/ Load \/ Done

Spec == Init /\ [][Next]_in

Inserting == Init /\ [][Insert \/ Done]_in
=============================================================================
