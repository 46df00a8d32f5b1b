----------------------------- MODULE SyntaxStatements -----------------------------
(****************************************************************************)
(* The expressions of the syntax tree (parser/ast/expressions.go and        *)
(* functions.go) and its data manipulation, statistics and administration   *)
(* statements (dml.go, stats.go and misc.go).                               *)
(*                                                                          *)
(* The proxy parses a statement, visits the tree (Accept) to find the       *)
(* sharded tables and to rewrite table and column names, and sends each     *)
(* backend the text that the tree's Restore prints.  A node type T is an    *)
(* operator T(n) of the node's fields that gives both:                      *)
(*   restore  the tokens that Restore writes, in order;                     *)
(*   accept   the fields Accept visits and whose visited node it stores in  *)
(*            the node it returns (where Visitor.Enter returns the node it  *)
(*            is given, as the proxy's visitors do for inner nodes).        *)
(* A child node, a list of them, a name or a number is the sequence of the  *)
(* tokens its own Restore prints: <<>> is nil, "" or the empty list.        *)
(* Flags are BOOLEAN and enumerations strings.  Spaces and quoting are left *)
(* out, and so is Format, which no code outside the package calls.          *)
(****************************************************************************)
EXTENDS Integers, Sequences, SequencesExt

Node(restore, accept) == [restore |-> restore, accept |-> accept]

When(flag, tokens) == IF flag THEN tokens ELSE <<>>

Either(flag, yes, no) == IF flag THEN <<yes>> ELSE <<no>>

\* A keyword written only before something that is there.
Clause(keyword, tokens) == When(tokens # <<>>, <<keyword>> \o tokens)

Parens(tokens) == <<"(">> \o tokens \o <<")">>

\* `for i, x := range list { if i != 0 { write(", ") }; x.Restore(ctx) }`
Commas(list) == [i \in 1..(2 * Len(list) - 1) |-> IF (i % 2) = 1 THEN list[(i + 1) \div 2] ELSE ","]

\* A name printed with the qualifiers it has.
Dotted(name) == When(name # <<>>, name \o <<".">>)

-----------------------------------------------------------------------------
(* expressions.go *)

BetweenExpr(n) ==
    Node(n.Expr \o Either(n.Not, "NOT BETWEEN", "BETWEEN") \o n.Left \o <<"AND">> \o n.Right,
         {"Expr", "Left", "Right"})

BinaryOperationExpr(n) == Node(n.L \o <<n.Op>> \o n.R, {"L", "R"})

WhenClause(n) == Node(<<"WHEN">> \o n.Expr \o <<"THEN">> \o n.Result, {"Expr", "Result"})

CaseExpr(n) ==
    Node(<<"CASE">> \o n.Value \o n.WhenClauses \o Clause("ELSE", n.ElseClause) \o <<"END">>,
         {"Value", "WhenClauses", "ElseClause"})

SubqueryExpr(n) == Node(Parens(n.Query), {"Query"})

CompareSubqueryExpr(n) == Node(n.L \o <<n.Op>> \o Either(n.All, "ALL", "ANY") \o n.R, {"L", "R"})

ColumnName(n) == Node(Dotted(n.Schema) \o Dotted(n.Table) \o n.Name, {})

ColumnNameExpr(n) == Node(n.Name, {"Name"})

DefaultExpr(n) == Node(<<"DEFAULT">> \o When(n.Name # <<>>, Parens(n.Name)), {"Name"})

ExistsSubqueryExpr(n) == Node(Either(n.Not, "NOT EXISTS", "EXISTS") \o n.Sel, {"Sel"})

PatternInExpr(n) ==
    Node(n.Expr \o Either(n.Not, "NOT IN", "IN")
           \o (IF n.Sel # <<>> THEN n.Sel ELSE Parens(Commas(n.List))),
         {"Expr", "List", "Sel"})

IsNullExpr(n) == Node(n.Expr \o Either(n.Not, "IS NOT NULL", "IS NULL"), {"Expr"})

IsTruthExpr(n) ==
    Node(n.Expr \o Either(n.Not, "IS NOT", "IS") \o Either(n.True > 0, "TRUE", "FALSE"), {"Expr"})

\* The default escape character is not printed.
PatternLikeExpr(n) ==
    Node(n.Expr \o Either(n.Not, "NOT LIKE", "LIKE") \o n.Pattern
           \o When(n.Escape # "\\", <<"ESCAPE", n.Escape>>),
         {"Expr", "Pattern"})

ParenthesesExpr(n) == Node(Parens(n.Expr), {"Expr"})

\* P, the expression of a position given as a parameter, is visited and never printed.
PositionExpr(n) == Node(n.N, {"P"})

PatternRegexpExpr(n) ==
    Node(n.Expr \o Either(n.Not, "NOT REGEXP", "REGEXP") \o n.Pattern, {"Expr", "Pattern"})

RowExpr(n) == Node(<<"ROW">> \o Parens(Commas(n.Values)), {"Values"})

UnaryOperationExpr(n) == Node(<<n.Op>> \o n.V, {"V"})

\* Accept stores the visited node only if it is a column again, and nil if a
\* visitor decorated it, so Column is not among the fields it keeps.
ValuesExpr(n) == Node(<<"VALUES">> \o Parens(n.Column), {})

VariableExpr(n) ==
    Node((IF n.IsSystem
          THEN <<"@@">> \o When(n.ExplicitScope, Either(n.IsGlobal, "GLOBAL", "SESSION") \o <<".">>)
          ELSE <<"@">>)
           \o n.Name \o Clause(":=", n.Value),
         {"Value"})

MaxValueExpr(n) == Node(<<"MAXVALUE">>, {})

WildCardExpr(n) == Node(<<"*">>, {})

-----------------------------------------------------------------------------
(* functions.go *)

\* The arguments of a function, in the syntax special to its name.  A unit, a
\* direction and a character set are values whose text is written as it is.
FuncCallArgs(FnName, Args) ==
    CASE FnName = "convert" -> <<Args[1], "USING", Args[2]>>
      [] FnName \in {"adddate", "subdate", "date_add", "date_sub"} ->
             <<Args[1], ",", "INTERVAL", Args[2], Args[3]>>
      [] FnName = "extract" -> <<Args[1], "FROM", Args[2]>>
      [] FnName = "get_format" -> <<Args[1], ",", Args[2]>>
      [] FnName = "position" -> <<Args[1], "IN", Args[2]>>
      [] FnName = "trim" ->
             (CASE Len(Args) = 1 -> Args
                [] Len(Args) = 2 -> <<Args[2], "FROM", Args[1]>>
                [] Len(Args) = 3 ->
                       Either(Args[3] = "0" \/ Args[3] = "1", "BOTH",
                              IF Args[3] = "2" THEN "LEADING" ELSE "TRAILING")
                         \o When(Args[2] # "nil", <<Args[2]>>) \o <<"FROM", Args[1]>>)
      [] OTHER -> Commas(Args)

FuncCallExpr(n) == Node(<<n.FnName>> \o Parens(FuncCallArgs(n.FnName, n.Args)), {"Args"})

FuncCastExpr(n) ==
    Node(CASE n.FunctionType = "CastFunction" -> <<"CAST">> \o Parens(n.Expr \o <<"AS">> \o n.Tp)
           [] n.FunctionType = "CastConvertFunction" ->
                  <<"CONVERT">> \o Parens(n.Expr \o <<",">> \o n.Tp)
           [] n.FunctionType = "CastBinaryOperator" -> <<"BINARY">> \o n.Expr,
         {"Expr"})

\* group_concat's last argument is its separator.
AggregateFuncExpr(n) ==
    Node(<<n.F>> \o Parens(When(n.Distinct, <<"DISTINCT">>)
                             \o (IF n.F = "group_concat"
                                 THEN Commas(Front(n.Args)) \o <<"SEPARATOR", Last(n.Args)>>
                                 ELSE Commas(n.Args))),
         {"Args"})

\* DISTINCT is written by the loop over the arguments, before the first.
WindowFuncExpr(n) ==
    Node(<<n.F>> \o Parens(When(n.Distinct /\ n.Args # <<>>, <<"DISTINCT">>) \o Commas(n.Args))
           \o When(n.FromLast, <<"FROM LAST">>)
           \o When(n.IgnoreNull, <<"IGNORE NULLS">>)
           \o <<"OVER">> \o n.Spec,
         {"Args", "Spec"})

-----------------------------------------------------------------------------
(* dml.go, stats.go and misc.go: helpers *)

\* Commas, for parts that print several tokens each.
EachCommas(Restore(_), list) ==
    FlattenSeq([i \in 1..Len(list) |-> When(i # 1, <<",">>) \o Restore(list[i])])

\* mysql.PriorityEnum.Restore
Priority(p) == When(p # "NoPriority", <<p>>)

\* TableHints, one after the other without a separator.
Hints(hints) == When(hints # <<>>, <<"/*+">> \o hints \o <<"*/">>)

-----------------------------------------------------------------------------
(* dml.go: the parts of a query *)

\* JoinLevel is the field of the context: an inner join is parenthesised.
Join(n) ==
    LET join == IF n.Right = <<>> THEN n.Left
                ELSE n.Left
                       \o When(n.NaturalJoin, <<"NATURAL">>)
                       \o When(n.Tp = "LeftJoin", <<"LEFT">>)
                       \o When(n.Tp = "RightJoin", <<"RIGHT">>)
                       \o Either(n.StraightJoin, "STRAIGHT_JOIN", "JOIN")
                       \o n.Right \o n.On
                       \o When(n.Using # <<>>, <<"USING">> \o Parens(Commas(n.Using)))
    IN  Node(IF n.JoinLevel # 0 THEN Parens(join) ELSE join, {"Left", "Right", "On"})

TableName(n) ==
    Node(Dotted(n.Schema) \o n.Name
           \o When(n.PartitionNames # <<>>, <<"PARTITION">> \o Parens(Commas(n.PartitionNames)))
           \o n.IndexHints,
         {})

\* Not a node: it has no Accept.
IndexHint(n) ==
    Node(<<CASE n.HintType = 1 -> "USE INDEX"
             [] n.HintType = 2 -> "IGNORE INDEX"
             [] n.HintType = 3 -> "FORCE INDEX">>
           \o (CASE n.HintScope = 1 -> <<>>
                 [] n.HintScope = 2 -> <<"FOR JOIN">>
                 [] n.HintScope = 3 -> <<"FOR ORDER BY">>
                 [] n.HintScope = 4 -> <<"FOR GROUP BY">>)
           \o Parens(Commas(n.IndexNames)),
         {})

DeleteTableList(n) == Node(Commas(n.Tables), {"Tables"})

OnCondition(n) == Node(<<"ON">> \o n.Expr, {"Expr"})

\* A query in the place of a table is parenthesised.
TableSource(n) ==
    Node((IF n.IsQuery THEN Parens(n.Source) ELSE n.Source) \o Clause("AS", n.AsName), {"Source"})

WildCardField(n) == Node(Dotted(n.Schema) \o Dotted(n.Table) \o <<"*">>, {})

SelectField(n) == Node(n.WildCard \o n.Expr \o Clause("AS", n.AsName), {"Expr"})

FieldList(n) == Node(Commas(n.Fields), {"Fields"})

TableRefsClause(n) == Node(n.TableRefs, {"TableRefs"})

ByItem(n) == Node(n.Expr \o When(n.Desc, <<"DESC">>), {"Expr"})

GroupByClause(n) == Node(<<"GROUP BY">> \o Commas(n.Items), {"Items"})

HavingClause(n) == Node(<<"HAVING">> \o n.Expr, {"Expr"})

OrderByClause(n) == Node(<<"ORDER BY">> \o Commas(n.Items), {"Items"})

\* Accept visits the children of the node it is called on and returns the node
\* that Enter returned; they are the same node for the proxy's visitors.
Limit(n) ==
    Node(<<"LIMIT">> \o When(n.Offset # <<>>, n.Offset \o <<",">>) \o n.Count, {"Count", "Offset"})

WindowSpec(n) ==
    Node(When(n.Name # <<>>, n.Name \o <<"AS">>)
           \o Parens(n.Ref \o n.PartitionBy \o n.OrderBy \o n.Frame),
         {"PartitionBy", "OrderBy", "Frame"})

PartitionByClause(n) == Node(<<"PARTITION BY">> \o Commas(n.Items), {"Items"})

FrameClause(n) ==
    Node(Either(n.Type = "Rows", "ROWS", "RANGE") \o <<"BETWEEN">> \o n.Start \o <<"AND">> \o n.End,
         {"Start", "End"})

FrameBound(n) ==
    Node(When(n.UnBounded, <<"UNBOUNDED">>)
           \o (IF n.Type = "CurrentRow" THEN <<"CURRENT ROW">>
               ELSE When(n.Unit # <<>>, <<"INTERVAL">>) \o n.Expr \o n.Unit
                      \o Either(n.Type = "Preceding", "PRECEDING", "FOLLOWING")),
         {"Expr", "Unit"})

-----------------------------------------------------------------------------
(* dml.go: the statements *)

\* CalcFoundRows, of the options embedded in the statement, is not printed.
SelectStmtRestore(n) ==
    <<"SELECT">> \o Priority(n.Priority)
      \o When(~n.SQLCache, <<"SQL_NO_CACHE">>)
      \o Hints(n.TableHints)
      \o When(n.Distinct, <<"DISTINCT">>)
      \o When(n.StraightJoin, <<"STRAIGHT_JOIN">>)
      \o Commas(n.Fields)
      \o Clause("FROM", n.From)
      \o When(n.From = <<>> /\ n.Where # <<>>, <<"FROM DUAL">>)
      \o Clause("WHERE", n.Where)
      \o n.GroupBy \o n.Having
      \o Clause("WINDOW", Commas(n.WindowSpecs))
      \o n.OrderBy \o n.Limit
      \o (CASE n.LockTp = "SelectLockNone" -> <<>>
            [] n.LockTp = "SelectLockForUpdate" -> <<"for update">>
            [] n.LockTp = "SelectLockInShareMode" -> <<"LOCK", "in share mode">>)

SelectStmtAccept ==
    {"TableHints", "From", "Where", "Fields", "GroupBy", "Having", "WindowSpecs", "OrderBy", "Limit"}

SelectStmt(n) == Node(SelectStmtRestore(n), SelectStmtAccept)

UnionSelectList(n) ==
    Node(FlattenSeq([i \in 1..Len(n.Selects) |->
             When(i # 1, <<"UNION">> \o When(~n.Selects[i].IsAfterUnionDistinct, <<"ALL">>))
               \o (IF n.Selects[i].IsInBraces THEN Parens(n.Selects[i].Select) ELSE n.Selects[i].Select)]),
         {"Selects"})

UnionStmt(n) == Node(n.SelectList \o n.OrderBy \o n.Limit, {"SelectList", "OrderBy", "Limit"})

Assignment(n) == Node(n.Column \o <<"=">> \o n.Expr, {"Column", "Expr"})

LoadDataStmt(n) ==
    Node(<<"LOAD DATA">> \o When(n.IsLocal, <<"LOCAL">>) \o <<"INFILE">> \o n.Path
           \o <<"INTO TABLE">> \o n.Table \o n.FieldsInfo \o n.LinesInfo
           \o When(n.IgnoreLines # <<>>, <<"IGNORE">> \o n.IgnoreLines \o <<"LINES">>)
           \o When(n.Columns # <<>>, Parens(Commas(n.Columns))),
         {"Table", "Columns"})

\* ENCLOSED BY is written inside the test of the other two options.
FieldsClause(n) ==
    Node(When(n.Terminated # "\t" \/ n.Escaped # "\\",
              <<"FIELDS">>
                \o When(n.Terminated # "\t", <<"TERMINATED BY", n.Terminated>>)
                \o Clause("ENCLOSED BY", n.Enclosed)
                \o When(n.Escaped # "\\", <<"ESCAPED BY", n.Escaped>>)),
         {})

LinesClause(n) ==
    Node(When(n.Starting # <<>> \/ n.Terminated # "\n",
              <<"LINES">>
                \o Clause("STARTING BY", n.Starting)
                \o When(n.Terminated # "\n", <<"TERMINATED BY", n.Terminated>>)),
         {})

\* ListsAssist, the rows of one slice, is set by the plan and printed instead of Lists.
InsertStmtRestore(n) ==
    Either(n.IsReplace, "REPLACE", "INSERT") \o Priority(n.Priority)
      \o When(n.IgnoreErr, <<"IGNORE">>)
      \o <<"INTO">> \o n.Table
      \o When(n.Columns # <<>>, Parens(Commas(n.Columns)))
      \o (IF n.ListsAssist # <<>> THEN n.ListsAssist
          ELSE Clause("VALUES", EachCommas(LAMBDA row : Parens(Commas(row)), n.Lists)))
      \o n.Select
      \o Clause("SET", Commas(n.Setlist))
      \o Clause("ON DUPLICATE KEY UPDATE", Commas(n.OnDuplicate))

InsertStmtAccept == {"Select", "Table", "Columns", "Lists", "Setlist", "OnDuplicate"}

InsertStmt(n) == Node(InsertStmtRestore(n), InsertStmtAccept)

(* Mutant: the multiple-table form forgets the LIMIT and ORDER BY of the other. *)
DeleteNoLimit(n) ==
    Node(<<"DELETE">> \o Hints(n.TableHints) \o Priority(n.Priority)
           \o When(n.Quick, <<"QUICK">>) \o When(n.IgnoreErr, <<"IGNORE">>)
           \o (IF n.IsMultiTable THEN n.Tables \o <<"FROM">> \o n.TableRefs
               ELSE <<"FROM">> \o n.TableRefs)
           \o Clause("WHERE", n.Where) \o n.Limit,
         {"TableRefs", "Tables", "Where", "Order", "Limit"})

DeleteStmt(n) ==
    Node(<<"DELETE">> \o Hints(n.TableHints) \o Priority(n.Priority)
           \o When(n.Quick, <<"QUICK">>) \o When(n.IgnoreErr, <<"IGNORE">>)
           \o (CASE n.IsMultiTable /\ n.BeforeFrom -> n.Tables \o <<"FROM">> \o n.TableRefs
                 [] n.IsMultiTable /\ ~n.BeforeFrom ->
                        <<"FROM">> \o n.Tables \o <<"USING">> \o n.TableRefs
                 [] ~n.IsMultiTable -> <<"FROM">> \o n.TableRefs)
           \o Clause("WHERE", n.Where) \o n.Order \o n.Limit,
         {"TableRefs", "Tables", "Where", "Order", "Limit"})

(* Mutant: Accept goes to the assignments and not to the condition. *)
UpdateWhereUnvisited(n) ==
    Node(<<"UPDATE">> \o Hints(n.TableHints) \o Priority(n.Priority)
           \o When(n.IgnoreErr, <<"IGNORE">>)
           \o n.TableRefs \o <<"SET">> \o Commas(n.List)
           \o Clause("WHERE", n.Where) \o n.Order \o n.Limit,
         {"TableRefs", "List", "Order", "Limit"})

UpdateStmt(n) ==
    Node(<<"UPDATE">> \o Hints(n.TableHints) \o Priority(n.Priority)
           \o When(n.IgnoreErr, <<"IGNORE">>)
           \o n.TableRefs \o <<"SET">> \o Commas(n.List)
           \o Clause("WHERE", n.Where) \o n.Order \o n.Limit,
         {"TableRefs", "List", "Where", "Order", "Limit"})

\* The kinds of SHOW that print `LIKE pattern` or `WHERE condition` at their end.
ShowFilterable ==
    {"ENGINES", "DATABASES", "CHARSET", "TABLES", "TABLE STATUS", "INDEX", "COLUMNS", "WARNINGS",
     "ERRORS", "VARIABLES", "STATUS", "COLLATION", "TRIGGERS", "PROCEDURE STATUS", "EVENTS",
     "PLUGINS", "BINDINGS", "PUMP STATUS", "DRAINER STATUS", "STATS_META", "STATS_HISTOGRAMS",
     "STATS_BUCKETS", "STATS_HEALTHY"}

\* Tp is named by its keywords.  Column is printed by ExplainStmt (DESC) only.
ShowStmtRestore(n) ==
    <<"SHOW">>
      \o When(n.Tp \in {"TABLES", "COLUMNS", "PROCESSLIST"} /\ n.Full, <<"FULL">>)
      \o When(n.Tp \in {"VARIABLES", "STATUS", "BINDINGS"}, Either(n.GlobalScope, "GLOBAL", "SESSION"))
      \o <<n.Tp>>
      \o (CASE n.Tp \in {"CREATE TABLE", "CREATE VIEW"} -> n.Table
            [] n.Tp = "CREATE DATABASE" -> When(n.IfNotExists, <<"IF NOT EXISTS">>) \o n.DBName
            [] n.Tp = "CREATE USER" -> n.User
            [] n.Tp = "GRANTS" -> Clause("FOR", n.User)
            [] n.Tp \in {"TABLES", "TABLE STATUS", "TRIGGERS", "EVENTS"} -> Clause("IN", n.DBName)
            [] n.Tp = "INDEX" -> <<"IN">> \o n.Table
            [] n.Tp = "COLUMNS" -> Clause("IN", n.Table) \o Clause("IN", n.DBName)
            [] OTHER -> <<>>)
      \o When(n.Tp \in ShowFilterable,
              IF n.Pattern # <<>> THEN <<"LIKE">> \o n.Pattern ELSE Clause("WHERE", n.Where))

\* The conditions of the kinds that TiDB answers itself are left unvisited.
ShowStmtAccept(n) ==
    {"Table", "Column", "Pattern"}
      \cup (IF n.Tp \in {"TRIGGERS", "PROCEDURE STATUS", "PROCESSLIST", "EVENTS"} THEN {} ELSE {"Where"})

ShowStmt(n) == Node(ShowStmtRestore(n), ShowStmtAccept(n))

-----------------------------------------------------------------------------
(* stats.go *)

AnalyzeTableStmt(n) ==
    Node(<<"ANALYZE TABLE">> \o Commas(n.TableNames)
           \o Clause("PARTITION", Commas(n.PartitionNames))
           \o When(n.IndexFlag, <<"INDEX">>) \o Commas(n.IndexNames)
           \o When(n.MaxNumBuckets # <<>>, <<"WITH">> \o n.MaxNumBuckets \o <<"BUCKETS">>),
         {"TableNames"})

DropStatsStmt(n) == Node(<<"DROP STATS">> \o n.Table, {"Table"})

LoadStatsStmt(n) == Node(<<"LOAD STATS">> \o n.Path, {})
-----------------------------------------------------------------------------
(* misc.go *)

\* Not a node, like UserSpec, ShowSlow, ObjectTypeType and GrantLevel below.
AuthOption(n) ==
    Node(<<"IDENTIFIED BY">>
           \o (IF n.ByAuthString THEN n.AuthString ELSE <<"PASSWORD">> \o n.HashString), {})

TraceStmt(n) ==
    Node(<<"TRACE">> \o When(n.Format # "json", <<"FORMAT", "=", n.Format>>) \o n.Stmt, {"Stmt"})

\* DESC t is EXPLAIN of a ShowStmt, of which the table and the column are printed.
ExplainStmt(n) ==
    Node(IF n.ShowTable # <<>> THEN <<"DESC">> \o n.ShowTable \o n.ShowColumn
         ELSE <<"EXPLAIN">> \o (IF n.Analyze THEN <<"ANALYZE">> ELSE <<"FORMAT", "=", n.Format>>)
                \o n.Stmt,
         {"Stmt", "ShowTable", "ShowColumn"})

PrepareStmt(n) ==
    Node(<<"PREPARE">> \o n.Name \o <<"FROM">>
           \o (IF n.SQLText # <<>> THEN n.SQLText ELSE n.SQLVar), {"SQLVar"})

DeallocateStmt(n) == Node(<<"DEALLOCATE PREPARE">> \o n.Name, {})

ExecuteStmt(n) == Node(<<"EXECUTE">> \o n.Name \o Clause("USING", Commas(n.UsingVars)), {"UsingVars"})

BeginStmt(n) == Node(<<"START TRANSACTION">>, {})

BinlogStmt(n) == Node(<<"BINLOG">> \o n.Str, {})

CommitStmt(n) == Node(<<"COMMIT">>, {})

RollbackStmt(n) == Node(<<"ROLLBACK">>, {})

RollbackToStmt(n) == Node(<<"ROLLBACK TO">> \o n.Savepoint, {})

ReleaseSavepointStmt(n) == Node(<<"RELEASE SAVEPOINT">> \o n.Savepoint, {})

SavepointStmt(n) == Node(<<"SAVEPOINT">> \o n.Savepoint, {})

UseStmt(n) == Node(<<"USE">> \o n.DBName, {})

VariableAssignment(n) ==
    Node((CASE n.IsSystem -> <<"@@">> \o Either(n.IsGlobal, "GLOBAL", "SESSION") \o <<".">>
            [] ~n.IsSystem -> When(n.Name # "SetNAMES", <<"@">>))
           \o (IF n.Name = "SetNAMES" THEN <<"NAMES">> ELSE <<n.Name, "=">>)
           \o n.Value \o Clause("COLLATE", n.ExtendValue),
         {"Value"})

FlushStmt(n) ==
    Node(<<"FLUSH">> \o When(n.NoWriteToBinLog, <<"NO_WRITE_TO_BINLOG">>)
           \o (CASE n.Tp = "FlushTables" ->
                       <<"TABLES">> \o Commas(n.Tables) \o When(n.ReadLock, <<"WITH READ LOCK">>)
                 [] n.Tp = "FlushPrivileges" -> <<"PRIVILEGES">>
                 [] n.Tp = "FlushStatus" -> <<"STATUS">>
                 [] n.Tp = "FlushTiDBPlugin" -> <<"TIDB PLUGINS">> \o Commas(n.Plugins)),
         {})

KillStmt(n) ==
    Node(<<"KILL">> \o When(n.TiDBExtension, <<"TIDB">>) \o When(n.Query, <<"QUERY">>)
           \o n.ConnectionID, {})

SetStmt(n) == Node(<<"SET">> \o Commas(n.Variables), {"Variables"})

SetPwdStmt(n) == Node(<<"SET PASSWORD">> \o Clause("FOR", n.User) \o <<"=">> \o n.Password, {})

\* IsRole is printed by the statement the user is part of.
UserSpec(n) == Node(n.User \o n.AuthOpt, {})

CreateUserStmt(n) ==
    Node(Either(n.IsCreateRole, "CREATE ROLE", "CREATE USER")
           \o When(n.IfNotExists, <<"IF NOT EXISTS">>) \o Commas(n.Specs), {})

AlterUserStmt(n) ==
    Node(<<"ALTER USER">> \o When(n.IfExists, <<"IF EXISTS">>)
           \o When(n.CurrentAuth # <<>>, <<"USER", "(", ")">> \o n.CurrentAuth)
           \o Commas(n.Specs), {})

DropUserStmt(n) ==
    Node(<<"DROP USER">> \o When(n.IfExists, <<"IF EXISTS">>) \o Commas(n.UserList), {})

CreateBindingStmt(n) ==
    Node(<<"CREATE">> \o Either(n.GlobalScope, "GLOBAL", "SESSION")
           \o <<"BINDING FOR">> \o n.OriginSel \o <<"USING">> \o n.HintedSel,
         {"OriginSel", "HintedSel"})

\* Restore answers "Not implemented".
DropBindingStmt(n) == Node(<<>>, {"OriginSel"})

DoStmt(n) == Node(<<"DO">> \o Commas(n.Exprs), {"Exprs"})

\* The kind matters for TOP only.
ShowSlow(n) ==
    Node((IF n.Tp = "ShowSlowRecent" THEN <<"RECENT">>
          ELSE <<"TOP">> \o (CASE n.Kind = "ShowSlowKindDefault" -> <<>>
                               [] n.Kind = "ShowSlowKindInternal" -> <<"INTERNAL">>
                               [] n.Kind = "ShowSlowKindAll" -> <<"ALL">>))
           \o n.Count, {})

AdminStmtRestore(n) ==
    <<"ADMIN">>
      \o (CASE n.Tp = "AdminShowDDL" -> <<"SHOW DDL">>
            [] n.Tp = "AdminShowDDLJobs" -> <<"SHOW DDL JOBS">> \o n.JobNumber
            [] n.Tp = "AdminShowNextRowID" -> <<"SHOW">> \o Commas(n.Tables) \o <<"NEXT_ROW_ID">>
            [] n.Tp = "AdminCheckTable" -> <<"CHECK TABLE">> \o Commas(n.Tables)
            [] n.Tp = "AdminCheckIndex" -> <<"CHECK INDEX">> \o Commas(n.Tables) \o n.Index
            [] n.Tp = "AdminRecoverIndex" -> <<"RECOVER INDEX">> \o Commas(n.Tables) \o n.Index
            [] n.Tp = "AdminRestoreTable" ->
                   <<"RESTORE TABLE">>
                     \o (IF n.JobIDs # <<>> THEN <<"BY JOB">> \o Commas(n.JobIDs)
                         ELSE Commas(n.Tables) \o n.JobNumber)
            [] n.Tp = "AdminCleanupIndex" -> <<"CLEANUP INDEX">> \o Commas(n.Tables) \o n.Index
            [] n.Tp = "AdminCheckIndexRange" ->
                   <<"CHECK INDEX">> \o Commas(n.Tables) \o n.Index \o Commas(n.HandleRanges)
            [] n.Tp = "AdminChecksumTable" -> <<"CHECKSUM TABLE">> \o Commas(n.Tables)
            [] n.Tp = "AdminCancelDDLJobs" -> <<"CANCEL DDL JOBS">> \o Commas(n.JobIDs)
            [] n.Tp = "AdminShowDDLJobQueries" -> <<"SHOW DDL JOB QUERIES">> \o Commas(n.JobIDs)
            [] n.Tp = "AdminShowSlow" -> <<"SHOW SLOW">> \o n.ShowSlow)

AdminStmtAccept == {"Tables"}

AdminStmt(n) == Node(AdminStmtRestore(n), AdminStmtAccept)

\* Priv is the privilege named by its keywords; 0 is one the parser does not know.
PrivElem(n) ==
    Node((IF n.Priv = "0" THEN <<"/* UNSUPPORTED TYPE */">> ELSE <<n.Priv>>)
           \o When(n.Cols # <<>>, Parens(Commas(n.Cols))),
         {"Cols"})

ObjectTypeType(t) == When(t = "ObjectTypeTable", <<"TABLE">>)

GrantLevel(n) ==
    Node(CASE n.Level = "GrantLevelDB" -> IF n.DBName = <<>> THEN <<"*">> ELSE n.DBName \o <<".*">>
           [] n.Level = "GrantLevelGlobal" -> <<"*.*">>
           [] n.Level = "GrantLevelTable" -> Dotted(n.DBName) \o n.TableName, {})

RevokeStmt(n) ==
    Node(<<"REVOKE">> \o Commas(n.Privs) \o <<"ON">> \o ObjectTypeType(n.ObjectType) \o n.Level
           \o <<"FROM">> \o Commas(n.Users),
         {"Privs"})

GrantStmt(n) ==
    Node(<<"GRANT">> \o Commas(n.Privs) \o <<"ON">> \o ObjectTypeType(n.ObjectType) \o n.Level
           \o <<"TO">> \o Commas(n.Users) \o When(n.WithGrant, <<"WITH GRANT OPTION">>),
         {"Privs"})

TableOptimizerHint(n) ==
    Node(<<n.HintName>>
           \o Parens(IF n.HintName = "max_execution_time" THEN n.MaxExecutionTime ELSE Commas(n.Tables)),
         {})
=============================================================================
