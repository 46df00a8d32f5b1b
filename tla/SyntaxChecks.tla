------------------------------- MODULE SyntaxChecks -------------------------------
(****************************************************************************)
(* What the proxy needs of the syntax tree, over nodes of every type.       *)
(*                                                                          *)
(* The fields of each node type are listed with small sets of values, first *)
(* the fields that hold nodes, then the others; the first value is the one  *)
(* a node has when nothing is said.  A field the parser derives from others *)
(* (UpdateStmt.MultipleTable, RenameTableStmt.OldTable, ...) is not listed. *)
(* Parsed tells which combinations the grammar produces (parser.y).         *)
(****************************************************************************)
EXTENDS SyntaxDefinitions

One   == <<<<"x">>, <<"y">>>>
Maybe == <<<<>>, <<"x">>, <<"y">>>>
Some  == <<<<"x">>, <<"y">>, <<"x", "y">>>>
Many  == <<<<>>, <<"x">>, <<"y">>, <<"x", "y">>>>
Flag  == <<FALSE, TRUE>>
Sizes == <<<<>>, <<0>>, <<4>>, <<30>>, <<4, 0>>, <<4, 2>>, <<30, 2>>>>
TypeCharsets == <<"", "utf8", "utf8mb4">>

ShowKinds ==
    <<"ENGINES", "DATABASES", "CHARSET", "TABLES", "TABLE STATUS", "INDEX", "COLUMNS", "WARNINGS",
      "ERRORS", "VARIABLES", "STATUS", "COLLATION", "TRIGGERS", "PROCEDURE STATUS", "EVENTS",
      "PLUGINS", "BINDINGS", "PUMP STATUS", "DRAINER STATUS", "STATS_META", "STATS_HISTOGRAMS",
      "STATS_BUCKETS", "STATS_HEALTHY", "CREATE TABLE", "CREATE VIEW", "CREATE DATABASE",
      "CREATE USER", "GRANTS", "MASTER STATUS", "PROCESSLIST", "PROFILES", "PRIVILEGES">>

TableOptions ==
    <<"ENGINE", "DEFAULT CHARACTER SET", "DEFAULT COLLATE", "COMMENT", "COMPRESSION", "CONNECTION",
      "PASSWORD", "AUTO_INCREMENT", "AVG_ROW_LENGTH", "CHECKSUM", "KEY_BLOCK_SIZE", "MAX_ROWS",
      "MIN_ROWS", "DELAY_KEY_WRITE", "SHARD_ROW_ID_BITS", "ROW_FORMAT", "STATS_PERSISTENT", "PACK_KEYS">>

\* The values of the fields that hold nodes, and of the others.
Of(nodes, others) == [nodes |-> nodes, all |-> nodes @@ others]

ExpressionFields ==
    [BetweenExpr |-> Of([Expr |-> One, Left |-> One, Right |-> One], [Not |-> Flag]),
     BinaryOperationExpr |-> Of([L |-> One, R |-> One], [Op |-> <<"+", "-">>]),
     WhenClause |-> Of([Expr |-> One, Result |-> One], <<>>),
     CaseExpr |-> Of([Value |-> Maybe, WhenClauses |-> Some, ElseClause |-> Maybe], <<>>),
     SubqueryExpr |-> Of([Query |-> One], <<>>),
     CompareSubqueryExpr |-> Of([L |-> One, R |-> One], [Op |-> <<"<", ">">>, All |-> Flag]),
     ColumnName |-> Of(<<>>, [Schema |-> Maybe, Table |-> Maybe, Name |-> One]),
     ColumnNameExpr |-> Of([Name |-> One], <<>>),
     DefaultExpr |-> Of([Name |-> Maybe], <<>>),
     ExistsSubqueryExpr |-> Of([Sel |-> One], [Not |-> Flag]),
     PatternInExpr |-> Of([Expr |-> One, List |-> Many, Sel |-> Maybe], [Not |-> Flag]),
     IsNullExpr |-> Of([Expr |-> One], [Not |-> Flag]),
     IsTruthExpr |-> Of([Expr |-> One], [Not |-> Flag, True |-> <<0, 1>>]),
     PatternLikeExpr |-> Of([Expr |-> One, Pattern |-> One],
                            [Not |-> Flag, Escape |-> <<"\\", "e", "f">>]),
     ParenthesesExpr |-> Of([Expr |-> One], <<>>),
     PositionExpr |-> Of([P |-> Maybe], [N |-> One]),
     PatternRegexpExpr |-> Of([Expr |-> One, Pattern |-> One], [Not |-> Flag]),
     RowExpr |-> Of([Values |-> Some], <<>>),
     UnaryOperationExpr |-> Of([V |-> One], [Op |-> <<"-", "~">>]),
     ValuesExpr |-> Of([Column |-> One], <<>>),
     VariableExpr |-> Of([Value |-> Maybe],
                         [Name |-> One, IsGlobal |-> Flag, IsSystem |-> Flag, ExplicitScope |-> Flag]),
     MaxValueExpr |-> Of(<<>>, <<>>),
     WildCardExpr |-> Of(<<>>, <<>>),
     FuncCallExpr |->
         Of([Args |-> <<<<"x">>, <<"y">>, <<"x", "y">>, <<"y", "x">>, <<"x", "y", "1">>,
                        <<"x", "y", "2">>, <<"x", "y", "3">>, <<"x", "nil", "1">>, <<"x", "nil", "3">>>>],
            [FnName |-> <<"abs", "convert", "date_add", "extract", "get_format", "position", "trim">>]),
     FuncCastExpr |-> Of([Expr |-> One],
                         [Tp |-> Maybe,
                          FunctionType |-> <<"CastBinaryOperator", "CastFunction", "CastConvertFunction">>]),
     AggregateFuncExpr |-> Of([Args |-> Some], [F |-> <<"sum", "count", "group_concat">>, Distinct |-> Flag]),
     WindowFuncExpr |-> Of([Args |-> Many, Spec |-> One],
                           [F |-> <<"rank", "lead">>, Distinct |-> Flag, IgnoreNull |-> Flag,
                            FromLast |-> Flag])]

QueryFields ==
    [Join |-> Of([Left |-> One, Right |-> Maybe, On |-> Maybe, Using |-> Many],
                 [Tp |-> <<"CrossJoin", "LeftJoin", "RightJoin">>, NaturalJoin |-> Flag,
                  StraightJoin |-> Flag, JoinLevel |-> <<0, 1>>]),
     TableName |-> Of(<<>>, [Schema |-> Maybe, Name |-> One, PartitionNames |-> Many, IndexHints |-> Many]),
     IndexHint |-> Of(<<>>, [HintType |-> <<1, 2, 3>>, HintScope |-> <<1, 2, 3, 4>>, IndexNames |-> Many]),
     DeleteTableList |-> Of([Tables |-> Some], <<>>),
     OnCondition |-> Of([Expr |-> One], <<>>),
     TableSource |-> Of([Source |-> One], [AsName |-> Maybe, IsQuery |-> Flag]),
     WildCardField |-> Of(<<>>, [Schema |-> Maybe, Table |-> Maybe]),
     SelectField |-> Of([WildCard |-> Maybe, Expr |-> Maybe], [AsName |-> Maybe]),
     FieldList |-> Of([Fields |-> Some], <<>>),
     TableRefsClause |-> Of([TableRefs |-> One], <<>>),
     ByItem |-> Of([Expr |-> One], [Desc |-> Flag]),
     GroupByClause |-> Of([Items |-> Some], <<>>),
     HavingClause |-> Of([Expr |-> One], <<>>),
     OrderByClause |-> Of([Items |-> Some], <<>>),
     Limit |-> Of([Count |-> One, Offset |-> Maybe], <<>>),
     WindowSpec |-> Of([PartitionBy |-> Maybe, OrderBy |-> Maybe, Frame |-> Maybe],
                       [Name |-> Maybe, Ref |-> Maybe]),
     PartitionByClause |-> Of([Items |-> Some], <<>>),
     FrameClause |-> Of([Start |-> One, End |-> One], [Type |-> <<"Rows", "Ranges">>]),
     FrameBound |-> Of([Expr |-> Maybe, Unit |-> Maybe],
                       [Type |-> <<"Following", "Preceding", "CurrentRow">>, UnBounded |-> Flag]),
     SelectStmt |-> Of([TableHints |-> Many, Fields |-> Some, From |-> Maybe, Where |-> Maybe,
                        GroupBy |-> Maybe, Having |-> Maybe, WindowSpecs |-> Many, OrderBy |-> Maybe,
                        Limit |-> Maybe],
                       [Priority |-> <<"NoPriority", "HIGH_PRIORITY">>, SQLCache |-> <<TRUE, FALSE>>,
                        CalcFoundRows |-> Flag, Distinct |-> Flag, StraightJoin |-> Flag,
                        LockTp |-> <<"SelectLockNone", "SelectLockForUpdate", "SelectLockInShareMode">>]),
     UnionSelectList |->
         Of([Selects |-> LET S(text, distinct, braces) == [Select |-> <<text>>,
                                                           IsAfterUnionDistinct |-> distinct,
                                                           IsInBraces |-> braces]
                         IN  <<<<S("x", FALSE, FALSE)>>, <<S("x", FALSE, TRUE)>>,
                               <<S("x", FALSE, FALSE), S("y", FALSE, FALSE)>>,
                               <<S("x", FALSE, FALSE), S("y", TRUE, FALSE)>>,
                               <<S("x", FALSE, FALSE), S("y", FALSE, TRUE)>>,
                               <<S("x", FALSE, TRUE), S("y", TRUE, TRUE), S("x", FALSE, FALSE)>>>>], <<>>),
     UnionStmt |-> Of([SelectList |-> One, OrderBy |-> Maybe, Limit |-> Maybe], <<>>),
     Assignment |-> Of([Column |-> One, Expr |-> One], <<>>),
     LoadDataStmt |-> Of([Table |-> One, Columns |-> Many],
                         [IsLocal |-> Flag, Path |-> One, FieldsInfo |-> Maybe, LinesInfo |-> Maybe,
                          IgnoreLines |-> Maybe]),
     FieldsClause |-> Of(<<>>, [Terminated |-> <<"\t", ",">>, Escaped |-> <<"\\", "e">>, Enclosed |-> Maybe]),
     LinesClause |-> Of(<<>>, [Starting |-> Maybe, Terminated |-> <<"\n", ";">>]),
     InsertStmt |-> Of([Table |-> One, Columns |-> Many, Setlist |-> Many, OnDuplicate |-> Many,
                        Lists |-> <<<<>>, <<<<>>>>, <<<<"x">>>>, <<<<"x", "y">>>>, <<<<"x">>, <<"y">>>>>>,
                        Select |-> Maybe, ListsAssist |-> Maybe],
                       [IsReplace |-> Flag, IgnoreErr |-> Flag,
                        Priority |-> <<"NoPriority", "LOW_PRIORITY">>]),
     DeleteStmt |-> Of([TableRefs |-> One, Tables |-> Maybe, Where |-> Maybe, Order |-> Maybe,
                        Limit |-> Maybe, TableHints |-> Many],
                       [Priority |-> <<"NoPriority", "LOW_PRIORITY">>, IgnoreErr |-> Flag,
                        Quick |-> Flag, IsMultiTable |-> Flag, BeforeFrom |-> Flag]),
     UpdateStmt |-> Of([TableRefs |-> One, List |-> Some, Where |-> Maybe, Order |-> Maybe,
                        Limit |-> Maybe, TableHints |-> Many],
                       [Priority |-> <<"NoPriority", "LOW_PRIORITY">>, IgnoreErr |-> Flag]),
     ShowStmt |-> Of([Table |-> Maybe, Pattern |-> Maybe, Where |-> Maybe],
                     [Tp |-> ShowKinds,
                      DBName |-> Maybe, User |-> Maybe, Full |-> Flag, IfNotExists |-> Flag,
                      GlobalScope |-> Flag]),
     AnalyzeTableStmt |-> Of([TableNames |-> Some],
                             [PartitionNames |-> Many, IndexNames |-> Many, IndexFlag |-> Flag,
                              MaxNumBuckets |-> Maybe]),
     DropStatsStmt |-> Of([Table |-> One], <<>>),
     LoadStatsStmt |-> Of(<<>>, [Path |-> One])]
StatementFields ==
    [AuthOption |-> Of(<<>>, [ByAuthString |-> Flag, AuthString |-> Maybe, HashString |-> Maybe]),
     TraceStmt |-> Of([Stmt |-> One], [Format |-> <<"json", "row">>]),
     ExplainStmt |-> Of([Stmt |-> Maybe, ShowTable |-> Maybe, ShowColumn |-> Maybe],
                        [Format |-> <<"row", "dot">>, Analyze |-> Flag]),
     PrepareStmt |-> Of([SQLVar |-> Maybe], [Name |-> One, SQLText |-> <<<<>>, <<"'x'">>, <<"'y'">>>>]),
     DeallocateStmt |-> Of(<<>>, [Name |-> One]),
     ExecuteStmt |-> Of([UsingVars |-> Many], [Name |-> One]),
     BeginStmt |-> Of(<<>>, <<>>),
     BinlogStmt |-> Of(<<>>, [Str |-> One]),
     CommitStmt |-> Of(<<>>, <<>>),
     RollbackStmt |-> Of(<<>>, <<>>),
     RollbackToStmt |-> Of(<<>>, [Savepoint |-> One]),
     ReleaseSavepointStmt |-> Of(<<>>, [Savepoint |-> One]),
     SavepointStmt |-> Of(<<>>, [Savepoint |-> One]),
     UseStmt |-> Of(<<>>, [DBName |-> One]),
     VariableAssignment |-> Of([Value |-> One, ExtendValue |-> Maybe],
                               [Name |-> <<"x", "y", "SetNAMES">>, IsGlobal |-> Flag, IsSystem |-> Flag]),
     FlushStmt |-> Of([Tables |-> Many],
                      [Tp |-> <<"FlushTables", "FlushPrivileges", "FlushStatus", "FlushTiDBPlugin">>,
                       NoWriteToBinLog |-> Flag, ReadLock |-> Flag, Plugins |-> Many]),
     KillStmt |-> Of(<<>>, [Query |-> Flag, ConnectionID |-> One, TiDBExtension |-> Flag]),
     SetStmt |-> Of([Variables |-> Some], <<>>),
     SetPwdStmt |-> Of(<<>>, [User |-> Maybe, Password |-> One]),
     UserSpec |-> Of(<<>>, [User |-> One, AuthOpt |-> Maybe]),
     CreateUserStmt |-> Of(<<>>, [IsCreateRole |-> Flag, IfNotExists |-> Flag, Specs |-> Some]),
     AlterUserStmt |-> Of(<<>>, [IfExists |-> Flag, CurrentAuth |-> Maybe, Specs |-> Many]),
     DropUserStmt |-> Of(<<>>, [IfExists |-> Flag, UserList |-> Some]),
     CreateBindingStmt |-> Of([OriginSel |-> One, HintedSel |-> One], [GlobalScope |-> Flag]),
     DropBindingStmt |-> Of([OriginSel |-> One], [GlobalScope |-> Flag]),
     DoStmt |-> Of([Exprs |-> Some], <<>>),
     ShowSlow |-> Of(<<>>, [Tp |-> <<"ShowSlowTop", "ShowSlowRecent">>, Count |-> One,
                            Kind |-> <<"ShowSlowKindDefault", "ShowSlowKindInternal", "ShowSlowKindAll">>]),
     AdminStmt |-> Of([Tables |-> Many],
                      [Tp |-> <<"AdminShowDDL", "AdminShowDDLJobs", "AdminShowNextRowID", "AdminCheckTable",
                                "AdminCheckIndex", "AdminRecoverIndex", "AdminRestoreTable",
                                "AdminCleanupIndex", "AdminCheckIndexRange", "AdminChecksumTable",
                                "AdminCancelDDLJobs", "AdminShowDDLJobQueries", "AdminShowSlow">>,
                       Index |-> Maybe, JobIDs |-> Many, JobNumber |-> Maybe, HandleRanges |-> Many,
                       ShowSlow |-> Maybe]),
     PrivElem |-> Of([Cols |-> Many], [Priv |-> <<"ALL", "SELECT", "0">>]),
     GrantLevel |-> Of(<<>>, [Level |-> <<"GrantLevelGlobal", "GrantLevelDB", "GrantLevelTable">>,
                              DBName |-> Maybe, TableName |-> Maybe]),
     RevokeStmt |-> Of([Privs |-> Some], [ObjectType |-> <<"ObjectTypeNone", "ObjectTypeTable">>,
                                          Level |-> One, Users |-> Some]),
     GrantStmt |-> Of([Privs |-> Some], [ObjectType |-> <<"ObjectTypeNone", "ObjectTypeTable">>,
                                         Level |-> One, Users |-> Some, WithGrant |-> Flag]),
     TableOptimizerHint |-> Of(<<>>, [HintName |-> <<"tidb_smj", "max_execution_time">>,
                                      Tables |-> Many, MaxExecutionTime |-> Maybe])]

DefinitionFields ==
    [DatabaseOption |-> Of(<<>>, [Tp |-> <<"CHARACTER SET", "COLLATE">>, Value |-> One]),
     CreateDatabaseStmt |-> Of(<<>>, [IfNotExists |-> Flag, Name |-> One, Options |-> Many]),
     DropDatabaseStmt |-> Of(<<>>, [IfExists |-> Flag, Name |-> One]),
     IndexColName |-> Of([Column |-> One], [Length |-> Maybe]),
     ReferenceDef |-> Of([Table |-> One, IndexColNames |-> Some,
                          OnDelete |-> <<<<>>, <<"ON DELETE x">>>>, OnUpdate |-> <<<<>>, <<"ON UPDATE x">>>>],
                         <<>>),
     OnDeleteOpt |-> Of(<<>>, [ReferOpt |-> <<"ReferOptionNoOption", "ReferOptionRestrict",
                                  "ReferOptionCascade", "ReferOptionSetNull", "ReferOptionNoAction">>]),
     OnUpdateOpt |-> Of(<<>>, [ReferOpt |-> <<"ReferOptionNoOption", "ReferOptionRestrict",
                                  "ReferOptionCascade", "ReferOptionSetNull", "ReferOptionNoAction">>]),
     ColumnOption |->
         Of([Expr |-> Maybe, Refer |-> Maybe],
            [Tp |-> <<"ColumnOptionPrimaryKey", "ColumnOptionNotNull", "ColumnOptionAutoIncrement",
                      "ColumnOptionDefaultValue", "ColumnOptionUniqKey", "ColumnOptionNull",
                      "ColumnOptionOnUpdate", "ColumnOptionComment", "ColumnOptionGenerated",
                      "ColumnOptionReference">>, Stored |-> Flag]),
     IndexOption |-> Of(<<>>, [KeyBlockSize |-> Maybe, Tp |-> <<"IndexTypeInvalid", "BTREE", "HASH">>,
                               Comment |-> Maybe]),
     Constraint |->
         Of([Keys |-> Some, Refer |-> Maybe, Option |-> <<<<>>, <<"USING x">>>>],
            [Tp |-> <<"ConstraintPrimaryKey", "ConstraintKey", "ConstraintIndex", "ConstraintUniq",
                      "ConstraintUniqKey", "ConstraintUniqIndex", "ConstraintForeignKey",
                      "ConstraintFulltext">>, Name |-> Maybe]),
     ColumnDef |-> Of([Name |-> One, Options |-> <<<<>>, <<"NOT NULL">>, <<"NULL", "UNIQUE KEY">>>>],
                      [Tp |-> Maybe]),
     CreateTableStmt |->
         Of([Table |-> One, ReferTable |-> Maybe, Cols |-> Many, Select |-> Maybe,
             Constraints |-> <<<<>>, <<"KEY (x)">>>>, Partition |-> <<<<>>, <<"PARTITION BY x">>>>],
            [IfNotExists |-> Flag, Options |-> <<<<>>, <<"ENGINE = x">>>>,
             OnDuplicate |-> <<"Error", "Ignore", "Replace">>]),
     DropTableStmt |-> Of([Tables |-> Some], [IfExists |-> Flag, IsView |-> Flag]),
     RenameTableStmt |-> Of([TableToTables |-> Some], <<>>),
     TableToTable |-> Of([OldTable |-> One, NewTable |-> One], <<>>),
     CreateViewStmt |->
         Of([ViewName |-> One, Select |-> One],
            [OrReplace |-> Flag, Cols |-> Many, Algorithm |-> <<"UNDEFINED", "MERGE">>,
             CurrentUser |-> <<TRUE, FALSE>>, Username |-> Maybe, Hostname |-> Maybe,
             Security |-> <<"DEFINER", "INVOKER">>, CheckOption |-> <<"CASCADED", "LOCAL">>]),
     CreateIndexStmt |-> Of([Table |-> One, IndexColNames |-> Some, IndexOption |-> Maybe],
                            [IndexName |-> One, Unique |-> Flag]),
     DropIndexStmt |-> Of([Table |-> One], [IfExists |-> Flag, IndexName |-> One]),
     TableOption |->
         Of(<<>>, [Tp |-> TableOptions, StrValue |-> Maybe, UintValue |-> Maybe]),
     ColumnPosition |->
         Of([RelativeColumn |-> Maybe],
            [Tp |-> <<"ColumnPositionNone", "ColumnPositionFirst", "ColumnPositionAfter">>]),
     AlterTableSpec |->
         Of([Constraint |-> Maybe, NewTable |-> Maybe, NewColumns |-> Many, OldColumnName |-> Maybe,
             Position |-> <<<<>>, <<"FIRST">>>>, PartDefinitions |-> Many],
            [Tp |-> <<"AlterTableOption", "AlterTableAddColumns", "AlterTableAddConstraint",
                      "AlterTableDropColumn", "AlterTableDropPrimaryKey", "AlterTableDropIndex",
                      "AlterTableDropForeignKey", "AlterTableModifyColumn", "AlterTableChangeColumn",
                      "AlterTableRenameTable", "AlterTableAlterColumn", "AlterTableLock",
                      "AlterTableAlgorithm", "AlterTableRenameIndex", "AlterTableForce",
                      "AlterTableAddPartitions", "AlterTableCoalescePartitions",
                      "AlterTableDropPartition", "AlterTableTruncatePartition">>,
             Options |-> LET O(tp, v) == [Tp |-> tp, StrValue |-> v]
                         IN  <<<<>>, <<O("ENGINE", "x")>>, <<O("DEFAULT CHARACTER SET", "x")>>,
                               <<O("DEFAULT CHARACTER SET", "x"), O("DEFAULT COLLATE", "y")>>,
                               <<O("ENGINE", "y"), O("DEFAULT COLLATE", "x")>>>>,
             SetDefault |-> Maybe, Name |-> Maybe, LockType |-> <<"NONE", "SHARED">>,
             Algorithm |-> <<"DEFAULT", "COPY">>, FromKey |-> Maybe, ToKey |-> Maybe, Num |-> Maybe]),
     AlterTableStmt |-> Of([Table |-> One, Specs |-> Some], <<>>),
     TruncateTableStmt |-> Of([Table |-> One], <<>>),
     PartitionDefinition |-> Of([LessThan |-> <<<<>>, <<"1">>, <<"11">>, <<"1", "1">>>>],
                                [Name |-> One, Comment |-> Maybe]),
     PartitionOptions |-> Of([Expr |-> Maybe, ColumnNames |-> Many],
                             [Tp |-> <<"PartitionTypeHash", "PartitionTypeRange">>, Num |-> Maybe,
                              Definitions |-> Many]),
     ColumnType |->
         Of(<<>>, [Tp |-> <<"INT", "TINYINT", "SMALLINT", "MEDIUMINT", "BIGINT", "BOOL", "DECIMAL", "FLOAT",
                            "DOUBLE", "BIT", "CHAR", "VARCHAR", "BINARY", "VARBINARY", "TINYBLOB", "BLOB",
                            "MEDIUMBLOB", "LONGBLOB", "TINYTEXT", "TEXT", "MEDIUMTEXT", "LONGTEXT", "ENUM",
                            "SET", "JSON", "DATE", "DATETIME", "TIMESTAMP", "TIME", "YEAR">>,
                   Size |-> Sizes, Sign |-> <<"", "UNSIGNED", "ZEROFILL">>, Binary |-> Flag,
                   Charset |-> TypeCharsets, Collate |-> <<"", "x", "y">>, Elems |-> Some]),
     CastType |->
         Of(<<>>, [Tp |-> <<"CHAR", "BINARY", "DATE", "DATETIME", "DECIMAL", "TIME", "SIGNED", "UNSIGNED", "JSON">>,
                   Size |-> Sizes, Binary |-> Flag, Charset |-> TypeCharsets])]

Fields == ExpressionFields @@ QueryFields @@ StatementFields @@ DefinitionFields

Kinds == DOMAIN Fields

\* A node about which nothing is said.
Default(kind) == [f \in DOMAIN Fields[kind].all |-> Fields[kind].all[f][1]]

\* The values other than v that field f of a node can have.
Changes(kind, n, f) == {m \in {[n EXCEPT ![f] = v] : v \in ToSet(Fields[kind].all[f])} : m # n}
\* The node type of each kind.
NodeOf(kind, n) ==
    CASE kind = "BetweenExpr" -> BetweenExpr(n)
      [] kind = "BinaryOperationExpr" -> BinaryOperationExpr(n)
      [] kind = "WhenClause" -> WhenClause(n)
      [] kind = "CaseExpr" -> CaseExpr(n)
      [] kind = "SubqueryExpr" -> SubqueryExpr(n)
      [] kind = "CompareSubqueryExpr" -> CompareSubqueryExpr(n)
      [] kind = "ColumnName" -> ColumnName(n)
      [] kind = "ColumnNameExpr" -> ColumnNameExpr(n)
      [] kind = "DefaultExpr" -> DefaultExpr(n)
      [] kind = "ExistsSubqueryExpr" -> ExistsSubqueryExpr(n)
      [] kind = "PatternInExpr" -> PatternInExpr(n)
      [] kind = "IsNullExpr" -> IsNullExpr(n)
      [] kind = "IsTruthExpr" -> IsTruthExpr(n)
      [] kind = "PatternLikeExpr" -> PatternLikeExpr(n)
      [] kind = "ParenthesesExpr" -> ParenthesesExpr(n)
      [] kind = "PositionExpr" -> PositionExpr(n)
      [] kind = "PatternRegexpExpr" -> PatternRegexpExpr(n)
      [] kind = "RowExpr" -> RowExpr(n)
      [] kind = "UnaryOperationExpr" -> UnaryOperationExpr(n)
      [] kind = "ValuesExpr" -> ValuesExpr(n)
      [] kind = "VariableExpr" -> VariableExpr(n)
      [] kind = "MaxValueExpr" -> MaxValueExpr(n)
      [] kind = "WildCardExpr" -> WildCardExpr(n)
      [] kind = "FuncCallExpr" -> FuncCallExpr(n)
      [] kind = "FuncCastExpr" -> FuncCastExpr(n)
      [] kind = "AggregateFuncExpr" -> AggregateFuncExpr(n)
      [] kind = "WindowFuncExpr" -> WindowFuncExpr(n)
      [] kind = "Join" -> Join(n)
      [] kind = "TableName" -> TableName(n)
      [] kind = "IndexHint" -> IndexHint(n)
      [] kind = "DeleteTableList" -> DeleteTableList(n)
      [] kind = "OnCondition" -> OnCondition(n)
      [] kind = "TableSource" -> TableSource(n)
      [] kind = "WildCardField" -> WildCardField(n)
      [] kind = "SelectField" -> SelectField(n)
      [] kind = "FieldList" -> FieldList(n)
      [] kind = "TableRefsClause" -> TableRefsClause(n)
      [] kind = "ByItem" -> ByItem(n)
      [] kind = "GroupByClause" -> GroupByClause(n)
      [] kind = "HavingClause" -> HavingClause(n)
      [] kind = "OrderByClause" -> OrderByClause(n)
      [] kind = "Limit" -> Limit(n)
      [] kind = "WindowSpec" -> WindowSpec(n)
      [] kind = "PartitionByClause" -> PartitionByClause(n)
      [] kind = "FrameClause" -> FrameClause(n)
      [] kind = "FrameBound" -> FrameBound(n)
      [] kind = "SelectStmt" -> SelectStmt(n)
      [] kind = "UnionSelectList" -> UnionSelectList(n)
      [] kind = "UnionStmt" -> UnionStmt(n)
      [] kind = "Assignment" -> Assignment(n)
      [] kind = "LoadDataStmt" -> LoadDataStmt(n)
      [] kind = "FieldsClause" -> FieldsClause(n)
      [] kind = "LinesClause" -> LinesClause(n)
      [] kind = "InsertStmt" -> InsertStmt(n)
      [] kind = "DeleteStmt" -> DeleteStmt(n)
      [] kind = "UpdateStmt" -> UpdateStmt(n)
      [] kind = "ShowStmt" -> ShowStmt(n)
      [] kind = "AnalyzeTableStmt" -> AnalyzeTableStmt(n)
      [] kind = "DropStatsStmt" -> DropStatsStmt(n)
      [] kind = "LoadStatsStmt" -> LoadStatsStmt(n)
      [] kind = "AuthOption" -> AuthOption(n)
      [] kind = "TraceStmt" -> TraceStmt(n)
      [] kind = "ExplainStmt" -> ExplainStmt(n)
      [] kind = "PrepareStmt" -> PrepareStmt(n)
      [] kind = "DeallocateStmt" -> DeallocateStmt(n)
      [] kind = "ExecuteStmt" -> ExecuteStmt(n)
      [] kind = "BeginStmt" -> BeginStmt(n)
      [] kind = "BinlogStmt" -> BinlogStmt(n)
      [] kind = "CommitStmt" -> CommitStmt(n)
      [] kind = "RollbackStmt" -> RollbackStmt(n)
      [] kind = "RollbackToStmt" -> RollbackToStmt(n)
      [] kind = "ReleaseSavepointStmt" -> ReleaseSavepointStmt(n)
      [] kind = "SavepointStmt" -> SavepointStmt(n)
      [] kind = "UseStmt" -> UseStmt(n)
      [] kind = "VariableAssignment" -> VariableAssignment(n)
      [] kind = "FlushStmt" -> FlushStmt(n)
      [] kind = "KillStmt" -> KillStmt(n)
      [] kind = "SetStmt" -> SetStmt(n)
      [] kind = "SetPwdStmt" -> SetPwdStmt(n)
      [] kind = "UserSpec" -> UserSpec(n)
      [] kind = "CreateUserStmt" -> CreateUserStmt(n)
      [] kind = "AlterUserStmt" -> AlterUserStmt(n)
      [] kind = "DropUserStmt" -> DropUserStmt(n)
      [] kind = "CreateBindingStmt" -> CreateBindingStmt(n)
      [] kind = "DropBindingStmt" -> DropBindingStmt(n)
      [] kind = "DoStmt" -> DoStmt(n)
      [] kind = "ShowSlow" -> ShowSlow(n)
      [] kind = "AdminStmt" -> AdminStmt(n)
      [] kind = "PrivElem" -> PrivElem(n)
      [] kind = "GrantLevel" -> GrantLevel(n)
      [] kind = "RevokeStmt" -> RevokeStmt(n)
      [] kind = "GrantStmt" -> GrantStmt(n)
      [] kind = "TableOptimizerHint" -> TableOptimizerHint(n)
      [] kind = "DatabaseOption" -> DatabaseOption(n)
      [] kind = "CreateDatabaseStmt" -> CreateDatabaseStmt(n)
      [] kind = "DropDatabaseStmt" -> DropDatabaseStmt(n)
      [] kind = "IndexColName" -> IndexColName(n)
      [] kind = "ReferenceDef" -> ReferenceDef(n)
      [] kind = "OnDeleteOpt" -> OnDeleteOpt(n)
      [] kind = "OnUpdateOpt" -> OnUpdateOpt(n)
      [] kind = "ColumnOption" -> ColumnOption(n)
      [] kind = "IndexOption" -> IndexOption(n)
      [] kind = "Constraint" -> Constraint(n)
      [] kind = "ColumnDef" -> ColumnDef(n)
      [] kind = "CreateTableStmt" -> CreateTableStmt(n)
      [] kind = "DropTableStmt" -> DropTableStmt(n)
      [] kind = "RenameTableStmt" -> RenameTableStmt(n)
      [] kind = "TableToTable" -> TableToTable(n)
      [] kind = "CreateViewStmt" -> CreateViewStmt(n)
      [] kind = "CreateIndexStmt" -> CreateIndexStmt(n)
      [] kind = "DropIndexStmt" -> DropIndexStmt(n)
      [] kind = "TableOption" -> TableOption(n)
      [] kind = "ColumnPosition" -> ColumnPosition(n)
      [] kind = "AlterTableSpec" -> AlterTableSpec(n)
      [] kind = "AlterTableStmt" -> AlterTableStmt(n)
      [] kind = "TruncateTableStmt" -> TruncateTableStmt(n)
      [] kind = "PartitionDefinition" -> PartitionDefinition(n)
      [] kind = "PartitionOptions" -> PartitionOptions(n)
      [] kind = "ColumnType" -> ColumnType(n)
      [] kind = "CastType" -> CastType(n)

-----------------------------------------------------------------------------
\* Every field but those in `keep` says nothing.
Only(kind, n, keep) == \A f \in DOMAIN n \ keep : n[f] = Default(kind)[f]

Given(n, fields) == \A f \in fields : n[f] # <<>>

\* The fields of a SHOW, an ADMIN statement and an ALTER TABLE clause, by their kind: those
\* that are always given, and those that may be.
ShowUses(tp) ==
    CASE tp \in {"CREATE TABLE", "CREATE VIEW"} -> <<{"Table"}, {}>>
      [] tp = "CREATE DATABASE" -> <<{"DBName"}, {"IfNotExists"}>>
      [] tp = "CREATE USER" -> <<{"User"}, {}>>
      [] tp = "GRANTS" -> <<{}, {"User"}>>
      [] tp = "PROCESSLIST" -> <<{}, {"Full"}>>
      [] tp = "INDEX" -> <<{"Table"}, {"Pattern", "Where"}>>
      [] tp = "COLUMNS" -> <<{"Table"}, {"DBName", "Full", "Pattern", "Where"}>>
      [] tp = "TABLES" -> <<{}, {"DBName", "Full", "Pattern", "Where"}>>
      [] tp \in {"TABLE STATUS", "TRIGGERS", "EVENTS"} -> <<{}, {"DBName", "Pattern", "Where"}>>
      [] tp \in {"VARIABLES", "STATUS", "BINDINGS"} -> <<{}, {"GlobalScope", "Pattern", "Where"}>>
      [] tp \in {"MASTER STATUS", "PROFILES", "PRIVILEGES"} -> <<{}, {}>>
      [] OTHER -> <<{}, {"Pattern", "Where"}>>

AdminUses(tp) ==
    CASE tp = "AdminShowDDL" -> <<{}, {}>>
      [] tp = "AdminShowDDLJobs" -> <<{}, {"JobNumber"}>>
      [] tp \in {"AdminShowNextRowID", "AdminCheckTable", "AdminChecksumTable"} -> <<{"Tables"}, {}>>
      [] tp \in {"AdminCheckIndex", "AdminRecoverIndex", "AdminCleanupIndex"} -> <<{"Tables", "Index"}, {}>>
      [] tp = "AdminCheckIndexRange" -> <<{"Tables", "Index", "HandleRanges"}, {}>>
      [] tp = "AdminRestoreTable" -> <<{}, {"Tables", "JobNumber", "JobIDs"}>>
      [] tp \in {"AdminCancelDDLJobs", "AdminShowDDLJobQueries"} -> <<{"JobIDs"}, {}>>
      [] tp = "AdminShowSlow" -> <<{"ShowSlow"}, {}>>

AlterUses(tp) ==
    CASE tp = "AlterTableOption" -> <<{"Options"}, {}>>
      [] tp = "AlterTableAddColumns" -> <<{"NewColumns"}, {"Position"}>>
      [] tp = "AlterTableAddConstraint" -> <<{"Constraint"}, {}>>
      [] tp = "AlterTableDropColumn" -> <<{"OldColumnName"}, {}>>
      [] tp \in {"AlterTableDropIndex", "AlterTableDropForeignKey", "AlterTableDropPartition",
                 "AlterTableTruncatePartition"} -> <<{"Name"}, {}>>
      [] tp = "AlterTableModifyColumn" -> <<{"NewColumns"}, {"Position"}>>
      [] tp = "AlterTableChangeColumn" -> <<{"NewColumns", "OldColumnName"}, {"Position"}>>
      [] tp = "AlterTableRenameTable" -> <<{"NewTable"}, {}>>
      [] tp = "AlterTableAlterColumn" -> <<{"NewColumns"}, {"SetDefault"}>>
      [] tp = "AlterTableLock" -> <<{}, {"LockType"}>>
      [] tp = "AlterTableAlgorithm" -> <<{}, {"Algorithm"}>>
      [] tp = "AlterTableRenameIndex" -> <<{"FromKey", "ToKey"}, {}>>
      [] tp = "AlterTableAddPartitions" -> <<{}, {"PartDefinitions", "Num"}>>
      [] tp = "AlterTableCoalescePartitions" -> <<{"Num"}, {}>>
      [] OTHER -> <<{}, {}>>

\* The numbers that a type can have in parentheses, and its other parts.
TypeUses(tp) ==
    CASE tp \in DOMAIN IntegerType -> <<{0, 1}, {"Sign"}>>
      [] tp = "BOOL" -> <<{0}, {"Sign"}>>
      [] tp = "DECIMAL" -> <<{0, 1, 2}, {"Sign"}>>
      [] tp \in {"FLOAT", "DOUBLE"} -> <<{0, 2}, {"Sign"}>>
      [] tp \in {"CHAR", "TEXT"} -> <<{0, 1}, {"Binary", "Charset", "Collate"}>>
      [] tp = "VARCHAR" -> <<{1}, {"Binary", "Charset", "Collate"}>>
      [] tp \in {"TINYTEXT", "MEDIUMTEXT", "LONGTEXT"} -> <<{0}, {"Binary", "Charset", "Collate"}>>
      [] tp \in {"BIT", "BINARY", "BLOB", "DATETIME", "TIMESTAMP", "TIME"} -> <<{0, 1}, {}>>
      [] tp = "VARBINARY" -> <<{1}, {}>>
      [] tp \in {"ENUM", "SET"} -> <<{0}, {"Elems", "Charset", "Collate"}>>
      [] OTHER -> <<{0}, {}>>

CastUses(tp) ==
    CASE tp = "CHAR" -> <<{0, 1}, {"Binary", "Charset"}>>
      [] tp \in {"BINARY", "DATETIME", "TIME"} -> <<{0, 1}, {}>>
      [] tp = "DECIMAL" -> <<{0, 1, 2}, {}>>
      [] OTHER -> <<{0}, {}>>

UsesSizes(kind, n, use) == Len(n.Size) \in use[1] /\ Only(kind, n, {"Tp", "Size"} \cup use[2])

Uses(kind, n, use) == Given(n, use[1]) /\ Only(kind, n, {"Tp"} \cup use[1] \cup use[2])

\* The nodes the grammar produces, as far as Restore can tell them apart.
Parsed(kind, n) ==
    CASE kind = "PatternInExpr" -> (n.List = <<>>) # (n.Sel = <<>>)
      [] kind = "VariableExpr" -> /\ ~n.IsSystem => ~n.IsGlobal /\ ~n.ExplicitScope
                                  /\ n.IsGlobal => n.ExplicitScope
                                  /\ n.IsSystem => n.Value = <<>>
      [] kind = "FuncCallExpr" ->
             Len(n.Args) \in (CASE n.FnName \in {"convert", "extract", "get_format", "position"} -> {2}
                               [] n.FnName = "date_add" -> {3}
                               [] OTHER -> 1..3)
      [] kind = "FuncCastExpr" -> (n.Tp = <<>>) = (n.FunctionType = "CastBinaryOperator")
      [] kind = "AggregateFuncExpr" -> n.F = "group_concat" => Len(n.Args) = 2
      [] kind = "WindowFuncExpr" -> n.Distinct => n.Args # <<>>
      [] kind = "Join" ->
             IF n.Right = <<>> THEN Only(kind, n, {"Left", "JoinLevel"})
             ELSE /\ n.On = <<>> \/ n.Using = <<>>
                  /\ n.NaturalJoin => n.On = <<>> /\ n.Using = <<>>
                  /\ n.StraightJoin => n.Tp = "CrossJoin" /\ ~n.NaturalJoin /\ n.Using = <<>>
      [] kind = "SelectField" -> IF n.WildCard = <<>> THEN n.Expr # <<>> ELSE Only(kind, n, {"WildCard"})
      [] kind = "FrameBound" ->
             CASE n.Type = "CurrentRow" -> Only(kind, n, {"Type"})
               [] n.UnBounded -> Only(kind, n, {"Type", "UnBounded"})
               [] OTHER -> n.Expr # <<>>
      [] kind = "InsertStmt" ->
             /\ Cardinality({f \in {"Lists", "Select", "Setlist", "ListsAssist"} : n[f] # <<>>}) = 1
             /\ n.Setlist # <<>> => n.Columns = <<>>
             /\ n.IsReplace => n.OnDuplicate = <<>> /\ ~n.IgnoreErr
      [] kind = "DeleteStmt" ->
             IF n.IsMultiTable THEN n.Tables # <<>> /\ n.Order = <<>> /\ n.Limit = <<>>
             ELSE n.Tables = <<>> /\ ~n.BeforeFrom
      [] kind = "ShowStmt" -> Uses(kind, n, ShowUses(n.Tp)) /\ (n.Pattern = <<>> \/ n.Where = <<>>)
      [] kind = "AnalyzeTableStmt" -> n.IndexNames # <<>> => n.IndexFlag
      [] kind = "AuthOption" -> IF n.ByAuthString THEN n.HashString = <<>> ELSE n.AuthString = <<>>
      [] kind = "ExplainStmt" ->
             IF n.ShowTable # <<>> THEN Only(kind, n, {"ShowTable", "ShowColumn"})
             ELSE n.Stmt # <<>> /\ n.ShowColumn = <<>> /\ (n.Analyze => n.Format = "row")
      [] kind = "PrepareStmt" -> (n.SQLText = <<>>) # (n.SQLVar = <<>>)
      [] kind = "VariableAssignment" -> /\ n.IsGlobal => n.IsSystem
                                        /\ n.Name = "SetNAMES" => ~n.IsSystem
                                        /\ n.ExtendValue # <<>> => n.Name = "SetNAMES"
      [] kind = "FlushStmt" -> /\ n.Tp # "FlushTables" => n.Tables = <<>> /\ ~n.ReadLock
                               /\ n.Tp # "FlushTiDBPlugin" => n.Plugins = <<>>
      [] kind = "AlterUserStmt" -> (n.CurrentAuth = <<>>) # (n.Specs = <<>>)
      [] kind = "ShowSlow" -> n.Tp = "ShowSlowRecent" => n.Kind = "ShowSlowKindDefault"
      [] kind = "AdminStmt" -> /\ Uses(kind, n, AdminUses(n.Tp))
                               /\ n.Tp = "AdminRestoreTable" =>
                                      /\ (n.Tables = <<>>) # (n.JobIDs = <<>>)
                                      /\ n.JobIDs # <<>> => n.JobNumber = <<>>
      [] kind = "GrantLevel" ->
             CASE n.Level = "GrantLevelGlobal" -> Only(kind, n, {})
               [] n.Level = "GrantLevelDB" -> n.TableName = <<>>
               [] OTHER -> n.TableName # <<>>
      [] kind = "TableOptimizerHint" ->
             IF n.HintName = "max_execution_time" THEN n.Tables = <<>> ELSE n.MaxExecutionTime = <<>>
      [] kind = "ColumnOption" ->
             /\ (n.Expr # <<>>) = (n.Tp \in {"ColumnOptionDefaultValue", "ColumnOptionOnUpdate",
                                            "ColumnOptionComment", "ColumnOptionGenerated"})
             /\ (n.Refer # <<>>) = (n.Tp = "ColumnOptionReference")
             /\ n.Stored => n.Tp = "ColumnOptionGenerated"
      [] kind = "Constraint" -> (n.Refer # <<>>) = (n.Tp = "ConstraintForeignKey")
      [] kind = "CreateTableStmt" ->
             IF n.ReferTable # <<>> THEN Only(kind, n, {"IfNotExists", "Table", "ReferTable"})
             ELSE n.OnDuplicate # "Error" => n.Select # <<>>
      [] kind = "CreateViewStmt" -> IF n.CurrentUser THEN n.Username = <<>> /\ n.Hostname = <<>>
                                    ELSE n.Username # <<>>
      [] kind = "TableOption" -> /\ (n.StrValue # <<>>) = (n.Tp \in TextOptions)
                                 /\ (n.UintValue # <<>>) = (n.Tp \in NumberOptions)
      [] kind = "ColumnPosition" -> (n.RelativeColumn # <<>>) = (n.Tp = "ColumnPositionAfter")
      [] kind = "AlterTableSpec" ->
             /\ Uses(kind, n, AlterUses(n.Tp))
             /\ n.Tp = "AlterTableAddColumns" => (n.Position # <<>> => Len(n.NewColumns) = 1)
             /\ n.Tp \in {"AlterTableModifyColumn", "AlterTableChangeColumn", "AlterTableAlterColumn"} =>
                    Len(n.NewColumns) = 1
             /\ n.Num = <<>> \/ n.PartDefinitions = <<>>
      [] kind = "PartitionOptions" -> (n.Expr = <<>>) # (n.ColumnNames = <<>>)
      [] kind = "ColumnType" -> UsesSizes(kind, n, TypeUses(n.Tp))
      [] kind = "CastType" -> UsesSizes(kind, n, CastUses(n.Tp))
      [] OTHER -> TRUE

-----------------------------------------------------------------------------
\* What Restore leaves out, or prints so that it cannot be read back.
NotPrinted ==
    {<<"SelectStmt", "CalcFoundRows">>, <<"FieldsClause", "Enclosed">>, <<"PositionExpr", "P">>,
     <<"PartitionDefinition", "LessThan">>, <<"DropBindingStmt", "OriginSel">>,
     <<"DropBindingStmt", "GlobalScope">>}

\* The parts of types that are not printed: a size of 0 (or with no decimals), the
\* length of a DECIMAL column that says nothing of its decimals, the charset and the
\* collation of an ENUM or SET, that a FLOAT of more than 24 digits is not a DOUBLE, the
\* default charset of a CAST, and a CAST to BINARY(n) as a whole.
NotPrintedOfType(kind, n, f) ==
    \/ f = "Size" /\ n.Size # <<>> /\ Last(n.Size) = 0
    \/ kind = "ColumnType" /\ f = "Size" /\ n.Tp = "DECIMAL" /\ Len(n.Size) = 1
    \/ kind = "ColumnType" /\ f \in {"Charset", "Collate"} /\ n.Tp \in {"ENUM", "SET"}
    \/ kind = "ColumnType" /\ f = "Tp" /\ n.Tp = "FLOAT" /\ Flen(n) > 24
    \/ kind = "CastType" /\ f = "Charset" /\ n.Charset = DefaultCharset
    \/ kind = "CastType" /\ f = "Size" /\ n.Tp = "BINARY"

Left(kind, n, f) ==
    <<kind, f>> \in NotPrinted \/ (kind \in {"ColumnType", "CastType"} /\ NotPrintedOfType(kind, n, f))

\* The printed children Accept does not go to, or whose visited node it does not keep.
NotVisited ==
    {<<"Join", "Using">>, <<"SelectField", "WildCard">>, <<"UpdateStmt", "TableHints">>,
     <<"DeleteStmt", "TableHints">>, <<"InsertStmt", "ListsAssist">>, <<"ValuesExpr", "Column">>,
     <<"VariableAssignment", "ExtendValue">>, <<"FlushStmt", "Tables">>, <<"ColumnOption", "Refer">>,
     <<"CreateTableStmt", "Partition">>, <<"AlterTableSpec", "NewColumns">>,
     <<"AlterTableSpec", "PartDefinitions">>, <<"PartitionDefinition", "LessThan">>,
     <<"PartitionOptions", "Expr">>, <<"PartitionOptions", "ColumnNames">>,
     <<"ShowStmt", "Where">>}

\* The fields of a node that its text depends on.
Printed(kind, n, f) ==
    \A m \in Changes(kind, n, f) :
        Parsed(kind, m) /\ ~Left(kind, m, f) => NodeOf(kind, m).restore # NodeOf(kind, n).restore

\* Nothing a statement says is lost on its way to a backend: what Restore prints
\* tells a node from any node that differs in one field, for every field but the
\* six of NotPrinted and the parts of types of NotPrintedOfType.
RestoreKeepsAll(kind, n) ==
    Parsed(kind, n) => \A f \in DOMAIN n : Left(kind, n, f) \/ Printed(kind, n, f)

\* What Restore prints, visitors have seen: a child that the text depends on is one
\* that Accept visits and whose replacement it keeps, so that the table checker of
\* the plan and the rewriters of table and column names reach every name that is
\* sent, but for the children of NotVisited.
RestoredIsVisited(kind, n) ==
    Parsed(kind, n) =>
        \A f \in DOMAIN Fields[kind].nodes :
            \/ <<kind, f>> \in NotVisited
            \/ f \in NodeOf(kind, n).accept
            \/ \A m \in Changes(kind, n, f) :
                   Parsed(kind, m) => NodeOf(kind, m).restore = NodeOf(kind, n).restore
=============================================================================
