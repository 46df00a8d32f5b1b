----------------------------- MODULE SyntaxDefinitions -----------------------------
(****************************************************************************)
(* The data definition statements of the syntax tree: parser/ast/ddl.go.    *)
(* Node types are written as in SyntaxStatements.                           *)
(****************************************************************************)
EXTENDS SyntaxStatements

\* Not a node, like TableOption, PartitionDefinition and PartitionOptions below.
DatabaseOption(n) == Node(<<n.Tp, "=">> \o n.Value, {})

CreateDatabaseStmt(n) ==
    Node(<<"CREATE DATABASE">> \o When(n.IfNotExists, <<"IF NOT EXISTS">>) \o n.Name \o n.Options, {})

DropDatabaseStmt(n) ==
    Node(<<"DROP DATABASE">> \o When(n.IfExists, <<"IF EXISTS">>) \o n.Name, {})

IndexColName(n) == Node(n.Column \o When(n.Length # <<>>, Parens(n.Length)), {"Column"})

ReferenceDef(n) ==
    Node(Clause("REFERENCES", n.Table) \o Parens(Commas(n.IndexColNames)) \o n.OnDelete \o n.OnUpdate,
         {"Table", "IndexColNames", "OnDelete", "OnUpdate"})

\* ReferOptionType.String
ReferOptionType(r) ==
    CASE r = "ReferOptionRestrict" -> "RESTRICT"
      [] r = "ReferOptionCascade" -> "CASCADE"
      [] r = "ReferOptionSetNull" -> "SET NULL"
      [] r = "ReferOptionNoAction" -> "NO ACTION"

OnDeleteOpt(n) ==
    Node(IF n.ReferOpt = "ReferOptionNoOption" THEN <<>>
         ELSE <<"ON DELETE", ReferOptionType(n.ReferOpt)>>, {})

OnUpdateOpt(n) ==
    Node(IF n.ReferOpt = "ReferOptionNoOption" THEN <<>>
         ELSE <<"ON UPDATE", ReferOptionType(n.ReferOpt)>>, {})

ColumnOption(n) ==
    Node(CASE n.Tp = "ColumnOptionNoOption" -> <<>>
           [] n.Tp = "ColumnOptionPrimaryKey" -> <<"PRIMARY KEY">>
           [] n.Tp = "ColumnOptionNotNull" -> <<"NOT NULL">>
           [] n.Tp = "ColumnOptionAutoIncrement" -> <<"AUTO_INCREMENT">>
           [] n.Tp = "ColumnOptionDefaultValue" -> <<"DEFAULT">> \o n.Expr
           [] n.Tp = "ColumnOptionUniqKey" -> <<"UNIQUE KEY">>
           [] n.Tp = "ColumnOptionNull" -> <<"NULL">>
           [] n.Tp = "ColumnOptionOnUpdate" -> <<"ON UPDATE">> \o n.Expr
           [] n.Tp = "ColumnOptionComment" -> <<"COMMENT">> \o n.Expr
           [] n.Tp = "ColumnOptionGenerated" ->
                  <<"GENERATED ALWAYS AS">> \o Parens(n.Expr) \o Either(n.Stored, "STORED", "VIRTUAL")
           [] n.Tp = "ColumnOptionReference" -> n.Refer,
         {"Expr"})

IndexOption(n) ==
    Node(When(n.KeyBlockSize # <<>>, <<"KEY_BLOCK_SIZE", "=">> \o n.KeyBlockSize)
           \o When(n.Tp # "IndexTypeInvalid", <<"USING", n.Tp>>)
           \o Clause("COMMENT", n.Comment), {})

Constraint(n) ==
    Node((CASE n.Tp = "ConstraintNoConstraint" -> <<>>
            [] n.Tp = "ConstraintPrimaryKey" -> <<"PRIMARY KEY">>
            [] n.Tp = "ConstraintKey" -> <<"KEY">>
            [] n.Tp = "ConstraintIndex" -> <<"INDEX">>
            [] n.Tp = "ConstraintUniq" -> <<"UNIQUE">>
            [] n.Tp = "ConstraintUniqKey" -> <<"UNIQUE KEY">>
            [] n.Tp = "ConstraintUniqIndex" -> <<"UNIQUE INDEX">>
            [] n.Tp = "ConstraintFulltext" -> <<"FULLTEXT">>
            [] n.Tp = "ConstraintForeignKey" -> <<"CONSTRAINT">>)
           \o n.Name \o When(n.Tp = "ConstraintForeignKey", <<"FOREIGN KEY">>)
           \o Parens(Commas(n.Keys)) \o n.Refer \o n.Option,
         {"Keys", "Refer", "Option"})

ColumnDef(n) == Node(n.Name \o n.Tp \o n.Options, {"Name", "Options"})

\* CREATE TABLE t LIKE s has no other part.
CreateTableStmt(n) ==
    Node(<<"CREATE TABLE">> \o When(n.IfNotExists, <<"IF NOT EXISTS">>) \o n.Table
           \o Clause("LIKE", n.ReferTable)
           \o When(n.Cols \o n.Constraints # <<>>, Parens(Commas(n.Cols \o n.Constraints)))
           \o n.Options \o n.Partition
           \o When(n.Select # <<>>,
                   (CASE n.OnDuplicate = "Error" -> <<"AS">>
                      [] n.OnDuplicate = "Ignore" -> <<"IGNORE AS">>
                      [] n.OnDuplicate = "Replace" -> <<"REPLACE AS">>) \o n.Select),
         {"Table", "ReferTable", "Cols", "Constraints", "Select"})

DropTableStmt(n) ==
    Node(Either(n.IsView, "DROP VIEW", "DROP TABLE") \o When(n.IfExists, <<"IF EXISTS">>)
           \o Commas(n.Tables), {"Tables"})

\* OldTable and NewTable are the first pair of TableToTables again, and not printed.
RenameTableStmt(n) ==
    Node(<<"RENAME TABLE">> \o Commas(n.TableToTables), {"OldTable", "NewTable", "TableToTables"})

TableToTable(n) == Node(n.OldTable \o <<"TO">> \o n.NewTable, {"OldTable", "NewTable"})

\* The check option is printed unless it is the default one, CASCADED.
CreateViewStmt(n) ==
    Node(<<"CREATE">> \o When(n.OrReplace, <<"OR REPLACE">>)
           \o <<"ALGORITHM", "=", n.Algorithm, "DEFINER", "=">>
           \o (IF n.CurrentUser THEN <<"current_user">> ELSE n.Username \o Clause("@", n.Hostname))
           \o <<"SQL SECURITY", n.Security, "VIEW">> \o n.ViewName
           \o When(n.Cols # <<>>, Parens(Commas(n.Cols))) \o <<"AS">> \o n.Select
           \o When(n.CheckOption # "CASCADED", <<"WITH", n.CheckOption, "CHECK OPTION">>),
         {"ViewName", "Select"})

\* An option that says nothing prints nothing.
CreateIndexStmt(n) ==
    Node(<<"CREATE">> \o When(n.Unique, <<"UNIQUE">>) \o <<"INDEX">> \o n.IndexName
           \o <<"ON">> \o n.Table \o Parens(Commas(n.IndexColNames)) \o n.IndexOption,
         {"Table", "IndexColNames", "IndexOption"})

DropIndexStmt(n) ==
    Node(<<"DROP INDEX">> \o When(n.IfExists, <<"IF EXISTS">>) \o n.IndexName \o <<"ON">> \o n.Table,
         {"Table"})

\* The options whose value is a name or a string, and those whose value is a number.
TextOptions == {"ENGINE", "DEFAULT CHARACTER SET", "DEFAULT COLLATE", "COMMENT", "COMPRESSION",
                "CONNECTION", "PASSWORD"}
NumberOptions == {"AUTO_INCREMENT", "AVG_ROW_LENGTH", "CHECKSUM", "KEY_BLOCK_SIZE", "MAX_ROWS",
                  "MIN_ROWS", "DELAY_KEY_WRITE", "SHARD_ROW_ID_BITS", "ROW_FORMAT"}

\* Tp is named by its keywords; a row format prints as the keyword of its number.
TableOption(n) ==
    Node(<<n.Tp, "=">>
           \o (CASE n.Tp \in TextOptions -> n.StrValue
                 [] n.Tp \in NumberOptions -> n.UintValue
                 [] n.Tp \in {"STATS_PERSISTENT", "PACK_KEYS"} -> <<"DEFAULT", "/* not supported */">>),
         {})

ColumnPosition(n) ==
    Node(CASE n.Tp = "ColumnPositionNone" -> <<>>
           [] n.Tp = "ColumnPositionFirst" -> <<"FIRST">>
           [] n.Tp = "ColumnPositionAfter" -> <<"AFTER">> \o n.RelativeColumn,
         {"RelativeColumn"})

\* Options are here records [Tp, StrValue] of table options, Position is <<>> for
\* nil and for ColumnPositionNone, and SetDefault is the expression of the only
\* option of the only new column.
AlterTableSpecRestore(n) ==
    CASE n.Tp = "AlterTableOption" ->
             (IF /\ Len(n.Options) = 2
                 /\ n.Options[1].Tp = "DEFAULT CHARACTER SET"
                 /\ n.Options[2].Tp = "DEFAULT COLLATE"
              THEN <<"CONVERT TO CHARACTER SET", n.Options[1].StrValue, "COLLATE", n.Options[2].StrValue>>
              ELSE FlattenSeq([i \in 1..Len(n.Options) |->
                       When(i # 1, <<",">>) \o <<n.Options[i].Tp, "=", n.Options[i].StrValue>>]))
      [] n.Tp = "AlterTableAddColumns" ->
             <<"ADD COLUMN">>
               \o (IF n.Position # <<>> /\ Len(n.NewColumns) = 1 THEN n.NewColumns \o n.Position
                   ELSE Parens(Commas(n.NewColumns)))
      [] n.Tp = "AlterTableAddConstraint" -> <<"ADD">> \o n.Constraint
      [] n.Tp = "AlterTableDropColumn" -> <<"DROP COLUMN">> \o n.OldColumnName
      [] n.Tp = "AlterTableDropPrimaryKey" -> <<"DROP PRIMARY KEY">>
      [] n.Tp = "AlterTableDropIndex" -> <<"DROP INDEX">> \o n.Name
      [] n.Tp = "AlterTableDropForeignKey" -> <<"DROP FOREIGN KEY">> \o n.Name
      [] n.Tp = "AlterTableModifyColumn" -> <<"MODIFY COLUMN", n.NewColumns[1]>> \o n.Position
      [] n.Tp = "AlterTableChangeColumn" ->
             <<"CHANGE COLUMN">> \o n.OldColumnName \o <<n.NewColumns[1]>> \o n.Position
      [] n.Tp = "AlterTableRenameTable" -> <<"RENAME AS">> \o n.NewTable
      [] n.Tp = "AlterTableAlterColumn" ->
             <<"ALTER COLUMN", n.NewColumns[1]>>
               \o (IF n.SetDefault # <<>> THEN <<"SET DEFAULT">> \o n.SetDefault ELSE <<"DROP DEFAULT">>)
      [] n.Tp = "AlterTableLock" -> <<"LOCK", "=", n.LockType>>
      [] n.Tp = "AlterTableAlgorithm" -> <<"ALGORITHM", "=", n.Algorithm>>
      [] n.Tp = "AlterTableRenameIndex" -> <<"RENAME INDEX">> \o n.FromKey \o <<"TO">> \o n.ToKey
      [] n.Tp = "AlterTableForce" -> <<"FORCE", "/* not supported */">>
      [] n.Tp = "AlterTableAddPartitions" ->
             <<"ADD PARTITION">>
               \o (IF n.PartDefinitions # <<>> THEN Parens(Commas(n.PartDefinitions))
                   ELSE Clause("PARTITIONS", n.Num))
      [] n.Tp = "AlterTableCoalescePartitions" -> <<"COALESCE PARTITION">> \o n.Num
      [] n.Tp = "AlterTableDropPartition" -> <<"DROP PARTITION">> \o n.Name
      [] n.Tp = "AlterTableTruncatePartition" -> <<"TRUNCATE PARTITION">> \o n.Name

\* The new columns are visited, but what the visit returns is not stored.
AlterTableSpecAccept == {"Constraint", "NewTable", "OldColumnName", "Position"}

AlterTableSpec(n) == Node(AlterTableSpecRestore(n), AlterTableSpecAccept)

AlterTableStmt(n) == Node(<<"ALTER TABLE">> \o n.Table \o Commas(n.Specs), {"Table", "Specs"})

TruncateTableStmt(n) == Node(<<"TRUNCATE TABLE">> \o n.Table, {"Table"})

\* The bounds are printed one after the other, without a separator: one token.
Glued(list) == FoldLeft(LAMBDA text, token : text \o token, "", list)

PartitionDefinition(n) ==
    Node(<<"PARTITION">> \o n.Name
           \o When(n.LessThan # <<>>,
                   <<"VALUES LESS THAN">> \o Parens(<<Glued(n.LessThan)>>))
           \o When(n.Comment # <<>>, <<"COMMENT", "=">> \o n.Comment), {})

PartitionOptions(n) ==
    Node(<<"PARTITION BY">> \o Either(n.Tp = "PartitionTypeRange", "RANGE", "HASH")
           \o When(n.Expr # <<>>, Parens(n.Expr))
           \o When(n.ColumnNames # <<>>, <<"COLUMNS">> \o Parens(Commas(n.ColumnNames)))
           \o Clause("PARTITIONS", n.Num)
           \o When(n.Definitions # <<>>, Parens(Commas(n.Definitions))), {})
-----------------------------------------------------------------------------
(* Types.  A declaration is its name, its Size (a length, a length and a    *)
(* number of decimals, or neither), its Sign, Binary, Charset, Collate and  *)
(* Elems; what the grammar makes of it is a FieldType.                      *)

UnspecifiedLength == -1
CharsetBin == "binary"
DefaultCharset == "utf8mb4"

NewFieldType(tp) ==
    [Tp |-> tp, Flag |-> {}, Flen |-> UnspecifiedLength, Decimal |-> UnspecifiedLength, Charset |-> "",
     Collate |-> "", Elems |-> <<>>]

\* OptFieldLen, FloatOpt, FieldOpts
Flen(t) == IF t.Size = <<>> THEN UnspecifiedLength ELSE t.Size[1]
Decimals(t) == IF Len(t.Size) < 2 THEN UnspecifiedLength ELSE t.Size[2]
FieldOpts(t) == CASE t.Sign = "" -> {} [] t.Sign = "UNSIGNED" -> {"Unsigned"} [] OTHER -> {"Unsigned", "Zerofill"}

IntegerType == [TINYINT |-> "Tiny", SMALLINT |-> "Short", MEDIUMINT |-> "Int24", INT |-> "Long",
                BIGINT |-> "Longlong"]

NumericType(t) ==
    LET number(tp, flen, decimal) ==
            [NewFieldType(tp) EXCEPT !.Flen = flen, !.Decimal = decimal, !.Flag = FieldOpts(t)]
    IN  CASE t.Tp \in DOMAIN IntegerType -> number(IntegerType[t.Tp], Flen(t), UnspecifiedLength)
          [] t.Tp = "BOOL" -> number("Tiny", 1, UnspecifiedLength)
          [] t.Tp = "DECIMAL" -> number("NewDecimal", Flen(t), Decimals(t))
          [] t.Tp = "FLOAT" -> number(IF Flen(t) > 24 THEN "Double" ELSE "Float", Flen(t), Decimals(t))
          [] t.Tp = "DOUBLE" -> number("Double", Flen(t), Decimals(t))
          [] t.Tp = "BIT" ->
                 [NewFieldType("Bit") EXCEPT !.Flen = IF Flen(t) \in {UnspecifiedLength, 0} THEN 1 ELSE Flen(t)]

BlobType == [TINYBLOB |-> "TinyBlob", BLOB |-> "Blob", MEDIUMBLOB |-> "MediumBlob", LONGBLOB |-> "LongBlob"]
TextType == [TINYTEXT |-> "TinyBlob", TEXT |-> "Blob", MEDIUMTEXT |-> "MediumBlob", LONGTEXT |-> "LongBlob"]

StringType(t) ==
    LET text(tp) == [NewFieldType(tp) EXCEPT !.Flen = Flen(t), !.Charset = t.Charset, !.Collate = t.Collate,
                                             !.Flag = IF t.Binary THEN {"Binary"} ELSE {}]
        bytes(tp) == [NewFieldType(tp) EXCEPT !.Flen = Flen(t), !.Charset = CharsetBin,
                                              !.Collate = CharsetBin, !.Flag = {"Binary"}]
        listed(tp) == [NewFieldType(tp) EXCEPT !.Elems = t.Elems, !.Charset = t.Charset, !.Collate = t.Collate]
    IN  CASE t.Tp = "CHAR" -> text("String")
          [] t.Tp = "VARCHAR" -> text("Varchar")
          [] t.Tp \in DOMAIN TextType -> text(TextType[t.Tp])
          [] t.Tp = "BINARY" -> bytes("String")
          [] t.Tp = "VARBINARY" -> bytes("Varchar")
          [] t.Tp \in DOMAIN BlobType -> bytes(BlobType[t.Tp])
          [] t.Tp = "ENUM" -> listed("Enum")
          [] t.Tp = "SET" -> listed("Set")
          [] t.Tp = "JSON" -> [NewFieldType("JSON") EXCEPT !.Decimal = 0, !.Charset = CharsetBin,
                                                           !.Collate = CharsetBin]

\* The width without a fraction, and with one of `decimal` digits.
FractionWidth(width, decimal) == IF decimal > 0 THEN width + 1 + decimal ELSE width

DateAndTimeType(t) ==
    LET time(tp, width) == [NewFieldType(tp) EXCEPT !.Flen = FractionWidth(width, Flen(t)), !.Decimal = Flen(t)]
    IN  CASE t.Tp = "DATE" -> NewFieldType("Date")
          [] t.Tp = "DATETIME" -> time("Datetime", 19)
          [] t.Tp = "TIMESTAMP" -> time("Timestamp", 19)
          [] t.Tp = "TIME" -> time("Duration", 10)
          [] t.Tp = "YEAR" -> [NewFieldType("Year") EXCEPT !.Flen = Flen(t)]

NumericTypes == DOMAIN IntegerType \cup {"BOOL", "DECIMAL", "FLOAT", "DOUBLE", "BIT"}
DateAndTimeTypes == {"DATE", "DATETIME", "TIMESTAMP", "TIME", "YEAR"}

FieldTypeOf(t) ==
    CASE t.Tp \in NumericTypes -> NumericType(t)
      [] t.Tp \in DateAndTimeTypes -> DateAndTimeType(t)
      [] OTHER -> StringType(t)

IsTypeBlob(tp) == tp \in {"TinyBlob", "Blob", "MediumBlob", "LongBlob"}
IsTypeChar(tp) == tp \in {"String", "Varchar"}

type2Str ==
    [Bit |-> "BIT", Blob |-> "TEXT", Date |-> "DATE", Datetime |-> "DATETIME", NewDecimal |-> "DECIMAL",
     Double |-> "DOUBLE", Enum |-> "ENUM", Float |-> "FLOAT", Int24 |-> "MEDIUMINT", JSON |-> "JSON",
     Long |-> "INT", Longlong |-> "BIGINT", LongBlob |-> "LONGTEXT", MediumBlob |-> "MEDIUMTEXT",
     Set |-> "SET", Short |-> "SMALLINT", String |-> "CHAR", Duration |-> "TIME",
     Timestamp |-> "TIMESTAMP", Tiny |-> "TINYINT", TinyBlob |-> "TINYTEXT", Varchar |-> "VARCHAR",
     Year |-> "YEAR"]

\* strings.Replace of text by blob, and of char by binary
TypeToStr(tp, cs) ==
    IF cs # CharsetBin \/ ~(IsTypeBlob(tp) \/ IsTypeChar(tp)) THEN type2Str[tp]
    ELSE CASE tp = "TinyBlob" -> "TINYBLOB" [] tp = "Blob" -> "BLOB" [] tp = "MediumBlob" -> "MEDIUMBLOB"
           [] tp = "LongBlob" -> "LONGBLOB" [] tp = "String" -> "BINARY" [] tp = "Varchar" -> "VARBINARY"

Sized(n) == Parens(<<ToString(n)>>)

FieldTypeRestore(ft) ==
    LET measured == ft.Flen > 0 /\ ft.Decimal > 0
        named == IsTypeChar(ft.Tp) \/ IsTypeBlob(ft.Tp)
    IN  <<TypeToStr(ft.Tp, ft.Charset)>>
          \o (CASE ft.Tp \in {"Enum", "Set"} -> Parens(Commas(ft.Elems))
                [] ft.Tp \in {"Timestamp", "Datetime", "Duration"} -> When(measured, Sized(ft.Decimal))
                [] ft.Tp \in {"Double", "Float", "NewDecimal"} ->
                       When(measured, Parens(<<ToString(ft.Flen), ",", ToString(ft.Decimal)>>))
                [] ft.Tp \in {"Date", "JSON"} -> <<>>
                [] OTHER -> When(ft.Flen > 0, Sized(ft.Flen)))
          \o When("Unsigned" \in ft.Flag, <<"UNSIGNED">>)
          \o When("Zerofill" \in ft.Flag, <<"ZEROFILL">>)
          \o When("Binary" \in ft.Flag /\ ft.Charset # CharsetBin, <<"BINARY">>)
          \o When(named /\ ft.Charset \notin {"", CharsetBin}, <<"CHARACTER SET", ft.Charset>>)
          \o When(named /\ ft.Collate \notin {"", CharsetBin}, <<"COLLATE", ft.Collate>>)

ColumnType(t) == Node(FieldTypeRestore(FieldTypeOf(t)), {})

\* The type of a CAST.
CastTypeOf(t) ==
    LET bytes(tp) == [NewFieldType(tp) EXCEPT !.Charset = CharsetBin, !.Collate = CharsetBin, !.Flag = {"Binary"}]
        time(tp, width) == [bytes(tp) EXCEPT !.Flen = FractionWidth(width, Flen(t)), !.Decimal = Flen(t)]
    IN  CASE t.Tp = "BINARY" ->
                 [bytes(IF Flen(t) # UnspecifiedLength THEN "String" ELSE "VarString") EXCEPT !.Flen = Flen(t)]
          [] t.Tp = "CHAR" ->
                 [NewFieldType("VarString") EXCEPT
                      !.Flen = Flen(t), !.Flag = IF t.Binary THEN {"Binary"} ELSE {},
                      !.Charset = IF t.Charset = "" THEN DefaultCharset ELSE t.Charset]
          [] t.Tp = "DATE" -> bytes("Date")
          [] t.Tp = "DATETIME" -> time("Datetime", 19)
          [] t.Tp = "TIME" -> time("Duration", 10)
          [] t.Tp = "DECIMAL" -> [bytes("NewDecimal") EXCEPT !.Flen = Flen(t), !.Decimal = Decimals(t)]
          [] t.Tp = "SIGNED" -> bytes("Longlong")
          [] t.Tp = "UNSIGNED" -> [bytes("Longlong") EXCEPT !.Flag = {"Unsigned", "Binary"}]
          [] t.Tp = "JSON" -> [NewFieldType("JSON") EXCEPT !.Charset = DefaultCharset, !.Flag = {"Binary"}]

FormatAsCastType(ft) ==
    CASE ft.Tp = "VarString" ->
             <<IF ft.Charset = CharsetBin /\ ft.Collate = CharsetBin THEN "BINARY" ELSE "CHAR">>
               \o When(ft.Flen # UnspecifiedLength, Sized(ft.Flen))
               \o When("Binary" \in ft.Flag, <<"BINARY">>)
               \o When(ft.Charset \notin {CharsetBin, DefaultCharset}, <<"CHARACTER SET", ft.Charset>>)
      [] ft.Tp = "Date" -> <<"DATE">>
      [] ft.Tp = "Datetime" -> <<"DATETIME">> \o When(ft.Decimal > 0, Sized(ft.Decimal))
      [] ft.Tp = "NewDecimal" ->
             <<"DECIMAL">>
               \o (CASE ft.Flen > 0 /\ ft.Decimal > 0 -> Parens(<<ToString(ft.Flen), ",", ToString(ft.Decimal)>>)
                     [] ft.Flen > 0 /\ ft.Decimal <= 0 -> Sized(ft.Flen)
                     [] OTHER -> <<>>)
      [] ft.Tp = "Duration" -> <<"TIME">> \o When(ft.Decimal > 0, Sized(ft.Decimal))
      [] ft.Tp = "Longlong" -> <<IF "Unsigned" \in ft.Flag THEN "UNSIGNED" ELSE "SIGNED">>
      [] ft.Tp = "JSON" -> <<"JSON">>
      [] OTHER -> <<>>

CastType(t) == Node(FormatAsCastType(CastTypeOf(t)), {})
=============================================================================
