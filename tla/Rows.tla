-------------------------------- MODULE Rows --------------------------------
(***************************************************************************)
(* The rows of a result set: read in text form from a backend              *)
(* (RowData.ParseText), built again in text form for a merged or a         *)
(* synthetic result (BuildResultset) and in binary form for the answer to  *)
(* a prepared statement (BuildBinaryResultset, AppendBinaryValue), and     *)
(* read in binary form (RowData.ParseBinary): mysql/result.go,             *)
(* mysql/encoding.go and mysql/field.go.                                   *)
(*                                                                         *)
(* A value keeps the Go type that the code switches on: [go, v].  An       *)
(* integer is its eight bytes in two's complement; a number is its digits  *)
(* before and after the point, of which a float64 keeps FloatDigits; a     *)
(* date or a time is the record of its fields, its layout being left out.  *)
(* A text cell of a column is [null, v].                                   *)
(***************************************************************************)
EXTENDS Wire

CONSTANT FloatDigits   \* the significant decimal digits that survive a float64

IntTypes == {"Tiny", "Short", "Long", "Int24", "Longlong", "Year"}
FloatTypes == {"Float", "Double", "NewDecimal"}
TextTypes == {"Varchar", "VarString", "String", "Datetime", "Date", "Duration", "Timestamp"}
Nil == [go |-> "nil"]
Val(go, v) == [go |-> go, v |-> v]

---------------------------------------------------------------------------
(* Numbers: [neg, int, frac], digits as bytes, no zero at the front of int. *)

RECURSIVE DropZeros(_)
DropZeros(s) == IF s # <<>> /\ Last(s) = 48 THEN DropZeros(Front(s)) ELSE s
\* strconv.ParseFloat and back: the digits beyond FloatDigits are lost, and
\* 'f' with precision -1 prints no trailing zeros.
ParseFloat(n) ==
  LET lost == Len(n.int) + Len(n.frac) - FloatDigits
      kept == IF lost <= 0 THEN n.frac
              ELSE IF lost <= Len(n.frac) THEN SubSeq(n.frac, 1, Len(n.frac) - lost) ELSE <<>>
      int == IF Len(n.int) <= FloatDigits THEN n.int
             ELSE SubSeq(n.int, 1, FloatDigits) \o Rep(Len(n.int) - FloatDigits, 48)
  IN [neg |-> n.neg, int |-> int, frac |-> DropZeros(kept)]
FormatFloat(n) ==
  (IF n.neg THEN <<45>> ELSE <<>>) \o n.int
    \o (IF n.frac = <<>> THEN <<>> ELSE <<46>> \o n.frac)

---------------------------------------------------------------------------
(* Dates and times.                                                        *)

IsLeap(y) == (y % 4 = 0 /\ (y % 100) # 0) \/ y % 400 = 0
DaysIn(y, mo) ==
  CASE mo = 2 -> (IF IsLeap(y) THEN 29 ELSE 28) [] mo \in {4, 6, 9, 11} -> 30 [] OTHER -> 31
\* time.Parse accepts a day of the calendar only.
IsDay(t) == t.mo \in 1..12 /\ t.d \in 1..DaysIn(t.y, t.mo)
ZeroDate == [y |-> 0, mo |-> 0, d |-> 0]
ZeroDatetime == [y |-> 0, mo |-> 0, d |-> 0, h |-> 0, mi |-> 0, s |-> 0, us |-> 0]

(* A duration is [neg, h, mi, s, us]; its hours go up to 838.              *)
\* Mutant: the hours beyond a day are not carried into the days.
TimeNoDays(t) ==
  [neg |-> t.neg, day |-> 0, h |-> t.h % 24, mi |-> t.mi, s |-> t.s, us |-> t.us]
stringToMysqlTime(t) ==
  [neg |-> t.neg, day |-> t.h \div 24, h |-> t.h % 24, mi |-> t.mi, s |-> t.s, us |-> t.us]
IsNull(v) == v.day = 0 /\ v.h = 0 /\ v.mi = 0 /\ v.s = 0 /\ v.us = 0
mysqlTimeToBinaryResult(v) ==
  IF IsNull(v) THEN <<0>>
  ELSE <<IF v.us = 0 THEN 8 ELSE 12, IF v.neg THEN 1 ELSE 0>> \o WriteUint32(v.day)
         \o <<v.h, v.mi, v.s>> \o (IF v.us = 0 THEN <<>> ELSE WriteUint32(v.us))

FormatBinaryDate(n, b) ==
  CASE n = 0 -> [ok |-> TRUE, v |-> ZeroDate]
    [] n = 4 -> [ok |-> TRUE, v |-> [y |-> Unsigned(Slice(b, 0, 2)), mo |-> b[3], d |-> b[4]]]
    [] OTHER -> [ok |-> FALSE, v |-> ZeroDate]
FormatBinaryDateTime(n, b) ==
  LET Day == [y |-> Unsigned(Slice(b, 0, 2)), mo |-> b[3], d |-> b[4],
              h |-> IF n = 4 THEN 0 ELSE b[5], mi |-> IF n = 4 THEN 0 ELSE b[6],
              s |-> IF n = 4 THEN 0 ELSE b[7],
              us |-> IF n = 11 THEN Unsigned(Slice(b, 7, 4)) ELSE 0]
  IN CASE n = 0 -> [ok |-> TRUE, v |-> ZeroDatetime]
       [] n \in {4, 7, 11} -> [ok |-> TRUE, v |-> Day]
       [] OTHER -> [ok |-> FALSE, v |-> ZeroDatetime]
(* Only the lowest byte of the days is read, the empty form is the text of *)
(* a date, and a positive time has a byte 0 for its sign.                  *)
FormatBinaryTime(n, b) ==
  CASE n = 0 -> [ok |-> TRUE, v |-> ZeroDate]
    [] n \in {8, 12} ->
         [ok |-> TRUE, v |-> [sign |-> IF b[1] = 1 THEN 45 ELSE 0,
                              h |-> (b[2] * 24 + b[6]) % 65536, mi |-> b[7], s |-> b[8],
                              us |-> IF n = 12 THEN Unsigned(Slice(b, 8, 4)) ELSE 0]]
    [] OTHER -> [ok |-> FALSE, v |-> ZeroDate]

---------------------------------------------------------------------------
(* Rows in text form.                                                      *)

ParseText(f, cell) ==
  CASE cell.null -> Nil
    [] ~cell.null /\ f.type \in IntTypes ->
         Val(IF f.unsigned THEN "uint64" ELSE "int64", cell.v)
    [] ~cell.null /\ f.type \in FloatTypes -> Val("float64", ParseFloat(cell.v))
    [] ~cell.null /\ f.type \in TextTypes -> Val("string", cell.v)
    [] OTHER -> Val("[]byte", cell.v)

\* "NULL" for nil; an integer and its decimal text are one value here.
formatValue(val) == [null |-> FALSE, v |-> IF val = Nil THEN <<78, 85, 76, 76>> ELSE val.v]
formatField(val) ==
  CASE val.go = "int64" -> [type |-> "Longlong", unsigned |-> FALSE]
    [] val.go = "uint64" -> [type |-> "Longlong", unsigned |-> TRUE]
    [] val.go = "float64" -> [type |-> "Double", unsigned |-> FALSE]
    [] val.go \in {"string", "[]byte"} -> [type |-> "VarString", unsigned |-> FALSE]
    [] OTHER -> [type |-> "unsupported", unsigned |-> FALSE]
(* The columns are those given, or come from the values of the first row,  *)
(* so that without a row there are none.                                   *)
BuildResultset(fields, values) ==
  [fields |-> IF values = <<>> THEN <<>>
              ELSE IF fields # <<>> THEN fields
              ELSE [j \in 1..Len(values[1]) |-> formatField(values[1][j])],
   rows |-> [i \in 1..Len(values) |->
              [j \in 1..Len(values[i]) |-> formatValue(values[i][j])]]]

---------------------------------------------------------------------------
(* Rows in binary form.                                                    *)

\* The first of the bytes of a float stands for the number it encodes.
FloatBits(v, w) == <<v>> \o Rep(w - 1, 0)

Encoded(type, val) ==
  LET Temporal ==
        CASE type \in {"Datetime", "Timestamp"} ->
               (IF val.v = ZeroDatetime THEN [ok |-> TRUE, t |-> <<0>>]
                ELSE [ok |-> IsDay(val.v),
                      t |-> <<11>> \o WriteUint16(val.v.y)
                              \o <<val.v.mo, val.v.d, val.v.h, val.v.mi, val.v.s>>
                              \o WriteUint32(val.v.us)])
          [] type = "Date" ->
               [ok |-> TRUE,
                t |-> IF ~IsDay(val.v) THEN <<0>>
                      ELSE <<4>> \o WriteUint16(val.v.y) \o <<val.v.mo, val.v.d>>]
          [] type = "Duration" ->
               [ok |-> TRUE, t |-> mysqlTimeToBinaryResult(stringToMysqlTime(val.v))]
          [] OTHER -> [ok |-> TRUE, t |-> val.v]
  IN CASE val.go \in {"int64", "uint64", "[]byte"} -> [ok |-> TRUE, t |-> val.v]
       [] val.go = "float64" /\ type = "Float" -> [ok |-> TRUE, t |-> FloatBits(val.v, 4)]
       [] val.go = "float64" /\ type = "NewDecimal" -> [ok |-> TRUE, t |-> FormatFloat(val.v)]
       [] val.go = "float64" /\ type \notin {"Float", "NewDecimal"} ->
            [ok |-> TRUE, t |-> FloatBits(val.v, 8)]
       [] OTHER -> Temporal
AppendBinaryValue(data, type, val) ==
  LET e == Encoded(type, val)
      Put(b) == [ok |-> e.ok, data |-> data \o b]
  IN CASE type = "Tiny" -> Put(SubSeq(e.t, 1, 1))
       [] type \in {"Short", "Year"} -> Put(SubSeq(e.t, 1, 2))
       [] type \in {"Float", "Int24", "Long"} -> Put(SubSeq(e.t, 1, 4))
       [] type \in {"Longlong", "Double"} -> Put(SubSeq(e.t, 1, 8))
       [] type \in {"NewDecimal", "JSON", "String", "VarString", "Varchar", "Bit",
                     "TinyBlob", "MediumBlob", "LongBlob", "Blob"} ->
            Put(AppendLenEncStringBytes(<<>>, e.t))
       [] type \in {"Enum", "Set", "Date", "Datetime", "Duration", "Timestamp", "NewDate"} -> Put(e.t)
       [] OTHER -> [ok |-> FALSE, data |-> data]

BitmapLen(n) == (n + 7 + 2) \div 8
BitOf(j) == (j - 1) + 2
NullBitmap(row) ==
  [b \in 1..BitmapLen(Len(row)) |->
     FoldSeq(LAMBDA bit, acc : acc + bit, 0,
             [k \in 1..8 |-> IF \E j \in 1..Len(row) : row[j] = Nil /\ BitOf(j) = (b - 1) * 8 + k - 1
                             THEN 2 ^ (k - 1) ELSE 0])]
BuildBinaryRow(fields, row) ==
  LET body == FoldLeftDomain(
                LAMBDA acc, j :
                  IF row[j] = Nil \/ ~acc.ok THEN acc
                  ELSE AppendBinaryValue(acc.data, fields[j].type, row[j]),
                [ok |-> TRUE, data |-> <<>>], row)
  IN [ok |-> body.ok, data |-> <<0>> \o NullBitmap(row) \o body.data]

SignExtend(b) == b \o Rep(8 - Len(b), IF Last(b) >= 128 THEN 255 ELSE 0)
ZeroExtend(b) == b \o Rep(8 - Len(b), 0)
ReadInt(f, p, pos, w, signed) ==
  LET b == Slice(p, pos, w)
  IN [ok |-> TRUE, pos |-> pos + w,
      val |-> IF f.unsigned THEN Val("uint64", ZeroExtend(b))
              ELSE Val("int64", IF signed THEN SignExtend(b) ELSE ZeroExtend(b))]
ReadTemporal(p, pos, Format(_, _)) ==
  LET num == ReadLenEncInt(p, pos)
      n == num.v[1]
      t == Format(n, From(p, num.pos))
  IN IF num.null THEN [ok |-> TRUE, pos |-> num.pos, val |-> Nil]
     ELSE [ok |-> t.ok, pos |-> num.pos + n, val |-> Val("[]byte", t.v)]
\* A signed TINYINT is read as its unsigned byte.
ReadColumn(f, p, pos) ==
  LET text == ReadLenEncStringAsBytes(p, pos) IN
  CASE f.type = "Null" -> [ok |-> TRUE, pos |-> pos, val |-> Nil]
    [] f.type = "Tiny" -> ReadInt(f, p, pos, 1, FALSE)
    [] f.type \in {"Short", "Year"} -> ReadInt(f, p, pos, 2, TRUE)
    [] f.type \in {"Int24", "Long"} -> ReadInt(f, p, pos, 4, TRUE)
    [] f.type = "Longlong" -> ReadInt(f, p, pos, 8, TRUE)
    [] f.type = "Float" -> [ok |-> TRUE, pos |-> pos + 4, val |-> Val("float64", At(p, pos))]
    [] f.type = "Double" -> [ok |-> TRUE, pos |-> pos + 8, val |-> Val("float64", At(p, pos))]
    [] f.type \in {"Decimal", "NewDecimal", "Varchar", "Bit", "Enum", "Set", "TinyBlob", "MediumBlob",
                   "LongBlob", "Blob", "VarString", "String", "Geometry"} ->
         [ok |-> text.ok, pos |-> text.pos, val |-> IF text.null THEN Nil ELSE Val("[]byte", text.v)]
    [] f.type \in {"Date", "NewDate"} -> ReadTemporal(p, pos, FormatBinaryDate)
    [] f.type \in {"Timestamp", "Datetime"} -> ReadTemporal(p, pos, FormatBinaryDateTime)
    [] f.type = "Duration" -> ReadTemporal(p, pos, FormatBinaryTime)
    [] OTHER -> [ok |-> FALSE, pos |-> pos, val |-> Nil]
(* What a client makes of a column: as ParseBinary, but for the sign of a  *)
(* TINYINT, the fields of a TIME and the types that ParseBinary rejects.   *)
ClientTime(n, b) ==
  [ok |-> n \in {0, 8, 12},
   v |-> IF n = 0 THEN [neg |-> FALSE, h |-> 0, mi |-> 0, s |-> 0, us |-> 0]
         ELSE [neg |-> b[1] = 1, h |-> Unsigned(Slice(b, 1, 4)) * 24 + b[6], mi |-> b[7], s |-> b[8],
               us |-> IF n = 12 THEN Unsigned(Slice(b, 8, 4)) ELSE 0]]
ClientColumn(f, p, pos) ==
  CASE f.type = "Tiny" -> ReadInt(f, p, pos, 1, TRUE)
    [] f.type = "Duration" -> ReadTemporal(p, pos, ClientTime)
    [] f.type = "JSON" -> ReadColumn([f EXCEPT !.type = "Blob"], p, pos)
    [] OTHER -> ReadColumn(f, p, pos)

ReadBinaryRow(fields, p, Column(_, _, _)) ==
  LET IsSet(j) == (p[2 + BitOf(j) \div 8] \div (2 ^ (BitOf(j) % 8))) % 2 = 1
      Step(acc, j) ==
        IF ~acc.ok THEN acc
        ELSE IF IsSet(j) THEN [acc EXCEPT !.vals = Append(@, Nil)]
        ELSE LET c == Column(fields[j], p, acc.pos)
             IN [ok |-> c.ok, pos |-> c.pos, vals |-> Append(acc.vals, c.val)]
  IN FoldLeftDomain(Step, [ok |-> p[1] = OKHeader, pos |-> 1 + BitmapLen(Len(fields)),
                           vals |-> <<>>], fields)
ParseBinary(fields, p) == ReadBinaryRow(fields, p, ReadColumn)
ClientRow(fields, p) == ReadBinaryRow(fields, p, ClientColumn)

---------------------------------------------------------------------------
(* What the client of a prepared statement must see.                       *)

\* The value a cell of a column denotes: a number without trailing zeros.
Denotes(f, cell) ==
  CASE cell.null -> Nil
    [] ~cell.null /\ f.type \in IntTypes -> Val(IF f.unsigned THEN "uint64" ELSE "int64", cell.v)
    [] ~cell.null /\ f.type \in {"Float", "Double"} ->
         Val("float64", [cell.v EXCEPT !.frac = DropZeros(@)])
    [] ~cell.null /\ f.type = "NewDecimal" ->
         Val("[]byte", FormatFloat([cell.v EXCEPT !.frac = DropZeros(@)]))
    [] OTHER -> Val("[]byte", cell.v)
Fits(cell, f) ==
  f.type \in FloatTypes /\ ~cell.null => Len(cell.v.int) + Len(cell.v.frac) <= FloatDigits

(* A row that a backend sent as text reaches the client of a prepared      *)
(* statement with the same values, whatever mixture of NULLs, widths and   *)
(* types it has: every column is found where the previous one ended, the   *)
(* NULL bits are those of the columns, and no value is cut or moved, for   *)
(* numbers that a float64 can hold (mysql/result.go, BuildBinaryResultset, *)
(* AppendBinaryValue).  ParseBinary, the reader of this repository, finds  *)
(* the same row when it has no TIME and no negative TINYINT.               *)
PreparedRowKept(fields, cells) ==
  LET row == [j \in 1..Len(fields) |-> ParseText(fields[j], cells[j])]
      sent == BuildBinaryRow(fields, row)
      want == [j \in 1..Len(fields) |-> Denotes(fields[j], cells[j])]
      seen == ClientRow(fields, sent.data)
  IN (\A j \in 1..Len(fields) : Fits(cells[j], fields[j])) =>
       /\ sent.ok /\ seen.ok /\ seen.vals = want /\ seen.pos = Len(sent.data)
       /\ (\A j \in 1..Len(fields) :
             fields[j].type \notin {"Duration", "JSON"} /\
             (fields[j].type = "Tiny" /\ ~cells[j].null => cells[j].v[8] = 0))
            => ParseBinary(fields, sent.data).vals = want

(* The same row read without the bound on its numbers: a DECIMAL keeps all *)
(* its digits on the way through the proxy.                                *)
DecimalKept(fields, cells) ==
  LET row == [j \in 1..Len(fields) |-> ParseText(fields[j], cells[j])]
  IN ClientRow(fields, BuildBinaryRow(fields, row).data).vals
       = [j \in 1..Len(fields) |-> Denotes(fields[j], cells[j])]

(* A result set that the proxy builds itself is read back with the values  *)
(* it was built from (NULL apart), under the columns derived from them.    *)
BuiltRowKept(fields, cells) ==
  LET all == [j \in 1..Len(fields) |-> ParseText(fields[j], cells[j])]
      row == SelectSeq(all, LAMBDA val : val.go # "nil")
      r == BuildResultset(<<>>, <<row>>)
  IN \A j \in 1..Len(row) :
       LET back == ParseText(r.fields[j], r.rows[1][j])
       IN back.v = row[j].v /\ (row[j].go # "[]byte" => back.go = row[j].go)

=============================================================================
