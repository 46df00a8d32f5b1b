-------------------------------- MODULE Wire --------------------------------
(***************************************************************************)
(* The MySQL protocol as the proxy speaks it on both sides: packet framing *)
(* (mysql/conn.go), the integer and string encodings (mysql/encoding.go),  *)
(* the packets the proxy writes to its clients                             *)
(* (proxy/server/client_conn.go) and the packets it reads from and writes  *)
(* to the backends (backend/direct_connection.go, mysql/field.go).         *)
(*                                                                         *)
(* A byte is a number below 256 and a buffer a sequence of bytes; a        *)
(* position counts from 0 as in the code.  A uint64 is the tuple of its    *)
(* eight bytes, least significant first, so that the thresholds of the     *)
(* length-encoded integer are the real ones.  A writer that computes the   *)
(* length of its buffer first is [len, data]: what it computed and what it *)
(* then wrote.                                                             *)
(***************************************************************************)
EXTENDS Integers, Sequences, SequencesExt

CONSTANTS
  MaxPacketSize,   \* the largest body of one packet (2^24 - 1 in the code)
  SequenceNumbers, \* how many values the packet sequence has (uint8: 256)
  ServerVersion, NativePassword  \* the two texts of the initial handshake

OKHeader == 0
ErrHeader == 255
EOFHeader == 254
LocalInFileHeader == 251
ProtocolVersion == 10
MinProtocolVersion == 10
Def == <<100, 101, 102>>
DefaultMySQLState == <<72, 89, 48, 48, 48>>
Rep(n, b) == [i \in 1..n |-> b]
At(data, pos) == data[pos + 1]
From(data, pos) == SubSeq(data, pos + 1, Len(data))
Slice(data, pos, size) == SubSeq(data, pos + 1, pos + size)

---------------------------------------------------------------------------
(* Integers and strings.                                                   *)

LittleEndian(n, w) == [i \in 1..w |-> (n \div (256 ^ (i - 1))) % 256]
RECURSIVE Unsigned(_)
Unsigned(b) == IF b = <<>> THEN 0 ELSE Head(b) + 256 * Unsigned(Tail(b))
U64(n) == LittleEndian(n, 3) \o Rep(5, 0)
Below(i, w) == \A k \in (w + 1)..8 : i[k] = 0
IsShort(i) == Below(i, 1) /\ i[1] < 251

WriteUint16(n) == LittleEndian(n, 2)
WriteUint32(n) == LittleEndian(n, 4)
WriteUint64(i) == i
AppendUint16(data, n) == data \o WriteUint16(n)
AppendUint32(data, n) == data \o WriteUint32(n)
AppendUint64(data, i) == data \o WriteUint64(i)
WriteZeroes(n) == Rep(n, 0)

LenEncIntSize(i) ==
  CASE IsShort(i) -> 1
    [] ~IsShort(i) /\ Below(i, 2) -> 3
    [] ~Below(i, 2) /\ Below(i, 3) -> 4
    [] OTHER -> 9
WriteLenEncInt(i) ==
  CASE IsShort(i) -> <<i[1]>>
    [] ~IsShort(i) /\ Below(i, 2) -> <<252>> \o SubSeq(i, 1, 2)
    [] ~Below(i, 2) /\ Below(i, 3) -> <<253>> \o SubSeq(i, 1, 3)
    [] OTHER -> <<254>> \o i
AppendLenEncInt(data, i) ==
  data \o (CASE Below(i, 1) /\ i[1] <= 250 -> <<i[1]>>
             [] Below(i, 2) /\ ~(Below(i, 1) /\ i[1] <= 250) -> <<252, i[1], i[2]>>
             [] Below(i, 3) /\ ~Below(i, 2) -> <<253, i[1], i[2], i[3]>>
             [] OTHER -> <<254>> \o i)

LenNullString(s) == Len(s) + 1
WriteNullString(s) == Append(s, 0)
LenEncStringSize(s) == LenEncIntSize(U64(Len(s))) + Len(s)
WriteLenEncString(s) == WriteLenEncInt(U64(Len(s))) \o s
AppendLenEncStringBytes(data, b) == AppendLenEncInt(data, U64(Len(b))) \o b

(* A reader gives [v, pos, ok] and, where the code has it, null; pos is 0  *)
(* when it fails.                                                          *)
Failed(v) == [v |-> v, pos |-> 0, null |-> FALSE, ok |-> FALSE]
Got(v, pos) == [v |-> v, pos |-> pos, null |-> FALSE, ok |-> TRUE]

ReadByte(data, pos) ==
  IF pos >= Len(data) THEN Failed(0) ELSE Got(At(data, pos), pos + 1)
ReadBytes(data, pos, size) ==
  IF pos + size - 1 >= Len(data) THEN Failed(<<>>) ELSE Got(Slice(data, pos, size), pos + size)
ReadNullString(data, pos) ==
  LET ends == { e \in pos..(Len(data) - 1) : At(data, e) = 0 } IN
  IF ends = {} THEN Failed(<<>>)
  ELSE LET e == Min(ends) IN Got(Slice(data, pos, e - pos), e + 1)
ReadUint16(data, pos) ==
  IF pos + 1 >= Len(data) THEN Failed(0) ELSE Got(Unsigned(Slice(data, pos, 2)), pos + 2)
ReadUint32(data, pos) ==
  IF pos + 3 >= Len(data) THEN Failed(0) ELSE Got(Unsigned(Slice(data, pos, 4)), pos + 4)

ReadLenEncInt(data, pos) ==
  LET Wide(w) == IF pos + w >= Len(data) THEN Failed(U64(0))
                 ELSE Got(Slice(data, pos + 1, w) \o Rep(8 - w, 0), pos + w + 1)
  IN CASE pos >= Len(data) -> Failed(U64(0))
       [] pos < Len(data) /\ At(data, pos) = 251 ->
            [Got(U64(0), pos + 1) EXCEPT !.null = TRUE]
       [] pos < Len(data) /\ At(data, pos) = 252 -> Wide(2)
       [] pos < Len(data) /\ At(data, pos) = 253 -> Wide(3)
       [] pos < Len(data) /\ At(data, pos) = 254 -> Wide(8)
       [] OTHER -> Got(U64(At(data, pos)), pos + 1)
ReadLenEncStringAsBytes(data, pos) ==
  LET n == ReadLenEncInt(data, pos)
      size == Unsigned(SubSeq(n.v, 1, 3))
  IN IF ~n.ok \/ n.pos + size - 1 >= Len(data) THEN Failed(<<>>)
     ELSE [v |-> Slice(data, n.pos, size), pos |-> n.pos + size, null |-> n.null, ok |-> TRUE]
skipLenEncString(data, pos) ==
  LET s == ReadLenEncStringAsBytes(data, pos) IN [pos |-> s.pos, ok |-> s.ok]

---------------------------------------------------------------------------
(* Framing.  A connection is the sequence number it expects and the stream *)
(* of packets in front of it; a packet is [seq, body].                     *)

NextSeq(seq) == (seq + 1) % SequenceNumbers

\* Mutant: a body that fills its last packet is not followed by an empty one.
RECURSIVE WritePacketNoEmpty(_, _)
WritePacketNoEmpty(data, seq) ==
  IF Len(data) <= MaxPacketSize THEN <<[seq |-> seq, body |-> data]>>
  ELSE <<[seq |-> seq, body |-> SubSeq(data, 1, MaxPacketSize)]>>
         \o WritePacketNoEmpty(From(data, MaxPacketSize), NextSeq(seq))
RECURSIVE WritePacket(_, _)
WritePacket(data, seq) ==
  IF Len(data) < MaxPacketSize THEN <<[seq |-> seq, body |-> data]>>
  ELSE <<[seq |-> seq, body |-> SubSeq(data, 1, MaxPacketSize)]>>
         \o WritePacket(From(data, MaxPacketSize), NextSeq(seq))

\* readHeaderFrom and the body after it: the sequence must be the expected one.
readOnePacket(c) ==
  IF c.in = <<>> \/ Head(c.in).seq # c.seq THEN [data |-> <<>>, ok |-> FALSE, c |-> c]
  ELSE [data |-> Head(c.in).body, ok |-> TRUE,
        c |-> [seq |-> NextSeq(c.seq), in |-> Tail(c.in)]]

RECURSIVE Continued(_, _)
Continued(data, c) ==
  LET next == readOnePacket(c) IN
  CASE ~next.ok -> [data |-> <<>>, ok |-> FALSE, c |-> next.c]
    [] next.ok /\ Len(next.data) < MaxPacketSize -> [next EXCEPT !.data = data \o @]
    [] OTHER -> Continued(data \o next.data, next.c)
readPacket(c) ==
  LET first == readOnePacket(c) IN
  IF ~first.ok \/ Len(first.data) < MaxPacketSize THEN first
  ELSE Continued(first.data, first.c)
\* With the policy unused: the buffer of a single packet comes from the pool.
ReadEphemeralPacket(c) ==
  LET first == readOnePacket(c) IN
  IF first.ok /\ Len(first.data) >= MaxPacketSize THEN Continued(first.data, first.c) ELSE first
ReadEphemeralPacketDirect(c) ==
  LET first == readOnePacket(c) IN
  IF first.ok /\ Len(first.data) >= MaxPacketSize THEN [first EXCEPT !.ok = FALSE] ELSE first

---------------------------------------------------------------------------
(* OK, ERR and EOF packets.                                                *)

HeaderPacket(header, affected, insertID, flags, warnings) ==
  [len |-> 1 + LenEncIntSize(affected) + LenEncIntSize(insertID) + 2 + 2,
   data |-> <<header>> \o WriteLenEncInt(affected) \o WriteLenEncInt(insertID)
              \o WriteUint16(flags) \o WriteUint16(warnings)]
WriteOKPacket(affected, insertID, flags, warnings) ==
  HeaderPacket(OKHeader, affected, insertID, flags, warnings)
WriteOKPacketWithEOFHeader(affected, insertID, flags, warnings) ==
  HeaderPacket(EOFHeader, affected, insertID, flags, warnings)
WriteErrorPacket(code, state, message) ==
  [len |-> 1 + 2 + 1 + 5 + Len(message),
   data |-> <<ErrHeader>> \o WriteUint16(code) \o <<35>>
              \o (IF state = <<>> THEN DefaultMySQLState ELSE state) \o message]
WriteEOFPacket(flags, warnings) ==
  [len |-> 5, data |-> <<EOFHeader>> \o WriteUint16(warnings) \o WriteUint16(flags)]

isEOFHeader(data) == At(data, 0) = EOFHeader /\ Len(data) < 9
IsErrorPacket(data) == At(data, 0) = ErrHeader
IsOKPacket(data) == At(data, 0) = OKHeader
parseOKHeader(data) ==
  LET affected == ReadLenEncInt(data, 1)
      insertID == ReadLenEncInt(data, affected.pos)
      flags == ReadUint16(data, insertID.pos)
      warnings == ReadUint16(data, flags.pos)
  IN [ok |-> affected.ok /\ insertID.ok /\ flags.ok /\ warnings.ok,
      affected |-> affected.v, insertID |-> insertID.v,
      flags |-> flags.v, warnings |-> warnings.v]
parseEOFHeader(data) ==
  [ok |-> ReadUint16(data, 3).ok, warnings |-> ReadUint16(data, 1).v,
   more |-> (ReadUint16(data, 3).v \div 8) % 2 = 1]
\* The state is skipped: NewError looks it up by the code.
ParseErrorPacket(data) ==
  [code |-> ReadUint16(data, 1).v, message |-> From(data, ReadBytes(data, 4, 5).pos)]

\* The backend connection reads what it needs by position.
isEOFPacket(data) == At(data, 0) = EOFHeader /\ Len(data) <= 5
handleOKPacket(data, protocol41) ==
  LET affected == ReadLenEncInt(data, 1)
      insertID == ReadLenEncInt(data, affected.pos)
  IN [affected |-> affected.v, insertID |-> insertID.v,
      status |-> IF protocol41 THEN ReadUint16(data, insertID.pos).v ELSE 0]
handleErrorPacket(data, protocol41) ==
  [code |-> ReadUint16(data, 1).v,
   state |-> IF protocol41 THEN Slice(data, 4, 5) ELSE <<>>,
   message |-> From(data, IF protocol41 THEN 9 ELSE 3)]

---------------------------------------------------------------------------
(* Column definitions and result sets.                                     *)

writeColumnDefinition(f) ==
  [len |-> 4 + LenEncStringSize(f.schema) + LenEncStringSize(f.table)
             + LenEncStringSize(f.orgTable) + LenEncStringSize(f.name)
             + LenEncStringSize(f.orgName)
             + 1 + 2 + 4 + 1 + 2 + 1 + 2
             + LenEncIntSize(f.defaultLength) + Len(f.default),
   data |-> WriteLenEncString(Def) \o WriteLenEncString(f.schema)
              \o WriteLenEncString(f.table) \o WriteLenEncString(f.orgTable)
              \o WriteLenEncString(f.name) \o WriteLenEncString(f.orgName)
              \o <<12>> \o WriteUint16(f.charset) \o WriteUint32(f.columnLength)
              \o <<f.type>> \o WriteUint16(f.flag) \o <<f.decimal>> \o WriteUint16(0)
              \o WriteLenEncInt(f.defaultLength) \o f.default]

(* Field.Dump of a field that was not parsed from a packet: the default    *)
(* value follows a length of eight bytes, and only when there is one.      *)
Dump(f) ==
  LET names == AppendLenEncStringBytes(AppendLenEncStringBytes(AppendLenEncStringBytes(
                 AppendLenEncStringBytes(AppendLenEncStringBytes(AppendLenEncStringBytes(
                   <<>>, Def), f.schema), f.table), f.orgTable), f.name), f.orgName)
      fixed == AppendUint16(AppendUint32(AppendUint16(Append(names, 12), f.charset),
                                         f.columnLength) \o <<f.type>>, f.flag)
                 \o <<f.decimal, 0, 0>>
  IN IF f.default = <<>> THEN fixed ELSE AppendUint64(fixed, f.defaultLength) \o f.default

ParseField(p) ==
  LET schema == ReadLenEncStringAsBytes(p, skipLenEncString(p, 0).pos)
      table == ReadLenEncStringAsBytes(p, schema.pos)
      orgTable == ReadLenEncStringAsBytes(p, table.pos)
      name == ReadLenEncStringAsBytes(p, orgTable.pos)
      orgName == ReadLenEncStringAsBytes(p, name.pos)
      fixed == orgName.pos + 1
      length == IF Len(p) > fixed + 12 THEN ReadLenEncInt(p, fixed + 12)
                ELSE Got(U64(0), Len(p))
      size == Unsigned(SubSeq(length.v, 1, 3))
  IN IF ~(schema.ok /\ table.ok /\ orgTable.ok /\ name.ok /\ orgName.ok)
        \/ length.pos + size > Len(p)
     THEN [ok |-> FALSE]
     ELSE [ok |-> TRUE,
           field |-> [schema |-> schema.v, table |-> table.v, orgTable |-> orgTable.v,
                      name |-> name.v, orgName |-> orgName.v,
                      charset |-> ReadUint16(p, fixed).v,
                      columnLength |-> ReadUint32(p, fixed + 2).v,
                      type |-> At(p, fixed + 6), flag |-> ReadUint16(p, fixed + 7).v,
                      decimal |-> At(p, fixed + 9),
                      defaultLength |-> length.v, default |-> Slice(p, length.pos, size)]]

\* The bodies written for a result set, each of which becomes a packet.
writeColumnCount(n) == [len |-> LenEncIntSize(U64(n)), data |-> WriteLenEncInt(U64(n))]
writeRow(row) == [len |-> Len(row), data |-> row]
writeFieldList(status, fs) ==
  [i \in 1..Len(fs) |-> writeColumnDefinition(fs[i])] \o <<WriteEOFPacket(status, 0)>>
writeResultset(status, r) ==
  <<writeColumnCount(Len(r.fields))>> \o writeFieldList(status, r.fields)
    \o [i \in 1..Len(r.rows) |-> writeRow(r.rows[i])] \o <<WriteEOFPacket(status, 0)>>
(* A statement with parameters and columns is answered with the parameter  *)
(* definitions only: the function returns after them.                      *)
writePrepareResponse(status, s, param, column) ==
  LET Definitions(n, f) == [i \in 1..n |-> writeColumnDefinition(f)] \o <<WriteEOFPacket(status, 0)>>
  IN <<[len |-> 1 + 4 + 2 + 2 + 1 + 2,
        data |-> <<0>> \o WriteUint32(s.id) \o WriteUint16(s.columns) \o WriteUint16(s.params)
                   \o <<0>> \o WriteUint16(0)]>>
     \o (CASE s.params > 0 -> Definitions(s.params, param)
           [] s.params = 0 /\ s.columns > 0 -> Definitions(s.columns, column)
           [] OTHER -> <<>>)
writeOKResult(status, r) ==
  IF r.set = <<>> THEN <<WriteOKPacket(r.affected, r.insertID, status, 0)>>
  ELSE writeResultset(status, r.set[1])

(* What a backend connection makes of a stream: [kind, ...] and the        *)
(* connection after it.                                                    *)
Malformed(c) == [kind |-> "malformed", c |-> c]
RECURSIVE readUntilEOF(_, _)
readUntilEOF(c, sofar) ==
  LET p == readPacket(c) IN
  CASE ~p.ok -> [kind |-> "broken", c |-> p.c]
    [] p.ok /\ isEOFPacket(p.data) ->
         [kind |-> "eof", seen |-> sofar, status |-> ReadUint16(p.data, 3).v, c |-> p.c]
    [] p.ok /\ IsErrorPacket(p.data) ->
         [kind |-> "error", error |-> handleErrorPacket(p.data, TRUE), c |-> p.c]
    [] OTHER -> readUntilEOF(p.c, Append(sofar, p.data))
readResultColumns(c, count) ==
  LET r == readUntilEOF(c, <<>>) IN
  IF r.kind # "eof" THEN r
  ELSE IF Len(r.seen) # count THEN Malformed(r.c)
  ELSE [r EXCEPT !.seen = [i \in 1..count |-> ParseField(r.seen[i])]]
readResultRows(c) == readUntilEOF(c, <<>>)
readResultset(data, c) ==
  LET count == ReadLenEncInt(data, 0)
      n == Unsigned(SubSeq(count.v, 1, 3))
      cols == readResultColumns(c, n)
      rows == readResultRows(cols.c)
  IN IF count.pos # Len(data) THEN Malformed(c)
     ELSE IF cols.kind # "eof" THEN cols
     ELSE IF rows.kind # "eof" THEN rows
     ELSE [kind |-> "set", status |-> rows.status, c |-> rows.c,
           fields |-> cols.seen, rows |-> rows.seen]
readResult(c) ==
  LET p == readPacket(c) IN
  CASE ~p.ok -> [kind |-> "broken", c |-> p.c]
    [] p.ok /\ At(p.data, 0) = OKHeader ->
         [kind |-> "ok", result |-> handleOKPacket(p.data, TRUE), c |-> p.c]
    [] p.ok /\ At(p.data, 0) = ErrHeader ->
         [kind |-> "error", error |-> handleErrorPacket(p.data, TRUE), c |-> p.c]
    [] p.ok /\ At(p.data, 0) = LocalInFileHeader -> Malformed(p.c)
    [] OTHER -> readResultset(p.data, p.c)
FieldList(c) ==
  LET r == readUntilEOF(c, <<>>) IN
  IF r.kind # "eof" THEN r
  ELSE [r EXCEPT !.seen = [i \in 1..Len(r.seen) |-> ParseField(r.seen[i])]]

---------------------------------------------------------------------------
(* The handshake.  A capability set is a set of flag names; its four bytes *)
(* are the two the code writes apart.                                      *)

Bits == [LongPassword |-> 0, LongFlag |-> 2, ConnectWithDB |-> 3, Protocol41 |-> 9,
         Interactive |-> 10, Transactions |-> 13, SecureConnection |-> 15, PluginAuth |-> 19]
RECURSIVE Mask(_)
Mask(caps) ==
  IF caps = {} THEN 0
  ELSE LET f == CHOOSE f \in caps : TRUE IN 2 ^ Bits[f] + Mask(caps \ {f})
HasFlag(n, f) == (n \div (2 ^ Bits[f])) % 2 = 1
DefaultCapability == {"LongPassword", "LongFlag", "ConnectWithDB", "Protocol41",
                      "Transactions", "SecureConnection", "PluginAuth"}
DefaultCollationID == 46
initClientConnStatus == 2

writeInitialHandshakeV10(connID, salt) ==
  [len |-> 1 + LenNullString(ServerVersion) + 4 + 8 + 1 + 2 + 1 + 2 + 2 + 1 + 10 + 13
             + LenNullString(NativePassword),
   data |-> <<ProtocolVersion>> \o WriteNullString(ServerVersion) \o WriteUint32(connID)
              \o SubSeq(salt, 1, 8) \o <<0>> \o WriteUint16(Mask(DefaultCapability))
              \o <<DefaultCollationID>> \o WriteUint16(initClientConnStatus)
              \o WriteUint16(Mask(DefaultCapability) \div 65536) \o <<21>> \o WriteZeroes(10)
              \o SubSeq(salt, 9, Len(salt)) \o <<0>> \o WriteNullString(NativePassword)]

readInitialHandshake(data) ==
  LET pos == ReadNullString(data, 1).pos + 4
      status == pos + 8 + 1 + 2 + 1
  IN IF At(data, 0) = ErrHeader \/ At(data, 0) < MinProtocolVersion THEN [ok |-> FALSE]
     ELSE [ok |-> TRUE,
           salt |-> Slice(data, pos, 8) \o Slice(data, status + 4 + 10 + 1, 12),
           capability |-> ReadUint16(data, pos + 9).v + 65536 * ReadUint16(data, status + 2).v,
           status |-> ReadUint16(data, status).v]

writeHandshakeResponse41(dc, auth) ==
  LET mine == { f \in {"Protocol41", "SecureConnection", "LongPassword", "Transactions", "LongFlag"} :
                HasFlag(dc.capability, f) }
      caps == mine \cup (IF dc.db # <<>> THEN {"ConnectWithDB"} ELSE {})
  IN [len |-> 4 + 4 + 1 + 23 + LenNullString(dc.user) + 1 + Len(auth)
                + (IF dc.db # <<>> THEN LenNullString(dc.db) ELSE 0),
      data |-> WriteUint32(Mask(caps)) \o WriteZeroes(4) \o <<dc.collation % 256>>
                 \o WriteZeroes(23) \o WriteNullString(dc.user) \o <<Len(auth) % 256>> \o auth
                 \o (IF dc.db # <<>> THEN WriteNullString(dc.db) ELSE <<>>)]

readHandshakeResponse(data) ==
  LET capability == ReadUint32(data, 0)
      collation == ReadByte(data, ReadUint32(data, 4).pos)
      user == ReadNullString(data, collation.pos + 23)
      l == ReadLenEncInt(data, user.pos)
      auth == ReadBytes(data, l.pos, Unsigned(SubSeq(l.v, 1, 3)))
      withDB == HasFlag(capability.v, "ConnectWithDB")
      db == IF withDB THEN ReadNullString(data, auth.pos) ELSE Got(<<>>, auth.pos)
      plugin == IF HasFlag(capability.v, "PluginAuth") THEN ReadNullString(data, db.pos)
                ELSE Got(<<>>, db.pos)
  IN IF ~(/\ capability.ok /\ HasFlag(capability.v, "Protocol41") /\ collation.ok
          /\ user.ok /\ l.ok /\ auth.ok /\ db.ok /\ plugin.ok)
     THEN [ok |-> FALSE]
     ELSE [ok |-> TRUE, user |-> user.v, auth |-> auth.v, db |-> db.v,
           collation |-> collation.v,
           interactive |-> HasFlag(capability.v, "Interactive")]

---------------------------------------------------------------------------
(* Commands to a backend.                                                  *)

ComQuit == 1
ComInitDB == 2
ComQuery == 3
ComFieldList == 4
ComPing == 14
writeComInitDB(db) == [len |-> Len(db) + 1, data |-> <<ComInitDB>> \o db]
writeComQuery(sql) == [len |-> Len(sql) + 1, data |-> <<ComQuery>> \o sql]
writeComFieldList(table, wildcard) ==
  [len |-> 1 + LenNullString(table) + LenNullString(wildcard),
   data |-> <<ComFieldList>> \o WriteNullString(table) \o WriteNullString(wildcard)]

---------------------------------------------------------------------------
(* What the two ends must agree on.                                        *)

RECURSIVE Sent(_, _)
Sent(bodies, seq) ==
  IF bodies = <<>> THEN <<>>
  ELSE LET first == WritePacket(Head(bodies), seq)
       IN first \o Sent(Tail(bodies), NextSeq(Last(first).seq))

(* Whatever the lengths of two consecutive bodies, below, at and above the *)
(* size of a packet, and wherever the sequence number stands, each of the  *)
(* two readers of mysql/conn.go gives them back one after the other, takes *)
(* nothing of the second with the first, and ends with the number the      *)
(* writer would use next.                                                  *)
FramesAgree(b1, b2, seq) ==
  LET sent == Sent(<<b1, b2>>, seq)
      Reads(Read(_)) ==
        LET r1 == Read([seq |-> seq, in |-> sent])
            r2 == Read(r1.c)
        IN /\ r1.ok /\ r1.data = b1
           /\ r2.ok /\ r2.data = b2
           /\ r2.c = [seq |-> NextSeq(Last(sent).seq), in |-> <<>>]
  IN /\ Reads(readPacket) /\ Reads(ReadEphemeralPacket)
     /\ Len(b1) < MaxPacketSize /\ Len(b2) < MaxPacketSize <=> Reads(ReadEphemeralPacketDirect)

FillsBuffer(packets) == \A i \in 1..Len(packets) : packets[i].len = Len(packets[i].data)

(* The answer written to a client fills exactly the buffers whose lengths  *)
(* were computed beforehand, and a backend connection reading such an      *)
(* answer finds the same counts, status, columns and rows and stops at its *)
(* end: a column, a row or a terminator is never taken for another.        *)
ResultPasses(status, r) ==
  LET bodies == writeOKResult(status, r)
      got == readResult([seq |-> 1 % SequenceNumbers,
                         in |-> Sent([i \in 1..Len(bodies) |-> bodies[i].data],
                                     1 % SequenceNumbers)])
  IN /\ FillsBuffer(bodies)
     /\ got.kind \in {"ok", "set"}
     /\ got.c.in = <<>>
     /\ r.set = <<>> =>
          got.kind = "ok" /\ got.result = [affected |-> r.affected, insertID |-> r.insertID,
                                          status |-> status]
     /\ r.set # <<>> =>
          /\ got.kind = "set" /\ got.status = status /\ got.rows = r.set[1].rows
          /\ got.fields = [i \in 1..Len(r.set[1].fields) |->
                             [ok |-> TRUE, field |-> r.set[1].fields[i]]]

(* An error written to a client is read with its code, message and state   *)
(* by a backend connection, and with code and message by the parser of     *)
(* mysql/; the headers of OK and EOF packets are told apart and read back. *)
ErrorPasses(code, state, message) ==
  LET e == WriteErrorPacket(code, state, message)
      got == readResult([seq |-> 0, in |-> Sent(<<e.data>>, 0)])
  IN /\ FillsBuffer(<<e>>)
     /\ got.kind = "error" /\ got.c.in = <<>>
     /\ got.error = [code |-> code, message |-> message,
                     state |-> IF state = <<>> THEN DefaultMySQLState ELSE state]
     /\ ParseErrorPacket(e.data) = [code |-> code, message |-> message]
HeadersPass(affected, insertID, flags, warnings) ==
  LET ok == WriteOKPacket(affected, insertID, flags, warnings)
      okEOF == WriteOKPacketWithEOFHeader(affected, insertID, flags, warnings)
      eof == WriteEOFPacket(flags, warnings)
      read == [ok |-> TRUE, affected |-> affected, insertID |-> insertID, flags |-> flags, warnings |-> warnings]
  IN /\ FillsBuffer(<<ok, okEOF, eof>>)
     /\ IsOKPacket(ok.data) /\ ~IsOKPacket(okEOF.data) /\ isEOFHeader(eof.data) /\ isEOFPacket(eof.data)
     /\ parseOKHeader(ok.data) = read /\ parseOKHeader(okEOF.data) = read
     /\ parseEOFHeader(eof.data) = [ok |-> TRUE, warnings |-> warnings, more |-> (flags \div 8) % 2 = 1]

(* The answer to PREPARE and the commands to a backend fill the buffers    *)
(* made for them, and a field without a default is read as it was dumped.  *)
BuffersFilled(f, params, columns) ==
  LET commands == <<writeComInitDB(f.schema), writeComQuery(f.name), writeComFieldList(f.table, f.name)>>
  IN /\ FillsBuffer(writePrepareResponse(2, [id |-> 1, params |-> params, columns |-> columns], f, f))
     /\ FillsBuffer(commands)
     /\ f.default = <<>> => ParseField(Dump(f)) = [ok |-> TRUE, field |-> f]

(* A backend connection that is answered by the handshake this proxy sends *)
(* sees the whole scramble, and the answer it gives is understood as the   *)
(* same user, scramble, database and collation, whichever of them are      *)
(* empty.                                                                  *)
HandshakePasses(connID, salt, user, auth, db, collation) ==
  LET hello == writeInitialHandshakeV10(connID, salt)
      seen == readInitialHandshake(hello.data)
      answer == writeHandshakeResponse41(
                  [capability |-> seen.capability, user |-> user, db |-> db,
                   collation |-> collation], auth)
      info == readHandshakeResponse(answer.data)
  IN /\ FillsBuffer(<<hello, answer>>)
     /\ seen.ok /\ seen.salt = salt /\ seen.status = initClientConnStatus
     /\ info.ok /\ info.user = user /\ info.auth = auth /\ info.db = db
     /\ info.collation = collation

=============================================================================
