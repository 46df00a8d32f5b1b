------------------------------- MODULE Shards -------------------------------
(***************************************************************************)
(* The sharding functions: from the value of a sharding key to the index   *)
(* of the sub-table that holds its rows (proxy/router/shard.go,            *)
(* shard_mycat.go and numkey.go, with the helpers they take from util).    *)
(*                                                                         *)
(* A key is a record [type, v] for the integer types and [type, text] for  *)
(* strings and byte slices, whose text is the sequence of its characters'  *)
(* codes.  Integers have Width bits where the code has 64, a partition has *)
(* PartitionLength slots where the code has 1024.  A number that the       *)
(* configuration holds as text is the number, or NotANumber when Atoi      *)
(* refuses the text.                                                       *)
(***************************************************************************)
EXTENDS Integers, Sequences, FiniteSets, SequencesExt

CONSTANTS Width, PartitionLength,
          Crc32(_),     \* hash/crc32: some checksum of a text
          Murmur(_, _), \* util/murmur.go: the hash of a text under a seed
          CivilDate(_)  \* time.Unix in the local zone: the <<year, month, day>>

NotANumber == -999

Int64(x) == ((x + 2^(Width - 1)) % 2^Width) - 2^(Width - 1)

Uint64(x) == x % 2^Width

MaxNumKey == 2^(Width - 1) - 1

\* Go's remainder has the sign of the dividend.
Rem(a, b) == IF a >= 0 THEN a % b ELSE -((-a) % b)

Found(i) == [res |-> "found", idx |-> i]

Failed == [res |-> "error", idx |-> -1]

Panics == [res |-> "panic", idx |-> -1]

-----------------------------------------------------------------------------
(* Texts and numbers.                                                      *)

Minus == 45

IsDigit(c) == c \in 48..57

DigitsValue(s) == FoldLeft(LAMBDA n, c : 10 * n + (c - 48), 0, s)

\* strconv.Atoi: an optional sign and digits.
Atoi(s) ==
  LET signed == s # <<>> /\ s[1] = Minus
      d == IF signed THEN Tail(s) ELSE s
  IN  IF d # <<>> /\ \A i \in DOMAIN d : IsDigit(d[i])
      THEN (IF signed THEN -1 ELSE 1) * DigitsValue(d) ELSE NotANumber

\* strconv.ParseInt and ParseUint: numbers within the range of the type.
ParseInt(s) == IF Atoi(s) = Int64(Atoi(s)) THEN Atoi(s) ELSE NotANumber

ParseUint(s) ==
  IF s # <<>> /\ s[1] # Minus /\ Atoi(s) = Uint64(Atoi(s)) THEN Atoi(s) ELSE NotANumber

\* strconv.FormatInt in base ten.
FormatInt(n) ==
  LET a == IF n < 0 THEN -n ELSE n
      k == CHOOSE d \in 1..9 : a < 10^d /\ (d = 1 \/ a >= 10^(d - 1))
      t == [i \in 1..k |-> 48 + ((a \div 10^(k - i)) % 10)]
  IN  IF n < 0 THEN <<Minus>> \o t ELSE t

\* (n ^ (n >> 63)) - (n >> 63): minus the smallest number is that number.
Abs(n) == Int64(IF n < 0 THEN -n ELSE n)

IsText(key) == key.type \in {"string", "bytes"}

GetString(key) == IF IsText(key) THEN key.text ELSE FormatInt(key.v)

\* A byte slice is hashed even when it is a number; a string is not.
HashValue(key) ==
  LET n == IF key.type = "string" THEN ParseUint(key.text) ELSE NotANumber
  IN  CASE ~IsText(key) -> Uint64(key.v)
        [] IsText(key) /\ n # NotANumber -> n
        [] IsText(key) /\ n = NotANumber -> Crc32(key.text)

\* NotANumber: the function panics with a KeyError.
NumValue(key) == IF IsText(key) THEN ParseInt(key.text) ELSE Int64(key.v)

-----------------------------------------------------------------------------
(* FindForKey of the rules this proxy defines itself.                      *)

Modulo(h, n) == IF n = 0 THEN Panics ELSE Found(Rem(h, n))

HashShard(n, key) == Modulo(HashValue(key), n)

ModShard(n, key) ==
  IF NumValue(key) = NotANumber THEN Panics ELSE Modulo(Abs(NumValue(key)), n)

Contains64(r, i) == r.start <= i /\ (r.end = MaxNumKey \/ i < r.end)

\* Ranges of limit rows each; the products wrap around as int does.
ParseNumSharding(tables, limit) ==
  [i \in 1..tables |-> [start |-> Int64((i - 1) * limit), end |-> Int64(i * limit)]]

NumRangeShard(ranges, key) ==
  LET v == NumValue(key)
      in == {i \in DOMAIN ranges : Contains64(ranges[i], v)}
  IN  CASE v = NotANumber -> Panics
        [] v # NotANumber /\ in = {} -> Failed
        [] v # NotANumber /\ in # {} -> Found((CHOOSE i \in in : \A j \in in : i <= j) - 1)

\* The year is cut from the text before its length is looked at.
DateYearShard(key) ==
  IF IsText(key)
  THEN IF key.type = "bytes" THEN Failed
       ELSE IF Len(key.text) < 4 THEN Panics
       ELSE LET y == Atoi(SubSeq(key.text, 1, 4))
            IN  IF y = NotANumber THEN Failed ELSE Found(y)
  ELSE Found(CivilDate(key.v)[1])

DateText(s, upto) == SubSeq(s, 1, 4) \o SubSeq(s, 6, 7) \o (IF upto = "day" THEN SubSeq(s, 9, 10) ELSE <<>>)

DateNumber(d, upto) == IF upto = "day" THEN d[1] * 10000 + d[2] * 100 + d[3] ELSE d[1] * 100 + d[2]

CutDate(key, upto) ==
  IF IsText(key)
  THEN LET n == Atoi(DateText(key.text, upto))
       IN  IF key.type = "bytes" \/ Len(key.text) < 10 \/ n = NotANumber THEN Failed ELSE Found(n)
  ELSE Found(DateNumber(CivilDate(key.v), upto))

DateMonthShard(key) == CutDate(key, "month")

DateDayShard(key) == CutDate(key, "day")

\* The bound of a range key opens a sub-table: rows below it are in earlier ones.
EqualStartRange(ranges, key, i) == ranges[i + 1].start = NumValue(key)

EqualStartYear(key, i) == DateYearShard(key) = Found(i)

EqualStartMonth(key, i) == DateMonthShard(key) = Found(i)

EqualStartDay(key, i) == DateDayShard(key) = Found(i)

DefaultShard == Found(0)

GlobalTableShard == Panics

-----------------------------------------------------------------------------
(* Mycat's partition functions.                                            *)

MycatPartitionModShard(n, key) == ModShard(n, key)

toIntArray(list) == IF \E i \in DOMAIN list : list[i] = NotANumber THEN <<NotANumber>> ELSE list

SumSeq(s) == FoldLeft(LAMBDA a, b : a + b, 0, s)

\* The bounds between the slots of consecutive sub-tables.
SegmentBounds(count, length) ==
  FoldLeftDomain(LAMBDA ai, i : FoldLeft(LAMBDA a, j : Append(a, a[Len(a)] + length[i]),
                                         ai, [j \in 1..count[i] |-> j]),
                 <<0>>, count)

\* Negative counts can add up to shardNum and have more bounds than that.
LongShardError(shardNum, count, length) ==
  CASE \/ NotANumber \in ToSet(count) \cup ToSet(length)
       \/ Len(count) # Len(length)
       \/ SumSeq(count) # shardNum -> "error"
    [] OTHER ->
         LET ai == SegmentBounds(count, length)
         IN  IF Len(ai) # shardNum + 1 THEN "panic"
             ELSE IF ai[Len(ai)] # PartitionLength THEN "error" ELSE ""

\* Init of MycatPartitionLongShard: the segment table.  A negative length
\* makes a bound outside the table.
MycatLongInit(shardNum, countStr, lengthStr) ==
  LET count == toIntArray(countStr)
      length == toIntArray(lengthStr)
      ai == SegmentBounds(count, length)
      err == LongShardError(shardNum, count, length)
      fill(seg, i) == IF i = 1 THEN seg
                      ELSE [j \in 1..PartitionLength |-> IF ai[i - 1] < j /\ j <= ai[i] THEN i - 2 ELSE seg[j]]
  IN  IF err # "" THEN [err |-> err]
      ELSE IF \E i \in 2..Len(ai) : ai[i - 1] < ai[i] /\ (ai[i - 1] < 0 \/ ai[i] > PartitionLength)
      THEN [err |-> "panic"]
      ELSE [err |-> "", segment |-> FoldLeftDomain(fill, [j \in 1..PartitionLength |-> 0], ai)]

\* int(h) & (PartitionLength - 1), for a power of two.
Slot(h) == h % PartitionLength

MycatPartitionLongShard(segment, key) ==
  IF NumValue(key) = NotANumber THEN Panics ELSE Found(segment[Slot(NumValue(key)) + 1])

\* "2" -> (0,2), "1:2" -> (1,2), "-1:" -> (-1,0), ":" -> (0,0); <<>> is an error.
\* A part is a number, NotANumber, or Empty.
Empty == -998

parseHashSliceValue(p) == IF p = Empty THEN 0 ELSE p

parseHashSliceStartEnd(parts) ==
  CASE Len(parts) = 1 /\ parts[1] \notin {NotANumber, Empty} ->
         IF parts[1] >= 0 THEN <<0, parts[1]>> ELSE <<parts[1], 0>>
    [] Len(parts) = 2 /\ NotANumber \notin ToSet(parts) ->
         <<parseHashSliceValue(parts[1]), parseHashSliceValue(parts[2])>>
    [] OTHER -> <<>>

\* h = 31 * h + c, in int64, over the characters start..end - 1.
stringHash(s, start, end) ==
  LET from == IF start < 0 THEN 0 ELSE start
      to == IF end > Len(s) THEN Len(s) ELSE end
  IN  FoldLeft(LAMBDA h, c : Int64(31 * h + c), 0, SubSeq(s, from + 1, to))

MycatPartitionStringShard(segment, hashSlice, key) ==
  LET s == GetString(key)
      start == IF hashSlice[1] >= 0 THEN hashSlice[1] ELSE Len(s) + hashSlice[1]
      end == IF hashSlice[2] > 0 THEN hashSlice[2] ELSE Len(s) + hashSlice[2]
  IN  Found(segment[Slot(stringHash(s, start, end)) + 1])

\* The consistent-hashing ring: bucket n of shard i hashes the text
\* SHARD-i-NODE-0-...-NODE-n; a later bucket with the same hash replaces
\* the earlier one.  Every weight is 1: the weight file is not implemented.
generateBucketMap(seed, times, count) ==
  LET nodes == [k \in 1..(count * times) |-> <<(k - 1) \div times, (k - 1) % times>>]
      put(m, k) == LET h == Murmur(seed, nodes[k])
                   IN  [x \in DOMAIN m \cup {h} |-> IF x = h THEN nodes[k][1] ELSE m[x]]
  IN  FoldLeftDomain(put, <<>>, nodes)

MycatPartitionMurmurHashShard(ring, seed, key) ==
  LET h == Murmur(seed, GetString(key))
      above == {x \in DOMAIN ring : x >= h}
      least(S) == CHOOSE x \in S : \A y \in S : x <= y
  IN  CASE DOMAIN ring = {} -> Failed
        [] DOMAIN ring # {} /\ above # {} -> Found(ring[least(above)])
        [] DOMAIN ring # {} /\ above = {} -> Found(ring[least(DOMAIN ring)])

PadLeft(s, n) == [i \in 1..(n - Len(s)) |-> 48] \o s

PadRight(s, n) == s \o [i \in 1..(n - Len(s)) |-> 48]

\* checkParam of MycatPartitionPaddingModShard.
PaddingModOK(p, mod) ==
  /\ NotANumber \notin {p.padFrom, p.padLength, p.modBegin, p.modEnd}
  /\ p.padFrom \in {0, 1}
  /\ mod >= 2
  /\ p.modBegin >= 0 /\ p.modBegin < p.modEnd
  /\ p.padLength > 0
  /\ p.padLength >= p.modEnd - p.modBegin

\* The slice of the padded key is cut without looking at the pad length.
MycatPartitionPaddingModShard(p, mod, key) ==
  LET h == NumValue(key)
      s == FormatInt(h)
      padded == CASE Len(s) > p.padLength -> SubSeq(s, 1, p.padLength)
                  [] Len(s) <= p.padLength /\ p.padFrom = 0 -> PadLeft(s, p.padLength)
                  [] Len(s) <= p.padLength /\ p.padFrom = 1 -> PadRight(s, p.padLength)
      v == ParseInt(SubSeq(padded, p.modBegin + 1, p.modEnd))
  IN  CASE h = NotANumber -> Panics
        [] h # NotANumber /\ Len(s) <= p.padLength /\ p.padFrom = 0 /\ h < 0 -> Failed
        [] h # NotANumber /\ ~(Len(s) <= p.padLength /\ p.padFrom = 0 /\ h < 0) ->
             IF p.modEnd > p.padLength THEN Panics
             ELSE IF v = NotANumber THEN Failed
             ELSE Found(Rem(Abs(v), mod))
=============================================================================
