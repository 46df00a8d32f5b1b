------------------------------- MODULE Decimal -------------------------------
(***************************************************************************)
(* Decimal numbers (parser/tidb-types/mydecimal.go).  The parser reads a   *)
(* literal such as 12.50 into a MyDecimal (toDecimal, NewDecimal), and a   *)
(* plan that prints the statement again prints it with String.             *)
(*                                                                         *)
(* A number is [int, frac, res, neg, buf]: its digits before and after the *)
(* point, the digits to print after it, its sign, and wordBuf, in which a  *)
(* word holds digitsPerWord digits; the words before the point end at it,  *)
(* those after it begin there.  A text is [neg, int, frac, exp]: its       *)
(* digits, and its exponent if it has one.  Errors are texts, "" is none.  *)
(***************************************************************************)
EXTENDS Integers, Sequences, FiniteSets, FiniteSetsExt

CONSTANTS digitsPerWord,  \* 9 in the code
          wordBufLen      \* 9 in the code

Words == 0..(wordBufLen - 1)
wordBase == 10^digitsPerWord
digMask == 10^(digitsPerWord - 1)
MaxExponent == 1073741823

AtLeast0(n) == IF n < 0 THEN 0 ELSE n
Greater(a, b) == IF a < b THEN b ELSE a
Lesser(a, b) == IF a < b THEN a ELSE b
Quotient(a, b) == IF a < 0 THEN -((-a) \div b) ELSE a \div b

zeroMyDecimal == [int |-> 0, frac |-> 0, res |-> 0, neg |-> FALSE, buf |-> [k \in Words |-> 0]]

Result(d, err) == [d |-> d, err |-> err]

-----------------------------------------------------------------------------
(* Digits and words.                                                       *)

digitsToWords(digits) == (digits + digitsPerWord - 1) \div digitsPerWord

\* The words of a result, cut to the buffer.
fixWordCntError(i, f) ==
  CASE i + f <= wordBufLen -> [int |-> i, frac |-> f, err |-> ""]
    [] i > wordBufLen -> [int |-> wordBufLen, frac |-> 0, err |-> "overflow"]
    [] OTHER -> [int |-> i, frac |-> wordBufLen - i, err |-> "truncated"]

countLeadingZeroes(i, word) ==
  CHOOSE n \in 0..i : word >= 10^(i - n) /\ \A m \in 0..(n - 1) : word < 10^(i - m)

countTrailingZeroes(i, word) ==
  CHOOSE n \in 0..digitsPerWord : (word % 10^(i + n)) # 0 /\ \A m \in 0..(n - 1) : (word % 10^(i + m)) = 0

\* Where the digits before the point begin, and how many they are.
removeLeadingZeros(d) ==
  LET words == digitsToWords(d.int)
      used == {k \in 0..(words - 1) : d.buf[k] # 0}
      first == Min(used)
      left == IF first = 0 THEN d.int ELSE (words - first) * digitsPerWord
  IN  IF used = {} THEN [word |-> words, int |-> 0]
      ELSE [word |-> first, int |-> left - countLeadingZeroes((left - 1) % digitsPerWord, d.buf[first])]

FracDigit(word, j) == (word \div 10^(digitsPerWord - 1 - (j % digitsPerWord))) % 10

ToString(d) ==
  LET r == removeLeadingZeros(d)
      none == r.int + d.frac = 0
      n == IF none THEN 1 ELSE r.int
      point == (IF none THEN 0 ELSE r.word) + digitsToWords(n)
      intDigit(j) == (d.buf[point - 1 - (j \div digitsPerWord)] \div 10^(j % digitsPerWord)) % 10
  IN  [neg |-> d.neg,
       int |-> IF n = 0 THEN <<0>> ELSE [i \in 1..n |-> intDigit(n - i)],
       frac |-> [i \in 1..d.frac |-> FracDigit(d.buf[point + ((i - 1) \div digitsPerWord)], i - 1)]]

\* The largest number: all digits before the point.
maxDecimal(neg) ==
  [zeroMyDecimal EXCEPT !.int = wordBufLen * digitsPerWord, !.neg = neg, !.buf = [k \in Words |-> wordBase - 1]]

-----------------------------------------------------------------------------
(* Rounding, in place.                                                     *)

Increments(mode, word) == mode = "halfEven" /\ word \div digMask >= 5

\* What is left when nothing is: 0 with frac digits.
ZeroWith(d, frac, words) ==
  [d EXCEPT !.int = 1, !.frac = AtLeast0(frac), !.res = AtLeast0(frac), !.neg = FALSE,
            !.buf = [k \in Words |-> IF k <= words THEN 0 ELSE @[k]]]

\* The carry out of the word at: it goes up to the first word that is not
\* full; from the first of all it makes a new word, for which the others move.
HandleCarry(d, at, wordsInt, wordsFracTo, frac, err) ==
  LET full == [d.buf EXCEPT ![at] = @ - wordBase]
      stop == {k \in 0..(at - 1) : full[k] < wordBase - 1}
      top == Max(stop)
      carried == [k \in Words |-> CASE stop # {} /\ k = top -> full[k] + 1
                                    [] (stop = {} \/ k > top) /\ k < at -> 0
                                    [] OTHER -> full[k]]
      noRoom == wordsInt + wordsFracTo >= wordBufLen
      words == IF noRoom THEN wordsFracTo - 1 ELSE wordsFracTo
      last == wordsInt + AtLeast0(words)
      moved == [k \in Words |-> CASE k = 0 -> 1 [] k \in 1..last -> carried[k - 1] [] OTHER -> carried[k]]
  IN  IF stop # {} THEN [d |-> [d EXCEPT !.buf = carried], at |-> top, frac |-> frac, err |-> err]
      ELSE [d |-> [d EXCEPT !.buf = moved, !.int = IF @ < digitsPerWord * wordBufLen THEN @ + 1 ELSE @],
            at |-> 0, frac |-> IF noRoom THEN words * digitsPerWord ELSE frac,
            err |-> IF last >= wordBufLen \/ d.int >= digitsPerWord * wordBufLen THEN "overflow"
                    ELSE IF noRoom THEN "truncated" ELSE err]

Round(d, fracWanted, mode) ==
  LET wordsWanted == IF fracWanted > 0 THEN digitsToWords(fracWanted) ELSE Quotient(fracWanted + 1, digitsPerWord)
      wordsFrac == digitsToWords(d.frac)
      wordsInt == digitsToWords(d.int)
      cut == wordsInt + wordsWanted > wordBufLen
      wordsFracTo == IF cut THEN wordBufLen - wordsInt ELSE wordsWanted
      frac == IF cut THEN wordsFracTo * digitsPerWord ELSE fracWanted
      err == IF cut THEN "truncated" ELSE ""
      low == wordsInt + wordsFracTo - 1
      atWord == frac = wordsFracTo * digitsPerWord
      inc == atWord /\ Increments(mode, d.buf[low + 1])
      to == IF low < 0 THEN 0 ELSE low
      pos == wordsFracTo * digitsPerWord - frac - 1
      shifted == d.buf[to] \div 10^pos
      digit == shifted % 10
      up == digit > 5 \/ digit = 5
      rounded == IF atWord THEN (IF ~inc THEN d.buf[to] ELSE IF low < 0 THEN wordBase ELSE d.buf[to] + 1)
                 ELSE 10^pos * (shifted - digit + (IF up /\ mode = "halfEven" THEN 10 ELSE 0))
      clear == IF frac = 0 /\ wordsInt = 0 THEN 1 ELSE wordsInt + wordsFracTo
      buf == [k \in Words |-> IF k = to THEN rounded
                              ELSE IF wordsFracTo < wordsFrac /\ k >= clear THEN 0 ELSE d.buf[k]]
      inPlace == [d EXCEPT !.buf = buf]
      used == {k \in 0..to : buf[k] # 0}
      c == IF rounded >= wordBase THEN HandleCarry(inPlace, to, wordsInt, wordsFracTo, frac, err)
           ELSE [d |-> inPlace, at |-> Max(used), frac |-> frac, err |-> err]
      firstDig == c.d.int % digitsPerWord
      grows == firstDig > 0 /\ c.d.buf[c.at] >= 10^firstDig
  IN  IF d.int + frac < 0 THEN Result(zeroMyDecimal, "")
      ELSE IF wordsFracTo > wordsFrac
      THEN Result([d EXCEPT !.frac = frac, !.res = frac,
                            !.buf = [k \in Words |-> IF k \in (wordsInt + wordsFrac)..low THEN 0 ELSE @[k]]], err)
      ELSE IF frac >= d.frac THEN Result([d EXCEPT !.frac = frac, !.res = frac], err)
      ELSE IF atWord /\ ~inc /\ low = -1 THEN Result(zeroMyDecimal, "")
      ELSE IF rounded < wordBase /\ used = {} THEN Result(ZeroWith(inPlace, frac, wordsFracTo), "")
      ELSE Result([c.d EXCEPT !.int = IF grows THEN @ + 1 ELSE @, !.frac = AtLeast0(c.frac), !.res = AtLeast0(c.frac)],
                  c.err)

String(d) == ToString(Round(d, d.res, "halfEven").d)

-----------------------------------------------------------------------------
(* Multiplication by a power of ten.  Digits are counted from the first of *)
(* the buffer.                                                             *)

\* The first digit that is not 0, and the one after the last.
digitBounds(d) ==
  LET len == digitsToWords(d.int) + digitsToWords(d.frac)
      used == {k \in 0..(len - 1) : d.buf[k] # 0}
      beg == Min(used)
      end == Max(used)
      inFirst == beg = 0 /\ d.int > 0
      i == IF inFirst THEN (d.int - 1) % digitsPerWord ELSE digitsPerWord - 1
      start == IF inFirst THEN digitsPerWord - i - 1 ELSE beg * digitsPerWord
      inLast == end = len - 1 /\ d.frac > 0
      n == IF inLast THEN ((d.frac - 1) % digitsPerWord) + 1 ELSE digitsPerWord
  IN  IF used = {} THEN [beg |-> 0, end |-> 0]
      ELSE [beg |-> start + countLeadingZeroes(i, d.buf[beg]),
            end |-> end * digitsPerWord + n - countTrailingZeroes(digitsPerWord - n + 1, d.buf[end])]

doMiniLeftShift(buf, shift, beg, end) ==
  LET from == beg \div digitsPerWord
      to == (end - 1) \div digitsPerWord
      c == digitsPerWord - shift
  IN  [k \in Words |->
        CASE k = from - 1 /\ (beg % digitsPerWord) < shift -> buf[from] \div 10^c
          [] k \in from..(to - 1) -> (buf[k] % 10^c) * 10^shift + (buf[k + 1] \div 10^c)
          [] k = to -> (buf[k] % 10^c) * 10^shift
          [] OTHER -> buf[k]]

doMiniRightShift(buf, shift, beg, end) ==
  LET from == (end - 1) \div digitsPerWord
      to == beg \div digitsPerWord
      c == digitsPerWord - shift
      spills == digitsPerWord - (((end - 1) % digitsPerWord) + 1) < shift
  IN  [k \in Words |->
        CASE k = from + 1 /\ spills -> (buf[from] % 10^shift) * 10^c
          [] k \in (to + 1)..from -> (buf[k] \div 10^shift) + (buf[k - 1] % 10^shift) * 10^c
          [] k = to -> buf[k] \div 10^shift
          [] OTHER -> buf[k]]

\* Moves the words used, those of the digits beg..(end - 1), by n words; the
\* words they leave are zeros.
MoveWords(buf, n, beg, end) ==
  LET first == beg \div digitsPerWord
      last == (end - 1) \div digitsPerWord
      left == IF n < 0 THEN (last + n + 1)..last ELSE first..(first + n - 1)
  IN  [k \in Words |-> IF (k - n) \in first..last THEN buf[k - n] ELSE IF k \in left THEN 0 ELSE buf[k]]

\* The words between the digits and the point are zeros.
FillGaps(buf, beg, end, point) ==
  LET first == beg \div digitsPerWord
      last == (end - 1) \div digitsPerWord
      at == IF point = 0 THEN 0 ELSE Quotient(point - 1, digitsPerWord)
  IN  [k \in Words |-> IF k \in (last + 1)..at \/ (at <= last /\ k \in at..(first - 1)) THEN 0 ELSE buf[k]]

\* Shift, once the fraction is cut to what the buffer takes: the digits are
\* aligned in their words, then the words are moved.
ShiftDigits(d, shift, beg, end, newPoint, digitsInt, digitsFrac) ==
  LET aligned == (IF shift < 0 THEN -shift ELSE shift) % digitsPerWord
      left == IF shift > 0 THEN aligned ELSE digitsPerWord - aligned
      right == digitsPerWord - left
      doLeft == IF shift > 0 THEN left <= beg ELSE digitsPerWord * wordBufLen - end < right
      mini == IF aligned = 0 THEN 0 ELSE IF doLeft THEN -left ELSE right
      buf == IF aligned = 0 THEN d.buf
             ELSE IF doLeft THEN doMiniLeftShift(d.buf, left, beg, end) ELSE doMiniRightShift(d.buf, right, beg, end)
      front == newPoint + mini - digitsInt
      words == IF front >= digitsPerWord THEN -(front \div digitsPerWord)
               ELSE IF front < 0 THEN (1 - front) \div digitsPerWord ELSE 0
      by == mini + words * digitsPerWord
      done == aligned # 0 /\ shift + mini = 0 /\ front < digitsPerWord
  IN  [d EXCEPT !.int = digitsInt, !.frac = digitsFrac,
                !.buf = IF done THEN buf
                        ELSE FillGaps(MoveWords(buf, words, beg + mini, end + mini), beg + by, end + by, newPoint + by)]

Shift(d, shift) ==
  LET point == digitsToWords(d.int) * digitsPerWord
      newPoint == point + shift
      b == digitBounds(d)
      digitsInt == AtLeast0(newPoint - b.beg)
      digitsFrac == AtLeast0(b.end - newPoint)
      wordsFrac == digitsToWords(digitsFrac)
      lack == digitsToWords(digitsInt) + wordsFrac - wordBufLen
      fracTo == (wordsFrac - lack) * digitsPerWord
      diff == digitsFrac - fracTo
      r == Round(d, b.end - point - diff, "halfEven")
  IN  IF shift = 0 THEN Result(d, "")
      ELSE IF b.beg = b.end THEN Result(zeroMyDecimal, "")
      ELSE IF lack <= 0 THEN Result(ShiftDigits(d, shift, b.beg, b.end, newPoint, digitsInt, digitsFrac), "")
      ELSE IF wordsFrac < lack THEN Result(d, "overflow")
      ELSE IF r.err # "" THEN Result(r.d, "traced")
      ELSE IF b.end - diff <= b.beg THEN Result(zeroMyDecimal, "truncated")
      ELSE Result(ShiftDigits(r.d, shift, b.beg, b.end - diff, newPoint, digitsInt, fracTo), "truncated")

-----------------------------------------------------------------------------
(* Reading a text.                                                         *)

SumOver(S, f(_)) == FoldSet(LAMBDA x, acc : f(x) + acc, 0, S)

FromString(t) ==
  LET fixed == fixWordCntError(digitsToWords(Len(t.int)), digitsToWords(Len(t.frac)))
      fracs == IF fixed.err = "" THEN Len(t.frac) ELSE fixed.frac * digitsPerWord
      ints == IF fixed.err = "overflow" THEN fixed.int * digitsPerWord ELSE Len(t.int)
      intWord(m) == SumOver({j \in 0..(digitsPerWord - 1) : m * digitsPerWord + j < ints},
                            LAMBDA j : t.int[Len(t.int) - m * digitsPerWord - j] * 10^j)
      fracWord(m) == SumOver({j \in 0..(digitsPerWord - 1) : m * digitsPerWord + j < fracs},
                             LAMBDA j : t.frac[m * digitsPerWord + j + 1] * 10^(digitsPerWord - 1 - j))
      read == [int |-> ints, frac |-> fracs, res |-> 0, neg |-> t.neg,
               buf |-> [k \in Words |-> IF k < fixed.int THEN intWord(fixed.int - 1 - k)
                                        ELSE IF k < fixed.int + fixed.frac THEN fracWord(k - fixed.int) ELSE 0]]
      exponent == t.exp[1]
      s == Shift(read, exponent)
      r == CASE t.exp = <<>> \/ (fixed.err = "overflow" /\ exponent <= MaxExponent) -> Result(read, fixed.err)
             [] t.exp # <<>> /\ exponent > MaxExponent -> Result(maxDecimal(t.neg), "overflow")
             [] t.exp # <<>> /\ exponent < -MaxExponent - 1 -> Result(zeroMyDecimal, "truncated")
             [] OTHER -> IF s.err = "overflow" THEN Result(maxDecimal(t.neg), s.err)
                         ELSE Result(s.d, IF s.err = "" THEN fixed.err ELSE s.err)
      allZero == \A k \in Words : r.d.buf[k] = 0
  IN  IF Len(t.int) + Len(t.frac) = 0 THEN Result(zeroMyDecimal, "badnumber")
      ELSE Result([r.d EXCEPT !.neg = ~allZero /\ @, !.res = r.d.frac], r.err)

\* A literal of a statement: one that does not fit is an error of the parse.
toDecimal(t) == LET r == FromString(t) IN IF r.err = "" THEN <<r.d>> ELSE <<>>

-----------------------------------------------------------------------------
(* Sums and comparison.  Words are counted from the point: the first after *)
(* it is word 0, the last before it is word -1.                            *)

WordAt(d, k) ==
  IF k \in (-digitsToWords(d.int))..(digitsToWords(d.frac) - 1) THEN d.buf[digitsToWords(d.int) + k] ELSE 0

\* The words before the point, without the leading zeros.
SignificantWords(d) ==
  Max({0} \cup {n \in 1..digitsToWords(d.int) : WordAt(d, -n) # 0})

\* The carry that word k takes from those after it, of which last is the last.
RECURSIVE AddCarry(_, _, _, _)
AddCarry(d1, d2, k, last) ==
  IF k >= last THEN 0
  ELSE IF WordAt(d1, k + 1) + WordAt(d2, k + 1) + AddCarry(d1, d2, k + 1, last) >= wordBase THEN 1 ELSE 0

RECURSIVE SubCarry(_, _, _, _)
SubCarry(d1, d2, k, last) ==
  IF k >= last THEN 0
  ELSE IF WordAt(d1, k + 1) - WordAt(d2, k + 1) - SubCarry(d1, d2, k + 1, last) < 0 THEN 1 ELSE 0

\* Mutant: no carry from the words the result does not keep, nor from others.
NoCarry(d1, d2, k, last) == (WordAt(d1, k) + WordAt(d2, k)) % wordBase

AddWord(d1, d2, k, last) == (WordAt(d1, k) + WordAt(d2, k) + AddCarry(d1, d2, k, last)) % wordBase

SubWord(d1, d2, k, last) == (WordAt(d1, k) - WordAt(d2, k) - SubCarry(d1, d2, k, last)) % wordBase

\* -1, 0 or 1: which of the two is the larger, whatever their signs.
CompareWords(d1, d2) ==
  LET apart == {k \in (-wordBufLen)..wordBufLen : WordAt(d1, k) # WordAt(d2, k)}
      k == Min(apart)
  IN  IF apart = {} THEN 0 ELSE IF WordAt(d1, k) < WordAt(d2, k) THEN -1 ELSE 1

\* The difference of two numbers of one sign.
doSub(from1, from2) ==
  LET swap == CompareWords(from1, from2) = -1
      d1 == IF swap THEN from2 ELSE from1
      d2 == IF swap THEN from1 ELSE from2
      fixed == fixWordCntError(SignificantWords(d1), Greater(digitsToWords(d1.frac), digitsToWords(d2.frac)))
      frac == Greater(d1.frac, d2.frac)
      to == [int |-> fixed.int * digitsPerWord,
             frac |-> IF fixed.err = "" THEN frac ELSE Lesser(frac, fixed.frac * digitsPerWord),
             res |-> 0, neg |-> from1.neg # swap,
             buf |-> [k \in Words |-> IF k < fixed.int + fixed.frac
                                      THEN SubWord(d1, d2, k - fixed.int, fixed.frac - 1) ELSE 0]]
  IN  IF CompareWords(from1, from2) = 0 THEN Result(zeroMyDecimal, "") ELSE Result(to, fixed.err)

\* The sum of two numbers of one sign.  There is a word more when the first
\* words may make a carry.
doAdd(from1, from2) ==
  LET wordsInt1 == digitsToWords(from1.int)
      wordsInt2 == digitsToWords(from2.int)
      first == CASE wordsInt1 > wordsInt2 -> from1.buf[0]
                 [] wordsInt2 > wordsInt1 -> from2.buf[0]
                 [] OTHER -> from1.buf[0] + from2.buf[0]
      ints == Greater(wordsInt1, wordsInt2) + (IF first > wordBase - 2 THEN 1 ELSE 0)
      fixed == fixWordCntError(ints, Greater(digitsToWords(from1.frac), digitsToWords(from2.frac)))
      frac == Greater(from1.frac, from2.frac)
      to == [int |-> fixed.int * digitsPerWord,
             frac |-> IF fixed.err = "" THEN frac ELSE Lesser(frac, fixed.frac * digitsPerWord),
             res |-> 0, neg |-> from1.neg,
             buf |-> [k \in Words |-> IF k < fixed.int + fixed.frac
                                      THEN AddWord(from1, from2, k - fixed.int, fixed.frac - 1) ELSE 0]]
  IN  IF fixed.err = "overflow" THEN Result(maxDecimal(FALSE), fixed.err) ELSE Result(to, fixed.err)

\* The digits to print are those of the longer of the two, except in the zero
\* of two equal numbers, which has none.
WithResultFrac(r, from1, from2) ==
  IF r.d = zeroMyDecimal THEN r ELSE [r EXCEPT !.d.res = Greater(from1.res, from2.res)]

DecimalAdd(from1, from2) ==
  WithResultFrac(IF from1.neg = from2.neg THEN doAdd(from1, from2) ELSE doSub(from1, from2), from1, from2)

DecimalSub(from1, from2) ==
  WithResultFrac(IF from1.neg = from2.neg THEN doSub(from1, from2) ELSE doAdd(from1, from2), from1, from2)

Compare(d, to) ==
  IF d.neg # to.neg THEN (IF d.neg THEN -1 ELSE 1)
  ELSE IF d.neg THEN -CompareWords(d, to) ELSE CompareWords(d, to)

-----------------------------------------------------------------------------
(* Properties.                                                             *)

\* The digits of a text with its point moved by its exponent, and without the
\* zeros that say nothing.
Plain(t, exp) ==
  LET digits == t.int \o t.frac
      point == Len(t.int) + exp
      nonzero == {i \in 1..Len(digits) : digits[i] # 0}
  IN  [neg |-> t.neg /\ nonzero # {}, digits |-> {<<point - i, digits[i]>> : i \in nonzero}]

\* A decimal literal the parser accepts is printed, in the statement sent to a
\* server, with the value it was written with (toDecimal, then String).
LiteralKept(t) ==
  toDecimal(t) # <<>> => Plain(String(toDecimal(t)[1]), 0) = Plain(t, IF t.exp = <<>> THEN 0 ELSE t.exp[1])

\* A text as an integer, in units of the digit scale after the point.
Scaled(t, scale) ==
  LET n == SumOver(DOMAIN t.int, LAMBDA i : t.int[i] * 10^(Len(t.int) - i + scale))
             + SumOver(1..Lesser(scale, Len(t.frac)), LAMBDA i : t.frac[i] * 10^(scale - i))
  IN  IF t.neg THEN -n ELSE n

\* Rounded to a number of digits, a number is the nearest with so many, and of
\* two the one further from zero; truncated, it is the part of it with so many
\* digits (Round).
RoundNearest(t, frac, mode) ==
  LET r == Round(toDecimal(t)[1], frac, mode)
      scale == Greater(Len(t.frac), frac)
      unit == 10^(scale - frac)
      n == Scaled([t EXCEPT !.neg = FALSE], scale)
      nearest == IF mode = "halfEven" THEN ((n + (unit \div 2)) \div unit) * unit ELSE (n \div unit) * unit
  IN  toDecimal(t) # <<>> /\ r.err = "" =>
        Scaled(ToString(r.d), scale) = (IF t.neg THEN -nearest ELSE nearest)

\* A sum or difference that reports no error is exact, and two numbers compare
\* as their values do (DecimalAdd, DecimalSub, Compare).
SumExact(t1, t2, scale) ==
  LET d1 == toDecimal(t1)[1]
      d2 == toDecimal(t2)[1]
      n1 == Scaled(t1, scale)
      n2 == Scaled(t2, scale)
      add == DecimalAdd(d1, d2)
      sub == DecimalSub(d1, d2)
  IN  toDecimal(t1) # <<>> /\ toDecimal(t2) # <<>> =>
        /\ add.err = "" => Scaled(ToString(add.d), scale) = n1 + n2
        /\ sub.err = "" => Scaled(ToString(sub.d), scale) = n1 - n2
        /\ Compare(d1, d2) = (IF n1 < n2 THEN -1 ELSE IF n1 > n2 THEN 1 ELSE 0)

=============================================================================
