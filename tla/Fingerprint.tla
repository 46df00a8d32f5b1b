----------------------------- MODULE Fingerprint -----------------------------
(***************************************************************************)
(* GetFingerprint (mysql/sql_fingerprint.go): one pass over a query that   *)
(* replaces its values by ? and drops comments and spaces.  The blacklist  *)
(* of a namespace and the slow and error statistics are keyed by it.       *)
(*                                                                         *)
(* A query is a sequence of character codes.  The pass is a fold of Step   *)
(* over the positions of the query; st holds the local variables of the    *)
(* function, with the buffer as the sequence f of what has been written    *)
(* (fi is its length).  go is FALSE once a position has been dealt with    *)
(* ("continue"), out is the outcome of a pass that ends early.             *)
(* ReplaceNumbersInWords is FALSE, as it is where the proxy calls it.      *)
(***************************************************************************)
EXTENDS Integers, Sequences, SequencesExt, Folds

Digit(r) == r \in 48..57
Lower(r) == IF r \in 65..90 THEN r + 32 ELSE r
LowerCase(text) == [i \in 1..Len(text) |-> Lower(text[i])]
isSpace(r) == r \in {32, 9, 13, 10}
Quote == {39, 34}             \* ' and "
Compare == {61, 60, 62, 33}   \* = < > !
LF == 10
SpaceChar == 32
Bang == 33
Hash == 35
Open == 40
Shut == 41
Star == 42
Plus == 43
Comma == 44
Dash == 45
Dot == 46
Slash == 47
Colon == 58
Ask == 63
Backslash == 92

use == <<117, 115, 101>>
null == <<110, 117, 108, 108>>
is == <<105, 115>>
not == <<110, 111, 116>>
order == <<111, 114, 100, 101, 114>>
by == <<98, 121>>
asc == <<97, 115, 99>>
key == <<107, 101, 121>>
update == <<117, 112, 100, 97, 116, 101>>
call == <<99, 97, 108, 108>>
in == <<105, 110>>
value == <<118, 97, 108, 117, 101>>
values == value \o <<115>>
administrator == <<97, 100, 109, 105, 110, 105, 115, 116, 114, 97, 116, 111, 114>>
ListWords == {in, value, values}

Sub(q, from, to) == SubSeq(q, from + 1, to)     \* q[from:to]
Last1(text) == text[Len(text)]

Start ==
  [s |-> "unknown", sql |-> "unknown", f |-> <<>>, top |-> 0, prevWord |-> <<>>,
   pr |-> 0, quote |-> 0, from |-> 0, to |-> 0, addSpace |-> FALSE, escape |-> FALSE,
   par |-> 0, parTotal |-> 0, valueNo |-> 0, firstPar |-> 0, go |-> TRUE, out |-> "none"]

\* top is how far the pass has written into its buffer.
Write(st, text) ==
  [st EXCEPT !.f = @ \o text, !.top = IF Len(st.f \o text) > @ THEN Len(st.f \o text) ELSE @]
Continue(st) == [st EXCEPT !.go = FALSE]
Return(st, text) == [st EXCEPT !.out = "return", !.f = text]

(* 1. Skip parts of the query for certain states.                          *)

\* Mutant: a backslash is not looked for.
InQuoteNoEscape(st, qi, r) ==
  Continue(
    IF r # st.quote THEN st
    ELSE IF st.sql = "inValues" THEN [st EXCEPT !.from = qi + 1, !.s = "inValues"]
    ELSE Write([st EXCEPT !.from = qi + 1, !.s = "unknown"], <<Ask>>))

InQuote(st, qi, r) ==
  Continue(
    IF r # st.quote THEN [st EXCEPT !.escape = ~st.escape /\ r = Backslash]
    ELSE IF st.escape THEN [st EXCEPT !.escape = FALSE]
    ELSE IF st.sql = "inValues" THEN [st EXCEPT !.from = qi + 1, !.s = "inValues"]
    ELSE Write([st EXCEPT !.from = qi + 1, !.s = "unknown"], <<Ask>>))

InNumber(st, qi, r) ==
  IF Digit(r) \/ r \in (97..102) \cup (65..70) \cup {Dot, 120, Dash} THEN Continue(st)
  ELSE IF r \in (103..122) \cup (71..90) \cup {95} THEN [st EXCEPT !.to = qi, !.s = "inWord"]
  ELSE Write([st EXCEPT !.from = qi, !.to = qi, !.s = "unknown"], <<Ask>>)

\* The list after IN or VALUES ends when its parentheses are balanced.
ValuesEnd(st, qi, r) ==
  LET no == st.valueNo + 1
      list == IF qi - st.firstPar > 1 THEN <<Open, Ask, Plus, Shut>> ELSE <<Open, Shut>>
      st1 == IF no = 1 THEN [Write(st, list) EXCEPT !.firstPar = 0] ELSE st
  IN Continue([st1 EXCEPT !.valueNo = no, !.s = "moreValues", !.pr = r, !.from = qi + 1, !.parTotal = 0])

InValues(st, qi, r) ==
  LET opened == st.par + 1
      st1 == CASE r = Shut -> [st EXCEPT !.par = @ - 1, !.parTotal = @ + 1]
               [] r = Open -> [st EXCEPT !.par = opened, !.firstPar = IF opened = 1 THEN qi ELSE @]
               [] OTHER -> st
  IN IF r \in Quote THEN Continue([st EXCEPT !.s = "inQuote", !.quote = r])
     ELSE IF isSpace(r) \/ st1.par > 0 THEN Continue(st1)
     ELSE IF st1.parTotal = 0 THEN Continue([st1 EXCEPT !.s = "inWord"])
     ELSE ValuesEnd(st1, qi, r)

InMLC(st, r) == Continue([st EXCEPT !.s = IF st.pr = Star /\ r = Slash THEN "unknown" ELSE @])
MLCOrCode(st, r) ==
  IF r # Bang THEN Continue([st EXCEPT !.s = "inMLC"]) ELSE [st EXCEPT !.s = "inWord"]
InOLC(st, r) == Continue([st EXCEPT !.s = IF r = LF THEN "unknown" ELSE @])

Skip(st, qi, r) ==
  CASE st.s = "inQuote" -> InQuote(st, qi, r)
    [] st.s = "inNumber" -> InNumber(st, qi, r)
    [] st.s = "inValues" -> InValues(st, qi, r)
    [] st.s = "inMLC" -> InMLC(st, r)
    [] st.s = "mlcOrCode" -> MLCOrCode(st, r)
    [] st.s = "inOLC" -> InOLC(st, r)
    [] OTHER -> IF isSpace(r) /\ isSpace(st.pr)
                THEN Continue([st EXCEPT !.from = qi + 1, !.pr = r]) ELSE st

(* 2. Change state based on rune and current state.                        *)

ADigit(st, qi) ==
  CASE st.s = "opOrNumber" -> [st EXCEPT !.to = qi - 1, !.s = "inNumber"]
    [] st.s = "inWord" /\ st.pr \notin {Open, Comma} -> st
    [] OTHER -> [st EXCEPT !.to = qi, !.s = "inNumber"]

\* What the end of a word does, by the word and the one before it.
WordEnd(q, st, qi) ==
  LET word == LowerCase(Sub(q, st.from, qi))
      comma == word # <<>> /\ Last1(word) = Comma
      ended == [st EXCEPT !.s = "inSpace", !.to = qi, !.addSpace = TRUE]
  IN CASE st.from > qi -> [st EXCEPT !.out = "panic"]
       [] word = use /\ st.prevWord = <<>> -> Return(st, use \o <<SpaceChar, Ask>>)
       [] (word = null /\ st.prevWord \notin {is, not}) \/ word = null \o <<Comma>> ->
            Write([ended EXCEPT !.from = qi + 1],
                  <<Ask>> \o (IF comma THEN <<Comma>> ELSE <<>>) \o <<SpaceChar>>)
       [] st.prevWord = order /\ word = by -> [ended EXCEPT !.sql = "orderBy"]
       [] st.sql = "orderBy" /\ word \in {asc, asc \o <<Comma>>} ->
            IF ~comma THEN [ended EXCEPT !.from = qi]
            ELSE IF st.f = <<>> THEN [st EXCEPT !.out = "panic"]
            ELSE Write([ended EXCEPT !.from = qi, !.f = Front(@)], <<Comma, SpaceChar>>)
       [] st.prevWord = key /\ word = update -> [ended EXCEPT !.sql = "onDupe"]
       [] OTHER -> ended

ASpace(q, st, qi) ==
  CASE st.s = "unknown" ->
         IF st.f # <<>> /\ ~isSpace(Last1(st.f))
         THEN Write([st EXCEPT !.from = qi + 1], <<SpaceChar>>) ELSE st
    [] st.s = "inDash" ->
         IF st.to > 2 THEN [st EXCEPT !.s = "inOLC", !.to = qi - 2, !.addSpace = TRUE]
         ELSE [st EXCEPT !.s = "inOLC"]
    [] st.s = "moreValues" -> IF st.valueNo = 1 THEN Write(st, <<SpaceChar>>) ELSE st
    [] OTHER -> WordEnd(q, st, qi)

AQuote(st, qi, r) ==
  IF st.pr = Backslash THEN st
  ELSE [st EXCEPT !.s = "inQuote", !.quote = r, !.to = IF st.pr \in {120, 98} THEN -2 ELSE qi]

AnOperator(st, qi) ==
  [st EXCEPT !.from = IF st.s \in {"inWord", "inOp"} THEN @ ELSE qi, !.s = "inOp"]

ListBegins(q, st, qi) ==
  /\ st.sql # "onDupe"
  /\ \/ st.s \in {"inSpace", "moreValues"} /\ st.prevWord \in ListWords
     \/ LowerCase(Sub(q, st.from, qi)) \in ListWords
AnOpen(q, st, qi) ==
  CASE st.prevWord = call -> Return(st, call \o <<SpaceChar>> \o Sub(q, st.from, qi))
    [] st.prevWord # call /\ ListBegins(q, st, qi) ->
         [st EXCEPT !.s = "inValues", !.sql = "inValues", !.par = 1, !.firstPar = qi,
                    !.to = IF st.valueNo = 0 THEN qi ELSE @]
    [] OTHER -> IF st.s = "inWord" THEN st
                ELSE [st EXCEPT !.valueNo = 0, !.from = qi, !.s = "inWord"]

AnyOther(st, qi) ==
  IF st.s \in {"inWord", "inOp"} THEN [st EXCEPT !.s = "inWord"]
  ELSE [st EXCEPT !.valueNo = 0, !.from = qi, !.s = "inWord",
                  !.sql = IF @ = "inValues" THEN "unknown" ELSE @]

Change(q, st, qi, r) ==
  CASE Digit(r) -> ADigit(st, qi)
    [] isSpace(r) -> ASpace(q, st, qi)
    [] r \in Quote -> AQuote(st, qi, r)
    [] r \in Compare -> AnOperator(st, qi)
    [] r = Slash -> [st EXCEPT !.s = "divOrMLC"]
    [] r = Star /\ st.s = "divOrMLC" -> [st EXCEPT !.s = "mlcOrCode"]
    [] r = Plus -> [st EXCEPT !.s = "opOrNumber"]
    [] r = Dash -> [st EXCEPT !.s = IF st.pr = Dash THEN "inDash" ELSE "opOrNumber"]
    [] r = Dot -> IF st.s \in {"inNumber", "inOp"} THEN [st EXCEPT !.s = "inNumber", !.to = qi] ELSE st
    [] r = Open -> AnOpen(q, st, qi)
    [] r = Comma /\ st.s = "moreValues" -> st
    [] r = Colon /\ st.prevWord = administrator -> [st EXCEPT !.out = "whole"]
    [] r = Hash -> [st EXCEPT !.s = "inOLC"]
    [] OTHER -> AnyOther(st, qi)

(* 3. Copy a slice of the query into the fingerprint.                      *)
Copy(q, st, r) ==
  IF st.to <= st.from THEN [st EXCEPT !.pr = r]
  ELSE LET word == LowerCase(Sub(q, st.from, st.to))
           st1 == [Write(st, word) EXCEPT !.prevWord = word, !.from = st.to, !.pr = r]
       IN IF word \in ListWords /\ st.sql # "onDupe"
          THEN [st1 EXCEPT !.addSpace = FALSE, !.s = "inValues", !.sql = "inValues"]
          ELSE IF ~st.addSpace THEN st1
          ELSE Write([st1 EXCEPT !.from = @ + 1, !.addSpace = FALSE], <<SpaceChar>>)

Step(q, st, i) ==
  IF st.out # "none" THEN st
  ELSE LET st1 == Skip([st EXCEPT !.go = TRUE], i - 1, q[i])
       IN IF ~st1.go \/ st1.out # "none" THEN st1
          ELSE LET st2 == Change(q, st1, i - 1, q[i])
               IN IF st2.out # "none" THEN st2 ELSE Copy(q, st2, q[i])

RECURSIVE TrimRight(_)
TrimRight(text) == IF text # <<>> /\ isSpace(Last1(text)) THEN TrimRight(Front(text)) ELSE text

Pass(query) ==
  LET q == Append(query, SpaceChar)
  IN FoldLeft(LAMBDA st, i : Step(q, st, i), Start, [i \in 1..Len(q) |-> i])

GetFingerprint(query) ==
  LET st == Pass(query)
  IN CASE st.out = "none" -> TrimRight(st.f)
       [] st.out = "whole" -> query
       [] OTHER -> st.f

---------------------------------------------------------------------------
(* Two queries that differ only in their values, whether numbers or quoted *)
(* text, have one fingerprint: a query on the blacklist is refused and     *)
(* counted whatever its values are (IsSQLAllowed).  The slots are where    *)
(* values stand in a query: after an operator, in IN and VALUES lists, in  *)
(* arguments, in LIMIT.                                                    *)
Filled(parts, which(_)) == FlattenSeq([i \in 1..Len(parts) |-> parts[i][1] \o which(parts[i]) \o parts[i][2]])
ValuesHidden(parts) ==
  GetFingerprint(Filled(parts, LAMBDA p : p[3])) = GetFingerprint(Filled(parts, LAMBDA p : p[4]))

(* The pass stays within the buffer it made, which is two longer than the  *)
(* query: GetFingerprint returns a canonical form of any query, as its     *)
(* comment says.  An IN list of one digit takes one byte more than the     *)
(* list it replaces, so the third one of a query is written past the end   *)
(* and the call panics.                                                    *)
StaysInBuffer(parts) ==
  LET query == Filled(parts, LAMBDA p : p[3])
  IN Pass(query).out # "panic" /\ Pass(query).top <= Len(query) + 2
=============================================================================
