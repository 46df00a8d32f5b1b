------------------------------- MODULE Lexer -------------------------------
(***************************************************************************)
(* How the proxy reads the text of a statement, and how it writes literals *)
(* and names when it prints a rewritten one:                               *)
(*   - Scanner, the lexer of the parser (parser/lexer.go, parser/misc.go);   *)
(*   - WriteString and WriteName with EscapeRestoreFlags, the flags every  *)
(*     plan prints with (parser/format/format.go);                         *)
(*   - the values of literals, the nodes they are kept in, which statements *)
(*     pass on to each other, and their text (parser/yy_parser.go,         *)
(*     parser/tidb-types);                                                 *)
(*   - Preview, which tells the kind of a statement from its first word,   *)
(*     before and independently of the parser (parser/analyzer.go), with   *)
(*     the comment helpers it uses (parser/comments.go).                   *)
(*                                                                         *)
(* A text is a sequence of bytes; p is a 0-based offset into it.  Lines    *)
(* and columns, which only error messages use, are left out.  No caller    *)
(* sets a SQL mode or enables window functions, so the scanner's branches  *)
(* for them are left out too.                                              *)
(***************************************************************************)
EXTENDS Integers, Sequences, FiniteSets, SequencesExt

CONSTANTS
  Keywords,          \* tokenMap: upper-case words, as sequences of bytes
  BuiltinFunctions,  \* btFuncTokenMap
  CharsetNames       \* the charsets GetCharsetInfo knows

NewLine == 10
Tab == 9
Blank == 32
Bang == 33
DoubleQuote == 34
Hash == 35
Percent == 37
SingleQuote == 39
Open == 40
Star == 42
Plus == 43
Dash == 45
Dot == 46
Slash == 47
At == 64
Backslash == 92
Underscore == 95
BackQuote == 96
ReplacementChar == 65533

Digits == 48..57
Letters == (65..90) \cup (97..122)
IdentExtend == 128..65535
IdentChars == Letters \cup Digits \cup {Underscore, 36} \cup IdentExtend
UserVarChars == IdentChars \cup {Dot}
Spaces == (9..13) \cup {32, 133, 160}    \* unicode.IsSpace, up to U+00FF
NotNewLine == (0..65535) \ {NewLine}
HexDigits == Digits \cup (97..102) \cup (65..70)
BitDigits == {48, 49}

ToUpper(text) == [i \in 1..Len(text) |-> IF text[i] \in 97..122 THEN text[i] - 32 ELSE text[i]]

-----------------------------------------------------------------------------
(* The reader.                                                             *)

Byte(s, p) == s[p + 1]
Data(s, from, to) == SubSeq(s, from + 1, to)
AtEnd(s, p) == p >= Len(s)
HasPrefix(s, p, text) == p + Len(text) <= Len(s) /\ Data(s, p, p + Len(text)) = text

\* utf8.DecodeRune: the rune at p and its width; a byte that starts no
\* well-formed character stands for itself.
Continues(s, p, n) == \A i \in 1..n : p + i < Len(s) /\ Byte(s, p + i) \in 128..191
Rune(s, p) ==
  LET b == Byte(s, p) IN
  CASE b \in 194..223 /\ Continues(s, p, 1) ->
         [v |-> (b - 192) * 64 + (Byte(s, p + 1) - 128), w |-> 2]
    [] b \in 224..239 /\ Continues(s, p, 2) /\ (b = 224 => Byte(s, p + 1) >= 160) ->
         [v |-> (b - 224) * 4096 + (Byte(s, p + 1) - 128) * 64 + (Byte(s, p + 2) - 128), w |-> 3]
    [] OTHER -> [v |-> b, w |-> 1]

\* bytes.Buffer.WriteRune
EncodeRune(v) ==
  CASE v < 128 -> <<v>>
    [] v \in 128..2047 -> <<192 + (v \div 64), 128 + (v % 64)>>
    [] OTHER -> <<224 + (v \div 4096), 128 + ((v \div 64) % 64), 128 + (v % 64)>>

Peek(s, p) == IF AtEnd(s, p) THEN ReplacementChar ELSE Rune(s, p).v

RECURSIVE incAsLongAs(_, _, _)
incAsLongAs(s, p, runes) ==
  IF AtEnd(s, p) \/ Peek(s, p) \notin runes THEN p
  ELSE incAsLongAs(s, p + Rune(s, p).w, runes)

-----------------------------------------------------------------------------
(* Tokens.  A scanner is its text, its offset, the scanner of the special  *)
(* comment it is in (if any) and whether it has met an unclosed comment.   *)

NewScanner(text) == [s |-> text, p |-> 0, sub |-> <<>>, failed |-> FALSE]
Token(tok, pos, lit, sc) == [tok |-> tok, pos |-> pos, lit |-> lit, sc |-> sc]
MoveTo(sc, p) == [sc EXCEPT !.p = p]

\* The token tok of everything from sc.p up to p.
Upto(sc, tok, p) == Token(tok, sc.p, Data(sc.s, sc.p, p), MoveTo(sc, p))

scanIdentifier(sc) ==
  Upto(sc, "identifier", incAsLongAs(sc.s, sc.p + Rune(sc.s, sc.p).w, IdentChars))

\* startWithXx, startWithBb: x'1f' and b'01', or an identifier.
QuotedDigits(sc, digits, tok) ==
  IF Peek(sc.s, sc.p + 1) # SingleQuote
  THEN Upto(sc, "identifier", incAsLongAs(sc.s, sc.p + 1, IdentChars))
  ELSE LET e == incAsLongAs(sc.s, sc.p + 2, digits) IN
       IF Peek(sc.s, e) = SingleQuote THEN Upto(sc, tok, e + 1)
       ELSE Token("replacement", sc.p, <<>>, MoveTo(sc, e))

startWithNn(sc) ==
  LET t == scanIdentifier(sc) IN
  IF t.lit \in {<<78>>, <<110>>} /\ Peek(sc.s, t.sc.p) = SingleQuote
  THEN [t EXCEPT !.tok = "underscoreCS", !.lit = <<117, 116, 102, 56>>]
  ELSE t

\* handleEscape: what \ followed by the rune v stands for.
handleEscape(v) ==
  CASE v = 110 -> <<10>> [] v = 48 -> <<0>> [] v = 98 -> <<8>> [] v = 90 -> <<26>>
    [] v = 114 -> <<13>> [] v = 116 -> <<9>>
    [] v \in {Percent, Underscore} -> <<Backslash, v>>
    [] OTHER -> <<v>>

\* writeRune of lazyBuf: one byte, or a character of several bytes
writeRune(v, w) == IF w > 1 THEN EncodeRune(v) ELSE <<v % 256>>

\* The loop of scanString from p, with the text read so far: the end of the
\* literal and its text, or no end.
RECURSIVE StringFrom(_, _, _, _)
StringFrom(s, p, ending, text) ==
  IF AtEnd(s, p) THEN [closed |-> FALSE, p |-> p, text |-> text]
  ELSE LET r == Rune(s, p) IN
       IF r.v = ending
       THEN IF Peek(s, p + 1) # ending THEN [closed |-> TRUE, p |-> p + 1, text |-> text]
            ELSE StringFrom(s, p + 2, ending, Append(text, ending))
       ELSE IF r.v = Backslash
       THEN IF AtEnd(s, p + 1) THEN [closed |-> FALSE, p |-> p + 1, text |-> text]
            ELSE LET e == Rune(s, p + 1)
                     unescaped == handleEscape(e.v) IN
                 StringFrom(s, p + 1 + e.w, ending,
                            text \o Front(unescaped) \o writeRune(Last(unescaped), e.w))
       ELSE StringFrom(s, p + r.w, ending, text \o writeRune(r.v, r.w))

scanString(sc) ==
  LET e == StringFrom(sc.s, sc.p + 1, Byte(sc.s, sc.p), <<>>) IN
  IF e.closed THEN Token("stringLit", sc.p, e.text, MoveTo(sc, e.p))
  ELSE Token("replacement", sc.p, <<>>, MoveTo(sc, e.p))

RECURSIVE QuotedFrom(_, _, _)
QuotedFrom(s, p, text) ==
  IF AtEnd(s, p) THEN [closed |-> FALSE, p |-> p, text |-> <<>>]
  ELSE LET r == Rune(s, p) IN
       IF r.v # BackQuote THEN QuotedFrom(s, p + r.w, text \o EncodeRune(r.v))
       ELSE IF Peek(s, p + 1) = BackQuote THEN QuotedFrom(s, p + 2, Append(text, BackQuote))
       ELSE [closed |-> TRUE, p |-> p + 1, text |-> text]

scanQuotedIdent(sc) ==
  LET e == QuotedFrom(sc.s, sc.p + 1, <<>>) IN
  Token(IF e.closed THEN "quotedIdentifier" ELSE "replacement", sc.p, e.text, MoveTo(sc, e.p))

\* D1 . D2 e D3
scanFloat(sc) ==
  LET d1 == incAsLongAs(sc.s, sc.p, Digits)
      d2 == IF Peek(sc.s, d1) = Dot THEN incAsLongAs(sc.s, d1 + 1, Digits) ELSE d1
      sign == Peek(sc.s, d2 + 1)
  IN IF Peek(sc.s, d2) \notin {101, 69} THEN Upto(sc, "decLit", d2)
     ELSE IF sign \in {Dash, Plus} \cup Digits
          THEN Upto(sc, "floatLit", incAsLongAs(sc.s, d2 + 2, Digits))
          ELSE Upto(sc, "identifier", incAsLongAs(sc.s, d2 + 1, IdentChars))

\* The end of startWithNumber, once the number reaches p as a tok.
NumberFrom(sc, tok, p) ==
  LET e == incAsLongAs(sc.s, p, Digits)
      ch == Peek(sc.s, e)
  IN IF ch \in {Dot, 101, 69} THEN scanFloat(sc)
     ELSE IF ~AtEnd(sc.s, e) /\ ch \in IdentChars
          THEN Upto(sc, "identifier", incAsLongAs(sc.s, e, IdentChars))
          ELSE Upto(sc, tok, e)

\* 0x1f and 0b01; 0x, 0x7fz3, 0b and 0b123 are identifiers
PrefixedNumber(sc, digits, tok) ==
  LET e == incAsLongAs(sc.s, sc.p + 2, digits) IN
  IF e = sc.p + 2 \/ Peek(sc.s, e) \in Digits
  THEN Upto(sc, "identifier", incAsLongAs(sc.s, e, IdentChars))
  ELSE NumberFrom(sc, tok, e)

startWithNumber(sc) ==
  LET ch1 == Peek(sc.s, sc.p + 1) IN
  IF Byte(sc.s, sc.p) # 48 THEN NumberFrom(sc, "intLit", sc.p + 1)
  ELSE CASE ch1 \in 48..55 -> NumberFrom(sc, "intLit", incAsLongAs(sc.s, sc.p + 2, 48..55))
         [] ch1 \in {120, 88} -> PrefixedNumber(sc, HexDigits, "hexLit")
         [] ch1 = 98 -> PrefixedNumber(sc, BitDigits, "bitLit")
         [] ch1 = Dot -> scanFloat(sc)
         [] ch1 = 66 -> Upto(sc, "identifier", incAsLongAs(sc.s, sc.p + 1, IdentChars))
         [] OTHER -> NumberFrom(sc, "intLit", sc.p + 1)

startWithDot(sc) ==
  LET f == scanFloat(sc) IN
  IF Peek(sc.s, sc.p + 1) \in Digits
     /\ (AtEnd(sc.s, f.sc.p) \/ Peek(sc.s, f.sc.p) \notin IdentChars)
  THEN f ELSE Upto(sc, "char", sc.p + 1)

scanIdentifierOrString(sc) ==
  LET ch == Peek(sc.s, sc.p) IN
  CASE ch \in {SingleQuote, DoubleQuote} -> scanString(sc)
    [] ch = BackQuote -> scanQuotedIdent(sc)
    [] ch \in UserVarChars -> Upto(sc, "identifier", incAsLongAs(sc.s, sc.p, UserVarChars))
    [] OTHER -> Token("char", sc.p, <<ch>>, sc)

Scopes == {<<103, 108, 111, 98, 97, 108, 46>>, <<115, 101, 115, 115, 105, 111, 110, 46>>, <<108, 111, 99, 97, 108, 46>>}     \* global. session. local.

\* The default branch of startWithAt makes a user variable of whatever follows
\* the @, a character that is none included.
startWithAt(sc) ==
  LET one == scanIdentifierOrString(MoveTo(sc, sc.p + 1))
      scope == {v \in Scopes : HasPrefix(ToUpper(sc.s), sc.p + 2, ToUpper(v))}
      prefix == IF scope = {} THEN <<>> ELSE CHOOSE v \in scope : TRUE
      two == scanIdentifierOrString(MoveTo(sc, sc.p + 2 + Len(prefix)))
  IN CASE one.tok = "char" /\ one.lit = <<At>> ->
            (CASE two.tok \in {"stringLit", "quotedIdentifier"} ->
                    Token("doubleAtIdentifier", sc.p, <<At, At>> \o prefix \o two.lit, two.sc)
               [] two.tok = "identifier" -> Upto(sc, "doubleAtIdentifier", two.sc.p)
               [] OTHER -> [two EXCEPT !.pos = sc.p])
       [] one.tok = "replacement" -> [one EXCEPT !.pos = sc.p]
       [] OTHER -> [one EXCEPT !.tok = "singleAtIdentifier", !.pos = sc.p]

\* The operators of ruleTable of more than one character, and the tokens that
\* are not their own character.
Operators == {<<124, 124>>, <<38, 38>>, <<38, 94>>, <<58, 61>>, <<60, 61, 62>>, <<62, 61>>,
              <<60, 61>>, <<33, 61>>, <<60, 62>>, <<60, 60>>, <<62, 62>>, <<92, 78>>}
OneCharacter == {<<c>> : c \in {42, 43, 62, 60, 40, 41, 59, 44, 38, 37, 58, 124, 33, 94, 126,
                                92, 63, 61, 123, 125}}
ruleTable(sc) ==
  LET matches == {op \in Operators \cup OneCharacter : HasPrefix(sc.s, sc.p, op)} IN
  IF matches = {} THEN Token("invalid", sc.p, <<>>, sc)
  ELSE Upto(sc, "char", sc.p + Len(CHOOSE op \in matches : \A o \in matches : Len(o) <= Len(op)))

-----------------------------------------------------------------------------
(* Comments.                                                               *)

\* Mutant: once a * has been read, any later / closes the comment.
CommentEndAnySlash(s, p) ==
  LET ends == {e \in (p + 4)..Len(s) :
                 Byte(s, e - 1) = Slash /\ \E i \in (p + 2)..(e - 2) : Byte(s, i) = Star} IN
  IF ends = {} THEN 0 ELSE CHOOSE e \in ends : \A o \in ends : e <= o

\* The offset after the */ that closes the comment opened at p, or 0.
CommentEnd(s, p) ==
  LET ends == {e \in (p + 4)..Len(s) : Data(s, e - 2, e) = <<Star, Slash>>} IN
  IF ends = {} THEN 0 ELSE CHOOSE e \in ends : \A o \in ends : e <= o

\* where the code in a special comment begins: after its first space
sqlOffsetInComment(c) ==
  LET spaces == {i \in 0..(Len(c) - 1) : Byte(c, i) \in Spaces}
      first == IF spaces = {} THEN 0 ELSE CHOOSE i \in spaces : \A o \in spaces : i <= o
  IN CHOOSE i \in (first + 1)..Len(c) :
       Byte(c, i) \notin Spaces /\ \A o \in (first + 1)..(i - 1) : Byte(c, o) \in Spaces

\* /*!40101 code */ without its marks; a version has five or six digits
TrimComment(c) ==
  LET from == IF Byte(c, 3) = 77 THEN 4 ELSE 3
      n == incAsLongAs(c, from, Digits) - from
      code == IF n < 5 THEN 3 ELSE from + (IF n > 6 THEN 6 ELSE n)
      start == incAsLongAs(c, code, {Blank, Tab})
      stop == CHOOSE e \in start..(Len(c) - 2) :
                /\ \A i \in e..(Len(c) - 3) : Byte(c, i) \in {Blank, Tab}
                /\ e = start \/ Byte(c, e - 1) \notin {Blank, Tab}
  IN Data(c, start, stop)

\* The scanner that startWithSlash leaves behind a comment, and its token if it
\* returns one at once.
Comment(sc) ==
  LET e == CommentEnd(sc.s, sc.p)
      c == Data(sc.s, sc.p, e)
      after == MoveTo(sc, e)
      inside(kind, sql) == <<[kind |-> kind, sc |-> NewScanner(sql), end |-> FALSE,
                              off |-> sc.p + sqlOffsetInComment(c)]>>
  IN CASE e = 0 -> [ret |-> TRUE, tok |-> "eof", sc |-> [MoveTo(sc, Len(sc.s)) EXCEPT !.failed = TRUE]]
       [] e # 0 /\ HasPrefix(c, 0, <<Slash, Star, Plus>>) ->
            [ret |-> TRUE, tok |-> "hintBegin",
             sc |-> [after EXCEPT !.sub = inside("hint", Data(c, sqlOffsetInComment(c), Len(c) - 2))]]
       [] e # 0 /\ HasPrefix(c, 0, <<Slash, Star, Bang>>) ->
            [ret |-> FALSE, tok |-> "", sc |-> [after EXCEPT !.sub = inside("code", TrimComment(c))]]
       [] OTHER -> [ret |-> FALSE, tok |-> "", sc |-> after]

LineComment(s, p) ==
  \/ Peek(s, p) = Hash
  \/ /\ HasPrefix(s, p, <<Dash, Dash>>)
     /\ AtEnd(s, p + 2) \/ Byte(s, p + 2) \in Spaces

startWithDash(sc) ==
  CASE HasPrefix(sc.s, sc.p, <<45, 62, 62>>) -> Token("juss", sc.p, <<>>, MoveTo(sc, sc.p + 3))
    [] ~HasPrefix(sc.s, sc.p, <<45, 62, 62>>) /\ HasPrefix(sc.s, sc.p, <<45, 62>>) ->
         Token("jss", sc.p, <<>>, MoveTo(sc, sc.p + 2))
    [] OTHER -> Upto(sc, "char", sc.p + 1)

RECURSIVE scan(_)
scan(sc) ==
  IF sc.sub # <<>>
  THEN LET sub == sc.sub[1]
           t == scan(sub.sc)
           hintEnds == t.tok = "eof" /\ sub.kind = "hint" /\ ~sub.end
       IN IF t.tok = "eof" /\ ~hintEnds THEN scan([sc EXCEPT !.sub = <<>>])
          ELSE Token(IF hintEnds THEN "hintEnd" ELSE t.tok, t.pos + sub.off, t.lit,
                     [sc EXCEPT !.sub = <<[sub EXCEPT !.sc = t.sc, !.end = hintEnds]>>])
  ELSE
    LET q == incAsLongAs(sc.s, sc.p, Spaces)
        at == MoveTo(sc, q)
        ch == Peek(sc.s, q)
        comment == Comment(at)
    IN CASE AtEnd(sc.s, q) -> Token("eof", q, <<>>, at)
         [] ~AtEnd(sc.s, q) /\ LineComment(sc.s, q) -> scan(MoveTo(sc, incAsLongAs(sc.s, q, NotNewLine)))
         [] ~AtEnd(sc.s, q) /\ HasPrefix(sc.s, q, <<Slash, Star>>) ->
              (IF comment.ret THEN Token(comment.tok, q, <<>>, comment.sc) ELSE scan(comment.sc))
         [] ch \in {120, 88} -> QuotedDigits(at, HexDigits, "hexLit")
         [] ch \in {98, 66} -> QuotedDigits(at, BitDigits, "bitLit")
         [] ch \in {110, 78} -> startWithNn(at)
         [] ~AtEnd(sc.s, q) /\ (ch \in IdentExtend \/ ch \in (Letters \ {120, 88, 98, 66, 110, 78}) \cup {Underscore, 36}) ->
              scanIdentifier(at)
         [] ch \in Digits -> startWithNumber(at)
         [] ch = Dot -> startWithDot(at)
         [] ch = At -> startWithAt(at)
         [] ch = BackQuote -> scanQuotedIdent(at)
         [] ch \in {SingleQuote, DoubleQuote} -> scanString(at)
         [] ch = Slash /\ ~HasPrefix(sc.s, q, <<Slash, Star>>) -> Upto(at, "char", q + 1)
         [] ch = Dash /\ ~LineComment(sc.s, q) -> startWithDash(at)
         [] OTHER -> ruleTable(at)

\* Whether an identifier is a keyword: not beside a dot; a function's name only
\* before a parenthesis.  The scanner looks at its own text, even for a token of
\* a special comment, whose offset it only estimates: it may lie past the end.
isTokenIdentifier(sc, lit, offset) ==
  CASE Peek(sc.s, sc.p) # Dot /\ offset > Len(sc.s) -> "panic"
    [] Peek(sc.s, sc.p) = Dot \/ (offset \in 1..Len(sc.s) /\ Byte(sc.s, offset - 1) = Dot) -> "identifier"
    [] Peek(sc.s, sc.p) = Open /\ ToUpper(lit) \in BuiltinFunctions -> "function"
    [] ToUpper(lit) \in Keywords -> "keyword"
    [] OTHER -> "identifier"

\* The charset that _name introduces, if any: GetCharsetInfo, whatever the case.
handleIdent(lit) ==
  IF lit = <<>> \/ lit[1] # Underscore THEN {} ELSE {cs \in CharsetNames : ToUpper(cs) = ToUpper(Tail(lit))}

Lex(sc) ==
  LET t == scan(sc) IN
  CASE t.tok = "identifier" /\ handleIdent(t.lit) # {} ->
         [t EXCEPT !.tok = "underscoreCS", !.lit = CHOOSE cs \in handleIdent(t.lit) : TRUE]
    [] t.tok = "identifier" /\ handleIdent(t.lit) = {} ->
         [t EXCEPT !.tok = isTokenIdentifier(t.sc, t.lit, t.pos)]
    [] t.tok = "quotedIdentifier" -> [t EXCEPT !.tok = "identifier"]
    [] t.tok = "replacement" /\ AtEnd(t.sc.s, t.sc.p) -> [t EXCEPT !.tok = "eof"]
    [] OTHER -> t

Unread == {"error", "invalid", "replacement", "panic"}

\* What the parser is given for a text: its tokens, up to the one that ends them.
RECURSIVE TokensFrom(_)
TokensFrom(sc) ==
  LET t == Lex(sc)
      token == [tok |-> t.tok, lit |-> IF t.tok = "keyword" THEN ToUpper(t.lit) ELSE t.lit] IN
  IF t.tok = "eof" THEN IF t.sc.failed THEN <<[tok |-> "error", lit |-> <<>>]>> ELSE <<>>
  ELSE IF t.tok \in Unread THEN <<token>>
  ELSE <<token>> \o TokensFrom(t.sc)
Tokens(text) == TokensFrom(NewScanner(text))

-----------------------------------------------------------------------------
(* Printing strings and names: EscapeRestoreFlags.                         *)

Doubled(text, chars) ==
  FoldLeft(LAMBDA out, c : out \o (IF c \in chars THEN <<c, c>> ELSE <<c>>), <<>>, text)

WriteString(str) == <<SingleQuote>> \o Doubled(str, {Backslash, SingleQuote}) \o <<SingleQuote>>

WriteName(name) == <<BackQuote>> \o Doubled(name, {BackQuote}) \o <<BackQuote>>

-----------------------------------------------------------------------------
(* Literals: the value of a token, the node that holds it (a new one, or    *)
(* one that another statement has used) and its text in a plan.             *)

MaxInt64 == <<57, 50, 50, 51, 51, 55, 50, 48, 51, 54, 56, 53, 52, 55, 55, 53, 56, 48, 55>>
MaxUint64 == <<49, 56, 52, 52, 54, 55, 52, 52, 48, 55, 51, 55, 48, 57, 53, 53, 49, 54, 49, 53>>
UTF8MB4 == <<117, 116, 102, 56, 109, 98, 52>>
Binary == <<98, 105, 110, 97, 114, 121>>
TRUE_ == <<84, 82, 85, 69>>
FALSE_ == <<70, 65, 76, 83, 69>>
NULL_ == <<78, 85, 76, 76>>

\* A number is its digits, without leading zeros.
Significant(digits) ==
  LET from == incAsLongAs(digits, 0, {48}) IN
  IF digits # <<>> /\ from = Len(digits) THEN <<48>> ELSE Data(digits, from, Len(digits))

Below(a, b) ==
  \/ Len(a) < Len(b)
  \/ Len(a) = Len(b) /\ \E i \in DOMAIN a : a[i] < b[i] /\ \A j \in 1..(i - 1) : a[j] = b[j]

TypedValue(kind, v) == [k |-> kind, v |-> v]

toInt(lit) ==
  LET n == Significant(lit) IN
  TypedValue(CASE Below(n, MaxInt64) -> "int64" [] Below(MaxUint64, n) -> "decimal" [] OTHER -> "uint64", n)

\* What is between the quotes of x'1f', or behind the 0x of 0x1f.
LiteralDigits(lit) == IF lit[2] = SingleQuote THEN Data(lit, 2, Len(lit) - 1) ELSE Data(lit, 2, Len(lit))

\* The zeros that make n digits a multiple of m.
Padding(n, m) == [i \in 1..((m - (n % m)) % m) |-> 48]

HexDigit(c) == IF c \in Digits THEN c - 48 ELSE IF c \in 97..102 THEN c - 87 ELSE c - 55

ParseHexStr(lit) ==
  LET digits == LiteralDigits(lit)
      even == Padding(Len(digits), 2) \o digits
  IN  IF (lit[2] = SingleQuote /\ Len(digits) % 2 # 0) \/ HasPrefix(lit, 0, <<48, 88>>) THEN TypedValue("error", <<>>)
      ELSE TypedValue("hex", [i \in 1..(Len(even) \div 2) |-> 16 * HexDigit(even[2 * i - 1]) + HexDigit(even[2 * i])])

ParseBitStr(lit) ==
  LET digits == LiteralDigits(lit)
      aligned == Padding(Len(digits), 8) \o digits
  IN  TypedValue("bit", [i \in 1..(Len(aligned) \div 8) |->
                   FoldLeft(LAMBDA v, c : 2 * v + c - 48, 0, SubSeq(aligned, 8 * i - 7, 8 * i))])

\* Bits or hexadecimal digits of bytes, n for each.
DigitsOf(bytes, n, base) ==
  FlattenSeq([i \in DOMAIN bytes |->
    [j \in 1..n |-> LET d == (bytes[i] \div base ^ (n - j)) % base IN IF d < 10 THEN d + 48 ELSE d + 87]])

InQuotes(letter, digits) == <<letter, SingleQuote>> \o digits \o <<SingleQuote>>

ToBitLiteralString(bytes) == InQuotes(98, Significant(DigitsOf(bytes, 8, 2)))

\* SetValue: how a node stores a value.
SetValue(ve, value) ==
  [ve EXCEPT !.v = value.v,
             !.k = CASE value.k \in {"bool", "int64"} -> "KindInt64"
                     [] value.k = "uint64" -> "KindUint64"
                     [] value.k = "decimal" -> "KindMysqlDecimal"
                     [] value.k = "string" -> "KindString"
                     [] value.k \in {"hex", "bit"} -> "KindBinaryLiteral"
                     [] value.k = "nil" -> "KindNull"]

SetBinChsClnFlag(ve) == [ve EXCEPT !.Charset = Binary, !.Flag = @ \cup {"Binary"}]

DefaultTypeForValue(ve, value) ==
  LET plain == [ve EXCEPT !.Flag = {}] IN
  CASE value.k = "bool" -> SetBinChsClnFlag([plain EXCEPT !.Flag = {"IsBoolean"}])
    [] value.k \in {"uint64", "hex"} -> SetBinChsClnFlag([plain EXCEPT !.Flag = {"Unsigned"}])
    [] value.k = "string" -> [plain EXCEPT !.Charset = UTF8MB4]
    [] OTHER -> SetBinChsClnFlag(plain)

newValueExpr(ve, value) == DefaultTypeForValue(SetValue(ve, value), value)

ValueExpr == [k |-> "KindNull", v |-> <<>>, Flag |-> {}, Charset |-> <<>>]

\* The value of the tokens of a literal; the second string of two is appended.
ValueOf(tokens) ==
  LET t == tokens[1] IN
  CASE t.lit = NULL_ /\ t.tok = "keyword" -> TypedValue("nil", <<>>)
    [] t.lit \in {TRUE_, FALSE_} /\ t.tok = "keyword" -> TypedValue("bool", IF t.lit = TRUE_ THEN <<49>> ELSE <<48>>)
    [] t.tok = "intLit" -> toInt(t.lit)
    [] t.tok = "hexLit" -> ParseHexStr(t.lit)
    [] t.tok = "bitLit" -> ParseBitStr(t.lit)
    [] t.tok = "underscoreCS" -> TypedValue("string", tokens[2].lit)
    [] t.tok = "stringLit" -> TypedValue("string", t.lit \o (IF Len(tokens) = 2 THEN tokens[2].lit ELSE <<>>))

\* The node of a literal, in place of the node ve.
LiteralExpr(ve, tokens) ==
  LET expr == newValueExpr(ve, ValueOf(tokens)) IN
  IF tokens[1].tok = "underscoreCS"
  THEN [expr EXCEPT !.Charset = tokens[1].lit, !.Flag = @ \cup (IF tokens[1].lit = Binary THEN {"Binary"} ELSE {})]
  ELSE expr

ValueRestore(n) ==
  CASE n.k = "KindNull" -> NULL_
    [] n.k = "KindInt64" ->
         IF "IsBoolean" \notin n.Flag THEN n.v ELSE IF n.v = <<48>> THEN FALSE_ ELSE TRUE_
    [] n.k \in {"KindUint64", "KindMysqlDecimal"} -> n.v
    [] n.k = "KindString" ->
         (IF n.Charset \in {<<>>, UTF8MB4} THEN <<>> ELSE <<Underscore>> \o ToUpper(n.Charset)) \o WriteString(n.v)
    [] n.k = "KindBinaryLiteral" ->
         IF "Unsigned" \in n.Flag THEN InQuotes(120, DigitsOf(n.v, 2, 16)) ELSE ToBitLiteralString(n.v)

-----------------------------------------------------------------------------
(* Preview and the comments around a statement.                            *)

RECURSIVE TrimLeft(_, _)
TrimLeft(text, runes) ==
  IF text # <<>> /\ text[1] \in runes THEN TrimLeft(Tail(text), runes) ELSE text
RECURSIVE TrimRight(_, _)
TrimRight(text, runes) ==
  IF text # <<>> /\ Last(text) \in runes THEN TrimRight(Front(text), runes) ELSE text
Trim(text) == TrimRight(TrimLeft(text, Spaces), Spaces)

\* strings.Index and strings.LastIndex of a two-character mark, or -1
Index(text, mark) ==
  LET at == {i \in 0..(Len(text) - 2) : HasPrefix(text, i, mark)} IN
  IF at = {} THEN -1 ELSE CHOOSE i \in at : \A o \in at : i <= o
LastIndex(text, mark) ==
  LET at == {i \in 0..(Len(text) - 2) : HasPrefix(text, i, mark)} IN
  IF at = {} THEN -1 ELSE CHOOSE i \in at : \A o \in at : o <= i

OpenMark == <<Slash, Star>>
ShutMark == <<Star, Slash>>

RECURSIVE leadingFrom(_, _, _)
leadingFrom(text, at, found) ==
  LET pos == incAsLongAs(text, at, Spaces)
      end == Index(Data(text, pos + 2, Len(text)), ShutMark)
  IN IF AtEnd(text, pos) THEN (IF found THEN at ELSE 0)
     ELSE IF Len(text) - pos < 4 \/ ~HasPrefix(text, pos, OpenMark) \/ end < 0
     THEN (IF found THEN pos ELSE 0)
     ELSE leadingFrom(text, pos + 4 + end, TRUE)
leadingCommentEnd(text) == leadingFrom(text, 0, FALSE)

RECURSIVE trailingFrom(_, _, _)
trailingFrom(text, upto, found) ==
  LET rest == TrimRight(Data(text, 0, upto), Spaces)
      n == Len(rest)
      start == LastIndex(Data(text, 0, n - 2), OpenMark)
  IN IF n = 0 THEN (IF found THEN upto ELSE Len(text))
     ELSE IF n < 4 \/ Data(text, n - 2, n) # ShutMark \/ start < 0
     THEN (IF found THEN n ELSE Len(text))
     ELSE trailingFrom(text, start, TRUE)
trailingCommentStart(text) == trailingFrom(text, Len(text), FALSE)

SplitMarginComments(sql) ==
  LET stop == trailingCommentStart(sql)
      start == leadingCommentEnd(Data(sql, 0, stop))
  IN [query |-> Trim(Data(sql, start, stop)),
      leading |-> TrimLeft(Data(sql, 0, start), Spaces),
      trailing |-> TrimRight(Data(sql, stop, Len(sql)), Spaces)]

RECURSIVE StripLeading(_)
StripLeading(text) ==
  LET sql == Trim(text)
      shut == Index(sql, ShutMark)
      line == incAsLongAs(sql, 0, NotNewLine)
  IN IF HasPrefix(sql, 0, OpenMark)
     THEN IF shut <= 1 \/ (Len(sql) > 2 /\ sql[3] = Bang) THEN sql
          ELSE StripLeading(Data(sql, shut + 2, Len(sql)))
     ELSE IF HasPrefix(sql, 0, <<Dash, Dash>>)
     THEN IF AtEnd(sql, line) THEN <<>> ELSE StripLeading(Data(sql, line + 1, Len(sql)))
     ELSE sql

\* Mutant: of a line comment only the marks are stripped.
StripMarks(text) ==
  LET sql == StripLeading(Trim(text))
  IN IF HasPrefix(Trim(text), 0, <<Dash, Dash>>) THEN Trim(Data(Trim(text), 2, Len(text))) ELSE sql

StripLeadingComments(text) == StripLeading(text)

BEGIN == <<66, 69, 71, 73, 78>>
START == <<83, 84, 65, 82, 84>>
TRANSACTION == <<84, 82, 65, 78, 83, 65, 67, 84, 73, 79, 78>>
COMMIT == <<67, 79, 77, 77, 73, 84>>
ROLLBACK == <<82, 79, 76, 76, 66, 65, 67, 75>>
SAVEPOINT == <<83, 65, 86, 69, 80, 79, 73, 78, 84>>
RELEASE == <<82, 69, 76, 69, 65, 83, 69>>
SELECT == <<83, 69, 76, 69, 67, 84>>
STREAM == <<83, 84, 82, 69, 65, 77>>
INSERT == <<73, 78, 83, 69, 82, 84>>
REPLACE == <<82, 69, 80, 76, 65, 67, 69>>
UPDATE == <<85, 80, 68, 65, 84, 69>>
DELETE == <<68, 69, 76, 69, 84, 69>>
CREATE == <<67, 82, 69, 65, 84, 69>>
ALTER == <<65, 76, 84, 69, 82>>
RENAME == <<82, 69, 78, 65, 77, 69>>
DROP == <<68, 82, 79, 80>>
TRUNCATE == <<84, 82, 85, 78, 67, 65, 84, 69>>
FLUSH == <<70, 76, 85, 83, 72>>
SET == <<83, 69, 84>>
SHOW == <<83, 72, 79, 87>>
USE_DB == <<85, 83, 69>>
ANALYZE == <<65, 78, 65, 76, 89, 90, 69>>
DESCRIBE == <<68, 69, 83, 67, 82, 73, 66, 69>>
DESC == <<68, 69, 83, 67>>
EXPLAIN == <<69, 88, 80, 76, 65, 73, 78>>
REPAIR == <<82, 69, 80, 65, 73, 82>>
OPTIMIZE == <<79, 80, 84, 73, 77, 73, 90, 69>>

\* The words Preview knows a statement by: its first word, or its whole text.
FirstWords == [select |-> {SELECT}, stream |-> {STREAM}, insert |-> {INSERT},
               replace |-> {REPLACE}, update |-> {UPDATE}, delete |-> {DELETE}]
WholeTexts == [begin |-> {BEGIN, START \o <<Blank>> \o TRANSACTION}, commit |-> {COMMIT},
               rollback |-> {ROLLBACK}, savepoint |-> {SAVEPOINT}, release |-> {RELEASE}]
LaterWords == [ddl |-> {CREATE, ALTER, RENAME, DROP, TRUNCATE, FLUSH}, set |-> {SET},
               show |-> {SHOW}, use |-> {USE_DB},
               other |-> {ANALYZE, DESCRIBE, DESC, EXPLAIN, REPAIR, OPTIMIZE}]

Preview(sql) ==
  LET trimmed == StripLeadingComments(sql)
      upTo == SelectInSeq(trimmed, LAMBDA c : c \in Spaces)
      firstWord == ToUpper(TrimLeft(IF upTo = 0 THEN trimmed ELSE SubSeq(trimmed, 1, upTo - 1),
                                    (0..255) \ Letters))
      whole == ToUpper(SplitMarginComments(trimmed).query)
      of(words, w) == {k \in DOMAIN words : w \in words[k]}
  IN CASE of(FirstWords, firstWord) # {} -> CHOOSE k \in of(FirstWords, firstWord) : TRUE
       [] of(FirstWords, firstWord) = {} /\ of(WholeTexts, whole) # {} ->
            CHOOSE k \in of(WholeTexts, whole) : TRUE
       [] of(FirstWords, firstWord) = {} /\ of(WholeTexts, whole) = {}
          /\ of(LaterWords, firstWord) # {} -> CHOOSE k \in of(LaterWords, firstWord) : TRUE
       [] OTHER -> IF Len(trimmed) > 2 /\ SubSeq(trimmed, 1, 3) = <<Slash, Star, Bang>>
                   THEN "comment" ELSE "unknown"

canHandleWithoutPlan(kind) == kind \in {"show", "set", "begin", "commit", "rollback", "savepoint", "use"}

-----------------------------------------------------------------------------
(* The text of prepared statements (proxy/server/executor_stmt.go): the    *)
(* arguments of an execution are written in the place of the markers.  An  *)
(* argument is text to be quoted, or the text of a number or NULL.         *)

Question == 63

RECURSIVE MarkersFrom(_, _, _)
MarkersFrom(sql, p, quoteChar) ==
  IF AtEnd(sql, p) THEN [err |-> quoteChar # 0, offsets |-> <<>>]
  ELSE LET c == Byte(sql, p)
           quote == IF c \notin {DoubleQuote, SingleQuote} THEN quoteChar
                    ELSE IF quoteChar = 0 THEN c ELSE IF quoteChar = c THEN 0 ELSE quoteChar
           rest == MarkersFrom(sql, p + 1, quote)
       IN  IF c = Question /\ quoteChar = 0 THEN [rest EXCEPT !.offsets = <<p>> \o @] ELSE rest

calcParams(sql) == MarkersFrom(sql, 0, 0)

escapeSQL(text) ==
  FoldLeft(LAMBDA out, c : out \o (IF c \in {Backslash, SingleQuote} THEN <<Backslash, c>> ELSE <<c>>), <<>>, text)

ItoString(arg) ==
  IF arg.quote THEN <<SingleQuote>> \o escapeSQL(arg.text) \o <<SingleQuote>> ELSE escapeSQL(arg.text)

GetRewriteSQL(sql, offsets, args) ==
  LET from(i) == IF i = 1 THEN 0 ELSE offsets[i - 1] + 1
  IN  FlattenSeq([i \in DOMAIN args |-> Data(sql, from(i), offsets[i]) \o ItoString(args[i])])
      \o Data(sql, from(Len(args) + 1), Len(sql))

-----------------------------------------------------------------------------
(* Properties.                                                             *)

\* The reading MySQL gives the text after an opening quote q: a reference for
\* the scanner, on bytes and without its buffers.
RECURSIVE Unquoted(_, _)
Unquoted(q, b) ==
  LET skip(n, out) == LET rest == Unquoted(q, SubSeq(b, n + 1, Len(b))) IN
                      [rest EXCEPT !.text = out \o @, !.used = n + @]
      escapes == [n |-> 110, zero |-> 48, b |-> 98, Z |-> 90, r |-> 114, t |-> 116]
      stands == [n |-> 10, zero |-> 0, b |-> 8, Z |-> 26, r |-> 13, t |-> 9]
      named == {k \in DOMAIN escapes : Len(b) > 1 /\ b[2] = escapes[k]}
  IN IF b = <<>> THEN [closed |-> FALSE, text |-> <<>>, used |-> 0]
     ELSE IF b[1] = q
     THEN IF Len(b) > 1 /\ b[2] = q THEN skip(2, <<q>>)
          ELSE [closed |-> TRUE, text |-> <<>>, used |-> 1]
     ELSE IF b[1] # Backslash THEN skip(1, <<b[1]>>)
     ELSE IF Len(b) = 1 THEN [closed |-> FALSE, text |-> <<>>, used |-> 1]
     ELSE IF named # {} THEN skip(2, <<stands[CHOOSE k \in named : TRUE]>>)
     ELSE skip(2, IF b[2] \in {Percent, Underscore} THEN <<Backslash, b[2]>> ELSE <<b[2]>>)

\* A string literal of a statement is read as MySQL reads it, whatever quotes,
\* escapes and multi-byte characters it holds, and when a plan prints the
\* statement again the backend reads the same string: the rewritten statement
\* compares and stores what the client wrote (scanString, WriteString).
StringKept(q, body) ==
  LET t == scan(NewScanner(<<q>> \o body))
      ref == Unquoted(q, body)
      again == WriteString(t.lit)
  IN /\ (t.tok = "stringLit") = ref.closed
     /\ ref.closed =>
          /\ t.lit = ref.text
          /\ t.sc.p = 1 + ref.used
          /\ Unquoted(SingleQuote, Tail(again))
               = [closed |-> TRUE, text |-> t.lit, used |-> Len(again) - 1]

\* What MySQL takes a literal for: a number, a keyword, bytes by their hexadecimal
\* digits, bits as a number, or a string and its charset.
Meaning(tokens) ==
  LET t == tokens[1] IN
  CASE t.tok = "intLit" -> <<"number", Significant(t.lit)>>
    [] t.tok = "hexLit" -> LET digits == LiteralDigits(t.lit) IN
                           <<"bytes", Padding(Len(digits), 2) \o ToUpper(digits)>>
    [] t.tok = "bitLit" -> <<"bits", Significant(LiteralDigits(t.lit))>>
    [] t.tok = "stringLit" -> <<"string", UTF8MB4, FlattenSeq([i \in DOMAIN tokens |-> tokens[i].lit])>>
    [] t.tok = "underscoreCS" -> <<"string", t.lit, tokens[2].lit>>
    [] OTHER -> <<t.tok, t.lit>>

\* A literal that the parser accepts means the same in the statement printed for a
\* backend, also when its node has held the literal of an earlier statement: nothing
\* of the old literal's flags and charset is left.  Bits are compared as numbers: the
\* zero bytes in front are not printed (newValueExpr, RecycleValueExpr, Restore).
ValueKept(before, text) ==
  LET read == Tokens(text)
      used == IF before = <<>> THEN ValueExpr ELSE LiteralExpr(ValueExpr, Tokens(before))
  IN  ValueOf(read).k # "error" =>
        LET again == Tokens(ValueRestore(LiteralExpr(used, read)))
        IN  Len(again) \in 1..Len(read) /\ Meaning(again) = Meaning(read)

\* A name a plan prints is read back as the same name and no further
\* (scanQuotedIdent, WriteName), for names of well-formed characters.
WellFormed(name) == \A p \in 0..(Len(name) - 1) :
  Byte(name, p) >= 128 =>
    \/ Rune(name, p).w > 1
    \/ \E k \in 1..2 : p - k >= 0 /\ Rune(name, p - k).w > k
NameKept(name) ==
  WellFormed(name) =>
    LET t == scan(NewScanner(WriteName(name) \o <<Dot>>)) IN
    t.tok = "quotedIdentifier" /\ t.lit = name /\ t.sc.p = Len(WriteName(name))

\* A comment between two pieces of a statement reads as a space, and the code of
\* an executable comment reads as if its marks were not there (startWithSlash,
\* startWithSharp, startWithDash).
CommentsRead(a, comment, code, b) ==
  Tokens(a \o comment \o b) = Tokens(a \o <<Blank>> \o code \o <<Blank>> \o b)

\* The statement that the tokens of a text make, for the statements Preview is
\* asked to recognise: the parser's own opinion.
StatementWords == {BEGIN, START, COMMIT, ROLLBACK, SELECT, DELETE, SET}
Word(w) == [tok |-> "keyword", lit |-> w]
StatementOf(tokens) ==
  CASE tokens = <<Word(BEGIN)>> -> "begin"
    [] tokens = <<Word(START), Word(TRANSACTION)>> -> "begin"
    [] tokens = <<Word(COMMIT)>> -> "commit"
    [] tokens = <<Word(ROLLBACK)>> -> "rollback"
    [] Len(tokens) > 1 /\ (\E w \in {SELECT, DELETE, SET} : tokens[1] = Word(w))
       /\ (\A i \in 2..Len(tokens) : tokens[i].tok \notin Unread
                                     /\ \A w \in StatementWords : tokens[i] # Word(w)) ->
         (CASE tokens[1].lit = SELECT -> "select" [] tokens[1].lit = DELETE -> "delete"
            [] OTHER -> "set")
    [] OTHER -> "none"

\* When the parser would read a text as one of these statements, Preview, which
\* decides who may run it, where, and whether the proxy handles it itself, does
\* not take it for another one: it is right, or does not know and leaves the
\* statement to the planner.  A word right behind #, or behind a comment's mark
\* inside an executable comment, is an exception: Preview takes it for the first
\* word (isSQLNotAllowedByUser, getExecuteFlagFromSlave, canHandleWithoutPlan).
PreviewAgrees(sql) ==
  LET kind == StatementOf(Tokens(sql)) IN
  kind # "none" =>
    \/ Preview(sql) = kind
    \/ Preview(sql) \in {"unknown", "comment"} /\ ~canHandleWithoutPlan(Preview(sql))

\* The proxy keeps a transaction's connections until the COMMIT or ROLLBACK
\* (docs/connection-pool.md), so it takes note of every statement that begins or
\* ends one: what the parser reads as such is handled without a plan.
TransactionsSeen(sql) ==
  StatementOf(Tokens(sql)) \in {"begin", "commit", "rollback"} => canHandleWithoutPlan(Preview(sql))

\* A prepared statement is run with each argument where the client put its
\* marker, read by the backend as that very value, and with its other text
\* unchanged: markers are told from question marks in string literals, and no
\* text ends its quotes early (calcParams, escapeSQL, GetRewriteSQL).
ParamsKept(sql, args) ==
  LET read == Tokens(sql)
      prepared == calcParams(sql)
      marks == SelectSeq([i \in DOMAIN read |-> i],
                         LAMBDA i : read[i] = [tok |-> "char", lit |-> <<Question>>])
      value(a) == IF a.quote THEN [tok |-> "stringLit", lit |-> a.text] ELSE Tokens(a.text)[1]
      run == [i \in DOMAIN read |->
                IF \E k \in DOMAIN marks : marks[k] = i
                THEN value(args[CHOOSE k \in DOMAIN marks : marks[k] = i]) ELSE read[i]]
  IN  /\ ~prepared.err /\ Len(prepared.offsets) = Len(marks)
      /\ Len(args) = Len(marks) => Tokens(GetRewriteSQL(sql, prepared.offsets, args)) = run

=============================================================================
