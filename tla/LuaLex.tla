------------------------------- MODULE LuaLex --------------------------------
(* The lexical analyzer of Lua: llex.c, with the conversion of numerals of      *)
(* lobject.c. A text is a sequence of characters; a character is a string of    *)
(* length one, or NUL, BEL, BS, VT or grave. LS is the LexState: the text z, the *)
(* index i of the current character, the line, the buffer of the token being      *)
(* read, and an error message once there is one (nothing moves after it).         *)
EXTENDS Integers, Sequences, SequencesExt, TLC

Chars(string) == [n \in 1..Len(string) |-> SubSeq(string, n, n)]
Joined(chars) == FoldLeft(LAMBDA s, c : s \o c, "", chars)

digits == Chars("0123456789")
lower  == Chars("abcdefghijklmnopqrstuvwxyz")
upper  == Chars("ABCDEFGHIJKLMNOPQRSTUVWXYZ")
rank(c, seq) == CHOOSE n \in DOMAIN seq : seq[n] = c
isdigit(c) == c \in {"0", "1", "2", "3", "4", "5", "6", "7", "8", "9"}
isalpha(c) == c \in ToSet(lower) \cup ToSet(upper)
isalnum(c) == isdigit(c) \/ isalpha(c)
isspace(c) == c \in {" ", "\t", "\n", "\r", "\f", "VT"}
isxdigit(c) == isdigit(c) \/ c \in ToSet(SubSeq(lower, 1, 6)) \cup ToSet(SubSeq(upper, 1, 6))
digitValue(c) ==
  IF isdigit(c) THEN rank(c, digits) - 1
  ELSE IF c \in ToSet(lower) THEN rank(c, lower) + 9 ELSE rank(c, upper) + 9
-----------------------------------------------------------------------------
(* Numerals. A value is a mantissa and an exponent of ten.                      *)
At(s, n) == IF n \in DOMAIN s THEN s[n] ELSE ""
\* The first index from n on whose character is not of the kind.
spanOf(s, n, kind(_)) ==
  CHOOSE m \in n..(Len(s) + 1) :
    /\ \A k \in n..(m - 1) : kind(s[k])
    /\ m = Len(s) + 1 \/ ~ kind(s[m])
valueOf(s, from, to, radix) ==
  FoldLeft(LAMBDA v, c : v * radix + digitValue(c), 0, SubSeq(s, from, to - 1))
RECURSIVE normal(_, _)
normal(m, e) == IF m # 0 /\ m % 10 = 0 THEN normal(m \div 10, e + 1)
                ELSE [ok |-> TRUE, m |-> m, e |-> IF m = 0 THEN 0 ELSE e]
malformed == [ok |-> FALSE, m |-> 0, e |-> 0]

\* A C string ends at its first NUL.
cstring(s) == SubSeq(s, 1, spanOf(s, 1, LAMBDA c : c # "NUL") - 1)

\* The number at the start of s, its sign taken off, and where it ends (0: none).
strtod(s, n) ==
  LET int == spanOf(s, n, isdigit)
      frac == IF At(s, int) = "." THEN spanOf(s, int + 1, isdigit) ELSE int
      point == IF frac > int THEN int + 1 ELSE int
      signAt == IF At(s, frac + 1) \in {"+", "-"} THEN frac + 2 ELSE frac + 1
      exp == spanOf(s, IF signAt <= Len(s) THEN signAt ELSE Len(s) + 1, isdigit)
      hasExp == At(s, frac) \in {"e", "E"} /\ exp > signAt
      e == IF At(s, frac + 1) = "-" THEN -valueOf(s, signAt, exp, 10) ELSE valueOf(s, signAt, exp, 10)
      hex == spanOf(s, IF n + 2 <= Len(s) THEN n + 2 ELSE Len(s) + 1, isxdigit)
      mantissa == valueOf(SubSeq(s, n, int - 1) \o SubSeq(s, point, frac - 1), 1,
                          1 + (int - n) + (frac - point), 10)
  IN IF At(s, n) = "0" /\ At(s, n + 1) \in {"x", "X"} /\ hex > n + 2
     THEN [end |-> hex, v |-> normal(valueOf(s, n + 2, hex, 16), 0)]
     ELSE IF int = n /\ frac <= int + 1 THEN [end |-> 0, v |-> malformed]
     ELSE [end |-> IF hasExp THEN exp ELSE frac,
           v |-> normal(mantissa, (IF hasExp THEN e ELSE 0) - (frac - point))]

luaO_str2d(s) ==
  LET c == cstring(s)
      start == spanOf(c, 1, isspace)
      signed == At(c, start) \in {"+", "-"}
      d == strtod(c, IF signed THEN start + 1 ELSE start)
      rest == spanOf(c, d.end, isspace)
  IN IF d.end = 0 THEN malformed
     ELSE IF rest <= Len(c) THEN malformed
     ELSE IF At(c, start) = "-" THEN [d.v EXCEPT !.m = -@] ELSE d.v
integerOf(v) == v.m * 10 ^ v.e
-----------------------------------------------------------------------------
(* Reading characters.                                                          *)
luaX_setinput(z) == [z |-> z, i |-> 1, line |-> 1, buff |-> <<>>, err |-> "", tok |-> "", sem |-> <<>>]

current(LS) == At(LS.z, LS.i)
atEnd(LS)   == LS.i > Len(LS.z)
currIsNewline(LS) == current(LS) \in {"\n", "\r"}
next(LS)    == [LS EXCEPT !.i = IF atEnd(LS) THEN @ ELSE @ + 1]
save(LS, c) == [LS EXCEPT !.buff = Append(@, c)]
save_and_next(LS) == next(save(LS, current(LS)))
luaX_lexerror(LS, msg) == [LS EXCEPT !.err = msg, !.tok = "<error>"]

\* Two different newline characters in a row are one line end.
inclinenumber(LS) ==
  LET s == next(LS)
      t == IF currIsNewline(s) /\ current(s) # current(LS) THEN next(s) ELSE s
  IN [t EXCEPT !.line = @ + 1]

\* strchr also finds the NUL that ends the set.
check_next(LS, set) == ~ atEnd(LS) /\ current(LS) \in set \cup {"NUL"}

saveWhile(LS, kind(_)) ==
  LET e == spanOf(LS.z, LS.i, kind)
  IN [LS EXCEPT !.i = e, !.buff = @ \o SubSeq(LS.z, LS.i, e - 1)]
token(LS, t) == [LS EXCEPT !.tok = t]

read_numeral(LS) ==
  LET s == saveWhile(LS, LAMBDA c : isdigit(c) \/ c = ".")
      e == IF check_next(s, {"E", "e"})
           THEN LET q == save_and_next(s)
                IN IF check_next(q, {"+", "-"}) THEN save_and_next(q) ELSE q
           ELSE s
      n == saveWhile(e, LAMBDA c : isalnum(c) \/ c = "_")
  IN IF luaO_str2d(n.buff).ok THEN token([n EXCEPT !.sem = n.buff], "<number>")
     ELSE luaX_lexerror(n, "malformed number")

\* Reads [==[ or ]==] up to its last bracket; sep is the number of = or negative.
skip_sep(LS) ==
  LET s == saveWhile(save_and_next(LS), LAMBDA c : c = "=")
      count == s.i - LS.i - 1
  IN [ls |-> s, sep |-> IF current(s) = current(LS) THEN count ELSE -count - 1]

\* A long string or comment, after its first bracket and separator.
RECURSIVE longBody(_, _)
longBody(LS, sep) ==
  LET k == skip_sep(LS)
  IN IF atEnd(LS) THEN luaX_lexerror(LS, "unfinished long string")
     ELSE CASE current(LS) = "[" ->
                 IF k.sep # sep THEN longBody(k.ls, sep)
                 ELSE IF sep = 0 THEN luaX_lexerror(k.ls, "nesting of [[...]] is deprecated")
                 ELSE longBody(save_and_next(k.ls), sep)
            [] current(LS) = "]" ->
                 IF k.sep = sep THEN save_and_next(k.ls) ELSE longBody(k.ls, sep)
            [] currIsNewline(LS) -> longBody(inclinenumber(save(LS, "\n")), sep)
            [] OTHER -> longBody(save_and_next(LS), sep)
read_long_string(LS, sep) ==
  LET s == save_and_next(LS)
      e == longBody(IF currIsNewline(s) THEN inclinenumber(s) ELSE s, sep)
  IN IF e.err # "" THEN e
     ELSE token([e EXCEPT !.sem = SubSeq(e.buff, 3 + sep, Len(e.buff) - (2 + sep))], "<string>")

escapes == [a |-> "BEL", b |-> "BS", f |-> "\f", n |-> "\n", r |-> "\r", t |-> "\t", v |-> "VT"]
\* The codes of the characters.
ascii == Chars(" !\"#$%&'()*+,-./0123456789:;<=>?@") \o upper \o Chars("[\\]^_") \o <<"grave">> \o lower \o Chars("{|}~")
controls == ("NUL" :> 0) @@ ("BEL" :> 7) @@ ("BS" :> 8) @@ ("\t" :> 9) @@ ("\n" :> 10)
            @@ ("VT" :> 11) @@ ("\f" :> 12) @@ ("\r" :> 13)
codes == controls @@ [c \in ToSet(ascii) |-> rank(c, ascii) + 31]
charOf(code) == IF \E c \in DOMAIN codes : codes[c] = code
                THEN CHOOSE c \in DOMAIN codes : codes[c] = code ELSE "?"

\* After the backslash.
readEscape(LS) ==
  LET c == current(LS)
      three == spanOf(LS.z, LS.i, isdigit)
      end == IF three > LS.i + 3 THEN LS.i + 3 ELSE three
      code == valueOf(LS.z, LS.i, end, 10)
  IN CASE c \in DOMAIN escapes -> next(save(LS, escapes[c]))
       [] currIsNewline(LS) -> inclinenumber(save(LS, "\n"))
       [] atEnd(LS) -> LS
       [] isdigit(c) -> IF code > 255 THEN luaX_lexerror(LS, "escape sequence too large")
                        ELSE save([LS EXCEPT !.i = end], charOf(code))
       [] OTHER -> save_and_next(LS)
RECURSIVE stringBody(_, _)
stringBody(LS, del) ==
  IF LS.err # "" THEN LS
  ELSE CASE atEnd(LS) \/ currIsNewline(LS) -> luaX_lexerror(LS, "unfinished string")
         [] current(LS) = del -> save_and_next(LS)
         [] current(LS) = "\\" -> stringBody(readEscape(next(LS)), del)
         [] OTHER -> stringBody(save_and_next(LS), del)
read_string(LS) ==
  LET e == stringBody(save_and_next(LS), current(LS))
  IN IF e.err # "" THEN e
     ELSE token([e EXCEPT !.sem = SubSeq(e.buff, 2, Len(e.buff) - 1)], "<string>")
-----------------------------------------------------------------------------
(* The next token: a symbol or a reserved word, or <name>, <number>, <string>   *)
(* with the text in sem.                                                        *)
ReservedWords ==
  {"and", "break", "do", "else", "elseif", "end", "false", "for", "function", "if", "in",
   "local", "nil", "not", "or", "repeat", "return", "then", "true", "until", "while"}
withEquals(LS, one, two) ==
  LET s == next(LS) IN IF current(s) = "=" THEN token(next(s), two) ELSE token(s, one)
toLineEnd(LS) ==
  [LS EXCEPT !.i = spanOf(LS.z, LS.i, LAMBDA c : c \notin {"\n", "\r"})]

RECURSIVE scan(_)
\* After two dashes.
comment(LS) ==
  LET k == skip_sep(LS)
      long == read_long_string([k.ls EXCEPT !.buff = <<>>], k.sep)
  IN IF current(LS) = "[" /\ k.sep >= 0
     THEN IF long.err # "" THEN long ELSE scan([long EXCEPT !.buff = <<>>, !.sem = <<>>])
     ELSE scan(toLineEnd([LS EXCEPT !.buff = <<>>]))
dots(LS) ==
  LET s == save_and_next(LS)
      d == save_and_next(s)
  IN IF check_next(s, {"."})
     THEN IF check_next(d, {"."}) THEN token(save_and_next(d), "...") ELSE token(d, "..")
     ELSE IF isdigit(current(s)) THEN read_numeral(s) ELSE token(s, ".")
word(LS) ==
  LET s == saveWhile(LS, LAMBDA c : isalnum(c) \/ c = "_")
      w == Joined(s.buff)
  IN IF w \in ReservedWords THEN token(s, w) ELSE token([s EXCEPT !.sem = s.buff], "<name>")
scan(LS) ==
  LET c == current(LS)
      k == skip_sep(LS)
  IN CASE atEnd(LS) -> token(LS, "<eof>")
       [] currIsNewline(LS) -> scan(inclinenumber(LS))
       [] c = "-" -> IF current(next(LS)) # "-" THEN token(next(LS), "-") ELSE comment(next(next(LS)))
       [] c = "[" -> IF k.sep >= 0 THEN read_long_string(k.ls, k.sep)
                     ELSE IF k.sep = -1 THEN token(k.ls, "[")
                     ELSE luaX_lexerror(k.ls, "invalid long string delimiter")
       [] c \in {"=", "<", ">", "~"} -> withEquals(LS, c, c \o "=")
       [] c \in {"\"", "'"} -> read_string(LS)
       [] c = "." -> dots(LS)
       [] isspace(c) /\ ~ currIsNewline(LS) -> scan(next(LS))
       [] isdigit(c) -> read_numeral(LS)
       [] isalpha(c) \/ c = "_" -> word(LS)
       [] OTHER -> token(next(LS), c)
llex(LS) == scan([LS EXCEPT !.buff = <<>>, !.sem = <<>>])

\* What the parser is given of a text: the tokens, with a newline where each line
\* ends, as the strings LuaParser reads. A string's token is its text in quotes.
RECURSIVE tokensFrom(_)
tokensFrom(LS) ==
  LET s == llex(LS)
      t == CASE s.tok = "<string>" -> "'" \o Joined(s.sem) \o "'"
             [] s.tok \in {"<name>", "<number>"} -> Joined(s.sem)
             [] OTHER -> s.tok
      lines == [n \in 1..(s.line - LS.line) |-> "\n"]
  IN IF s.err # "" THEN lines \o <<"<error>">>
     ELSE IF s.tok = "<eof>" THEN lines ELSE lines \o <<t>> \o tokensFrom(s)
tokensOf(text) == tokensFrom(luaX_setinput(Chars(text)))
=============================================================================
