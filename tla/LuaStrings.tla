------------------------------ MODULE LuaStrings ------------------------------
(* The string library of Lua: lstrlib.c. The match of a pattern is computed by the *)
(* functions of the library, as operators that hand on the MatchState; a string is  *)
(* a sequence of characters, none of them zero, and "" reads as the zero behind the *)
(* last one. gsub goes on, between the matches, with what the functions it calls    *)
(* return.                                                                          *)
EXTENDS LuaBase

CONSTANT LUA_MAXCAPTURES    \* captures of a pattern (32)

chars(M, n) == Ch!Chars(string(M, n))
StrOf(s)    == Str(Ch!Joined(s))
At(s, n)    == Ch!At(s, n)
codeOf(c)   == IF c = "" THEN 0 ELSE Ch!codes[c]
tolower(c)  == IF c \in ToSet(Ch!upper) THEN Ch!lower[Ch!rank(c, Ch!upper)] ELSE c
toupper(c)  == IF c \in ToSet(Ch!lower) THEN Ch!upper[Ch!rank(c, Ch!lower)] ELSE c

str_len(M) == poscallC(M, <<Num(Len(chars(M, 1)))>>)
posrelat(pos, len) == IF pos >= 0 THEN pos ELSE IF pos + len + 1 >= 0 THEN pos + len + 1 ELSE 0
str_sub(M) ==
  LET s == chars(M, 1)
      start == posrelat(integer(M, 2), Len(s))
      end == posrelat(optint(M, 3, -1), Len(s))
  IN poscallC(M, <<StrOf(SubSeq(s, Max({start, 1}), Min({end, Len(s)})))>>)
str_reverse(M) == poscallC(M, <<StrOf(Reverse(chars(M, 1)))>>)
str_lower(M) == poscallC(M, <<StrOf([n \in DOMAIN chars(M, 1) |-> tolower(chars(M, 1)[n])])>>)
str_upper(M) == poscallC(M, <<StrOf([n \in DOMAIN chars(M, 1) |-> toupper(chars(M, 1)[n])])>>)
str_rep(M) == poscallC(M, <<Str(FoldLeft(LAMBDA b, n : b \o string(M, 1), "", [n \in 1..integer(M, 2) |-> n]))>>)
str_byte(M) ==
  LET s == chars(M, 1)
      from == posrelat(optint(M, 2, 1), Len(s))
      posi == IF from = 0 THEN 1 ELSE from
      pose == Min({posrelat(optint(M, 3, from), Len(s)), Len(s)})
  IN poscallC(M, [n \in 1..(pose - posi + 1) |-> Num(codeOf(s[posi + n - 1]))])
str_char(M) ==
  LET codesOf == [n \in 1..nargs(M) |-> luaV_tonumber(arg(M, n))]
  IN IF \E n \in DOMAIN codesOf : codesOf[n] = Nil \/ codesOf[n][2] \notin 0..255 THEN argerror(M)
     ELSE poscallC(M, <<StrOf([n \in DOMAIN codesOf |-> Ch!charOf(codesOf[n][2])])>>)
-----------------------------------------------------------------------------
(* A match: the subject and the pattern, the captures (where they begin and how   *)
(* long they are), the position e after the match, 0 for none, and an error.       *)
CAP_UNFINISHED == -1
CAP_POSITION   == -2
MatchState(src, pat) == [src |-> src, pat |-> pat, capture |-> <<>>, e |-> 0, err |-> ""]
ends(ms, s)     == [ms EXCEPT !.e = s]
fails(ms)       == ends(ms, 0)
anew(ms)        == [ms EXCEPT !.capture = <<>>, !.e = 0]
raises(ms, msg) == [ms EXCEPT !.e = 0, !.err = msg]
decided(ms)     == ms.e # 0 \/ ms.err # ""
src_end(ms)     == Len(ms.src) + 1

check_capture(ms, l) == l \in DOMAIN ms.capture /\ ms.capture[l].len # CAP_UNFINISHED
\* The last capture that is open, 0 for none.
capture_to_close(ms) == Max({0} \cup {l \in DOMAIN ms.capture : ms.capture[l].len = CAP_UNFINISHED})

\* The position after the class at p, 0 if the pattern ends before.
RECURSIVE bracketEnd(_, _)
bracketEnd(pat, q) ==
  LET next_ == IF At(pat, q) = "%" /\ At(pat, q + 1) # "" THEN q + 2 ELSE q + 1
  IN IF At(pat, q) = "" THEN 0
     ELSE IF At(pat, next_) = "]" THEN next_ + 1 ELSE bracketEnd(pat, next_)
classend(pat, p) ==
  CASE pat[p] = "%" -> IF At(pat, p + 1) = "" THEN 0 ELSE p + 2
    [] pat[p] = "[" -> bracketEnd(pat, IF At(pat, p + 1) = "^" THEN p + 2 ELSE p + 1)
    [] OTHER -> p + 1

ispunct(c) == codeOf(c) \in 33..126 /\ ~ Ch!isalnum(c)
match_class(c, cl) ==
  LET k == tolower(cl)
      res == CASE k = "a" -> Ch!isalpha(c)
               [] k = "c" -> codeOf(c) < 32 \/ codeOf(c) = 127
               [] k = "d" -> Ch!isdigit(c)
               [] k = "l" -> c \in ToSet(Ch!lower)
               [] k = "p" -> ispunct(c)
               [] k = "s" -> Ch!isspace(c)
               [] k = "u" -> c \in ToSet(Ch!upper)
               [] k = "w" -> Ch!isalnum(c)
               [] k = "x" -> Ch!isxdigit(c)
               [] k = "z" -> codeOf(c) = 0
  IN IF k \notin {"a", "c", "d", "l", "p", "s", "u", "w", "x", "z"} THEN cl = c ELSE res = (k = cl)

\* One of the items from q up to the bracket at ec.
RECURSIVE listed(_, _, _, _)
listed(c, pat, q, ec) ==
  CASE q >= ec -> FALSE
    [] q < ec /\ pat[q] = "%" -> match_class(c, At(pat, q + 1)) \/ listed(c, pat, q + 2, ec)
    [] q + 2 < ec /\ pat[q] # "%" /\ pat[q + 1] = "-" ->
         (codeOf(pat[q]) <= codeOf(c) /\ codeOf(c) <= codeOf(pat[q + 2])) \/ listed(c, pat, q + 3, ec)
    [] OTHER -> pat[q] = c \/ listed(c, pat, q + 1, ec)
matchbracketclass(c, pat, p, ec) ==
  IF pat[p + 1] = "^" THEN ~ listed(c, pat, p + 2, ec) ELSE listed(c, pat, p + 1, ec)
singlematch(c, pat, p, ep) ==
  CASE pat[p] = "." -> TRUE
    [] pat[p] = "%" -> match_class(c, pat[p + 1])
    [] pat[p] = "[" -> matchbracketclass(c, pat, p, ep - 1)
    [] OTHER -> pat[p] = c

\* The position after the text from s that the two characters at p balance, 0 for none.
matchbalance(ms, s, p) ==
  LET b == At(ms.pat, p)
      e == At(ms.pat, p + 1)
      count(n, c) == Cardinality({m \in (s + 1)..n : ms.src[m] = c})
      closed == {n \in (s + 1)..Len(ms.src) : count(n, e) = 1 + (IF b = e THEN 0 ELSE count(n, b))}
  IN IF At(ms.src, s) # b \/ closed = {} THEN 0 ELSE Min(closed) + 1

\* Where the match may go on, the positions to try in order: each with the captures it
\* sees, so that an attempt that fails leaves none of its own. A match that is decided
\* needs no further pattern.
goes(ms, s, p) == << [ms |-> ms, s |-> s, p |-> p] >>
stops(ms)      == goes(ms, 0, 0)

\* How many single characters from s on the item at p matches.
repeats(ms, s, p, ep) ==
  LET m(n) == n < src_end(ms) /\ singlematch(ms.src[n], ms.pat, p, ep)
  IN (CHOOSE n \in s..src_end(ms) : ~ m(n) /\ \A k \in s..(n - 1) : m(k)) - s
min_expand(ms, s, i, ep) == [n \in 1..(i + 1) |-> [ms |-> ms, s |-> s + n - 1, p |-> ep + 1]]
max_expand(ms, s, i, ep) == Reverse(min_expand(ms, s, i, ep))

start_capture(ms, s, p, what) ==
  IF Len(ms.capture) >= LUA_MAXCAPTURES THEN stops(raises(ms, "too many captures"))
  ELSE goes([ms EXCEPT !.capture = Append(@, [init |-> s, len |-> what])], s, p)
end_capture(ms, s, p) ==
  LET l == capture_to_close(ms)
  IN IF l = 0 THEN stops(raises(ms, "invalid pattern capture"))
     ELSE goes([ms EXCEPT !.capture[l].len = s - ms.capture[l].init], s, p)
match_capture(ms, s, l) ==
  LET c == ms.capture[l]
  IN IF c.len >= 0 /\ SubSeq(ms.src, s, Min({s + c.len, src_end(ms)}) - 1) = SubSeq(ms.src, c.init, c.init + c.len - 1)
     THEN s + c.len ELSE 0

\* The item from p up to ep, with the suffix that follows it.
matchItem(ms, s, p, ep) ==
  LET suffixed(suffix, i) ==
        CASE suffix = "?" -> max_expand(ms, s, Min({i, 1}), ep)
          [] suffix = "*" -> max_expand(ms, s, i, ep)
          [] suffix = "+" -> IF i = 0 THEN <<>> ELSE max_expand(ms, s + 1, i - 1, ep)
          [] suffix = "-" -> min_expand(ms, s, i, ep)
          [] OTHER -> IF i = 0 THEN <<>> ELSE goes(ms, s + 1, ep)
  IN IF ep = 0 THEN stops(raises(ms, "malformed pattern"))
     ELSE suffixed(At(ms.pat, ep), repeats(ms, s, p, ep))
matchFrontier(ms, s, p, ep) ==
  LET in(c) == matchbracketclass(c, ms.pat, p, ep - 1)
  IN CASE At(ms.pat, p) # "[" -> stops(raises(ms, "missing '[' after '%f' in pattern"))
       [] At(ms.pat, p) = "[" /\ ep = 0 -> stops(raises(ms, "malformed pattern"))
       [] OTHER -> IF in(At(ms.src, s - 1)) \/ ~ in(At(ms.src, s)) THEN <<>> ELSE goes(ms, s, ep)
\* One round of match: what the pattern has at p.
matchHere(ms, s, p) ==
  LET c == At(ms.pat, p)
      d == At(ms.pat, p + 1)
      l == Ch!digitValue(d)
      on(at, q) == IF at = 0 THEN <<>> ELSE goes(ms, at, q)
  IN CASE c = "" -> stops(ends(ms, s))
       [] c = "(" -> IF d = ")" THEN start_capture(ms, s, p + 2, CAP_POSITION)
                     ELSE start_capture(ms, s, p + 1, CAP_UNFINISHED)
       [] c = ")" -> end_capture(ms, s, p + 1)
       [] c = "%" /\ d = "b" -> IF At(ms.pat, p + 3) = "" THEN stops(raises(ms, "unbalanced pattern"))
                                ELSE on(matchbalance(ms, s, p + 2), p + 4)
       [] c = "%" /\ d = "f" ->
            matchFrontier(ms, s, p + 2, IF At(ms.pat, p + 2) = "[" THEN classend(ms.pat, p + 2) ELSE 0)
       [] c = "%" /\ Ch!isdigit(d) -> IF check_capture(ms, l) THEN on(match_capture(ms, s, l), p + 2)
                                      ELSE stops(raises(ms, "invalid capture index"))
       [] c = "$" /\ d = "" -> IF s = src_end(ms) THEN stops(ends(ms, s)) ELSE <<>>
       [] OTHER -> matchItem(ms, s, p, classend(ms.pat, p))
\* The pattern from p on matches from s on: the first attempt that does not fail decides.
RECURSIVE match(_, _, _)
match(ms, s, p) ==
  LET try(r, a) == IF decided(r) THEN r ELSE IF decided(a.ms) THEN a.ms ELSE match(a.ms, a.s, a.p)
  IN FoldLeft(try, fails(ms), matchHere(ms, s, p))

\* The first match of the pattern, from p on, at s or behind it; the start is left in s.
RECURSIVE firstMatch(_, _, _, _)
firstMatch(ms, s, p, anchor) ==
  LET next(r) == IF decided(r) \/ anchor \/ s = src_end(ms) THEN [ms |-> r, s |-> s]
                 ELSE firstMatch(r, s + 1, p, anchor)
  IN next(match(anew(ms), s, p))

\* A capture as a value, Nil if there is none; the capture 0 of a pattern without
\* captures is the whole match.
get_onecapture(ms, i, s) ==
  LET c == ms.capture[i + 1]
  IN CASE i >= Len(ms.capture) -> IF i = 0 THEN StrOf(SubSeq(ms.src, s, ms.e - 1)) ELSE Nil
       [] i < Len(ms.capture) /\ c.len = CAP_UNFINISHED -> Nil
       [] i < Len(ms.capture) /\ c.len = CAP_POSITION -> Num(c.init)
       [] OTHER -> StrOf(SubSeq(ms.src, c.init, c.init + c.len - 1))
captures(ms, s, whole) ==
  [n \in 1..(IF ms.capture = <<>> /\ whole THEN 1 ELSE Len(ms.capture)) |-> get_onecapture(ms, n - 1, s)]
captureError(M) == luaG_runerror(M, "unfinished capture")
returnCaptures(M, first, vals) ==
  IF Nil \in ToSet(vals) THEN captureError(M) ELSE poscallC(M, first \o vals)

\* The first place of s2 in s from init on, 0 for none.
lmemfind(s, s2, init) ==
  LET places == {n \in init..(Len(s) - Len(s2) + 1) : SubSeq(s, n, n + Len(s2) - 1) = s2}
  IN IF places = {} THEN 0 ELSE Min(places)
SPECIALS == {"^", "$", "*", "+", "?", ".", "(", "[", "%", "-"}
str_find_found(M, find, ms, s) ==
  CASE ms.err # "" -> luaG_runerror(M, ms.err)
    [] ms.err = "" /\ ms.e = 0 -> poscallC(M, <<Nil>>)
    [] OTHER -> returnCaptures(M, IF find THEN <<Num(s), Num(ms.e - 1)>> ELSE <<>>, captures(ms, s, ~ find))
str_find_aux(M, find) ==
  LET s == chars(M, 1)
      pat == chars(M, 2)
      from == posrelat(optint(M, 3, 1), Len(s))
      init == Max({1, Min({from, Len(s) + 1})})
      plain == find /\ (~ l_isfalse(arg(M, 4)) \/ ToSet(pat) \cap SPECIALS = {})
      place == lmemfind(s, pat, init)
      anchor == At(pat, 1) = "^"
      found(r) == str_find_found(M, find, r.ms, r.s)
  IN IF plain THEN poscallC(M, IF place = 0 THEN <<Nil>> ELSE <<Num(place), Num(place + Len(pat) - 1)>>)
     ELSE found(firstMatch(MatchState(s, pat), init, IF anchor THEN 2 ELSE 1, anchor))

\* The iterator of gmatch keeps the subject, the pattern and, in an upvalue of its
\* own, where it goes on.
gmatch(M) ==
  LET u == Len(M.uv) + 1
  IN poscallC([M EXCEPT !.uv = Append(@, [at |-> 0, th |-> 0, v |-> Num(1)])],
              << <<"cfunction", "gmatch_aux", chars(M, 1), chars(M, 2), u>> >>)
gmatch_found(M, f, ms, s) ==
  CASE ms.err # "" -> luaG_runerror(M, ms.err)
    [] ms.err = "" /\ ms.e = 0 -> poscallC(M, <<>>)
    [] OTHER -> returnCaptures([M EXCEPT !.uv[f[5]].v = Num(IF ms.e = s THEN ms.e + 1 ELSE ms.e)],
                               <<>>, captures(ms, s, TRUE))
gmatch_aux(M, f) ==
  LET src == M.uv[f[5]].v[2]
      found(r) == gmatch_found(M, f, r.ms, r.s)
  IN IF src > Len(f[3]) + 1 THEN poscallC(M, <<>>)
     ELSE found(firstMatch(MatchState(f[3], f[4]), src, 1, FALSE))
-----------------------------------------------------------------------------
(* gsub. The frame of one that waits has the match, where it began (src), the      *)
(* number of matches n, the text b so far and whether the loop is over.            *)
\* The replacement text for a match: %0 to %9 stand for captures; Nil is an error.
add_s(ms, news, src) ==
  LET capture(d) == IF d = "0" THEN StrOf(SubSeq(ms.src, src, ms.e - 1))
                    ELSE get_onecapture(ms, Ch!digitValue(d) - 1, src)
      add(acc, n) ==
        CASE acc.text = Nil -> acc
          [] acc.text # Nil /\ acc.esc -> [esc |-> FALSE, text |->
               IF ~ Ch!isdigit(news[n]) THEN Str(acc.text[2] \o news[n])
               ELSE IF capture(news[n]) = Nil THEN Nil
               ELSE Str(acc.text[2] \o luaV_tostring(capture(news[n]))[2])]
          [] OTHER -> IF news[n] = "%" THEN [acc EXCEPT !.esc = TRUE]
                      ELSE [acc EXCEPT !.text = Str(@[2] \o news[n])]
  IN FoldLeft(add, [esc |-> FALSE, text |-> Str("")], [n \in DOMAIN news |-> n]).text

\* After a match or none at src: past the match, or one character, or the end.
advanced(s) ==
  CASE s.ms.e > s.src -> [s EXCEPT !.src = s.ms.e, !.over = At(s.ms.pat, 1) = "^"]
    [] s.ms.e <= s.src /\ s.src < src_end(s.ms) ->
         [s EXCEPT !.src = @ + 1, !.b = @ \o s.ms.src[s.src], !.over = At(s.ms.pat, 1) = "^"]
    [] OTHER -> [s EXCEPT !.over = TRUE]
\* The text for the value v that replaces a match, Nil for an error; a false one keeps the match.
add_value(s, v) ==
  CASE l_isfalse(v) -> StrOf(SubSeq(s.ms.src, s.src, s.ms.e - 1))
    [] ~ l_isfalse(v) /\ stringable(v) -> luaV_tostring(v)
    [] OTHER -> Nil
replaced(M, s, vals) ==
  IF Nil \in ToSet(vals) THEN captureError(M)
  ELSE IF ttype(arg(M, 3)) = "function" THEN lua_call(M, arg(M, 3), vals, s)
  ELSE luaV_gettable(PushC(Push(M, <<Nil>>), [s EXCEPT !.k = "index"]), arg(M, 3), Head(vals), Th(M).top)
\* The rounds that need no call are computed on the way.
RECURSIVE gsub(_, _)
gsub(M, s) ==
  LET over == s.over \/ s.n >= optint(M, 4, Len(s.ms.src) + 1)
      ms == match(anew(s.ms), s.src, IF At(s.ms.pat, 1) = "^" THEN 2 ELSE 1)
      text(r) == add_s(r, chars(M, 3), s.src)
      next(r) ==
        CASE r.err # "" -> luaG_runerror(M, r.err)
          [] r.err = "" /\ r.e > 0 /\ ~ stringable(arg(M, 3)) ->
               replaced(M, [s EXCEPT !.ms = r, !.n = @ + 1],
                        IF ttype(arg(M, 3)) = "function" THEN captures(r, s.src, TRUE)
                        ELSE <<get_onecapture(r, 0, s.src)>>)
          [] r.err = "" /\ r.e > 0 /\ stringable(arg(M, 3)) /\ text(r) = Nil -> captureError(M)
          [] OTHER -> gsub(M, advanced(IF r.e = 0 THEN [s EXCEPT !.ms = r]
                                       ELSE [s EXCEPT !.ms = r, !.n = @ + 1, !.b = @ \o text(r)[2]]))
  IN IF over THEN poscallC(M, <<Str(s.b \o Ch!Joined(SubSeq(s.ms.src, s.src, Len(s.ms.src)))), Num(s.n)>>)
     ELSE next(ms)
\* The value v for the match.
gsubValue(M, s, v) ==
  IF add_value(s, v) = Nil THEN luaG_runerror(M, "invalid replacement value")
  ELSE gsub(M, advanced([s EXCEPT !.b = @ \o add_value(s, v)[2]]))
str_gsub(M) ==
  IF ttype(arg(M, 3)) \notin {"number", "string", "function", "table"} THEN argerror(M)
  ELSE gsub(M, [k |-> "lib", f |-> "gsub", ms |-> MatchState(chars(M, 1), chars(M, 2)), src |-> 1,
                n |-> 0, b |-> "", over |-> FALSE])
-----------------------------------------------------------------------------
(* format: the conversions of integers and strings (numbers have no fraction).     *)
FLAGS == {"-", "+", " ", "#", "0"}
\* A conversion at n: its flags, width, precision (-1 for none) and where its letter is.
scanformat(s, n) ==
  LET two(at) == IF ~ Ch!isdigit(At(s, at)) THEN at
                 ELSE IF Ch!isdigit(At(s, at + 1)) THEN at + 2 ELSE at + 1
      w == Ch!spanOf(s, n, LAMBDA c : c \in FLAGS)
      dot == two(w)
      end == IF At(s, dot) = "." THEN two(dot + 1) ELSE dot
  IN [flags |-> ToSet(SubSeq(s, n, w - 1)), width |-> Ch!valueOf(s, w, dot, 10),
      prec |-> IF end > dot THEN Ch!valueOf(s, dot + 1, end, 10) ELSE -1, at |-> end,
      bad |-> w - n > Cardinality(FLAGS) \/ Ch!isdigit(At(s, end))]
filled(c, n) == Ch!Joined([k \in 1..n |-> c])
\* sprintf of one item: a sign or prefix, and the body.
padded(f, sign, body, zeros) ==
  LET n == f.width - Len(sign) - Len(body)
  IN CASE "-" \in f.flags -> sign \o body \o filled(" ", n)
       [] "-" \notin f.flags /\ zeros /\ "0" \in f.flags /\ f.prec < 0 -> sign \o filled("0", n) \o body
       [] OTHER -> filled(" ", n) \o sign \o body
RECURSIVE inRadix(_, _)
inRadix(n, radix) ==
  (IF n < radix THEN "" ELSE inRadix(n \div radix, radix)) \o (Ch!digits \o Ch!lower)[(n % radix) + 1]
numeral(f, n, radix) ==
  LET body == IF n = 0 /\ f.prec = 0 THEN "" ELSE inRadix(n, radix)
  IN filled("0", f.prec - Len(body)) \o body
formatted(f, conv, v) ==
  LET n == luaV_tonumber(v)[2]
      sign == IF n < 0 THEN "-" ELSE IF "+" \in f.flags THEN "+" ELSE IF " " \in f.flags THEN " " ELSE ""
      hex == numeral(f, n, 16)
      prefix(p) == IF "#" \in f.flags /\ n # 0 THEN p ELSE ""
      s == luaV_tostring(v)[2]
      big(t) == Ch!Joined([k \in 1..Len(t) |-> toupper(SubSeq(t, k, k))])
  IN CASE conv = "c" -> padded(f, "", Ch!charOf(n), FALSE)
       [] conv \in {"d", "i"} -> padded(f, sign, numeral(f, IF n < 0 THEN -n ELSE n, 10), TRUE)
       [] conv = "u" -> padded(f, "", numeral(f, n, 10), TRUE)
       [] conv = "o" -> padded(f, prefix("0"), numeral(f, n, 8), TRUE)
       [] conv = "x" -> padded(f, prefix("0x"), hex, TRUE)
       [] conv = "X" -> padded(f, prefix("0X"), big(hex), TRUE)
       [] conv = "s" -> IF f.prec < 0 /\ Len(s) >= 100 THEN s
                        ELSE padded(f, "", IF f.prec < 0 THEN s ELSE SubSeq(s, 1, Min({f.prec, Len(s)})), FALSE)
addquoted(s) ==
  LET quoted(c) == IF c \in {"\"", "\\", "\n"} THEN "\\" \o c ELSE IF c = "\r" THEN "\\r"
                   ELSE IF c = "NUL" THEN "\\000" ELSE c
  IN "\"" \o FoldLeft(LAMBDA b, c : b \o quoted(c), "", s) \o "\""
\* The text b so far, the format from n on, the last argument used.
RECURSIVE format(_, _, _, _)
format(M, b, n, last) ==
  LET s == chars(M, 1)
      f == scanformat(s, n + 1)
      conv == At(s, f.at)
      v == arg(M, last + 1)
      needs == IF conv \in {"q", "s"} THEN "string" ELSE "number"
  IN CASE n > Len(s) -> poscallC(M, <<Str(b)>>)
       [] At(s, n) # "" /\ At(s, n) # "%" -> format(M, b \o s[n], n + 1, last)
       [] At(s, n) = "%" /\ At(s, n + 1) = "%" -> format(M, b \o "%", n + 2, last)
       [] At(s, n) = "%" /\ At(s, n + 1) # "%" /\ last = nargs(M) -> argerror(M)
       [] At(s, n) = "%" /\ At(s, n + 1) # "%" /\ last < nargs(M) ->
            IF f.bad THEN luaG_runerror(M, "invalid format")
            ELSE IF conv \notin {"c", "d", "i", "o", "u", "x", "X", "q", "s"}
                 THEN luaG_runerror(M, "invalid option to 'format'")
            ELSE IF ~ accepts(needs, v) THEN argerror(M)
            ELSE format(M, b \o (IF conv = "q" THEN addquoted(chars(M, last + 1)) ELSE formatted(f, conv, v)),
                        f.at + 1, last + 1)
-----------------------------------------------------------------------------
strlib == [byte |-> <<"string", "number?", "number?">>, char |-> <<>>,
           find |-> <<"string", "string", "number?">>, format |-> <<"string">>,
           gfind |-> <<"string", "string">>, gmatch |-> <<"string", "string">>, gmatch_aux |-> <<>>,
           gsub |-> <<"string", "string", "any", "number?">>, len |-> <<"string">>,
           lower |-> <<"string">>, match |-> <<"string", "string", "number?">>,
           rep |-> <<"string", "number">>, reverse |-> <<"string">>,
           sub |-> <<"string", "number", "number?">>, upper |-> <<"string">>]
StringFunction(M, f) ==
  LET name == f[2]
  IN IF ~ checked(M, strlib[name]) THEN argerror(M)
     ELSE CASE name = "byte" -> str_byte(M)
            [] name = "char" -> str_char(M)
            [] name \in {"find", "match"} -> str_find_aux(M, name = "find")
            [] name = "format" -> format(M, "", 1, 1)
            [] name \in {"gmatch", "gfind"} -> gmatch(M)
            [] name = "gmatch_aux" -> gmatch_aux(M, f)
            [] name = "gsub" -> str_gsub(M)
            [] name = "len" -> str_len(M)
            [] name = "lower" -> str_lower(M)
            [] name = "rep" -> str_rep(M)
            [] name = "reverse" -> str_reverse(M)
            [] name = "sub" -> str_sub(M)
            [] name = "upper" -> str_upper(M)
StringResult(M, f, v) == gsubValue(M, f, v)
=============================================================================
