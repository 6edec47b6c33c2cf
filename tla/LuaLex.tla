------------------------------- MODULE LuaLex -------------------------------
(***************************************************************************)
(* The scanner, 3rd/lua/llex.c: from the bytes of a chunk to tokens, one character of             *)
(* lookahead at a time, and one token ahead when the parser asks.  What comes out of a text is     *)
(* what LuaParser starts from.                                                        *)
(*                                                                          *)
(* A call of llex() is a step.  ls is the state of the scanner: z, what is still to be read, the     *)
(* current character first; linenumber; buff; the token, empty until it is found.  Tokens are          *)
(* <<"fixed", text>>, <<"name", text>>, <<"string", bytes>>, <<"number", value>>, <<"eos">> and           *)
(* <<"error", what>>, behind which nothing is scanned.                                        *)
(*                                                                          *)
(* Left out: the anchoring of strings against the collector, limits of memory, decimal points         *)
(* other than a dot, and zeros in a chunk.                                                   *)
(***************************************************************************)
EXTENDS LuaObject

CONSTANTS
  Chunks,       (* the texts a program gives to the scanner, each a list of items             *)
  MAXLINES      (* MAX_INT, for lines                                                  *)

VARIABLES
  chunk,        \* the text
  ls,
  ahead,        \* the token that was looked at, with the line it ends in, if any
  given         \* history: the tokens that the parser has got

lexvars == <<chunk, ls, ahead, given>>

EOZ == -1
Newlines == {10, 13}
NotNewlines == (1..255) \ Newlines
Fixed(text) == <<"fixed", text>>

Current(s) == IF s.z = <<>> THEN EOZ ELSE Head(s.z)
Looks(s, c) == Current(s) = Byte[c]
AtNewline(s) == Current(s) \in Newlines
Going(s) == s.token = <<>>

next(s) == [s EXCEPT !.z = IF @ = <<>> THEN @ ELSE Tail(@)]
save(s, c) == [s EXCEPT !.buff = Append(@, c)]
save_and_next(s) == next(save(s, Current(s)))
buffremove(s, n) == [s EXCEPT !.buff = SubSeq(@, 1, Len(@) - n)]
resetbuffer(s) == [s EXCEPT !.buff = <<>>]
TokenIs(s, token) == [s EXCEPT !.token = token]
lexerror(s, what) == TokenIs(s, <<"error", what>>)
esccheck(s, ok, what) == IF ok THEN s ELSE lexerror(s, what)

RECURSIVE Drop(_, _), Take(_, _)
Drop(s, set) == IF Current(s) \in set THEN Drop(next(s), set) ELSE s
Take(s, set) == IF Current(s) \in set THEN Take(save_and_next(s), set) ELSE s

(* \n, \r, \n\r and \r\n are one line break.                                                 *)
Counted(s) == IF s.linenumber + 1 >= MAXLINES THEN lexerror(s, "too many lines") ELSE [s EXCEPT !.linenumber = @ + 1]
inclinenumber(s) ==
  Counted(IF AtNewline(next(s)) /\ Current(next(s)) # Current(s) THEN next(next(s)) ELSE next(s))

-----------------------------------------------------------------------------
(* Numerals.                                                                        *)

check_next2(s, set) == IF Current(s) \in set THEN save_and_next(s) ELSE s
AfterExpo(s, expo) ==
  IF Current(s) \in expo THEN check_next2(save_and_next(s), {Byte["-"], Byte["+"]}) ELSE s
RECURSIVE NumeralFrom(_, _)
NumeralFrom(s, expo) ==
  LET t == AfterExpo(s, expo)
  IN  IF Current(t) \in lisxdigit \cup {Byte["."]} THEN NumeralFrom(save_and_next(t), expo) ELSE t

Converted(s) ==
  LET n == luaO_str2num(s.buff)
  IN  IF n = {} THEN lexerror(s, "malformed number") ELSE TokenIs(s, <<"number", CHOOSE v \in n : TRUE>>)

X == {Byte["x"], Byte["X"]}
read_numeral(s) ==
  LET first == save_and_next(s)
  IN  IF Looks(s, "0") /\ Current(first) \in X
      THEN Converted(NumeralFrom(save_and_next(first), {Byte["p"], Byte["P"]}))
      ELSE Converted(NumeralFrom(first, {Byte["e"], Byte["E"]}))

-----------------------------------------------------------------------------
(* Long brackets: the level, -1 if there is none but no = either, less if there is a =.                *)

SkipSep(s) == Take(save_and_next(s), {Byte["="]})
Level(s) ==
  LET count == Len(SkipSep(s).buff) - Len(s.buff) - 1
  IN  IF Current(SkipSep(s)) = Current(s) THEN count ELSE -count - 1

(* A comment keeps nothing of a line.                                                     *)
LongNewline(s, comment) ==
  IF comment THEN resetbuffer(inclinenumber(save(s, 10))) ELSE inclinenumber(save(s, 10))
RECURSIVE LongFrom(_, _, _)
LongFrom(s, sep, comment) ==
  IF ~Going(s) THEN s
  ELSE CASE Current(s) = EOZ -> lexerror(s, "unfinished long string")
    [] Looks(s, "]") ->
         IF Level(s) = sep THEN save_and_next(SkipSep(s)) ELSE LongFrom(SkipSep(s), sep, comment)
    [] AtNewline(s) -> LongFrom(LongNewline(s, comment), sep, comment)
    [] OTHER -> LongFrom(IF comment THEN next(s) ELSE save_and_next(s), sep, comment)

LongBody(s) == IF AtNewline(save_and_next(s)) THEN inclinenumber(save_and_next(s)) ELSE save_and_next(s)
Inner(s, margin) == SubSeq(s.buff, margin + 1, Len(s.buff) - margin)
StringToken(s, margin) == IF Going(s) THEN TokenIs(s, <<"string", Inner(s, margin)>>) ELSE s
read_long_string(s, sep) == StringToken(LongFrom(LongBody(s), sep, FALSE), 2 + sep)
SkipLong(s, sep) == resetbuffer(LongFrom(LongBody(s), sep, TRUE))

-----------------------------------------------------------------------------
(* Strings in quotes.  What belongs to an escape sequence is saved until its end, then taken back.           *)

gethexa(s) == esccheck(save_and_next(s), Current(save_and_next(s)) \in lisxdigit, "hexadecimal digit expected")
HexDigit(s) == luaO_hexavalue(Current(s))

(* read_save and only_save                                                              *)
OnlySave(s, c) == save(buffremove(s, 1), c)
ReadSave(s, c) == OnlySave(next(s), c)

SecondHexa(s, second) == IF Going(second) THEN ReadSave(buffremove(second, 2), 16 * HexDigit(s) + HexDigit(second)) ELSE second
HexaEscape(first) == IF Going(first) THEN SecondHexa(first, gethexa(first)) ELSE first

UTF8Saved(s, r) == FoldLeft(save, s, luaO_utf8esc(r))
RECURSIVE UTF8Digits(_, _, _)
UTF8Digits(s, r, i) ==
  IF r > 1114111 THEN lexerror(s, "UTF-8 value too large")
  ELSE IF Current(save_and_next(s)) \in lisxdigit
       THEN UTF8Digits(save_and_next(s), 16 * r + HexDigit(save_and_next(s)), i + 1)
  ELSE IF Looks(save_and_next(s), "}") THEN UTF8Saved(buffremove(next(save_and_next(s)), i), r)
  ELSE lexerror(s, "missing '}'")
UTF8Open(s) == IF Looks(s, "{") THEN gethexa(s) ELSE lexerror(s, "missing '{'")
(* Mutant: the brace is not counted.                                                     *)
UTF8FirstShort(first) == IF Going(first) THEN UTF8Digits(first, HexDigit(first), 3) ELSE first
UTF8First(first) == IF Going(first) THEN UTF8Digits(first, HexDigit(first), 4) ELSE first

RECURSIVE DecimalDigits(_, _, _)
DecimalDigits(s, r, i) ==
  IF i < 3 /\ Current(s) \in lisdigit THEN DecimalDigits(save_and_next(s), 10 * r + HexDigit(s), i + 1)
  ELSE IF r > 255 THEN lexerror(s, "decimal escape too large")
  ELSE OnlySave(buffremove(s, i), r)

RECURSIVE Zapped(_)
Zapped(s) ==
  CASE Going(s) /\ AtNewline(s) -> Zapped(inclinenumber(s))
    [] Going(s) /\ ~AtNewline(s) /\ Current(s) \in lisspace -> Zapped(next(s))
    [] OTHER -> s

Letters == << <<"a", 7>>, <<"b", 8>>, <<"f", 12>>, <<"n", 10>>, <<"r", 13>>, <<"t", 9>>, <<"v", 11>>,
              <<"\\", 92>>, <<"\"", 34>>, <<"'", 39>> >>
Meant(c) == {l[2] : l \in {l \in Range(Letters) : Byte[l[1]] = c}}

NewlineEscape(s) == IF Going(s) THEN OnlySave(s, 10) ELSE s
Escape(s) ==
  CASE Meant(Current(s)) # {} -> ReadSave(s, CHOOSE c \in Meant(Current(s)) : TRUE)
    [] Looks(s, "x") -> HexaEscape(gethexa(s))
    [] Looks(s, "u") -> UTF8First(UTF8Open(save_and_next(s)))
    [] AtNewline(s) -> NewlineEscape(inclinenumber(s))
    [] Current(s) = EOZ -> s
    [] Looks(s, "z") -> Zapped(next(buffremove(s, 1)))
    [] Current(s) \in lisdigit -> DecimalDigits(s, 0, 0)
    [] OTHER -> lexerror(s, "invalid escape sequence")

RECURSIVE QuotedFrom(_, _)
QuotedFrom(s, del) ==
  IF ~Going(s) THEN s
  ELSE CASE Current(s) = del -> save_and_next(s)
    [] Current(s) \in {EOZ} \cup Newlines -> lexerror(s, "unfinished string")
    [] Looks(s, "\\") -> QuotedFrom(Escape(save_and_next(s)), del)
    [] OTHER -> QuotedFrom(save_and_next(s), del)
read_string(s, del) == StringToken(QuotedFrom(save_and_next(s), del), 1)

-----------------------------------------------------------------------------
(* Tokens.                                                                         *)

Word(text) == [k \in 1..Len(text) |-> Byte[SubSeq(text, k, k)]]
Reserved == {Word(w) : w \in {
  "and", "break", "do", "else", "elseif", "end", "false", "for", "function", "goto", "if", "in", "local", "nil",
  "not", "or", "repeat", "return", "then", "true", "until", "while"}}

NamedOrReserved(s) == TokenIs(s, IF s.buff \in Reserved THEN Fixed(s.buff) ELSE <<"name", s.buff>>)

(* The characters that make a token of two with the one before.                                     *)
Second(c) ==
  CASE c = Byte["="] -> {Byte["="]}
    [] c = Byte["<"] -> {Byte["="], Byte["<"]}
    [] c = Byte[">"] -> {Byte["="], Byte[">"]}
    [] c = Byte["/"] -> {Byte["/"]}
    [] c = Byte["~"] -> {Byte["="]}
    [] c = Byte[":"] -> {Byte[":"]}
    [] OTHER -> {}
Operator(s) ==
  IF Current(next(s)) \in Second(Current(s)) THEN TokenIs(next(next(s)), Fixed(<<Current(s), Current(next(s))>>))
  ELSE TokenIs(next(s), Fixed(<<Current(s)>>))

DotToken(s, n) == TokenIs(s, Fixed([k \in 1..n |-> Byte["."]]))
Dotted(s) ==
  CASE Looks(s, ".") /\ Looks(next(s), ".") -> DotToken(next(next(s)), 3)
    [] Looks(s, ".") /\ ~Looks(next(s), ".") -> DotToken(next(s), 2)
    [] Current(s) \in lisdigit -> read_numeral(s)
    [] OTHER -> DotToken(s, 1)

Bracket(s) ==
  CASE Level(s) >= 0 -> read_long_string(SkipSep(s), Level(s))
    [] Level(s) = -1 -> TokenIs(SkipSep(s), Fixed(<<Current(s)>>))
    [] OTHER -> lexerror(s, "invalid long string delimiter")

(* Behind --.                                                                       *)
IsLong(s) == Looks(s, "[") /\ Level(s) >= 0
Comment(s) ==
  IF IsLong(s) THEN SkipLong(SkipSep(s), Level(s))
  ELSE Drop(s, NotNewlines)

RECURSIVE llex(_)
llex(s) ==
  IF ~Going(s) THEN s
  ELSE CASE AtNewline(s) -> llex(inclinenumber(s))
    [] Current(s) \in lisspace \ Newlines -> llex(next(s))
    [] Looks(s, "-") /\ Looks(next(s), "-") -> llex(Comment(next(next(s))))
    [] Looks(s, "[") -> Bracket(s)
    [] Current(s) \in {Byte["\""], Byte["'"]} -> read_string(s, Current(s))
    [] Looks(s, ".") -> Dotted(save_and_next(s))
    [] Current(s) \in lisdigit -> read_numeral(s)
    [] Current(s) = EOZ -> TokenIs(s, <<"eos">>)
    [] Current(s) \in lislalpha -> NamedOrReserved(Take(s, lislalnum))
    [] OTHER -> Operator(s)
Lexed(s) == llex(resetbuffer(TokenIs(s, <<>>)))

-----------------------------------------------------------------------------
(* The parser gets tokens in their order, and looks at one ahead now and then.                         *)

Begun(text) == [z |-> text, linenumber |-> 1, buff |-> <<>>, token |-> <<>>]
TextOf(items) == FlattenSeq([k \in DOMAIN items |-> items[k].text])
Nothing == <<>>
Failed == ls.token # <<>> /\ ls.token[1] = "error"
AtEnd == given # <<>> /\ Last(given)[1] = <<"eos">>

luaX_setinput ==
  /\ chunk = Nothing
  /\ \E items \in Chunks : chunk' = items /\ ls' = Begun(TextOf(items))
  /\ UNCHANGED <<ahead, given>>

(* An error goes up through the parser.  The end, when it was looked at, is found once more.                  *)
luaX_next ==
  /\ chunk # Nothing /\ ~Failed /\ ~AtEnd
  /\ IF ahead # <<>> THEN given' = given \o ahead /\ ahead' = <<>> /\ UNCHANGED ls
     ELSE /\ ls' = Lexed(ls)
          /\ given' = IF ls'.token[1] = "error" THEN given ELSE Append(given, <<ls'.token, ls'.linenumber>>)
          /\ UNCHANGED ahead
  /\ UNCHANGED chunk

luaX_lookahead ==
  /\ chunk # Nothing /\ ~Failed /\ ~AtEnd /\ given # <<>> /\ ahead = <<>>
  /\ ls' = Lexed(ls)
  /\ ahead' = IF ls'.token[1] \in {"error", "eos"} THEN ahead ELSE <<<<ls'.token, ls'.linenumber>>>>
  /\ UNCHANGED <<chunk, given>>

Parsed ==
  /\ Failed \/ AtEnd
  /\ chunk' = Nothing /\ ls' = Begun(<<>>) /\ ahead' = <<>> /\ given' = <<>>

LexInit == chunk = Nothing /\ ls = Begun(<<>>) /\ ahead = <<>> /\ given = <<>>
LexNext == luaX_setinput \/ luaX_next \/ luaX_lookahead \/ Parsed
LexSpec == LexInit /\ [][LexNext]_lexvars

-----------------------------------------------------------------------------
(* A chunk is written as a list of items: the text of each, the token that it is, none for space, a      *)
(* line break or a comment, and the line breaks in it.                                          *)

TokenItems == SelectSeq([k \in DOMAIN chunk |-> k], LAMBDA k : chunk[k].token # <<>>)
LineAfter(k) == FoldLeft(LAMBDA n, i : n + chunk[i].lines, 1, [i \in 1..k |-> i])
Expected(k) ==
  IF k <= Len(TokenItems) THEN <<chunk[TokenItems[k]].token, LineAfter(TokenItems[k])>>
  ELSE <<<<"eos">>, LineAfter(Len(chunk))>>

(* The parser gets the tokens that were written, each once and in their order, whatever it looked at ahead,   *)
(* with every escape sequence replaced, long strings without their first line break, and lines counted;   *)
(* an error is raised for the token that is wrong (llex(), read_string(), read_long_string(),             *)
(* read_numeral(), luaX_next(), luaX_lookahead()).                                               *)
ScannedAsWritten ==
  LET got == given \o ahead
  IN  /\ Len(got) <= Len(TokenItems) + 1
      /\ \A k \in DOMAIN got : got[k] = Expected(k)
      /\ Failed => ls.token = Expected(Len(got) + 1)[1]
=============================================================================
