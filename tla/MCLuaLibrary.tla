---------------------------- MODULE MCLuaLibrary ----------------------------
(* A program that calls the functions of LuaList, LuaString, LuaText and LuaChars, or gives texts to    *)
(* the scanner, and values for their constants: lists with holes of numbers and nil; patterns of       *)
(* every item, of up to four; formats of every option, of up to three that take an argument; texts of    *)
(* every token.  They share nothing: each is called while the others are idle, to keep their states      *)
(* apart.                                                                           *)
EXTENDS LuaList, LuaString, LuaChars, LuaLex

NoList == pc = "idle" /\ (\A k \in Positions : t[k] = Nil)

Init == SortInit /\ StringInit /\ TextInit /\ LexInit
Next ==
  \/ status = "idle" /\ stage = "idle" /\ chunk = Nothing /\ ListNext /\ UNCHANGED <<stringvars, textvars, lexvars>>
  \/ NoList /\ stage = "idle" /\ chunk = Nothing /\ StringNext /\ UNCHANGED <<sortvars, textvars, lexvars>>
  \/ NoList /\ status = "idle" /\ chunk = Nothing /\ CharsNext /\ UNCHANGED <<sortvars, stringvars, lexvars>>
  \/ NoList /\ status = "idle" /\ stage = "idle" /\ LexNext /\ UNCHANGED <<sortvars, stringvars, textvars>>
Spec == Init /\ [][Next]_<<sortvars, stringvars, textvars, lexvars>>

-----------------------------------------------------------------------------
Numbers == {1, 2}
Ordering == {<<x, y>> \in Numbers \X Numbers : x < y} \cup {<<Nil, x>> : x \in Numbers}

-----------------------------------------------------------------------------
Numerals == <<"1", "2", "3", "4", "5", "6", "7", "8", "9">>
Chars == {"a", "b", "1", ")", "^", "$"}
Codes == [c \in Chars \cup Range(Numerals) \cup {"NUL", "%"} |->
            CASE c = "NUL" -> 0 [] c = "a" -> 97 [] c = "b" -> 98 [] c = "1" -> 49 [] OTHER -> 37]
Classes == [c \in {"a", "d"} |-> IF c = "a" THEN {"a", "b"} ELSE {"1"}]
Complements == [c \in {"A", "D"} |-> IF c = "A" THEN "a" ELSE "d"]

Item(kind, text) == [kind |-> kind, text |-> text]
One(text, chars, suffix) ==
  [kind |-> "one", chars |-> chars, suffix |-> suffix,
   text |-> IF suffix = "" THEN text ELSE Append(text, suffix)]

Sets == {
  <<<<"a">>, {"a"}>>, <<<<".">>, Chars>>, <<<<"%", "d">>, {"1"}>>, <<<<"%", "A">>, Chars \ {"a", "b"}>>,
  <<<<"[", "^", "a", "]">>, Chars \ {"a"}>>, <<<<"[", "a", "-", "b", "%", "d", "]">>, {"a", "b", "1"}>> }
Others == {
  Item("open", <<"(">>), Item("close", <<")">>), Item("place", <<"(", ")">>),
  [kind |-> "back", text |-> <<"%", "1">>, n |-> 1],
  [kind |-> "balance", text |-> <<"%", "b", "a", "b">>, b |-> "a", e |-> "b"],
  [kind |-> "frontier", text |-> <<"%", "f", "[", "%", "A", "]">>, chars |-> ({"NUL"} \cup Chars) \ {"a", "b"}] }
Ending == {Item("end", <<"$">>), Item("malformed", <<"[", "a">>), Item("malformed", <<"%">>),
           Item("malformed", <<"%", "b", "a">>), Item("malformed", <<"%", "f", "a">>)}
Ones == {One(x[1], x[2], suffix) : x \in Sets, suffix \in {"", "?", "*", "+", "-"}}
Some == Others \cup {One(<<"a">>, {"a"}, ""), One(<<"a">>, {"a"}, "?"), One(<<".">>, Chars, "*"), One(<<".">>, Chars, "-")}

Lists ==
  {<<>>} \cup {<<x>> : x \in Ones \cup Others \cup Ending}
  \cup (Ones \X (Some \cup Ending)) \cup (Others \X (Ones \cup Others \cup Ending))
  \cup (Some \X Some \X (Some \cup {Item("end", <<"$">>)}))
  \cup ({Item("open", <<"(">>)} \X Some \X {Item("close", <<")">>)} \X (Some \cup {Item("end", <<"$">>)}))
AtHead == {<<Item("anchor", <<"^">>)>> \o p : p \in {<<>>} \cup {<<x>> : x \in Some \cup Ending} \cup (Some \X Some)}
Dollars == {<<One(<<"$">>, {"$"}, ""), x>> : x \in Some}
(* `(' and `)' next to each other are the item `()'.                                        *)
AllPatterns ==
  {p \in Lists \cup AtHead \cup Dollars :
     \A k \in 1..(Len(p) - 1) : ~(p[k].kind = "open" /\ p[k + 1].kind = "close")}

AllSubjects == {<<>>, <<"a", "b", "1">>, <<"a", "a", "b", "b">>, <<"^", "$", ")">>}
AllTemplates == {
  <<[kind |-> "capture", text |-> <<"%", "1">>, n |-> 1], [kind |-> "char", text |-> <<"%", "%">>, char |-> "%"]>>,
  <<[kind |-> "capture", text |-> <<"%", "0">>, n |-> 0], [kind |-> "capture", text |-> <<"%", "2">>, n |-> 2]>>,
  <<[kind |-> "char", text |-> <<"b">>, char |-> "b"], Item("malformed", <<"%">>)>> }
AllInits == {-9, -2, 9}
AllLimits == {1}
AllReplies == {<<"nil">>, <<"other">>, <<"string", <<"1", "b">>>>}
-----------------------------------------------------------------------------
TypeSizes == [b |-> 1, B |-> 1, h |-> 2, H |-> 2, l |-> 4, L |-> 4, j |-> 4, J |-> 4, T |-> 4, d |-> 3, n |-> 3, i |-> 2]
DigitNumbers == [c \in {"0", "1", "2", "3", "4", "5", "8"} |->
  CASE c = "0" -> 0 [] c = "1" -> 1 [] c = "2" -> 2 [] c = "3" -> 3 [] c = "4" -> 4 [] c = "5" -> 5 [] c = "8" -> 8]

Part(kind, text) == [kind |-> kind, text |-> text]
Sized(kind, text, size) == [kind |-> kind, text |-> text, size |-> size]
Integer(text, size, signed) == [kind |-> "integer", text |-> text, size |-> size, signed |-> signed]
Order_(c, little) == [kind |-> "order", text |-> <<c>>, little |-> little]

AllInts == {
  Integer(<<"b">>, 1, TRUE), Integer(<<"B">>, 1, FALSE), Integer(<<"h">>, 2, TRUE), Integer(<<"H">>, 2, FALSE),
  Integer(<<"l">>, 4, TRUE), Integer(<<"L">>, 4, FALSE), Integer(<<"j">>, 4, TRUE), Integer(<<"J">>, 4, FALSE),
  Integer(<<"T">>, 4, FALSE), Integer(<<"i">>, 2, TRUE), Integer(<<"I">>, 2, FALSE), Integer(<<"i", "3">>, 3, TRUE),
  Integer(<<"I", "3">>, 3, FALSE), Integer(<<"i", "5">>, 5, TRUE), Integer(<<"I", "8">>, 8, FALSE), Integer(<<"i", "8">>, 8, TRUE)}
AllStrings == {
  Sized("chars", <<"c", "2">>, 2), Sized("chars", <<"c", "0">>, 0), Part("zero", <<"z">>),
  Sized("counted", <<"s", "1">>, 1), Sized("counted", <<"s">>, 4), Sized("counted", <<"s", "2">>, 2)}
AllFloats == {Sized("float", <<"d">>, 3), Sized("float", <<"n">>, 3)}
Fillers == {Part("pad", <<"x">>), Part("space", <<" ">>), Sized("align", <<"X", "j">>, 4), Sized("align", <<"X", "b">>, 1),
            Sized("align", <<"X", "i", "3">>, 3)}
Malformed == {Part("malformed", text) : text \in {<<"X">>, <<"X", "c", "2">>, <<"X", " ">>, <<"X", "z">>, <<"i", "0">>,
              <<"s", "1", "0">>, <<"c">>, <<"y">>, <<"c", "2", "2">>, <<"!", "0">>}}
Bases == {<<>>, <<Order_(">", FALSE)>>, <<Sized("max", <<"!", "3">>, 3), Order_("<", TRUE)>>,
          <<Sized("max", <<"!", "2">>, 2)>>, <<Order_(">", FALSE), Sized("max", <<"!">>, 4), Order_("=", TRUE)>>}

Few == {Integer(<<"b">>, 1, TRUE), Integer(<<"h">>, 2, TRUE), Integer(<<"I", "3">>, 3, FALSE), Integer(<<"j">>, 4, TRUE),
        Integer(<<"i", "8">>, 8, TRUE), Sized("float", <<"d">>, 3), Sized("chars", <<"c", "2">>, 2), Part("zero", <<"z">>),
        Sized("counted", <<"s", "1">>, 1), Part("pad", <<"x">>), Sized("align", <<"X", "j">>, 4), Part("space", <<" ">>)}
Big == Sized("chars", <<"c", "1", "2">>, 12)
Formats ==
  {base \o <<x>> : base \in {<<>>, <<Order_(">", FALSE)>>}, x \in AllInts \cup AllStrings \cup AllFloats \cup Fillers \cup Malformed}
  \cup {base \o <<x, y>> : base \in Bases, x \in Few, y \in Few}
  \cup {<<Integer(<<"b">>, 1, TRUE), x>> : x \in Malformed}
  \cup {<<Big>>, <<Big, Big>>, <<Big, Part("zero", <<"z">>)>>, <<>>}
  \cup {<<Sized("max", <<"!">>, 4), Integer(<<"b">>, 1, TRUE), x, Integer(<<"h">>, 2, TRUE)>> : x \in Few}

Long == [k \in 1..12 |-> 1]
Candidates(item, amount) ==
  CASE item.kind = "integer" ->
         IF amount = 1 THEN {Value("integer", v) : v \in {-8, -5, -4, -3, -2, -1, 0, 1, 2, 3, 4, 7}} \cup {String(<<>>)}
         ELSE {Value("integer", v) : v \in {-5, 1}}
    [] item.kind = "float" -> {Value("float", <<1, 0, 0>>)}
    [] item = Big -> {String(Long)}
    [] item.kind \in {"chars", "zero", "counted"} -> {String(v) : v \in IF amount = 1 THEN {<<>>, <<1>>, <<1, 0>>, <<1, 1>>} ELSE {<<1>>, <<1, 0>>}}
    [] OTHER -> {}
RECURSIVE ArgLists(_, _)
ArgLists(items, amount) ==
  IF items = <<>> THEN {<<>>}
  ELSE IF Takes(Head(items))
       THEN {<<v>> \o rest : v \in Candidates(Head(items), amount), rest \in ArgLists(Tail(items), amount)}
       ELSE ArgLists(Tail(items), amount)
AllPacks == UNION {{[items |-> f, args |-> a] : a \in ArgLists(f, Cardinality({k \in DOMAIN f : Takes(f[k])}))} : f \in Formats}
            \cup {[items |-> <<Integer(<<"b">>, 1, TRUE)>>, args |-> <<>>],
                  [items |-> <<Integer(<<"b">>, 1, TRUE)>>, args |-> <<Value("integer", 0), Value("integer", 1)>>]}

Words == {<<>>, <<1, 0, 1>>}
Places == {-5, -3, -1, 0, 1, 2, 4}
AllTexts ==
  {[fn |-> fn, s |-> word, i |-> from, j |-> to] : fn \in {"sub", "byte"}, word \in Words, from \in Places, to \in Places}
  \cup {[fn |-> "rep", s |-> word, n |-> times, sep |-> sep] :
          word \in Words, times \in {-1, 0, 1, 2, 5, 6}, sep \in {<<>>, <<0>>}}
  \cup {[fn |-> "concat", t |-> strings, i |-> from, j |-> to, sep |-> sep] :
          strings \in {<<>>, <<String(<<1>>), String(<<0, 1>>), Value("nil", 0), String(<<1>>)>>},
          from \in 0..4, to \in 0..4, sep \in {<<>>, <<1, 1>>}}
  \cup {[fn |-> "unpack", t |-> <<String(<<1>>), Value("nil", 0), Value("integer", 2)>>, i |-> from, j |-> to] :
          from \in {-1, 1, 2}, to \in {0, 3, 5, 19, 25}}
-----------------------------------------------------------------------------
(* The characters of a string and their codes, from one on.                                   *)
Block(text, code) == {<<SubSeq(text, k, k), code + k - 1>> : k \in 1..Len(text)}
CharCodes ==
  Block(" !\"#$%&'()*+,-./0123456789:;<=>?@ABCDEFGHIJKLMNOPQRSTUVWXYZ[\\]^_", 32)
  \cup Block("abcdefghijklmnopqrstuvwxyz{|}~", 97)
Bytes == [c \in {x[1] : x \in CharCodes} |-> (CHOOSE x \in CharCodes : x[1] = c)[2]]

Lexeme(text, token, lines) == [text |-> text, token |-> token, lines |-> lines]
Tokens(kind, words) == {Lexeme(Word(w), <<kind, Word(w)>>, 0) : w \in words}

Singles == {"+", "-", "*", "/", "%", "^", "#", "&", "~", "|", "<", ">", "=", "(", ")", "{", "}", "[", "]", ";", ":", ",", "."}
Doubles == {"//", "..", "==", ">=", "<=", "~=", "<<", ">>", "::"}
Symbols == Singles \cup Doubles \cup {"..."}
Merging == Symbols \cup {"--", "[[", "[="}
MergedTexts == {Word(w) : w \in Merging}
Joins(a, b) == \E w \in MergedTexts : Len(w) > Len(a) /\ IsPrefix(a, w) /\ IsPrefix(w, a \o b)

Literal(text, value) == Lexeme(Word(text), <<"number", value>>, 0)
Literals == {
  Literal("0", IntValue(0)), Literal("42", IntValue(42)), Literal("010", IntValue(10)),
  Literal("32768", IntValue(-32768)), Literal("65537", IntValue(1)),
  Literal("0x1F", IntValue(31)), Literal("0Xae", IntValue(174)), Literal("0xffff", IntValue(-1)),
  Literal("3.", FloatValue(10, 3, 0)), Literal(".5", FloatValue(10, 5, -1)), Literal("2.50", FloatValue(10, 25, -1)),
  Literal("1e5", FloatValue(10, 1, 5)), Literal("12E-2", FloatValue(10, 12, -2)), Literal(".1e+1", FloatValue(10, 1, 0)),
  Literal("0x.8", FloatValue(2, 1, -1)), Literal("0xAp-1", FloatValue(2, 5, 0)), Literal("0x1.P2", FloatValue(2, 1, 2)) }
Error(text, what) == Lexeme(text, <<"error", what>>, 0)
BadNumerals == {Error(Word(w), "malformed number") : w \in {
  "0x", "1e", "1e+", "1..2", "3f", "0x.", "0x1p", "1e2e", ".5.", "1e5.0" }}

(* Pieces of strings: what is written and the bytes it stands for.                        *)
Piece(text, meant, lines) == [text |-> text, bytes |-> meant, lines |-> lines]
Esc(w, meant) == Piece(Word("\\") \o Word(w), meant, 0)
Pieces == {
  Piece(Word("a"), Word("a"), 0), Piece(Word("]]"), Word("]]"), 0), Piece(Word("--"), Word("--"), 0), Piece(<<200>>, <<200>>, 0),
  Esc("n", <<10>>), Esc("v", <<11>>), Esc("\\", <<92>>), Esc("\"", <<34>>), Esc("'", <<39>>),
  Esc("x41", <<65>>), Esc("xfF", <<255>>),
  Esc("7", <<7>>), Esc("65", <<65>>), Esc("255", <<255>>), Esc("049", <<49>>),
  Esc("u{41}", <<65>>), Esc("u{7F}", <<127>>), Esc("u{80}", <<194, 128>>), Esc("u{7FF}", <<223, 191>>),
  Esc("u{800}", <<224, 160, 128>>), Esc("u{FFFF}", <<239, 191, 191>>),
  Esc("u{010000}", <<240, 144, 128, 128>>), Esc("u{10FFFF}", <<244, 143, 191, 191>>),
  Esc("z", <<>>), Piece(Word("\\z") \o <<32, 10, 13, 9, 10>>, <<>>, 2),
  Piece(<<92, 10>>, <<10>>, 1), Piece(<<92, 13, 10>>, <<10>>, 1) }
Quoted(q, p) ==
  Lexeme(<<q>> \o FlattenSeq([k \in DOMAIN p |-> p[k].text]) \o <<q>>, <<"string", FlattenSeq([k \in DOMAIN p |-> p[k].bytes])>>,
         FoldLeft(LAMBDA sum, k : sum + p[k].lines, 0, [k \in DOMAIN p |-> k]))
Quotes == {Quoted(34, <<>>)} \cup {Quoted(39, <<p>>) : p \in Pieces} \cup {Quoted(34, <<p, r>>) : p \in Pieces, r \in Pieces}
BadStrings == {
  Error(Word("\"a"), "unfinished string"), Error(Word("\"a") \o <<10>>, "unfinished string"), Error(Word("'a\\"), "unfinished string"),
  Error(Word("'\\q'"), "invalid escape sequence"), Error(Word("'\\256'"), "decimal escape too large"),
  Error(Word("'\\x4'"), "hexadecimal digit expected"), Error(Word("'\\u{}'"), "hexadecimal digit expected"),
  Error(Word("'\\u4'"), "missing '{'"), Error(Word("'\\u{4'"), "missing '}'"),
  Error(Word("'\\u{110000}"), "UTF-8 value too large"),
  Error(Word("[=a"), "invalid long string delimiter"), Error(Word("[=[a]]"), "unfinished long string"),
  Error(Word("--[[]=]"), "unfinished long string") }

Bracketed(level, body) ==
  LET marks == [k \in 1..level |-> Byte["="]]
  IN  <<Byte["["]>> \o marks \o <<Byte["["]>> \o body \o <<Byte["]"]>> \o marks \o <<Byte["]"]>>
A == Byte["a"]
Bodies == {Piece(<<>>, <<>>, 0), Piece(<<A>>, <<A>>, 0), Piece(Word("\\n"), Word("\\n"), 0), Piece(Word("]a"), Word("]a"), 0),
  Piece(<<10>>, <<>>, 1), Piece(<<13, 10, A>>, <<A>>, 1), Piece(<<10, 10, A>>, <<10, A>>, 2), Piece(<<A, 13, 10>>, <<A, 10>>, 1),
  Piece(<<A, 10, 13, A, 13, A>>, <<A, 10, A, 10, A>>, 2)}
Closing == {Piece(Word(w), Word(w), 0) : w \in {"]", "]]", "a]", "]==]", "[["}}
LongStrings ==
  {Lexeme(Bracketed(level, b.text), <<"string", b.bytes>>, b.lines) : level \in 0..2, b \in Bodies}
  \cup {Lexeme(Bracketed(1, b.text), <<"string", b.bytes>>, 0) : b \in Closing}

Space(text, lines) == Lexeme(text, <<>>, lines)
Blank == Space(<<32>>, 0)
Comments ==
  {Space(Word("--") \o Bracketed(level, b.text), b.lines) : level \in 0..1, b \in Bodies}
  \cup {Space(Word("--") \o Word(w) \o <<10>>, 1) : w \in {"", "a", "[", "[=", "-[[", "[=a"}}
Spaces == {Blank, Space(<<9, 11, 12>>, 0)} \cup {Space(<<10>>, 1), Space(<<13>>, 1), Space(<<10, 13>>, 1), Space(<<13, 13, 10>>, 2)} \cup Comments

Name == Lexeme(Word("a"), <<"name", Word("a")>>, 0)
Names == Tokens("name", {"_", "ends", "And", "x1"}) \cup {Name}
Keywords == {Lexeme(w, <<"fixed", w>>, 0) : w \in Reserved}
Operators == Tokens("fixed", Symbols)
Plus == Lexeme(<<43>>, <<"fixed", <<43>>>>, 0)
TooMany == Lexeme(<<10>>, <<"error", "too many lines">>, 1)

AllChunks ==
  {p \in Operators \X Operators : ~Joins(p[1].text, p[2].text)}
  \cup {<<x, Blank, y>> : x \in Names \cup Keywords \cup Literals, y \in Names \cup Literals}
  \cup {<<x, Plus, y>> : x \in Names \cup Literals, y \in Names \cup LongStrings}
  \cup {<<Name, x>> : x \in Quotes \cup BadStrings \cup Spaces} \cup {<<Plus, x>> : x \in BadNumerals}
  \cup {<<Name, x, y>> : x \in LongStrings, y \in BadStrings \cup Comments}
  \cup {<<x, Name, y, Name>> : x \in Spaces, y \in Spaces}
  \cup {[k \in 1..4 |-> Space(<<10>>, 1)] \o <<Name, TooMany>>}
-----------------------------------------------------------------------------
Coded(text, code) == [text |-> text, code |-> code]
OneByte == Coded(<<97>>, 97)
Encoded == {OneByte, Coded(<<223, 191>>, 2047), Coded(<<224, 160, 128>>, 2048), Coded(<<244, 143, 191, 191>>, 1114111)}
AllEncoded == Encoded \cup {
  Coded(<<0>>, 0), Coded(<<127>>, 127), Coded(<<194, 128>>, 128), Coded(<<239, 191, 191>>, 65535), Coded(<<240, 144, 128, 128>>, 65536)}
Invalid == {Coded(b, -1) : b \in {<<192, 128>>, <<193, 191>>, <<224, 159, 191>>, <<240, 143, 191, 191>>, <<244, 144, 128, 128>>,
  <<195>>, <<224, 160>>, <<248, 136, 128, 128, 128>>, <<255>>}}
Stray == Coded(<<128>>, -1)
Strings == {<<>>} \cup {<<x>> : x \in AllEncoded} \cup (Encoded \X Encoded) \cup {<<x, OneByte>> : x \in Invalid} \cup {<<OneByte, x>> : x \in Invalid}
Strays == {<<Stray>>, <<OneByte, Stray, OneByte>>, <<CHOOSE x \in Encoded : x.code = 2048, Stray>>}
Optional == {<<>>} \cup {<<k>> : k \in {-9, -2, 0, 1, 2, 3, 5, 7}}
StringOf(pieces) == FlattenSeq([k \in DOMAIN pieces |-> pieces[k].text])
CodesOf(pieces) == [k \in DOMAIN pieces |-> pieces[k].code]

AllCharCalls ==
  {[fn |-> fn, pieces |-> p, s |-> StringOf(p), i |-> from, j |-> to] :
     fn \in {"utf8.len", "utf8.codepoint"}, p \in Strings \cup Strays, from \in Optional, to \in Optional}
  \cup {[fn |-> "utf8.codes", pieces |-> p, s |-> StringOf(p)] : p \in Strings \cup Strays}
  \cup {[fn |-> "utf8.char", pieces |-> p, codes |-> CodesOf(p)] : p \in Strings \cup {<<OneByte, Coded(<<>>, -1)>>}}
  \cup {[fn |-> "utf8.offset", pieces |-> p, s |-> StringOf(p), n |-> steps, i |-> from] : p \in Strings, steps \in -3..3, from \in Optional}
  \cup {[fn |-> fn, s |-> s] : fn \in {"len", "reverse"}, s \in {<<>>, <<0>>, <<97, 98, 99>>}}
  \cup {[fn |-> "lower", s |-> <<64, 65, 90, 91, 97, 200, 0>>, means |-> <<64, 97, 122, 91, 97, 200, 0>>],
        [fn |-> "upper", s |-> <<96, 97, 122, 123, 65, 228, 0>>, means |-> <<96, 65, 90, 123, 65, 228, 0>>]}
  \cup {[fn |-> "char", codes |-> c] : c \in {<<>>, <<0, 255>>, <<256>>, <<-1>>, <<97, 98>>}}
  \cup {[fn |-> "tonumber", v |-> String(before \o x.text \o after), base |-> <<>>, means |-> <<x.token[2]>>] :
          x \in Literals, before \in {<<>>, <<32, 10>>, <<43>>}, after \in {<<>>, <<9, 32>>}}
  \cup {[fn |-> "tonumber", v |-> String(x.text), base |-> <<>>, means |-> <<Nil_>>] : x \in BadNumerals}
  \cup {[fn |-> "tonumber", v |-> String(Word(x[1])), base |-> <<>>, means |-> <<x[2]>>] : x \in {
          <<"-42", IntValue(-42)>>, <<"-32768", IntValue(-32768)>>, <<"-0x10", IntValue(-16)>>,
          <<"-.5", FloatValue(10, -5, -1)>>, <<"-0x1.8", FloatValue(2, -3, -1)>>,
          <<"", Nil_>>, <<" ", Nil_>>, <<"-", Nil_>>, <<"- 1", Nil_>>, <<"+-1", Nil_>>, <<"1 1", Nil_>>,
          <<"inf", Nil_>>, <<"nan", Nil_>>, <<"1x", Nil_>>, <<".", Nil_>> }}
  \cup {[fn |-> "tonumber", v |-> v, base |-> <<>>, means |-> <<v>>] : v \in {IntValue(7), FloatValue(10, 5, -1), Nil_}}
  \cup {[fn |-> "tonumber", v |-> String(<<49, 0>>), base |-> base, means |-> <<Nil_>>] : base \in {<<>>, <<10>>}}
  \cup {[fn |-> "tonumber", v |-> v, base |-> <<10>>, means |-> <<>>] : v \in {Nil_, IntValue(7)}}
  \cup {[fn |-> "tonumber", v |-> String(<<49>>), base |-> <<base>>, means |-> <<>>] : base \in {-1, 0, 1, 37}}
  \cup {[fn |-> "tonumber", v |-> String(Word(x[1])), base |-> <<x[2]>>, means |-> <<x[3]>>] : x \in {
          <<"101", 2, IntValue(5)>>, <<"2", 2, Nil_>>, <<" -Zz ", 36, IntValue(-1295)>>, <<"z", 35, Nil_>>,
          <<"fF", 16, IntValue(255)>>, <<"8000", 16, IntValue(-32768)>>, <<"+7", 8, IntValue(7)>>, <<"8", 8, Nil_>>,
          <<"1.0", 10, Nil_>>, <<"", 10, Nil_>>, <<"-", 10, Nil_>>, <<"1_", 36, Nil_>>, <<"0x1", 36, IntValue(1189)>> }}
=============================================================================
