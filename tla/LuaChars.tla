------------------------------ MODULE LuaChars ------------------------------
(***************************************************************************)
(* Functions that look at the characters of a string: the library utf8, 3rd/lua/lutf8lib.c; len,     *)
(* reverse, lower, upper and char of 3rd/lua/lstrlib.c; tonumber of 3rd/lua/lbaselib.c.  A call is    *)
(* a step, and so is a loop over utf8.codes(), with all the calls of its iterator.                  *)
(*                                                                          *)
(* Here bytes have eight bits, and a position counts from 0 as in C.  An optional argument is a      *)
(* sequence of at most one.                                                               *)
(***************************************************************************)
EXTENDS LuaText, LuaObject

CONSTANT CharCalls

MAXUNICODE == 1114111
Nil_ == Value("nil", 0)
luaL_optinteger(arg, default) == IF arg = <<>> THEN default ELSE arg[1]

(* A string in Lua has a zero behind its end.                                                 *)
ByteOf(s, k) == IF k < Len(s) THEN s[k + 1] ELSE 0
iscont(byte) == byte \div 64 = 2
ContAt(s, k) == iscont(ByteOf(s, k))

-----------------------------------------------------------------------------
(* A character: its code, and where the next one begins; none if it is invalid.                       *)

limits == <<255, 127, 2047, 65535>>

(* The ones behind the first bit of c.                                                     *)
Announced(c) == Min({k \in 0..7 : (((c * 2^k) \div 64) % 2) = 0})
Assembled(c, conts) ==
  FoldLeft(LAMBDA res, cc : res * 64 + (cc % 64), 0, conts) + ((c * 2^Len(conts)) % 128) * 32^Len(conts)
Sequence(c, conts, k) ==
  IF Len(conts) > 3 \/ (\E x \in DOMAIN conts : ~iscont(conts[x])) THEN {}
  ELSE {<<code, k + Len(conts) + 1>> : code \in {Assembled(c, conts)} \cap ((limits[Len(conts) + 1] + 1)..MAXUNICODE)}

utf8_decode(s, k) ==
  LET c == ByteOf(s, k)
  IN  IF c < 128 THEN {<<c, k + 1>>}
      ELSE Sequence(c, [x \in 1..Announced(c) |-> ByteOf(s, k + x)], k)

-----------------------------------------------------------------------------
RECURSIVE Counting(_, _, _, _)
Counting(s, posi, posj, n) ==
  IF posi > posj THEN {<<Value("integer", n)>>}
  ELSE IF utf8_decode(s, posi) = {} THEN {<<Nil_, Value("integer", posi + 1)>>}
  ELSE UNION {Counting(s, c[2], posj, n + 1) : c \in utf8_decode(s, posi)}

utflen ==
  \E call \in CharCalls :
    /\ call.fn = "utf8.len"
    /\ LET len == Len(call.s)
           posi == posrelat(luaL_optinteger(call.i, 1), len)
           posj == posrelat(luaL_optinteger(call.j, -1), len)
       IN  Returns(call, IF 1 <= posi /\ posi - 1 <= len /\ posj - 1 < len
                         THEN Counting(call.s, posi - 1, posj - 1, 0) ELSE {})

(* Those from k to before stop, behind those in codes.                                          *)
RECURSIVE Codepoints(_, _, _, _)
Codepoints(s, k, stop, codes) ==
  IF k >= stop THEN {codes}
  ELSE UNION {Codepoints(s, c[2], stop, Append(codes, Value("integer", c[1]))) : c \in utf8_decode(s, k)}

codepoint ==
  \E call \in CharCalls :
    /\ call.fn = "utf8.codepoint"
    /\ LET posi == posrelat(luaL_optinteger(call.i, 1), Len(call.s))
           pose == posrelat(luaL_optinteger(call.j, posi), Len(call.s))
       IN  Returns(call, CASE posi < 1 \/ pose > Len(call.s) -> {}
                           [] posi >= 1 /\ pose <= Len(call.s) /\ posi > pose -> {<<>>}
                           [] posi >= 1 /\ pose <= Len(call.s) /\ posi <= pose ->
                                Codepoints(call.s, posi - 1, pose, <<>>))

utfchar ==
  \E call \in CharCalls :
    /\ call.fn = "utf8.char"
    /\ Returns(call, IF \E k \in DOMAIN call.codes : call.codes[k] \notin 0..MAXUNICODE THEN {}
                     ELSE {<<String(FlattenSeq([k \in DOMAIN call.codes |-> luaO_utf8esc(call.codes[k])]))>>})

(* The beginning of a character: of the one at k, the one before, the one after.                        *)
BeginningAt(s, k) == Max({0} \cup {x \in 0..k : ~ContAt(s, x)})
Before(s, k) == BeginningAt(s, k - 1)
After(s, k) == Min({Len(s)} \cup {x \in (k + 1)..Len(s) : ~ContAt(s, x)})

(* n characters on, or back: where that is, and what could not be done of n.                            *)
RECURSIVE Moved(_, _, _)
Moved(s, k, n) ==
  CASE n < 0 /\ k > 0 -> Moved(s, Before(s, k), n + 1)
    [] n > 0 /\ k < Len(s) -> Moved(s, After(s, k), n - 1)
    [] OTHER -> <<k, n>>

Offset(s, k, n) ==
  CASE n = 0 -> {<<BeginningAt(s, k), 0>>}
    [] n # 0 /\ ContAt(s, k) -> {}
    [] n # 0 /\ ~ContAt(s, k) -> {Moved(s, k, IF n > 0 THEN n - 1 ELSE n)}

byteoffset ==
  \E call \in CharCalls :
    /\ call.fn = "utf8.offset"
    /\ LET len == Len(call.s)
           posi == posrelat(luaL_optinteger(call.i, IF call.n >= 0 THEN 1 ELSE len + 1), len)
           moved == IF posi \in 1..(len + 1) THEN Offset(call.s, posi - 1, call.n) ELSE {}
       IN  Returns(call, {IF m[2] = 0 THEN <<Value("integer", m[1] + 1)>> ELSE <<Nil_>> : m \in moved})

(* From the position n of the last character, counted from 1, or 0, to the next.                      *)
iter_aux(s, n) == IF n = 0 THEN 0 ELSE IF n - 1 < Len(s) THEN After(s, n - 1) ELSE n - 1
RECURSIVE Iterated(_, _, _)
Iterated(s, n, pairs) ==
  LET k == iter_aux(s, n)
  IN  IF k >= Len(s) THEN {pairs}
      ELSE UNION {Iterated(s, k + 1, pairs \o <<Value("integer", k + 1), Value("integer", c[1])>>) :
                    c \in {c \in utf8_decode(s, k) : ~ContAt(s, c[2])}}

iter_codes == \E call \in CharCalls : call.fn = "utf8.codes" /\ Returns(call, Iterated(call.s, 0, <<>>))

-----------------------------------------------------------------------------
str_len == \E call \in CharCalls : call.fn = "len" /\ Returns(call, {<<Value("integer", Len(call.s))>>})

str_reverse ==
  \E call \in CharCalls :
    /\ call.fn = "reverse"
    /\ Returns(call, {<<String([k \in DOMAIN call.s |-> call.s[Len(call.s) - k + 1]])>>})

tolower(c) == IF c \in lisupper THEN c + 32 ELSE c
toupper(c) == IF c \in lislower THEN c - 32 ELSE c
str_lower ==
  \E call \in CharCalls :
    call.fn = "lower" /\ Returns(call, {<<String([k \in DOMAIN call.s |-> tolower(call.s[k])])>>})
str_upper ==
  \E call \in CharCalls :
    call.fn = "upper" /\ Returns(call, {<<String([k \in DOMAIN call.s |-> toupper(call.s[k])])>>})

str_char ==
  \E call \in CharCalls :
    /\ call.fn = "char"
    /\ Returns(call, IF \E k \in DOMAIN call.codes : (call.codes[k] % 256) # call.codes[k] THEN {}
                     ELSE {<<String(call.codes)>>})

b_str2int(s, base) ==
  LET t == SkipSpaces(s)
      u == Unsigned(t)
      digits == SubSeq(u, 1, Span(u, lisdigit \cup lisupper \cup lislower))
  IN  IF \/ digits = <<>> \/ \E k \in DOMAIN digits : luaO_hexavalue(digits[k]) >= base
         \/ SkipSpaces(From(u, Len(digits))) # <<>>
      THEN {} ELSE {IntValue(ToSigned(IF isneg(t) THEN -InBase(digits, base) ELSE InBase(digits, base)))}

(* A zero ends what is converted, but not the string: it is told by the length.                        *)
Standard(v) ==
  CASE v[1] \in {"integer", "float"} -> {v}
    [] v[1] = "string" -> luaO_str2num(v[2])
    [] OTHER -> {}

luaB_tonumber ==
  \E call \in CharCalls :
    /\ call.fn = "tonumber"
    /\ LET converted == IF call.base = <<>> THEN Standard(call.v) ELSE b_str2int(call.v[2], call.base[1])
       IN  Returns(call, IF call.base # <<>> /\ (call.v[1] # "string" \/ call.base[1] \notin 2..36) THEN {}
                         ELSE IF converted = {} THEN {<<Nil_>>} ELSE {<<n>> : n \in converted})

CharsNext ==
  \/ TextNext
  \/ stage = "idle" /\ (\/ utflen \/ codepoint \/ utfchar \/ byteoffset \/ iter_codes
                       \/ str_len \/ str_reverse \/ str_lower \/ str_upper \/ str_char \/ luaB_tonumber)

-----------------------------------------------------------------------------
(* What a call should give.  The string of a call comes as the list of its characters: the bytes of      *)
(* each, and its code, below 0 if it is none.                                                  *)

Beginning(k) == 1 + FoldLeft(LAMBDA sum, x : sum + Len(task.pieces[x].text), 0, [x \in 1..(k - 1) |-> x])
Beginnings == {Beginning(k) : k \in DOMAIN task.pieces}
Good(k) == task.pieces[k].code >= 0
AllGood == \A k \in DOMAIN task.pieces : Good(k)

First == Absolute(luaL_optinteger(task.i, 1), Len(task.s))
Within(last) == SelectSeq([k \in DOMAIN task.pieces |-> k], LAMBDA k : First <= Beginning(k) /\ Beginning(k) <= last)
IntAt(p) == Value("integer", p)

(* Where something is that is no character, between two positions.                                  *)
WrongPlaces(last) ==
  IF First > last THEN {}
  ELSE ({First} \ Beginnings) \cup {Beginning(k) : k \in {k \in Range(Within(last)) : ~Good(k)}}

LenDefined ==
  LET last == Absolute(luaL_optinteger(task.j, -1), Len(task.s))
  IN  IF First \notin 1..(Len(task.s) + 1) \/ last > Len(task.s) THEN stage = "error"
      ELSE got = IF WrongPlaces(last) = {} THEN <<IntAt(Len(Within(last)))>> ELSE <<Nil_, IntAt(Min(WrongPlaces(last)))>>

CodepointDefined ==
  LET last == Absolute(luaL_optinteger(task.j, First), Len(task.s))
  IN  IF First < 1 \/ last > Len(task.s) \/ WrongPlaces(last) # {} THEN stage = "error"
      ELSE got = [x \in DOMAIN Within(last) |-> IntAt(task.pieces[Within(last)[x]].code)]

CodesDefined ==
  IF ~AllGood THEN stage = "error"
  ELSE got = FlattenSeq([k \in DOMAIN task.pieces |-> <<IntAt(Beginning(k)), IntAt(task.pieces[k].code)>>])

CharDefined ==
  IF AllGood THEN got = <<String(FlattenSeq([k \in DOMAIN task.pieces |-> task.pieces[k].text]))>> ELSE stage = "error"

(* The k-th of all characters; the end of the string follows the last.                                  *)
Places_ == [k \in 1..(Len(task.pieces) + 1) |-> Beginning(k)]
OffsetDefined ==
  LET from == Absolute(luaL_optinteger(task.i, IF task.n < 0 THEN Len(task.s) + 1 ELSE 1), Len(task.s))
      target(k) == k + task.n - (IF task.n > 0 THEN 1 ELSE 0)
  IN  CASE from \notin 1..(Len(task.s) + 1) -> stage = "error"
        [] from \in 1..(Len(task.s) + 1) /\ task.n = 0 -> got = <<IntAt(Max({p \in Range(Places_) : p <= from}))>>
        [] from \in 1..(Len(task.s) + 1) /\ task.n # 0 /\ from \notin Range(Places_) -> stage = "error"
        [] from \in Range(Places_) /\ task.n # 0 ->
             \E k \in DOMAIN Places_ :
               /\ Places_[k] = from
               /\ got = <<IF target(k) \in DOMAIN Places_ THEN IntAt(Places_[target(k)]) ELSE Nil_>>

(* Every call of utf8 gives what the manual says of the characters its string was made of: how many      *)
(* there are between two positions or where the first wrong one is, their codes, where the n-th begins;   *)
(* or it raises an error where there is no character (utf8_decode(), byteoffset(), iter_aux(),           *)
(* luaO_utf8esc()).  tonumber() gives the number a numeral stands for (luaO_str2num(), b_str2int()).    *)
(* What is packed is laid out as the format says and unpack() gets it back, whatever the sizes, signs,    *)
(* alignment and byte order; slices and copies are what they should be (TextsAsDefined: str_pack(),     *)
(* packint(), unpackint(), getdetails(), posrelat(), str_rep()).                                 *)
CharsAsDefined ==
  CASE task.fn = "utf8.len" -> LenDefined
    [] task.fn = "utf8.codepoint" -> CodepointDefined
    [] task.fn = "utf8.codes" -> CodesDefined
    [] task.fn = "utf8.char" -> CharDefined
    [] task.fn = "utf8.offset" -> OffsetDefined
    [] task.fn = "len" -> got = <<IntAt(Len(task.s))>>
    [] task.fn = "reverse" -> got = <<String(Reverse(task.s))>>
    [] task.fn \in {"lower", "upper"} -> got = <<String(task.means)>>
    [] task.fn = "char" -> IF Range(task.codes) \subseteq 0..255 THEN got = <<String(task.codes)>> ELSE stage = "error"
    [] task.fn = "tonumber" -> IF task.means = <<>> THEN stage = "error" ELSE got = task.means
    [] OTHER -> TextsAsDefined
=============================================================================
