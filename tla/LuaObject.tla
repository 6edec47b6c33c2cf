----------------------------- MODULE LuaObject -----------------------------
(***************************************************************************)
(* Conversions of strings to numbers and of characters to UTF-8, 3rd/lua/lobject.c, for the     *)
(* scanner (LuaLex) and the libraries (LuaChars).                                      *)
(*                                                                          *)
(* A string is the sequence of its bytes; a zero in it is no space, so that nothing converts it.      *)
(* An integer has INTBITS bits and wraps.                                               *)
(* A float is m * base^e with m no multiple of base; rounding is left out.                     *)
(***************************************************************************)
EXTENDS Integers, Sequences, FiniteSetsExt, SequencesExt

CONSTANTS
  Byte,         (* the bytes of the printable characters                              *)
  INTBITS

IntValue(n) == <<"integer", n>>
FloatValue(base, m, e) ==
  LET k == Max({i \in 0..9 : m % base^i = 0})
  IN  IF m = 0 THEN <<"float", base, 0, 0>> ELSE <<"float", base, m \div base^k, e + k>>

lisspace == 9..13 \cup {32}
lisdigit == 48..57
lisupper == 65..90
lislower == 97..122
lisxdigit == lisdigit \cup 65..70 \cup 97..102
lislalpha == lisupper \cup lislower \cup {Byte["_"]}
lislalnum == lislalpha \cup lisdigit

(* Sets the bit that tells a small letter from a capital.                                     *)
ltolower(c) == IF (c \div 32) % 2 = 0 THEN c + 32 ELSE c
luaO_hexavalue(c) == IF c \in lisdigit THEN c - 48 ELSE ltolower(c) - 97 + 10

-----------------------------------------------------------------------------
(* Scanning a C string: what is left of it.                                               *)

Begins(s, set) == s # <<>> /\ Head(s) \in set
Span(s, set) == Min({k \in DOMAIN s : s[k] \notin set} \cup {Len(s) + 1}) - 1
From(s, k) == SubSeq(s, k + 1, Len(s))
SkipSpaces(s) == From(s, Span(s, lisspace))

isneg(s) == Begins(s, {Byte["-"]})
Unsigned(s) == IF Begins(s, {Byte["-"], Byte["+"]}) THEN Tail(s) ELSE s
IsHex(s) == Len(s) >= 2 /\ s[1] = Byte["0"] /\ s[2] \in {Byte["x"], Byte["X"]}

(* l_castU2S()                                                                      *)
ToSigned(n) == ((n + 2^(INTBITS - 1)) % 2^INTBITS) - 2^(INTBITS - 1)

InBase(digits, base) == FoldLeft(LAMBDA a, c : a * base + luaO_hexavalue(c), 0, digits)

-----------------------------------------------------------------------------
(* Conversions: the number, or none.                                                      *)

IntegerOf(s, set, base, neg) ==
  LET k == Span(s, set)
      a == InBase(SubSeq(s, 1, k), base)
  IN  IF k = 0 \/ SkipSpaces(From(s, k)) # <<>> THEN {}
      ELSE {IntValue(ToSigned(IF neg THEN -a ELSE a))}

l_str2int(s) ==
  LET t == SkipSpaces(s)
      u == Unsigned(t)
  IN  IF IsHex(u) THEN IntegerOf(From(u, 2), lisxdigit, 16, isneg(t))
      ELSE IntegerOf(u, lisdigit, 10, isneg(t))

(* strtod(): digits with at most one dot among them, then an exponent, which needs a digit.  Nothing but     *)
(* spaces may follow.                                                                *)
DotsIn(s) == {k \in DOMAIN s : s[k] = Byte["."]}
Mantissa(s, set) ==
  LET k == Span(s, set \cup {Byte["."]})
      dots == DotsIn(SubSeq(s, 1, k))
  IN  SubSeq(s, 1, IF Cardinality(dots) < 2 THEN k ELSE Min(dots \ {Min(dots)}) - 1)
DigitsOf(mantissa) == SelectSeq(mantissa, LAMBDA c : c # Byte["."])
Decimals(mantissa) == IF DotsIn(mantissa) = {} THEN 0 ELSE Len(mantissa) - Min(DotsIn(mantissa))

HasExponent(s, letters) == Begins(s, letters) /\ Begins(Unsigned(Tail(s)), lisdigit)
ExponentDigits(s) == SubSeq(Unsigned(Tail(s)), 1, Span(Unsigned(Tail(s)), lisdigit))
Exponent(s, letters) ==
  IF ~HasExponent(s, letters) THEN 0
  ELSE IF isneg(Tail(s)) THEN -InBase(ExponentDigits(s), 10) ELSE InBase(ExponentDigits(s), 10)
AfterExponent(s, letters) ==
  IF ~HasExponent(s, letters) THEN s ELSE From(Unsigned(Tail(s)), Len(ExponentDigits(s)))

(* A digit counts base^weight.                                                  *)
FloatOf(mantissa, rest, letters, base, weight, neg) ==
  LET m == InBase(DigitsOf(mantissa), base^weight)
  IN  IF DigitsOf(mantissa) = <<>> \/ SkipSpaces(AfterExponent(rest, letters)) # <<>> THEN {}
      ELSE {FloatValue(base, IF neg THEN -m ELSE m, Exponent(rest, letters) - weight * Decimals(mantissa))}

Strtod(s, set, letters, base, weight, neg) ==
  FloatOf(Mantissa(s, set), From(s, Len(Mantissa(s, set))), letters, base, weight, neg)

l_str2d(s) ==
  LET t == SkipSpaces(s)
      u == Unsigned(t)
  IN  IF \E k \in DOMAIN s : s[k] \in {Byte["n"], Byte["N"]} THEN {}
      ELSE IF \E k \in DOMAIN s : s[k] \in {Byte["x"], Byte["X"]}
           THEN IF IsHex(u) THEN Strtod(From(u, 2), lisxdigit, {Byte["p"], Byte["P"]}, 2, 4, isneg(t)) ELSE {}
      ELSE Strtod(u, lisdigit, {Byte["e"], Byte["E"]}, 10, 1, isneg(t))

luaO_str2num(s) == IF l_str2int(s) # {} THEN l_str2int(s) ELSE l_str2d(s)

-----------------------------------------------------------------------------
(* x in UTF-8: continuation bytes are put in front of each other until what is left of x fits the first     *)
(* byte beside the mark of their number; it holds up to mfb.                                  *)
RECURSIVE Continued(_, _, _)
Continued(x, mfb, bytes) ==
  IF x > mfb THEN Continued(x \div 64, mfb \div 2, <<128 + (x % 64)>> \o bytes)
  ELSE <<256 - 2 * (mfb + 1) + x>> \o bytes

luaO_utf8esc(x) == IF x < 128 THEN <<x>> ELSE Continued(x \div 64, 31, <<128 + (x % 64)>>)
=============================================================================
