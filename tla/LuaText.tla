------------------------------ MODULE LuaText ------------------------------
(***************************************************************************)
(* The functions of 3rd/lua/lstrlib.c and 3rd/lua/ltablib.c that put strings together and take   *)
(* them apart without patterns: pack, packsize and unpack, an option of the format a step;       *)
(* sub, byte, rep and table.concat, a call a step.                                        *)
(*                                                                          *)
(* A byte is a number below 2^NB, a Lua integer has SZINT bytes.  A value is of type "integer",     *)
(* "string" (its bytes) or "float" (the bytes it is kept in, the first that of the lowest           *)
(* address); a float and what a cast to a smaller type makes of it are not told apart.             *)
(***************************************************************************)
EXTENDS Integers, Sequences, FiniteSetsExt, SequencesExt

CONSTANTS
  NB, SZINT, MAXINTSIZE, MAXALIGN, MAXSIZE,
  Sizeof,       (* the sizes of the C types, by the letter of the option                    *)
  NativeLittle,
  Digit,        (* the numbers of the digits                                        *)
  Packs, Texts  (* the calls a program makes                                        *)

VARIABLES
  task,         \* the call
  fmt, header,  \* what is left of its format, and the Header
  total,        \* totalsize, or pos
  args,         \* the arguments not yet packed
  bytes,        \* the string that is packed, or unpacked
  got,
  stage         \* "idle", "pack", "packed", "packsize", "sized", "unpack", "returned", "error"

textvars == <<task, fmt, header, total, args, bytes, got, stage>>

MC == 2^NB - 1
LUA_PACKPADBYTE == 0
Value(type, v) == <<type, v>>
String(v) == Value("string", v)

-----------------------------------------------------------------------------
(* Options.                                                                        *)

initheader == [islittle |-> NativeLittle, maxalign |-> 1]
Option(opt, size, h, rest) == [opt |-> opt, size |-> size, h |-> h, rest |-> rest]

(* The number at the head of f, and what follows it.                                       *)
RECURSIVE Number(_, _)
Number(f, a) ==
  IF f # <<>> /\ Head(f) \in DOMAIN Digit /\ a <= (MAXSIZE - 9) \div 10
  THEN Number(Tail(f), 10 * a + Digit[Head(f)])
  ELSE [n |-> a, rest |-> f]
getnum(f, df) ==
  IF f = <<>> \/ Head(f) \notin DOMAIN Digit THEN [n |-> df, rest |-> f] ELSE Number(f, 0)

Limited(opt, size, num, h) ==
  Option(IF num.n \in 1..MAXINTSIZE THEN opt ELSE "error", size, h, num.rest)

getoption(h, f) ==
  LET c == Head(f)
      rest == Tail(f)
      Numbered(opt, df) == LET num == getnum(rest, df) IN Limited(opt, num.n, num, h)
      Config(field, v) == Option("Knop", 0, [h EXCEPT ![field] = v], rest)
      max == getnum(rest, MAXALIGN)
      chars == getnum(rest, -1)
  IN  CASE c \in {"b", "h", "l", "j"} -> Option("Kint", Sizeof[c], h, rest)
        [] c \in {"B", "H", "L", "J", "T"} -> Option("Kuint", Sizeof[c], h, rest)
        [] c \in {"f", "d", "n"} -> Option("Kfloat", Sizeof[c], h, rest)
        [] c = "i" -> Numbered("Kint", Sizeof["i"])
        [] c = "I" -> Numbered("Kuint", Sizeof["i"])
        [] c = "s" -> Numbered("Kstring", Sizeof["T"])
        [] c = "c" -> Option(IF chars.n = -1 THEN "error" ELSE "Kchar", chars.n, h, chars.rest)
        [] c = "z" -> Option("Kzstr", 0, h, rest)
        [] c = "x" -> Option("Kpadding", 1, h, rest)
        [] c = "X" -> Option("Kpaddalign", 0, h, rest)
        [] c = " " -> Option("Knop", 0, h, rest)
        [] c \in {"<", ">"} -> Config("islittle", c = "<")
        [] c = "=" -> Config("islittle", NativeLittle)
        [] c = "!" -> Limited("Knop", 0, max, [h EXCEPT !.maxalign = max.n])
        [] OTHER -> Option("error", 0, h, rest)

PowerOf2(k) == \E e \in 0..k : k = 2^e

(* The details of option o, whose alignment is that of next: itself, or the one after an X.         *)
Details(o, next, after) ==
  LET align == Min({next.size, next.h.maxalign})
      aligned == next.size > 1 /\ o.opt # "Kchar"
      bad == \/ next.opt = "error"
             \/ o.opt = "Kpaddalign" /\ (o.rest = <<>> \/ next.opt = "Kchar" \/ next.size = 0)
             \/ aligned /\ ~PowerOf2(align)
  IN  [opt |-> IF bad THEN "error" ELSE o.opt, size |-> o.size, h |-> next.h, rest |-> next.rest,
       ntoalign |-> IF aligned /\ ~bad THEN (align - (after % align)) % align ELSE 0]
Following(o, after) ==
  Details(o, IF o.opt = "Kpaddalign" /\ o.rest # <<>> THEN getoption(o.h, o.rest) ELSE o, after)
getdetails == Following(getoption(header, fmt), total)

-----------------------------------------------------------------------------
(* Integers: the bytes of n from the low end; those behind a Lua integer repeat its sign.            *)
copywithendian(b, islittle) == IF islittle THEN b ELSE Reverse(b)

PackUnextended(n, islittle, size, neg) ==  \* mutant
  copywithendian([k \in 1..size |-> ((n % 2^(NB * SZINT)) \div 2^(NB * (k - 1))) % 2^NB], islittle)
packint(n, islittle, size, neg) ==
  LET u_ == n % 2^(NB * SZINT)
      Extension == IF neg THEN MC ELSE 0
  IN  copywithendian([k \in 1..size |-> IF k <= SZINT THEN (u_ \div 2^(NB * (k - 1))) % 2^NB ELSE Extension],
                     islittle)

Signed(res, size) == IF res >= 2^(NB * size - 1) THEN res - 2^(NB * size) ELSE res

(* A set of one, or of none if the integer is too large for Lua.                             *)
unpackint(b, islittle, issigned) ==
  LET low == copywithendian(b, islittle)
      limit == Min({Len(b), SZINT})
      res == FoldRight(LAMBDA byte, higher : higher * 2^NB + byte, SubSeq(low, 1, limit), 0)
      n == IF issigned \/ Len(b) >= SZINT THEN Signed(res, limit) ELSE res
      mask == IF issigned /\ n < 0 THEN MC ELSE 0
  IN  IF \A k \in (limit + 1)..Len(b) : low[k] = mask THEN {n} ELSE {}

-----------------------------------------------------------------------------
Fail == stage' = "error" /\ UNCHANGED <<task, fmt, header, total, args, bytes, got>>

Opens(newstage, f) ==
  /\ stage' = newstage /\ fmt' = f /\ header' = initheader /\ total' = 0

pack ==
  /\ stage = "idle"
  /\ \E call \in Packs :
       /\ task' = [fn |-> "pack", items |-> call.items, args |-> call.args, cut |-> 0]
       /\ args' = call.args
       /\ Opens("pack", FlattenSeq([k \in DOMAIN call.items |-> call.items[k].text]))
  /\ UNCHANGED <<bytes, got>>

Valued == {"Kint", "Kuint", "Kfloat", "Kchar", "Kstring", "Kzstr"}

(* The argument an option takes is of its type and fits.                                   *)
Fits(d, arg) ==
  CASE d.opt = "Kint" -> arg[1] = "integer" /\ (d.size < SZINT =>
                           -(2^(d.size * NB - 1)) <= arg[2] /\ arg[2] < 2^(d.size * NB - 1))
    [] d.opt = "Kuint" -> arg[1] = "integer" /\ (d.size < SZINT =>
                            arg[2] % 2^(NB * SZINT) < 2^(d.size * NB))
    [] d.opt = "Kfloat" -> arg[1] = "float"
    [] d.opt = "Kchar" -> arg[1] = "string" /\ Len(arg[2]) = d.size
    [] d.opt = "Kstring" -> arg[1] = "string" /\ (d.size >= Sizeof["T"] \/ Len(arg[2]) < 2^(d.size * NB))
    [] d.opt = "Kzstr" -> arg[1] = "string" /\ \A k \in DOMAIN arg[2] : arg[2][k] # 0

Written(d, arg) ==
  CASE d.opt \in {"Kint", "Kuint"} -> packint(arg[2], d.h.islittle, d.size, d.opt = "Kint" /\ arg[2] < 0)
    [] d.opt = "Kfloat" -> IF d.h.islittle = NativeLittle THEN arg[2] ELSE Reverse(arg[2])
    [] d.opt = "Kchar" -> arg[2]
    [] d.opt = "Kstring" -> packint(Len(arg[2]), d.h.islittle, d.size, FALSE) \o arg[2]
    [] d.opt = "Kzstr" -> Append(arg[2], 0)

Variable(d, arg) ==
  CASE d.opt = "Kstring" -> Len(arg[2]) [] d.opt = "Kzstr" -> Len(arg[2]) + 1 [] OTHER -> 0

Padded(count) == [k \in 1..count |-> LUA_PACKPADBYTE]

str_pack ==
  /\ stage = "pack"
  /\ LET d == getdetails
         takes == d.opt \in Valued
         suits == takes => args # <<>> /\ Fits(d, Head(args))
     IN  \/ fmt = <<>> /\ stage' = "packed" /\ UNCHANGED <<task, fmt, header, total, args, bytes, got>>
         \/ fmt # <<>> /\ ~(d.opt # "error" /\ suits) /\ Fail
         \/ /\ fmt # <<>> /\ d.opt # "error" /\ takes /\ suits
            /\ bytes' = bytes \o Padded(d.ntoalign) \o Written(d, Head(args))
            /\ total' = total + d.ntoalign + d.size + Variable(d, Head(args))
            /\ args' = Tail(args) /\ fmt' = d.rest /\ header' = d.h
            /\ UNCHANGED <<task, got, stage>>
         \/ /\ fmt # <<>> /\ d.opt # "error" /\ ~takes
            /\ bytes' = bytes \o Padded(d.ntoalign + d.size)
            /\ total' = total + d.ntoalign + d.size
            /\ fmt' = d.rest /\ header' = d.h
            /\ UNCHANGED <<task, args, got, stage>>

(* The program asks for the size of the format it has packed, or unpacks what it got, or all but      *)
(* its last byte.                                                                      *)
Again ==
  /\ stage = "packed"
  /\ \E fn \in {"packsize", "unpack"}, cut \in {0, 1} :
       /\ cut = 1 => fn = "unpack" /\ bytes # <<>>
       /\ task' = [task EXCEPT !.fn = fn, !.cut = cut]
       /\ bytes' = SubSeq(bytes, 1, Len(bytes) - cut)
       /\ Opens(fn, FlattenSeq([k \in DOMAIN task.items |-> task.items[k].text]))
  /\ UNCHANGED <<args, got>>

str_packsize ==
  /\ stage = "packsize"
  /\ LET d == getdetails
         bad == \/ d.opt \in {"error", "Kstring", "Kzstr"}
                \/ total > MAXSIZE - (d.size + d.ntoalign)
     IN  \/ fmt = <<>> /\ stage' = "sized" /\ UNCHANGED <<task, fmt, header, total, args, bytes, got>>
         \/ fmt # <<>> /\ bad /\ Fail
         \/ /\ fmt # <<>> /\ ~bad
            /\ total' = total + d.size + d.ntoalign /\ fmt' = d.rest /\ header' = d.h
            /\ UNCHANGED <<task, args, bytes, got, stage>>

(* strlen(): a string in Lua has a zero behind its end.                                     *)
ZeroAt(k) == Min({x \in (k + 1)..Len(bytes) : bytes[x] = 0} \cup {Len(bytes) + 1}) - 1

(* The value of option d at position k, and what it takes in addition to its size: none if it is      *)
(* not there.  A length is a size_t: one with its highest bit set is longer than any string, but         *)
(* for the wrap-around of `pos + len + size', which no length that pack() writes comes near.             *)
Read(d, k) ==
  LET piece == SubSeq(bytes, k + 1, k + d.size)
      Got(value, more) == [value |-> value, more |-> more]
  IN  CASE d.opt \in {"Kint", "Kuint"} ->
             {Got(Value("integer", n), 0) : n \in unpackint(piece, d.h.islittle, d.opt = "Kint")}
        [] d.opt = "Kfloat" -> {Got(Value("float", IF d.h.islittle = NativeLittle THEN piece ELSE Reverse(piece)), 0)}
        [] d.opt = "Kchar" -> {Got(String(piece), 0)}
        [] d.opt = "Kstring" ->
             {Got(String(SubSeq(bytes, k + d.size + 1, k + d.size + len)), len) :
                len \in unpackint(piece, d.h.islittle, FALSE) \cap 0..(Len(bytes) - k - d.size)}
        [] d.opt = "Kzstr" -> {Got(String(SubSeq(bytes, k + 1, ZeroAt(k))), ZeroAt(k) - k + 1)}

str_unpack ==
  /\ stage = "unpack"
  /\ LET d == getdetails
         k == total + d.ntoalign
         short == k + d.size > Len(bytes)
         read == IF short \/ d.opt \notin Valued THEN {} ELSE Read(d, k)
     IN  \/ fmt = <<>> /\ stage' = "returned" /\ UNCHANGED <<task, fmt, header, total, args, bytes, got>>
         \/ /\ fmt # <<>>
            /\ ~(d.opt # "error" /\ ~short /\ (d.opt \in Valued => read # {}))
            /\ Fail
         \/ /\ fmt # <<>> /\ d.opt # "error" /\ ~short
            /\ \/ d.opt \notin Valued /\ total' = k + d.size /\ got' = got
               \/ \E r \in read : total' = k + r.more + d.size /\ got' = Append(got, r.value)
            /\ fmt' = d.rest /\ header' = d.h
            /\ UNCHANGED <<task, args, bytes, stage>>

-----------------------------------------------------------------------------
(* Functions without a loop in which anything can happen: what they return, none if they raise.      *)

posrelat(pos, len) == IF pos >= 0 THEN pos ELSE IF -pos > len THEN 0 ELSE len + pos + 1

Slice(s, from, to) ==
  LET first == Max({1, posrelat(from, Len(s))})
      last == Min({Len(s), posrelat(to, Len(s))})
  IN  IF first <= last THEN SubSeq(s, first, last) ELSE <<>>

Returns(call, outcomes) ==
  /\ stage = "idle"
  /\ task' = call
  /\ stage' = IF outcomes = {} THEN "error" ELSE "returned"
  /\ got' = IF outcomes = {} THEN <<>> ELSE CHOOSE r \in outcomes : TRUE
  /\ UNCHANGED <<fmt, header, total, args, bytes>>

str_sub ==
  \E call \in Texts : call.fn = "sub" /\ Returns(call, {<<String(Slice(call.s, call.i, call.j))>>})

str_byte ==
  \E call \in Texts :
    /\ call.fn = "byte"
    /\ LET slice == Slice(call.s, call.i, call.j)
       IN  Returns(call, {[k \in DOMAIN slice |-> Value("integer", slice[k])]})

str_rep ==
  \E call \in Texts :
    /\ call.fn = "rep"
    /\ LET copies == FoldLeft(LAMBDA p, k : p \o call.s \o call.sep, <<>>, [k \in 1..(call.n - 1) |-> k])
           large == Len(call.s) + Len(call.sep) > MAXSIZE \div call.n
       IN  Returns(call, CASE call.n <= 0 -> {<<String(<<>>)>>}
                           [] call.n > 0 /\ large -> {}
                           [] OTHER -> {<<String(copies \o call.s)>>})

(* t[k]                                                                           *)
geti(elements, k) == IF k \in DOMAIN elements THEN elements[k] ELSE Value("nil", 0)

tconcat ==
  \E call \in Texts :
    /\ call.fn = "concat"
    /\ LET indices == [k \in 1..Max({0, call.j - call.i + 1}) |-> call.i + k - 1]
           AddField(b, k) ==
             IF b = {} \/ geti(call.t, k)[1] # "string" THEN {}
             ELSE {sofar \o geti(call.t, k)[2] \o IF k < call.j THEN call.sep ELSE <<>> : sofar \in b}
       IN  Returns(call, {<<String(b)>> : b \in FoldLeft(AddField, {<<>>}, indices)})

unpack ==
  \E call \in Texts :
    /\ call.fn = "unpack"
    /\ Returns(call, CASE call.i > call.j -> {<<>>}
                       [] call.i <= call.j /\ call.j - call.i >= MAXSIZE -> {}
                       [] OTHER -> {[k \in 1..(call.j - call.i + 1) |-> geti(call.t, call.i + k - 1)]})

Discards ==
  /\ stage \in {"sized", "returned", "error"}
  /\ stage' = "idle" /\ task' = [fn |-> "none"] /\ fmt' = <<>> /\ header' = initheader
  /\ total' = 0 /\ args' = <<>> /\ bytes' = <<>> /\ got' = <<>>

TextInit ==
  /\ stage = "idle" /\ task = [fn |-> "none"] /\ fmt = <<>> /\ header = initheader
  /\ total = 0 /\ args = <<>> /\ bytes = <<>> /\ got = <<>>

TextNext ==
  \/ pack \/ str_pack \/ Again \/ str_packsize \/ str_unpack
  \/ stage = "idle" /\ (str_sub \/ str_byte \/ str_rep \/ tconcat \/ unpack)
  \/ Discards
TextSpec == TextInit /\ [][TextNext]_textvars

-----------------------------------------------------------------------------
(* What a call should give.  A format is a list of items, and its meaning the string it lays out.      *)

(* The bytes of n, a number in size digits of base 2^NB.                                     *)
Digits(n, size, little) ==
  LET low == [k \in 1..size |-> (n \div 2^(NB * (k - 1))) % 2^NB]
  IN  IF little THEN low ELSE Reverse(low)

Spoilt(layout) == [layout EXCEPT !.wrong = TRUE]

(* The next byte is at a multiple of size, but of no more than the greatest alignment.               *)
Aligned(layout, size) ==
  LET a == Min({size, layout.max})
      gap == CHOOSE g \in 0..(a - 1) : (Len(layout.bytes) + g) % a = 0
  IN  IF size = 1 THEN layout
      ELSE IF a \notin {1, 2, 4, 8, 16} THEN Spoilt(layout)
      ELSE [layout EXCEPT !.bytes = @ \o [k \in 1..gap |-> 0]]

Puts(layout, b) == [layout EXCEPT !.bytes = @ \o b, !.args = Tail(@)]

(* An item takes the first argument, an integer from low to before high.                            *)
PutsInteger(layout, item, arg) ==
  LET bits == NB * item.size
      whole == 2^(NB * SZINT)
      n == IF item.signed THEN arg[2] ELSE arg[2] % whole
      low == IF item.signed THEN -(2^(bits - 1)) ELSE 0
      high == IF item.signed THEN 2^(bits - 1) ELSE 2^bits
  IN  IF arg[1] = "integer" /\ low <= n /\ n < high
      THEN Puts(layout, Digits(n, item.size, layout.little)) ELSE Spoilt(layout)

PutsString(layout, item, arg) ==
  CASE item.kind = "chars" -> IF Len(arg[2]) = item.size THEN Puts(layout, arg[2]) ELSE Spoilt(layout)
    [] item.kind = "zero" -> IF 0 \in Range(arg[2]) THEN Spoilt(layout) ELSE Puts(layout, Append(arg[2], 0))
    [] item.kind = "counted" ->
         IF item.size < SZINT /\ Len(arg[2]) >= 2^(NB * item.size) THEN Spoilt(layout)
         ELSE Puts(layout, Digits(Len(arg[2]), item.size, layout.little) \o arg[2])

Takes(item) == item.kind \in {"integer", "float", "chars", "zero", "counted"}
PutsValue(layout, item, arg) ==
  CASE item.kind = "integer" -> PutsInteger(layout, item, arg)
    [] item.kind = "float" -> IF arg[1] # "float" THEN Spoilt(layout)
                              ELSE Puts(layout, IF layout.little = NativeLittle THEN arg[2] ELSE Reverse(arg[2]))
    [] item.kind \in {"chars", "zero", "counted"} ->
         IF arg[1] # "string" THEN Spoilt(layout) ELSE PutsString(layout, item, arg)

Lay(layout, item) ==
  CASE item.kind = "order" -> [layout EXCEPT !.little = item.little]
    [] item.kind = "max" -> [layout EXCEPT !.max = item.size]
    [] item.kind = "space" -> layout
    [] item.kind = "pad" -> [layout EXCEPT !.bytes = Append(@, 0)]
    [] item.kind = "align" -> Aligned(layout, item.size)
    [] item.kind = "malformed" -> Spoilt(layout)
    [] Takes(item) ->
         IF layout.args = <<>> THEN Spoilt(layout)
         ELSE PutsValue(IF item.kind \in {"chars", "zero"} THEN layout ELSE Aligned(layout, item.size),
                        item, Head(layout.args))

Laid(items, values) ==
  FoldLeft(LAMBDA layout, item : IF layout.wrong THEN layout ELSE Lay(layout, item),
           [little |-> NativeLittle, max |-> 1, bytes |-> <<>>, args |-> values, wrong |-> FALSE], items)

Has(kinds) == \E k \in DOMAIN task.items : task.items[k].kind \in kinds
EndsInZero == task.items[Len(task.items)].kind = "zero"
Taken == SubSeq(task.args, 1, Cardinality({k \in DOMAIN task.items : Takes(task.items[k])}))

PackDefined ==
  LET laid == Laid(task.items, task.args)
  IN  /\ total = Len(bytes)
      /\ stage = "error" => laid.wrong
      /\ stage = "packed" => ~laid.wrong /\ bytes = laid.bytes

(* packsize() is the length of what was packed; unpack() gives the arguments back, unless a byte is      *)
(* missing, for which nothing but the zero behind a string can stand in.                            *)
PacksizeDefined ==
  /\ stage = "sized" => ~Has({"zero", "counted"}) /\ total = Len(bytes) /\ total <= MAXSIZE
  /\ stage = "error" => Has({"zero", "counted"}) \/ Len(bytes) > MAXSIZE
UnpackDefined ==
  /\ stage = "returned" => /\ got = Taken
                           /\ total = Len(bytes) + task.cut
                           /\ task.cut = 1 => EndsInZero
  /\ stage = "error" => task.cut = 1

Absolute(k, len) == IF k < 0 THEN len + 1 + k ELSE k
Inside(s, from, to) ==
  LET indices == SelectSeq([k \in DOMAIN s |-> k],
                   LAMBDA k : Absolute(from, Len(s)) <= k /\ k <= Absolute(to, Len(s)))
  IN  [x \in DOMAIN indices |-> s[indices[x]]]

RepDefined ==
  LET period == Len(task.s) + Len(task.sep)
      Copy(k) == IF k % period < Len(task.s) THEN task.s[(k % period) + 1]
                 ELSE task.sep[(k % period) - Len(task.s) + 1]
  IN  IF stage = "error" THEN task.n > 0 /\ task.n * period > MAXSIZE
      ELSE /\ task.n > 0 => task.n * period <= MAXSIZE
           /\ got = <<String([k \in 1..(IF task.n <= 0 THEN 0 ELSE task.n * period - Len(task.sep)) |->
                                  Copy(k - 1)])>>

ConcatDefined ==
  LET strings == [k \in 1..Max({0, task.j - task.i + 1}) |-> geti(task.t, task.i + k - 1)]
  IN  IF \E k \in DOMAIN strings : strings[k][1] # "string" THEN stage = "error"
      ELSE /\ stage = "returned"
           /\ got = <<String(FlattenSeq([k \in DOMAIN strings |->
                          (IF k = 1 THEN <<>> ELSE task.sep) \o strings[k][2]]))>>

(* Every call ends with what the manual says: a packed string lays its arguments out in order, aligned    *)
(* and in the byte order asked for, packsize() is its length, unpack() takes it apart again; a slice    *)
(* is what lies between two positions, repetition and concatenation are copies with separators.          *)
(* (str_pack(), str_packsize(), str_unpack(), getdetails(); str_sub(), str_rep(), tconcat().)            *)
TextsAsDefined ==
  CASE task.fn = "pack" -> PackDefined
    [] task.fn = "packsize" -> PacksizeDefined
    [] task.fn = "unpack" /\ "items" \in DOMAIN task -> UnpackDefined
    [] task.fn = "unpack" /\ "items" \notin DOMAIN task ->
         IF task.j - task.i >= MAXSIZE THEN stage = "error"
         ELSE got = [k \in 1..Max({0, task.j - task.i + 1}) |-> geti(task.t, task.i + k - 1)]
    [] task.fn = "sub" -> got = <<String(Inside(task.s, task.i, task.j))>>
    [] task.fn = "byte" -> got = [k \in DOMAIN Inside(task.s, task.i, task.j) |->
                                        Value("integer", Inside(task.s, task.i, task.j)[k])]
    [] task.fn = "rep" -> RepDefined
    [] task.fn = "concat" -> ConcatDefined
    [] task.fn = "none" -> TRUE
=============================================================================
