----------------------------- MODULE LuaPattern -----------------------------
(***************************************************************************)
(* What a Lua pattern means (lpattern items as section 6.4.1 of the manual lists them and the    *)
(* comments of 3rd/lua/lstrlib.c name them), without a machine: a pattern is a list of items,     *)
(* an item has for every way to get to it the ways to go on, the one it prefers first, and a      *)
(* match is the first way through all items.  Captures belong to a way, so that nothing has     *)
(* to be taken back.                                                                  *)
(***************************************************************************)
EXTENDS Integers, Sequences, FiniteSets, SequencesExt

CONSTANTS LUA_MAXCAPTURES, Numeral

(* An item has a text, a kind, and by kind: of "one" the characters it stands for and how       *)
(* often; of "frontier" its characters; of "balance" the two it balances; of "back" the         *)
(* number of a capture.                                                              *)
TextOf(items) == FlattenSeq([k \in DOMAIN items |-> items[k].text])

Open == -1
Place == -2
NoWay == <<>>
Wrong(way) == [way EXCEPT !.wrong = TRUE]
Behind == "NUL"

-----------------------------------------------------------------------------
CharAt(s, k) == IF k \in DOMAIN s THEN s[k] ELSE Behind

(* How many characters of a set there are in s from k on.                                    *)
Most(s, k, chars) ==
  LET Ahead(m) == \A x \in k..(k + m - 1) : s[x] \in chars
  IN  CHOOSE m \in 0..(Len(s) + 1 - k) :
        Ahead(m) /\ \A more \in (m + 1)..(Len(s) + 1 - k) : ~Ahead(more)

Counts(suffix, m) ==
  CASE suffix = "" -> IF m = 0 THEN <<>> ELSE <<1>>
    [] suffix = "?" -> IF m = 0 THEN <<0>> ELSE <<1, 0>>
    [] suffix = "*" -> Reverse([x \in 1..(m + 1) |-> x - 1])
    [] suffix = "+" -> Reverse([x \in 1..m |-> x])
    [] suffix = "-" -> [x \in 1..(m + 1) |-> x - 1]

(* From k to before e there is a b, and an e that closes it and not another before.               *)
Opened(s, k, m, item) ==
  Cardinality({x \in k..m : s[x] = item.b}) - Cardinality({x \in k..m : s[x] = item.e})
Closing(s, k, item) ==
  {m \in (k + 1)..Len(s) :
     /\ s[m] = item.e
     /\ IF item.b = item.e THEN \A x \in (k + 1)..(m - 1) : s[x] # item.e
        ELSE Opened(s, k, m, item) = 0 /\ \A x \in k..(m - 1) : Opened(s, k, x, item) > 0}

LastOpen(way) == SelectLastInSeq(way.caps, LAMBDA c : c.len = Open)
Known(way, n) == n \in DOMAIN way.caps /\ way.caps[n].len # Open

Enter(way, len) ==
  IF Len(way.caps) = LUA_MAXCAPTURES THEN Wrong(way)
  ELSE [way EXCEPT !.caps = Append(@, [from |-> way.at, len |-> len])]

Text(s, c) == SubSeq(s, c.from, c.from + c.len - 1)

(* The ways an item goes on.                                                           *)
Ways(s, item, way) ==
  LET k == way.at
      If(condition, on) == IF condition THEN <<on>> ELSE NoWay
  IN  CASE way.wrong -> <<way>>
        [] ~way.wrong /\ item.kind = "one" ->
             LET counts == Counts(item.suffix, Most(s, k, item.chars))
             IN  [x \in DOMAIN counts |-> [way EXCEPT !.at = k + counts[x]]]
        [] ~way.wrong /\ item.kind = "end" -> If(k = Len(s) + 1, way)
        [] ~way.wrong /\ item.kind = "open" -> <<Enter(way, Open)>>
        [] ~way.wrong /\ item.kind = "place" -> <<Enter(way, Place)>>
        [] ~way.wrong /\ item.kind = "close" ->
             LET n == LastOpen(way)
             IN  IF n = 0 THEN <<Wrong(way)>>
                 ELSE <<[way EXCEPT !.caps[n].len = k - way.caps[n].from]>>
        [] ~way.wrong /\ item.kind = "back" ->
             IF ~Known(way, item.n) THEN <<Wrong(way)>>
             ELSE LET c == way.caps[item.n]
                  IN  If(c.len # Place /\ k + c.len <= Len(s) + 1
                           /\ SubSeq(s, k, k + c.len - 1) = Text(s, c),
                         [way EXCEPT !.at = k + c.len])
        [] ~way.wrong /\ item.kind = "balance" ->
             IF CharAt(s, k) # item.b \/ Closing(s, k, item) = {} THEN NoWay
             ELSE <<[way EXCEPT !.at = 1 + CHOOSE m \in Closing(s, k, item) : TRUE]>>
        [] ~way.wrong /\ item.kind = "frontier" ->
             If(CharAt(s, k - 1) \notin item.chars /\ CharAt(s, k) \in item.chars, way)
        [] ~way.wrong /\ item.kind = "malformed" -> <<Wrong(way)>>

(* The ways from k through all items, and the first of them if there is one.                      *)
Through(s, items, k) ==
  FoldLeft(LAMBDA ways, item : FlattenSeq([x \in DOMAIN ways |-> Ways(s, item, ways[x])]),
           <<[at |-> k, caps |-> <<>>, wrong |-> FALSE]>>, items)
First(ways, k) == IF ways = <<>> THEN {} ELSE {[from |-> k, way |-> ways[1]]}

(* The matches from k on, each the first behind the one before; and behind an empty one a         *)
(* character on.                                                                     *)
RECURSIVE Found(_, _, _, _), FoundWith(_, _, _, _, _)
Found(s, items, k, once) ==
  IF k > Len(s) + 1 THEN <<>>
  ELSE FoundWith(s, items, k, once, First(Through(s, items, k), k))
FoundWith(s, items, k, once, first) ==
  SetToSeq(first)
  \o IF once \/ (\E f \in first : f.way.wrong) THEN <<>>
     ELSE Found(s, items, Max({k + 1} \cup {f.way.at : f \in first}), once)

-----------------------------------------------------------------------------
(* What a match gives.                                                              *)
Whole(s, found) == <<"string", SubSeq(s, found.from, found.way.at - 1)>>

Given(s, found, n) ==
  LET caps == found.way.caps
  IN  CASE n = 1 /\ caps = <<>> -> Whole(s, found)
        [] n \in DOMAIN caps /\ caps[n].len = Place -> <<"position", caps[n].from>>
        [] n \in DOMAIN caps /\ caps[n].len >= 0 -> <<"string", Text(s, caps[n])>>
        [] OTHER -> <<"error">>

OwnCaptures(s, found) ==
  IF found.way.wrong THEN <<<<"error">>>>
  ELSE [n \in DOMAIN found.way.caps |-> Given(s, found, n)]

Captures(s, found) == IF found.way.caps = <<>> /\ ~found.way.wrong THEN <<Whole(s, found)>>
                      ELSE OwnCaptures(s, found)

(* A template: characters, numbers of captures, 0 for the whole match.                          *)
TextGiven(value) ==
  CASE value[1] = "string" -> value[2]
    [] value[1] = "position" -> <<Numeral[value[2]]>>
    [] OTHER -> <<"error">>

Filled(s, found, parts) ==
  FlattenSeq([x \in DOMAIN parts |->
    CASE parts[x].kind = "char" -> <<parts[x].char>>
      [] parts[x].kind = "capture" ->
           TextGiven(IF parts[x].n = 0 THEN Whole(s, found) ELSE Given(s, found, parts[x].n))
      [] parts[x].kind = "malformed" -> <<"error">>])
=============================================================================
