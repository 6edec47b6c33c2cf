----------------------------- MODULE LuaPrograms -----------------------------
(***************************************************************************)
(* Small Lua programs as syntax trees, the tokens the scanner would make of their text,    *)
(*                                                                                   *)
(***************************************************************************)
EXTENDS Integers, Sequences, SequencesExt

-----------------------------------------------------------------------------
(* From syntax trees to tokens.                                                       *)

Level(op) ==
  CASE op = "or" -> 1 [] op = "and" -> 2
    [] op \in {"<", ">", "<=", ">=", "~=", "=="} -> 3
    [] op = ".." -> 4 [] op \in {"+", "-"} -> 5 [] op \in {"*", "//", "%"} -> 6
LevelOf(x) ==
  CASE x[1] \in {"and", "or"} -> Level(x[1]) [] x[1] = "binop" -> Level(x[2])
    [] x[1] = "unop" -> 7 [] OTHER -> 8

Sep(lists, sep) == FoldLeft(LAMBDA a, b : IF a = <<>> THEN b ELSE a \o sep \o b, <<>>, lists)
Each(Op(_), xs) == [n \in DOMAIN xs |-> Op(xs[n])]
Names(xs) == Sep([n \in DOMAIN xs |-> <<<<"name", xs[n]>>>>], <<<<",">>>>)
Word(w) == <<<<w>>>>

RECURSIVE ExpTokens(_), BlockTokens(_), StatTokens(_), IfTokens(_)
List(xs) == Sep([n \in DOMAIN xs |-> ExpTokens(xs[n])], Word(","))
Bracketed(x, wrap) == IF wrap THEN Word("(") \o ExpTokens(x) \o Word(")") ELSE ExpTokens(x)
Operation(op, x, y) ==
  LET right == op = ".." IN
  Bracketed(x, LevelOf(x) < Level(op) \/ (right /\ LevelOf(x) = Level(op))) \o Word(op)
    \o Bracketed(y, LevelOf(y) < Level(op) \/ (~right /\ LevelOf(y) = Level(op)))
Prefix_(x) == Bracketed(x, x[1] \notin {"name", "index", "call", "method", "paren"})
BodyTokens(x, params) ==
  Word("(") \o Sep(SelectSeq(<<Names(params), IF x[3] THEN Word("...") ELSE <<>>>>, LAMBDA l : l # <<>>),
                   Word(","))
    \o Word(")") \o BlockTokens(x[4]) \o Word("end")

ConstTokens(v) ==
  CASE v[1] = "nil" -> Word("nil")
    [] v[1] = "bool" -> Word(IF v[2] THEN "true" ELSE "false")
    [] v[1] = "int" -> <<<<"int", v[2]>>>>
    [] v[1] = "str" -> <<<<"string", v[2]>>>>

ExpTokens(x) ==
  CASE x[1] = "const" -> ConstTokens(x[2])
    [] x[1] = "name" -> <<<<"name", x[2]>>>>
    [] x[1] = "dots" -> Word("...")
    [] x[1] = "paren" -> Word("(") \o ExpTokens(x[2]) \o Word(")")
    [] x[1] = "index" ->
         Prefix_(x[2]) \o (IF x[3][1] = "const" /\ x[3][2][1] = "str" THEN <<<<".">>, <<"name", x[3][2][2]>>>>
                           ELSE Word("[") \o ExpTokens(x[3]) \o Word("]"))
    [] x[1] = "call" -> Prefix_(x[2]) \o Word("(") \o List(x[3]) \o Word(")")
    [] x[1] = "method" ->
         Prefix_(x[2]) \o <<<<":">>, <<"name", x[3]>>, <<"(">>>> \o List(x[4]) \o Word(")")
    [] x[1] \in {"and", "or"} -> Operation(x[1], x[2], x[3])
    [] x[1] = "binop" -> Operation(x[2], x[3], x[4])
    [] x[1] = "unop" -> Word(x[2]) \o Bracketed(x[3], LevelOf(x[3]) < 7)
    [] x[1] = "function" -> Word("function") \o BodyTokens(x, x[2])
    [] x[1] = "table" ->
         LET Field(f) == IF f[1] = "item" THEN ExpTokens(f[2])
                         ELSE IF f[2][1] = "const" /\ f[2][2][1] = "str"
                         THEN <<<<"name", f[2][2][2]>>, <<"=">>>> \o ExpTokens(f[3])
                         ELSE Word("[") \o ExpTokens(f[2]) \o <<<<"]">>, <<"=">>>> \o ExpTokens(f[3])
         IN  Word("{") \o Sep([n \in DOMAIN x[2] |-> Field(x[2][n])], Word(",")) \o Word("}")

(* function t.f() and function t:f() are assignments as well.                             *)
FunctionTokens(x, f) ==
  IF f[2] # <<>> /\ f[2][1] = "self" /\ x[1] = "index"
  THEN Word("function") \o ExpTokens(x[2]) \o <<<<":">>, <<"name", x[3][2][2]>>>> \o BodyTokens(f, Tail(f[2]))
  ELSE Word("function") \o ExpTokens(x) \o BodyTokens(f, f[2])

IfTokens(st) ==
  LET else == st[4]
      elseif == Len(else) = 1 /\ else[1][1] = "if"
  IN  Word("if") \o ExpTokens(st[2]) \o Word("then") \o BlockTokens(st[3])
        \o (IF else = <<>> THEN <<>>
            ELSE IF elseif THEN Word("elseif") \o Tail(IfTokens(else[1]))
            ELSE Word("else") \o BlockTokens(else))

StatTokens(st) ==
  CASE st[1] = "local" ->
         Word("local") \o Names(st[2]) \o (IF st[3] = <<>> THEN <<>> ELSE Word("=") \o List(st[3]))
    [] st[1] = "localfunction" ->
         <<<<"local">>, <<"function">>, <<"name", st[2]>>>> \o BodyTokens(st[3], st[3][2])
    [] st[1] = "assign" ->
         IF st[3][1][1] = "function" /\ (st[2][1][1] = "name" \/ st[2][1][3][1] = "const")
         THEN FunctionTokens(st[2][1], st[3][1])
         ELSE List(st[2]) \o Word("=") \o List(st[3])
    [] st[1] = "callstat" -> ExpTokens(st[2])
    [] st[1] = "do" -> Word("do") \o BlockTokens(st[2]) \o Word("end")
    [] st[1] = "while" ->
         Word("while") \o ExpTokens(st[2]) \o Word("do") \o BlockTokens(st[3]) \o Word("end")
    [] st[1] = "repeat" -> Word("repeat") \o BlockTokens(st[2]) \o Word("until") \o ExpTokens(st[3])
    [] st[1] = "if" -> IfTokens(st) \o Word("end")
    [] st[1] = "fornum" ->
         <<<<"for">>, <<"name", st[2]>>, <<"=">>>> \o ExpTokens(st[3]) \o Word(",") \o ExpTokens(st[4])
           \o (IF st[5] = <<"const", <<"int", 1>>>> THEN <<>> ELSE Word(",") \o ExpTokens(st[5]))
           \o Word("do") \o BlockTokens(st[6]) \o Word("end")
    [] st[1] = "forin" ->
         Word("for") \o Names(st[2]) \o Word("in") \o List(st[3]) \o Word("do") \o BlockTokens(st[4])
           \o Word("end")
    [] st[1] = "label" -> <<<<"::">>, <<"name", st[2]>>, <<"::">>>>
    [] st[1] = "goto" -> IF st[2] = "break" THEN Word("break") ELSE <<<<"goto">>, <<"name", st[2]>>>>
    [] st[1] = "return" -> Word("return") \o List(st[2])
BlockTokens(b) ==
  FoldLeft(LAMBDA t, st : t \o StatTokens(st) \o (IF st[1] = "callstat" THEN Word(";") ELSE <<>>), <<>>, b)

-----------------------------------------------------------------------------
(* The programs.                                                                     *)

K(n) == <<"const", <<"int", n>>>>
Nil_ == <<"const", <<"nil">>>>
False == <<"const", <<"bool", FALSE>>>>
T(s) == <<"const", <<"str", s>>>>
N(x) == <<"name", x>>
Dots == <<"dots">>
Call(f, xs) == <<"call", f, xs>>
Do(f, xs) == <<"callstat", Call(N(f), xs)>>
Put(xs) == Do("print", xs)
Fn(params, b) == <<"function", SelectSeq(params, LAMBDA x : x # "..."), "..." \in ToSet(params), b>>
Op(op, x, y) == <<"binop", op, x, y>>
Ix(x, y) == <<"index", x, y>>
Item(x) == <<"item", x>>
Tab(xs) == <<"table", [n \in DOMAIN xs |-> Item(xs[n])]>>
Let(x, v) == <<"assign", <<x>>, <<v>>>>
Local(x, v) == <<"local", <<x>>, <<v>>>>
If(x, b, else) == <<"if", x, b, else>>
Return(xs) == <<<<"return", xs>>>>
Def(f, params, b) == <<"localfunction", f, Fn(params, b)>>
Goto(l) == <<"goto", l>>
Label(l) == <<"label", l>>

(* All pairs and triples of members of sequences, and a sequence with each member changed.    *)
Pairs(A, B) ==
  [n \in 1..(Len(A) * Len(B)) |-> <<A[((n - 1) \div Len(B)) + 1], B[((n - 1) % Len(B)) + 1]>>]
Triples(A, B, D) == LET P == Pairs(Pairs(A, B), D) IN [n \in DOMAIN P |-> Append(P[n][1], P[n][2])]
Map(Op_(_), A) == [n \in DOMAIN A |-> Op_(A[n])]

(* a is nil, b is 2, f() is 1, 2: conditions of two and three operands, in three places.      *)
F == Call(N("f"), <<>>)
Leaves == <<N("a"), N("b"), Nil_, K(1), F, Op("==", N("a"), N("b")), Op("<", N("b"), K(3))>>
Logic(P) ==
  Map(LAMBDA p : <<"and", p[1], p[2]>>, P) \o Map(LAMBDA p : <<"or", p[1], p[2]>>, P)
Logic2(A, B) ==
  LET ops == Logic(Pairs(A, B)) IN ops \o Map(LAMBDA x : <<"unop", "not", x>>, ops)
Conditions ==
  Logic2(Leaves, Leaves)
    \o Logic2(Logic2(<<N("a"), K(1), Op("==", N("a"), N("b"))>>, <<F, N("b")>>), <<N("a"), F, Op("<", N("b"), K(3))>>)
    \o Logic2(<<N("a"), F, Op("<", N("b"), K(3))>>, Logic2(<<N("a"), False, Op(">=", N("b"), K(2))>>, <<N("b")>>))
Boolean ==
  Map(LAMBDA x : <<Local("a", Nil_), Local("b", K(2)), Def("f", <<>>, Return(<<K(1), N("b")>>)),
                   Local("r", x), Put(<<N("r"), x>>), If(x, <<Put(<<T("yes")>>)>>, <<Put(<<T("no")>>)>>)>>,
      Conditions)

(* Numbers near where integers wrap around, as constants and as variables.                  *)
Numbers == <<K(0), K(2), K(7), K(15), <<"unop", "-", K(3)>>, <<"unop", "-", K(15)>>>>
Results(x, y) == <<Op("+", x, y), Op("-", x, y), Op("*", x, y), Op("..", x, y), Op("<=", x, y)>>
Arithmetic ==
  Map(LAMBDA p : <<Local("a", p[1]), Local("b", p[2]), Put(Results(p[1], p[2])), Put(Results(N("a"), p[2])),
                   Put(Results(p[1], N("b"))), Put(<<<<"unop", "-", Op("-", p[1], K(1))>>>>),
                   Put(<<Op("//", p[1], p[2]), Op("%", N("a"), N("b"))>>)>>, Pairs(Numbers, Numbers))
Grouped ==
  Map(LAMBDA p : <<Local("a", K(3)), Put(<<Op(p[1], Op(p[2], N("a"), K(2)), K(4)), Op(p[1], N("a"), Op(p[2], K(2), K(4))),
                                     <<"unop", "-", Op(p[2], N("a"), K(2))>>>>)>>,
      Pairs(<<"+", "-", "*", "..", "//", "<">>, <<"+", "-", "*", "%">>))

(* Loops whose bodies make closures of their variables and are left in every way.             *)
Count == Let(N("n"), Op("+", N("n"), K(1)))
Keep(x) == Let(Ix(N("fs"), Op("+", <<"unop", "#", N("fs")>>, K(1))),
               Fn(<<>>, <<Let(N(x), Op("+", N(x), K(1)))>> \o Return(<<N(x), N("n")>>)))
Loops(b) ==
  <<<<"while", Op("<", N("n"), K(3)), b>>, <<"repeat", b, Op(">", N("n"), K(2))>>,
    <<"repeat", <<Local("x", K(5))>> \o b, Op(">", Op("+", N("x"), N("n")), K(7))>>,
    <<"fornum", "i", K(3), K(1), <<"unop", "-", K(1)>>, <<Local("x", N("i"))>> \o b>>,
    <<"forin", <<"i", "x">>, <<Call(N("ipairs"), <<Tab(<<K(7), K(8), K(9)>>)>>)>>, b>>>>
Leaving ==
  <<<<>>, <<If(Op("==", N("n"), K(2)), <<Goto("break")>>, <<>>)>>,
    <<If(Op("==", N("n"), K(2)), <<Goto("next")>>, <<>>)>>,
    <<If(Op("==", N("n"), K(2)), <<Put(<<T("out")>>), Goto("out")>>, <<>>)>>,
    <<If(Op("<", N("n"), K(2)), <<Put(<<T("on")>>)>>, Return(<<N("n")>>))>>>>
Bodies ==
  Map(LAMBDA l : <<Count, Local("x", N("n")), Keep("x")>> \o l, <<Leaving[1], Leaving[2], Leaving[4], Leaving[5]>>)
    \o Map(LAMBDA l : <<Count, <<"do", <<Local("x", N("n")), Keep("x")>> \o l \o <<Keep("x")>>>>, Label("next")>>, Leaving)
    \o Map(LAMBDA l : <<Count, <<"do", <<Keep("n"), Local("y", N("n"))>> \o l \o <<Keep("y")>>>>, Label("next")>>, Leaving)
Looping ==
  Map(LAMBDA p : <<Local("fs", Tab(<<>>)), Local("n", K(0)),
                   Def("run", <<>>, <<Loops(p[1])[p[2]], Label("out")>>), Do("run", <<>>),
                   <<"forin", <<"i", "f">>, <<Call(N("ipairs"), <<N("fs")>>)>>, <<Put(<<F>>), Put(<<F>>)>>>>>>,
      Pairs(Bodies, <<1, 2, 3, 4, 5>>))

(* Several variables assigned at once, of which some index others.                          *)
Places == <<N("a"), N("t"), Ix(N("t"), N("a")), Ix(N("t"), T("x")), N("g"), Ix(N("u"), N("a")), N("u")>>
Given == <<<<K(2), N("t")>>, <<N("t"), N("a")>>, <<F>>, <<F, N("a")>>, <<N("a"), K(2), F>>>>
Assigning ==
  Map(LAMBDA p : <<Local("t", Tab(<<K(10), K(20)>>)), Local("u", N("t")), Local("a", K(1)),
                   Local("h", Fn(<<>>, Return(<<N("u")>>))), Def("f", <<>>, Return(<<K(2), Tab(<<K(3), K(4)>>)>>)),
                   Local("was", N("t")),
                   Let(N("run"), Fn(<<>>, <<Local("a", N("a")), Local("t", N("t")), <<"assign", <<p[1][1], p[1][2]>>, p[2]>>,
                                          Put(<<Call(N("type"), <<N("a")>>), Call(N("type"), <<N("t")>>), Call(N("type"), <<N("g")>>), Call(N("type"), <<N("u")>>)>>)>>)),
                   Do("run", <<>>),
                   Put(<<Call(N("type"), <<Ix(N("was"), K(1))>>), Call(N("type"), <<Ix(N("was"), K(2))>>), Call(N("type"), <<Ix(N("was"), T("x"))>>)>>)>>,
      Pairs(Pairs(Places, Places), Given))

(* Lists of values whose last, or not last, expression has many of them.                     *)
Many == <<<<>>, <<F>>, <<Dots>>, <<<<"paren", F>>>>, <<Dots, F>>, <<F, Dots>>, <<K(7), F>>, <<Dots, K(7)>>,
          <<K(7), K(8), Dots>>, <<N("a"), <<"paren", Dots>>, F>>>>
Uses(xs) ==
  <<<<Put(xs)>>, Return(xs), <<<<"local", <<"x", "y", "z">>, xs>>, Put(<<N("x"), N("y"), N("z")>>)>>,
    <<Local("t", Tab(xs)), Put([n \in 1..4 |-> Ix(N("t"), K(n))])>>,
    Return(<<Call(N("select"), <<T("#")>> \o xs)>>), Return(<<<<"paren", Call(N("select"), <<K(1)>> \o xs)>>>>),
    <<<<"assign", <<N("x"), N("a")>>, xs>>, Put(<<N("x"), N("a")>>)>>,
    Return(<<Call(Fn(<<"p", "...">>, Return(<<Dots, N("p"), Dots>>)), xs)>>)>>
Listing ==
  Map(LAMBDA p : <<Local("a", K(5)), Def("f", <<>>, Return(<<K(1), K(2)>>)), Def("g", <<"a", "...">>, Uses(p[1])[p[2]]),
                   Put(<<Call(N("g"), <<>>)>>), Put(<<Call(N("g"), <<K(6), K(3), K(4)>>), T("end")>>)>>,
      SelectSeq(Pairs(Many, [n \in 1..8 |-> n]), LAMBDA p : p[1] # <<>> \/ p[2] # 7))

(* Tables with metamethods: functions that say what they were called with, or tables.         *)
Shows(x) == Call(N("type"), <<x>>)
Says(f) == Fn(<<"x", "y">>, <<Put(<<T(f), Shows(N("x")), Shows(N("y"))>>)>> \o Return(<<N("y"), K(1)>>))
Set(t, k, v) == Let(Ix(N(t), T(k)), v)
With(mt) == Call(N("setmetatable"), <<Tab(<<K(4)>>), N(mt)>>)
Sayer(fs) == <<Local("mt", Tab(<<>>))>> \o Map(LAMBDA f : Set("mt", f, Says(f)), fs) \o <<Local("t", With("mt"))>>
Operators == <<"+", "-", "*", "//", "%", "..", "==", "~=", "<", ">", "<=", ">=">>
Events ==
  <<<<"__add", "__sub", "__mul", "__idiv", "__mod", "__concat", "__eq", "__lt">>,
    <<"__eq", "__lt", "__le", "__unm", "__len">>, <<>>>>
Operating ==
  Map(LAMBDA p : Sayer(p[2]) \o
                   <<Local("u", Tab(<<>>)), Local("a", K(1)), Local("s", Op("..", N("a"), T("s"))),
                     Put(<<Op(p[1], N("t"), p[3]), N("s")>>), Put(<<Op(p[1], p[3], N("t"))>>),
                     If(Op(p[1], N("t"), N("t")), <<Put(<<T("yes")>>)>>, <<Put(<<T("no")>>)>>)>>,
      Triples(Operators, Events, <<K(3), N("u")>>))
  \o Map(LAMBDA p : Sayer(p[2]) \o <<Put(<<<<"unop", p[1], N("t")>>>>)>>, Pairs(<<"-", "#", "not">>, Events))
  \o Map(LAMBDA p : Sayer(p[2]) \o
                      <<Put(<<Op("..", K(1), Op("..", p[1], Op("..", N("t"), Op("..", K(2), T("z")))))>>)>>,
         Pairs(<<K(3), N("t")>>, Events))

(* A base with a method, whose own base knows "z" only, and a table that has it, or functions,  *)
(* or nothing, to turn to.                                                              *)
Base ==
  <<Local("mt", Tab(<<>>)),
    Set("mt", "__index", Fn(<<"t", "k">>, <<If(Op("==", N("k"), T("z")), Return(<<N("k"), K(9)>>), <<>>)>>)),
    Local("base", With("mt")), Set("base", "x", K(8)),
    Set("base", "m", Fn(<<"self", "...">>, Return(<<Ix(N("self"), T("x")), Dots>>)))>>
Unless3 == If(Op("~=", N("k"), K(3)), Return(<<N("k"), K(1)>>), <<>>)
Turns ==
  <<<<>>, <<Set("mt", "__index", N("base")), Set("mt", "__newindex", N("base"))>>,
    <<Set("mt", "__metatable", K(1)), Set("mt", "__newindex", Says("__newindex")), Set("mt", "__call", Says("__call")),
      Set("mt", "__index", Fn(<<"x", "k">>, <<Put(<<T("__index"), N("k")>>), Unless3>>))>>,
    <<Set("mt", "__index", Fn(<<"t", "k">>, <<If(Op("<", N("k"), K(5)), Return(<<N("k")>>), <<>>)>>))>>>>
Touches ==
  <<<<Put(<<Ix(N("t"), T("x")), Ix(N("t"), T("y")), Ix(N("t"), T("z"))>>)>>,
    <<Set("t", "x", K(3)), Set("t", "y", K(2)),
      Put(<<Ix(N("base"), T("x")), Call(N("rawget"), <<N("t"), T("x")>>), Ix(N("t"), T("y"))>>)>>,
    <<Put(<<<<"method", N("t"), "m", <<K(1), K(2)>>>>>>)>>, <<Put(<<Call(N("t"), <<K(7)>>)>>)>>,
    Return(<<Call(N("t"), <<K(7)>>)>>),
    <<<<"forin", <<"i", "v">>, <<Call(N("ipairs"), <<N("t")>>)>>, <<Put(<<N("i"), N("v")>>)>>>>>>,
    <<Do("setmetatable", <<N("t"), Nil_>>),
      Put(<<Shows(Call(N("rawset"), <<N("t"), T("x"), K(1)>>)), Ix(N("t"), T("x"))>>)>>,
    <<Let(Ix(N("t"), Nil_), K(1))>>>>
Indexing ==
  Map(LAMBDA p : Base \o <<Local("mt", Tab(<<>>))>> \o p[1]
                   \o <<Local("t", With("mt")), Set("t", "y", K(5))>> \o p[2],
      Pairs(Turns, Touches))

(* Errors, caught with the variables of the functions they leave still in use.                *)
Wrong ==
  <<Do("error", <<N("v")>>), Do("error", <<>>), Do("f", <<Ix(N("nothing"), T("x"))>>), Do("nothing", <<N("v")>>), Let(N("v"), Op("+", N("v"), T("x"))),
    Let(N("v"), Op("..", N("v"), Nil_)), If(Op("<", N("v"), Nil_), <<>>, <<>>), <<"fornum", "i", N("v"), Nil_, K(1), <<>>>>, <<"do", <<>>>>,
    <<"callstat", Call(N("type"), <<>>)>>, Do("setmetatable", <<N("v")>>), <<"forin", <<"i">>, <<N("v")>>, <<>>>>, Do("ipairs", <<>>), Do("select", <<K(0)>>), Let(N("v"), Op("%", N("v"), K(0)))>>
Protecting(b) ==
  <<<<Def("h", <<"v">>, b), Put(<<Call(N("pcall"), <<N("h"), K(3)>>)>>)>>,
    <<Def("h", <<"v">>, b \o Return(<<N("v")>>)), Put(<<Call(N("pcall"), <<N("pcall"), N("h"), K(3)>>)>>), Put(<<N("w")>>)>>,
    <<Def("h", <<>>, <<<<"forin", <<"i", "v">>, <<Call(N("ipairs"), <<Tab(<<K(7), K(8)>>)>>)>>, b>>>>),
      Put(<<Call(N("pcall"), <<N("h")>>), N("w")>>)>>,
    <<Def("h", <<"t", "v">>, b), Local("mt", Tab(<<>>)), Set("mt", "__index", N("h")), Local("t", With("mt")),
      Def("h", <<>>, Return(<<Ix(N("t"), K(2)), Ix(N("t"), K(1))>>)), Put(<<Call(N("pcall"), <<N("h")>>)>>), Put(<<Ix(N("t"), T("k"))>>)>>>>
Catching ==
  Map(LAMBDA p : <<Local("g", Nil_), Local("w", K(1)), Def("f", <<"...">>, Return(<<Dots>>))>>
                   \o Protecting(<<Let(N("g"), Fn(<<>>, <<Let(N("v"), Op("..", N("v"), N("w")))>> \o Return(<<N("v")>>))), Let(N("w"), N("v")), p[1]>>)[p[2]]
                   \o <<Put(<<Call(N("g"), <<>>)>>), Put(<<Call(N("g"), <<>>)>>)>>,
      Pairs(Wrong, <<1, 2, 3, 4>>))

Named(f, x) == <<"field", T(f), x>>
(* Constructors of more items than are stored at once, with other fields between.             *)
Constructing ==
  Map(LAMBDA p : <<Def("f", <<>>, Return(<<K(5), K(6)>>)),
                   Local("t", <<"table", Map(LAMBDA n : Item(K(n)), [n \in 1..p[1] |-> n]) \o p[2] \o p[3]>>),
                   Put([n \in 1..8 |-> Ix(N("t"), K(n))]), Put(<<Ix(N("t"), T("x"))>>)>>,
      Triples([n \in 1..6 |-> n - 1], <<<<>>, <<Named("x", F)>>, <<Item(F), Named("x", K(9))>>, <<<<"field", K(8), K(0)>>>>>>, <<<<>>, <<Item(F)>>, <<Item(<<"paren", F>>)>>>>))

(* Labels and gotos in every place of a few shapes, most of which the language rejects.         *)
Forward == Goto("l")
Back == If(Op("<", N("n"), K(3)), <<Count, Goto("l")>>, <<>>)
Leap == If(Op("<", N("n"), K(3)), <<Goto("l")>>, <<Count>>)
Jumps == <<Forward, Back, Leap, Label("l"), Local("x", N("n")), Keep("x")>>
Shapes(a, b, c) ==
  <<<<a, b, c>>, <<<<"do", <<a, b>>>>, c>>, <<a, <<"do", <<b, c>>>>>>, <<<<"while", Op("<", N("n"), K(3)), <<Count, a, b>>>>, c>>,
    <<<<"repeat", <<Count, a, b>>, Op(">", N("n"), K(2))>>, c>>, <<a, Let(N("x"), Fn(<<>>, <<b, c>>))>>>>
Forever(b) == \E n \in DOMAIN b : b[n] = Label("l") /\ \E m \in n..Len(b) : b[m] \in {Forward, Leap}
Jumping ==
  Map(LAMBDA p : <<Local("n", K(0)), Local("x", K(7)), Local("fs", Tab(<<>>))>> \o Shapes(p[1][1], p[1][2], p[1][3])[p[2]]
                   \o <<Put(<<N("n"), N("x")>>), <<"forin", <<"i", "f">>, <<Call(N("ipairs"), <<N("fs")>>)>>, <<Put(<<F>>)>>>>>>,
      Pairs(SelectSeq(Triples(Jumps, Jumps, Jumps), LAMBDA t : Label("l") \in ToSet(t) /\ ~Forever(t)), [n \in 1..6 |-> n]))

All ==
  Boolean \o Arithmetic \o Grouped \o Looping \o Assigning \o Listing \o Operating \o Indexing
    \o Catching \o Constructing \o Jumping
TokensOf(b) == BlockTokens(b) \o Word("eos")
=============================================================================
