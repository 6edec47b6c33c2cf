----------------------------- MODULE LuaMeaning -----------------------------
(***************************************************************************)
(* What a Lua program means, from its syntax tree alone: expressions have values, local  *)
(* variables are cells, a block is executed statement by statement and left early by      *)
(* break, goto or return.  There are no registers, jumps or upvalues here.                *)
(*                                                                          *)
(* A syntax tree is a tuple that begins with its kind; a block is a sequence of statements.  *)
(***************************************************************************)
EXTENDS Integers, Sequences, SequencesExt, TLC

CONSTANT Half       (* integers wrap around at Half                                     *)

Nil == <<"nil">>
Bool(b) == <<"bool", b>>
Num(n) == <<"int", n>>
Str(x) == <<"str", x>>
Kind(v) == v[1]
True(v) == v \notin {Nil, Bool(FALSE)}
Kinds(a, b) == {Kind(a), Kind(b)}
IsText(v) == Kind(v) \in {"int", "str"}
IsFunction(v) == Kind(v) \in {"fun", "cfun"}
Text(v) == IF Kind(v) = "int" THEN ToString(v[2]) ELSE v[2]
TypeName(v) ==
  CASE Kind(v) = "int" -> "number" [] Kind(v) = "str" -> "string" [] Kind(v) = "bool" -> "boolean"
    [] IsFunction(v) -> "function" [] OTHER -> Kind(v)
Shown(v) ==
  CASE IsText(v) -> Text(v)
    [] Kind(v) = "bool" -> IF v[2] THEN "true" ELSE "false"
    [] OTHER -> TypeName(v)
Nth(vs, n) == IF n \in DOMAIN vs THEN vs[n] ELSE Nil

(* A state s: what was printed, the cells of local variables, the tables and the functions,   *)
(* and the error that is raised, if any.  A result: the state, the values of an expression,    *)
(* and, of a statement, the environment for what follows and how it was left: <<>>,           *)
(* <<"goto", label>> or <<"return">>; break goes to "break".                              *)
Result(s, vs) == [s |-> s, vs |-> vs, c |-> <<>>, left |-> <<>>]
Done(s, c) == [Result(s, <<>>) EXCEPT !.c = c]
Raise(s, v) == Result([s EXCEPT !.err = <<v>>], <<>>)
Raised(r) == r.s.err # <<>>
Then(r, Next_(_)) == IF Raised(r) THEN r ELSE Next_(r)

First(r) == Nth(r.vs, 1)
One(r) == [r EXCEPT !.vs = <<First(r)>>]
Test(r, is) == [r EXCEPT !.vs = <<Bool(True(First(r)) = is)>>]

Raw(s, t, k) ==
  IF Kind(t) # "table" THEN Nil
  ELSE IF k \in DOMAIN s.tables[t[2]].h THEN s.tables[t[2]].h[k] ELSE Nil
RawSet(s, t, k, v) == [s EXCEPT !.tables[t[2]].h = (k :> v) @@ @]
Meta(s, v, event) ==
  IF Kind(v) # "table" THEN Nil ELSE Raw(s, s.tables[v[2]].meta, Str(event))
MetaOf(s, a, b, event) == IF Meta(s, a, event) # Nil THEN Meta(s, a, event) ELSE Meta(s, b, event)

RECURSIVE Border(_, _, _)
Border(s, t, n) == IF Raw(s, t, Num(n + 1)) = Nil THEN n ELSE Border(s, t, n + 1)

Wrapped(n) == ((n + Half) % (2 * Half)) - Half
FloorDiv(m, n) == IF n > 0 THEN m \div n ELSE (-m) \div (-n)
Computed(op, m, n) ==
  Wrapped(CASE op = "+" -> m + n [] op = "-" -> m - n [] op = "*" -> m * n
            [] op = "//" -> FloorDiv(m, n) [] op = "%" -> m - n * FloorDiv(m, n))
EventOf ==
  ("+" :> "__add") @@ ("-" :> "__sub") @@ ("*" :> "__mul") @@ ("//" :> "__idiv") @@ ("%" :> "__mod")

-----------------------------------------------------------------------------
(* Do(x, c, s): the tree x is evaluated or executed in the environment c, the cells of the     *)
(* local variables in scope, by name, and "...".  Trees <<"apply", f, args>> are calls of values. *)
RECURSIVE Do(_, _, _)
Apply(f, args, s) == Do(<<"apply", f, args>>, <<>>, s)
Value(x, c, s) == One(Do(x, c, s))

(* An operation on two values that is left to a metamethod of one of them, or fails.         *)
By(s, f, args, otherwise) == IF f = Nil THEN Raise(s, Str(otherwise)) ELSE One(Apply(f, args, s))
ByMeta(s, a, b, event, otherwise) == By(s, MetaOf(s, a, b, event), <<a, b>>, otherwise)

Equal(s, a, b) ==
  IF a = b \/ Kinds(a, b) # {"table"} \/ MetaOf(s, a, b, "__eq") = Nil THEN Result(s, <<Bool(a = b)>>)
  ELSE Test(ByMeta(s, a, b, "__eq", ""), TRUE)
Less(s, a, b) ==
  IF Kinds(a, b) = {"int"} THEN Result(s, <<Bool(a[2] < b[2])>>)
  ELSE Test(ByMeta(s, a, b, "__lt", "compare"), TRUE)
LessEqual(s, a, b) ==
  IF Kinds(a, b) = {"int"} THEN Result(s, <<Bool(a[2] <= b[2])>>)
  ELSE IF MetaOf(s, a, b, "__le") = Nil THEN Test(ByMeta(s, b, a, "__lt", "compare"), FALSE)
  ELSE Test(ByMeta(s, a, b, "__le", "compare"), TRUE)
Arithmetic(op, a, b, s) ==
  IF Kinds(a, b) # {"int"} THEN ByMeta(s, a, b, EventOf[op], "arithmetic")
  ELSE IF op \in {"//", "%"} /\ b[2] = 0 THEN Raise(s, Str("divide by zero"))
  ELSE Result(s, <<Num(Computed(op, a[2], b[2]))>>)
Concat(s, a, b) ==
  IF IsText(a) /\ IsText(b) THEN Result(s, <<Str(Text(a) \o Text(b))>>)
  ELSE ByMeta(s, a, b, "__concat", "concatenate")
Binary(op, a, b, s) ==
  CASE op \in DOMAIN EventOf -> Arithmetic(op, a, b, s)
    [] op = ".." -> Concat(s, a, b)
    [] op = "==" -> Equal(s, a, b)
    [] op = "~=" -> Test(Equal(s, a, b), FALSE)
    [] op = "<" -> Less(s, a, b)
    [] op = ">" -> Less(s, b, a)
    [] op = "<=" -> LessEqual(s, a, b)
    [] op = ">=" -> LessEqual(s, b, a)

Length(a, s) ==
  CASE Meta(s, a, "__len") # Nil -> By(s, Meta(s, a, "__len"), <<a, a>>, "")
    [] Meta(s, a, "__len") = Nil /\ Kind(a) = "str" -> Result(s, <<Num(Len(a[2]))>>)
    [] Meta(s, a, "__len") = Nil /\ Kind(a) = "table" -> Result(s, <<Num(Border(s, a, 0))>>)
    [] OTHER -> Raise(s, Str("length"))
Unary(op, a, s) ==
  CASE op = "not" -> Result(s, <<Bool(~True(a))>>)
    [] op = "-" -> IF Kind(a) = "int" THEN Result(s, <<Num(Wrapped(-a[2]))>>)
                   ELSE ByMeta(s, a, a, "__unm", "arithmetic")
    [] op = "#" -> Length(a, s)

(* A field the table has, or that has no metamethod, is the table's own.                    *)
Own(s, t, k, f) == Kind(t) = "table" /\ (f = Nil \/ Raw(s, t, k) # Nil)
RECURSIVE Index(_, _, _), SetIndex(_, _, _, _)
IndexBy(f, s, t, k) ==
  CASE Own(s, t, k, f) -> Result(s, <<Raw(s, t, k)>>)
    [] ~Own(s, t, k, f) /\ (f = Nil \/ IsFunction(f)) -> By(s, f, <<t, k>>, "index")
    [] OTHER -> Index(s, f, k)
Index(s, t, k) == IndexBy(Meta(s, t, "__index"), s, t, k)
SetIndexBy(f, s, t, k, v) ==
  CASE Own(s, t, k, f) -> IF k = Nil THEN Raise(s, Str("index is nil")) ELSE Result(RawSet(s, t, k, v), <<>>)
    [] ~Own(s, t, k, f) /\ (f = Nil \/ IsFunction(f)) -> By(s, f, <<t, k, v>>, "index")
    [] OTHER -> SetIndex(s, f, k, v)
SetIndex(s, t, k, v) == SetIndexBy(Meta(s, t, "__newindex"), s, t, k, v)

-----------------------------------------------------------------------------
(* Calls.                                                                            *)

(* New cells for names; the last of two that are equal is the one that is seen.              *)
CellOf(names, x, n) == n + (CHOOSE i \in DOMAIN names :
  names[i] = x /\ \A j \in DOMAIN names : names[j] = x => j <= i)
Declared(c, s, names) == [c EXCEPT !.cell = [x \in ToSet(names) |-> CellOf(names, x, Len(s.cells))] @@ @]
WithCells(s, names, vs) == [s EXCEPT !.cells = @ \o [n \in DOMAIN names |-> Nth(vs, n)]]
Declare(c, s, names, vs) == Done(WithCells(s, names, vs), Declared(c, s, names))

Protected(r) ==
  IF Raised(r) THEN Result([r.s EXCEPT !.err = <<>>], <<Bool(FALSE)>> \o r.s.err)
  ELSE [r EXCEPT !.vs = <<Bool(TRUE)>> \o @]
Selected(args, n, s) ==
  CASE n[1] = "str" -> Result(s, <<Num(Len(args))>>)
    [] n[1] = "int" /\ n[2] > 0 -> Result(s, SubSeq(args, n[2], Len(args)))
    [] n[1] = "int" /\ n[2] < 0 /\ -n[2] <= Len(args) -> Result(s, SubSeq(args, Len(args) + n[2] + 1, Len(args)))
    [] OTHER -> Raise(s, Str("argument"))
Builtin(f, args, a, b, s) ==
  CASE f = "print" -> Result([s EXCEPT !.out = Append(@, [n \in DOMAIN args |-> Shown(args[n])])], <<>>)
    [] f = "error" -> Raise(s, a)
    [] f \in {"pcall", "type", "select"} /\ args = <<>> -> Raise(s, Str("argument"))
    [] f = "pcall" /\ args # <<>> -> Protected(Apply(a, Tail(args), s))
    [] f = "type" /\ args # <<>> -> Result(s, <<Str(TypeName(a))>>)
    [] f = "select" /\ args # <<>> -> Selected(Tail(args), a, s)
    [] f \in {"setmetatable", "ipairs", "rawget", "rawset"} /\ Kind(a) # "table" -> Raise(s, Str("argument"))
    [] f = "setmetatable" /\ Kind(a) = "table" ->
         IF Kind(b) \notin {"nil", "table"} THEN Raise(s, Str("argument"))
         ELSE IF Meta(s, a, "__metatable") # Nil THEN Raise(s, Str("protected"))
         ELSE Result([s EXCEPT !.tables[a[2]].meta = b], <<a>>)
    [] f = "ipairs" /\ Kind(a) = "table" -> Result(s, <<<<"cfun", "next item">>, a, Num(0)>>)
    [] f = "next item" ->
         Then(Index(s, a, Num(b[2] + 1)),
              LAMBDA r : IF First(r) = Nil THEN r ELSE [r EXCEPT !.vs = <<Num(b[2] + 1), First(r)>>])
    [] f = "rawget" /\ Kind(a) = "table" -> Result(s, <<Raw(s, a, b)>>)
    [] f = "rawset" /\ Kind(a) = "table" ->
         IF b = Nil THEN Raise(s, Str("index is nil")) ELSE Result(RawSet(s, a, b, Nth(args, 3)), <<a>>)

Body(f, d) == Do(<<"block", f.body>>, d.c, d.s)
Run(f, args, s) ==
  LET dots == IF f.dots THEN SubSeq(args, Len(f.params) + 1, Len(args)) ELSE <<>> IN
  Then(Body(f, Declare([cell |-> f.cell, dots |-> dots], s, f.params, args)),
       LAMBDA r : Result(r.s, IF r.left = <<"return">> THEN r.vs ELSE <<>>))
Applied(f, args, s) ==
  CASE Kind(f) = "cfun" -> Builtin(f[2], args, Nth(args, 1), Nth(args, 2), s)
    [] Kind(f) = "fun" -> Run(s.funs[f[2]], args, s)
    [] OTHER -> IF IsFunction(Meta(s, f, "__call")) THEN Apply(Meta(s, f, "__call"), <<f>> \o args, s)
                ELSE Raise(s, Str("call"))

-----------------------------------------------------------------------------
(* Expressions.                                                                      *)

(* The values of a list of expressions: all those of the last one, one of each other.         *)
RECURSIVE Values(_, _, _)
Values(xs, c, s) ==
  CASE xs = <<>> -> Result(s, <<>>)
    [] Len(xs) = 1 -> Do(xs[1], c, s)
    [] OTHER -> Then(Value(xs[1], c, s), LAMBDA a :
                  Then(Values(Tail(xs), c, a.s), LAMBDA rest : [rest EXCEPT !.vs = a.vs \o @]))

Globals == <<"table", 1>>
Lookup(x, c, s) ==
  IF x \in DOMAIN c.cell THEN Result(s, <<s.cells[c.cell[x]]>>) ELSE Index(s, Globals, Str(x))

(* A constructor: items get the numbers in their order, wherever the fields are between.       *)
Stored(r, t, n) ==
  Result(FoldLeft(LAMBDA s, j : RawSet(s, t, Num(n + j), r.vs[j]), r.s, [j \in DOMAIN r.vs |-> j]), <<t>>)
Field(t, f, c, s) ==
  Then(Value(f[2], c, s), LAMBDA k : Then(Value(f[3], c, k.s), LAMBDA v :
    IF First(k) = Nil THEN Raise(v.s, Str("index is nil")) ELSE Result(RawSet(v.s, t, First(k), First(v)), <<t>>)))
RECURSIVE Fill(_, _, _, _, _)
Fill(t, fields, n, c, s) ==
  IF fields = <<>> THEN Result(s, <<t>>)
  ELSE Then(IF fields[1][1] = "field" THEN Field(t, fields[1], c, s)
            ELSE Then(IF Len(fields) = 1 THEN Do(fields[1][2], c, s) ELSE Value(fields[1][2], c, s),
                      LAMBDA item : Stored(item, t, n)),
            LAMBDA r : Fill(t, Tail(fields), IF fields[1][1] = "item" THEN n + 1 ELSE n, c, r.s))

-----------------------------------------------------------------------------
(* Statements.                                                                       *)

(* The places assigned to are found before the values are computed, and stored to after.       *)
RECURSIVE Places(_, _, _)
Place(x, c, s) == IF x[1] = "name" THEN Result(s, <<>>) ELSE Values(<<x[2], <<"paren", x[3]>>>>, c, s)
Places(xs, c, s) ==
  IF xs = <<>> THEN Result(s, <<>>)
  ELSE Then(Place(xs[1], c, s), LAMBDA p :
         Then(Places(Tail(xs), c, p.s), LAMBDA rest : [rest EXCEPT !.vs = <<p.vs>> \o @]))
StoreTo(x, place, v, c, s) ==
  IF x[1] = "index" THEN SetIndex(s, place[1], place[2], v)
  ELSE IF x[2] \in DOMAIN c.cell THEN Result([s EXCEPT !.cells[c.cell[x[2]]] = v], <<>>)
  ELSE SetIndex(s, Globals, Str(x[2]), v)
Assign(vars, xs, c, s) ==
  Then(Places(vars, c, s), LAMBDA p : Then(Values(xs, c, p.s), LAMBDA v :
    Done(FoldRight(LAMBDA n, r : Then(r, LAMBDA q : StoreTo(vars[n], p.vs[n], Nth(v.vs, n), c, q.s)),
                   [n \in DOMAIN vars |-> n], v).s, c)))

(* A loop goes on after its body, unless that was left.                                   *)
Again(body, c, Next_(_)) ==
  Then(body, LAMBDA r : IF r.left = <<>> THEN Next_(r.s)
                        ELSE [r EXCEPT !.c = c, !.left = IF @ = <<"goto", "break">> THEN <<>> ELSE @])
Block(b) == <<"block", b>>
While(x, c, s) ==
  Then(Value(x[2], c, s), LAMBDA test :
    IF ~True(First(test)) THEN Done(test.s, c)
    ELSE Again(Do(Block(x[3]), c, test.s), c, LAMBDA t : Do(x, c, t)))
(* The condition sees the variables of the body.                                         *)
Until(x, c, r) ==
  Then(Value(x[3], r.c, r.s), LAMBDA test :
    IF True(First(test)) THEN Done(test.s, c) ELSE Do(x, c, test.s))
Repeat(x, c, s) ==
  Then(Do(Block(x[2]), c, s), LAMBDA r :
    IF r.left = <<>> THEN Until(x, c, r) ELSE Again(r, c, LAMBDA t : Done(t, c)))
RECURSIVE Count(_, _, _, _, _), Iterate(_, _, _, _, _)
Count(name, range, b, c, s) ==
  IF IF range[3] > 0 THEN range[1] > range[2] ELSE range[1] < range[2] THEN Done(s, c)
  ELSE Again(Then(Declare(c, s, <<name>>, <<Num(range[1])>>), LAMBDA d : Do(b, d.c, d.s)), c,
             LAMBDA t : Count(name, [range EXCEPT ![1] = @ + range[3]], b, c, t))
Numeric(x, v, c) ==
  IF \E n \in 1..3 : Kind(v.vs[n]) # "int" THEN Raise(v.s, Str("for"))
  ELSE Count(x[2], [n \in 1..3 |-> v.vs[n][2]], Block(x[6]), c, v.s)
Iterate(names, iter, b, c, s) ==
  Then(Apply(iter[1], <<iter[2], iter[3]>>, s), LAMBDA next :
    IF First(next) = Nil THEN Done(next.s, c)
    ELSE Again(Then(Declare(c, next.s, names, next.vs), LAMBDA d : Do(b, d.c, d.s)), c,
               LAMBDA t : Iterate(names, [iter EXCEPT ![3] = First(next)], b, c, t)))

(* The statements of b from the n-th on; cs has the environments before those up to the n-th.   *)
(* After a goto backwards a label has the variables it had before.                          *)
LabelAt(b, left) == {m \in DOMAIN b : b[m][1] = "label" /\ left = <<"goto", b[m][2]>>}
RECURSIVE From(_, _, _, _)
From(b, n, cs, s) ==
  IF n > Len(b) THEN Done(s, cs[n])
  ELSE Then(Do(b[n], cs[n], s), LAMBDA r :
         CASE r.left = <<>> -> From(b, n + 1, Append(cs, r.c), r.s)
           [] r.left # <<>> /\ LabelAt(b, r.left) = {} -> r
           [] OTHER -> LET m == CHOOSE m \in LabelAt(b, r.left) : TRUE IN
                       From(b, m, SubSeq(cs \o [k \in DOMAIN b |-> r.c], 1, m), r.s))

Closure(x, c) == [params |-> x[2], dots |-> x[3], body |-> x[4], cell |-> c.cell]
NewFunction(x, c, s) ==
  Result([s EXCEPT !.funs = Append(@, Closure(x, c))], <<<<"fun", Len(s.funs) + 1>>>>)
NewTable(x, c, s) ==
  Fill(<<"table", Len(s.tables) + 1>>, x[2], 0, c, [s EXCEPT !.tables = Append(@, [h |-> <<>>, meta |-> Nil])])
Inside(r, c) == [r EXCEPT !.c = c]

Do(x, c, s) ==
  CASE x[1] = "const" -> Result(s, <<x[2]>>)
    [] x[1] = "name" -> Lookup(x[2], c, s)
    [] x[1] = "dots" -> Result(s, c.dots)
    [] x[1] = "paren" -> Value(x[2], c, s)
    [] x[1] = "index" -> Then(Values(<<x[2], <<"paren", x[3]>>>>, c, s), LAMBDA v : Index(v.s, v.vs[1], v.vs[2]))
    [] x[1] = "call" ->
         Then(Value(x[2], c, s), LAMBDA f : Then(Values(x[3], c, f.s), LAMBDA v : Apply(First(f), v.vs, v.s)))
    [] x[1] = "method" ->
         Then(Value(x[2], c, s), LAMBDA o : Then(Index(o.s, First(o), Str(x[3])), LAMBDA f :
           Then(Values(x[4], c, f.s), LAMBDA v : Apply(First(f), o.vs \o v.vs, v.s))))
    [] x[1] = "apply" -> Applied(x[2], x[3], s)
    [] x[1] \in {"and", "or"} ->
         Then(Value(x[2], c, s), LAMBDA a : IF True(First(a)) = (x[1] = "and") THEN Value(x[3], c, a.s) ELSE a)
    [] x[1] = "unop" -> Then(Value(x[3], c, s), LAMBDA a : Unary(x[2], First(a), a.s))
    [] x[1] = "binop" ->
         Then(Values(<<x[3], <<"paren", x[4]>>>>, c, s), LAMBDA v : Binary(x[2], v.vs[1], v.vs[2], v.s))
    [] x[1] = "function" -> NewFunction(x, c, s)
    [] x[1] = "table" -> NewTable(x, c, s)
    [] x[1] = "local" -> Then(Values(x[3], c, s), LAMBDA v : Declare(c, v.s, x[2], v.vs))
    [] x[1] = "localfunction" ->
         Then(Declare(c, s, <<x[2]>>, <<>>), LAMBDA d : Then(Do(x[3], d.c, d.s), LAMBDA f :
           Done([f.s EXCEPT !.cells[d.c.cell[x[2]]] = First(f)], d.c)))
    [] x[1] = "assign" -> Assign(x[2], x[3], c, s)
    [] x[1] = "callstat" -> Inside(Do(x[2], c, s), c)
    [] x[1] = "do" -> Inside(Do(Block(x[2]), c, s), c)
    [] x[1] = "while" -> While(x, c, s)
    [] x[1] = "repeat" -> Repeat(x, c, s)
    [] x[1] = "if" ->
         Then(Value(x[2], c, s), LAMBDA test :
           Inside(Do(Block(IF True(First(test)) THEN x[3] ELSE x[4]), c, test.s), c))
    [] x[1] = "fornum" -> Then(Values(<<x[3], x[4], <<"paren", x[5]>>>>, c, s), LAMBDA v : Numeric(x, v, c))
    [] x[1] = "forin" ->
         Then(Values(x[3], c, s), LAMBDA v :
           Iterate(x[2], [n \in 1..3 |-> Nth(v.vs, n)], Block(x[4]), c, v.s))
    [] x[1] = "label" -> Done(s, c)
    [] x[1] = "goto" -> [Done(s, c) EXCEPT !.left = <<"goto", x[2]>>]
    [] x[1] = "return" -> Then(Values(x[2], c, s), LAMBDA v : [v EXCEPT !.c = c, !.left = <<"return">>])
    [] x[1] = "block" -> From(x[2], 1, <<c>>, s)

-----------------------------------------------------------------------------
(* What the language accepts: a goto needs a label in a block around it, and may not jump     *)
(* into the scope of a local variable; a label at the end of a block is outside of all scopes.  *)

LabelsOf(b) == {b[n][2] : n \in {m \in DOMAIN b : b[m][1] = "label"}}
IsLocal(st) == st[1] \in {"local", "localfunction"}
Visible(b, n, last) ==
  {b[m][2] : m \in {m \in DOMAIN b :
     /\ b[m][1] = "label"
     /\ \/ m < n
        \/ \A k \in (n + 1)..(m - 1) : ~IsLocal(b[k])
        \/ last /\ \A k \in m..Len(b) : b[k][1] = "label"}}

Scope(b, seen, last) == [b |-> b, seen |-> seen, last |-> last]
Loop(b, seen) == Scope(b, seen \cup {"break"}, TRUE)
(* The blocks in a tree, with the labels seen from where they are; functions see none.         *)
RECURSIVE Scopes(_, _)
InAll(xs, seen) == UNION {Scopes(xs[n], seen) : n \in DOMAIN xs}
Scopes(x, seen) ==
  CASE x[1] = "function" -> {Scope(x[4], {}, TRUE)}
    [] x[1] \in {"paren", "callstat"} -> Scopes(x[2], seen)
    [] x[1] \in {"index", "and", "or"} -> InAll(Tail(x), seen)
    [] x[1] = "unop" -> Scopes(x[3], seen)
    [] x[1] = "call" -> Scopes(x[2], seen) \cup InAll(x[3], seen)
    [] x[1] = "binop" -> InAll(<<x[3], x[4]>>, seen)
    [] x[1] = "localfunction" -> Scopes(x[3], seen)
    [] x[1] \in {"local", "assign"} -> InAll(x[3], seen)
    [] x[1] = "return" -> InAll(x[2], seen)
    [] x[1] = "do" -> {Scope(x[2], seen, TRUE)}
    [] x[1] = "if" -> {Scope(x[3], seen, TRUE), Scope(x[4], seen, TRUE)}
    [] x[1] = "while" -> {Loop(x[3], seen)}
    [] x[1] = "repeat" -> {[Loop(x[2], seen) EXCEPT !.last = FALSE]}
    [] x[1] = "fornum" -> {Loop(x[6], seen)}
    [] x[1] = "forin" -> {Loop(x[4], seen)} \cup InAll(x[3], seen)
    [] OTHER -> {}

RECURSIVE Legal(_)
Legal(p) ==
  /\ \A n, m \in DOMAIN p.b : p.b[n][1] = "label" /\ p.b[m][1] = "label" /\ p.b[n][2] = p.b[m][2] => n = m
  /\ \A n \in DOMAIN p.b :
       LET seen == (p.seen \ LabelsOf(p.b)) \cup Visible(p.b, n, p.last) IN
       /\ p.b[n][1] = "goto" => p.b[n][2] \in seen
       /\ \A inner \in Scopes(p.b[n], seen) : Legal(inner)

Library == {"print", "error", "setmetatable", "select", "ipairs", "pcall", "rawget", "rawset", "type"}
Start ==
  [out |-> <<>>, cells |-> <<>>, funs |-> <<>>, err |-> <<>>,
   tables |-> <<[h |-> [x \in {Str(g) : g \in Library} |-> <<"cfun", x[2]>>], meta |-> Nil]>>]
Outcome(r) == [out |-> r.s.out, outcome |-> IF Raised(r) THEN "error" ELSE "done"]
Meaning(b) ==
  IF Legal(Scope(b, {}, TRUE)) THEN Outcome(Do(Block(b), [cell |-> <<>>, dots |-> <<>>], Start))
  ELSE [out |-> <<>>, outcome |-> "rejected"]
=============================================================================
