------------------------------ MODULE LuaParser ------------------------------
(***************************************************************************)
(* The parser of Lua, lparser.c: one pass over the tokens that emits the code while     *)
(* it reads.  It resolves names to registers and upvalues, keeps the pending gotos and    *)
(* the labels of the open blocks, and closes the upvalues of a block where it is left.    *)
(*                                                                          *)
(* A state s has, beside what LuaCode works on, s.t, the tokens that are left, s.outer,     *)
(* the functions around s.fs, s.gt and s.label, the gotos and labels of Dyndata, s.n,      *)
(* the length of the expression list read last, and s.err, the syntax error.  Line        *)
(* numbers, names of local variables for debugging and the limits on nested C calls are    *)
(* left out.                                                                  *)
(***************************************************************************)
EXTENDS LuaCode

CONSTANTS
  MaxVars,          (* MAXVARS, 200: active local variables of a function           *)
  MaxUpval          (* MAXUPVAL, 255: upvalues of a function                        *)

ASSUME ParserAssumption == {MaxVars, MaxUpval} \subseteq Nat \ {0}

Tok(s) == Head(s.t)[1]
luaX_next(s) == IF Len(s.t) > 1 THEN [s EXCEPT !.t = Tail(@)] ELSE s
checknext(s, c) == IF Tok(s) = c THEN luaX_next(s) ELSE Fail(s, "expected")
testnext(s, c) == IF Tok(s) = c THEN luaX_next(s) ELSE s
checklimit(s, v, limit) == IF v > limit THEN Fail(s, "limit") ELSE s

(* A name: the expression it will be, a string constant.                               *)
Name(s) == IF Tok(s) = "name" THEN Head(s.t)[2] ELSE "?"
skipname(s) == checknext(s, "name")
codestring(s, str) == Then(Constant(s, <<"str", str>>), LAMBDA c : With(c, Exp("VK", c.e.info)))
checkname(s) == codestring(skipname(s), Name(s))

-----------------------------------------------------------------------------
(* Local variables and upvalues.                                                     *)

new_localvar(s, name) ==
  checklimit([s EXCEPT !.fs.actvars = Append(@, name)], Len(s.fs.actvars) + 1, MaxVars)

adjustlocalvars(s, nvars) == [s EXCEPT !.fs.nactvar = @ + nvars]

removevars(s, tolevel) ==
  [s EXCEPT !.fs.actvars = SubSeq(@, 1, Len(@) - (s.fs.nactvar - tolevel)),
            !.fs.nactvar = tolevel]

searchvar(fs, n) == {i \in 0..(fs.nactvar - 1) : fs.actvars[i + 1] = n}
searchupvalue(fs, n) == {i \in 0..(Len(fs.upvalues) - 1) : fs.upvalues[i + 1].name = n}
Greatest(S) == CHOOSE i \in S : \A j \in S : j <= i
Least(S) == CHOOSE i \in S : \A j \in S : i <= j

newupvalue(fs, n, v) ==
  [fs EXCEPT !.upvalues = Append(@, [name |-> n, instack |-> v.k = "VLOCAL", idx |-> v.info])]

(* The block that declared the variable must close it when it is left.                   *)
markupval(fs, level) ==
  LET b == Greatest({i \in 1..Len(fs.blocks) : fs.blocks[i].nactvar <= level}) IN
  [fs EXCEPT !.blocks[b].upval = TRUE]

(* chain: the functions being compiled, outermost first.  A variable of an outer function   *)
(* becomes an upvalue of every function in between.                                     *)
RECURSIVE singlevaraux(_, _, _)
singlevaraux(chain, n, base) ==
  IF chain = <<>> THEN [k |-> "VVOID", info |-> 0, chain |-> chain]
  ELSE LET fs == Last(chain)
           up == singlevaraux(Front(chain), n, FALSE)
       IN  IF searchvar(fs, n) # {}
           THEN LET v == Greatest(searchvar(fs, n)) IN
                [k |-> "VLOCAL", info |-> v,
                 chain |-> IF base THEN chain ELSE Append(Front(chain), markupval(fs, v))]
           ELSE IF searchupvalue(fs, n) # {}
           THEN [k |-> "VUPVAL", info |-> Least(searchupvalue(fs, n)), chain |-> chain]
           ELSE IF up.k = "VVOID" THEN [up EXCEPT !.chain = chain]
           ELSE [k |-> "VUPVAL", info |-> Len(fs.upvalues),
                 chain |-> Append(up.chain, newupvalue(fs, n, up))]

Resolved(s, v) ==
  LET r == [s EXCEPT !.outer = Front(v.chain), !.fs = Last(v.chain), !.e = Exp(v.k, v.info)] IN
  checklimit(r, Greatest({0} \cup {Len(v.chain[i].upvalues) : i \in 1..Len(v.chain)}), MaxUpval)

(* A name that is no local variable of any function around is a field of _ENV.             *)
globalvar(s, n) ==
  Then(Resolved(s, singlevaraux(Append(s.outer, s.fs), "_ENV", TRUE)),
       LAMBDA env : luaK_indexed(codestring(env, n), env.e))
singlevar(s) ==
  Given(singlevaraux(Append(s.outer, s.fs), Name(s), TRUE),
       LAMBDA v : IF v.k = "VVOID" THEN globalvar(skipname(s), Name(s)) ELSE Resolved(skipname(s), v))

(* The values of an expression list become as many as there are variables.                 *)
FillNils(s, extra) ==
  IF extra <= 0 THEN s
  ELSE [luaK_reserveregs(s, extra) EXCEPT !.fs = luaK_nil(@, s.fs.freereg, extra)]
adjust_assign(s, nvars, nexps) ==
  LET extra == nvars - nexps
      wanted == IF extra + 1 < 0 THEN 0 ELSE extra + 1
  IN  IF hasmultret(s.e)
      THEN Then(luaK_setreturns(s, wanted),
                LAMBDA r : IF wanted > 1 THEN luaK_reserveregs(r, wanted - 1) ELSE r)
      ELSE FillNils(IF s.e.k = "VVOID" THEN s ELSE luaK_exp2nextreg(s), extra)

-----------------------------------------------------------------------------
(* Blocks, labels and gotos.                                                         *)

Block(s) == Last(s.fs.blocks)
newlabelentry(s, name, pc) == [name |-> name, pc |-> pc, nactvar |-> s.fs.nactvar]

closegoto(s, g, lb) ==
  LET gt == s.gt[g] IN
  IF gt.nactvar < lb.nactvar THEN Fail(s, "jumps into the scope of a local")
  ELSE [s EXCEPT !.fs = luaK_patchlist(@, gt.pc, lb.pc), !.gt = RemoveAt(@, g)]

(* A goto g finds its label among those of the current block, if it is there already.       *)
findlabel(s, g) ==
  LET gt == s.gt[g]
      found == {i \in (Block(s).firstlabel + 1)..Len(s.label) : s.label[i].name = gt.name}
      lb == s.label[Least(found)]
      close == gt.nactvar > lb.nactvar /\ (Block(s).upval \/ Len(s.label) > Block(s).firstlabel)
      closed == [s EXCEPT !.fs = luaK_patchclose(@, gt.pc, lb.nactvar)]
  IN  IF found = {} THEN s ELSE closegoto(IF close THEN closed ELSE s, g, lb)

(* The pending gotos of the current block that wait for label lb jump to it.                *)
RECURSIVE findgotosfrom(_, _, _)
findgotosfrom(s, lb, i) ==
  IF i > Len(s.gt) \/ s.err # "" THEN s
  ELSE IF s.gt[i].name = lb.name THEN findgotosfrom(closegoto(s, i, lb), lb, i)
  ELSE findgotosfrom(s, lb, i + 1)
findgotos(s, lb) == findgotosfrom(s, lb, Block(s).firstgoto + 1)

(* Gotos that leave block bl are gotos of the block around it.                             *)
RECURSIVE movegotosfrom(_, _, _)
movegotosfrom(s, bl, i) ==
  IF i > Len(s.gt) \/ s.err # "" THEN s
  ELSE LET gt == s.gt[i]
           leaves == gt.nactvar > bl.nactvar
           out == IF ~leaves THEN s
                  ELSE [s EXCEPT !.gt[i].nactvar = bl.nactvar,
                                 !.fs = IF bl.upval THEN luaK_patchclose(@, gt.pc, bl.nactvar) ELSE @]
           found == findlabel(out, i)
       IN  movegotosfrom(found, bl, IF Len(found.gt) < Len(s.gt) THEN i ELSE i + 1)
movegotosout(s, bl) == movegotosfrom(s, bl, bl.firstgoto + 1)

enterblock(s, isloop) ==
  Assert_([s EXCEPT !.fs.blocks = Append(@, [isloop |-> isloop, nactvar |-> s.fs.nactvar,
                                             firstlabel |-> Len(s.label),
                                             firstgoto |-> Len(s.gt), upval |-> FALSE])],
          s.fs.freereg = s.fs.nactvar)

breaklabel(s) ==
  LET l == newlabelentry(s, "break", Here(s.fs)) IN
  findgotos([s EXCEPT !.label = Append(@, l)], l)

(* A block whose variables are upvalues ends with a jump that closes them.                  *)
CodeClose(s, bl) ==
  LET pc == Here(s.fs) IN
  [s EXCEPT !.fs = luaK_patchtohere(luaK_patchclose(luaK_jump(@), pc, bl.nactvar), pc)]
Dropped(s, bl) ==
  Then(removevars([s EXCEPT !.fs.blocks = Front(@)], bl.nactvar),
       LAMBDA l : [l EXCEPT !.fs.freereg = l.fs.nactvar, !.label = SubSeq(@, 1, bl.firstlabel)])
LeaveOuter(s, bl) == IF bl.firstgoto < Len(s.gt) THEN Fail(s, "no visible label") ELSE s
LeaveInner(s, bl) ==
  Then(IF bl.upval THEN CodeClose(s, bl) ELSE s,
       LAMBDA c : movegotosout(Dropped(IF bl.isloop THEN breaklabel(c) ELSE c, bl), bl))
leaveblock(s) ==
  IF Len(s.fs.blocks) > 1 THEN LeaveInner(s, Block(s)) ELSE LeaveOuter(Dropped(s, Block(s)), Block(s))

-----------------------------------------------------------------------------
(* Functions.                                                                      *)

NewFunc ==
  [code |-> <<>>, k |-> <<>>, p |-> <<>>, upvalues |-> <<>>, numparams |-> 0,
   is_vararg |-> FALSE, maxstacksize |-> 2, lasttarget |-> 0, jpc |-> NO_JUMP, freereg |-> 0,
   nactvar |-> 0, actvars |-> <<>>, blocks |-> <<>>]

open_func(s) ==
  enterblock([s EXCEPT !.outer = Append(@, s.fs), !.fs = NewFunc], FALSE)

Proto(fs) ==
  [code |-> fs.code, k |-> fs.k, p |-> fs.p, upvalues |-> fs.upvalues,
   numparams |-> fs.numparams, is_vararg |-> fs.is_vararg, maxstacksize |-> fs.maxstacksize]

(* The finished function is the last one of the function around it, and a closure of it     *)
(* the value there.                                                                  *)
close_func(s) ==
  Then(leaveblock([s EXCEPT !.fs = luaK_ret(@, 0, 0)]),
       LAMBDA f : Assert_([f EXCEPT !.outer = Front(@),
                                    !.fs = [Last(f.outer) EXCEPT !.p = Append(@, Proto(f.fs))]],
                          f.fs.blocks = <<>>))
codeclosure(s) ==
  luaK_exp2nextreg(Relocable(With(s, Exp("VRELOCABLE", 0)),
                             I("CLOSURE", 0, Len(s.fs.p) - 1, 0)))

-----------------------------------------------------------------------------
(* Expressions.                                                                    *)

block_follow(s, withuntil) ==
  Tok(s) \in {"else", "elseif", "end", "eos"} \/ (withuntil /\ Tok(s) = "until")

Constants ==
  [nil |-> "VNIL", true |-> "VTRUE", false |-> "VFALSE"]
UnOpr == ("not" :> "NOT") @@ ("-" :> "UNM") @@ ("#" :> "LEN")
BinOpr ==
  ("+" :> "ADD") @@ ("-" :> "SUB") @@ ("*" :> "MUL") @@ ("%" :> "MOD") @@ ("//" :> "IDIV") @@
  (".." :> "CONCAT") @@ ("==" :> "EQ") @@ ("~=" :> "NE") @@ ("<" :> "LT") @@ ("<=" :> "LE") @@
  (">" :> "GT") @@ (">=" :> "GE") @@ ("and" :> "AND") @@ ("or" :> "OR")

(* priority[]: how strongly an operator binds to its left and to its right.                *)
Left(op) ==
  CASE op \in {"ADD", "SUB"} -> 10
    [] op \in {"MUL", "MOD", "IDIV"} -> 11
    [] op = "CONCAT" -> 9
    [] op \in {"EQ", "LT", "LE", "NE", "GT", "GE"} -> 3
    [] op = "AND" -> 2
    [] op = "OR" -> 1
Right(op) == IF op = "CONCAT" THEN 8 ELSE Left(op)
UNARY_PRIORITY == 12

(* Expressions and lists of statements contain each other: parse() is the rule of that name. *)
RECURSIVE parse(_, _, _)
subexpr(s, limit) == parse("subexpr", s, limit)
statlist(s) == parse("statlist", s, 0)
statement(s) == parse("statement", s, 0)
suffixedexp(s) == parse("suffixedexp", s, 0)
constructor(s) == parse("constructor", s, 0)
expr(s) == subexpr(s, 0)

(* explist(): s.e is the last expression, the others are in registers.                     *)
RECURSIVE explistfrom(_, _)
explistfrom(s, n) ==
  IF Tok(s) = "," THEN explistfrom(expr(luaK_exp2nextreg(luaX_next(s))), n + 1)
  ELSE [s EXCEPT !.n = n]
explist(s) == explistfrom(expr(s), 1)

fieldsel(s) ==
  Then(luaK_exp2anyregup(s), LAMBDA t : luaK_indexed(checkname(luaX_next(t)), t.e))

yindex(s) == checknext(luaK_exp2val(expr(luaX_next(s))), "]")

(* The fields of a constructor: cc.v is the last list item, cc.tostore how many items wait   *)
(* in registers, cc.na how many there were.                                              *)
NoItem == Exp("VVOID", 0)

SetField(s, t, rk, freereg_) ==
  [Emit(s, I("SETTABLE", t.info, rk, RK(s.e))) EXCEPT !.fs.freereg = freereg_]
recfield(s, t) ==
  Then(luaK_exp2RK(checknext(IF Tok(s) = "name" THEN checkname(s) ELSE yindex(s), "=")),
       LAMBDA key : SetField(luaK_exp2RK(expr(key)), t, RK(key.e), s.fs.freereg))

(* The last list item goes to a register; a full batch of them is stored.                   *)
closelistfield(s, t, cc) ==
  IF cc.v.k = "VVOID" THEN [s |-> s, cc |-> cc]
  ELSE Given(luaK_exp2nextreg(With(s, cc.v)),
            LAMBDA r : IF cc.tostore = FieldsPerFlush
                       THEN [s |-> luaK_setlist(r, t.info, cc.na, cc.tostore),
                             cc |-> [cc EXCEPT !.v = NoItem, !.tostore = 0]]
                       ELSE [s |-> r, cc |-> [cc EXCEPT !.v = NoItem]])
lastlistfield(s, t, cc) ==
  IF cc.tostore = 0 THEN s
  ELSE IF hasmultret(cc.v)
  THEN luaK_setlist(luaK_setreturns(With(s, cc.v), MULTRET), t.info, cc.na, MULTRET)
  ELSE luaK_setlist(IF cc.v.k = "VVOID" THEN s ELSE luaK_exp2nextreg(With(s, cc.v)),
                    t.info, cc.na, cc.tostore)

listfield(s, cc) ==
  Given(expr(s), LAMBDA item : [s |-> item, cc |-> [v |-> item.e, na |-> cc.na + 1, tostore |-> cc.tostore + 1]])
RECURSIVE fields(_, _, _)
fields(s, t, cc) ==
  LET isrec == Tok(s) = "[" \/ (Tok(s) = "name" /\ s.t[2][1] = "=") IN
  IF Tok(s) = "}" THEN [s |-> s, cc |-> cc]
  ELSE Given(Given(closelistfield(s, t, cc),
                 LAMBDA c : IF isrec THEN [c EXCEPT !.s = recfield(@, t)] ELSE listfield(c.s, c.cc)),
            LAMBDA r : IF Tok(r.s) \in {",", ";"} THEN fields(luaX_next(r.s), t, r.cc) ELSE r)

tableconstructor(s) ==
  Then(luaK_exp2nextreg(Relocable(With(s, NoItem), I("NEWTABLE", 0, 0, 0))), LAMBDA t :
    Given(fields(checknext(t, "{"), t.e, [v |-> NoItem, na |-> 0, tostore |-> 0]), LAMBDA r :
      With(lastlistfield(checknext(r.s, "}"), t.e, r.cc), t.e)))

Arguments_(s) ==
  CASE Tok(s) = "(" ->
         IF Tok(luaX_next(s)) = ")" THEN With(luaX_next(luaX_next(s)), NoItem)
         ELSE checknext(luaK_setreturns(explist(luaX_next(s)), MULTRET), ")")
    [] Tok(s) = "{" -> constructor(s)
    [] Tok(s) = "string" -> luaX_next(codestring(s, Head(s.t)[2]))
    [] OTHER -> Fail(With(s, NoItem), "function arguments expected")
(* A call leaves one result, unless what follows wants another number.                     *)
CodeCall(s, f, nparams) ==
  Then(Relocable(s, I("CALL", f.info, nparams + 1, 2)),
       LAMBDA c : Assert_([c EXCEPT !.e = Exp("VCALL", c.e.info), !.fs.freereg = f.info + 1],
                          f.k = "VNONRELOC"))
Call(s, f) ==
  IF hasmultret(s.e) THEN CodeCall(s, f, MULTRET)
  ELSE Then(IF s.e.k = "VVOID" THEN s ELSE luaK_exp2nextreg(s),
            LAMBDA r : CodeCall(r, f, r.fs.freereg - (f.info + 1)))
funcargs(s) == Call(Arguments_(s), s.e)

primaryexp(s) ==
  CASE Tok(s) = "(" -> luaK_dischargevars(checknext(expr(luaX_next(s)), ")"))
    [] Tok(s) = "name" -> singlevar(s)
    [] OTHER -> Fail(With(s, Exp("VNIL", 0)), "unexpected symbol")

Callee(s) ==
  IF Tok(s) # ":" THEN luaK_exp2nextreg(s)
  ELSE Then(checkname(luaX_next(s)), LAMBDA key : luaK_self(With(key, s.e), key.e))
RECURSIVE suffixes(_)
suffixes(s) ==
  CASE Tok(s) = "." -> suffixes(fieldsel(s))
    [] Tok(s) = "[" -> suffixes(Then(luaK_exp2anyregup(s), LAMBDA up : luaK_indexed(yindex(up), up.e)))
    [] Tok(s) \in {":", "(", "string", "{"} -> suffixes(funcargs(Callee(s)))
    [] OTHER -> s

RECURSIVE parlist(_)
parlist(s) ==
  CASE Tok(s) = "name" ->
         Then(new_localvar(skipname(s), Name(s)),
              LAMBDA v : IF Tok(v) = "," THEN parlist(luaX_next(v)) ELSE v)
    [] Tok(s) = "..." -> [luaX_next(s) EXCEPT !.fs.is_vararg = TRUE]
    [] OTHER -> Fail(s, "<name> or '...' expected")

Parameters(s) ==
  LET n == Len(s.fs.actvars) IN
  luaK_reserveregs([s EXCEPT !.fs.nactvar = n, !.fs.numparams = n], n)
Opened(s, ismethod) ==
  IF ismethod THEN adjustlocalvars(new_localvar(open_func(s), "self"), 1) ELSE open_func(s)
body(s, ismethod) ==
  Then(checknext(Opened(s, ismethod), "("),
       LAMBDA o : Then(statlist(checknext(Parameters(IF Tok(o) = ")" THEN o ELSE parlist(o)), ")")),
                       LAMBDA b : codeclosure(close_func(checknext(b, "end")))))

simpleexp(s) ==
  CASE Tok(s) = "int" -> luaX_next(With(s, Exp("VKINT", Head(s.t)[2])))
    [] Tok(s) = "string" -> luaX_next(codestring(s, Head(s.t)[2]))
    [] Tok(s) \in DOMAIN Constants -> luaX_next(With(s, Exp(Constants[Tok(s)], 0)))
    [] Tok(s) = "..." ->
         IF ~s.fs.is_vararg THEN Fail(s, "cannot use '...'")
         ELSE Then(Relocable(With(s, NoItem), I("VARARG", 0, 1, 0)),
                   LAMBDA v : luaX_next(With(v, Exp("VVARARG", v.e.info))))
    [] Tok(s) = "{" -> constructor(s)
    [] Tok(s) = "function" -> body(luaX_next(s), FALSE)
    [] OTHER -> suffixedexp(s)

(* Operators that bind more strongly than the limit are taken with what is left of them.     *)
RECURSIVE operators(_, _)
operators(s, limit) ==
  IF Tok(s) \notin DOMAIN BinOpr THEN s
  ELSE LET op == BinOpr[Tok(s)] IN
       IF Left(op) <= limit THEN s
       ELSE operators(Then(luaK_infix(luaX_next(s), op),
                           LAMBDA first : luaK_posfix(subexpr(first, Right(op)), op, first.e)), limit)

operand(s, limit) ==
  operators(IF Tok(s) \in DOMAIN UnOpr
            THEN luaK_prefix(subexpr(luaX_next(s), UNARY_PRIORITY), UnOpr[Tok(s)])
            ELSE simpleexp(s), limit)

-----------------------------------------------------------------------------
(* Statements.                                                                     *)

block(s) == leaveblock(statlist(enterblock(s, FALSE)))

(* A variable that is assigned now and that a variable further left is indexed with, or in,   *)
(* is copied first: lhs are the variables further left.                                 *)
check_conflict(s, lhs, v) ==
  LET extra == s.fs.freereg
      Table(w) == w.k = "VINDEXED" /\ w.vt = v.k /\ w.tab = v.info
      Index(w) == w.k = "VINDEXED" /\ v.k = "VLOCAL" /\ w.idx = v.info
      conflict == \E i \in DOMAIN lhs : Table(lhs[i]) \/ Index(lhs[i])
      Safe(w) == [w EXCEPT !.vt = IF Table(w) THEN "VLOCAL" ELSE @,
                           !.tab = IF Table(w) THEN extra ELSE @,
                           !.idx = IF Index(w) THEN extra ELSE @]
      op == IF v.k = "VLOCAL" THEN "MOVE" ELSE "GETUPVAL"
  IN  [s |-> IF conflict THEN luaK_reserveregs(Emit(s, I(op, extra, v.info, 0)), 1) ELSE s,
       lhs |-> Append([i \in DOMAIN lhs |-> Safe(lhs[i])], v)]

vkisvar(e) == e.k \in {"VLOCAL", "VUPVAL", "VINDEXED"}

(* The variables are stored to from the last one to the first; the last value may not need   *)
(* a register for that.                                                               *)
StoreTop(s, var) == luaK_storevar(With(s, Exp("VNONRELOC", s.fs.freereg - 1)), var)
Trimmed(s, n) == IF s.n > n THEN [s EXCEPT !.fs.freereg = @ - (s.n - n)] ELSE s
StoreLast(s, lhs) ==
  IF s.n = Len(lhs) THEN luaK_storevar(luaK_setoneret(s), Last(lhs))
  ELSE StoreTop(Trimmed(adjust_assign(s, Len(lhs), s.n), Len(lhs)), Last(lhs))
assign(s, lhs) ==
  FoldRight(LAMBDA var, r : StoreTop(r, var), Front(lhs), StoreLast(explist(checknext(s, "=")), lhs))

RECURSIVE assignment(_, _)
assignment(s, lhs) ==
  IF ~vkisvar(Last(lhs)) THEN Fail(s, "syntax error")
  ELSE IF Tok(s) # "," THEN assign(s, lhs)
  ELSE Given(Given(suffixedexp(luaX_next(s)),
                 LAMBDA v : IF v.e.k = "VINDEXED" THEN [s |-> v, lhs |-> Append(lhs, v.e)]
                            ELSE check_conflict(v, lhs, v.e)),
            LAMBDA c : assignment(c.s, c.lhs))

exprstat(s) ==
  Then(suffixedexp(s),
       LAMBDA v : IF Tok(v) \in {"=", ","} THEN assignment(v, <<v.e>>)
                  ELSE IF v.e.k # "VCALL" THEN Fail(v, "syntax error")
                  ELSE [v EXCEPT !.fs.code[v.e.info + 1].C = 1])

(* cond(): s.e.f are the jumps taken when it is false.                                   *)
cond(s) ==
  Then(expr(s), LAMBDA v : luaK_goiftrue(IF v.e.k = "VNIL" THEN [v EXCEPT !.e.k = "VFALSE"] ELSE v))

gotostat(s, pc) ==
  LET label == IF Tok(s) = "goto" THEN Name(luaX_next(s)) ELSE "break"
      read == IF Tok(s) = "goto" THEN skipname(luaX_next(s)) ELSE luaX_next(s)
  IN  findlabel([read EXCEPT !.gt = Append(@, newlabelentry(s, label, pc))], Len(s.gt) + 1)

RECURSIVE skipnoopstat(_)
skipnoopstat(s) ==
  IF Tok(s) \in {";", "::"} THEN skipnoopstat(statement(s)) ELSE s

(* A label that ends its block counts as being after the locals of the block.               *)
EnterLabel(s, n, l) ==
  LET lb == IF block_follow(s, FALSE) THEN [l EXCEPT !.nactvar = Block(s).nactvar] ELSE l IN
  IF s.err # "" THEN s ELSE findgotos([s EXCEPT !.label[n] = lb], lb)
labelstat(s) ==
  LET name == Name(s)
      repeated == \E i \in (Block(s).firstlabel + 1)..Len(s.label) : s.label[i].name = name
      l == newlabelentry(s, name, Here(s.fs))
      read == checknext(IF repeated THEN Fail(s, "already defined") ELSE skipname(s), "::")
  IN  EnterLabel(skipnoopstat([read EXCEPT !.label = Append(@, l)]), Len(s.label) + 1, l)

whilestat(s) ==
  Then(cond([luaX_next(s) EXCEPT !.fs = luaK_getlabel(@)]), LAMBDA test :
    Then(block(checknext(enterblock(test, TRUE), "do")), LAMBDA loop :
      [leaveblock(checknext([loop EXCEPT !.fs = luaK_jumpto(@, Here(s.fs))], "end"))
         EXCEPT !.fs = luaK_patchtohere(@, test.e.f)]))

(* The condition sees the variables of the body, which the jump back closes if need be.       *)
repeatstat(s) ==
  Then(cond(checknext(statlist(luaX_next(enterblock(
              enterblock([s EXCEPT !.fs = luaK_getlabel(@)], TRUE), FALSE))), "until")), LAMBDA test :
    Then(leaveblock(IF Block(test).upval
                    THEN [test EXCEPT !.fs = luaK_patchclose(@, test.e.f, Block(test).nactvar)]
                    ELSE test), LAMBDA scope :
      leaveblock([scope EXCEPT !.fs = luaK_patchlist(@, test.e.f, Here(s.fs))])))

exp1(s) ==
  Then(luaK_exp2nextreg(expr(s)), LAMBDA r : Assert_(r, r.e.k = "VNONRELOC"))

(* The three control variables are in registers from base on; prep is where the loop begins,  *)
(* with FORPREP or a jump to the call of the iterator.                                   *)
ForEnd(s, base, nvars, isnum) ==
  EmitAll(s, IF isnum THEN <<I("FORLOOP", base, NO_JUMP, 0)>>
             ELSE <<I("TFORCALL", base, 0, nvars), I("TFORLOOP", base + 2, NO_JUMP, 0)>>)
LoopTo(s, target) == [s EXCEPT !.fs = luaK_patchlist(@, LastPc(s), target)]
forbody(s, base, nvars, isnum) ==
  Then(checknext(adjustlocalvars(s, 3), "do"), LAMBDA c :
    Then(IF isnum THEN Emit(c, I("FORPREP", base, NO_JUMP, 0)) ELSE [c EXCEPT !.fs = luaK_jump(@)],
      LAMBDA begun :
        Then(leaveblock(block(luaK_reserveregs(adjustlocalvars(enterblock(begun, FALSE), nvars), nvars))),
          LAMBDA l : LoopTo(ForEnd([l EXCEPT !.fs = luaK_patchtohere(@, Here(c.fs))], base, nvars, isnum),
                            Here(c.fs) + 1))))

new_localvars(s, names) == FoldLeft(new_localvar, s, names)

Step(s) ==
  IF Tok(s) = "," THEN exp1(luaX_next(s))
  ELSE Then(Constant(s, <<"int", 1>>),
            LAMBDA one : luaK_reserveregs(EmitAll(one, luaK_codek(one.fs.freereg, one.e.info)), 1))
fornum(s, name) ==
  Then(new_localvars(s, <<"(for index)", "(for limit)", "(for step)", name>>),
       LAMBDA vars : forbody(Step(exp1(checknext(exp1(checknext(vars, "=")), ","))), s.fs.freereg, 1, TRUE))

RECURSIVE namelist(_, _)
namelist(s, n) ==
  IF Tok(s) = "," THEN namelist(new_localvar(skipname(luaX_next(s)), Name(luaX_next(s))), n + 1)
  ELSE [s EXCEPT !.n = n]

forlist(s, name) ==
  Then(namelist(new_localvars(s, <<"(for generator)", "(for state)", "(for control)", name>>), 1),
       LAMBDA vars :
         Then(explist(checknext(vars, "in")),
              LAMBDA v : forbody(luaK_checkstack(adjust_assign(v, 3, v.n), 3), s.fs.freereg, vars.n, FALSE)))

For(s, name) ==
  CASE Tok(s) = "=" -> fornum(s, name)
    [] Tok(s) \in {",", "in"} -> forlist(s, name)
    [] OTHER -> Fail(s, "'=' or 'in' expected")
forstat(s) ==
  Then(luaX_next(enterblock(s, TRUE)),
       LAMBDA entered : leaveblock(checknext(For(skipname(entered), Name(entered)), "end")))

(* What follows the condition; jf are the jumps over it.                                  *)
Escape(s, escapelist) ==
  LET pc == Here(s.fs) IN
  [s |-> [s EXCEPT !.fs = Given(luaK_jump(@), LAMBDA j : [j EXCEPT !.code = luaK_concat(@, escapelist, pc)])],
   escapelist |-> Joined(escapelist, pc)]
thenpart(s, jf, escapelist) ==
  Given(Given(leaveblock(statlist(s)),
            LAMBDA l : IF Tok(l) \in {"else", "elseif"} THEN Escape(l, escapelist)
                       ELSE [s |-> l, escapelist |-> escapelist]),
       LAMBDA r : [r EXCEPT !.s.fs = luaK_patchtohere(@, jf)])

(* A condition for a goto or break jumps to the label itself.                             *)
thengoto(iffalse, escapelist) ==
  Given(skipnoopstat(gotostat(enterblock(iffalse, FALSE), iffalse.e.t)),
       LAMBDA j : IF block_follow(j, FALSE) THEN [s |-> leaveblock(j), escapelist |-> escapelist]
                  ELSE thenpart([j EXCEPT !.fs = luaK_jump(@)], Here(j.fs), escapelist))
test_then_block(s, escapelist) ==
  Given(checknext(expr(luaX_next(s)), "then"),
       LAMBDA test : IF Tok(test) \in {"goto", "break"} THEN thengoto(luaK_goiffalse(test), escapelist)
                     ELSE Given(luaK_goiftrue(test),
                               LAMBDA iftrue : thenpart(enterblock(iftrue, FALSE), iftrue.e.f, escapelist)))

RECURSIVE ifparts(_, _)
ifparts(s, escapelist) ==
  Given(test_then_block(s, escapelist),
       LAMBDA r : IF Tok(r.s) = "elseif" THEN ifparts(r.s, r.escapelist) ELSE r)
ifstat(s) ==
  Given(ifparts(s, NO_JUMP),
       LAMBDA r : [checknext(IF Tok(r.s) = "else" THEN block(luaX_next(r.s)) ELSE r.s, "end")
                     EXCEPT !.fs = luaK_patchtohere(@, r.escapelist)])

localfunc(s) == body(adjustlocalvars(new_localvar(skipname(s), Name(s)), 1), FALSE)

Values(s) == IF Tok(s) = "=" THEN explist(luaX_next(s)) ELSE [s EXCEPT !.e = NoItem, !.n = 0]
localstat(s) ==
  Then(namelist(new_localvar(skipname(s), Name(s)), 1),
       LAMBDA vars : Then(Values(vars), LAMBDA v : adjustlocalvars(adjust_assign(v, vars.n, v.n), vars.n)))

RECURSIVE funcname(_)
funcname(s) == IF Tok(s) = "." THEN funcname(fieldsel(s)) ELSE s
funcstat(s) ==
  Then(funcname(singlevar(luaX_next(s))),
       LAMBDA v : Then(IF Tok(v) = ":" THEN fieldsel(v) ELSE v,
                       LAMBDA var : luaK_storevar(body(var, Tok(v) = ":"), var.e)))

(* The values to return, from register first on; a call alone becomes a tail call.            *)
Return(s, first, nret) == testnext([s EXCEPT !.fs = luaK_ret(@, first, nret)], ";")
TailCall(s, n) ==
  Assert_([s EXCEPT !.fs.code[n].op = "TAILCALL"], s.fs.code[n].A = s.fs.nactvar)
ReturnValues(v, first) ==
  CASE hasmultret(v.e) ->
         Return(Then(luaK_setreturns(v, MULTRET),
                     LAMBDA r : IF v.e.k = "VCALL" /\ v.n = 1 THEN TailCall(r, v.e.info + 1) ELSE r),
                first, MULTRET)
    [] ~hasmultret(v.e) /\ v.n = 1 -> Then(luaK_exp2anyreg(v), LAMBDA r : Return(r, r.e.info, 1))
    [] OTHER -> Then(luaK_exp2nextreg(v),
                     LAMBDA r : Return(Assert_(r, v.n = r.fs.freereg - first), first, v.n))
retstat(s) ==
  IF block_follow(s, TRUE) \/ Tok(s) = ";" THEN Return(s, 0, 0)
  ELSE ReturnValues(explist(s), s.fs.nactvar)


stat(s) ==
  CASE Tok(s) = ";" -> luaX_next(s)
    [] Tok(s) = "if" -> ifstat(s)
    [] Tok(s) = "while" -> whilestat(s)
    [] Tok(s) = "do" -> checknext(block(luaX_next(s)), "end")
    [] Tok(s) = "for" -> forstat(s)
    [] Tok(s) = "repeat" -> repeatstat(s)
    [] Tok(s) = "function" -> funcstat(s)
    [] Tok(s) = "local" ->
         Then(luaX_next(s), LAMBDA l : IF Tok(l) = "function" THEN localfunc(luaX_next(l)) ELSE localstat(l))
    [] Tok(s) = "::" -> labelstat(luaX_next(s))
    [] Tok(s) = "return" -> retstat(luaX_next(s))
    [] Tok(s) \in {"break", "goto"} ->
         gotostat([s EXCEPT !.fs = luaK_jump(@)], Here(s.fs))
    [] OTHER -> exprstat(s)

AnyStat(s) ==
  Then(stat(s), LAMBDA r :
    [Assert_(r, r.err # "" \/ (r.fs.maxstacksize >= r.fs.freereg /\ r.fs.freereg >= r.fs.nactvar))
       EXCEPT !.fs.freereg = r.fs.nactvar])

RECURSIVE statements(_)
statements(s) ==
  IF block_follow(s, TRUE) THEN s
  ELSE IF Tok(s) = "return" THEN statement(s) ELSE statements(statement(s))

parse(rule, s, limit) ==
  CASE rule = "subexpr" -> operand(s, limit)
    [] rule = "statlist" -> statements(s)
    [] rule = "statement" -> AnyStat(s)
    [] rule = "suffixedexp" -> suffixes(primaryexp(s))
    [] rule = "constructor" -> tableconstructor(s)

(* luaY_parser(): the main function, which has _ENV as its upvalue, is opened, read statement  *)
(* by statement, and closed.                                                          *)
openmain(tokens) ==
  enterblock([t |-> tokens, outer |-> <<>>, gt |-> <<>>, label |-> <<>>, h |-> <<>>,
              e |-> Exp("VVOID", 0), n |-> 0, ok |-> TRUE, err |-> "",
              fs |-> [NewFunc EXCEPT !.is_vararg = TRUE,
                                     !.upvalues = <<[name |-> "_ENV", instack |-> TRUE, idx |-> 0]>>]], FALSE)
AtEnd(s, last) == IF last /\ Tok(s) # "eos" THEN Fail(s, "<eof> expected") ELSE s
closemain(s) ==
  Then(s, LAMBDA r :
    Then(leaveblock([r EXCEPT !.fs = luaK_ret(@, 0, 0)]),
         LAMBDA f : Assert_(f, f.fs.actvars = <<>> /\ f.gt = <<>> /\ f.label = <<>>)))
=============================================================================
