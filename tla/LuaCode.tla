------------------------------- MODULE LuaCode -------------------------------
(***************************************************************************)
(* The code generator of Lua, lcode.c: expressions that are delayed until a register    *)
(* is known for them, jumps that are kept in lists threaded through the code until     *)
(* their target is known, registers handed out like a stack.                        *)
(*                                                                          *)
(* A state s of the compiler has s.e, the expression description the C code works on,    *)
(* and s.fs, the function being compiled; operators of the C functions' names lead from   *)
(* one state to the next.  s.ok turns FALSE where an assertion of the C code fails.      *)
(* Floats and bitwise operators, whose code is that of the other arithmetic, line         *)
(* numbers and the growth of arrays are left out.                                   *)
(***************************************************************************)
EXTENDS Integers, Sequences, SequencesExt, TLC

CONSTANTS
  MaxRegs,          (* MAXREGS, 255: registers of a function                       *)
  MaxIndexRK,       (* MAXINDEXRK, 255: constants that may be operands             *)
  MaxArgBx,         (* MAXARG_Bx: constants LOADK can reach                        *)
  MaxArgC,          (* MAXARG_C: batches SETLIST can count                         *)
  FieldsPerFlush,   (* LFIELDS_PER_FLUSH, 50: list items stored at once            *)
  Half              (* integers wrap around at Half: 2^63                          *)

ASSUME CodeAssumption ==
  {MaxRegs, MaxIndexRK, MaxArgBx, MaxArgC, FieldsPerFlush, Half} \subseteq Nat \ {0}

NO_JUMP == -1
NO_REG == 255
BITRK == 256
MULTRET == -1
ISK(x) == x >= BITRK
INDEXK(x) == x - BITRK

(* An instruction; B is also its Bx or sBx.                                         *)
I(op, a, b, c) == [op |-> op, A |-> a, B |-> b, C |-> c]
TestMode == {"EQ", "LT", "LE", "TEST", "TESTSET"}

(* An expression: its kind, a register, constant, code position or value, for indexed      *)
(* ones the table, index and kind of table, and the lists of jumps out when true or false.  *)
Exp(k, info) ==
  [k |-> k, info |-> info, tab |-> 0, idx |-> 0, vt |-> "VLOCAL", t |-> NO_JUMP, f |-> NO_JUMP]
With(s, e) == [s EXCEPT !.e = e]
hasjumps(e) == e.t # e.f
hasmultret(e) == e.k \in {"VCALL", "VVARARG"}
tonumeral(e) == e.k = "VKINT" /\ e.t = NO_JUMP /\ e.f = NO_JUMP

Here(fs) == Len(fs.code)
getcode(s) == s.fs.code[s.e.info + 1]

(* A step and what is done with the state it leads to, unless that was an error.            *)
Then(s, Next_(_)) == IF s.err # "" THEN s ELSE Next_(s)
Given(x, Next_(_)) == Next_(x)

Fail(s, what) == [s EXCEPT !.err = IF @ = "" THEN what ELSE @, !.t = <<<<"eos">>>>]
Assert_(s, b) == [s EXCEPT !.ok = @ /\ (b \/ s.err # "")]

-----------------------------------------------------------------------------
(* Integers as lua_Integer has them, and luaV_div() and luaV_mod(), which correct C's   *)
(* truncating division.                                                              *)
Wrap(n) == ((n + Half) % (2 * Half)) - Half
Magnitude(n) == IF n < 0 THEN -n ELSE n
Quotient(m, n) ==
  LET q == Magnitude(m) \div Magnitude(n) IN IF (m < 0) = (n < 0) THEN q ELSE -q

luaV_div(m, n) ==
  IF n = -1 THEN Wrap(-m)
  ELSE LET q == Quotient(m, n) IN IF (m < 0) # (n < 0) /\ q * n # m THEN q - 1 ELSE q

luaV_mod(m, n) ==
  IF n = -1 THEN 0
  ELSE LET r == m - Quotient(m, n) * n IN IF r # 0 /\ (m < 0) # (n < 0) THEN r + n ELSE r

luaO_arith(op, m, n) ==
  CASE op = "ADD" -> Wrap(m + n)
    [] op = "SUB" -> Wrap(m - n)
    [] op = "MUL" -> Wrap(m * n)
    [] op = "MOD" -> luaV_mod(m, n)
    [] op = "IDIV" -> luaV_div(m, n)
    [] op = "UNM" -> Wrap(-m)

-----------------------------------------------------------------------------
(* Lists of jumps.                                                                   *)

getjump(code, pc) ==
  IF code[pc + 1].B = NO_JUMP THEN NO_JUMP ELSE pc + 1 + code[pc + 1].B

RECURSIVE JumpsOf(_, _)
JumpsOf(code, list) ==
  IF list = NO_JUMP THEN <<>> ELSE <<list>> \o JumpsOf(code, getjump(code, list))

fixjump(code, pc, dest) == [code EXCEPT ![pc + 1].B = dest - (pc + 1)]

(* Where the test before a jump is, or the jump itself.                               *)
getjumpcontrol(code, pc) == IF pc >= 1 /\ code[pc].op \in TestMode THEN pc - 1 ELSE pc

Controls(code, list) == {getjumpcontrol(code, pc) : pc \in ToSet(JumpsOf(code, list))}
need_value(code, list) == \E pc \in Controls(code, list) : code[pc + 1].op # "TESTSET"

HasValue(code, pc) == code[getjumpcontrol(code, pc) + 1].op = "TESTSET"

(* A TESTSET stores into reg, or becomes a TEST if no value is wanted.                       *)
patchtestreg(code, pc, reg) ==
  LET n == getjumpcontrol(code, pc) + 1
      i == code[n]
  IN  IF i.op # "TESTSET" THEN code
      ELSE IF reg # NO_REG /\ reg # i.B THEN [code EXCEPT ![n].A = reg]
      ELSE [code EXCEPT ![n] = I("TEST", i.B, 0, i.C)]

RECURSIVE removevalues(_, _), patchlistaux(_, _, _, _, _), closelist(_, _, _)
removevalues(code, list) ==
  IF list = NO_JUMP THEN code
  ELSE removevalues(patchtestreg(code, list, NO_REG), getjump(code, list))

(* Jumps that leave a value go to vtarget, with the value in reg; others to dtarget.       *)
patchlistaux(code, list, vtarget, reg, dtarget) ==
  IF list = NO_JUMP THEN code
  ELSE patchlistaux(fixjump(patchtestreg(code, list, reg), list,
                            IF HasValue(code, list) THEN vtarget ELSE dtarget),
                    getjump(code, list), vtarget, reg, dtarget)

closelist(code, list, level) ==
  IF list = NO_JUMP THEN code
  ELSE closelist([code EXCEPT ![list + 1].A = level + 1], getjump(code, list), level)

(* luaK_concat(): the list, and the code in which it is one.                            *)
Joined(l1, l2) == IF l1 = NO_JUMP THEN l2 ELSE l1
luaK_concat(code, l1, l2) ==
  IF l1 = NO_JUMP \/ l2 = NO_JUMP THEN code ELSE fixjump(code, Last(JumpsOf(code, l1)), l2)

luaK_getlabel(fs) == [fs EXCEPT !.lasttarget = Here(fs)]

luaK_patchtohere(fs, list) ==
  [luaK_getlabel(fs) EXCEPT !.jpc = Joined(@, list), !.code = luaK_concat(@, fs.jpc, list)]

luaK_patchlist(fs, list, target) ==
  IF target = Here(fs) THEN luaK_patchtohere(fs, list)
  ELSE [fs EXCEPT !.code = patchlistaux(@, list, target, NO_REG, target)]

luaK_patchclose(fs, list, level) == [fs EXCEPT !.code = closelist(@, list, level)]

dischargejpc(fs) ==
  [fs EXCEPT !.code = patchlistaux(@, fs.jpc, Here(fs), NO_REG, Here(fs)), !.jpc = NO_JUMP]

luaK_code(fs, i) == LET d == dischargejpc(fs) IN [d EXCEPT !.code = Append(@, i)]
Emit(s, i) == [s EXCEPT !.fs = luaK_code(@, i)]
EmitAll(s, is) == FoldLeft(Emit, s, is)
LastPc(s) == Here(s.fs) - 1

(* Jumps to here are kept on hold: they become jumps to where this one goes.              *)
luaK_jump(fs) ==
  LET code == Append(fs.code, I("JMP", 0, NO_JUMP, 0)) IN
  [fs EXCEPT !.jpc = NO_JUMP,
             !.code = IF fs.jpc = NO_JUMP THEN code ELSE fixjump(code, Here(fs), fs.jpc)]
luaK_jumpto(fs, target) == luaK_patchlist(luaK_jump(fs), Here(fs), target)

condjump(s, i) == [Emit(s, i) EXCEPT !.fs = luaK_jump(@)]

(* Consecutive LOADNILs become one, where no jump leads between them.                     *)
luaK_nil(fs, from, n) ==
  LET i == Last(fs.code)
      last == from + n - 1
      lo == IF i.A < from THEN i.A ELSE from
      hi == IF i.A + i.B > last THEN i.A + i.B ELSE last
      touches == /\ i.op = "LOADNIL"
                 /\ \/ i.A <= from /\ from <= i.A + i.B + 1
                    \/ from <= i.A /\ i.A <= last + 1
  IN  IF Here(fs) > fs.lasttarget /\ Here(fs) > 0 /\ touches
      THEN [fs EXCEPT !.code[Here(fs)] = I("LOADNIL", lo, hi - lo, 0)]
      ELSE luaK_code(fs, I("LOADNIL", from, n - 1, 0))

luaK_ret(fs, first, nret) == luaK_code(fs, I("RETURN", first, nret + 1, 0))

-----------------------------------------------------------------------------
(* Registers and constants.                                                          *)

luaK_checkstack(s, n) ==
  LET newstack == s.fs.freereg + n IN
  IF newstack <= s.fs.maxstacksize THEN s
  ELSE IF newstack >= MaxRegs THEN Fail(s, "too many registers")
  ELSE [s EXCEPT !.fs.maxstacksize = newstack]

luaK_reserveregs(s, n) == [luaK_checkstack(s, n) EXCEPT !.fs.freereg = @ + n]

freereg(s, reg) ==
  IF ISK(reg) \/ reg < s.fs.nactvar THEN s
  ELSE Assert_([s EXCEPT !.fs.freereg = @ - 1], reg = s.fs.freereg - 1)

freeexp(s, e) == IF e.k = "VNONRELOC" THEN freereg(s, e.info) ELSE s

(* addk(): the scanner's table, which all functions of a chunk share, has where a value     *)
(* was put last; it is reused if this function has it there.                           *)
Known(s, v) ==
  v \in DOMAIN s.h /\ s.h[v] < Len(s.fs.k) /\ s.fs.k[s.h[v] + 1] = v
addk(s, v) ==
  IF Known(s, v) THEN s
  ELSE [s EXCEPT !.h = (v :> Len(s.fs.k)) @@ @, !.fs.k = Append(@, v)]
Constant(s, v) ==
  Then(addk(s, v), LAMBDA a : With(a, [s.e EXCEPT !.k = "VK", !.info = a.h[v]]))

luaK_codek(reg, k) ==
  IF k <= MaxArgBx THEN <<I("LOADK", reg, k, 0)>>
  ELSE <<I("LOADKX", reg, 0, 0), I("EXTRAARG", k, 0, 0)>>

-----------------------------------------------------------------------------
(* From an expression to a register.                                                 *)

luaK_setreturns(s, nresults) ==
  LET n == s.e.info + 1 IN
  CASE s.e.k = "VCALL" -> [s EXCEPT !.fs.code[n].C = nresults + 1]
    [] s.e.k = "VVARARG" ->
         luaK_reserveregs([s EXCEPT !.fs.code[n].B = nresults + 1,
                                    !.fs.code[n].A = s.fs.freereg], 1)
    [] OTHER -> s

luaK_setoneret(s) ==
  CASE s.e.k = "VCALL" -> [s EXCEPT !.e.k = "VNONRELOC", !.e.info = getcode(s).A]
    [] s.e.k = "VVARARG" ->
         [s EXCEPT !.fs.code[s.e.info + 1].B = 2, !.e.k = "VRELOCABLE"]
    [] OTHER -> s

(* The instruction i will produce the value, in a register to be filled in.               *)
Relocable(s, i) ==
  Then(Emit(s, i), LAMBDA c : [c EXCEPT !.e.k = "VRELOCABLE", !.e.info = LastPc(c)])

Getter(e) ==
  IF e.k = "VUPVAL" THEN I("GETUPVAL", 0, e.info, 0)
  ELSE I(IF e.vt = "VLOCAL" THEN "GETTABLE" ELSE "GETTABUP", 0, e.tab, e.idx)
FreeIndexed(s, e) ==
  IF e.k = "VUPVAL" THEN s
  ELSE Then(freereg(s, e.idx), LAMBDA r : IF e.vt = "VLOCAL" THEN freereg(r, e.tab) ELSE r)
luaK_dischargevars(s) ==
  CASE s.e.k = "VLOCAL" -> [s EXCEPT !.e.k = "VNONRELOC"]
    [] s.e.k \in {"VUPVAL", "VINDEXED"} -> Relocable(FreeIndexed(s, s.e), Getter(s.e))
    [] hasmultret(s.e) -> luaK_setoneret(s)
    [] OTHER -> s

code_label(fs, a, b, jump) == luaK_code(luaK_getlabel(fs), I("LOADBOOL", a, b, jump))

(* The instructions that load a value without variables.                                *)
Loading(e, reg) ==
  CASE e.k \in {"VTRUE", "VFALSE"} -> <<I("LOADBOOL", reg, IF e.k = "VTRUE" THEN 1 ELSE 0, 0)>>
    [] e.k = "VK" -> luaK_codek(reg, e.info)
    [] e.k = "VNONRELOC" -> IF reg = e.info THEN <<>> ELSE <<I("MOVE", reg, e.info, 0)>>
InReg(s, reg) == [s EXCEPT !.e.k = "VNONRELOC", !.e.info = reg]
Loaded_(s, reg) ==
  CASE s.e.k = "VNIL" -> [s EXCEPT !.fs = luaK_nil(@, reg, 1)]
    [] s.e.k = "VRELOCABLE" -> [s EXCEPT !.fs.code[s.e.info + 1].A = reg]
    [] OTHER -> Then(IF s.e.k = "VKINT" THEN Constant(s, <<"int", s.e.info>>) ELSE s,
                     LAMBDA c : EmitAll(c, Loading(c.e, reg)))
discharge2reg(s, reg) ==
  Then(luaK_dischargevars(s),
       LAMBDA d : IF d.e.k \in {"VVOID", "VJMP"} THEN d ELSE InReg(Loaded_(d, reg), reg))

discharge2anyreg(s) ==
  IF s.e.k = "VNONRELOC" THEN s
  ELSE Then(luaK_reserveregs(s, 1), LAMBDA r : discharge2reg(r, r.fs.freereg - 1))

(* The jump pc joins the expression's list of jumps, "t" or "f".                          *)
AddJump(s, list, pc) ==
  [s EXCEPT !.fs.code = luaK_concat(@, s.e[list], pc), !.e[list] = Joined(@, pc)]

(* The jumps out of an expression end at the end of fs, those without a value by way of one   *)
(* of two LOADBOOLs there, which a value that is in its register jumps over.                *)
BoolLoads(fs, reg) == code_label(code_label(fs, reg, 0, 1), reg, 1, 0)
WithLoads(s, reg) ==
  Given(BoolLoads(IF s.e.k = "VJMP" THEN s.fs ELSE luaK_jump(s.fs), reg),
       LAMBDA fs : IF s.e.k = "VJMP" THEN fs ELSE luaK_patchtohere(fs, Here(s.fs)))
PatchTo(s, fs, reg) ==
  [s EXCEPT !.fs = [luaK_getlabel(fs) EXCEPT
     !.code = patchlistaux(patchlistaux(@, s.e.f, Here(fs), reg, Here(fs) - 2),
                           s.e.t, Here(fs), reg, Here(fs) - 1)]]
PatchValues(s, reg) ==
  IF need_value(s.fs.code, s.e.t) \/ need_value(s.fs.code, s.e.f)
  THEN PatchTo(s, WithLoads(s, reg), reg) ELSE PatchTo(s, s.fs, reg)

exp2reg(s, reg) ==
  Then(Then(discharge2reg(s, reg), LAMBDA d : IF d.e.k = "VJMP" THEN AddJump(d, "t", d.e.info) ELSE d),
       LAMBDA j : With(IF hasjumps(j.e) THEN PatchValues(j, reg) ELSE j, Exp("VNONRELOC", reg)))

NextReg(d) ==
  Then(luaK_reserveregs(freeexp(d, d.e), 1), LAMBDA r : exp2reg(r, r.fs.freereg - 1))
luaK_exp2nextreg(s) == NextReg(luaK_dischargevars(s))

AnyReg(d) ==
  IF d.e.k = "VNONRELOC" /\ ~hasjumps(d.e) THEN d
  ELSE IF d.e.k = "VNONRELOC" /\ d.e.info >= d.fs.nactvar THEN exp2reg(d, d.e.info)
  ELSE NextReg(d)
luaK_exp2anyreg(s) == AnyReg(luaK_dischargevars(s))

luaK_exp2anyregup(s) ==
  IF s.e.k # "VUPVAL" \/ hasjumps(s.e) THEN luaK_exp2anyreg(s) ELSE s

luaK_exp2val(s) ==
  Then(luaK_dischargevars(s), LAMBDA d : IF hasjumps(s.e) THEN AnyReg(d) ELSE d)

(* The expression as an operand: a constant that fits, else a register.                    *)
AsConstant(v) ==
  CASE v.e.k \in {"VTRUE", "VFALSE", "VNIL"} /\ Len(v.fs.k) <= MaxIndexRK ->
         Constant(v, IF v.e.k = "VNIL" THEN <<"nil">> ELSE <<"bool", v.e.k = "VTRUE">>)
    [] v.e.k = "VKINT" -> Constant(v, <<"int", v.e.info>>)
    [] OTHER -> v
luaK_exp2RK(s) ==
  Then(AsConstant(luaK_exp2val(s)),
       LAMBDA c : IF c.e.k = "VK" /\ c.e.info <= MaxIndexRK THEN c ELSE AnyReg(c))
RK(e) == IF e.k = "VK" THEN BITRK + e.info ELSE e.info

(* The register that is stored is free again, but for a variable's.                        *)
StoreUpval(s, var) ==
  Then(luaK_exp2anyreg(s), LAMBDA r : freeexp(Emit(r, I("SETUPVAL", r.e.info, var.info, 0)), r.e))
StoreIndexed(s, var) ==
  Then(luaK_exp2RK(s),
       LAMBDA r : freeexp(Emit(r, I(IF var.vt = "VLOCAL" THEN "SETTABLE" ELSE "SETTABUP",
                                    var.tab, var.idx, RK(r.e))), r.e))
luaK_storevar(s, var) ==
  CASE var.k = "VLOCAL" -> exp2reg(freeexp(s, s.e), var.info)
    [] var.k = "VUPVAL" -> StoreUpval(s, var)
    [] var.k = "VINDEXED" -> StoreIndexed(s, var)
    [] OTHER -> Assert_(s, FALSE)

(* s.e is the object, in a register, and key a constant.                                   *)
CodeSelf(s, o, base) ==
  With(freeexp(Emit(s, I("SELF", base, o.info, RK(s.e))), s.e), [o EXCEPT !.k = "VNONRELOC", !.info = base])
SelfOf(o, key) ==
  Then(freeexp(o, o.e),
       LAMBDA r : CodeSelf(luaK_exp2RK(With(luaK_reserveregs(r, 2), key)), o.e, r.fs.freereg))
luaK_self(s, key) == SelfOf(luaK_exp2anyreg(s), key)

(* s.e is the key of table t.                                                          *)
luaK_indexed(s, t) ==
  Then(luaK_exp2RK(s),
       LAMBDA r : With(Assert_(r, ~hasjumps(t)),
                       [t EXCEPT !.k = "VINDEXED", !.tab = t.info, !.idx = RK(r.e),
                                 !.vt = IF t.k = "VUPVAL" THEN "VUPVAL" ELSE "VLOCAL"]))

-----------------------------------------------------------------------------
(* Conditions.                                                                       *)

invertjump(s) ==
  LET n == getjumpcontrol(s.fs.code, s.e.info) + 1 IN [s EXCEPT !.fs.code[n].A = 1 - @]

jumponcond(s, cond) ==
  IF s.e.k = "VRELOCABLE" /\ getcode(s).op = "NOT"
  THEN condjump([s EXCEPT !.fs.code = Front(@)], I("TEST", getcode(s).B, 0, 1 - cond))
  ELSE Then(discharge2anyreg(s),
            LAMBDA r : condjump(freeexp(r, r.e), I("TESTSET", NO_REG, r.e.info, cond)))

(* The jump is taken when the condition is not cond; what leaves it when it is, comes here.  *)
Jumping(d, leave, stay) ==
  IF d.e.k = "VJMP" THEN AddJump(IF leave = "f" THEN invertjump(d) ELSE d, leave, d.e.info)
  ELSE Then(jumponcond(d, stay), LAMBDA j : AddJump(j, leave, LastPc(j)))
GoIf(d, always, leave, here, stay) ==
  Then(IF d.e.k \in always THEN d ELSE Jumping(d, leave, stay),
       LAMBDA j : [j EXCEPT !.fs = luaK_patchtohere(@, j.e[here]), !.e[here] = NO_JUMP])

luaK_goiftrue(s) == GoIf(luaK_dischargevars(s), {"VK", "VKINT", "VTRUE"}, "f", "t", 0)
luaK_goiffalse(s) == GoIf(luaK_dischargevars(s), {"VNIL", "VFALSE"}, "t", "f", 1)

Negated(d) ==
  CASE d.e.k \in {"VNIL", "VFALSE"} -> [d EXCEPT !.e.k = "VTRUE"]
    [] d.e.k \in {"VK", "VKINT", "VTRUE"} -> [d EXCEPT !.e.k = "VFALSE"]
    [] d.e.k = "VJMP" -> invertjump(d)
    [] d.e.k \in {"VRELOCABLE", "VNONRELOC"} ->
         Then(discharge2anyreg(d), LAMBDA r : Relocable(freeexp(r, r.e), I("NOT", 0, r.e.info, 0)))
codenot(s) ==
  Then(Negated(luaK_dischargevars(s)),
       LAMBDA n : [n EXCEPT !.e.t = n.e.f, !.e.f = n.e.t,
                            !.fs.code = removevalues(removevalues(@, n.e.t), n.e.f)])

-----------------------------------------------------------------------------
(* Operators.  s.e is the second operand, e1 the first.                                 *)

Unary == {"UNM", "LEN"}
Foldable == {"ADD", "SUB", "MUL", "MOD", "IDIV", "UNM"}
validop(op, e2) == op \in {"MOD", "IDIV"} => e2.info # 0

(* Mutant: the one in the lower register is freed first.                                *)
FreeInOrder(s, o1, o2, e1, e2) ==
  IF o1 > o2 THEN freeexp(freeexp(s, e2), e1) ELSE freeexp(freeexp(s, e1), e2)

(* Operands are freed the one in the higher register first.                             *)
FreeOperands(s, o1, o2, e1, e2) ==
  IF o1 > o2 THEN freeexp(freeexp(s, e1), e2) ELSE freeexp(freeexp(s, e2), e1)

(* The second operand is made ready first; s.e is then the first one.                       *)
CodeUnary(s, op) ==
  Then(luaK_exp2anyreg(s), LAMBDA r : Relocable(freeexp(r, r.e), I(op, 0, r.e.info, 0)))
CodeBinary(s, op, e1) ==
  Then(luaK_exp2RK(s), LAMBDA s2 :
    Then(luaK_exp2RK(With(s2, e1)), LAMBDA s1 :
      Relocable(FreeOperands(s1, RK(s1.e), RK(s2.e), s1.e, s2.e), I(op, 0, RK(s1.e), RK(s2.e)))))
constfolding(op, e1, e2) == op \in Foldable /\ tonumeral(e1) /\ tonumeral(e2) /\ validop(op, e2)
Folded(s, op, e1) == With(s, Exp("VKINT", luaO_arith(op, e1.info, s.e.info)))
codeexpval(s, op, e1) ==
  IF constfolding(op, e1, s.e) THEN Folded(s, op, e1) ELSE CodeBinary(s, op, e1)

(* a > b is b < a, and a >= b is b <= a; a ~= b is the jump of a == b with the other sense.   *)
Comparison ==
  [EQ |-> "EQ", NE |-> "EQ", LT |-> "LT", GT |-> "LT", LE |-> "LE", GE |-> "LE"]
codecomp(s, op, e1) ==
  Then(luaK_exp2RK(With(s, e1)), LAMBDA s1 :
    Then(luaK_exp2RK(With(s1, s.e)), LAMBDA s2 :
      Then(condjump(freeexp(freeexp(s2, s2.e), s1.e),
                    IF op \in {"GT", "GE"} THEN I(Comparison[op], 1, RK(s2.e), RK(s1.e))
                    ELSE I(Comparison[op], IF op = "NE" THEN 0 ELSE 1, RK(s1.e), RK(s2.e))),
           LAMBDA j : With(j, [s1.e EXCEPT !.k = "VJMP", !.info = LastPc(j)]))))

luaK_prefix(s, op) ==
  IF op = "NOT" THEN codenot(s)
  ELSE IF constfolding(op, s.e, Exp("VKINT", 0)) THEN Folded(s, op, s.e)
  ELSE CodeUnary(s, op)

Arithmetic == {"ADD", "SUB", "MUL", "MOD", "IDIV"}

(* The first operand is made ready before the second is read.                            *)
luaK_infix(s, op) ==
  CASE op = "AND" -> luaK_goiftrue(s)
    [] op = "OR" -> luaK_goiffalse(s)
    [] op = "CONCAT" -> luaK_exp2nextreg(s)
    [] OTHER -> IF op \in Arithmetic /\ tonumeral(s.e) THEN s ELSE luaK_exp2RK(s)

(* A concatenation of the second operand takes the first one in as well.                   *)
PosfixConcat(v, e1) ==
  IF v.e.k = "VRELOCABLE" /\ getcode(v).op = "CONCAT"
  THEN With([freeexp(Assert_(v, e1.info = getcode(v).B - 1), e1) EXCEPT !.fs.code[v.e.info + 1].B = e1.info],
            [e1 EXCEPT !.k = "VRELOCABLE", !.info = v.e.info])
  ELSE CodeBinary(NextReg(v), "CONCAT", e1)

(* The jumps of the first operand that leave the whole join those of the second.            *)
Join(d, list, e1) ==
  [d EXCEPT !.fs.code = luaK_concat(@, d.e[list], e1[list]), !.e[list] = Joined(@, e1[list])]
luaK_posfix(s, op, e1) ==
  CASE op = "AND" -> Assert_(Join(luaK_dischargevars(s), "f", e1), e1.t = NO_JUMP)
    [] op = "OR" -> Assert_(Join(luaK_dischargevars(s), "t", e1), e1.f = NO_JUMP)
    [] op = "CONCAT" -> PosfixConcat(luaK_exp2val(s), e1)
    [] op \in Arithmetic -> codeexpval(s, op, e1)
    [] OTHER -> codecomp(s, op, e1)

luaK_setlist(s, base, nelems, tostore) ==
  LET c == (nelems - 1) \div FieldsPerFlush + 1
      b == IF tostore = MULTRET THEN 0 ELSE tostore
  IN  [EmitAll(s, IF c <= MaxArgC THEN <<I("SETLIST", base, b, c)>>
                  ELSE <<I("SETLIST", base, b, 0), I("EXTRAARG", c, 0, 0)>>)
         EXCEPT !.fs.freereg = base + 1]
=============================================================================
