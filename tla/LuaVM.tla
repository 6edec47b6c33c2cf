-------------------------------- MODULE LuaVM --------------------------------
(***************************************************************************)
(* The virtual machine of Lua: luaV_execute(), one action per instruction, with the     *)
(* calls and returns of ldo.c, the upvalues and cached closures of lfunc.c and lvm.c,   *)
(* the metamethods of ltm.c and the functions of lbaselib.c that the programs use.       *)
(*                                                                          *)
(* The state L is the lua_State: the stack, which keeps what was left in it, its top, the  *)
(* calls ci, and the objects that were made.  Where C calls itself, for a metamethod or a  *)
(* protected call, the call has in "after" what is done with its results.  Floats,        *)
(* coroutines, hooks, the order of strings, strings as numbers and the growth of the       *)
(* stack are left out, and the text of an error message is only its kind.                *)
(***************************************************************************)
EXTENDS LuaParser, LuaChunk

CONSTANTS
  Sources,          (* programs, as the tokens that the scanner reads                     *)
  StackSize,        (* slots of the stack                                             *)
  Stripped          (* the programs that are also precompiled without debug information    *)

ASSUME VMAssumption == StackSize \in Nat \ {0}

VARIABLES chunk, main, L
vars == <<chunk, main, L>>

Nil == <<"nil">>
Bool(b) == <<"bool", b>>
Num(n) == <<"int", n>>
Str(x) == <<"str", x>>
Table(id) == <<"table", id>>
Fun(id) == <<"fun", id>>
CFun(name) == <<"cfun", name>>
Type(v) == v[1]
l_isfalse(v) == v \in {Nil, Bool(FALSE)}
isfunction(v) == Type(v) \in {"fun", "cfun"}

Write(slots, at, vs) ==
  [n \in DOMAIN slots |-> IF n \in at..(at + Len(vs) - 1) THEN vs[n - at + 1] ELSE slots[n]]
Slots(s, from, n) == [i \in 1..n |-> s.stack[from + i - 1]]
Adjusted(vs, n) == [i \in 1..n |-> IF i <= Len(vs) THEN vs[i] ELSE Nil]
Set(s, at, v) == [s EXCEPT !.stack[at] = v]

CI(s) == Last(s.ci)
SetPc(s, pc) == [s EXCEPT !.ci[Len(s.ci)].pc = pc]

(* The prototype of a closure is named by its place in the functions it is nested in.       *)
ProtoAt(path) == FoldLeft(LAMBDA p, n : p.p[n + 1], main, path)
Closure(s, func) == s.closures[s.stack[func][2]]
Code(s) == ProtoAt(Closure(s, CI(s).func).path)

-----------------------------------------------------------------------------
(* Tables: a function on the keys whose value is not nil, and a metatable or 0.             *)

luaH_get(s, t, key) ==
  LET h == s.tables[t[2]].h IN IF key \in DOMAIN h THEN h[key] ELSE Nil
luaH_set(s, t, key, v) ==
  [s EXCEPT !.tables[t[2]].h = IF v = Nil THEN Restrict(@, DOMAIN @ \ {key})
                               ELSE (key :> v) @@ @]
luaH_new(s) ==
  [s EXCEPT !.tables = Append(@, [h |-> <<>>, metatable |-> 0])]

(* luaH_getn(), for tables without holes.                                               *)
luaH_getn(s, t) ==
  CHOOSE n \in 0..Cardinality(DOMAIN s.tables[t[2]].h) :
    /\ \A i \in 1..n : luaH_get(s, t, Num(i)) # Nil
    /\ luaH_get(s, t, Num(n + 1)) = Nil

luaT_gettmbyobj(s, o, event) ==
  IF Type(o) # "table" THEN Nil
  ELSE IF s.tables[o[2]].metatable = 0 THEN Nil
  ELSE luaH_get(s, Table(s.tables[o[2]].metatable), Str(event))

-----------------------------------------------------------------------------
(* Upvalues: where an open one is in the stack, or the value of a closed one.              *)

Closed == -1
Location(s, uv) == IF s.upvals[uv].at = Closed THEN <<"upval", uv>> ELSE <<"stack", s.upvals[uv].at>>
GetUpval(s, uv) == LET u == s.upvals[uv] IN IF u.at = Closed THEN u.v ELSE s.stack[u.at]
SetUpval(s, uv, v) ==
  IF s.upvals[uv].at = Closed THEN [s EXCEPT !.upvals[uv].v = v] ELSE Set(s, s.upvals[uv].at, v)

OpenAt(s, level) == {uv \in DOMAIN s.upvals : s.upvals[uv].at = level}
luaF_findupval(s, level) ==
  IF OpenAt(s, level) # {} THEN s
  ELSE [s EXCEPT !.upvals = Append(@, [at |-> level, v |-> Nil])]

luaF_close(s, level) ==
  [s EXCEPT !.upvals = [uv \in DOMAIN @ |->
     IF @[uv].at >= level THEN [at |-> Closed, v |-> s.stack[@[uv].at]] ELSE @[uv]]]

-----------------------------------------------------------------------------
(* Calls, returns and errors.  What C does after a call that it waits for, of a metamethod   *)
(* or a protected function, is in the "after" of the called frame; a C function runs in the   *)
(* step after the one that called it, and an error is caught in the step after it is thrown.   *)

After(k) == [k |-> k, at |-> 0, not |-> FALSE]
ResultAt(at) == [After("result") EXCEPT !.at = at]
Frame(s, c, func, nresults, after) ==
  [c |-> c, protects |-> FALSE, func |-> func, base |-> func + 1, top |-> s.top,
   nresults |-> nresults, pc |-> 0, after |-> after]
PushFrame(s, ci) == [s EXCEPT !.ci = Append(@, ci)]

luaD_throw(s, v) == [s EXCEPT !.err = <<v>>]

(* A function that takes a variable number of arguments has its parameters moved above them. *)
adjust_varargs(s, fixed, numparams) ==
  [s EXCEPT !.stack = Write(Write(@, s.top, Slots(s, fixed, numparams)), fixed, Adjusted(<<>>, numparams)),
            !.top = @ + numparams]
LuaFrame(s, ci, base, p) ==
  PushFrame([s EXCEPT !.top = base + p.maxstacksize],
            [ci EXCEPT !.base = base, !.top = base + p.maxstacksize])
Filled(s, func, n) ==
  [s EXCEPT !.stack = Write(@, func + 1, Adjusted(Slots(s, func + 1, s.top - func - 1), n)),
            !.top = func + 1 + n]
EnterLua(s, ci, p) ==
  IF p.is_vararg THEN LuaFrame(adjust_varargs(s, ci.func + 1, p.numparams), ci, s.top, p)
  ELSE LuaFrame(s, ci, ci.base, p)
Atleast(n, m) == IF n < m THEN m ELSE n

RECURSIVE luaD_precall(_, _, _, _)
tryfuncTM(s, func, nresults, after, tm) ==
  IF ~isfunction(tm) THEN luaD_throw(s, Str("call"))
  ELSE luaD_precall([s EXCEPT !.stack = Write(@, func, <<tm>> \o Slots(s, func, s.top - func)), !.top = @ + 1],
                    func, nresults, after)
luaD_precall(s, func, nresults, after) ==
  CASE Type(s.stack[func]) = "cfun" -> PushFrame(s, Frame(s, s.stack[func][2], func, nresults, after))
    [] Type(s.stack[func]) = "fun" ->
         LET p == ProtoAt(Closure(s, func).path) IN
         EnterLua(Filled(s, func, Atleast(s.top - func - 1, p.numparams)),
                  Frame(s, "", func, nresults, after), p)
    [] OTHER -> tryfuncTM(s, func, nresults, after, luaT_gettmbyobj(s, s.stack[func], "__call"))

(* luaT_callTM(): f and its arguments are pushed.                                        *)
luaT_callTM(s, f, args, nresults, after) ==
  luaD_precall([s EXCEPT !.stack = Write(@, s.top, <<f>> \o args), !.top = @ + Len(args) + 1],
               s.top, nresults, after)

BinTM(s, p1, p2, event) ==
  LET tm == luaT_gettmbyobj(s, p1, event) IN
  IF tm = Nil THEN luaT_gettmbyobj(s, p2, event) ELSE tm
CallBinTM(s, tm, p1, p2, after, otherwise) ==
  IF tm = Nil THEN luaD_throw(s, Str(otherwise)) ELSE luaT_callTM(s, tm, <<p1, p2>>, 1, after)
luaT_trybinTM(s, p1, p2, after, event, otherwise) ==
  CallBinTM(s, BinTM(s, p1, p2, event), p1, p2, after, otherwise)

dojump(s, i, e) ==
  LET ci == CI(s) IN
  SetPc(IF i.A > 0 THEN luaF_close(s, ci.base + i.A - 1) ELSE s, ci.pc + i.B + e)

(* The instruction before pc was a test: the jump that follows it is taken if b is A.        *)
Branch(s, b, a) ==
  IF b = (a = 1) THEN dojump(s, Code(s).code[CI(s).pc + 1], 1) ELSE SetPc(s, CI(s).pc + 1)

tostring(v) == IF Type(v) = "int" THEN ToString(v[2]) ELSE v[2]
isstring(v) == Type(v) \in {"int", "str"}

(* Of the values to concatenate as many as are strings become one; two of them, of which     *)
(* one is no string, are left to the metamethod.                                        *)
Strings(s, total) ==
  CHOOSE m \in 0..total : /\ \A i \in 1..m : isstring(s.stack[s.top - i])
                          /\ m < total => ~isstring(s.stack[s.top - m - 1])
JoinLast(s, n) ==
  [s EXCEPT !.stack[s.top - n] = Str(FoldLeft(LAMBDA x, v : x \o tostring(v), "", Slots(s, s.top - n, n))),
            !.top = @ - (n - 1)]

Concatenated(s, ci, i) == [Set(s, ci.base + i.A, s.stack[ci.base + i.B]) EXCEPT !.top = ci.top]
RECURSIVE luaV_concat(_, _)
luaV_concat(s, total) ==
  LET n == Strings(s, total) IN
  IF total = 1 THEN Concatenated(s, CI(s), Code(s).code[CI(s).pc])
  ELSE IF n < 2
  THEN luaT_trybinTM(s, s.stack[s.top - 2], s.stack[s.top - 1],
                     [After("concat") EXCEPT !.at = total], "__concat", "concatenate")
  ELSE luaV_concat(JoinLast(s, n), total - (n - 1))

(* What the caller does with the results of a call that is over, which are at the top.      *)
Resume(s, call, ci) ==
  LET v == s.stack[s.top - 1]
      popped == [s EXCEPT !.top = @ - 1]
  IN  CASE call.after.k = "call" -> IF call.nresults = MULTRET THEN s ELSE [s EXCEPT !.top = ci.top]
        [] call.after.k = "tforcall" -> [s EXCEPT !.top = ci.top]
        [] call.after.k = "result" -> Set(popped, call.after.at, v)
        [] call.after.k = "jump" ->
             Branch(popped, l_isfalse(v) = call.after.not, Code(s).code[ci.pc].A)
        [] call.after.k = "concat" ->
             luaV_concat([Set(popped, s.top - 3, v) EXCEPT !.top = @ - 1], call.after.at - 1)
        [] call.after.k = "pcall" -> [s EXCEPT !.ci[Len(s.ci)].c = "finishpcall"]
        [] call.after.k = "noresult" -> s
Returned(s, ci, results) ==
  [s EXCEPT !.ci = Front(@), !.stack = Write(@, ci.func, results), !.top = ci.func + Len(results)]
Leave(s, call) ==
  IF s.ci = <<>> THEN [s EXCEPT !.outcome = "done"] ELSE Resume(s, call, CI(s))
luaD_poscall(s, vs) ==
  Leave(Returned(s, CI(s), IF CI(s).nresults = MULTRET THEN vs ELSE Adjusted(vs, CI(s).nresults)), CI(s))

(* A table's own value, or what __index of the table, or of the value that is none, says.      *)
RawGet(s, t, key) == IF Type(t) = "table" THEN luaH_get(s, t, key) ELSE Nil
RECURSIVE luaV_gettable(_, _, _, _), luaV_settable(_, _, _, _)
GetByTM(s, t, key, val, raw, tm) ==
  IF Type(t) = "table" /\ (raw # Nil \/ tm = Nil) THEN Set(s, val, raw)
  ELSE IF tm = Nil THEN luaD_throw(s, Str("index"))
  ELSE IF isfunction(tm) THEN luaT_callTM(s, tm, <<t, key>>, 1, ResultAt(val))
  ELSE luaV_gettable(s, tm, key, val)
luaV_gettable(s, t, key, val) ==
  GetByTM(s, t, key, val, RawGet(s, t, key), luaT_gettmbyobj(s, t, "__index"))

SetByTM(s, t, key, v, raw, tm) ==
  IF Type(t) = "table" /\ (raw # Nil \/ tm = Nil)
  THEN IF key = Nil THEN luaD_throw(s, Str("index is nil")) ELSE luaH_set(s, t, key, v)
  ELSE IF tm = Nil THEN luaD_throw(s, Str("index"))
  ELSE IF isfunction(tm) THEN luaT_callTM(s, tm, <<t, key, v>>, 0, After("noresult"))
  ELSE luaV_settable(s, tm, key, v)
luaV_settable(s, t, key, v) ==
  SetByTM(s, t, key, v, RawGet(s, t, key), luaT_gettmbyobj(s, t, "__newindex"))

-----------------------------------------------------------------------------
(* The instructions.  Fetched is the state with the instruction Ins fetched.                       *)

Ins == Code(L).code[CI(L).pc + 1]
Fetched == SetPc(L, CI(L).pc + 1)
RA == CI(L).base + Ins.A
R(n) == L.stack[CI(L).base + n]
Constant_(n) == Code(L).k[n + 1]
Operand(n) == IF ISK(n) THEN Constant_(INDEXK(n)) ELSE R(n)
Upval(n) == Closure(L, CI(L).func).upvals[n + 1]

Running == L.outcome = "running" /\ L.err = <<>>
At(op) == Running /\ CI(L).c = "" /\ Ins.op = op
Becomes(s) == L' = s /\ UNCHANGED <<chunk, main>>
Get(v) == Becomes(Set(Fetched, RA, v))

OP_MOVE == At("MOVE") /\ Get(R(Ins.B))
OP_LOADK == At("LOADK") /\ Get(Constant_(Ins.B))
OP_LOADKX ==
  At("LOADKX") /\ Becomes(SetPc(Set(Fetched, RA, Constant_(Code(L).code[CI(L).pc + 2].A)), CI(L).pc + 2))
OP_LOADBOOL ==
  At("LOADBOOL") /\ Becomes(SetPc(Set(Fetched, RA, Bool(Ins.B = 1)), CI(Fetched).pc + Ins.C))
OP_LOADNIL ==
  At("LOADNIL") /\ Becomes([Fetched EXCEPT !.stack = Write(@, RA, Adjusted(<<>>, Ins.B + 1))])
OP_GETUPVAL == At("GETUPVAL") /\ Get(GetUpval(L, Upval(Ins.B)))
OP_GETTABUP ==
  At("GETTABUP") /\ Becomes(luaV_gettable(Fetched, GetUpval(L, Upval(Ins.B)), Operand(Ins.C), RA))
OP_GETTABLE == At("GETTABLE") /\ Becomes(luaV_gettable(Fetched, R(Ins.B), Operand(Ins.C), RA))
OP_SETTABUP ==
  At("SETTABUP") /\ Becomes(luaV_settable(Fetched, GetUpval(L, Upval(Ins.A)), Operand(Ins.B), Operand(Ins.C)))
OP_SETUPVAL == At("SETUPVAL") /\ Becomes(SetUpval(Fetched, Upval(Ins.B), R(Ins.A)))
OP_SETTABLE == At("SETTABLE") /\ Becomes(luaV_settable(Fetched, R(Ins.A), Operand(Ins.B), Operand(Ins.C)))
OP_NEWTABLE ==
  At("NEWTABLE") /\ Becomes(Set(luaH_new(Fetched), RA, Table(Len(L.tables) + 1)))
OP_SELF ==
  At("SELF") /\ Becomes(luaV_gettable(Set(Fetched, RA + 1, R(Ins.B)), R(Ins.B), Operand(Ins.C), RA))

Event ==
  [ADD |-> "__add", SUB |-> "__sub", MUL |-> "__mul", MOD |-> "__mod", IDIV |-> "__idiv",
   UNM |-> "__unm"]
Arithmetic_(op, rb, rc) ==
  IF {Type(rb), Type(rc)} # {"int"}
  THEN luaT_trybinTM(Fetched, rb, rc, ResultAt(RA), Event[op], "arithmetic")
  ELSE IF op \in {"MOD", "IDIV"} /\ rc = Num(0) THEN luaD_throw(Fetched, Str("divide by zero"))
  ELSE Set(Fetched, RA, Num(luaO_arith(op, rb[2], rc[2])))
OP_ARITH ==
  /\ Running
  /\ CI(L).c = ""
  /\ Ins.op \in DOMAIN Event
  /\ Becomes(Arithmetic_(Ins.op, Operand(Ins.B), Operand(IF Ins.op = "UNM" THEN Ins.B ELSE Ins.C)))
OP_NOT == At("NOT") /\ Get(Bool(l_isfalse(R(Ins.B))))
Length(rb, tm) ==
  IF tm # Nil THEN luaT_callTM(Fetched, tm, <<rb, rb>>, 1, ResultAt(RA))
  ELSE IF Type(rb) = "table" THEN Set(Fetched, RA, Num(luaH_getn(L, rb)))
  ELSE IF Type(rb) = "str" THEN Set(Fetched, RA, Num(Len(rb[2])))
  ELSE luaD_throw(Fetched, Str("length"))
OP_LEN == At("LEN") /\ Becomes(Length(R(Ins.B), luaT_gettmbyobj(L, R(Ins.B), "__len")))
OP_CONCAT ==
  At("CONCAT") /\ Becomes(luaV_concat([Fetched EXCEPT !.top = CI(L).base + Ins.C + 1], Ins.C - Ins.B + 1))

OP_JMP == At("JMP") /\ Becomes(dojump(Fetched, Ins, 0))

Jump(not) == [After("jump") EXCEPT !.not = not]
Equal(a, b, tm) ==
  IF a = b \/ {Type(a), Type(b)} # {"table"} \/ tm = Nil THEN Branch(Fetched, a = b, Ins.A)
  ELSE luaT_callTM(Fetched, tm, <<a, b>>, 1, Jump(FALSE))
Less(a, b) ==
  IF {Type(a), Type(b)} = {"int"} THEN Branch(Fetched, a[2] < b[2], Ins.A)
  ELSE luaT_trybinTM(Fetched, a, b, Jump(FALSE), "__lt", "compare")
LessEqual(a, b, tm) ==
  IF {Type(a), Type(b)} = {"int"} THEN Branch(Fetched, a[2] <= b[2], Ins.A)
  ELSE IF tm # Nil THEN luaT_callTM(Fetched, tm, <<a, b>>, 1, Jump(FALSE))
  ELSE luaT_trybinTM(Fetched, b, a, Jump(TRUE), "__lt", "compare")
OP_EQ == At("EQ") /\ Becomes(Equal(Operand(Ins.B), Operand(Ins.C), BinTM(L, Operand(Ins.B), Operand(Ins.C), "__eq")))
OP_LT == At("LT") /\ Becomes(Less(Operand(Ins.B), Operand(Ins.C)))
OP_LE == At("LE") /\ Becomes(LessEqual(Operand(Ins.B), Operand(Ins.C), BinTM(L, Operand(Ins.B), Operand(Ins.C), "__le")))
OP_TEST == At("TEST") /\ Becomes(Branch(Fetched, Ins.C = 1, IF l_isfalse(R(Ins.A)) THEN 0 ELSE 1))
OP_TESTSET ==
  LET goes == (Ins.C = 1) = ~l_isfalse(R(Ins.B)) IN
  At("TESTSET") /\ Becomes(Branch(IF goes THEN Set(Fetched, RA, R(Ins.B)) ELSE Fetched, goes, 1))

(* The arguments end where B says, or at the top that an open call or "..." has left.         *)
Args == IF Ins.B # 0 THEN [Fetched EXCEPT !.top = RA + Ins.B] ELSE Fetched
OP_CALL == At("CALL") /\ Becomes(luaD_precall(Args, RA, Ins.C - 1, After("call")))

(* The frame of the called function replaces that of the caller.                          *)
Moved(new, nci, lim) ==
  LET down == RA - CI(L).func IN
  [new EXCEPT !.stack = Write(@, CI(L).func, Slots(new, RA, lim - RA)), !.top = @ - down,
              !.ci = Append(Front(Front(@)), [CI(Fetched) EXCEPT !.base = nci.base - down,
                                                                 !.top = nci.top - down, !.pc = 0])]

(* Mutant: upvalues are left open.                                                       *)
CloseNothing(s) == s

CloseAll(s) == IF Code(L).p # <<>> THEN luaF_close(s, CI(L).base) ELSE s
Replaced(new) ==
  IF Len(new.ci) = Len(L.ci) \/ CI(new).c # "" THEN new
  ELSE Moved(CloseAll(new), CI(new), CI(new).base + ProtoAt(Closure(new, RA).path).numparams)
OP_TAILCALL == At("TAILCALL") /\ Becomes(Replaced(luaD_precall(Args, RA, MULTRET, After("call"))))
OP_RETURN ==
  At("RETURN")
  /\ Becomes(luaD_poscall(CloseAll(Fetched), Slots(L, RA, IF Ins.B # 0 THEN Ins.B - 1 ELSE L.top - RA)))

(* Loops over integers; the index is moved before it is compared.                         *)
OP_FORPREP ==
  LET init == R(Ins.A)
      limit == R(Ins.A + 1)
      step == R(Ins.A + 2)
  IN  At("FORPREP")
      /\ Becomes(IF {Type(init), Type(limit), Type(step)} # {"int"} THEN luaD_throw(Fetched, Str("for"))
                 ELSE SetPc(Set(Fetched, RA, Num(Wrap(init[2] - step[2]))), CI(Fetched).pc + Ins.B))
OP_FORLOOP ==
  LET step == R(Ins.A + 2)[2]
      idx == Wrap(R(Ins.A)[2] + step)
      limit == R(Ins.A + 1)[2]
  IN  At("FORLOOP") /\ Becomes(IF IF 0 < step THEN idx <= limit ELSE limit <= idx
                               THEN SetPc(Set(Set(Fetched, RA, Num(idx)), RA + 3, Num(idx)), CI(Fetched).pc + Ins.B)
                               ELSE Fetched)
OP_TFORCALL ==
  At("TFORCALL")
  /\ Becomes(luaD_precall([Fetched EXCEPT !.stack = Write(@, RA + 3, Slots(L, RA, 3)), !.top = RA + 6],
                          RA + 3, Ins.C, After("tforcall")))
OP_TFORLOOP ==
  At("TFORLOOP") /\ Becomes(IF R(Ins.A + 1) = Nil THEN Fetched
                            ELSE SetPc(Set(Fetched, RA, R(Ins.A + 1)), CI(Fetched).pc + Ins.B))

OP_SETLIST ==
  LET n == IF Ins.B = 0 THEN L.top - RA - 1 ELSE Ins.B
      extra == Ins.C = 0
      c == IF extra THEN Code(L).code[CI(L).pc + 2].A ELSE Ins.C
      stored == FoldLeft(LAMBDA s, j : luaH_set(s, R(Ins.A), Num((c - 1) * FieldsPerFlush + j), R(Ins.A + j)),
                         Fetched, [j \in 1..n |-> j])
  IN  At("SETLIST") /\ Becomes([SetPc(stored, CI(Fetched).pc + (IF extra THEN 1 ELSE 0)) EXCEPT !.top = CI(L).top])

Descriptors(path) == ProtoAt(path).upvalues

(* Mutant: the last closure is taken whatever its upvalues are.                           *)
TakeLast(path) == path \in DOMAIN L.cache

(* A closure whose upvalues are where those of the last one were is that one.               *)
getcached(path) ==
  /\ path \in DOMAIN L.cache
  /\ \A n \in DOMAIN Descriptors(path) :
       LET d == Descriptors(path)[n] IN
       Location(L, L.closures[L.cache[path]].upvals[n]) =
         IF d.instack THEN <<"stack", CI(L).base + d.idx>> ELSE Location(L, Upval(d.idx))
pushclosure(s, path, upvals) ==
  [Set(s, RA, Fun(Len(s.closures) + 1)) EXCEPT
     !.closures = Append(@, [path |-> path, upvals |-> upvals]),
     !.cache = (path :> Len(s.closures) + 1) @@ @]
WithUpvalues(desc) ==
  FoldLeft(LAMBDA s, d : IF d.instack THEN luaF_findupval(s, CI(L).base + d.idx) ELSE s, Fetched, desc)
UpvaluesOf(s, desc) ==
  [n \in DOMAIN desc |-> IF desc[n].instack THEN CHOOSE uv \in OpenAt(s, CI(L).base + desc[n].idx) : TRUE
                         ELSE Upval(desc[n].idx)]
NewClosure(s, path) == pushclosure(s, path, UpvaluesOf(s, Descriptors(path)))
ClosureOf(path) ==
  IF getcached(path) THEN Set(Fetched, RA, Fun(L.cache[path]))
  ELSE NewClosure(WithUpvalues(Descriptors(path)), path)
OP_CLOSURE == At("CLOSURE") /\ Becomes(ClosureOf(Append(Closure(L, CI(L).func).path, Ins.B)))

OP_VARARG ==
  LET n == CI(L).base - CI(L).func - Code(L).numparams - 1
      given == Slots(L, CI(L).base - n, n)
      all == [Fetched EXCEPT !.stack = Write(@, RA, given), !.top = RA + n]
  IN  At("VARARG")
      /\ Becomes(IF Ins.B = 0 THEN all ELSE [Fetched EXCEPT !.stack = Write(@, RA, Adjusted(given, Ins.B - 1))])

-----------------------------------------------------------------------------
(* Functions of lbaselib.c.                                                          *)

Argument(n) == IF CI(L).base + n - 1 < L.top THEN L.stack[CI(L).base + n - 1] ELSE Nil
NArgs == L.top - CI(L).base
InC(f) == Running /\ L.ci # <<>> /\ CI(L).c = f
CReturns(s, vs) == Becomes(luaD_poscall(s, vs))
Raises(what) == Becomes(luaD_throw(L, Str(what)))
Arguments(from) == Slots(L, CI(L).base + from - 1, IF NArgs < from THEN 0 ELSE NArgs - from + 1)

TypeName(v) ==
  CASE Type(v) = "int" -> "number" [] Type(v) = "str" -> "string" [] Type(v) = "bool" -> "boolean"
    [] isfunction(v) -> "function" [] OTHER -> Type(v)
Shown(v) == IF isstring(v) THEN tostring(v)
            ELSE IF Type(v) = "bool" THEN (IF v[2] THEN "true" ELSE "false") ELSE TypeName(v)

luaB_print ==
  InC("print") /\ CReturns([L EXCEPT !.out = Append(@, [n \in 1..NArgs |-> Shown(Argument(n))])], <<>>)
luaB_error == InC("error") /\ Becomes(luaD_throw(L, Argument(1)))

luaB_setmetatable ==
  LET t == Argument(1)
      mt == Argument(2)
  IN  /\ InC("setmetatable")
      /\ IF Type(t) # "table" \/ Type(mt) \notin {"nil", "table"} THEN Raises("argument")
         ELSE IF luaT_gettmbyobj(L, t, "__metatable") # Nil THEN Raises("protected")
         ELSE CReturns([L EXCEPT !.tables[t[2]].metatable = IF mt = Nil THEN 0 ELSE mt[2]], <<t>>)

luaB_rawget ==
  /\ InC("rawget")
  /\ IF Type(Argument(1)) # "table" \/ NArgs < 2 THEN Raises("argument")
     ELSE CReturns(L, <<luaH_get(L, Argument(1), Argument(2))>>)
luaB_rawset ==
  /\ InC("rawset")
  /\ IF Type(Argument(1)) # "table" \/ NArgs < 3 THEN Raises("argument")
     ELSE IF Argument(2) = Nil THEN Raises("index is nil")
     ELSE CReturns(luaH_set(L, Argument(1), Argument(2), Argument(3)), <<Argument(1)>>)

luaB_type ==
  /\ InC("type")
  /\ IF NArgs = 0 THEN Raises("argument") ELSE CReturns(L, <<Str(TypeName(Argument(1)))>>)

luaB_select ==
  LET first == Argument(1)
      i == first[2]
      at == IF i < 0 THEN NArgs + i ELSE IF i > NArgs THEN NArgs ELSE i
  IN  /\ InC("select")
      /\ IF first = Str("#") THEN CReturns(L, <<Num(NArgs - 1)>>)
         ELSE IF Type(first) # "int" THEN Raises("argument")
         ELSE IF at < 1 THEN Raises("argument")
         ELSE CReturns(L, Arguments(at + 1))

(* Without a metamethod __index the values come from the table itself.                    *)
luaB_ipairs ==
  LET t == Argument(1)
      iter == IF luaT_gettmbyobj(L, t, "__index") # Nil THEN "ipairsaux" ELSE "ipairsaux_raw"
  IN  /\ InC("ipairs")
      /\ IF Type(t) # "table" THEN Raises("argument") ELSE CReturns(L, <<CFun(iter), t, Num(0)>>)
ipairsaux_raw ==
  LET i == Num(Argument(2)[2] + 1)
      v == luaH_get(L, Argument(1), i)
  IN  InC("ipairsaux_raw") /\ CReturns(L, IF v = Nil THEN <<v>> ELSE <<i, v>>)
ipairsaux ==
  LET i == Num(Argument(2)[2] + 1)
      base == CI(L).base
  IN  /\ InC("ipairsaux")
      /\ Becomes(luaV_gettable([L EXCEPT !.stack = Write(@, base + 2, <<i>>), !.top = base + 4,
                                         !.ci[Len(L.ci)].c = "ipairsaux 2"],
                               Argument(1), i, base + 3))
ipairsaux2 ==
  InC("ipairsaux 2") /\ CReturns(L, IF Argument(4) = Nil THEN <<Nil>> ELSE <<Argument(3), Argument(4)>>)

(* The call's own frame stays below the function it protects.                             *)
luaB_pcall ==
  LET base == CI(L).base IN
  /\ InC("pcall")
  /\ IF NArgs = 0 THEN Raises("argument")
     ELSE Becomes(luaD_precall([L EXCEPT !.stack = Write(@, base, <<Bool(TRUE)>> \o Arguments(1)),
                                         !.top = @ + 1, !.ci[Len(L.ci)].protects = TRUE],
                               base + 1, MULTRET, After("pcall")))
finishpcall == InC("finishpcall") /\ CReturns(L, Arguments(1))

(* luaD_pcall(): the innermost protected call catches the error; what ran above it is gone.    *)
Caught(c, oldtop) ==
  [Set(luaF_close(L, oldtop), oldtop, L.err[1])
     EXCEPT !.ci = SubSeq(@, 1, c), !.top = oldtop + 1, !.err = <<>>]
luaD_pcall ==
  LET protected == {n \in DOMAIN L.ci : L.ci[n].protects}
      c == CHOOSE n \in protected : \A m \in protected : m <= n
  IN  /\ L.outcome = "running"
      /\ L.err # <<>>
      /\ IF protected = {} THEN Becomes([L EXCEPT !.outcome = "error"])
         ELSE CReturns(Caught(c, L.ci[c].base + 1), <<Bool(FALSE), L.err[1]>>)

-----------------------------------------------------------------------------
(* The host: the chunk is compiled, a statement at a time, and called with _ENV the table of  *)
(* globals.  Until it is loaded, main is the state of the parser, then its main function.     *)

Globals ==
  {"print", "error", "setmetatable", "select", "ipairs", "pcall", "rawget", "rawset", "type"}
Fresh ==
  [stack |-> [n \in 0..(StackSize - 1) |-> IF n = 0 THEN Fun(1) ELSE Nil], top |-> 1, ci |-> <<>>,
   err |-> <<>>, upvals |-> <<[at |-> Closed, v |-> Table(1)]>>,
   closures |-> <<[path |-> <<>>, upvals |-> <<1>>]>>, cache |-> <<>>,
   out |-> <<>>, outcome |-> "loading",
   tables |-> <<[h |-> [x \in {Str(g) : g \in Globals} |-> CFun(x[2])], metatable |-> 0]>>]

f_parser ==
  /\ L.outcome = "loading"
  /\ ~block_follow(main, TRUE)
  /\ main' = AtEnd(statement(main), Tok(main) = "return")
  /\ UNCHANGED <<chunk, L>>

Loaded(s) ==
  IF s.err # "" THEN main' = s /\ L' = [L EXCEPT !.outcome = "rejected"]
  ELSE main' = [ok |-> s.ok] @@ Proto(s.fs) /\ L' = [L EXCEPT !.outcome = "loaded"]
load ==
  /\ L.outcome = "loading"
  /\ block_follow(main, TRUE)
  /\ Loaded(closemain(AtEnd(main, TRUE)))
  /\ UNCHANGED chunk

(* What is run may be a copy of the function: luaL_loadfilex() compiles a file in another       *)
(* state; and a chunk may have been precompiled, without its debug information even.     *)
Runnable(p) == [ok |-> main.ok] @@ p
luaL_loadfilex ==
  /\ L.outcome = "loaded"
  /\ main' = Runnable(cloneproto(main))
  /\ UNCHANGED <<chunk, L>>
lua_dump ==
  /\ L.outcome = "loaded"
  /\ \E strip \in BOOLEAN :
       /\ strip => chunk \in Stripped
       /\ main' = Runnable(luaU_undump(luaU_dump(main, strip)))
  /\ UNCHANGED <<chunk, L>>

docall ==
  L.outcome = "loaded" /\ Becomes(luaD_precall([L EXCEPT !.outcome = "running"], 0, 0, After("main")))

Over == L.outcome \in {"done", "error", "rejected"}
exit == Over /\ UNCHANGED vars

Init == chunk \in DOMAIN Sources /\ main = openmain(Sources[chunk]) /\ L = Fresh

Next ==
  \/ f_parser \/ load \/ luaL_loadfilex \/ lua_dump \/ docall
  \/ OP_MOVE \/ OP_LOADK \/ OP_LOADKX \/ OP_LOADBOOL \/ OP_LOADNIL
  \/ OP_GETUPVAL \/ OP_GETTABUP \/ OP_GETTABLE \/ OP_SETTABUP \/ OP_SETUPVAL \/ OP_SETTABLE
  \/ OP_NEWTABLE \/ OP_SELF \/ OP_ARITH \/ OP_NOT \/ OP_LEN \/ OP_CONCAT
  \/ OP_JMP \/ OP_EQ \/ OP_LT \/ OP_LE \/ OP_TEST \/ OP_TESTSET
  \/ OP_CALL \/ OP_TAILCALL \/ OP_RETURN
  \/ OP_FORPREP \/ OP_FORLOOP \/ OP_TFORCALL \/ OP_TFORLOOP
  \/ OP_SETLIST \/ OP_CLOSURE \/ OP_VARARG
  \/ luaB_print \/ luaB_error \/ luaB_setmetatable \/ luaB_rawget \/ luaB_rawset \/ luaB_type
  \/ luaB_select \/ luaB_ipairs \/ ipairsaux_raw \/ ipairsaux \/ ipairsaux2
  \/ luaB_pcall \/ finishpcall \/ luaD_pcall \/ exit

(* The host does not stop before the program is over; that there is a step until then is a      *)
(* matter of deadlock.                                                                *)
Fairness == []<><<Next>>_vars \/ <>[]Over

Spec == Init /\ [][Next]_vars /\ Fairness
=============================================================================
