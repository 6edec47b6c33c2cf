-------------------------------- MODULE MCLua --------------------------------
(***************************************************************************)
(* Small Lua programs, compiled by luaY_parser() and run by luaV_execute(), against what  *)
(* they mean.                                                                 *)
(***************************************************************************)
EXTENDS LuaVM

P == INSTANCE LuaPrograms
Lang == INSTANCE LuaMeaning

(* The syntax trees, the tokens they are written as, and what they mean.                   *)
Tokens == LET programs == P!All IN [n \in DOMAIN programs |-> P!TokensOf(programs[n])]
Meanings == LET programs == P!All IN [n \in DOMAIN programs |-> Lang!Meaning(programs[n])]

Fifths == {n \in DOMAIN Tokens : n % 5 = 0}

-----------------------------------------------------------------------------
(* What is checked.                                                                  *)

(* The assertions about registers, and those that tie one part of an expression or function   *)
(* to another, hold while a chunk is compiled: registers are freed in the order opposite to     *)
(* that in which they were taken (freereg()); blocks, calls, for loops, returns and statements   *)
(* find or leave in use the registers they should (enterblock(), funcargs(), exp1(), retstat(),   *)
(* statement()); the operands of `and', `or', `..' and an index come as they were left            *)
(* (luaK_posfix(), luaK_indexed()); a function ends with no block open, and main with no           *)
(* variable, goto or label pending (close_func(), luaY_parser()).  Not followed are those that       *)
(* look at an instruction just made or about to be patched (luaK_patchlist(), fixjump(),          *)
(* luaK_patchclose(), luaK_codeABC() and the like, discharge2reg(), invertjump(),                  *)
(* luaK_setlist()), and those of getlocvar(), singlevar(), closegoto(), leaveblock() and              *)
(* constructor().                                                                   *)
AssertsHold == main.ok

(* A running program prints what its syntax tree means and ends as that ends: names resolved   *)
(* in one pass, jumps patched through the code, the order of registers, upvalues shared and     *)
(* closed, cached closures, metamethods, and the calls and errors that cross them, all taken    *)
(* together (luaY_parser(), luaV_execute()).                                               *)
Language ==
  INSTANCE LuaRun WITH Means <- Meanings, program <- chunk, out <- L.out,
    outcome <- IF L.outcome \in {"loading", "loaded"} THEN "running" ELSE L.outcome
RunsAsWritten == Language!Spec

(* An open upvalue is in the registers of a function that has not returned: none is left        *)
(* pointing into a part of the stack that others use by now, whichever way the function was      *)
(* left, by a return, a tail call or an error (luaF_close()).                                 *)
Executing == L.outcome = "running" /\ L.err = <<>>
OpenUpvaluesLive ==
  Executing =>
    \A uv \in DOMAIN L.upvals :
      \/ L.upvals[uv].at = Closed
      \/ \E n \in DOMAIN L.ci : /\ L.ci[n].c = ""
                              /\ L.upvals[uv].at \in L.ci[n].base..(L.ci[n].top - 1)

(* A metamethod that an instruction calls is pushed above all registers of the function that     *)
(* executes it: L->top is right again after each call whose results were counted from it          *)
(* (luaD_poscall(), luaT_callTM()).                                                       *)
MetamethodsAboveRegisters ==
  \A n \in 1..(Len(L.ci) - 1) :
    L.ci[n].c = "" /\ L.ci[n + 1].after.k \in {"result", "jump", "noresult"} =>
      L.ci[n + 1].func >= L.ci[n].top

(* What the compiler counts on of the stack: whoever uses a register of a frame finds the value     *)
(* its function, or a closure over it, has put there (luaF_close(), luaD_poscall(), luaT_callTM()).  *)
StackKept == OpenUpvaluesLive /\ MetamethodsAboveRegisters
=============================================================================
