------------------------------ MODULE LPegCode ------------------------------
(***************************************************************************)
(* LPeg's code generator, the rest of 3rd/lpeg/lpcode.c: from a pattern's tree to a        *)
(* program of the matching machine, with first sets that save choices, tests that save    *)
(* comparisons, choices that are used again, tail calls, and jumps that are cut short.    *)
(*                                                                          *)
(* A program is a sequence of instructions.  The space they take, and the growing of the  *)
(* program, are left out: labels are positions of instructions.                       *)
(***************************************************************************)
EXTENDS LPegTree

CONSTANTS MaxOff    (* MAXOFF                                                     *)

NOINST == 0

Instruction(op) == [op |-> op, cs |-> {}, n |-> 0, key |-> 0, to |-> NOINST]

(* Every one takes the program so far and returns the longer one.                      *)
addinstruction(c, op) == Append(c, Instruction(op))
addcount(c, op, n) == Append(c, [Instruction(op) EXCEPT !.n = n])
addcharset(c, op, cs) == Append(c, [Instruction(op) EXCEPT !.cs = cs])
addinstcap(c, op, key, n) == Append(c, [Instruction(op) EXCEPT !.key = key, !.n = n])

gethere(c) == Len(c) + 1
jumptothere(c, i, to) == IF i = NOINST THEN c ELSE [c EXCEPT ![i].to = to]
jumptohere(c, i) == jumptothere(c, i, gethere(c))

charsettype(cs) ==
  CASE cs = {} -> "IFail" [] cs = Chars -> "IAny" [] Cardinality(cs) = 1 -> "IChar"
    [] OTHER -> "ISet"

TestOf(op) ==
  CASE op = "IFail" -> "IJmp" [] op = "IAny" -> "ITestAny" [] op = "IChar" -> "ITestChar"
    [] op = "ISet" -> "ITestSet"

(* codechar() and codecharset(): after a test for the same characters, any will do.       *)
codecharset(c, cs, tt) ==
  LET op == charsettype(cs)
      tested == tt # NOINST /\ op \in {"IChar", "ISet"} /\ c[tt].op = TestOf(op) /\ c[tt].cs = cs
  IN  IF tested THEN addinstruction(c, "IAny") ELSE addcharset(c, op, cs)

(* Nothing, if the test would have to accept the empty subject.                         *)
codetestset(c, cs, e) == IF e = {} THEN addcharset(c, TestOf(charsettype(cs)), cs) ELSE c
TestAt(c, e) == IF e = {} THEN gethere(c) ELSE NOINST

-----------------------------------------------------------------------------
RECURSIVE codegen(_, _, _, _, _, _)

codebehind(g, c, t) ==
  codegen(g, IF t.n > 0 THEN addcount(c, "IBehind", t.n) ELSE c, t.sib1, FALSE, NOINST, Chars)

(* The choice is needed only if p1 may fail after its first character, and what begins     *)
(* with that character may match p2.                                              *)
Decided(g, p1, p2, first, fl) ==
  \/ headfail(g, p1)
  \/ first.e = {} /\ first.cs \cap getfirst(g, p2, fl).cs = {}

codechoice(g, c, p1, p2, opt, fl) ==
  LET emptyp2 == p2.tag = "TTrue"
      first == getfirst(g, p1, Chars)
      (* test (fail(p1)) -> L1; p1; jmp L2; L1: p2; L2:                              *)
      decided ==
        LET test == gethere(c)
            c1 == codegen(g, codetestset(c, first.cs, {}), p1, FALSE, test, fl)
            jmp == IF emptyp2 THEN NOINST ELSE gethere(c1)
            c2 == IF emptyp2 THEN c1 ELSE addinstruction(c1, "IJmp")
        IN  jumptohere(codegen(g, jumptohere(c2, test), p2, opt, NOINST, fl), jmp)
      (* partialcommit; p1                                                       *)
      reused ==
        codegen(g, jumptohere(addinstruction(c, "IPartialCommit"), gethere(c)),
                p1, TRUE, NOINST, Chars)
      (* test (fail(p1)) -> L1; choice L1; p1; commit L2; L1: p2; L2:                *)
      full ==
        LET test == TestAt(c, first.e)
            c1 == codetestset(c, first.cs, first.e)
            pchoice == gethere(c1)
            c2 == codegen(g, addinstruction(c1, "IChoice"), p1, emptyp2, test, Chars)
            pcommit == gethere(c2)
            c3 == jumptohere(jumptohere(addinstruction(c2, "ICommit"), pchoice), test)
        IN  jumptohere(codegen(g, c3, p2, opt, NOINST, fl), pcommit)
  IN  IF Decided(g, p1, p2, first, fl) THEN decided
      ELSE IF opt /\ emptyp2 THEN reused ELSE full

(* p; behind n, or choice L1; p; backcommit L2; L1: fail; L2:                          *)
codeand(g, c, t, tt) ==
  LET n == fixedlen(g, t)
      walked == codegen(g, c, t, FALSE, tt, Chars)
      pchoice == gethere(c)
      c1 == codegen(g, addinstruction(c, "IChoice"), t, FALSE, tt, Chars)
      pcommit == gethere(c1)
      c2 == jumptohere(addinstruction(c1, "IBackCommit"), pchoice)
  IN  IF n \in 0..MaxBehind /\ ~hascaptures(g, t)
      THEN IF n > 0 THEN addcount(walked, "IBehind", n) ELSE walked
      ELSE jumptohere(addinstruction(c2, "IFail"), pcommit)

(* One instruction behind a body of known length, or two around it.                     *)
codecapture(g, c, t, tt, fl) ==
  LET n == fixedlen(g, t.sib1)
      opened == addinstcap(c, "IOpenCapture", t.key, 0)
  IN  IF n \in 0..MaxOff /\ ~hascaptures(g, t.sib1)
      THEN addinstcap(codegen(g, c, t.sib1, FALSE, tt, fl), "IFullCapture", t.key, n)
      ELSE addinstruction(codegen(g, opened, t.sib1, FALSE, tt, fl), "ICloseCapture")

coderuntime(g, c, t, tt) ==
  addinstruction(codegen(g, addinstcap(c, "IOpenCapture", t.key, 0), t.sib1, FALSE, tt, Chars),
                 "ICloseRunTime")

coderep(g, c, t, opt, fl) ==
  LET first == getfirst(g, t, Chars)
      (* L1: test (fail(p)) -> L2; p; jmp L1; L2:                                  *)
      decided ==
        LET test == gethere(c)
            c1 == codegen(g, codetestset(c, first.cs, {}), t, opt, test, Chars)
            jmp == gethere(c1)
        IN  jumptothere(jumptohere(addinstruction(c1, "IJmp"), test), jmp, test)
      (* test (fail(p)) -> L2; choice L2; L1: p; partialcommit L1; L2:                *)
      (* or, within a choice that is used again, partialcommit L1; L1: p; partialcommit L1  *)
      full ==
        LET test == TestAt(c, first.e)
            c1 == codetestset(c, first.cs, first.e)
            pchoice == IF opt THEN NOINST ELSE gethere(c1)
            c2 == IF opt THEN jumptohere(addinstruction(c1, "IPartialCommit"), gethere(c1))
                  ELSE addinstruction(c1, "IChoice")
            l2 == gethere(c2)
            c3 == codegen(g, c2, t, FALSE, NOINST, Chars)
            c4 == jumptothere(addinstruction(c3, "IPartialCommit"), gethere(c3), l2)
        IN  jumptohere(jumptohere(c4, pchoice), test)
  IN  IF IsChar(t) THEN addcharset(c, "ISpan", tocharset(t))
      ELSE IF headfail(g, t) \/ (first.e = {} /\ first.cs \cap fl = {}) THEN decided
      ELSE full

(* test (fail(p)) -> L1; fail; L1: or test (fail(p)) -> L1; choice L1; p; failtwice; L1:    *)
codenot(g, c, t) ==
  LET first == getfirst(g, t, Chars)
      c1 == codetestset(c, first.cs, first.e)
      c2 == codegen(g, addinstruction(c1, "IChoice"), t, FALSE, NOINST, Chars)
      c3 == jumptohere(addinstruction(c2, "IFailTwice"), gethere(c1))
  IN  jumptohere(IF headfail(g, t) THEN addinstruction(c1, "IFail") ELSE c3, TestAt(c, first.e))

RECURSIVE finaltarget(_, _)
finaltarget(c, i) == IF c[i].op = "IJmp" THEN finaltarget(c, c[i].to) ELSE i
finallabel(c, i) == finaltarget(c, c[i].to)

(* Open calls from there on get their rule's position; before a return, they are jumps.    *)
correctcalls(c, positions, from) ==
  LET Correct(d, i) ==
        IF i < from \/ d[i].op # "IOpenCall" THEN d
        ELSE LET tail == d[finaltarget(d, i + 1)].op = "IRet"
             IN  [d EXCEPT ![i].op = IF tail THEN "IJmp" ELSE "ICall", ![i].to = positions[d[i].n]]
  IN  FoldLeft(Correct, c, [i \in DOMAIN c |-> i])

(* call L1; jmp L2; L1: rule 1; ret; rule 2; ret; ...; L2:                              *)
codegrammar(g, c) ==
  LET c1 == addinstruction(addinstruction(c, "ICall"), "IJmp")
      start == gethere(c1)
      Rule(done, body) ==
        [code |-> addinstruction(codegen(g, done.code, body, FALSE, NOINST, Chars), "IRet"),
         positions |-> Append(done.positions, gethere(done.code))]
      done == FoldLeft(Rule, [code |-> jumptohere(c1, start - 2), positions |-> <<>>], g)
  IN  correctcalls(jumptohere(done.code, start - 1), done.positions, start)

(* Mutant: a test is trusted even behind a pattern that has consumed something.             *)
KeepsTest(g, p1, tt) == tt
TestBehind(g, p1, tt) == IF fixedlen(g, p1) # 0 THEN NOINST ELSE tt

codeseq1(g, c, p1, p2, tt, fl) ==
  codegen(g, c, p1, FALSE, tt, IF needfollow(p1) THEN getfirst(g, p2, fl).cs ELSE Chars)

(* opt: the code runs under a choice that leads to its end; tt: the test before it; fl:      *)
(* the first set of what follows.                                                 *)
codegen(g, c, t, opt, tt, fl) ==
  CASE IsChar(t) -> codecharset(c, tocharset(t), tt)
    [] t.tag = "TTrue" -> c
    [] t.tag = "TFalse" -> addinstruction(c, "IFail")
    [] t.tag = "TChoice" -> codechoice(g, c, t.sib1, t.sib2, opt, fl)
    [] t.tag = "TRep" -> coderep(g, c, t.sib1, opt, fl)
    [] t.tag = "TBehind" -> codebehind(g, c, t)
    [] t.tag = "TNot" -> codenot(g, c, t.sib1)
    [] t.tag = "TAnd" -> codeand(g, c, t.sib1, tt)
    [] t.tag = "TCapture" -> codecapture(g, c, t, tt, fl)
    [] t.tag = "TRunTime" -> coderuntime(g, c, t, tt)
    [] t.tag = "TGrammar" -> codegrammar(g, c)
    [] t.tag = "TCall" -> addcount(c, "IOpenCall", t.rule)
    [] t.tag = "TSeq" ->
         codegen(g, codeseq1(g, c, t.sib1, t.sib2, tt, fl), t.sib2, opt,
                 TestBehind(g, t.sib1, tt), fl)

-----------------------------------------------------------------------------
(* A jump to what leads elsewhere goes there, or becomes what it leads to.                *)
peephole(c) ==
  LET Relabelled(d, i, j) == [d EXCEPT ![i] = [d[j] EXCEPT !.to = finallabel(d, j)]]
      Optimize(d, i) ==
        LET ft == finaltarget(d, i)
        IN  CASE d[i].op \in {"IChoice", "ICall", "ICommit", "IPartialCommit", "IBackCommit",
                              "ITestChar", "ITestSet", "ITestAny"} -> Relabelled(d, i, i)
              [] d[i].op = "IJmp" ->
                   CASE d[ft].op \in {"IRet", "IFail", "IFailTwice", "IEnd"} ->
                          [d EXCEPT ![i] = d[ft]]
                     [] d[ft].op \in {"ICommit", "IPartialCommit", "IBackCommit"} ->
                          Relabelled(d, i, ft)
                     [] OTHER -> [d EXCEPT ![i].to = ft]
              [] OTHER -> d
  IN  FoldLeft(Optimize, c, [i \in DOMAIN c |-> i])

compile(g, t) ==
  peephole(addinstruction(codegen(g, <<>>, finalfix(t), FALSE, NOINST, Chars), "IEnd"))
=============================================================================
