------------------------------- MODULE LPegVM -------------------------------
(***************************************************************************)
(* The matching machine of LPeg, 3rd/lpeg/lpvm.c, one action per group of instructions,   *)
(* running what the compiler made of a pattern; with the list of captures it keeps, and   *)
(* the part of 3rd/lpeg/lpcap.c that goes through that list.                         *)
(*                                                                          *)
(* The stack and the list grow as needed here: "too many pending calls/choices" is left     *)
(* out.  A match-time capture's function gives one value when it succeeds, the position    *)
(* where it was called; values live on the Lua stack, and captures refer to them by index. *)
(***************************************************************************)
EXTENDS LPegCode, FiniteSetsExt

CONSTANTS
  Hook(_, _),      (* the function of match-time captures, see Peg                      *)
  MaxSize,         (* UCHAR_MAX: the size of a capture that is one entry                 *)
  Patterns,        (* the trees to be matched                                       *)
  Grammars,        (* and those grammars, as sequences of rules with open calls, that     *)
  Around(_, _),    (* are accepted, in patterns made of a grammar's tree               *)
  Subjects

VARIABLES
  tree, rules, subject,
  code,            \* the program
  s, p,            \* the current position and instruction
  stack,           \* choices, and calls, which have no position
  capture,         \* the captures
  values,          \* the values of match-time captures, on the Lua stack
  result

vars == <<tree, rules, subject, code, s, p, stack, capture, values, result>>
fixed == <<tree, rules, subject, code>>

None == [to |-> -2, caps |-> <<>>]
No == [to |-> -1, caps |-> <<>>]
NULL == -1
giveup == 0

-----------------------------------------------------------------------------
(* The list of captures: an entry is open (siz 0), complete (its size + 1), or a close.    *)

Entry(kind, key, from, siz) == [kind |-> kind, key |-> key, s |-> from, siz |-> siz]

Closes(e) == e.kind = "Cclose"
Opens(e) == ~Closes(e) /\ e.siz = 0

(* How many captures that are opened in i..j are not closed there.                      *)
Depth(i, j) ==
  Cardinality({k \in i..j : Opens(capture[k])}) - Cardinality({k \in i..j : Closes(capture[k])})

(* The open entry that a close at the end of the list is for.                          *)
findopen == Max({i \in DOMAIN capture : Depth(i, Len(capture)) = 1})

(* The close of the open entry i.                                                  *)
nextcap(i) == Min({j \in i..Len(capture) : Depth(i, j) = 0})

(* The first value that the captures of a list behind a level refer to, 0 for none.      *)
finddyncap(list, level) ==
  LET dynamic == {i \in level + 1..Len(list) : list[i].kind = "Cruntime"}
  IN  IF dynamic = {} THEN 0 ELSE list[Min(dynamic)].key

(* What the captures mean, in the order in which they begin.                           *)
getcaptures ==
  LET Value(i) ==
        LET e == capture[i]
        IN  IF e.kind = "Cruntime"
            THEN [key |-> "Cmt", from |-> values[e.key], to |-> values[e.key]]
            ELSE [key |-> e.key, from |-> e.s,
                  to |-> IF Opens(e) THEN capture[nextcap(i)].s ELSE e.s + e.siz - 1]
      shown == SelectSeq([i \in DOMAIN capture |-> i],
                         LAMBDA i : ~Closes(capture[i]) /\ capture[i].kind # "Cgroup")
  IN  [i \in DOMAIN shown |-> Value(shown[i])]

-----------------------------------------------------------------------------
Init ==
  /\ \/ tree \in Patterns /\ rules = <<>>
     \/ \E bodies \in Grammars :
          /\ rules = newgrammar(bodies) /\ verifygrammar(rules)
          /\ tree \in Around(rules, Leaf("TGrammar"))
  /\ subject \in Subjects
  /\ code = compile(rules, tree)
  /\ s = 0 /\ p = 1
  /\ stack = <<[s |-> 0, p |-> giveup, caplevel |-> 0]>>
  /\ capture = <<>> /\ values = <<>> /\ result = None

I == code[p]
Running == result = None /\ p # giveup
At(ops) == Running /\ I.op \in ops

Go(q, pos) == p' = q /\ s' = pos /\ UNCHANGED <<fixed, result>>
Pop == SubSeq(stack, 1, Len(stack) - 1)
Top == stack[Len(stack)]

(* The values that are left when a list of captures is cut back to a level.              *)
removedyncap(list, level, vals) ==
  LET id == finddyncap(list, level) IN IF id = 0 THEN vals ELSE SubSeq(vals, 1, id - 1)

(* Back to the last choice of st, from a list of captures and their values.              *)
FailFrom(st, list, vals) ==
  LET choice == Max({i \in DOMAIN st : st[i].s # NULL})
      level == st[choice].caplevel
  IN  /\ Go(st[choice].p, st[choice].s)
      /\ stack' = SubSeq(st, 1, choice - 1)
      /\ capture' = SubSeq(list, 1, level)
      /\ values' = removedyncap(list, level, vals)

Fail(st) == FailFrom(st, capture, values)

Accepts == s < Len(subject) /\ (I.op \in {"IAny", "ITestAny"} \/ subject[s + 1] \in I.cs)

Read ==
  /\ At({"IAny", "IChar", "ISet"})
  /\ IF Accepts THEN Go(p + 1, s + 1) /\ UNCHANGED <<stack, capture, values>> ELSE Fail(stack)

Test ==
  /\ At({"ITestAny", "ITestChar", "ITestSet"})
  /\ Go(IF Accepts THEN p + 1 ELSE I.to, s)
  /\ UNCHANGED <<stack, capture, values>>

Behind ==
  /\ At({"IBehind"})
  /\ IF I.n > s THEN Fail(stack)
     ELSE Go(p + 1, s - I.n) /\ UNCHANGED <<stack, capture, values>>

Span ==
  /\ At({"ISpan"})
  /\ Go(p + 1, Min({j \in s..Len(subject) : j = Len(subject) \/ subject[j + 1] \notin I.cs}))
  /\ UNCHANGED <<stack, capture, values>>

Jmp == At({"IJmp"}) /\ Go(I.to, s) /\ UNCHANGED <<stack, capture, values>>

Choice ==
  /\ At({"IChoice"})
  /\ stack' = Append(stack, [s |-> s, p |-> I.to, caplevel |-> Len(capture)])
  /\ Go(p + 1, s) /\ UNCHANGED <<capture, values>>

Call ==
  /\ At({"ICall"})
  /\ stack' = Append(stack, [s |-> NULL, p |-> p + 1, caplevel |-> 0])
  /\ Go(I.to, s) /\ UNCHANGED <<capture, values>>

Ret == At({"IRet"}) /\ Go(Top.p, s) /\ stack' = Pop /\ UNCHANGED <<capture, values>>

Commit == At({"ICommit"}) /\ Go(I.to, s) /\ stack' = Pop /\ UNCHANGED <<capture, values>>

PartialCommit ==
  /\ At({"IPartialCommit"})
  /\ stack' = [stack EXCEPT ![Len(stack)] = [@ EXCEPT !.s = s, !.caplevel = Len(capture)]]
  /\ Go(I.to, s) /\ UNCHANGED <<capture, values>>

(* The values of match-time captures stay, though the captures go.                       *)
BackCommit ==
  /\ At({"IBackCommit"})
  /\ Go(I.to, Top.s) /\ stack' = Pop
  /\ capture' = SubSeq(capture, 1, Top.caplevel)
  /\ UNCHANGED values

FailTwice == At({"IFailTwice"}) /\ Fail(Pop)
IFail == At({"IFail"}) /\ Fail(stack)

OpenCapture ==
  /\ At({"IOpenCapture"})
  /\ capture' = Append(capture, Entry("Copen", I.key, s, 0))
  /\ Go(p + 1, s) /\ UNCHANGED <<stack, values>>

FullCapture ==
  /\ At({"IFullCapture"})
  /\ capture' = Append(capture, Entry("Cfull", I.key, s - I.n, I.n + 1))
  /\ Go(p + 1, s) /\ UNCHANGED <<stack, values>>

(* A capture with nothing in it becomes one entry, if it is not too large.               *)
CloseCapture ==
  LET last == capture[Len(capture)]
  IN  /\ At({"ICloseCapture"})
      /\ capture' = IF last.siz = 0 /\ s - last.s < MaxSize
                    THEN [capture EXCEPT ![Len(capture)].siz = s - last.s + 1]
                    ELSE Append(capture, Entry("Cclose", 0, s, 1))
      /\ Go(p + 1, s) /\ UNCHANGED <<stack, values>>

(* The nested captures, and their values, are used up by the call (runtimecap()); its value *)
(* is nested in a group of its own (adddyncaptures()).                               *)
CloseRunTime ==
  LET open == findopen
      to == Hook(s, Len(subject))
      outer == SubSeq(capture, 1, open - 1)
      rest == removedyncap(capture, open - 1, values)
  IN  /\ At({"ICloseRunTime"})
      /\ \/ to = -1 /\ FailFrom(stack, outer, rest)
         \/ /\ to # -1
            /\ values' = Append(rest, s)
            /\ capture' = outer \o <<Entry("Cgroup", 0, capture[open].s, 0),
                                    Entry("Cruntime", Len(rest) + 1, to, 1),
                                    Entry("Cclose", 0, to, 1)>>
            /\ Go(p + 1, to) /\ UNCHANGED stack

End ==
  /\ At({"IEnd"})
  /\ result' = [to |-> s, caps |-> getcaptures]
  /\ UNCHANGED <<fixed, s, p, stack, capture, values>>

Giveup ==
  /\ result = None /\ p = giveup
  /\ result' = No
  /\ UNCHANGED <<fixed, s, p, stack, capture, values>>

Next ==
  \/ Read \/ Test \/ Behind \/ Span \/ Jmp \/ Choice \/ Call \/ Ret \/ Commit \/ PartialCommit
  \/ BackCommit \/ FailTwice \/ IFail \/ OpenCapture \/ FullCapture \/ CloseCapture
  \/ CloseRunTime \/ End \/ Giveup

(* The machine runs on without waiting for anything.                                 *)
Spec == Init /\ [][Next]_vars /\ WF_vars(Next)

-----------------------------------------------------------------------------
(* Properties.                                                               *)

Meaning == INSTANCE Peg

(* Whatever the compiler saved, a pattern matches what a parsing expression grammar          *)
(* matches, to the same position, with the same captures.                             *)
MatchesAsSpecified == Meaning!Spec

(* An accepted pattern never loops: no rule is left recursive, no loop can go round without   *)
(* consuming anything.                                                          *)
Terminates == <>(result # None)

(* The analysis errs on the safe side, whatever it is asked: what "never fails" does not,      *)
(* what matches without consuming is nullable, a fixed length is that length, no match        *)
(* begins with a character outside the first set, or fails at the head with one inside.      *)
AnalysisConservative ==
  (p = 1 /\ s = 0 /\ Len(stack) = 1) =>
    \A i \in 0..Len(subject) :
      LET r == Meaning!Parse(tree, i)
          first == getfirst(rules, tree, Chars)
          possible == i < Len(subject) /\ subject[i + 1] \in first.cs
          len == fixedlen(rules, tree)
      IN  /\ nofail(rules, tree) => r # No
          /\ r.to = i => nullable(rules, tree)
          /\ (len >= 0 /\ r # No) => r.to = i + len
          /\ (i < Len(subject) \/ first.e = {}) /\ ~possible => r = No
          /\ headfail(rules, tree) /\ possible => r # No
=============================================================================
