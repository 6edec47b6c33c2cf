-------------------------------- MODULE Peg --------------------------------
(***************************************************************************)
(* What a pattern means, lpeg.html: a parsing expression grammar with ordered choice,   *)
(* greedy repetition without backtracking, predicates that consume nothing and give no  *)
(* captures, and match-time captures, whose function decides whether the match goes on, *)
(* and where.  A pattern matches a subject in one step, without a machine.            *)
(***************************************************************************)
EXTENDS Integers, Sequences

CONSTANTS
  Chars,       (* the characters                                                 *)
  Hook(_, _)   (* the function of match-time captures: for a position in a subject of  *)
               (* some length, the position to go on from, or -1 to fail           *)

VARIABLES tree, rules, subject, result

vars == <<tree, rules, subject, result>>

None == [to |-> -2, caps |-> <<>>]
No == [to |-> -1, caps |-> <<>>]
Empty(i) == [to |-> i, caps |-> <<>>]

Capture(key, from, to) == [key |-> key, from |-> from, to |-> to]

Alphabet(t) ==
  CASE t.tag = "TChar" -> {t.n} [] t.tag = "TSet" -> t.cs [] t.tag = "TAny" -> Chars

RECURSIVE Parse(_, _)
(* The match of pattern t from position i of the subject: where it ends, No if it fails, *)
(* and its captures in the order in which they begin.                              *)
Parse(t, i) ==
  LET body == Parse(t.sib1, i)
      Then(a, b) == IF b = No THEN No ELSE [to |-> b.to, caps |-> a.caps \o b.caps]
  IN  CASE t.tag \in {"TChar", "TSet", "TAny"} ->
             IF i < Len(subject) /\ subject[i + 1] \in Alphabet(t) THEN Empty(i + 1) ELSE No
        [] t.tag = "TTrue" -> Empty(i)
        [] t.tag = "TFalse" -> No
        [] t.tag = "TSeq" -> IF body = No THEN No ELSE Then(body, Parse(t.sib2, body.to))
        [] t.tag = "TChoice" -> IF body = No THEN Parse(t.sib2, i) ELSE body
        [] t.tag = "TRep" -> IF body = No THEN Empty(i) ELSE Then(body, Parse(t, body.to))
        [] t.tag = "TNot" -> IF body = No THEN Empty(i) ELSE No
        [] t.tag = "TAnd" -> IF body = No THEN No ELSE Empty(i)
        [] t.tag = "TBehind" ->
             IF i >= t.n /\ Parse(t.sib1, i - t.n) # No THEN Empty(i) ELSE No
        [] t.tag = "TCapture" ->
             IF body = No THEN No
             ELSE [body EXCEPT !.caps = <<Capture(t.key, i, body.to)>> \o @]
        [] t.tag = "TRunTime" ->
             IF body = No \/ Hook(body.to, Len(subject)) = -1 THEN No
             ELSE [to |-> Hook(body.to, Len(subject)),
                   caps |-> <<Capture(t.key, body.to, body.to)>>]
        [] t.tag = "TCall" -> Parse(rules[t.rule], i)
        [] t.tag = "TGrammar" -> Parse(rules[1], i)

Init == result = None

Match ==
  /\ result = None /\ result' = Parse(tree, 0)
  /\ UNCHANGED <<tree, rules, subject>>

Spec == Init /\ [][Match]_vars
=============================================================================
