------------------------------ MODULE LPegTree ------------------------------
(***************************************************************************)
(* The trees of LPeg's patterns: what the compiler finds out about them (the first part *)
(* of 3rd/lpeg/lpcode.c), and how they are made from smaller ones and checked           *)
(* (3rd/lpeg/lptree.c).                                                       *)
(*                                                                          *)
(* A tree is a record with its tag, its siblings sib1 and sib2, and the field its tag   *)
(* needs: a character n, a set cs, a key, the number n of characters to go back, a rule.*)
(* The rules of the grammar around it are a sequence g.  A grammar inside another is    *)
(* left out, and so are the tables of Lua values that keys refer to.                *)
(***************************************************************************)
EXTENDS Integers, Sequences, SequencesExt, FiniteSets

CONSTANTS
  Chars,       (* the characters                                                 *)
  MaxRules,    (* MAXRULES                                                       *)
  MaxBehind    (* MAXBEHIND                                                      *)

ASSUME TreeAssumption == MaxRules \in Nat \ {0} /\ MaxBehind \in Nat /\ Chars # {}

Leaf(tag) == [tag |-> tag]
Unary(tag, t) == [tag |-> tag, sib1 |-> t]
Binary(tag, t1, t2) == [tag |-> tag, sib1 |-> t1, sib2 |-> t2]
Charset(cs) == [tag |-> "TSet", cs |-> cs]

numsiblings(t) ==
  IF t.tag \in {"TSeq", "TChoice"} THEN 2
  ELSE IF t.tag \in {"TRep", "TNot", "TAnd", "TBehind", "TCapture", "TRunTime"} THEN 1 ELSE 0

-----------------------------------------------------------------------------
(* Analysis.                                                                 *)

IsChar(t) == t.tag \in {"TChar", "TSet", "TAny"}
tocharset(t) ==
  CASE t.tag = "TSet" -> t.cs [] t.tag = "TChar" -> {t.n} [] t.tag = "TAny" -> Chars

RECURSIVE hascaptures(_, _)
(* A call is followed into its rule, and on into the rules behind it.                *)
hascaptures(g, t) ==
  CASE t.tag \in {"TCapture", "TRunTime"} -> TRUE
    [] t.tag = "TCall" -> \E i \in t.rule..Len(g) : hascaptures(g, g[i])
    [] t.tag = "TGrammar" -> \E i \in 1..Len(g) : hascaptures(g, g[i])
    [] OTHER -> \/ numsiblings(t) > 0 /\ hascaptures(g, t.sib1)
                \/ numsiblings(t) > 1 /\ hascaptures(g, t.sib2)

RECURSIVE checkaux(_, _, _)
(* Whether a pattern can match without consuming anything, or can never fail.           *)
checkaux(g, t, pred) ==
  CASE IsChar(t) \/ t.tag \in {"TFalse", "TOpenCall"} -> FALSE
    [] t.tag \in {"TRep", "TTrue"} -> TRUE
    [] t.tag \in {"TNot", "TBehind"} -> pred = "nullable"
    [] t.tag = "TAnd" -> pred = "nullable" \/ checkaux(g, t.sib1, pred)
    [] t.tag = "TRunTime" -> pred = "nullable" /\ checkaux(g, t.sib1, pred)
    [] t.tag = "TSeq" -> checkaux(g, t.sib1, pred) /\ checkaux(g, t.sib2, pred)
    [] t.tag = "TChoice" -> checkaux(g, t.sib2, pred) \/ checkaux(g, t.sib1, pred)
    [] t.tag = "TCapture" -> checkaux(g, t.sib1, pred)
    [] t.tag = "TGrammar" -> checkaux(g, g[1], pred)
    [] t.tag = "TCall" -> checkaux(g, g[t.rule], pred)

(* Mutant: a pattern that can match the empty string is taken for one that cannot fail. *)
SaysNullable(g, t) == checkaux(g, t, "nullable")

nofail(g, t) == checkaux(g, t, "nofail")
nullable(g, t) == checkaux(g, t, "nullable")

RECURSIVE fixedlenx(_, _, _, _)
(* len and the number of characters that t matches, -1 if that varies.                *)
fixedlenx(g, t, count, len) ==
  CASE IsChar(t) -> len + 1
    [] t.tag \in {"TFalse", "TTrue", "TNot", "TAnd", "TBehind"} -> len
    [] t.tag \in {"TRep", "TRunTime", "TOpenCall"} -> -1
    [] t.tag = "TCapture" -> fixedlenx(g, t.sib1, count, len)
    [] t.tag = "TGrammar" -> fixedlenx(g, g[1], count, len)
    [] t.tag = "TCall" ->
         IF count >= MaxRules THEN -1 ELSE fixedlenx(g, g[t.rule], count + 1, len)
    [] t.tag = "TSeq" ->
         LET n == fixedlenx(g, t.sib1, count, len)
         IN  IF n < 0 THEN -1 ELSE fixedlenx(g, t.sib2, count, n)
    [] t.tag = "TChoice" ->
         LET n == fixedlenx(g, t.sib1, count, len)
         IN  IF n >= 0 /\ n = fixedlenx(g, t.sib2, count, len) THEN n ELSE -1

fixedlen(g, t) == fixedlenx(g, t, 0, 0)

Accepting == 1   \* the pattern matches the empty subject
MatchTime == 2   \* there is a match-time capture that must not be bypassed

RECURSIVE getfirst(_, _, _)
(* The characters a match can begin with, before those of follow, and what forbids to     *)
(* skip the pattern by testing for them.                                          *)
getfirst(g, t, follow) ==
  LET First(cs, e) == [cs |-> cs, e |-> e]
      body == getfirst(g, t.sib1, follow)
      second == getfirst(g, t.sib2, follow)
  IN  CASE IsChar(t) -> First(tocharset(t), {})
        [] t.tag = "TTrue" -> First(follow, {Accepting})
        [] t.tag = "TFalse" -> First({}, {})
        [] t.tag = "TChoice" -> First(body.cs \cup second.cs, body.e \cup second.e)
        [] t.tag = "TSeq" ->
             IF ~nullable(g, t.sib1) THEN getfirst(g, t.sib1, Chars)
             ELSE LET a == getfirst(g, t.sib1, second.cs)
                  IN  First(a.cs, IF a.e = {} THEN {}
                                  ELSE IF MatchTime \in a.e \cup second.e THEN {MatchTime}
                                  ELSE second.e)
        [] t.tag = "TRep" -> First(body.cs \cup follow, {Accepting})
        [] t.tag = "TCapture" -> body
        [] t.tag = "TGrammar" -> getfirst(g, g[1], follow)
        [] t.tag = "TCall" -> getfirst(g, g[t.rule], follow)
        [] t.tag = "TRunTime" ->
             LET a == getfirst(g, t.sib1, Chars)
             IN  First(a.cs, IF a.e = {} THEN {} ELSE {MatchTime})
        [] t.tag = "TAnd" -> First(body.cs \cap follow, body.e)
        [] t.tag = "TNot" /\ IsChar(t.sib1) ->
             First(Chars \ tocharset(t.sib1), {Accepting})
        [] OTHER -> First(follow, body.e \cup {Accepting})   \* TNot, TBehind

RECURSIVE headfail(_, _)
(* Whether a pattern can fail only because of the next character.                    *)
headfail(g, t) ==
  CASE IsChar(t) \/ t.tag = "TFalse" -> TRUE
    [] t.tag \in {"TTrue", "TRep", "TRunTime", "TNot", "TBehind"} -> FALSE
    [] t.tag \in {"TCapture", "TAnd"} -> headfail(g, t.sib1)
    [] t.tag = "TGrammar" -> headfail(g, g[1])
    [] t.tag = "TCall" -> headfail(g, g[t.rule])
    [] t.tag = "TSeq" -> nofail(g, t.sib2) /\ headfail(g, t.sib1)
    [] t.tag = "TChoice" -> headfail(g, t.sib1) /\ headfail(g, t.sib2)

RECURSIVE needfollow(_)
needfollow(t) ==
  CASE t.tag \in {"TChoice", "TRep"} -> TRUE
    [] t.tag = "TCapture" -> needfollow(t.sib1)
    [] t.tag = "TSeq" -> needfollow(t.sib2)
    [] OTHER -> FALSE

-----------------------------------------------------------------------------
(* Construction.                                                             *)

(* A sequence of leaves, leaning to the right.                                    *)
fillseq(leaves) == FoldRight(LAMBDA a, b : Binary("TSeq", a, b), Front(leaves), Last(leaves))

lp_P(string) == fillseq([i \in DOMAIN string |-> [tag |-> "TChar", n |-> string[i]]])

numtree(n) ==
  LET anys(k) == fillseq([i \in 1..k |-> Leaf("TAny")])
  IN  IF n = 0 THEN Leaf("TTrue") ELSE IF n > 0 THEN anys(n) ELSE Unary("TNot", anys(-n))

lp_set(cs) == Charset(cs)

lp_seq(t1, t2) ==
  IF t1.tag = "TFalse" \/ t2.tag = "TTrue" THEN t1
  ELSE IF t1.tag = "TTrue" THEN t2
  ELSE Binary("TSeq", t1, t2)

lp_choice(g, t1, t2) ==
  IF IsChar(t1) /\ IsChar(t2) THEN Charset(tocharset(t1) \cup tocharset(t2))
  ELSE IF nofail(g, t1) \/ t2.tag = "TFalse" THEN t1
  ELSE IF t1.tag = "TFalse" THEN t2
  ELSE Binary("TChoice", t1, t2)

lp_sub(t1, t2) ==
  IF IsChar(t1) /\ IsChar(t2) THEN Charset(tocharset(t1) \ tocharset(t2))
  ELSE Binary("TSeq", Unary("TNot", t2), t1)

(* Whether p^n is accepted.                                                       *)
Repeatable(g, t, n) == n >= 0 => ~nullable(g, t)

RECURSIVE lp_star(_, _)
lp_star(t, n) ==
  IF n > 0 THEN Binary("TSeq", t, lp_star(t, n - 1))
  ELSE IF n = 0 THEN Unary("TRep", t)
  ELSE IF n = -1 THEN Binary("TChoice", t, Leaf("TTrue"))
  ELSE Binary("TChoice", Binary("TSeq", t, lp_star(t, n + 1)), Leaf("TTrue"))

lp_and(t) == Unary("TAnd", t)
lp_not(t) == Unary("TNot", t)

(* Whether lpeg.B(p) is accepted.                                                 *)
Fixed(t) == fixedlen(<<>>, t) \in 1..MaxBehind /\ ~hascaptures(<<>>, t)
lp_behind(t) == [tag |-> "TBehind", n |-> fixedlen(<<>>, t), sib1 |-> t]

capture_aux(key, t) == [tag |-> "TCapture", key |-> key, sib1 |-> t]
newemptycap(key) == capture_aux(key, Leaf("TTrue"))
lp_matchtime(key, t) == [tag |-> "TRunTime", key |-> key, sib1 |-> t]
lp_V(rule) == [tag |-> "TOpenCall", rule |-> rule]

-----------------------------------------------------------------------------
(* Grammars.                                                                 *)

RECURSIVE correctassociativity(_)
correctassociativity(t) ==
  IF t.sib1.tag # t.tag THEN t
  ELSE correctassociativity(Binary(t.tag, t.sib1.sib1, Binary(t.tag, t.sib1.sib2, t.sib2)))

RECURSIVE finalfix(_)
finalfix(t) ==
  CASE t.tag = "TOpenCall" -> [tag |-> "TCall", rule |-> t.rule]
    [] numsiblings(t) = 2 ->
         LET c == correctassociativity(t) IN Binary(c.tag, finalfix(c.sib1), finalfix(c.sib2))
    [] numsiblings(t) = 1 -> [t EXCEPT !.sib1 = finalfix(@)]
    [] OTHER -> t

RECURSIVE checkloops(_, _)

(* Mutant: loops are not looked for.                                              *)
NoLoops(g, t) == FALSE

checkloops(g, t) ==
  \/ t.tag = "TRep" /\ nullable(g, t.sib1)
  \/ numsiblings(t) > 0 /\ checkloops(g, t.sib1)
  \/ numsiblings(t) > 1 /\ checkloops(g, t.sib2)

LeftRecursive == -1
RECURSIVE verifyrule(_, _, _, _)
(* Whether t can be passed without consuming anything, 0 or 1, nb if what is around it     *)
(* can; a way through too many rules must have come through one of them twice.         *)
verifyrule(g, t, npassed, nb) ==
  CASE IsChar(t) \/ t.tag = "TFalse" -> nb
    [] t.tag \in {"TTrue", "TBehind"} -> 1
    [] t.tag \in {"TNot", "TAnd", "TRep"} -> verifyrule(g, t.sib1, npassed, 1)
    [] t.tag \in {"TCapture", "TRunTime"} -> verifyrule(g, t.sib1, npassed, nb)
    [] t.tag = "TCall" ->
         IF npassed >= MaxRules THEN LeftRecursive
         ELSE verifyrule(g, g[t.rule], npassed + 1, nb)
    [] t.tag = "TSeq" ->
         LET first == verifyrule(g, t.sib1, npassed, 0)
         IN  IF first = LeftRecursive THEN LeftRecursive
             ELSE IF first = 0 THEN nb ELSE verifyrule(g, t.sib2, npassed, nb)
    [] t.tag = "TChoice" ->
         LET first == verifyrule(g, t.sib1, npassed, nb)
         IN  IF first = LeftRecursive THEN LeftRecursive
             ELSE verifyrule(g, t.sib2, npassed, first)

RECURSIVE Calls(_)
Calls(t) ==
  IF t.tag = "TCall" THEN {t.rule}
  ELSE (IF numsiblings(t) > 0 THEN Calls(t.sib1) ELSE {})
       \cup (IF numsiblings(t) > 1 THEN Calls(t.sib2) ELSE {})

(* Rules that nothing refers to are not looked at, but for the initial one.            *)
verifygrammar(g) ==
  LET used == {1} \cup UNION {Calls(g[i]) : i \in DOMAIN g}
  IN  /\ \A i \in used : verifyrule(g, g[i], 0, 0) # LeftRecursive
      /\ \A i \in used : ~checkloops(g, g[i])

(* The rules of a grammar, the initial one first, with their calls resolved.           *)
newgrammar(bodies) == [i \in DOMAIN bodies |-> finalfix(bodies[i])]
=============================================================================
