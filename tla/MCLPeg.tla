------------------------------- MODULE MCLPeg -------------------------------
(* Values for the constants of LPegVM: patterns of three layers over pieces that bring      *)
(* every optimization about, grammars of two rules, and short subjects.                 *)
EXTENDS LPegVM

MCHook(i, n) == IF i = n THEN i ELSE IF i = 1 THEN -1 ELSE i + 1

A == lp_P(<<1>>)
B == lp_P(<<2>>)
Char3 == numtree(1)
C(t) == capture_aux("C", t)
Cmt(t) == lp_matchtime("Cmt", t)

(* What accepts any pattern, and what some must be kept from.                          *)
Unaries(ts) ==
  {lp_not(t) : t \in ts} \cup {lp_and(t) : t \in ts} \cup {C(t) : t \in ts}
  \cup {Cmt(t) : t \in ts}
  \cup {lp_star(t, n) : t \in {u \in ts : Repeatable(<<>>, u, 0)}, n \in {0}}
  \cup {lp_star(t, -1) : t \in ts}
  \cup {lp_behind(t) : t \in {u \in ts : Fixed(u)}}
Binaries(ts, us) ==
  {lp_seq(t, u) : t \in ts, u \in us} \cup {lp_choice(<<>>, t, u) : t \in ts, u \in us}

Pieces ==
  {A, B, lp_P(<<1, 2>>), lp_star(lp_P(<<1, 2>>), 0), C(A), lp_sub(Char3, A), Cmt(A)}
Layer2 == Pieces \cup Unaries(Pieces) \cup Binaries(Pieces, Pieces)
MCPatterns ==
  Layer2 \cup Unaries(Layer2) \cup Binaries(Pieces \cup {lp_star(B, -2)}, Layer2)
  \cup Binaries(Layer2, Pieces \cup {lp_and(A)})
  \cup {lp_sub(t, A) : t \in Layer2}
  \cup {numtree(0), numtree(2), numtree(-2), lp_P(<<1, 2, 1>>), lp_set({}), lp_set({1, 2, 3}),
        lp_star(lp_set({1, 2}), 2), lp_seq(newemptycap("Cp"), A)}

V(n) == lp_V(n)
Bodies ==
  {A, V(2), lp_seq(A, V(1)), lp_seq(V(1), A), lp_choice(<<>>, lp_seq(A, V(2)), B),
   lp_choice(<<>>, V(2), lp_seq(A, V(1))), lp_seq(lp_star(V(2), 0), B),
   lp_choice(<<>>, lp_seq(B, lp_seq(V(1), A)), numtree(0)),
   lp_seq(lp_choice(<<>>, lp_seq(lp_star(A, -1), V(2)), B), V(2)), lp_seq(lp_not(V(2)), C(Char3))}
MCGrammars == {<<t, u>> : t \in Bodies, u \in Bodies}

(* The compiler does not come back from hascaptures() on a grammar in which a rule calls    *)
(* itself or one before it; it asks only for patterns of fixed length.                  *)
CallsBack(g) == \E i \in DOMAIN g : \E j \in Calls(g[i]) : j <= i
MCAround(g, t) ==
  {t, lp_seq(t, B), lp_choice(g, t, A)}
  \cup (IF fixedlen(g, t) < 0 \/ ~CallsBack(g) THEN {C(t), lp_and(t)} ELSE {})
  \cup (IF Repeatable(g, t, 0) THEN {lp_star(t, 0)} ELSE {})

Strings(cs, n) == UNION {[1..k -> cs] : k \in 0..n}
MCSubjects == Strings({1, 2, 3}, 2) \cup Strings({1, 2}, 3)
=============================================================================
