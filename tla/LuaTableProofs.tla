--------------------------- MODULE LuaTableProofs ---------------------------
(***************************************************************************)
(* Proofs about LuaTable, for every set of keys, hash function and table size:          *)
(* what is looked up is what was stored last, #t is a border, and a traversal gives     *)
(* every entry once.                                                          *)
(*                                                                          *)
(* The argument is about chains.  Every key that is not dead is on the chain of its     *)
(* main position, chains have no cycles and no node has two links to it: hence cutting  *)
(* a node out of a chain and putting another in its place disturbs no other key.        *)
(***************************************************************************)
EXTENDS LuaTable, FiniteSetTheorems, TLAPS

-----------------------------------------------------------------------------
(* Natural numbers: induction, least and greatest elements.                        *)

(* What holds of 0, and of n + 1 whenever it holds of n, holds of every number.      *)
LEMMA SetInduction ==
  ASSUME NEW T \in SUBSET Nat, 0 \in T, \A n \in T : n + 1 \in T
  PROVE  T = Nat
<1> DEFINE Up(n) == 0 .. n
           F == {Up(n) : n \in Nat \ T}
           R == StrictSubsetOrdering(Nat)
<1>1. SUFFICES ASSUME Nat \ T # {} PROVE FALSE OBVIOUS
<1>2. IsWellFoundedOn(R, FiniteSubsetsOf(Nat)) BY FS_StrictSubsetOrderingWellFounded
<1>3. \A n \in Nat : Up(n) \in FiniteSubsetsOf(Nat)
  BY FS_Interval DEF FiniteSubsetsOf
<1>4. F \subseteq FiniteSubsetsOf(Nat) /\ F # {}
  BY <1>1, <1>3
<1>5. \A n \in Nat \ T : n # 0 /\ n - 1 \in Nat \ T
  OBVIOUS
<1>6. \A n \in Nat \ {0} : <<Up(n - 1), Up(n)>> \in R
  BY DEF StrictSubsetOrdering
<1> HIDE DEF R, F
<1>7. \E x \in F : \A y \in F : ~ (<<y, x>> \in R)
  BY <1>2, <1>4, WFMin
<1>8. PICK x \in F : \A y \in F : ~ (<<y, x>> \in R) BY <1>7
<1>9. PICK n \in Nat \ T : x = Up(n) BY DEF F
<1>10. Up(n - 1) \in F BY <1>5 DEF F
<1> QED BY <1>5, <1>6, <1>8, <1>9, <1>10

(* A set of natural numbers that is not empty has a least element: Min is it.         *)
LEMMA LeastElement ==
  ASSUME NEW S \in SUBSET Nat, S # {}
  PROVE  Min(S) \in S /\ \A x \in S : Min(S) <= x
<1> DEFINE T == {n \in Nat : \A X \in SUBSET Nat :
                   (\E x \in X : x <= n) => \E y \in X : \A x \in X : y <= x}
<1>1. 0 \in T OBVIOUS
<1>2. ASSUME NEW n \in T PROVE n + 1 \in T
  <2> SUFFICES ASSUME NEW X \in SUBSET Nat, \E x \in X : x <= n + 1
               PROVE  \E y \in X : \A x \in X : y <= x
    OBVIOUS
  <2>1. CASE \E x \in X : x <= n BY <2>1
  <2>2. CASE ~ \E x \in X : x <= n
    <3>1. n + 1 \in X /\ \A x \in X : n + 1 <= x BY <2>2
    <3> QED BY <3>1
  <2> QED BY <2>1, <2>2
<1>3. T = Nat
  <2> HIDE DEF T
  <2>1. T \in SUBSET Nat BY DEF T
  <2> QED BY <1>1, <1>2, <2>1, SetInduction
<1>4. PICK s \in S : TRUE OBVIOUS
<1>5. s \in T BY <1>3
<1>6. \E y \in S : \A x \in S : y <= x BY <1>5
<1> QED BY <1>6 DEF Min

(* A bounded set of natural numbers that is not empty has a greatest: Max is it.      *)
LEMMA GreatestElement ==
  ASSUME NEW S \in SUBSET Nat, S # {}, NEW b \in Nat, \A x \in S : x <= b
  PROVE  Max(S) \in S /\ \A x \in S : x <= Max(S)
<1> DEFINE T == {n \in Nat : \A X \in SUBSET (0..n) :
                   X # {} => \E y \in X : \A x \in X : y >= x}
<1>1. 0 \in T
  <2>1. ASSUME NEW X \in SUBSET (0..0), X # {}
        PROVE  \E y \in X : \A x \in X : y >= x
    <3>1. PICK y \in X : TRUE BY <2>1
    <3>2. \A x \in X : x = 0 OBVIOUS
    <3> QED BY <3>1, <3>2
  <2> QED BY <2>1
<1>2. ASSUME NEW n \in T PROVE n + 1 \in T
  <2> SUFFICES ASSUME NEW X \in SUBSET (0..n + 1), X # {}
               PROVE  \E y \in X : \A x \in X : y >= x
    OBVIOUS
  <2>1. CASE n + 1 \in X BY <2>1
  <2>2. CASE n + 1 \notin X
    <3>1. X \in SUBSET (0..n) BY <2>2
    <3> QED BY <3>1
  <2> QED BY <2>1, <2>2
<1>3. T = Nat
  <2> HIDE DEF T
  <2>1. T \in SUBSET Nat BY DEF T
  <2> QED BY <1>1, <1>2, <2>1, SetInduction
<1>4. b \in T /\ S \in SUBSET (0..b) BY <1>3
<1>5. \E y \in S : \A x \in S : y >= x BY <1>4
<1> QED BY <1>5 DEF Max

(* There is the function that Iterated() defines by recursion.                        *)
LEMMA IteratedExists ==
  ASSUME NEW S, NEW f \in [S -> S], NEW a \in S
  PROVE  Iterated(f, a) = [i \in Nat |-> IF i = 0 THEN a ELSE f[Iterated(f, a)[i - 1]]]
<1> DEFINE Def(g, n) == /\ g \in [0..n -> S] /\ g[0] = a
                        /\ \A i \in 0..n : i # 0 => g[i] = f[g[i - 1]]
           T == {n \in Nat : \E g : Def(g, n)}
           U == {n \in Nat : \A m \in Nat : \A g, h :
                               n <= m /\ Def(g, n) /\ Def(h, m) => g[n] = h[n]}
<1>1. T = Nat
  <2>1. 0 \in T
    <3>1. Def([i \in 0..0 |-> a], 0) OBVIOUS
    <3> QED BY <3>1
  <2>2. ASSUME NEW n \in T PROVE n + 1 \in T
    <3>1. PICK g : Def(g, n) OBVIOUS
    <3> DEFINE h == [i \in 0..n + 1 |-> IF i = n + 1 THEN f[g[n]] ELSE g[i]]
    <3>2. h \in [0..n + 1 -> S] BY <3>1
    <3>3. h[0] = a BY <3>1
    <3>4. ASSUME NEW i \in 0..n + 1, i # 0 PROVE h[i] = f[h[i - 1]]
      <4>1. CASE i = n + 1 BY <3>1, <4>1
      <4>2. CASE i # n + 1 BY <3>1, <3>4, <4>2
      <4> QED BY <4>1, <4>2
    <3>5. Def(h, n + 1) BY <3>2, <3>3, <3>4
    <3> HIDE DEF Def, h
    <3>6. \E x : Def(x, n + 1) BY <3>5
    <3> QED BY <3>6
  <2>3. T \in SUBSET Nat OBVIOUS
  <2> HIDE DEF T
  <2> QED BY <2>1, <2>2, <2>3, SetInduction
<1>2. U = Nat
  <2>1. 0 \in U OBVIOUS
  <2>2. ASSUME NEW n \in U PROVE n + 1 \in U
    <3> SUFFICES ASSUME NEW m \in Nat, NEW g, NEW h, n + 1 <= m, Def(g, n + 1), Def(h, m)
                 PROVE  g[n + 1] = h[n + 1]
      <4> HIDE DEF Def
      <4> QED OBVIOUS
    <3> DEFINE g2 == [i \in 0..n |-> g[i]]
    <3>1. Def(g2, n) OBVIOUS
    <3>2. n <= m /\ n + 1 - 1 = n OBVIOUS
    <3> HIDE DEF g2
    <3>3. g2[n] = h[n]
      <4> HIDE DEF Def
      <4> QED BY <3>1, <3>2
    <3>4. g2[n] = g[n] BY DEF g2
    <3>5. g[n + 1] = f[g[n]] /\ h[n + 1] = f[h[n]] BY <3>2
    <3> QED BY <3>3, <3>4, <3>5
  <2>3. U \in SUBSET Nat OBVIOUS
  <2> HIDE DEF U
  <2> QED BY <2>1, <2>2, <2>3, SetInduction
<1> DEFINE G(n) == CHOOSE g : Def(g, n)
           w == [n \in Nat |-> G(n)[n]]
<1>3. \A n \in Nat : Def(G(n), n)
  <2> SUFFICES ASSUME NEW n \in Nat PROVE Def(G(n), n) OBVIOUS
  <2>1. n \in T BY <1>1
  <2>2. \E g : Def(g, n) BY <2>1
  <2> HIDE DEF Def
  <2> QED BY <2>2
<1>4. w \in [Nat -> S] /\ w[0] = a
  <2> HIDE DEF G
  <2> QED BY <1>3
<1>5. ASSUME NEW n \in Nat, n # 0 PROVE w[n] = f[w[n - 1]]
  <2>1. n - 1 \in U /\ n - 1 \in Nat
    <3> HIDE DEF U
    <3> QED BY <1>2, <1>5
  <2>2. Def(G(n), n) /\ Def(G(n - 1), n - 1) BY <1>3, <2>1
  <2> HIDE DEF G
  <2>3. G(n - 1)[n - 1] = G(n)[n - 1] BY <2>1, <2>2
  <2>4. G(n)[n] = f[G(n)[n - 1]] BY <1>5, <2>2
  <2> QED BY <2>1, <2>3, <2>4
<1> DEFINE Eq(g) == g = [i \in Nat |-> IF i = 0 THEN a ELSE f[g[i - 1]]]
<1>6. Eq(w)
  <2>1. ASSUME NEW i \in Nat PROVE w[i] = (IF i = 0 THEN a ELSE f[w[i - 1]])
    <3> HIDE DEF w
    <3>1. CASE i = 0 BY <1>4, <3>1
    <3>2. CASE i # 0 BY <1>5, <3>2
    <3> QED BY <3>1, <3>2
  <2> HIDE DEF w
  <2> QED BY <1>4, <2>1
<1>7. Eq(Iterated(f, a))
  <2>1. Iterated(f, a) = CHOOSE g : Eq(g) BY DEF Iterated
  <2> HIDE DEF Eq, w
  <2> QED BY <1>6, <2>1
<1> QED
  <2> HIDE DEF w
  <2> QED BY <1>7

(* Applying a function again and again stays in its domain, one step at a time.       *)
LEMMA IteratedStep ==
  ASSUME NEW S, NEW f \in [S -> S], NEW a \in S
  PROVE  Iterated(f, a)[0] = a /\ \A i \in Nat : Iterated(f, a)[i + 1] = f[Iterated(f, a)[i]]
<1> DEFINE z == Iterated(f, a)
<1>1. z = [i \in Nat |-> IF i = 0 THEN a ELSE f[z[i - 1]]] BY IteratedExists
<1> HIDE DEF z
<1>2. z[0] = a BY <1>1
<1>3. ASSUME NEW i \in Nat PROVE z[i + 1] = f[z[i]]
  <2>1. i + 1 \in Nat /\ i + 1 # 0 /\ i + 1 - 1 = i OBVIOUS
  <2>2. z[i + 1] = IF i + 1 = 0 THEN a ELSE f[z[i + 1 - 1]] BY <1>1, <2>1
  <2> QED BY <2>1, <2>2
<1> QED BY <1>2, <1>3 DEF z

(* A function iterated from a point of a set it maps into itself stays in the set.    *)
LEMMA IteratedType ==
  ASSUME NEW S, NEW f \in [S -> S], NEW a \in S
  PROVE  Iterated(f, a) \in [Nat -> S]
<1> DEFINE z == Iterated(f, a)
           V == {i \in Nat : z[i] \in S}
<1>1. z = [i \in Nat |-> IF i = 0 THEN a ELSE f[z[i - 1]]] BY IteratedExists
<1>2. z[0] = a /\ \A i \in Nat : z[i + 1] = f[z[i]] BY IteratedStep
<1> HIDE DEF z
<1>3. V \in SUBSET Nat /\ 0 \in V /\ \A i \in V : i + 1 \in V BY <1>2
<1>4. V = Nat
  <2> HIDE DEF V
  <2> QED BY <1>3, SetInduction
<1>5. \A i \in Nat : z[i] \in S BY <1>4
<1>6. z \in [Nat -> S] BY <1>1, <1>5
<1> QED BY <1>6 DEF z

-----------------------------------------------------------------------------
(* Chains.  In the following, nd is the vector of nodes, and home the main position of   *)
(* every key.                                                                *)

Node == [key : Keys \cup {Nil}, dead : BOOLEAN, val : Values \cup {Nil}, next : Int]
Vectors == UNION {[0..N - 1 -> Node] : N \in Nat \ {0}}

Live(nd, n) == nd[n].key # Nil /\ ~nd[n].dead

Linked(nd) == \A n \in DOMAIN nd : nd[n].next # 0 => n + nd[n].next \in DOMAIN nd

OneLink(nd) ==
  \A n, m \in DOMAIN nd :
    nd[n].next # 0 /\ nd[m].next # 0 /\ n + nd[n].next = m + nd[m].next => n = m

(* A node without a key is in no chain.                                            *)
FreeApart(nd) ==
  \A n \in DOMAIN nd : nd[n].key = Nil =>
    /\ nd[n].val = Nil /\ nd[n].next = 0 /\ ~nd[n].dead
    /\ \A m \in DOMAIN nd : nd[m].next # 0 => m + nd[m].next # n

DeadEmpty(nd) == \A n \in DOMAIN nd : nd[n].dead => nd[n].val = Nil

(* r grows along the chains: there is no cycle.                                     *)
Grows(nd, r) ==
  \A n \in DOMAIN nd : nd[n].next # 0 => r[n] < r[n + nd[n].next]
Acyclic(nd) == \E r \in [DOMAIN nd -> Nat] : Grows(nd, r)

(* S leads to node n, which is the first with its key.                               *)
Leads(nd, S, n) ==
  /\ n \in S
  /\ \A s \in S \ {n} :
       /\ nd[s].key # nd[n].key /\ nd[s].next # 0
       /\ s + nd[s].next \in S

OnChain(nd, home) ==
  \A n \in DOMAIN nd : Live(nd, n) =>
    \E S \in SUBSET DOMAIN nd : home[nd[n].key] \in S /\ Leads(nd, S, n)

(* A chain starts with a key that is in its main position.                           *)
Headed(nd, home) ==
  \A n \in DOMAIN nd : Live(nd, n) =>
    LET p == home[nd[n].key] IN nd[p].key # Nil /\ home[nd[p].key] = p

Chained(nd, home) ==
  /\ Linked(nd) /\ OneLink(nd) /\ FreeApart(nd) /\ DeadEmpty(nd) /\ Acyclic(nd)
  /\ OnChain(nd, home) /\ Headed(nd, home)

Succ(nd) == [m \in DOMAIN nd |-> m + nd[m].next]

(* The nodes of a hash part are numbered from 0, as gnode() counts them.              *)
LEMMA VectorSize ==
  ASSUME NEW nd \in Vectors
  PROVE  /\ Cardinality(DOMAIN nd) \in Nat \ {0}
         /\ DOMAIN nd = 0..Cardinality(DOMAIN nd) - 1
         /\ nd \in [0..Cardinality(DOMAIN nd) - 1 -> Node]
         /\ IsFiniteSet(DOMAIN nd)
<1>1. PICK N \in Nat \ {0} : nd \in [0..N - 1 -> Node] BY DEF Vectors
<1>2. DOMAIN nd = 0..N - 1 BY <1>1
<1>3. IsFiniteSet(0..N - 1) /\ Cardinality(0..N - 1) = N BY <1>1, FS_Interval
<1> QED BY <1>1, <1>2, <1>3

(* The walk along a chain: its links are followed to the end.                         *)
LEMMA WalkStep ==
  ASSUME NEW nd \in Vectors, Linked(nd), NEW n \in DOMAIN nd
  PROVE  LET w == Iterated(Succ(nd), n)
         IN  /\ w \in [Nat -> DOMAIN nd] /\ w[0] = n
             /\ \A i \in Nat : w[i + 1] = w[i] + nd[w[i]].next
<1>1. DOMAIN nd \subseteq Nat BY VectorSize
<1>2. Succ(nd) \in [DOMAIN nd -> DOMAIN nd]
  <2>1. ASSUME NEW m \in DOMAIN nd PROVE m + nd[m].next \in DOMAIN nd
    <3>1. CASE nd[m].next = 0 BY <1>1, <3>1
    <3>2. CASE nd[m].next # 0 BY <3>2 DEF Linked
    <3> QED BY <3>1, <3>2
  <2> QED BY <2>1 DEF Succ
<1> DEFINE w == Iterated(Succ(nd), n)
<1>3. w \in [Nat -> DOMAIN nd] /\ w[0] = n /\ \A i \in Nat : w[i + 1] = Succ(nd)[w[i]]
  <2> DEFINE D == DOMAIN nd
             F == Succ(nd)
  <2>1. n \in D /\ F \in [D -> D] BY <1>2
  <2> HIDE DEF D, F
  <2>2. Iterated(F, n) \in [Nat -> D] BY <2>1, IteratedType
  <2>3. Iterated(F, n)[0] = n BY <2>1, IteratedStep
  <2>4. ASSUME NEW i \in Nat PROVE Iterated(F, n)[i + 1] = F[Iterated(F, n)[i]]
    BY <2>1, IteratedStep
  <2> QED BY <2>2, <2>3, <2>4 DEF D, F
<1>4. \A i \in Nat : w[i + 1] = w[i] + nd[w[i]].next BY <1>3 DEF Succ
<1> HIDE DEF w
<1>5. w \in [Nat -> DOMAIN nd] /\ w[0] = n /\ \A i \in Nat : w[i + 1] = w[i] + nd[w[i]].next
  BY <1>3, <1>4
<1> QED BY <1>5 DEF w

(* A walk that starts in a set that leads to a node reaches it before it has made as     *)
(* many steps as there are nodes, and sees no other node with its key before.          *)
LEMMA WalkArrives ==
  ASSUME NEW nd \in Vectors, Linked(nd), Acyclic(nd),
         NEW n \in DOMAIN nd, NEW S \in SUBSET DOMAIN nd, Leads(nd, S, n), NEW a \in S
  PROVE  LET w == Iterated(Succ(nd), a)
         IN  \E i \in 0..Cardinality(DOMAIN nd) - 1 :
               w[i] = n /\ \A j \in 0..i - 1 : w[j] # n /\ nd[w[j]].key # nd[n].key
<1> DEFINE w == Iterated(Succ(nd), a)
           N == Cardinality(DOMAIN nd)
<1>0. N \in Nat \ {0} /\ IsFiniteSet(DOMAIN nd) /\ DOMAIN nd \subseteq Nat BY VectorSize
<1>1. w \in [Nat -> DOMAIN nd] /\ w[0] = a /\ \A i \in Nat : w[i + 1] = w[i] + nd[w[i]].next
  BY WalkStep
<1> HIDE DEF w, N
<1>2. PICK r \in [DOMAIN nd -> Nat] : Grows(nd, r) BY DEF Acyclic
<1> DEFINE T == {i \in Nat : (\A j \in Nat : j < i => w[j] # n) => w[i] \in S}
<1>3. T = Nat
  <2>1. 0 \in T BY <1>1
  <2>2. ASSUME NEW i \in T PROVE i + 1 \in T
    <3> SUFFICES ASSUME \A j \in Nat : j < i + 1 => w[j] # n PROVE w[i + 1] \in S OBVIOUS
    <3>1. w[i] \in S /\ w[i] # n BY <2>2
    <3>2. w[i] + nd[w[i]].next \in S BY <3>1 DEF Leads
    <3> QED BY <1>1, <3>2
  <2>3. T \in SUBSET Nat OBVIOUS
  <2> HIDE DEF T
  <2> QED BY <2>1, <2>2, <2>3, SetInduction
<1>4. \A i \in Nat : (\A j \in Nat : j < i => w[j] # n) => w[i] \in S BY <1>3
<1>5. \E i \in 0..N - 1 : w[i] = n
  <2> SUFFICES ASSUME \A i \in 0..N - 1 : w[i] # n PROVE FALSE OBVIOUS
  <2>1. \A i \in 0..N - 1 : w[i] \in S \ {n} BY <1>0, <1>4
  <2>2. \A i \in 0..N - 1 : r[w[i]] < r[w[i + 1]]
    <3> SUFFICES ASSUME NEW i \in 0..N - 1 PROVE r[w[i]] < r[w[i + 1]] OBVIOUS
    <3>1. nd[w[i]].next # 0 /\ w[i] \in DOMAIN nd BY <1>1, <2>1 DEF Leads
    <3> QED BY <1>1, <1>2, <3>1 DEF Grows
  <2> DEFINE U == {k \in Nat : \A i \in 0..N - 1 : i + k \in 0..N - 1 /\ k # 0 => r[w[i]] < r[w[i + k]]}
  <2>3. U = Nat
    <3>1. 0 \in U OBVIOUS
    <3>2. ASSUME NEW k \in U PROVE k + 1 \in U
      <4> SUFFICES ASSUME NEW i \in 0..N - 1, i + (k + 1) \in 0..N - 1
                   PROVE  r[w[i]] < r[w[i + (k + 1)]]
        OBVIOUS
      <4>1. i + k \in 0..N - 1 /\ (i + k) + 1 = i + (k + 1) /\ i \in Nat /\ i + k \in Nat
        BY <1>0
      <4>2. r[w[i + k]] < r[w[(i + k) + 1]] BY <2>2, <4>1
      <4>3. r[w[i]] \in Nat /\ r[w[i + k]] \in Nat /\ r[w[(i + k) + 1]] \in Nat BY <1>1, <1>2, <4>1
      <4>4. CASE k = 0
        <5>1. i + k = i BY <4>4
        <5> QED BY <4>1, <4>2, <5>1
      <4>5. CASE k # 0
        <5>1. r[w[i]] < r[w[i + k]] BY <3>2, <4>1, <4>5
        <5> QED BY <4>1, <4>2, <4>3, <5>1
      <4> QED BY <4>4, <4>5
    <3>3. U \in SUBSET Nat OBVIOUS
    <3> HIDE DEF U
    <3> QED BY <3>1, <3>2, <3>3, SetInduction
  <2>4. \A i, j \in 0..N - 1 : i < j => r[w[i]] < r[w[j]]
    <3> SUFFICES ASSUME NEW i \in 0..N - 1, NEW j \in 0..N - 1, i < j PROVE r[w[i]] < r[w[j]]
      OBVIOUS
    <3>1. j - i \in U /\ i + (j - i) = j /\ j - i # 0
      <4> HIDE DEF U
      <4> QED BY <1>0, <2>3
    <3> QED BY <3>1
  <2>5. \A i \in 0..N - 1 : r[w[i]] \in Nat BY <1>0, <1>1, <1>2
  <2>6. \A i, j \in 0..N - 1 : w[i] = w[j] => i = j
    <3> SUFFICES ASSUME NEW i \in 0..N - 1, NEW j \in 0..N - 1, w[i] = w[j] PROVE i = j
      OBVIOUS
    <3>1. ~(i < j) /\ ~(j < i) BY <2>4, <2>5
    <3> QED BY <1>0, <3>1
  <2> DEFINE Others == DOMAIN nd \ {n}
             f == [i \in 0..N - 1 |-> w[i]]
  <2>7. f \in Injection(0..N - 1, Others)
    <3>1. f \in [0..N - 1 -> Others] BY <1>0, <1>1, <2>1
    <3>2. \A i, j \in DOMAIN f : f[i] = f[j] => i = j BY <2>6, <3>1
    <3> QED BY <3>1, <3>2 DEF Injection, IsInjective
  <2>8. IsFiniteSet(Others) /\ Cardinality(Others) = N - 1
    BY <1>0, FS_RemoveElement DEF N
  <2>9. Cardinality(0..N - 1) = N BY <1>0, FS_Interval
  <2> HIDE DEF f, Others
  <2>10. Cardinality(0..N - 1) <= Cardinality(Others) BY <2>7, <2>8, FS_Injection
  <2> QED BY <1>0, <2>8, <2>9, <2>10
<1> DEFINE Hits == {i \in 0..N - 1 : w[i] = n}
<1>6. Hits \in SUBSET Nat /\ Hits # {} BY <1>0, <1>5
<1>7. Min(Hits) \in Hits /\ \A i \in Hits : Min(Hits) <= i BY <1>6, LeastElement
<1> DEFINE m == Min(Hits)
<1> HIDE DEF m
<1>8. m \in 0..N - 1 /\ w[m] = n /\ \A i \in 0..N - 1 : w[i] = n => m <= i BY <1>7 DEF m
<1>9. ASSUME NEW j \in 0..m - 1 PROVE w[j] # n /\ nd[w[j]].key # nd[n].key
  <2>1. j \in 0..N - 1 /\ j < m /\ j \in Nat BY <1>0, <1>8
  <2>2. w[j] # n BY <1>8, <2>1
  <2>3. \A i \in Nat : i < j => w[i] # n BY <1>0, <1>8, <2>1
  <2>4. w[j] \in S BY <1>4, <2>1, <2>3
  <2> QED BY <2>2, <2>4 DEF Leads
<1>10. \E i \in 0..N - 1 : w[i] = n /\ \A j \in 0..i - 1 : w[j] # n /\ nd[w[j]].key # nd[n].key
  BY <1>8, <1>9
<1> QED BY <1>10 DEF w, N

-----------------------------------------------------------------------------
(* Looking up.                                                               *)

home(u) == [k \in Keys |-> mainposition(u, k)]

Tables == [array : Seq(Values \cup {Nil}), node : Vectors, lastfree : Nat, dummy : BOOLEAN]

(* An integer in the range of the array part is never in the hash part.              *)
HashOnly(u) == \A n \in DOMAIN u.node : u.node[n].key # Nil => ~InArray(u, u.node[n].key)

(* Nodes from lastfree on have been given away.                                    *)
Below(u) ==
  /\ u.lastfree <= Cardinality(DOMAIN u.node)
  /\ ~u.dummy => \A n \in DOMAIN u.node : n >= u.lastfree => u.node[n].key # Nil

Dummy(u) == u.dummy => u.lastfree = 0 /\ \A n \in DOMAIN u.node : u.node[n].key = Nil

(* The array part can be larger than any key; such slots have no value.                *)
Listed(u) == \A i \in 1..Len(u.array) : u.array[i] # Nil => i \in Keys

Well(u) ==
  /\ u \in Tables /\ Chained(u.node, home(u))
  /\ HashOnly(u) /\ Below(u) /\ Dummy(u) /\ Listed(u)

(* No key is nil or a float: luaH_newkey() and luaH_get() normalise a float to an     *)
(* integer, and what is left is the key itself.                                       *)
LEMMA KeysAreKeys ==
  \A k \in Keys : k # Nil /\ k \notin Floats /\ Integral(k) = k
  /\ (k \notin Strings \cup Pointers => k \in Int)
BY TableAssumption DEF Keys, Integral

(* mainposition() names a node of the table, for every hash function.                 *)
LEMMA MainPosition ==
  ASSUME NEW u, u.node \in Vectors, NEW k \in Keys \cup Int
  PROVE  mainposition(u, k) \in DOMAIN u.node
<1> DEFINE N == Cardinality(DOMAIN u.node)
           M == Max({1, N - 1})
<1>1. N \in Nat \ {0} /\ DOMAIN u.node = 0..N - 1 BY VectorSize
<1> HIDE DEF N
<1>2. M \in {1, N - 1} /\ 1 <= M /\ M \in Nat
  <2>1. {1, N - 1} \in SUBSET Nat /\ {1, N - 1} # {} /\ \A x \in {1, N - 1} : x <= N BY <1>1
  <2>2. M \in {1, N - 1} /\ \A x \in {1, N - 1} : x <= M BY <1>1, <2>1, GreatestElement
  <2> HIDE DEF M
  <2> QED BY <1>1, <2>2
<1> HIDE DEF M
<1>3. \A i \in Int : i % M \in 0..M - 1 /\ i % N \in 0..N - 1 BY <1>1, <1>2
<1>4. mainposition(u, k) = IF k \in Pointers THEN Hash[k] % M
                           ELSE (IF k \in Strings THEN Hash[k] ELSE k) % N
  BY DEF mainposition, sizenode, M, N
<1>5. k \in Strings \cup Pointers => Hash[k] \in Int BY TableAssumption
<1>6. k \notin Strings \cup Pointers => k \in Int BY KeysAreKeys
<1>7. CASE k \in Pointers
  <2>1. Hash[k] % M \in 0..M - 1 BY <1>3, <1>5, <1>7
  <2> QED BY <1>1, <1>2, <1>4, <1>7, <2>1
<1>8. CASE k \notin Pointers
  <2>1. (IF k \in Strings THEN Hash[k] ELSE k) \in Int BY <1>5, <1>6, <1>8
  <2> QED BY <1>1, <1>3, <1>4, <1>8, <2>1
<1> QED BY <1>7, <1>8

(* What a search finds has the key.                                                *)
LEMMA SearchSound ==
  ASSUME NEW u, u.node \in Vectors, Linked(u.node), NEW k \in Keys \cup Int, NEW deads,
         Search(u, k, deads) # None
  PROVE  LET n == Search(u, k, deads)
         IN  n \in DOMAIN u.node /\ u.node[n].key = k /\ u.node[n].dead \in deads
<1> DEFINE a == mainposition(u, k)
           w == Iterated(Succ(u.node), a)
           hits == {i \in 0..Cardinality(DOMAIN u.node) - 1 :
                      u.node[w[i]].key = k /\ u.node[w[i]].dead \in deads}
<1>1. Search(u, k, deads) = IF hits = {} THEN None ELSE w[Min(hits)]
  BY DEF Search, Walk, Succ, sizenode
<1>2. a \in DOMAIN u.node BY MainPosition
<1>3. Cardinality(DOMAIN u.node) \in Nat BY VectorSize
<1> HIDE DEF a
<1>4. w \in [Nat -> DOMAIN u.node] BY <1>2, WalkStep
<1> HIDE DEF w
<1>5. hits # {} /\ hits \in SUBSET Nat BY <1>1, <1>3
<1>6. Min(hits) \in hits BY <1>5, LeastElement
<1> DEFINE m == Min(hits)
<1>7. Search(u, k, deads) = w[m] BY <1>1, <1>5
<1>8. m \in Nat /\ u.node[w[m]].key = k /\ u.node[w[m]].dead \in deads
  <2>1. m \in hits BY <1>6
  <2> HIDE DEF m
  <2> QED BY <1>3, <2>1
<1> HIDE DEF m
<1>9. w[m] \in DOMAIN u.node BY <1>4, <1>8
<1> QED BY <1>7, <1>8, <1>9

(* A search finds the first node with the key.                                       *)
LEMMA SearchFinds ==
  ASSUME NEW u, u.node \in Vectors, Linked(u.node), Acyclic(u.node),
         NEW n \in DOMAIN u.node, NEW S \in SUBSET DOMAIN u.node, Leads(u.node, S, n),
         NEW k \in Keys, u.node[n].key = k, mainposition(u, k) \in S,
         NEW deads, u.node[n].dead \in deads
  PROVE  Search(u, k, deads) = n
<1> DEFINE a == mainposition(u, k)
           w == Iterated(Succ(u.node), a)
           N == Cardinality(DOMAIN u.node)
           hits == {i \in 0..N - 1 : u.node[w[i]].key = k /\ u.node[w[i]].dead \in deads}
<1>1. Search(u, k, deads) = IF hits = {} THEN None ELSE w[Min(hits)]
  BY DEF Search, Walk, Succ, sizenode
<1>2. \E i \in 0..N - 1 :
        w[i] = n /\ \A j \in 0..i - 1 : w[j] # n /\ u.node[w[j]].key # u.node[n].key
  BY WalkArrives
<1>3. N \in Nat BY VectorSize
<1> HIDE DEF w, N
<1>4. PICK i \in 0..N - 1 :
        w[i] = n /\ \A j \in 0..i - 1 : w[j] # n /\ u.node[w[j]].key # u.node[n].key
  BY <1>2
<1>5. i \in hits /\ hits \in SUBSET Nat BY <1>3, <1>4
<1>6. Min(hits) \in hits /\ Min(hits) <= i
  <2> HIDE DEF hits
  <2> QED BY <1>5, LeastElement
<1>7. Min(hits) = i
  <2> DEFINE m == Min(hits)
  <2>1. m \in 0..N - 1 /\ u.node[w[m]].key = k /\ m <= i BY <1>6
  <2> HIDE DEF m
  <2>2. ~(m \in 0..i - 1) BY <1>4, <2>1
  <2>3. m = i BY <1>3, <2>1, <2>2
  <2> QED BY <2>3 DEF m
<1> HIDE DEF hits
<1> QED BY <1>1, <1>4, <1>5, <1>7

(* A search looks at keys, links and deaths only.                                   *)
LEMMA SearchSame ==
  ASSUME NEW u, u.node \in Vectors, Linked(u.node),
         NEW w, w.node \in Vectors, DOMAIN w.node = DOMAIN u.node, NEW deads,
         \A n \in DOMAIN u.node :
           /\ w.node[n].key = u.node[n].key /\ w.node[n].next = u.node[n].next
           /\ w.node[n].dead \in deads <=> u.node[n].dead \in deads,
         NEW k \in Keys \cup Int
  PROVE  Search(w, k, deads) = Search(u, k, deads)
<1> DEFINE a == mainposition(u, k)
           p == Iterated(Succ(u.node), a)
           N == Cardinality(DOMAIN u.node)
           hits(z) == {i \in 0..N - 1 : z.node[p[i]].key = k /\ z.node[p[i]].dead \in deads}
<1>1. mainposition(w, k) = a /\ sizenode(w) = N /\ sizenode(u) = N
  BY DEF mainposition, sizenode
<1>2. Succ(w.node) = Succ(u.node) BY DEF Succ
<1>3. a \in DOMAIN u.node BY MainPosition
<1> HIDE DEF a
<1>4. p \in [Nat -> DOMAIN u.node] BY <1>3, WalkStep
<1>5. Walk(u, a) = p /\ Walk(w, a) = p BY <1>2 DEF Walk, Succ
<1>6. N \in Nat BY VectorSize
<1> HIDE DEF p, N
<1>7. hits(w) = hits(u)
  <2>1. \A i \in 0..N - 1 : p[i] \in DOMAIN u.node BY <1>4, <1>6
  <2> QED BY <2>1
<1>8. Search(w, k, deads) = IF hits(w) = {} THEN None ELSE p[Min(hits(w))]
  BY <1>1, <1>5 DEF Search, a
<1>9. Search(u, k, deads) = IF hits(u) = {} THEN None ELSE p[Min(hits(u))]
  BY <1>1, <1>5 DEF Search, a
<1> HIDE DEF hits
<1> QED BY <1>7, <1>8, <1>9

(* A live key is found at its node, by a lookup and by findindex()'s search, which    *)
(* takes dead keys too.                                                               *)
LEMMA Lookup ==
  ASSUME NEW u, Well(u), NEW n \in DOMAIN u.node, Live(u.node, n)
  PROVE  Find(u, u.node[n].key) = n /\ FindAny(u, u.node[n].key) = n
<1>1. u.node \in Vectors /\ Chained(u.node, home(u)) BY DEF Well, Tables
<1>2. u.node[n].key \in Keys /\ u.node[n].dead = FALSE
  <2>1. u.node[n] \in Node BY <1>1, VectorSize
  <2> QED BY <2>1 DEF Node, Live
<1>3. PICK S \in SUBSET DOMAIN u.node :
        home(u)[u.node[n].key] \in S /\ Leads(u.node, S, n)
  BY <1>1 DEF Chained, OnChain
<1>4. mainposition(u, u.node[n].key) \in S BY <1>2, <1>3 DEF home
<1> QED BY <1>1, <1>2, <1>3, <1>4, SearchFinds DEF Chained, Find, FindAny

(* What a lookup finds is a live node with the key it was asked for.                  *)
LEMMA FoundIsLive ==
  ASSUME NEW u, Well(u), NEW k \in Keys, Find(u, k) # None
  PROVE  LET n == Find(u, k)
         IN  n \in DOMAIN u.node /\ u.node[n].key = k /\ Live(u.node, n)
<1>1. u.node \in Vectors /\ Linked(u.node) BY DEF Well, Tables, Chained
<1>2. /\ Find(u, k) \in DOMAIN u.node /\ u.node[Find(u, k)].key = k
      /\ u.node[Find(u, k)].dead \in {FALSE}
  BY <1>1, SearchSound DEF Find
<1> QED BY <1>2, KeysAreKeys DEF Live

(* Two nodes do not have the same key, unless one is dead.                             *)
LEMMA KeysUnique ==
  ASSUME NEW u, Well(u), NEW n \in DOMAIN u.node, NEW m \in DOMAIN u.node,
         Live(u.node, n), Live(u.node, m), u.node[n].key = u.node[m].key
  PROVE  n = m
<1>1. Find(u, u.node[n].key) = n /\ Find(u, u.node[m].key) = m BY Lookup
<1> QED BY <1>1

-----------------------------------------------------------------------------
(* Steps on chains.                                                            *)

Fresh(k, v, next) == [key |-> k, dead |-> FALSE, val |-> v, next |-> next]
Relinked(e, next) == [key |-> e.key, dead |-> e.dead, val |-> e.val, next |-> next]

(* Another value, or the death of a key without one, leaves the chains alone.           *)
LEMMA SameChains ==
  ASSUME NEW nd \in Vectors, NEW nd2 \in Vectors, DOMAIN nd2 = DOMAIN nd,
         NEW H \in [Keys -> DOMAIN nd], Chained(nd, H),
         \A n \in DOMAIN nd :
           /\ nd2[n].key = nd[n].key /\ nd2[n].next = nd[n].next
           /\ nd[n].dead => nd2[n].dead
           /\ nd2[n].dead => nd2[n].key # Nil /\ nd2[n].val = Nil
           /\ nd2[n].key = Nil => nd2[n].val = Nil
  PROVE  Chained(nd2, H)
<1>1. Linked(nd2) BY DEF Chained, Linked
<1>2. OneLink(nd2) BY DEF Chained, OneLink
<1>3. FreeApart(nd2) BY DEF Chained, FreeApart
<1>4. DeadEmpty(nd2) BY DEF Chained, DeadEmpty
<1>5. Acyclic(nd2)
  <2>1. PICK r \in [DOMAIN nd -> Nat] : Grows(nd, r) BY DEF Chained, Acyclic
  <2>2. Grows(nd2, r) BY <2>1 DEF Grows
  <2> QED BY <2>2 DEF Acyclic
<1>6. \A n \in DOMAIN nd : nd[n].dead \in BOOLEAN /\ nd2[n].dead \in BOOLEAN
  BY VectorSize DEF Node
<1>7. \A n \in DOMAIN nd : Live(nd2, n) => Live(nd, n) BY <1>6 DEF Live
<1>8. OnChain(nd2, H)
  <2> SUFFICES ASSUME NEW n \in DOMAIN nd, Live(nd2, n)
               PROVE  \E S \in SUBSET DOMAIN nd2 : H[nd2[n].key] \in S /\ Leads(nd2, S, n)
    BY DEF OnChain
  <2>1. PICK S \in SUBSET DOMAIN nd : H[nd[n].key] \in S /\ Leads(nd, S, n)
    BY <1>7 DEF Chained, OnChain
  <2>2. Leads(nd2, S, n) BY <2>1 DEF Leads
  <2> QED BY <2>1, <2>2
<1>9. Headed(nd2, H)
  <2> SUFFICES ASSUME NEW n \in DOMAIN nd, Live(nd2, n)
               PROVE  nd2[H[nd2[n].key]].key # Nil /\ H[nd2[H[nd2[n].key]].key] = H[nd2[n].key]
    BY DEF Headed
  <2>1. nd[n].key \in Keys
    <3>1. nd[n] \in Node BY VectorSize
    <3> QED BY <1>7, <3>1 DEF Live, Node
  <2>2. H[nd[n].key] \in DOMAIN nd BY <2>1
  <2>3. nd[H[nd[n].key]].key # Nil /\ H[nd[H[nd[n].key]].key] = H[nd[n].key]
    BY <1>7 DEF Chained, Headed
  <2> QED BY <2>2, <2>3
<1> QED BY <1>1, <1>2, <1>3, <1>4, <1>5, <1>8, <1>9 DEF Chained

(* A key in its main position, whatever the node had before.                         *)
LEMMA PutChained ==
  ASSUME NEW nd \in Vectors, NEW nd2 \in Vectors, DOMAIN nd2 = DOMAIN nd,
         NEW H \in [Keys -> DOMAIN nd], Chained(nd, H), NEW k \in Keys, NEW v,
         \A n \in DOMAIN nd : Live(nd, n) => nd[n].key # k,
         nd2[H[k]] = Fresh(k, v, nd[H[k]].next),
         \A n \in DOMAIN nd \ {H[k]} : nd2[n] = nd[n]
  PROVE  Chained(nd2, H)
<1> DEFINE mp == H[k]
<1>0. mp \in DOMAIN nd /\ k # Nil BY KeysAreKeys
<1>1. /\ nd2[mp].key = k /\ nd2[mp].dead = FALSE /\ nd2[mp].next = nd[mp].next
      /\ \A n \in DOMAIN nd : nd2[n].next = nd[n].next /\ (n # mp => nd2[n] = nd[n])
  BY DEF Fresh
<1> HIDE DEF mp
<1>2. Linked(nd2) BY <1>1 DEF Chained, Linked
<1>3. OneLink(nd2) BY <1>1 DEF Chained, OneLink
<1>4. FreeApart(nd2)
  <2> SUFFICES ASSUME NEW n \in DOMAIN nd, nd2[n].key = Nil
               PROVE  /\ nd2[n].val = Nil /\ nd2[n].next = 0 /\ ~nd2[n].dead
                      /\ \A m \in DOMAIN nd : nd2[m].next # 0 => m + nd2[m].next # n
    BY DEF FreeApart
  <2>1. n # mp /\ nd[n].key = Nil BY <1>0, <1>1
  <2> QED BY <1>1, <2>1 DEF Chained, FreeApart
<1>5. DeadEmpty(nd2) BY <1>1 DEF Chained, DeadEmpty
<1>6. Acyclic(nd2)
  <2>1. PICK r \in [DOMAIN nd -> Nat] : Grows(nd, r) BY DEF Chained, Acyclic
  <2>2. Grows(nd2, r) BY <1>1, <2>1 DEF Grows
  <2> QED BY <2>2 DEF Acyclic
<1>7. OnChain(nd2, H)
  <2> SUFFICES ASSUME NEW n \in DOMAIN nd, Live(nd2, n)
               PROVE  \E S \in SUBSET DOMAIN nd2 : H[nd2[n].key] \in S /\ Leads(nd2, S, n)
    BY DEF OnChain
  <2>1. CASE n = mp
    <3>1. H[nd2[n].key] \in {mp} BY <1>1, <2>1 DEF mp
    <3>2. Leads(nd2, {mp}, n) BY <2>1 DEF Leads
    <3> QED BY <1>0, <3>1, <3>2
  <2>2. CASE n # mp
    <3>1. Live(nd, n) /\ nd2[n] = nd[n] BY <1>1, <2>2 DEF Live
    <3>2. PICK S \in SUBSET DOMAIN nd : H[nd[n].key] \in S /\ Leads(nd, S, n)
      BY <3>1 DEF Chained, OnChain
    <3>3. Leads(nd2, S, n)
      <4>1. n \in S BY <3>2 DEF Leads
      <4>2. ASSUME NEW s \in S \ {n}
            PROVE  nd2[s].key # nd2[n].key /\ nd2[s].next # 0 /\ s + nd2[s].next \in S
        <5>1. nd[s].key # nd[n].key /\ nd[s].next # 0 /\ s + nd[s].next \in S
          BY <3>2, <4>2 DEF Leads
        <5>2. nd[n].key # k BY <3>1
        <5> QED BY <1>1, <3>1, <5>1, <5>2
      <4> QED BY <4>1, <4>2 DEF Leads
    <3> QED BY <3>1, <3>2, <3>3
  <2> QED BY <2>1, <2>2
<1>8. Headed(nd2, H)
  <2> SUFFICES ASSUME NEW n \in DOMAIN nd, Live(nd2, n)
               PROVE  nd2[H[nd2[n].key]].key # Nil /\ H[nd2[H[nd2[n].key]].key] = H[nd2[n].key]
    BY DEF Headed
  <2>1. CASE H[nd2[n].key] = mp BY <1>0, <1>1, <2>1 DEF mp
  <2>2. CASE H[nd2[n].key] # mp
    <3>1. n # mp BY <1>1, <2>2 DEF mp
    <3>2. Live(nd, n) /\ nd2[n] = nd[n] BY <1>1, <3>1 DEF Live
    <3>3. nd[n].key \in Keys
      <4>1. nd[n] \in Node BY VectorSize
      <4> QED BY <3>2, <4>1 DEF Live, Node
    <3>4. H[nd[n].key] \in DOMAIN nd BY <3>3
    <3>5. nd[H[nd[n].key]].key # Nil /\ H[nd[H[nd[n].key]].key] = H[nd[n].key]
      BY <3>2 DEF Chained, Headed
    <3> QED BY <1>1, <2>2, <3>2, <3>4, <3>5
  <2> QED BY <2>1, <2>2
<1> QED BY <1>2, <1>3, <1>4, <1>5, <1>6, <1>7, <1>8 DEF Chained

(* The colliding node, which is not in its main position, moves away with its link.     *)
LEMMA MoveChained ==
  ASSUME NEW nd \in Vectors, NEW nd2 \in Vectors, DOMAIN nd2 = DOMAIN nd,
         NEW H \in [Keys -> DOMAIN nd], Chained(nd, H), NEW k \in Keys, NEW v,
         \A n \in DOMAIN nd : Live(nd, n) => nd[n].key # k,
         NEW mp \in DOMAIN nd, mp = H[k], nd[mp].val # Nil, H[nd[mp].key] # mp,
         NEW f \in DOMAIN nd, nd[f].key = Nil,
         NEW p \in DOMAIN nd, nd[p].next # 0, p + nd[p].next = mp,
         nd2[mp] = Fresh(k, v, 0),
         nd2[f] = Relinked(nd[mp], IF nd[mp].next = 0 THEN 0 ELSE nd[mp].next + (mp - f)),
         nd2[p] = Relinked(nd[p], f - p),
         \A n \in DOMAIN nd \ {mp, f, p} : nd2[n] = nd[n]
  PROVE  Chained(nd2, H)
<1> DEFINE D == DOMAIN nd
<1>0. D \subseteq Int /\ DOMAIN nd2 = D /\ k # Nil BY VectorSize, KeysAreKeys
<1>t. \A n \in D : nd[n].next \in Int /\ nd[n].key \in Keys \cup {Nil}
  <2>1. \A n \in D : nd[n] \in Node BY VectorSize
  <2> QED BY <2>1 DEF Node
<1>r. PICK r \in [D -> Nat] : Grows(nd, r) BY DEF Chained, Acyclic
<1> HIDE DEF D
<1>1. Live(nd, mp)
  <2>1. mp \in D BY DEF D
  <2> QED BY <2>1 DEF Chained, FreeApart, DeadEmpty, Live, D
<1>2. mp \in D /\ f \in D /\ p \in D /\ mp # f /\ p # f /\ p # mp
  <2>1. mp \in D /\ f \in D /\ p \in D BY DEF D
  <2>2. nd[f].val = Nil /\ nd[f].next = 0 BY DEF Chained, FreeApart
  <2>3. r[p] < r[p + nd[p].next] /\ r[p] \in Nat BY <1>r DEF Grows, D
  <2>4. p # mp BY <2>3
  <2> QED BY <2>1, <2>2, <2>4
<1>3. \A n \in D : nd[n].next # 0 =>
        n + nd[n].next \in D /\ n + nd[n].next # f /\ r[n] < r[n + nd[n].next]
  BY <1>r, <1>0 DEF Chained, Linked, FreeApart, Grows, D
<1>4. \A n \in D : nd[n].next # 0 /\ n # p => n + nd[n].next # mp
  BY <1>2 DEF Chained, OneLink, D
<1>5. /\ nd2[mp].key = k /\ ~nd2[mp].dead /\ nd2[mp].next = 0
      /\ nd2[f].key = nd[mp].key /\ nd2[f].dead = nd[mp].dead /\ nd2[f].val = nd[mp].val
      /\ nd2[f].next = IF nd[mp].next = 0 THEN 0 ELSE nd[mp].next + (mp - f)
      /\ nd2[p].key = nd[p].key /\ nd2[p].dead = nd[p].dead /\ nd2[p].val = nd[p].val
      /\ nd2[p].next = f - p
      /\ \A n \in D : n # mp /\ n # f /\ n # p => nd2[n] = nd[n]
  BY DEF Fresh, Relinked, D
(* Where the new links lead.                                                     *)
<1>6. /\ p + nd2[p].next = f /\ nd2[p].next # 0
      /\ nd[mp].next # 0 => nd2[f].next # 0 /\ f + nd2[f].next = mp + nd[mp].next
      /\ nd[mp].next = 0 => nd2[f].next = 0
  <2>1. mp \in Int /\ f \in Int /\ p \in Int /\ nd[mp].next \in Int BY <1>0, <1>2, <1>t
  <2>2. p + (f - p) = f /\ f - p # 0 BY <1>2, <2>1
  <2>3. ASSUME nd[mp].next # 0
        PROVE  f + (nd[mp].next + (mp - f)) = mp + nd[mp].next /\ nd[mp].next + (mp - f) # 0
    <3>1. mp + nd[mp].next # f BY <1>2, <1>3, <2>3
    <3> QED BY <2>1, <3>1
  <2> QED BY <1>5, <2>2, <2>3
<1>7. \A n \in D : Live(nd, n) => H[nd[n].key] # mp
  BY <1>0 DEF Chained, Headed, D
<1>8. Linked(nd2)
  <2> SUFFICES ASSUME NEW n \in D, nd2[n].next # 0 PROVE n + nd2[n].next \in D
    BY <1>0 DEF Linked
  <2>1. CASE n = mp BY <1>5, <2>1
  <2>2. CASE n = f BY <1>2, <1>3, <1>6, <2>2
  <2>3. CASE n = p BY <1>2, <1>6, <2>3
  <2>4. CASE n # mp /\ n # f /\ n # p BY <1>3, <1>5, <2>4
  <2> QED BY <2>1, <2>2, <2>3, <2>4
(* Every link of nd2 is one of nd, from f instead of mp and to f instead of mp.           *)
<1> DEFINE Old(n) == IF n = f THEN mp ELSE n
<1>9. ASSUME NEW n \in D, nd2[n].next # 0
      PROVE  /\ n # mp /\ Old(n) \in D /\ nd[Old(n)].next # 0
             /\ n = p => n + nd2[n].next = f
             /\ n # p => n + nd2[n].next = Old(n) + nd[Old(n)].next
                         /\ n + nd2[n].next # f /\ n + nd2[n].next # mp
  <2>1. CASE n = mp BY <1>5, <1>9, <2>1
  <2>2. CASE n = f
    <3>1. nd[mp].next # 0 BY <1>6, <1>9, <2>2
    <3>2. mp + nd[mp].next # mp /\ mp + nd[mp].next # f BY <1>2, <1>3, <1>4, <3>1
    <3> QED BY <1>2, <1>6, <2>2, <3>1, <3>2
  <2>3. CASE n = p BY <1>2, <1>6, <2>3
  <2>4. CASE n # mp /\ n # f /\ n # p BY <1>3, <1>4, <1>5, <1>9, <2>4
  <2> QED BY <2>1, <2>2, <2>3, <2>4
<1>10. OneLink(nd2)
  <2> SUFFICES ASSUME NEW n \in D, NEW m \in D, nd2[n].next # 0, nd2[m].next # 0,
                      n + nd2[n].next = m + nd2[m].next
               PROVE  n = m
    BY <1>0 DEF OneLink
  <2>1. CASE n = p \/ m = p BY <1>9, <2>1
  <2>2. CASE n # p /\ m # p
    <3>1. Old(n) + nd[Old(n)].next = Old(m) + nd[Old(m)].next BY <1>9, <2>2
    <3>2. Old(n) = Old(m)
      <4> HIDE DEF Old
      <4> QED BY <1>9, <3>1 DEF Chained, OneLink, D
    <3> QED BY <1>9, <3>2
  <2> QED BY <2>1, <2>2
<1>11. FreeApart(nd2)
  <2> SUFFICES ASSUME NEW n \in D, nd2[n].key = Nil
               PROVE  /\ nd2[n].val = Nil /\ nd2[n].next = 0 /\ ~nd2[n].dead
                      /\ \A m \in D : nd2[m].next # 0 => m + nd2[m].next # n
    BY <1>0 DEF FreeApart
  <2>1. n # mp /\ n # f BY <1>0, <1>1, <1>5 DEF Live
  <2>2. nd[n].key = Nil BY <1>5, <2>1
  <2>3. /\ nd[n].val = Nil /\ nd[n].next = 0 /\ ~nd[n].dead
        /\ \A m \in D : nd[m].next # 0 => m + nd[m].next # n
    BY <2>2 DEF Chained, FreeApart, D
  <2>4. n # p BY <2>3
  <2>5. nd2[n] = nd[n] BY <1>5, <2>1, <2>4
  <2>6. ASSUME NEW m \in D, nd2[m].next # 0 PROVE m + nd2[m].next # n
    <3> HIDE DEF Old
    <3> QED BY <1>9, <2>1, <2>3, <2>6
  <2> QED BY <2>3, <2>5, <2>6
<1>12. DeadEmpty(nd2)
  <2> SUFFICES ASSUME NEW n \in D, nd2[n].dead PROVE nd2[n].val = Nil BY <1>0 DEF DeadEmpty
  <2>1. n # mp BY <1>5
  <2>2. n # f BY <1>1, <1>5 DEF Live
  <2>3. nd2[n].val = nd[n].val /\ nd[n].dead BY <1>5, <2>1, <2>2
  <2> QED BY <2>3 DEF Chained, DeadEmpty, D
<1>13. Acyclic(nd2)
  <2> DEFINE r2 == [n \in D |-> IF n = f THEN r[mp] ELSE r[n]]
  <2>1. r2 \in [D -> Nat] BY <1>2
  <2>2. Grows(nd2, r2)
    <3> SUFFICES ASSUME NEW n \in D, nd2[n].next # 0 PROVE r2[n] < r2[n + nd2[n].next]
      BY <1>0 DEF Grows
    <3>1. r2[n] = r[Old(n)] BY <1>2
    <3>2. r[Old(n)] < r[Old(n) + nd[Old(n)].next]
      <4> HIDE DEF Old
      <4> QED BY <1>3, <1>9
    <3>3. CASE n = p
      <4>1. n + nd2[n].next = f BY <1>9, <3>3
      <4>2. r2[f] = r[mp] BY <1>2
      <4>3. Old(n) + nd[Old(n)].next = mp BY <1>2, <3>3
      <4> QED BY <3>1, <3>2, <4>1, <4>2, <4>3
    <3>4. CASE n # p
      <4>1. n + nd2[n].next = Old(n) + nd[Old(n)].next /\ n + nd2[n].next # f BY <1>9, <3>4
      <4>2. n + nd2[n].next \in D BY <1>0, <1>8 DEF Linked
      <4>3. r2[n + nd2[n].next] = r[n + nd2[n].next] BY <4>1, <4>2
      <4> QED BY <3>1, <3>2, <4>1, <4>3
    <3> QED BY <3>3, <3>4
  <2> QED BY <1>0, <2>1, <2>2 DEF Acyclic
<1>14. OnChain(nd2, H)
  <2> SUFFICES ASSUME NEW n \in D, Live(nd2, n)
               PROVE  \E S \in SUBSET D : H[nd2[n].key] \in S /\ Leads(nd2, S, n)
    BY <1>0 DEF OnChain
  <2>1. CASE n = mp
    <3>1. H[nd2[n].key] \in {mp} BY <1>5, <2>1
    <3>2. Leads(nd2, {mp}, n) BY <2>1 DEF Leads
    <3> QED BY <1>2, <3>1, <3>2
  <2>2. CASE n # mp
    <3>1. Live(nd, Old(n)) /\ nd2[n].key = nd[Old(n)].key /\ Old(n) \in D
      BY <1>1, <1>2, <1>5, <2>2 DEF Live
    <3>2. PICK S \in SUBSET D : H[nd[Old(n)].key] \in S /\ Leads(nd, S, Old(n))
      BY <3>1 DEF Chained, OnChain, D
    <3>3. H[nd[Old(n)].key] # mp /\ nd[Old(n)].key # k BY <1>7, <3>1 DEF D
    <3> DEFINE S2 == {s \in D : s # mp /\ Old(s) \in S}
    (* f was in no chain.                                                        *)
    <3>4. H[nd[Old(n)].key] # f
      BY <3>1 DEF Chained, Headed, D
    <3>5. H[nd[Old(n)].key] \in S2 BY <3>2, <3>3, <3>4
    <3>6. n \in S2 BY <2>2, <3>2 DEF Leads
    <3>7. ASSUME NEW s \in S2 \ {n}
          PROVE  nd2[s].key # nd2[n].key /\ nd2[s].next # 0 /\ s + nd2[s].next \in S2
      <4>1. s \in D /\ s # mp /\ s # n /\ Old(s) \in S /\ Old(s) # Old(n) BY <2>2
      <4>2. nd[Old(s)].key # nd[Old(n)].key /\ nd[Old(s)].next # 0
            /\ Old(s) + nd[Old(s)].next \in S
        <5> HIDE DEF Old
        <5> QED BY <3>2, <4>1 DEF Leads
      <4>3. nd2[s].key = nd[Old(s)].key BY <1>5, <4>1
      <4>4. nd2[s].next # 0
        <5>1. CASE s = f BY <1>6, <4>2, <5>1
        <5>2. CASE s # f /\ s = p BY <1>6, <5>2
        <5>3. CASE s # f /\ s # p BY <1>5, <4>1, <4>2, <5>3
        <5> QED BY <5>1, <5>2, <5>3
      <4>5. s + nd2[s].next \in D BY <1>0, <1>8, <4>1, <4>4 DEF Linked
      <4>6. s + nd2[s].next \in S2
        <5>1. CASE s = p
          <6>1. s + nd2[s].next = f BY <1>6, <5>1
          <6>2. mp \in S BY <1>2, <4>2, <5>1
          <6> QED BY <1>2, <6>1, <6>2
        <5>2. CASE s # p
          <6>1. /\ s + nd2[s].next = Old(s) + nd[Old(s)].next
                /\ s + nd2[s].next # f /\ s + nd2[s].next # mp
            BY <1>9, <4>1, <4>4, <5>2
          <6> QED BY <4>2, <4>5, <6>1
        <5> QED BY <5>1, <5>2
      <4> QED BY <3>1, <4>2, <4>3, <4>4, <4>6
    <3>8. Leads(nd2, S2, n) BY <3>6, <3>7 DEF Leads
    <3>9. S2 \in SUBSET D OBVIOUS
    <3> QED BY <3>1, <3>5, <3>8, <3>9
  <2> QED BY <2>1, <2>2
<1>15. Headed(nd2, H)
  <2> SUFFICES ASSUME NEW n \in D, Live(nd2, n)
               PROVE  nd2[H[nd2[n].key]].key # Nil /\ H[nd2[H[nd2[n].key]].key] = H[nd2[n].key]
    BY <1>0 DEF Headed
  <2>1. CASE n = mp BY <1>0, <1>5, <2>1
  <2>2. CASE n # mp
    <3>1. Live(nd, Old(n)) /\ nd2[n].key = nd[Old(n)].key /\ Old(n) \in D
      BY <1>1, <1>2, <1>5, <2>2 DEF Live
    <3> DEFINE h == H[nd[Old(n)].key]
    <3>2. nd[h].key # Nil /\ H[nd[h].key] = h BY <3>1 DEF Chained, Headed, D
    <3>3. h \in D BY <1>t, <3>1 DEF Live, D
    <3>4. h # mp BY <1>7, <3>1
    <3> HIDE DEF h
    <3>5. h # f BY <3>2
    <3>6. nd2[h].key = nd[h].key BY <1>5, <3>3, <3>4, <3>5
    <3> QED BY <3>1, <3>2, <3>6 DEF h
  <2> QED BY <2>1, <2>2
<1> QED BY <1>8, <1>10, <1>11, <1>12, <1>13, <1>14, <1>15 DEF Chained

(* The colliding node is in its main position: the new key follows it.                 *)
LEMMA BehindChained ==
  ASSUME NEW nd \in Vectors, NEW nd2 \in Vectors, DOMAIN nd2 = DOMAIN nd,
         NEW H \in [Keys -> DOMAIN nd], Chained(nd, H), NEW k \in Keys, NEW v,
         \A n \in DOMAIN nd : Live(nd, n) => nd[n].key # k,
         NEW mp \in DOMAIN nd, mp = H[k], nd[mp].val # Nil, H[nd[mp].key] = mp,
         NEW f \in DOMAIN nd, nd[f].key = Nil,
         NEW link,
         nd[mp].next = 0 => link = 0, nd[mp].next # 0 => link = (mp + nd[mp].next) - f,
         nd2[mp] = Relinked(nd[mp], f - mp), nd2[f] = Fresh(k, v, link),
         \A n \in DOMAIN nd \ {mp, f} : nd2[n] = nd[n]
  PROVE  Chained(nd2, H)
<1> DEFINE D == DOMAIN nd
<1>0. D \subseteq Int /\ DOMAIN nd2 = D /\ k # Nil BY VectorSize, KeysAreKeys
<1>t. \A n \in D : nd[n].next \in Int /\ nd[n].key \in Keys \cup {Nil}
  <2>1. \A n \in D : nd[n] \in Node BY VectorSize
  <2> QED BY <2>1 DEF Node
<1>r. PICK r \in [D -> Nat] : Grows(nd, r) BY DEF Chained, Acyclic
<1> HIDE DEF D
<1>1. Live(nd, mp)
  <2>1. mp \in D BY DEF D
  <2> QED BY <2>1 DEF Chained, FreeApart, DeadEmpty, Live, D
<1>2. mp \in D /\ f \in D /\ mp # f BY <1>1 DEF D, Live
<1>3. \A n \in D : nd[n].next # 0 =>
        n + nd[n].next \in D /\ n + nd[n].next # f /\ r[n] < r[n + nd[n].next]
  BY <1>r, <1>0 DEF Chained, Linked, FreeApart, Grows, D
<1>4. nd[f].next = 0 BY DEF Chained, FreeApart
<1>5. /\ nd2[f].key = k /\ ~nd2[f].dead
      /\ nd2[f].next = IF nd[mp].next = 0 THEN 0 ELSE (mp + nd[mp].next) - f
      /\ nd2[mp].key = nd[mp].key /\ nd2[mp].dead = nd[mp].dead /\ nd2[mp].val = nd[mp].val
      /\ nd2[mp].next = f - mp
      /\ \A n \in D : n # mp /\ n # f => nd2[n] = nd[n]
  BY DEF Fresh, Relinked, D
(* Where the new links lead.                                                     *)
<1>6. /\ mp + nd2[mp].next = f /\ nd2[mp].next # 0
      /\ nd[mp].next # 0 => nd2[f].next # 0 /\ f + nd2[f].next = mp + nd[mp].next
      /\ nd[mp].next = 0 => nd2[f].next = 0
  <2>1. mp \in Int /\ f \in Int /\ nd[mp].next \in Int BY <1>0, <1>2, <1>t
  <2>2. mp + (f - mp) = f /\ f - mp # 0 BY <1>2, <2>1
  <2>3. ASSUME nd[mp].next # 0
        PROVE  f + ((mp + nd[mp].next) - f) = mp + nd[mp].next /\ (mp + nd[mp].next) - f # 0
    <3>1. mp + nd[mp].next # f BY <1>2, <1>3, <2>3
    <3> QED BY <2>1, <3>1
  <2> QED BY <1>5, <2>2, <2>3
<1> DEFINE Old(n) == IF n = f THEN mp ELSE n
<1>7. ASSUME NEW n \in D, nd2[n].next # 0
      PROVE  /\ n = mp => n + nd2[n].next = f
             /\ n # mp => /\ Old(n) \in D /\ nd[Old(n)].next # 0
                          /\ n + nd2[n].next = Old(n) + nd[Old(n)].next
                          /\ n + nd2[n].next # f
  <2>1. CASE n = mp BY <1>6, <2>1
  <2>2. CASE n = f BY <1>2, <1>3, <1>6, <1>7, <2>2
  <2>3. CASE n # mp /\ n # f BY <1>3, <1>5, <1>7, <2>3
  <2> QED BY <2>1, <2>2, <2>3
<1>8. Linked(nd2)
  <2> SUFFICES ASSUME NEW n \in D, nd2[n].next # 0 PROVE n + nd2[n].next \in D
    BY <1>0 DEF Linked
  <2> HIDE DEF Old
  <2>1. CASE n = mp BY <1>2, <1>7, <2>1
  <2>2. CASE n # mp BY <1>3, <1>7, <2>2
  <2> QED BY <2>1, <2>2
<1>9. OneLink(nd2)
  <2> SUFFICES ASSUME NEW n \in D, NEW m \in D, nd2[n].next # 0, nd2[m].next # 0,
                      n + nd2[n].next = m + nd2[m].next
               PROVE  n = m
    BY <1>0 DEF OneLink
  <2>1. CASE n = mp \/ m = mp BY <1>7, <2>1
  <2>2. CASE n # mp /\ m # mp
    <3>1. Old(n) + nd[Old(n)].next = Old(m) + nd[Old(m)].next BY <1>7, <2>2
    <3>2. Old(n) = Old(m)
      <4> HIDE DEF Old
      <4> QED BY <1>7, <2>2, <3>1 DEF Chained, OneLink, D
    <3> QED BY <2>2, <3>2
  <2> QED BY <2>1, <2>2
<1>10. FreeApart(nd2)
  <2> SUFFICES ASSUME NEW n \in D, nd2[n].key = Nil
               PROVE  /\ nd2[n].val = Nil /\ nd2[n].next = 0 /\ ~nd2[n].dead
                      /\ \A m \in D : nd2[m].next # 0 => m + nd2[m].next # n
    BY <1>0 DEF FreeApart
  <2>1. n # mp /\ n # f BY <1>0, <1>1, <1>5 DEF Live
  <2>2. nd2[n] = nd[n] BY <1>5, <2>1
  <2>3. /\ nd[n].val = Nil /\ nd[n].next = 0 /\ ~nd[n].dead
        /\ \A m \in D : nd[m].next # 0 => m + nd[m].next # n
    BY <2>2 DEF Chained, FreeApart, D
  <2>4. ASSUME NEW m \in D, nd2[m].next # 0 PROVE m + nd2[m].next # n
    <3> HIDE DEF Old
    <3> QED BY <1>7, <2>1, <2>3, <2>4
  <2> QED BY <2>2, <2>3, <2>4
<1>11. DeadEmpty(nd2)
  <2> SUFFICES ASSUME NEW n \in D, nd2[n].dead PROVE nd2[n].val = Nil BY <1>0 DEF DeadEmpty
  <2>1. n # f /\ n # mp BY <1>1, <1>5 DEF Live
  <2>2. nd2[n].val = nd[n].val /\ nd[n].dead BY <1>5, <2>1
  <2> QED BY <2>2 DEF Chained, DeadEmpty, D
<1>12. Acyclic(nd2)
  <2> DEFINE r2 == [n \in D |-> IF n = f THEN 2 * r[mp] + 1 ELSE 2 * r[n]]
  <2>1. r2 \in [D -> Nat] BY <1>2
  <2>2. Grows(nd2, r2)
    <3> SUFFICES ASSUME NEW n \in D, nd2[n].next # 0 PROVE r2[n] < r2[n + nd2[n].next]
      BY <1>0 DEF Grows
    <3>1. n + nd2[n].next \in D BY <1>0, <1>8 DEF Linked
    <3>2. CASE n = mp
      <4>1. n + nd2[n].next = f BY <1>6, <3>2
      <4>2. r2[f] = 2 * r[mp] + 1 /\ r2[mp] = 2 * r[mp] /\ r[mp] \in Nat BY <1>2
      <4> QED BY <3>2, <4>1, <4>2
    <3>3. CASE n # mp
      <4>1. /\ Old(n) \in D /\ nd[Old(n)].next # 0
            /\ n + nd2[n].next = Old(n) + nd[Old(n)].next /\ n + nd2[n].next # f
        BY <1>7, <3>3
      <4>2. r2[n + nd2[n].next] = 2 * r[n + nd2[n].next] BY <3>1, <4>1
      <4>3. r[Old(n)] < r[n + nd2[n].next]
        <5> HIDE DEF Old
        <5> QED BY <1>3, <4>1
      <4>4. r[Old(n)] \in Nat /\ r[n + nd2[n].next] \in Nat BY <3>1, <4>1
      <4>5. r2[n] = 2 * r[Old(n)] \/ r2[n] = 2 * r[Old(n)] + 1 BY <1>2
      <4> QED BY <4>2, <4>3, <4>4, <4>5
    <3> QED BY <3>2, <3>3
  <2> QED BY <1>0, <2>1, <2>2 DEF Acyclic
<1>13. OnChain(nd2, H)
  <2> SUFFICES ASSUME NEW n \in D, Live(nd2, n)
               PROVE  \E S \in SUBSET D : H[nd2[n].key] \in S /\ Leads(nd2, S, n)
    BY <1>0 DEF OnChain
  <2>1. CASE n = f
    <3> DEFINE S == {mp, f}
    <3>1. H[nd2[n].key] \in S BY <1>5, <2>1
    <3>2. nd2[mp].key # k BY <1>1, <1>2, <1>5 DEF D
    <3>3. Leads(nd2, S, n) BY <1>5, <1>6, <2>1, <3>2 DEF Leads
    <3> QED BY <1>2, <3>1, <3>3
  <2>2. CASE n # f
    <3>1. Live(nd, n) /\ nd2[n].key = nd[n].key BY <1>5, <2>2 DEF Live
    <3>2. PICK S \in SUBSET D : H[nd[n].key] \in S /\ Leads(nd, S, n)
      BY <3>1 DEF Chained, OnChain, D
    <3>3. nd[n].key # k BY <3>1 DEF D
    <3> DEFINE S2 == {s \in D : IF s = f THEN mp \in S \ {n} ELSE s \in S}
    <3>4. H[nd[n].key] # f BY <3>1 DEF Chained, Headed, D
    <3>5. H[nd[n].key] \in S2 BY <3>2, <3>4
    <3>6. n \in S2 BY <2>2, <3>2 DEF Leads
    <3>7. ASSUME NEW s \in S2 \ {n}
          PROVE  nd2[s].key # nd2[n].key /\ nd2[s].next # 0 /\ s + nd2[s].next \in S2
      <4>1. Old(s) \in S \ {n} BY <2>2
      <4>2. nd[Old(s)].key # nd[n].key /\ nd[Old(s)].next # 0 /\ Old(s) + nd[Old(s)].next \in S
        <5> HIDE DEF Old
        <5> QED BY <3>2, <4>1 DEF Leads
      <4>3. CASE s = mp
        <5>1. f \in S2 BY <1>2, <3>7, <4>3
        <5> QED BY <1>5, <1>6, <1>2, <3>1, <4>2, <4>3, <5>1
      <4>4. CASE s # mp
        <5>1. nd2[s].key # nd2[n].key BY <1>5, <3>1, <3>3, <4>2, <4>4
        <5>2. nd2[s].next # 0 BY <1>5, <1>6, <4>2, <4>4
        <5>3. s + nd2[s].next = Old(s) + nd[Old(s)].next /\ s + nd2[s].next # f
          BY <1>7, <4>4, <5>2
        <5>4. s + nd2[s].next \in D BY <1>0, <1>8, <5>2 DEF Linked
        <5> QED BY <4>2, <5>1, <5>2, <5>3, <5>4
      <4> QED BY <4>3, <4>4
    <3>8. Leads(nd2, S2, n) BY <3>6, <3>7 DEF Leads
    <3>9. S2 \in SUBSET D OBVIOUS
    <3> QED BY <3>1, <3>5, <3>8, <3>9
  <2> QED BY <2>1, <2>2
<1>14. Headed(nd2, H)
  <2> SUFFICES ASSUME NEW n \in D, Live(nd2, n)
               PROVE  nd2[H[nd2[n].key]].key # Nil /\ H[nd2[H[nd2[n].key]].key] = H[nd2[n].key]
    BY <1>0 DEF Headed
  <2>1. CASE n = f BY <1>1, <1>5, <2>1 DEF Live
  <2>2. CASE n # f
    <3>1. Live(nd, n) /\ nd2[n].key = nd[n].key BY <1>5, <2>2 DEF Live
    <3> DEFINE h == H[nd[n].key]
    <3>2. nd[h].key # Nil /\ H[nd[h].key] = h BY <3>1 DEF Chained, Headed, D
    <3>3. h \in D BY <1>t, <3>1 DEF Live, D
    <3> HIDE DEF h
    <3>4. nd2[h].key = nd[h].key BY <1>5, <3>2, <3>3
    <3> QED BY <3>1, <3>2, <3>4 DEF h
  <2> QED BY <2>1, <2>2
<1> QED BY <1>8, <1>9, <1>10, <1>11, <1>12, <1>13, <1>14 DEF Chained

-----------------------------------------------------------------------------
(* What a table holds.                                                           *)

(* The parts of a table have their types.                                             *)
LEMMA TableShape ==
  ASSUME NEW u \in Tables
  PROVE  /\ u.array \in Seq(Values \cup {Nil}) /\ u.node \in Vectors
         /\ u.lastfree \in Nat /\ u.dummy \in BOOLEAN
         /\ \A n \in DOMAIN u.node : u.node[n] \in Node /\ n \in Nat
<1>1. u.node \in Vectors BY DEF Tables
<1>2. \A n \in DOMAIN u.node : u.node[n] \in Node /\ n \in Nat BY <1>1, VectorSize
<1> QED BY <1>1, <1>2 DEF Tables

(* A hash part of the same size, each entry of which is a node, is a vector of nodes. *)
LEMMA VectorOf ==
  ASSUME NEW nd \in Vectors, NEW nd2, nd2 = [n \in DOMAIN nd |-> nd2[n]],
         \A n \in DOMAIN nd : nd2[n] \in Node
  PROVE  nd2 \in Vectors
<1>1. PICK N \in Nat \ {0} : nd \in [0..N - 1 -> Node] BY DEF Vectors
<1>2. DOMAIN nd = 0..N - 1 BY <1>1
<1>3. nd2 \in [0..N - 1 -> Node] BY <1>2
<1> QED BY <1>1, <1>3 DEF Vectors

(* Every key has a main position in the table.                                        *)
LEMMA HomeType ==
  ASSUME NEW u \in Tables
  PROVE  home(u) \in [Keys -> DOMAIN u.node]
<1>1. \A k \in Keys : mainposition(u, k) \in DOMAIN u.node BY MainPosition DEF Tables
<1> QED BY <1>1 DEF home

(* Main positions depend on the size of the hash part alone.                          *)
LEMMA HomeSame ==
  ASSUME NEW u \in Tables, NEW w \in Tables, DOMAIN w.node = DOMAIN u.node
  PROVE  home(w) = home(u) /\ \A k : mainposition(w, k) = mainposition(u, k)
BY DEF home, mainposition, sizenode

(* luaH_get() of a live key is the value in its node.                                 *)
LEMMA GetOfLive ==
  ASSUME NEW u, Well(u), NEW n \in DOMAIN u.node, Live(u.node, n)
  PROVE  luaH_get(u, u.node[n].key) = u.node[n].val
<1> DEFINE k == u.node[n].key
<1>1. k \in Keys /\ k # Nil
  <2>1. u.node[n] \in Node BY TableShape DEF Well
  <2> QED BY <2>1 DEF Node, Live
<1>2. ~InArray(u, k) BY <1>1 DEF Well, HashOnly
<1>3. Find(u, k) = n BY Lookup
<1>4. n # None BY TableShape DEF Well, None
<1>5. Integral(k) = k BY <1>1, KeysAreKeys
<1> HIDE DEF k
<1>6. luaH_get(u, k) = u.node[n].val BY <1>2, <1>3, <1>4, <1>5 DEF luaH_get
<1> QED BY <1>6 DEF k

(* luaH_get() of a key that is in no live node and not in the array part is nil.      *)
LEMMA GetOfNone ==
  ASSUME NEW u, Well(u), NEW k \in Keys, ~InArray(u, k),
         \A n \in DOMAIN u.node : Live(u.node, n) => u.node[n].key # k
  PROVE  luaH_get(u, k) = Nil
<1>1. Find(u, k) = None BY FoundIsLive
<1> QED BY <1>1, KeysAreKeys DEF luaH_get

(* A key keeps its value when the live nodes with a value do.                          *)
LEMMA GetSame ==
  ASSUME NEW u, Well(u), NEW w, Well(w), w.array = u.array, NEW k \in Keys,
         \A n \in DOMAIN w.node : Live(w.node, n) /\ w.node[n].key = k =>
           \E m \in DOMAIN u.node :
             Live(u.node, m) /\ u.node[m].key = k /\ u.node[m].val = w.node[n].val,
         \A m \in DOMAIN u.node : Live(u.node, m) /\ u.node[m].key = k =>
           u.node[m].val = Nil
           \/ \E n \in DOMAIN w.node : Live(w.node, n) /\ w.node[n].key = k
  PROVE  luaH_get(w, k) = luaH_get(u, k)
<1>1. InArray(w, k) <=> InArray(u, k) BY DEF InArray
<1>2. CASE InArray(u, k) BY <1>1, <1>2, KeysAreKeys DEF luaH_get
<1>3. CASE ~InArray(u, k)
  <2>1. CASE \E n \in DOMAIN w.node : Live(w.node, n) /\ w.node[n].key = k
    <3>1. PICK n \in DOMAIN w.node : Live(w.node, n) /\ w.node[n].key = k BY <2>1
    <3>2. PICK m \in DOMAIN u.node :
            Live(u.node, m) /\ u.node[m].key = k /\ u.node[m].val = w.node[n].val
      BY <3>1
    <3>3. luaH_get(w, k) = w.node[n].val BY <3>1, GetOfLive
    <3>4. luaH_get(u, k) = u.node[m].val BY <3>2, GetOfLive
    <3> QED BY <3>2, <3>3, <3>4
  <2>2. CASE ~ \E n \in DOMAIN w.node : Live(w.node, n) /\ w.node[n].key = k
    <3>1. luaH_get(w, k) = Nil BY <1>1, <1>3, <2>2, GetOfNone
    <3>2. CASE \E m \in DOMAIN u.node : Live(u.node, m) /\ u.node[m].key = k
      <4>1. PICK m \in DOMAIN u.node : Live(u.node, m) /\ u.node[m].key = k BY <3>2
      <4>2. u.node[m].val = Nil BY <2>2, <4>1
      <4>3. luaH_get(u, k) = u.node[m].val BY <4>1, GetOfLive
      <4> QED BY <3>1, <4>2, <4>3
    <3>3. CASE ~ \E m \in DOMAIN u.node : Live(u.node, m) /\ u.node[m].key = k
      <4>1. luaH_get(u, k) = Nil BY <1>3, <3>3, GetOfNone
      <4> QED BY <3>1, <4>1
    <3> QED BY <3>2, <3>3
  <2> QED BY <2>1, <2>2
<1> QED BY <1>2, <1>3

-----------------------------------------------------------------------------
(* A new key.                                                                *)

(* What storing a new key in a free main position changes: that node, whose link      *)
(* stays.                                                                             *)
LEMMA PutNode ==
  ASSUME NEW u \in Tables, NEW n \in DOMAIN u.node, NEW k \in Keys, NEW v \in Values \cup {Nil}
  PROVE  LET w == Put(u, n, k, v)
         IN  /\ w \in Tables /\ w.array = u.array /\ w.lastfree = u.lastfree
             /\ w.dummy = u.dummy /\ DOMAIN w.node = DOMAIN u.node
             /\ w.node[n] = Fresh(k, v, u.node[n].next)
             /\ \A m \in DOMAIN u.node \ {n} : w.node[m] = u.node[m]
<1> DEFINE w == Put(u, n, k, v)
           nd2 == [u.node EXCEPT ![n].key = k, ![n].dead = FALSE, ![n].val = v]
<1>1. u.node \in Vectors /\ \A m \in DOMAIN u.node : u.node[m] \in Node BY TableShape
<1>2. nd2[n] = Fresh(k, v, u.node[n].next)
  <2>1. u.node[n] \in Node /\ u.node = [m \in DOMAIN u.node |-> u.node[m]] BY <1>1, VectorSize
  <2> QED BY <2>1 DEF Fresh, Node
<1>3. /\ DOMAIN nd2 = DOMAIN u.node /\ nd2 = [m \in DOMAIN u.node |-> nd2[m]]
      /\ \A m \in DOMAIN u.node \ {n} : nd2[m] = u.node[m]
  OBVIOUS
<1>4. Fresh(k, v, u.node[n].next) \in Node BY <1>1 DEF Fresh, Node
<1>5. w.array = u.array /\ w.lastfree = u.lastfree /\ w.dummy = u.dummy /\ w.node = nd2
      /\ w = [u EXCEPT !.node = nd2]
  BY DEF Put, Tables
<1> HIDE DEF nd2
<1>6. \A m \in DOMAIN u.node : nd2[m] \in Node BY <1>1, <1>2, <1>3, <1>4
<1>7. nd2 \in Vectors BY <1>1, <1>3, <1>6, VectorOf
<1>8. w \in Tables BY <1>5, <1>7 DEF Tables
<1> QED BY <1>2, <1>3, <1>5, <1>8

(* The link to a node that is not in its main position is found on its chain.           *)
LEMMA Previous ==
  ASSUME NEW u \in Tables, Chained(u.node, home(u)),
         NEW mp \in DOMAIN u.node, u.node[mp].val # Nil, mainposition(u, u.node[mp].key) # mp
  PROVE  LET p == previous(u, mp)
         IN  p \in DOMAIN u.node /\ u.node[p].next # 0 /\ p + u.node[p].next = mp
<1> DEFINE nd == u.node
           a == mainposition(u, nd[mp].key)
           w == Iterated(Succ(nd), a)
           N == Cardinality(DOMAIN nd)
           hits == {i \in 0..N - 1 : w[i] + nd[w[i]].next = mp}
<1>1. previous(u, mp) = w[Min(hits)] BY DEF previous, Walk, Succ, sizenode
<1>2. nd \in Vectors /\ Linked(nd) /\ Acyclic(nd) BY TableShape DEF Chained
<1>3. N \in Nat \ {0} BY <1>2, VectorSize
<1>4. Live(nd, mp) BY DEF Chained, FreeApart, DeadEmpty, Live
<1>5. nd[mp].key \in Keys
  <2>1. nd[mp] \in Node BY TableShape
  <2> QED BY <1>4, <2>1 DEF Live, Node
<1>6. PICK S \in SUBSET DOMAIN nd : a \in S /\ Leads(nd, S, mp)
  <2>1. PICK S \in SUBSET DOMAIN nd : home(u)[nd[mp].key] \in S /\ Leads(nd, S, mp)
    BY <1>4 DEF Chained, OnChain
  <2> QED BY <1>5, <2>1 DEF home
<1>7. a \in DOMAIN nd /\ a # mp BY <1>6
<1> HIDE DEF a
<1>8. \E i \in 0..N - 1 : w[i] = mp /\ \A j \in 0..i - 1 : w[j] # mp /\ nd[w[j]].key # nd[mp].key
  <2> HIDE DEF nd
  <2> QED BY <1>2, <1>6, <1>7, WalkArrives DEF nd
<1>9. w \in [Nat -> DOMAIN nd] /\ w[0] = a /\ \A i \in Nat : w[i + 1] = w[i] + nd[w[i]].next
  BY <1>2, <1>7, WalkStep
<1> HIDE DEF w, N, nd
<1>10. PICK i \in 0..N - 1 : w[i] = mp /\ \A j \in 0..i - 1 : w[j] # mp BY <1>8
<1>11. i # 0 /\ i - 1 \in 0..N - 1 /\ i - 1 \in Nat /\ (i - 1) + 1 = i BY <1>3, <1>7, <1>9, <1>10
<1>12. i - 1 \in hits BY <1>9, <1>10, <1>11
<1> DEFINE m == Min(hits)
<1>13. m \in hits /\ m <= i - 1
  <2>1. hits \in SUBSET Nat /\ hits # {} BY <1>3, <1>12
  <2> HIDE DEF hits
  <2> QED BY <1>12, <2>1, LeastElement
<1> HIDE DEF m
<1>14. m \in 0..N - 1 /\ m \in Nat /\ w[m] + nd[w[m]].next = mp /\ w[m] # mp
  BY <1>3, <1>10, <1>11, <1>13
<1>15. w[m] \in DOMAIN nd BY <1>9, <1>14
<1>16. w[m] \in Int /\ nd[w[m]].next \in Int /\ mp \in Int
  <2>1. \A n \in DOMAIN nd : nd[n] \in Node /\ n \in Nat BY TableShape DEF nd
  <2> QED BY <1>15, <2>1 DEF Node, nd
<1>17. nd[w[m]].next # 0 BY <1>14, <1>16
<1> QED BY <1>1, <1>14, <1>15, <1>17 DEF m, nd

(* What moving the colliding node away changes: the free node becomes its copy, with  *)
(* the link corrected by the distance, the one before it in the chain points to the   *)
(* copy, and the new key starts a chain of its own.                                   *)
LEMMA MoveNode ==
  ASSUME NEW u \in Tables, Chained(u.node, home(u)), NEW k \in Keys, NEW v \in Values \cup {Nil},
         NEW mp \in DOMAIN u.node, u.node[mp].val # Nil, mainposition(u, u.node[mp].key) # mp,
         NEW f \in DOMAIN u.node, u.node[f].key = Nil
  PROVE  LET w == MoveToFree(u, mp, f, k, v)
             nd == u.node
         IN  /\ w \in Tables /\ w.array = u.array /\ w.lastfree = u.lastfree
             /\ w.dummy = u.dummy /\ DOMAIN w.node = DOMAIN nd
             /\ w.node[mp] = Fresh(k, v, 0)
             /\ w.node[f] = Relinked(nd[mp], IF nd[mp].next = 0 THEN 0 ELSE nd[mp].next + (mp - f))
             /\ w.node[previous(u, mp)] = Relinked(nd[previous(u, mp)], f - previous(u, mp))
             /\ \A n \in DOMAIN nd \ {mp, f, previous(u, mp)} : w.node[n] = nd[n]
<1> DEFINE nd == u.node
           p == previous(u, mp)
           link == IF nd[mp].next = 0 THEN 0 ELSE nd[mp].next + (mp - f)
           moved == [u EXCEPT !.node[f] = [u.node[mp] EXCEPT !.next = link],
                              !.node[p].next = f - p, !.node[mp].next = 0]
           nd2 == [nd EXCEPT ![f] = [nd[mp] EXCEPT !.next = link],
                             ![p].next = f - p, ![mp].next = 0]
<1>1. p \in DOMAIN nd /\ nd[p].next # 0 /\ p + nd[p].next = mp BY Previous
<1>2. nd \in Vectors /\ \A n \in DOMAIN nd : nd[n] \in Node /\ n \in Nat BY TableShape
<1>3. nd = [n \in DOMAIN nd |-> nd[n]] BY <1>2, VectorSize
<1> HIDE DEF p
<1>4. p \in Int /\ mp \in Int /\ f \in Int /\ nd[mp].next \in Int /\ nd[p].next \in Int
  BY <1>1, <1>2 DEF Node
<1>5. p # mp /\ f # mp /\ f # p
  <2>1. nd[f].val = Nil /\ nd[f].next = 0 BY DEF Chained, FreeApart
  <2>2. PICK r \in [DOMAIN nd -> Nat] : Grows(nd, r) BY DEF Chained, Acyclic
  <2>3. r[p] < r[mp] /\ r[p] \in Nat BY <1>1, <2>2 DEF Grows
  <2> QED BY <1>1, <2>1, <2>3
<1>6. link \in Int /\ f - p \in Int BY <1>4
<1>7. moved = [u EXCEPT !.node = nd2]
  <2> HIDE DEF link
  <2> QED BY DEF Tables
<1>8. /\ DOMAIN nd2 = DOMAIN nd /\ nd2 = [n \in DOMAIN nd |-> nd2[n]]
      /\ nd2[f] = [nd[mp] EXCEPT !.next = link] /\ nd2[p] = [nd[p] EXCEPT !.next = f - p]
      /\ nd2[mp] = [nd[mp] EXCEPT !.next = 0]
      /\ \A n \in DOMAIN nd \ {mp, f, p} : nd2[n] = nd[n]
  <2> HIDE DEF link, nd
  <2>1. mp \in DOMAIN nd /\ f \in DOMAIN nd BY DEF nd
  <2> QED BY <1>1, <1>3, <1>5, <2>1
<1> HIDE DEF nd2, link, moved, nd
<1>9. /\ nd2[f] = Relinked(nd[mp], link) /\ nd2[p] = Relinked(nd[p], f - p)
      /\ nd2[mp] = Relinked(nd[mp], 0)
      /\ nd2[f] \in Node /\ nd2[p] \in Node /\ nd2[mp] \in Node
  <2>1. nd[mp] \in Node /\ nd[p] \in Node /\ 0 \in Int BY <1>1, <1>2 DEF nd
  <2>2. nd2[f] = Relinked(nd[mp], link) /\ nd2[f] \in Node
    BY <1>6, <1>8, <2>1 DEF Relinked, Node
  <2>3. nd2[p] = Relinked(nd[p], f - p) /\ nd2[p] \in Node
    BY <1>6, <1>8, <2>1 DEF Relinked, Node
  <2>4. nd2[mp] = Relinked(nd[mp], 0) /\ nd2[mp] \in Node
    BY <1>6, <1>8, <2>1 DEF Relinked, Node
  <2> QED BY <2>2, <2>3, <2>4
<1>10. nd2 \in Vectors
  <2>1. \A n \in DOMAIN nd : nd2[n] \in Node BY <1>2, <1>8, <1>9
  <2> QED BY <1>2, <1>8, <2>1, VectorOf
<1>11. /\ moved \in Tables /\ moved.node = nd2 /\ moved.array = u.array
       /\ moved.lastfree = u.lastfree /\ moved.dummy = u.dummy
  BY <1>7, <1>10 DEF Tables
<1>12. MoveToFree(u, mp, f, k, v) = Put(moved, mp, k, v)
  BY DEF MoveToFree, moved, link, p, nd
<1> DEFINE w == Put(moved, mp, k, v)
<1>13. /\ w \in Tables /\ w.array = moved.array /\ w.lastfree = moved.lastfree
       /\ w.dummy = moved.dummy /\ DOMAIN w.node = DOMAIN moved.node
       /\ w.node[mp] = Fresh(k, v, moved.node[mp].next)
       /\ \A m \in DOMAIN moved.node \ {mp} : w.node[m] = moved.node[m]
  <2>1. mp \in DOMAIN moved.node BY <1>8, <1>11 DEF nd
  <2> QED BY <1>11, <2>1, PutNode
<1> HIDE DEF w
<1>14. moved.node[mp].next = 0 BY <1>9, <1>11 DEF Relinked
<1>15. /\ w.node[mp] = Fresh(k, v, 0) /\ w.node[f] = Relinked(nd[mp], link)
       /\ w.node[p] = Relinked(nd[p], f - p)
       /\ \A n \in DOMAIN nd \ {mp, f, p} : w.node[n] = nd[n]
  <2>1. f \in DOMAIN nd BY DEF nd
  <2> QED BY <1>1, <1>5, <1>8, <1>9, <1>11, <1>13, <1>14, <2>1
<1> QED BY <1>8, <1>11, <1>12, <1>13, <1>15 DEF w, p, link, nd

(* What inserting the free node behind the main position changes: the two links.      *)
LEMMA ChainNode ==
  ASSUME NEW u \in Tables, NEW k \in Keys, NEW v \in Values \cup {Nil},
         NEW mp \in DOMAIN u.node, NEW f \in DOMAIN u.node, f # mp
  PROVE  LET w == ChainFree(u, mp, f, k, v)
             nd == u.node
         IN  /\ w \in Tables /\ w.array = u.array /\ w.lastfree = u.lastfree
             /\ w.dummy = u.dummy /\ DOMAIN w.node = DOMAIN nd
             /\ w.node[mp] = Relinked(nd[mp], f - mp)
             /\ w.node[f] = Fresh(k, v, IF nd[mp].next = 0 THEN 0 ELSE (mp + nd[mp].next) - f)
             /\ \A n \in DOMAIN nd \ {mp, f} : w.node[n] = nd[n]
<1> DEFINE nd == u.node
           link == IF nd[mp].next = 0 THEN 0 ELSE (mp + nd[mp].next) - f
           moved == [u EXCEPT !.node[f].next = link, !.node[mp].next = f - mp]
           nd2 == [nd EXCEPT ![f].next = link, ![mp].next = f - mp]
<1>2. nd \in Vectors /\ \A n \in DOMAIN nd : nd[n] \in Node /\ n \in Nat BY TableShape
<1>3. nd = [n \in DOMAIN nd |-> nd[n]] BY <1>2, VectorSize
<1>4. mp \in Int /\ f \in Int /\ nd[mp].next \in Int BY <1>2 DEF Node
<1>6. link \in Int /\ f - mp \in Int BY <1>4
<1>7. moved = [u EXCEPT !.node = nd2]
  <2> HIDE DEF link
  <2> QED BY DEF Tables
<1>8. /\ DOMAIN nd2 = DOMAIN nd /\ nd2 = [n \in DOMAIN nd |-> nd2[n]]
      /\ nd2[f] = [nd[f] EXCEPT !.next = link]
      /\ nd2[mp] = [nd[mp] EXCEPT !.next = f - mp]
      /\ \A n \in DOMAIN nd \ {mp, f} : nd2[n] = nd[n]
  <2> HIDE DEF link, nd
  <2>1. mp \in DOMAIN nd /\ f \in DOMAIN nd BY DEF nd
  <2> QED BY <1>3, <2>1
<1> HIDE DEF nd2, link, moved, nd
<1>9. /\ nd2[f] = Relinked(nd[f], link) /\ nd2[mp] = Relinked(nd[mp], f - mp)
      /\ nd2[f] \in Node /\ nd2[mp] \in Node
  <2>1. nd[mp] \in Node /\ nd[f] \in Node BY <1>2 DEF nd
  <2>2. nd2[f] = Relinked(nd[f], link) /\ nd2[f] \in Node
    BY <1>6, <1>8, <2>1 DEF Relinked, Node
  <2>3. nd2[mp] = Relinked(nd[mp], f - mp) /\ nd2[mp] \in Node
    BY <1>6, <1>8, <2>1 DEF Relinked, Node
  <2> QED BY <2>2, <2>3
<1>10. nd2 \in Vectors
  <2>1. \A n \in DOMAIN nd : nd2[n] \in Node BY <1>2, <1>8, <1>9
  <2> QED BY <1>2, <1>8, <2>1, VectorOf
<1>11. /\ moved \in Tables /\ moved.node = nd2 /\ moved.array = u.array
       /\ moved.lastfree = u.lastfree /\ moved.dummy = u.dummy
  BY <1>7, <1>10 DEF Tables
<1>12. ChainFree(u, mp, f, k, v) = Put(moved, f, k, v) BY DEF ChainFree, moved, link, nd
<1> DEFINE w == Put(moved, f, k, v)
<1>13. /\ w \in Tables /\ w.array = moved.array /\ w.lastfree = moved.lastfree
       /\ w.dummy = moved.dummy /\ DOMAIN w.node = DOMAIN moved.node
       /\ w.node[f] = Fresh(k, v, moved.node[f].next)
       /\ \A m \in DOMAIN moved.node \ {f} : w.node[m] = moved.node[m]
  <2>1. f \in DOMAIN moved.node BY <1>8, <1>11 DEF nd
  <2> QED BY <1>11, <2>1, PutNode
<1> HIDE DEF w
<1>14. moved.node[f].next = link BY <1>9, <1>11 DEF Relinked
<1>15. /\ w.node[f] = Fresh(k, v, link) /\ w.node[mp] = Relinked(nd[mp], f - mp)
       /\ \A n \in DOMAIN nd \ {mp, f} : w.node[n] = nd[n]
  <2>1. mp \in DOMAIN nd BY DEF nd
  <2> QED BY <1>8, <1>9, <1>11, <1>13, <1>14, <2>1
<1> QED BY <1>8, <1>11, <1>12, <1>13, <1>15 DEF w, link, nd

(* What getfreepos() returns is a node without key, below lastfree, and every node    *)
(* above it has a key.                                                                *)
LEMMA FreePosition ==
  ASSUME NEW u, Well(u), getfreepos(u) # {}
  PROVE  LET f == Max(getfreepos(u))
         IN  /\ f \in DOMAIN u.node /\ f < u.lastfree /\ u.node[f].key = Nil /\ ~u.dummy
             /\ \A n \in DOMAIN u.node : n > f => u.node[n].key # Nil
<1>1. /\ u \in Tables /\ u.lastfree \in Nat /\ u.node \in Vectors
      /\ u.lastfree <= Cardinality(DOMAIN u.node)
  BY TableShape DEF Well, Below
<1>2. DOMAIN u.node = 0..Cardinality(DOMAIN u.node) - 1 /\ Cardinality(DOMAIN u.node) \in Nat
  BY <1>1, VectorSize
<1> DEFINE F == getfreepos(u)
<1>3. F \in SUBSET Nat /\ F # {} /\ \A n \in F : n <= u.lastfree BY <1>1 DEF getfreepos
<1> HIDE DEF F
<1>4. Max(F) \in F /\ \A n \in F : n <= Max(F) BY <1>1, <1>3, GreatestElement
<1> DEFINE f == Max(F)
<1> HIDE DEF f
<1>5. f \in 0..u.lastfree - 1 /\ u.node[f].key = Nil /\ \A n \in F : n <= f
  BY <1>4 DEF getfreepos, F, f
<1>6. f \in DOMAIN u.node /\ f < u.lastfree BY <1>1, <1>2, <1>5
<1>7. ~u.dummy BY <1>1, <1>5 DEF Well, Dummy
<1>8. ASSUME NEW n \in DOMAIN u.node, n > f PROVE u.node[n].key # Nil
  <2>1. CASE n >= u.lastfree BY <1>7, <2>1 DEF Well, Below
  <2>2. CASE ~(n >= u.lastfree)
    <3>1. n \in 0..u.lastfree - 1 BY <1>1, <1>2, <2>2
    <3>2. n \notin F BY <1>1, <1>5, <1>8, <3>1
    <3> QED BY <3>1, <3>2 DEF getfreepos, F
  <2> QED BY <2>1, <2>2
<1> QED BY <1>5, <1>6, <1>7, <1>8 DEF f, F

(* w holds k with value v, and otherwise what u holds.                               *)
Carries(u, w, k, v) ==
  /\ \E n \in DOMAIN w.node : Live(w.node, n) /\ w.node[n].key = k
  /\ \A n \in DOMAIN w.node : Live(w.node, n) =>
       \/ w.node[n].key = k /\ w.node[n].val = v
       \/ \E m \in DOMAIN u.node :
            /\ Live(u.node, m) /\ u.node[m].key = w.node[n].key
            /\ u.node[m].val = w.node[n].val
  /\ \A m \in DOMAIN u.node : Live(u.node, m) =>
       \/ u.node[m].val = Nil
       \/ \E n \in DOMAIN w.node : Live(w.node, n) /\ w.node[n].key = u.node[m].key
  /\ (\A m \in DOMAIN u.node : ~u.node[m].dead) => \A n \in DOMAIN w.node : ~w.node[n].dead

Extends(u, w, k, v) ==
  /\ Well(w) /\ w.array = u.array /\ w.dummy = u.dummy /\ DOMAIN w.node = DOMAIN u.node
  /\ Carries(u, w, k, v)

(* A new key whose main position is free extends the table by that key alone.         *)
LEMMA NewInPlace ==
  ASSUME NEW u, Well(u), NEW k \in Keys, NEW v \in Values \cup {Nil},
         ~InArray(u, k), Find(u, k) = None, ~Taken(u, mainposition(u, k))
  PROVE  Extends(u, Put(u, mainposition(u, k), k, v), k, v)
<1> DEFINE mp == mainposition(u, k)
           w == Put(u, mp, k, v)
           nd == u.node
<1>1. u \in Tables /\ nd \in Vectors /\ Chained(nd, home(u)) BY TableShape DEF Well
<1>2. mp \in DOMAIN nd /\ nd[mp].val = Nil /\ ~u.dummy
  BY <1>1, MainPosition DEF Taken
<1> HIDE DEF mp
<1>3. /\ w \in Tables /\ w.array = u.array /\ w.lastfree = u.lastfree
      /\ w.dummy = u.dummy /\ DOMAIN w.node = DOMAIN u.node
      /\ w.node[mp] = Fresh(k, v, u.node[mp].next)
      /\ \A m \in DOMAIN u.node \ {mp} : w.node[m] = u.node[m]
  BY <1>1, <1>2, PutNode
<1> HIDE DEF w
<1>4. home(w) = home(u) /\ home(u) \in [Keys -> DOMAIN nd] BY <1>1, <1>3, HomeSame, HomeType
<1>5. \A n \in DOMAIN nd : Live(nd, n) => nd[n].key # k
  <2> SUFFICES ASSUME NEW n \in DOMAIN nd, Live(nd, n), nd[n].key = k PROVE FALSE OBVIOUS
  <2>1. Find(u, k) = n BY Lookup
  <2> QED BY <1>1, <2>1, VectorSize DEF None
<1>6. home(u)[k] = mp BY DEF home, mp
<1>7. w.node \in Vectors BY <1>3, TableShape
<1>8. Chained(w.node, home(w))
  <2> DEFINE H == home(u)
             nn == w.node
  <2>1. /\ nd \in Vectors /\ nn \in Vectors /\ DOMAIN nn = DOMAIN nd
        /\ H \in [Keys -> DOMAIN nd] /\ Chained(nd, H)
        /\ nn[H[k]] = Fresh(k, v, nd[H[k]].next)
        /\ \A n \in DOMAIN nd \ {H[k]} : nn[n] = nd[n]
    BY <1>1, <1>3, <1>4, <1>6, <1>7
  <2> HIDE DEF H, nn, nd
  <2>2. Chained(nn, H) BY <1>5, <2>1, PutChained
  <2> QED BY <1>4, <2>2 DEF H, nn
<1>9. w.node[mp].key = k /\ w.node[mp].dead = FALSE /\ w.node[mp].val = v /\ k # Nil
  BY <1>3, KeysAreKeys DEF Fresh
<1>10. \A x : InArray(w, x) <=> InArray(u, x) BY <1>3 DEF InArray
<1>11. HashOnly(w) BY <1>2, <1>3, <1>9, <1>10 DEF HashOnly, Well
<1>12. Below(w) BY <1>3, <1>9 DEF Below, Well
<1>13. Dummy(w) BY <1>2, <1>3 DEF Dummy
<1>14. Carries(u, w, k, v)
  <2>1. Live(w.node, mp) BY <1>9 DEF Live
  <2>2. \A n \in DOMAIN nd \ {mp} : Live(w.node, n) <=> Live(nd, n) BY <1>3 DEF Live
  <2>3. ASSUME NEW n \in DOMAIN w.node, Live(w.node, n)
        PROVE  \/ w.node[n].key = k /\ w.node[n].val = v
               \/ \E m \in DOMAIN u.node :
                    /\ Live(u.node, m) /\ u.node[m].key = w.node[n].key
                    /\ u.node[m].val = w.node[n].val
    BY <1>3, <1>9, <2>2, <2>3
  <2>4. ASSUME NEW m \in DOMAIN u.node, Live(u.node, m)
        PROVE  \/ u.node[m].val = Nil
               \/ \E n \in DOMAIN w.node : Live(w.node, n) /\ w.node[n].key = u.node[m].key
    BY <1>2, <1>3, <2>2, <2>4
  <2>5. (\A m \in DOMAIN u.node : ~u.node[m].dead) => \A n \in DOMAIN w.node : ~w.node[n].dead
    BY <1>3, <1>9
  <2> QED BY <1>2, <1>3, <1>9, <2>1, <2>3, <2>4, <2>5 DEF Carries
<1>15. Listed(w) BY <1>3 DEF Well, Listed
<1> QED BY <1>3, <1>8, <1>11, <1>12, <1>13, <1>14, <1>15 DEF Well, Extends, w, mp

(* A new key whose main position is taken extends the table by that key alone,        *)
(* whichever of the two keys has to leave: no chain loses a key.                      *)
LEMMA NewBesides ==
  ASSUME NEW u, Well(u), NEW k \in Keys, NEW v \in Values \cup {Nil},
         ~InArray(u, k), Find(u, k) = None, Taken(u, mainposition(u, k)), getfreepos(u) # {}
  PROVE  Extends(u, luaH_newkey(u, k, v), k, v)
<1> DEFINE mp == mainposition(u, k)
           f == Max(getfreepos(u))
           t1 == [u EXCEPT !.lastfree = f]
           w == luaH_newkey(u, k, v)
           nd == u.node
           other == mainposition(u, nd[mp].key)
<1>1. u \in Tables /\ nd \in Vectors /\ Chained(nd, home(u)) /\ u.lastfree \in Nat
  BY TableShape DEF Well
<1>2. /\ f \in DOMAIN nd /\ f < u.lastfree /\ nd[f].key = Nil /\ ~u.dummy
      /\ \A n \in DOMAIN nd : n > f => nd[n].key # Nil
  BY FreePosition
<1>3. mp \in DOMAIN nd /\ nd[mp].val # Nil BY <1>1, <1>2, MainPosition DEF Taken
<1>4. \A n \in DOMAIN nd : nd[n] \in Node /\ n \in Nat BY <1>1, TableShape
<1>5. w = IF other # mp THEN MoveToFree(t1, mp, f, k, v) ELSE ChainFree(t1, mp, f, k, v)
  BY DEF luaH_newkey
<1> HIDE DEF mp, f
<1>6. /\ t1 \in Tables /\ t1.array = u.array /\ t1.node = nd /\ t1.lastfree = f
      /\ t1.dummy = u.dummy
  BY <1>2, <1>4 DEF Tables, Well
<1> HIDE DEF t1, w, other
<1>7. home(t1) = home(u) /\ \A x : mainposition(t1, x) = mainposition(u, x)
  BY <1>1, <1>6, HomeSame
<1>8. home(u) \in [Keys -> DOMAIN nd] BY <1>1, HomeType
<1>9. \A n \in DOMAIN nd : Live(nd, n) => nd[n].key # k
  <2> SUFFICES ASSUME NEW n \in DOMAIN nd, Live(nd, n), nd[n].key = k PROVE FALSE OBVIOUS
  <2>1. Find(u, k) = n BY Lookup
  <2> QED BY <1>1, <2>1, VectorSize DEF None
<1>10. home(u)[k] = mp BY DEF home, mp
<1>11. Live(nd, mp) /\ nd[mp].key \in Keys
  <2>1. Live(nd, mp) BY <1>1, <1>3 DEF Chained, FreeApart, DeadEmpty, Live
  <2> QED BY <1>3, <1>4, <2>1 DEF Live, Node
<1>12. home(u)[nd[mp].key] = other BY <1>11 DEF home, other
<1>13. k # Nil BY KeysAreKeys
<1> DEFINE Stay(n) == n \in DOMAIN nd /\ n # mp /\ n # f
(* In both cases the colliding key is at g, the new one at e, and the other nodes have     *)
(* the same keys and values as before.                                           *)
<1> DEFINE Placed(e, g) ==
      /\ w \in Tables /\ w.array = u.array /\ w.lastfree = f /\ w.dummy = u.dummy
      /\ DOMAIN w.node = DOMAIN nd /\ {e, g} = {mp, f}
      /\ w.node[e].key = k /\ ~w.node[e].dead /\ w.node[e].val = v
      /\ w.node[g].key = nd[mp].key /\ w.node[g].dead = nd[mp].dead /\ w.node[g].val = nd[mp].val
      /\ \A n : Stay(n) =>
           w.node[n].key = nd[n].key /\ w.node[n].dead = nd[n].dead /\ w.node[n].val = nd[n].val
<1>14. ASSUME NEW e, NEW g, Placed(e, g), Chained(w.node, home(w))
       PROVE  Extends(u, w, k, v)
  <2> DEFINE D == DOMAIN nd
  <2>0. D = DOMAIN nd OBVIOUS
  <2> HIDE DEF D
  <2>1. /\ e \in D /\ g \in D /\ mp \in D /\ f \in D /\ mp # f /\ DOMAIN w.node = D
        /\ \A n \in D : n = e \/ n = g \/ Stay(n)
        /\ \A n \in D : n = mp \/ n = f \/ Stay(n)
    BY <1>2, <1>3, <1>11, <1>14 DEF Live, D
  <2>2. Live(w.node, e) /\ Live(w.node, g) BY <1>11, <1>13, <1>14 DEF Live
  <2>3. \A n : Stay(n) => (Live(w.node, n) <=> Live(nd, n)) BY <1>14 DEF Live
  <2>4. ~Live(nd, f) BY <1>2 DEF Live
  <2>5. \A x : InArray(w, x) <=> InArray(u, x) BY <1>14 DEF InArray
  <2>6. HashOnly(w)
    <3> SUFFICES ASSUME NEW n \in D, w.node[n].key # Nil PROVE ~InArray(w, w.node[n].key)
      BY <2>1 DEF HashOnly
    <3>1. \A m \in D : nd[m].key # Nil => ~InArray(u, nd[m].key) BY DEF Well, HashOnly, D
    <3>2. CASE n = e BY <1>14, <2>5, <3>2
    <3>3. CASE n = g BY <1>14, <2>1, <2>5, <3>1, <3>3
    <3>4. CASE Stay(n) BY <1>14, <2>5, <3>1, <3>4
    <3> QED BY <2>1, <3>2, <3>3, <3>4
  <2>7. Below(w)
    <3>1. w.lastfree <= Cardinality(DOMAIN w.node)
      <4>1. u.lastfree <= Cardinality(D) BY DEF Well, Below, D
      <4>2. Cardinality(D) \in Nat BY <1>1, VectorSize DEF D
      <4> QED BY <1>1, <1>2, <1>4, <1>14, <2>1, <4>1, <4>2
    <3>2. ASSUME NEW n \in D, n >= w.lastfree PROVE w.node[n].key # Nil
      <4>1. CASE n = e BY <1>13, <1>14, <4>1
      <4>2. CASE n = g BY <2>2, <4>2 DEF Live
      <4>3. CASE Stay(n)
        <5>1. n > f BY <1>2, <1>4, <1>14, <3>2, <4>3
        <5> QED BY <1>2, <1>14, <4>3, <5>1
      <4> QED BY <2>1, <4>1, <4>2, <4>3
    <3> QED BY <2>1, <3>1, <3>2 DEF Below
  <2>8. Dummy(w) BY <1>2, <1>14 DEF Dummy
  <2>9. Carries(u, w, k, v)
    <3>1. \E n \in DOMAIN w.node : Live(w.node, n) /\ w.node[n].key = k BY <1>14, <2>1, <2>2
    <3>2. ASSUME NEW n \in D, Live(w.node, n)
          PROVE  \/ w.node[n].key = k /\ w.node[n].val = v
                 \/ \E m \in DOMAIN nd :
                      Live(nd, m) /\ nd[m].key = w.node[n].key /\ nd[m].val = w.node[n].val
      <4>1. CASE n = e BY <1>14, <4>1
      <4>2. CASE n = g BY <1>3, <1>11, <1>14, <4>2
      <4>3. CASE Stay(n) BY <1>14, <2>3, <3>2, <4>3
      <4> QED BY <2>1, <4>1, <4>2, <4>3
    <3>3. ASSUME NEW m \in D, Live(nd, m)
          PROVE  \E n \in DOMAIN w.node : Live(w.node, n) /\ w.node[n].key = nd[m].key
      <4>1. CASE m = mp BY <1>14, <2>1, <2>2, <4>1
      <4>2. CASE Stay(m) BY <1>14, <2>1, <2>3, <3>3, <4>2
      <4> QED BY <2>1, <2>4, <3>3, <4>1, <4>2
    <3>4. (\A m \in D : ~nd[m].dead) => \A n \in D : ~w.node[n].dead
      <4> SUFFICES ASSUME \A m \in D : ~nd[m].dead, NEW n \in D PROVE ~w.node[n].dead OBVIOUS
      <4>1. CASE n = e BY <1>14, <4>1
      <4>2. CASE n = g BY <1>14, <2>1, <4>2
      <4>3. CASE Stay(n) BY <1>14, <4>3
      <4> QED BY <2>1, <4>1, <4>2, <4>3
    <3> QED BY <2>0, <2>1, <3>1, <3>2, <3>3, <3>4 DEF Carries
  <2>10. Listed(w) BY <1>14 DEF Well, Listed
  <2> QED BY <1>14, <2>0, <2>1, <2>6, <2>7, <2>8, <2>9, <2>10 DEF Extends, Well
<1>15. CASE other # mp
  <2> DEFINE p == previous(t1, mp)
  <2>1. /\ w \in Tables /\ w.array = t1.array /\ w.lastfree = t1.lastfree
        /\ w.dummy = t1.dummy /\ DOMAIN w.node = DOMAIN nd
        /\ w.node[mp] = Fresh(k, v, 0)
        /\ w.node[f] = Relinked(nd[mp], IF nd[mp].next = 0 THEN 0 ELSE nd[mp].next + (mp - f))
        /\ w.node[p] = Relinked(nd[p], f - p)
        /\ \A n \in DOMAIN nd \ {mp, f, p} : w.node[n] = nd[n]
    <3>1. mainposition(t1, t1.node[mp].key) # mp BY <1>6, <1>7, <1>15 DEF other
    <3>2. Chained(t1.node, home(t1)) /\ t1.node[mp].val # Nil /\ t1.node[f].key = Nil
          /\ mp \in DOMAIN t1.node /\ f \in DOMAIN t1.node
      BY <1>1, <1>2, <1>3, <1>6, <1>7
    <3>3. w = MoveToFree(t1, mp, f, k, v) BY <1>5, <1>15
    <3> QED BY <1>6, <3>1, <3>2, <3>3, MoveNode
  <2>2. p \in DOMAIN nd /\ nd[p].next # 0 /\ p + nd[p].next = mp
    <3>1. mainposition(t1, t1.node[mp].key) # mp BY <1>6, <1>7, <1>15 DEF other
    <3>2. Chained(t1.node, home(t1)) /\ t1.node[mp].val # Nil /\ mp \in DOMAIN t1.node
      BY <1>1, <1>3, <1>6, <1>7
    <3> QED BY <1>6, <3>1, <3>2, Previous
  <2> HIDE DEF p
  <2>3. home(w) = home(u) BY <1>1, <2>1, HomeSame
  <2>4. Chained(w.node, home(w))
    <3>1. w.node \in Vectors BY <2>1, TableShape
    <3> DEFINE H == home(u)
               nn == w.node
    <3>2. /\ H \in [Keys -> DOMAIN nd] /\ Chained(nd, H) /\ mp = H[k] /\ H[nd[mp].key] # mp
          /\ nn \in Vectors /\ DOMAIN nn = DOMAIN nd
      BY <1>1, <1>8, <1>10, <1>12, <1>15, <2>1, <3>1
    <3>3. /\ nn[mp] = Fresh(k, v, 0)
          /\ nn[f] = Relinked(nd[mp], IF nd[mp].next = 0 THEN 0 ELSE nd[mp].next + (mp - f))
          /\ nn[p] = Relinked(nd[p], f - p)
          /\ \A n \in DOMAIN nd \ {mp, f, p} : nn[n] = nd[n]
      BY <2>1
    <3> HIDE DEF H, nn, nd
    <3>4. Chained(nn, H)
      BY <1>1, <1>2, <1>3, <1>9, <2>2, <3>2, <3>3, MoveChained
    <3> QED BY <2>3, <3>4 DEF H, nn
  <2>5. Placed(mp, f)
    <3>1. p # mp /\ p # f
      <4>1. nd[f].next = 0 BY <1>1, <1>2 DEF Chained, FreeApart
      <4>2. PICK r \in [DOMAIN nd -> Nat] : Grows(nd, r) BY <1>1 DEF Chained, Acyclic
      <4>3. r[p] < r[mp] /\ r[p] \in Nat BY <2>2, <4>2 DEF Grows
      <4> QED BY <2>2, <4>1, <4>3
    <3>2. w.node[mp].key = k /\ ~w.node[mp].dead /\ w.node[mp].val = v BY <2>1 DEF Fresh
    <3>3. w.node[f].key = nd[mp].key /\ w.node[f].dead = nd[mp].dead /\ w.node[f].val = nd[mp].val
      BY <2>1 DEF Relinked
    <3>4. w.node[p].key = nd[p].key /\ w.node[p].dead = nd[p].dead /\ w.node[p].val = nd[p].val
      BY <2>1 DEF Relinked
    <3>5. \A n : Stay(n) =>
            w.node[n].key = nd[n].key /\ w.node[n].dead = nd[n].dead /\ w.node[n].val = nd[n].val
      BY <2>1, <3>4
    <3> QED BY <1>6, <2>1, <3>2, <3>3, <3>5
  <2> HIDE DEF Placed
  <2> QED BY <1>14, <2>4, <2>5 DEF w
<1>16. CASE other = mp
  <2>0. f # mp BY <1>2, <1>11 DEF Live
  <2>1. /\ w \in Tables /\ w.array = t1.array /\ w.lastfree = t1.lastfree
        /\ w.dummy = t1.dummy /\ DOMAIN w.node = DOMAIN nd
        /\ w.node[mp] = Relinked(nd[mp], f - mp)
        /\ w.node[f] = Fresh(k, v, IF nd[mp].next = 0 THEN 0 ELSE (mp + nd[mp].next) - f)
        /\ \A n \in DOMAIN nd \ {mp, f} : w.node[n] = nd[n]
    <3>1. mp \in DOMAIN t1.node /\ f \in DOMAIN t1.node BY <1>2, <1>3, <1>6
    <3>2. w = ChainFree(t1, mp, f, k, v) BY <1>5, <1>16
    <3> QED BY <1>6, <2>0, <3>1, <3>2, ChainNode
  <2>2. home(w) = home(u) BY <1>1, <2>1, HomeSame
  <2>3. Chained(w.node, home(w))
    <3>1. w.node \in Vectors BY <2>1, TableShape
    <3> DEFINE H == home(u)
               nn == w.node
    <3>2. /\ H \in [Keys -> DOMAIN nd] /\ Chained(nd, H) /\ mp = H[k] /\ H[nd[mp].key] = mp
          /\ nn \in Vectors /\ DOMAIN nn = DOMAIN nd
      BY <1>1, <1>8, <1>10, <1>12, <1>16, <2>1, <3>1
    <3> DEFINE link == IF nd[mp].next = 0 THEN 0 ELSE (mp + nd[mp].next) - f
    <3>3. /\ nn[mp] = Relinked(nd[mp], f - mp) /\ nn[f] = Fresh(k, v, link)
          /\ nd[mp].next = 0 => link = 0
          /\ nd[mp].next # 0 => link = (mp + nd[mp].next) - f
          /\ \A n \in DOMAIN nd \ {mp, f} : nn[n] = nd[n]
      BY <2>1
    <3> HIDE DEF H, nn, nd, link
    <3>4. /\ mp \in DOMAIN nd /\ f \in DOMAIN nd /\ nd \in Vectors
          /\ nd[mp].val # Nil /\ nd[f].key = Nil
      BY <1>1, <1>2, <1>3
    <3>5. Chained(nn, H) BY <1>9, <3>2, <3>3, <3>4, BehindChained
    <3> QED BY <2>2, <3>5 DEF H, nn
  <2>4. Placed(f, mp)
    <3>1. w.node[f].key = k /\ ~w.node[f].dead /\ w.node[f].val = v BY <2>1 DEF Fresh
    <3>2. w.node[mp].key = nd[mp].key /\ w.node[mp].dead = nd[mp].dead
          /\ w.node[mp].val = nd[mp].val
      BY <2>1 DEF Relinked
    <3> QED BY <1>6, <2>1, <3>1, <3>2
  <2> HIDE DEF Placed
  <2> QED BY <1>14, <2>3, <2>4 DEF w
<1> QED BY <1>15, <1>16

(* A lookup gives a value.                                                       *)
LEMMA GetType ==
  ASSUME NEW u, Well(u), NEW k \in Keys
  PROVE  luaH_get(u, k) \in Values \cup {Nil}
<1>1. CASE InArray(u, k)
  <2>1. u.array \in Seq(Values \cup {Nil}) BY TableShape DEF Well
  <2>2. u.array[k] \in Values \cup {Nil} BY <1>1, <2>1 DEF InArray
  <2> QED BY <1>1, <2>2, KeysAreKeys DEF luaH_get
<1>2. CASE ~InArray(u, k) /\ Find(u, k) = None BY <1>2, KeysAreKeys DEF luaH_get
<1>3. CASE ~InArray(u, k) /\ Find(u, k) # None
  <2>1. Find(u, k) \in DOMAIN u.node BY <1>3, FoundIsLive
  <2>2. u.node[Find(u, k)] \in Node BY <2>1, TableShape DEF Well
  <2> QED BY <1>3, <2>2, KeysAreKeys DEF luaH_get, Node
<1> QED BY <1>1, <1>2, <1>3

(* The table after k has been given value v.                                        *)
Stores(u, w, k, v) ==
  /\ Well(w) /\ Len(w.array) = Len(u.array) /\ DOMAIN w.node = DOMAIN u.node
  /\ w.dummy = u.dummy
  /\ \A j \in Keys : luaH_get(w, j) = IF j = k THEN v ELSE luaH_get(u, j)
  /\ (\A m \in DOMAIN u.node : ~u.node[m].dead) => \A n \in DOMAIN w.node : ~w.node[n].dead
  /\ \A n \in DOMAIN w.node : Live(w.node, n) =>
       \/ w.node[n].key = k
       \/ \E m \in DOMAIN u.node : Live(u.node, m) /\ u.node[m].key = w.node[n].key

(* Other values in the slots of the array part leave the hash part alone.                *)
LEMMA NewSlots ==
  ASSUME NEW u, Well(u), NEW a2 \in Seq(Values \cup {Nil}), Len(a2) = Len(u.array),
         \A i \in 1..Len(a2) : a2[i] # Nil => i \in Keys
  PROVE  LET w == [u EXCEPT !.array = a2]
         IN  /\ Well(w) /\ w.array = a2 /\ w.node = u.node /\ w.dummy = u.dummy
             /\ \A k \in Keys : luaH_get(w, k) = IF InArray(u, k) THEN a2[k] ELSE luaH_get(u, k)
<1> DEFINE w == [u EXCEPT !.array = a2]
<1>1. u \in Tables BY DEF Well
<1>2. /\ w \in Tables /\ w.array = a2 /\ w.node = u.node /\ w.lastfree = u.lastfree
      /\ w.dummy = u.dummy
  BY <1>1 DEF Tables
<1> HIDE DEF w
<1>3. home(w) = home(u) BY <1>1, <1>2, HomeSame
<1>4. \A x : InArray(w, x) <=> InArray(u, x) BY <1>2 DEF InArray
<1>5. Well(w)
  <2>1. HashOnly(w) BY <1>2, <1>4 DEF Well, HashOnly
  <2>2. Below(w) /\ Dummy(w) BY <1>2 DEF Well, Below, Dummy
  <2>3. Listed(w) BY <1>2 DEF Listed
  <2> QED BY <1>2, <1>3, <2>1, <2>2, <2>3 DEF Well
<1>6. ASSUME NEW k \in Keys
      PROVE  luaH_get(w, k) = IF InArray(u, k) THEN a2[k] ELSE luaH_get(u, k)
  <2>1. Find(w, k) = Find(u, k)
    <3>1. u.node \in Vectors /\ Linked(u.node) BY TableShape DEF Well, Chained
    <3> QED BY <1>2, <3>1, SearchSame DEF Find
  <2> QED BY <1>2, <1>4, <2>1, KeysAreKeys DEF luaH_get
<1> QED BY <1>2, <1>5, <1>6 DEF w

(* A slot of the array part.                                                      *)
LEMMA InsertInArray ==
  ASSUME NEW u, Well(u), NEW k \in Keys, NEW v \in Values \cup {Nil}, InArray(u, k)
  PROVE  Stores(u, [u EXCEPT !.array[k] = v], k, v)
<1> DEFINE a2 == [u.array EXCEPT ![k] = v]
           w == [u EXCEPT !.array[k] = v]
<1>1. u \in Tables /\ u.array \in Seq(Values \cup {Nil}) BY TableShape DEF Well
<1>2. a2 \in Seq(Values \cup {Nil}) /\ Len(a2) = Len(u.array)
  BY <1>1 DEF InArray
<1>3. a2[k] = v /\ \A i \in 1..Len(u.array) : i # k => a2[i] = u.array[i]
  BY <1>1 DEF InArray
<1> HIDE DEF a2
<1>4. w = [u EXCEPT !.array = a2] BY DEF a2
<1> HIDE DEF w
<1>5. \A i \in 1..Len(a2) : a2[i] # Nil => i \in Keys BY <1>2, <1>3 DEF Well, Listed
<1>6. /\ Well(w) /\ w.array = a2 /\ w.node = u.node /\ w.dummy = u.dummy
      /\ \A j \in Keys : luaH_get(w, j) = IF InArray(u, j) THEN a2[j] ELSE luaH_get(u, j)
  BY <1>2, <1>4, <1>5, NewSlots
<1>7. ASSUME NEW j \in Keys PROVE luaH_get(w, j) = IF j = k THEN v ELSE luaH_get(u, j)
  <2>1. InArray(u, j) => luaH_get(u, j) = u.array[j] /\ j \in 1..Len(u.array)
    BY KeysAreKeys DEF luaH_get, InArray
  <2> QED BY <1>3, <1>6, <2>1
<1> QED BY <1>2, <1>6, <1>7 DEF Stores, w

(* The value of a node.                                                          *)
LEMMA InsertInNode ==
  ASSUME NEW u, Well(u), NEW k \in Keys, NEW v \in Values \cup {Nil},
         ~InArray(u, k), Find(u, k) # None
  PROVE  Stores(u, [u EXCEPT !.node[Find(u, k)].val = v], k, v)
<1> DEFINE f == Find(u, k)
           nd == u.node
           nn == [nd EXCEPT ![f].val = v]
           w == [u EXCEPT !.node[f].val = v]
<1>1. u \in Tables /\ nd \in Vectors /\ \A n \in DOMAIN nd : nd[n] \in Node
  BY TableShape DEF Well
<1>2. f \in DOMAIN nd /\ nd[f].key = k /\ Live(nd, f) BY FoundIsLive
<1> HIDE DEF f
<1>3. w = [u EXCEPT !.node = nn] BY <1>1 DEF Tables
<1>4. /\ DOMAIN nn = DOMAIN nd /\ nn = [n \in DOMAIN nd |-> nn[n]]
      /\ nn[f] = [nd[f] EXCEPT !.val = v]
      /\ \A n \in DOMAIN nd \ {f} : nn[n] = nd[n]
  BY <1>2
<1> HIDE DEF nn
<1>5. /\ nn[f] \in Node /\ nn[f].key = k /\ ~nn[f].dead /\ nn[f].val = v
      /\ nn[f].next = nd[f].next
  BY <1>1, <1>2, <1>4 DEF Node, Live
<1>6. nn \in Vectors
  <2>1. \A n \in DOMAIN nd : nn[n] \in Node BY <1>1, <1>4, <1>5
  <2> HIDE DEF nd
  <2> QED BY <1>1, <1>4, <2>1, VectorOf
<1>7. /\ w \in Tables /\ w.array = u.array /\ w.node = nn /\ w.lastfree = u.lastfree
      /\ w.dummy = u.dummy
  BY <1>1, <1>3, <1>6 DEF Tables
<1> HIDE DEF w
<1>8. home(w) = home(u) /\ home(u) \in [Keys -> DOMAIN nd] BY <1>1, <1>4, <1>7, HomeSame, HomeType
<1>9. \A x : InArray(w, x) <=> InArray(u, x) BY <1>7 DEF InArray
<1>10. k # Nil BY KeysAreKeys
<1>11. Chained(nn, home(u))
  <2> DEFINE H == home(u)
  <2>1. ASSUME NEW n \in DOMAIN nd
        PROVE  /\ nn[n].key = nd[n].key /\ nn[n].next = nd[n].next
               /\ nd[n].dead => nn[n].dead
               /\ nn[n].dead => nn[n].key # Nil /\ nn[n].val = Nil
               /\ nn[n].key = Nil => nn[n].val = Nil
    <3>1. CASE n = f BY <1>2, <1>5, <1>10, <3>1 DEF Live
    <3>2. CASE n # f
      <4>1. nd[n].dead => nd[n].key # Nil /\ nd[n].val = Nil BY DEF Well, Chained, FreeApart, DeadEmpty
      <4>2. nd[n].key = Nil => nd[n].val = Nil BY DEF Well, Chained, FreeApart
      <4> QED BY <1>4, <3>2, <4>1, <4>2
    <3> QED BY <3>1, <3>2
  <2>2. Chained(nd, H) /\ H \in [Keys -> DOMAIN nd] BY <1>8 DEF Well
  <2> HIDE DEF H, nd
  <2>3. Chained(nn, H) BY <1>1, <1>4, <1>6, <2>1, <2>2, SameChains
  <2> QED BY <2>3 DEF H
<1>12. \A n \in DOMAIN nd : nn[n].key = nd[n].key BY <1>2, <1>4, <1>5
<1>13. Well(w)
  <2>1. HashOnly(w) BY <1>4, <1>7, <1>9, <1>12 DEF Well, HashOnly
  <2>2. Below(w) BY <1>4, <1>7, <1>12 DEF Well, Below
  <2>3. Dummy(w) BY <1>4, <1>7, <1>12 DEF Well, Dummy
  <2>4. Listed(w) BY <1>7 DEF Well, Listed
  <2> QED BY <1>7, <1>8, <1>11, <2>1, <2>2, <2>3, <2>4 DEF Well
<1>14. \A n \in DOMAIN nd : Live(nn, n) <=> Live(nd, n) BY <1>2, <1>4, <1>5, <1>10 DEF Live
<1>15. ASSUME NEW j \in Keys PROVE luaH_get(w, j) = IF j = k THEN v ELSE luaH_get(u, j)
  <2>1. CASE j = k
    <3>1. f \in DOMAIN w.node /\ Live(w.node, f) /\ w.node[f].key = k /\ w.node[f].val = v
      BY <1>2, <1>4, <1>5, <1>7, <1>14
    <3>2. luaH_get(w, k) = v BY <1>13, <3>1, GetOfLive
    <3> QED BY <2>1, <3>2
  <2>2. CASE j # k
    <3>1. ASSUME NEW n \in DOMAIN nd, nd[n].key = j PROVE nn[n] = nd[n] BY <1>2, <1>4, <2>2, <3>1
    <3>2. w.node = nn /\ DOMAIN w.node = DOMAIN nd BY <1>4, <1>7
    <3>3. ASSUME NEW n \in DOMAIN w.node, Live(w.node, n) /\ w.node[n].key = j
          PROVE  \E m \in DOMAIN u.node :
                   Live(u.node, m) /\ u.node[m].key = j /\ u.node[m].val = w.node[n].val
      <4>1. nd[n].key = j /\ Live(nd, n) BY <1>12, <1>14, <3>2, <3>3
      <4>2. nn[n] = nd[n] BY <3>1, <3>2, <3>3, <4>1
      <4> QED BY <3>2, <3>3, <4>1, <4>2
    <3>4. ASSUME NEW m \in DOMAIN u.node, Live(u.node, m) /\ u.node[m].key = j
          PROVE  \E n \in DOMAIN w.node : Live(w.node, n) /\ w.node[n].key = j
      BY <1>12, <1>14, <3>2, <3>4
    <3>5. luaH_get(w, j) = luaH_get(u, j)
      <4> HIDE DEF nd
      <4> QED BY <1>7, <1>13, <3>3, <3>4, GetSame
    <3> QED BY <2>2, <3>5
  <2> QED BY <2>1, <2>2
<1>16. (\A m \in DOMAIN nd : ~nd[m].dead) => \A n \in DOMAIN nn : ~nn[n].dead BY <1>4, <1>5
<1> QED BY <1>4, <1>7, <1>12, <1>13, <1>14, <1>15, <1>16 DEF Stores, w, f

(* A new key in the hash part.                                                     *)
LEMMA InsertNew ==
  ASSUME NEW u, Well(u), NEW w, NEW k \in Keys, NEW v \in Values \cup {Nil},
         ~InArray(u, k), Find(u, k) = None, Extends(u, w, k, v)
  PROVE  Stores(u, w, k, v)
<1>1. /\ Well(w) /\ w.array = u.array /\ w.dummy = u.dummy /\ DOMAIN w.node = DOMAIN u.node
      /\ Carries(u, w, k, v)
  BY DEF Extends
<1>2. \A n \in DOMAIN u.node : Live(u.node, n) => u.node[n].key # k
  <2> SUFFICES ASSUME NEW n \in DOMAIN u.node, Live(u.node, n), u.node[n].key = k PROVE FALSE
    OBVIOUS
  <2>1. Find(u, k) = n BY Lookup
  <2> QED BY <2>1, TableShape DEF None, Well
<1>3. ASSUME NEW j \in Keys PROVE luaH_get(w, j) = IF j = k THEN v ELSE luaH_get(u, j)
  <2>1. CASE j = k
    <3>1. PICK n \in DOMAIN w.node : Live(w.node, n) /\ w.node[n].key = k BY <1>1 DEF Carries
    <3>2. w.node[n].val = v BY <1>1, <1>2, <3>1 DEF Carries
    <3>3. luaH_get(w, k) = v BY <1>1, <3>1, <3>2, GetOfLive
    <3> QED BY <2>1, <3>3
  <2>2. CASE j # k
    <3>1. ASSUME NEW n \in DOMAIN w.node, Live(w.node, n), w.node[n].key = j
          PROVE  \E m \in DOMAIN u.node :
                   Live(u.node, m) /\ u.node[m].key = j /\ u.node[m].val = w.node[n].val
      BY <1>1, <2>2, <3>1 DEF Carries
    <3>2. ASSUME NEW m \in DOMAIN u.node, Live(u.node, m), u.node[m].key = j
          PROVE  \/ u.node[m].val = Nil
                 \/ \E n \in DOMAIN w.node : Live(w.node, n) /\ w.node[n].key = j
      BY <1>1, <2>2, <3>2 DEF Carries
    <3>3. luaH_get(w, j) = luaH_get(u, j) BY <1>1, <3>1, <3>2, GetSame
    <3> QED BY <2>2, <3>3
  <2> QED BY <2>1, <2>2
<1>4. ASSUME NEW n \in DOMAIN w.node, Live(w.node, n)
      PROVE  \/ w.node[n].key = k
             \/ \E m \in DOMAIN u.node : Live(u.node, m) /\ u.node[m].key = w.node[n].key
  BY <1>1, <1>4 DEF Carries
<1>5. (\A m \in DOMAIN u.node : ~u.node[m].dead) => \A n \in DOMAIN w.node : ~w.node[n].dead
  BY <1>1 DEF Carries
<1> QED BY <1>1, <1>3, <1>4, <1>5 DEF Stores

(* As long as there is room, a key and its value are found, and the others still are.     *)
LEMMA InsertStores ==
  ASSUME NEW u, Well(u), NEW k \in Keys, NEW v \in Values \cup {Nil}, ~Full(u, k)
  PROVE  Stores(u, Insert(u, k, v), k, v)
<1>1. CASE InArray(u, k) BY <1>1, InsertInArray DEF Insert
<1>2. CASE ~InArray(u, k) /\ Find(u, k) # None BY <1>2, InsertInNode DEF Insert
<1>3. CASE ~InArray(u, k) /\ Find(u, k) = None
  <2>1. Insert(u, k, v) = luaH_newkey(u, k, v) BY <1>3 DEF Insert
  <2>2. CASE ~Taken(u, mainposition(u, k))
    <3>1. luaH_newkey(u, k, v) = Put(u, mainposition(u, k), k, v) BY <2>2 DEF luaH_newkey
    <3>2. Extends(u, luaH_newkey(u, k, v), k, v) BY <1>3, <2>2, <3>1, NewInPlace
    <3> QED BY <1>3, <2>1, <3>2, InsertNew
  <2>3. CASE Taken(u, mainposition(u, k))
    <3>1. getfreepos(u) # {} BY <1>3, <2>3 DEF Full
    <3>2. Extends(u, luaH_newkey(u, k, v), k, v) BY <1>3, <2>3, <3>1, NewBesides
    <3> QED BY <1>3, <2>1, <3>2, InsertNew
  <2> QED BY <2>2, <2>3
<1> QED BY <1>1, <1>2, <1>3

-----------------------------------------------------------------------------
(* New sizes.                                                                   *)

(* The powers of two grow.                                                         *)
LEMMA Powers ==
  /\ twoto \in [Nat -> Nat]
  /\ \A i \in Nat : twoto[i] >= i + 1 /\ twoto[i + 1] = 2 * twoto[i]
<1> DEFINE f == [x \in Nat |-> 2 * x]
           T == {i \in Nat : twoto[i] >= i + 1}
<1>1. f \in [Nat -> Nat] OBVIOUS
<1>2. twoto = Iterated(f, 1) BY DEF twoto
<1> HIDE DEF f
<1>3. twoto \in [Nat -> Nat] BY <1>1, <1>2, IteratedType
<1>4. twoto[0] = 1 /\ \A i \in Nat : twoto[i + 1] = f[twoto[i]]
  <2> HIDE DEF twoto
  <2>1. Iterated(f, 1)[0] = 1 BY <1>1, IteratedStep
  <2>2. ASSUME NEW i \in Nat PROVE Iterated(f, 1)[i + 1] = f[Iterated(f, 1)[i]]
    BY <1>1, IteratedStep
  <2> QED BY <1>2, <2>1, <2>2
<1>5. \A i \in Nat : twoto[i + 1] = 2 * twoto[i] BY <1>3, <1>4 DEF f
<1>6. T = Nat
  <2>1. T \in SUBSET Nat /\ 0 \in T BY <1>4
  <2>2. ASSUME NEW i \in T PROVE i + 1 \in T BY <1>3, <1>5
  <2> HIDE DEF T
  <2> QED BY <2>1, <2>2, SetInduction
<1>7. \A i \in Nat : twoto[i] >= i + 1 BY <1>6
<1> QED BY <1>3, <1>5, <1>7

(* A hash part has at least the nodes that it was asked for, all of them empty.         *)
LEMMA NewVector ==
  ASSUME NEW size \in Nat
  PROVE  LET nd == setnodevector(size)
         IN  /\ nd \in Vectors /\ Cardinality(DOMAIN nd) >= size
             /\ \A n \in DOMAIN nd :
                  nd[n] = [key |-> Nil, dead |-> FALSE, val |-> Nil, next |-> 0]
<1> DEFINE P == {twoto[i] : i \in {j \in 0..size : twoto[j] >= size}}
           N == Min(P)
           e == [key |-> Nil, dead |-> FALSE, val |-> Nil, next |-> 0]
<1>1. P \in SUBSET Nat /\ P # {} /\ \A x \in P : x >= size /\ x >= 1
  <2>1. \A i \in 0..size : twoto[i] \in Nat /\ twoto[i] >= 1 BY Powers
  <2>2. size \in {j \in 0..size : twoto[j] >= size} BY Powers
  <2> QED BY <2>1, <2>2
<1> HIDE DEF P
<1>2. N \in P BY <1>1, LeastElement
<1> HIDE DEF N
<1>3. N \in Nat \ {0} /\ N >= size BY <1>1, <1>2
<1>4. e \in Node BY DEF Node
<1> HIDE DEF e
<1>5. setnodevector(size) = [n \in 0..N - 1 |-> e] BY DEF setnodevector, N, P, e
<1> DEFINE nd == [n \in 0..N - 1 |-> e]
<1>6. nd \in Vectors /\ DOMAIN nd = 0..N - 1 /\ \A n \in DOMAIN nd : nd[n] = e
  BY <1>3, <1>4 DEF Vectors
<1>7. Cardinality(0..N - 1) = N BY <1>3, FS_Interval
<1> HIDE DEF nd
<1> QED BY <1>3, <1>5, <1>6, <1>7 DEF nd, e

(* A hash part with fewer keys than nodes can take another one.                        *)
LEMMA Room ==
  ASSUME NEW u, Well(u), \A n \in DOMAIN u.node : ~u.node[n].dead, ~u.dummy,
         NEW H, IsFiniteSet(H), \A n \in DOMAIN u.node : Live(u.node, n) => u.node[n].key \in H,
         Cardinality(H) < Cardinality(DOMAIN u.node)
  PROVE  getfreepos(u) # {}
<1> SUFFICES ASSUME getfreepos(u) = {} PROVE FALSE OBVIOUS
<1> DEFINE D == DOMAIN u.node
           f == [n \in D |-> u.node[n].key]
<1>1. u.node \in Vectors /\ u.lastfree \in Nat BY TableShape DEF Well
<1>2. D = 0..Cardinality(D) - 1 /\ Cardinality(D) \in Nat /\ IsFiniteSet(D) BY <1>1, VectorSize
<1>3. ASSUME NEW n \in D PROVE Live(u.node, n)
  <2>1. CASE n >= u.lastfree BY <2>1 DEF Well, Below, Live
  <2>2. CASE ~(n >= u.lastfree)
    <3>1. n \in 0..u.lastfree - 1 BY <1>1, <1>2, <2>2
    <3> QED BY <3>1 DEF getfreepos, Live
  <2> QED BY <2>1, <2>2
<1>4. f \in [D -> H] /\ \A n, m \in D : f[n] = f[m] => n = m BY <1>3, KeysUnique
<1> HIDE DEF f, D
<1>5. f \in Injection(D, H) BY <1>4 DEF Injection, IsInjective
<1>6. Cardinality(D) <= Cardinality(H) BY <1>5, FS_Injection
<1>7. Cardinality(H) \in Nat BY FS_CardinalityType
<1> QED BY <1>2, <1>6, <1>7 DEF D

(* A table whose hash part has as many nodes as it may hold keys has room for the     *)
(* next one.                                                                          *)
LEMMA NotFull ==
  ASSUME NEW u, Well(u), \A n \in DOMAIN u.node : ~u.node[n].dead,
         NEW H, IsFiniteSet(H), \A n \in DOMAIN u.node : Live(u.node, n) => u.node[n].key \in H,
         Cardinality(H) <= Cardinality(DOMAIN u.node), H # {} => ~u.dummy,
         NEW k \in Keys, InArray(u, k) \/ k \in H
  PROVE  ~Full(u, k)
<1> SUFFICES ASSUME ~InArray(u, k), Find(u, k) = None PROVE getfreepos(u) # {} BY DEF Full
<1>1. k \in H OBVIOUS
<1>2. IsFiniteSet(H \ {k}) /\ Cardinality(H \ {k}) = Cardinality(H) - 1
  BY <1>1, FS_RemoveElement
<1>3. ASSUME NEW n \in DOMAIN u.node, Live(u.node, n) PROVE u.node[n].key \in H \ {k}
  <2>1. u.node[n].key = k => Find(u, k) = n BY <1>3, Lookup
  <2>2. n # None BY TableShape DEF Well, None
  <2> QED BY <1>3, <2>1, <2>2
<1>4. Cardinality(H) \in Nat /\ Cardinality(DOMAIN u.node) \in Nat
  BY FS_CardinalityType, TableShape, VectorSize DEF Well
<1>5. Cardinality(H \ {k}) < Cardinality(DOMAIN u.node) BY <1>2, <1>4
<1>6. ~u.dummy BY <1>1
<1> HIDE DEF Well
<1> QED BY <1>2, <1>3, <1>5, <1>6, Room

(* A new table has the slots of its array part and nothing else.                       *)
LEMMA EmptyTable ==
  ASSUME NEW array \in Seq(Values \cup {Nil}), NEW size \in Nat,
         \A i \in 1..Len(array) : array[i] # Nil => i \in Keys
  PROVE  LET w == Empty(array, size)
         IN  /\ Well(w) /\ w.array = array /\ w.dummy = (size = 0)
             /\ Cardinality(DOMAIN w.node) >= size
             /\ \A n \in DOMAIN w.node : ~w.node[n].dead /\ ~Live(w.node, n)
             /\ \A k \in Keys : luaH_get(w, k) = IF InArray(w, k) THEN array[k] ELSE Nil
<1> DEFINE w == Empty(array, size)
           nd == setnodevector(size)
           H == home(w)
<1>1. /\ nd \in Vectors /\ Cardinality(DOMAIN nd) >= size
      /\ \A n \in DOMAIN nd : nd[n] = [key |-> Nil, dead |-> FALSE, val |-> Nil, next |-> 0]
  BY NewVector
<1>2. Cardinality(DOMAIN nd) \in Nat BY <1>1, VectorSize
<1>3. /\ w.array = array /\ w.node = nd /\ w.dummy = (size = 0)
      /\ w.lastfree = (IF size = 0 THEN 0 ELSE Cardinality(DOMAIN nd))
      /\ w \in Tables
  BY <1>1, <1>2 DEF Empty, Tables
<1> HIDE DEF nd, w
<1>4. \A n \in DOMAIN nd : /\ nd[n].key = Nil /\ ~nd[n].dead /\ nd[n].val = Nil /\ nd[n].next = 0
                           /\ ~Live(nd, n)
  BY <1>1 DEF Live
<1>5. Chained(nd, H)
  <2>1. Acyclic(nd)
    <3>1. [n \in DOMAIN nd |-> 0] \in [DOMAIN nd -> Nat] OBVIOUS
    <3>2. Grows(nd, [n \in DOMAIN nd |-> 0]) BY <1>4 DEF Grows
    <3> QED BY <3>1, <3>2 DEF Acyclic
  <2> QED BY <1>4, <2>1 DEF Chained, Linked, OneLink, FreeApart, DeadEmpty, OnChain, Headed
<1>6. HashOnly(w) /\ Dummy(w) /\ Listed(w) BY <1>3, <1>4 DEF HashOnly, Dummy, Listed
<1>7. Below(w)
  <2>1. w.lastfree <= Cardinality(DOMAIN w.node) BY <1>2, <1>3
  <2>2. ASSUME ~w.dummy, NEW n \in DOMAIN w.node, n >= w.lastfree PROVE FALSE
    <3>1. w.lastfree = Cardinality(DOMAIN nd) BY <1>3, <2>2
    <3>2. n \in 0..Cardinality(DOMAIN nd) - 1 BY <1>1, <1>3, <2>2, VectorSize
    <3> QED BY <1>2, <2>2, <3>1, <3>2
  <2> QED BY <2>1, <2>2 DEF Below
<1>8. Well(w) BY <1>3, <1>5, <1>6, <1>7 DEF Well
<1>9. ASSUME NEW k \in Keys PROVE luaH_get(w, k) = IF InArray(w, k) THEN array[k] ELSE Nil
  <2>1. CASE InArray(w, k) BY <1>3, <2>1, KeysAreKeys DEF luaH_get
  <2>2. CASE ~InArray(w, k) BY <1>3, <1>4, <1>8, <2>2, GetOfNone
  <2> QED BY <2>1, <2>2
<1> QED BY <1>1, <1>3, <1>4, <1>8, <1>9 DEF w

(* The array part of the new table, and what is put into it, one after the other.        *)
Slot(u, nasize) ==
  [i \in 1..Max({nasize, Len(u.array)}) |-> IF i <= Len(u.array) THEN u.array[i] ELSE Nil]
Gone(u, nasize) == Len(Slot(u, nasize)) - nasize
Entry(u, nasize, i) ==
  IF i <= Gone(u, nasize) THEN [key |-> nasize + i, val |-> Slot(u, nasize)[nasize + i]]
  ELSE u.node[sizenode(u) - (i - Gone(u, nasize))]
Base(u, nasize, nhsize) == Empty([j \in 1..nasize |-> Slot(u, nasize)[j]], nhsize)
Entered(u, nasize, i, w) ==
  IF Entry(u, nasize, i).val = Nil THEN w
  ELSE Insert(w, Entry(u, nasize, i).key, Entry(u, nasize, i).val)

(* luaH_resize() is a sequence of insertions into the new table, one for each slot    *)
(* that vanishes and each old node that has a value.                                  *)
LEMMA ResizeSteps ==
  ASSUME NEW u, NEW na, NEW nh, Gone(u, na) + sizenode(u) \in Nat
  PROVE  \E z : /\ z[0] = Base(u, na, nh)
                /\ \A i \in 1..Gone(u, na) + sizenode(u) : z[i] = Entered(u, na, i, z[i - 1])
                /\ luaH_resize(u, na, nh) = z[Gone(u, na) + sizenode(u)]
<1> DEFINE L == Gone(u, na) + sizenode(u)
           b == Base(u, na, nh)
           Step(i, w) == Entered(u, na, i, w)
           Eq(g) == g = [i \in 0..L |-> IF i = 0 THEN b ELSE Step(i, g[i - 1])]
           z == CHOOSE g : Eq(g)
<1>1. luaH_resize(u, na, nh) = z[L]
  BY DEF luaH_resize, Slot, Gone, Entry, Base, Entered
<1> HIDE DEF L, b, Step
<1> DEFINE Def(g, n) == /\ g = [i \in 0..n |-> g[i]] /\ g[0] = b
                        /\ \A i \in 1..n : g[i] = Step(i, g[i - 1])
           T == {n \in Nat : \E g : Def(g, n)}
<1>2. 0 \in T
  <2>1. Def([i \in 0..0 |-> b], 0) OBVIOUS
  <2> QED BY <2>1
<1>3. ASSUME NEW n \in T PROVE n + 1 \in T
  <2>1. PICK g : Def(g, n) OBVIOUS
  <2> DEFINE h == [i \in 0..n + 1 |-> IF i = n + 1 THEN Step(i, g[n]) ELSE g[i]]
  <2>2. n \in Nat OBVIOUS
  <2>3. h = [i \in 0..n + 1 |-> h[i]] /\ h[0] = b BY <2>1, <2>2
  <2>4. ASSUME NEW i \in 1..n + 1 PROVE h[i] = Step(i, h[i - 1])
    <3>1. CASE i = n + 1 BY <2>2, <3>1
    <3>2. CASE i # n + 1
      <4>1. i \in 1..n /\ i - 1 \in 0..n /\ h[i] = g[i] /\ h[i - 1] = g[i - 1] BY <2>2, <3>2
      <4> QED BY <2>1, <4>1
    <3> QED BY <3>1, <3>2
  <2> HIDE DEF h
  <2>5. Def(h, n + 1) BY <2>3, <2>4
  <2>6. n + 1 \in Nat BY <2>2
  <2> HIDE DEF Def
  <2> QED BY <2>5, <2>6
<1>4. T = Nat
  <2>1. T \in SUBSET Nat OBVIOUS
  <2> HIDE DEF T
  <2> QED BY <1>2, <1>3, <2>1, SetInduction
<1>5. L \in Nat BY DEF L
<1>6. PICK g : Def(g, L) BY <1>4, <1>5
<1>7. Eq(g)
  <2>1. ASSUME NEW i \in 0..L PROVE g[i] = IF i = 0 THEN b ELSE Step(i, g[i - 1])
    <3>1. CASE i = 0 BY <1>6, <3>1
    <3>2. CASE i # 0
      <4>1. i \in 1..L BY <1>5, <3>2
      <4> QED BY <1>6, <3>2, <4>1
    <3> QED BY <3>1, <3>2
  <2>2. g = [i \in 0..L |-> g[i]] BY <1>6
  <2>3. [i \in 0..L |-> g[i]] = [i \in 0..L |-> IF i = 0 THEN b ELSE Step(i, g[i - 1])]
    BY <2>1
  <2> QED BY <2>2, <2>3
<1>8. Eq(z)
  <2> HIDE DEF Eq
  <2> QED BY <1>7
<1> HIDE DEF z
<1>9. z[0] = b BY <1>5, <1>8
<1>10. ASSUME NEW i \in 1..L PROVE z[i] = Step(i, z[i - 1])
  <2>1. i \in 0..L /\ i # 0 BY <1>5
  <2> QED BY <1>8, <2>1
<1> QED BY <1>1, <1>9, <1>10 DEF L, b, Step

(* The entries are what the old table has and no slot of the new array part shows yet.    *)
LEMMA Entries ==
  ASSUME NEW u, Well(u), NEW na \in Nat
  PROVE  LET L == Gone(u, na) + sizenode(u)
         IN  /\ Gone(u, na) \in Nat /\ sizenode(u) \in Nat
             /\ \A i \in 1..L : Entry(u, na, i).val # Nil =>
                  /\ Entry(u, na, i).key \in Keys
                  /\ luaH_get(u, Entry(u, na, i).key) = Entry(u, na, i).val
             /\ \A k \in Keys :
                  luaH_get(u, k) # Nil /\ ~(InArray(u, k) /\ k <= na) =>
                    \E i \in 1..L : Entry(u, na, i).key = k /\ Entry(u, na, i).val # Nil
<1> DEFINE A == Len(u.array)
           N == sizenode(u)
           M == Max({na, A})
           G == Gone(u, na)
           L == G + N
           E(i) == Entry(u, na, i)
<1>1. /\ u.array \in Seq(Values \cup {Nil}) /\ A \in Nat /\ u.node \in Vectors
      /\ N \in Nat \ {0} /\ DOMAIN u.node = 0..N - 1
  BY TableShape, VectorSize DEF Well, sizenode
<1> HIDE DEF A, N
<1>2. M \in Nat /\ M >= na /\ M >= A /\ M \in {na, A}
  <2>1. {na, A} \in SUBSET Nat /\ {na, A} # {} /\ na + A \in Nat /\ \A x \in {na, A} : x <= na + A
    BY <1>1
  <2>2. Max({na, A}) \in {na, A} /\ \A x \in {na, A} : x <= Max({na, A}) BY <2>1, GreatestElement
  <2> HIDE DEF M
  <2>3. M = Max({na, A}) BY DEF M
  <2> QED BY <1>1, <2>2, <2>3
<1> HIDE DEF M
<1>3. Slot(u, na) = [i \in 1..M |-> IF i <= A THEN u.array[i] ELSE Nil] BY DEF Slot, M, A
<1>4. Len(Slot(u, na)) = M BY <1>2, <1>3
<1>5. G = M - na /\ G \in Nat BY <1>2, <1>4 DEF Gone
<1> HIDE DEF G
<1>6. \A i : E(i) = IF i <= G THEN [key |-> na + i, val |-> Slot(u, na)[na + i]]
                    ELSE u.node[N - (i - G)]
  BY DEF Entry, G, N
<1> HIDE DEF E
<1>7. ASSUME NEW i \in 1..L, E(i).val # Nil
      PROVE  E(i).key \in Keys /\ luaH_get(u, E(i).key) = E(i).val
  <2>1. CASE i <= G
    <3>1. E(i).key = na + i /\ E(i).val = Slot(u, na)[na + i] BY <1>6, <2>1
    <3>2. na + i \in 1..M BY <1>2, <1>5, <2>1
    <3>3. na + i <= A /\ E(i).val = u.array[na + i] BY <1>3, <1>7, <3>1, <3>2
    <3>4. na + i \in 1..A BY <1>1, <3>2, <3>3
    <3>5. na + i \in Keys BY <1>7, <3>3, <3>4 DEF Well, Listed, A
    <3>6. na + i \notin Strings \cup Pointers BY <3>2, TableAssumption
    <3>7. InArray(u, na + i) BY <3>4, <3>6 DEF InArray, A
    <3> QED BY <3>1, <3>3, <3>5, <3>7, KeysAreKeys DEF luaH_get
  <2>2. CASE ~(i <= G)
    <3> DEFINE n == N - (i - G)
    <3>1. n \in DOMAIN u.node BY <1>1, <1>5, <2>2
    <3>2. E(i) = u.node[n] BY <1>6, <2>2
    <3> HIDE DEF n
    <3>3. Live(u.node, n)
      BY <1>7, <3>1, <3>2 DEF Well, Chained, FreeApart, DeadEmpty, Live
    <3>4. E(i).key \in Keys
      <4>1. u.node[n] \in Node BY <3>1, TableShape DEF Well
      <4> QED BY <3>2, <3>3, <4>1 DEF Live, Node
    <3>5. luaH_get(u, u.node[n].key) = u.node[n].val BY <3>1, <3>3, GetOfLive
    <3> QED BY <3>2, <3>4, <3>5
  <2> QED BY <2>1, <2>2
<1>8. ASSUME NEW k \in Keys, luaH_get(u, k) # Nil, ~(InArray(u, k) /\ k <= na)
      PROVE  \E i \in 1..L : E(i).key = k /\ E(i).val # Nil
  <2>1. CASE InArray(u, k)
    <3>1. k \in 1..A /\ k > na BY <1>1, <1>8, <2>1 DEF InArray, A
    <3> DEFINE i == k - na
    <3>2. i \in 1..L /\ i <= G /\ na + i = k BY <1>1, <1>2, <1>5, <3>1
    <3>3. k \in 1..M BY <1>1, <1>2, <3>1
    <3>4. Slot(u, na)[k] = u.array[k] BY <1>1, <1>3, <3>1, <3>3
    <3>5. luaH_get(u, k) = u.array[k] BY <2>1, KeysAreKeys DEF luaH_get
    <3>6. E(i).key = k /\ E(i).val = u.array[k] BY <1>6, <3>2, <3>4
    <3> QED BY <1>8, <3>2, <3>5, <3>6
  <2>2. CASE ~InArray(u, k)
    <3>1. Find(u, k) # None BY <1>8, <2>2, KeysAreKeys DEF luaH_get
    <3> DEFINE n == Find(u, k)
    <3>2. n \in DOMAIN u.node /\ u.node[n].key = k BY <3>1, FoundIsLive
    <3>3. luaH_get(u, k) = u.node[n].val BY <2>2, <3>1, KeysAreKeys DEF luaH_get
    <3> HIDE DEF n
    <3> DEFINE i == N - n + G
    <3>4. n \in 0..N - 1 BY <1>1, <3>2
    <3>5. i \in 1..L /\ ~(i <= G) /\ N - (i - G) = n BY <1>1, <1>5, <3>4
    <3>6. E(i) = u.node[n] BY <1>6, <3>5
    <3> QED BY <1>8, <3>2, <3>3, <3>5, <3>6
  <2> QED BY <2>1, <2>2
<1> QED BY <1>1, <1>5, <1>7, <1>8 DEF L, G, N, E

(* What a resize should give: a table of the sizes asked for, that holds what it held. *)
Resized(u, w, na, nh, H) ==
  /\ Well(w) /\ Len(w.array) = na /\ w.dummy = (nh = 0)
  /\ Cardinality(DOMAIN w.node) >= nh
  /\ \A n \in DOMAIN w.node : ~w.node[n].dead
  /\ \A n \in DOMAIN w.node : Live(w.node, n) => w.node[n].key \in H
  /\ \A k \in Keys : luaH_get(w, k) = luaH_get(u, k)

(* The keys with a value that an array part of na slots leaves to the hash part.       *)
Homeless(u, na) == {k \in Keys : luaH_get(u, k) # Nil /\ k \notin 1..na}

(* A resized table holds what it held: every entry finds room, since the hash part is  *)
(* given as many nodes as H has keys, all that can be in it.                           *)
LEMMA ResizeKeeps ==
  ASSUME NEW u, Well(u), NEW na \in Nat, NEW nh \in Nat,
         NEW H, IsFiniteSet(H), Homeless(u, na) \subseteq H, Cardinality(H) <= nh
  PROVE  Resized(u, luaH_resize(u, na, nh), na, nh, H)
<1> DEFINE L == Gone(u, na) + sizenode(u)
           b == Base(u, na, nh)
           key(i) == Entry(u, na, i).key
           val(i) == Entry(u, na, i).val
           keeps(k) == k \in 1..na /\ k \in 1..Len(u.array)
           slots == [j \in 1..na |-> Slot(u, na)[j]]
<1>1. /\ L \in Nat
      /\ \A i \in 1..L : val(i) # Nil => key(i) \in Keys /\ luaH_get(u, key(i)) = val(i)
      /\ \A k \in Keys : luaH_get(u, k) # Nil /\ ~(InArray(u, k) /\ k <= na) =>
           \E i \in 1..L : key(i) = k /\ val(i) # Nil
  BY Entries
<1>2. PICK z : /\ z[0] = b
               /\ \A i \in 1..L : z[i] = Entered(u, na, i, z[i - 1])
               /\ luaH_resize(u, na, nh) = z[L]
  BY <1>1, ResizeSteps
<1>3. \A k \in Keys : ~keeps(k) => ~(InArray(u, k) /\ k <= na) BY TableShape DEF InArray, Well
<1>4. u.array \in Seq(Values \cup {Nil}) /\ Len(u.array) \in Nat BY TableShape DEF Well
<1>5. /\ slots \in Seq(Values \cup {Nil}) /\ Len(slots) = na
      /\ \A j \in 1..na : slots[j] = IF j <= Len(u.array) THEN u.array[j] ELSE Nil
  <2> DEFINE M == Max({na, Len(u.array)})
  <2>1. M \in Nat /\ M >= na
    <3>1. /\ {na, Len(u.array)} \in SUBSET Nat /\ {na, Len(u.array)} # {}
          /\ na + Len(u.array) \in Nat /\ \A x \in {na, Len(u.array)} : x <= na + Len(u.array)
      BY <1>4
    <3>2. M \in {na, Len(u.array)} /\ \A x \in {na, Len(u.array)} : x <= M
      BY <3>1, GreatestElement
    <3> HIDE DEF M
    <3> QED BY <3>1, <3>2
  <2> HIDE DEF M
  <2>2. Slot(u, na) = [i \in 1..M |-> IF i <= Len(u.array) THEN u.array[i] ELSE Nil]
    BY DEF Slot, M
  <2>3. \A j \in 1..na : Slot(u, na)[j] = IF j <= Len(u.array) THEN u.array[j] ELSE Nil
    BY <2>1, <2>2
  <2>4. \A j \in 1..na : (IF j <= Len(u.array) THEN u.array[j] ELSE Nil) \in Values \cup {Nil}
    BY <1>4
  <2> HIDE DEF slots
  <2>5. slots = [j \in 1..na |-> Slot(u, na)[j]] BY DEF slots
  <2> QED BY <2>3, <2>4, <2>5
<1>6. b = Empty(slots, nh) BY DEF Base
<1> HIDE DEF slots, b, L, key, val, keeps
<1> DEFINE Kept(w) ==
             /\ Well(w) /\ Len(w.array) = na /\ w.dummy = (nh = 0)
             /\ Cardinality(DOMAIN w.node) >= nh
             /\ \A n \in DOMAIN w.node : ~w.node[n].dead
             /\ \A n \in DOMAIN w.node : Live(w.node, n) => w.node[n].key \in H
           Part(w, i) ==
             /\ \A k \in Keys : luaH_get(w, k) \in {Nil, luaH_get(u, k)}
             /\ \A k \in Keys : keeps(k) => luaH_get(w, k) = luaH_get(u, k)
             /\ \A j \in 1..i : val(j) # Nil => luaH_get(w, key(j)) = luaH_get(u, key(j))
           T == {i \in Nat : i <= L => Kept(z[i]) /\ Part(z[i], i)}
<1>7. Kept(b) /\ Part(b, 0)
  <2>1. \A i \in 1..Len(slots) : slots[i] # Nil => i \in Keys BY <1>4, <1>5 DEF Well, Listed
  <2>2. /\ Well(b) /\ b.array = slots /\ b.dummy = (nh = 0)
        /\ Cardinality(DOMAIN b.node) >= nh
        /\ \A n \in DOMAIN b.node : ~b.node[n].dead /\ ~Live(b.node, n)
        /\ \A k \in Keys : luaH_get(b, k) = IF InArray(b, k) THEN slots[k] ELSE Nil
    BY <1>5, <1>6, <2>1, EmptyTable
  <2>3. ASSUME NEW k \in Keys, InArray(b, k)
        PROVE  k \in 1..na /\ slots[k] = IF k \in 1..Len(u.array) THEN luaH_get(u, k) ELSE Nil
    <3>1. k \in 1..na /\ k \notin Strings \cup Pointers BY <1>5, <2>2, <2>3 DEF InArray
    <3>2. k \in 1..Len(u.array) => luaH_get(u, k) = u.array[k]
      BY <3>1, KeysAreKeys DEF luaH_get, InArray
    <3>3. k <= Len(u.array) <=> k \in 1..Len(u.array) BY <1>4, <3>1
    <3> QED BY <1>5, <3>1, <3>2, <3>3
  <2>4. ASSUME NEW k \in Keys, keeps(k) PROVE InArray(b, k) /\ k \in 1..Len(u.array)
    <3>1. k \in Int BY <2>4 DEF keeps
    <3>2. k \notin Strings \cup Pointers BY <3>1, TableAssumption
    <3> QED BY <1>5, <2>2, <2>4, <3>2 DEF InArray, keeps
  <2>5. Kept(b) BY <1>5, <2>2
  <2>6. Part(b, 0) BY <2>2, <2>3, <2>4
  <2> QED BY <2>5, <2>6
<1>8. ASSUME NEW i \in T PROVE i + 1 \in T
  <2> SUFFICES ASSUME i + 1 <= L PROVE Kept(z[i + 1]) /\ Part(z[i + 1], i + 1) OBVIOUS
  <2> DEFINE j == i + 1
             old == z[i]
             new == z[i + 1]
  <2>1. i \in Nat /\ Kept(old) /\ Part(old, i) BY <1>1 DEF L
  <2>2. j \in 1..L /\ j - 1 = i /\ \A m \in 1..j : m = j \/ m \in 1..i BY <1>1, <2>1 DEF L
  <2>3. new = Entered(u, na, j, old) BY <1>2, <2>2
  <2> HIDE DEF T, old, new, j
  <2>4. CASE val(j) = Nil
    <3>1. new = old BY <2>3, <2>4 DEF Entered, val
    <3>2. Part(old, j) BY <2>1, <2>2, <2>4
    <3> QED BY <2>1, <3>1, <3>2 DEF new, j
  <2>5. CASE val(j) # Nil
    <3> DEFINE e == key(j)
               v == val(j)
    <3>1. new = Insert(old, e, v) BY <2>3, <2>5 DEF Entered, val, key
    <3>2. e \in Keys /\ luaH_get(u, e) = v BY <1>1, <2>2, <2>5 DEF L, val, key
    <3>3. v \in Values \cup {Nil} BY <3>2, GetType
    <3>4. v # Nil BY <2>5
    <3> HIDE DEF e, v
    <3>5. e \in 1..na \/ e \in H BY <3>2, <3>4 DEF Homeless
    <3>6. InArray(old, e) \/ e \in H
      <4>1. ASSUME e \in 1..na PROVE InArray(old, e)
        <5>1. e \in Int BY <4>1
        <5>2. e \notin Strings \cup Pointers BY <5>1, TableAssumption
        <5> QED BY <2>1, <4>1, <5>2 DEF InArray
      <4> QED BY <3>5, <4>1
    <3>7. Cardinality(H) <= Cardinality(DOMAIN old.node)
      <4>1. Cardinality(H) \in Nat BY FS_CardinalityType
      <4>2. Cardinality(DOMAIN old.node) \in Nat BY <2>1, TableShape, VectorSize DEF Well
      <4> QED BY <2>1, <4>1, <4>2
    <3>8. H # {} => ~old.dummy
      <4>1. H # {} => Cardinality(H) # 0 /\ Cardinality(H) \in Nat
        BY FS_EmptySet, FS_CardinalityType
      <4>2. H # {} => nh # 0 BY <4>1
      <4>3. old.dummy = (nh = 0) BY <2>1
      <4> QED BY <4>2, <4>3
    <3>9. ~Full(old, e)
      <4>1. /\ Well(old) /\ \A n \in DOMAIN old.node : ~old.node[n].dead
            /\ \A n \in DOMAIN old.node : Live(old.node, n) => old.node[n].key \in H
        BY <2>1
      <4> HIDE DEF Kept
      <4> QED BY <3>2, <3>6, <3>7, <3>8, <4>1, NotFull
    <3>10. Stores(old, new, e, v) BY <2>1, <3>1, <3>2, <3>3, <3>9, InsertStores
    <3>11. Kept(new)
      <4>1. /\ Well(new) /\ Len(new.array) = na /\ new.dummy = (nh = 0)
            /\ Cardinality(DOMAIN new.node) >= nh
            /\ \A n \in DOMAIN new.node : ~new.node[n].dead
        BY <2>1, <3>10 DEF Stores
      <4>2. ASSUME NEW n \in DOMAIN new.node, Live(new.node, n) PROVE new.node[n].key \in H
        <5>1. CASE new.node[n].key = e
          <6>1. ~InArray(new, e) BY <4>1, <4>2, <5>1 DEF Well, HashOnly, Live
          <6>2. ~InArray(old, e) BY <2>1, <4>1, <6>1 DEF InArray
          <6> QED BY <3>6, <5>1, <6>2
        <5>2. CASE new.node[n].key # e
          <6>1. PICK m \in DOMAIN old.node : Live(old.node, m) /\ old.node[m].key = new.node[n].key
            BY <3>10, <4>2, <5>2 DEF Stores
          <6> QED BY <2>1, <6>1
        <5> QED BY <5>1, <5>2
      <4> QED BY <4>1, <4>2
    <3>12. \A k \in Keys : luaH_get(new, k) = IF k = e THEN v ELSE luaH_get(old, k)
      BY <3>10 DEF Stores
    <3>13. Part(new, j)
      <4>1. ASSUME NEW k \in Keys PROVE luaH_get(new, k) \in {Nil, luaH_get(u, k)}
        BY <2>1, <3>2, <3>12
      <4>2. ASSUME NEW k \in Keys, keeps(k) PROVE luaH_get(new, k) = luaH_get(u, k)
        BY <2>1, <3>2, <3>12, <4>2
      <4>3. ASSUME NEW m \in 1..j, val(m) # Nil PROVE luaH_get(new, key(m)) = luaH_get(u, key(m))
        <5>1. CASE m = j BY <3>2, <3>12, <5>1 DEF e
        <5>2. CASE m \in 1..i
          <6>1. luaH_get(old, key(m)) = luaH_get(u, key(m)) BY <2>1, <4>3, <5>2
          <6>2. m \in 1..L BY <1>1, <2>1, <2>2, <5>2 DEF L
          <6>3. key(m) \in Keys BY <1>1, <4>3, <6>2 DEF L, key, val
          <6> QED BY <3>2, <3>12, <6>1, <6>3
        <5> QED BY <2>2, <4>3, <5>1, <5>2
      <4> QED BY <4>1, <4>2, <4>3
    <3> QED BY <3>11, <3>13 DEF new, j
  <2> QED BY <2>4, <2>5
<1>9. T = Nat
  <2>1. T \in SUBSET Nat OBVIOUS
  <2>2. 0 \in T BY <1>2, <1>7 DEF b
  <2> HIDE DEF T
  <2> QED BY <1>8, <2>1, <2>2, SetInduction
<1> DEFINE w == z[L]
<1>10. Kept(w) /\ Part(w, L)
  <2>1. L \in T BY <1>1, <1>9 DEF L
  <2> QED BY <1>1, <2>1 DEF L
<1> HIDE DEF w
<1>11. ASSUME NEW k \in Keys PROVE luaH_get(w, k) = luaH_get(u, k)
  <2>1. CASE keeps(k) BY <1>10, <2>1
  <2>2. CASE luaH_get(u, k) = Nil BY <1>10, <2>2
  <2>3. CASE ~keeps(k) /\ luaH_get(u, k) # Nil
    <3>1. PICK i \in 1..L : key(i) = k /\ val(i) # Nil
      BY <1>1, <1>3, <2>3 DEF L, key, val, keeps
    <3> QED BY <1>10, <3>1
  <2> QED BY <2>1, <2>2, <2>3
<1>12. w = luaH_resize(u, na, nh) BY <1>2 DEF w, L
<1> QED BY <1>10, <1>11, <1>12 DEF Resized

(* rehash() leaves room for the key that it was called for.                            *)
LEMMA RehashKeeps ==
  ASSUME NEW u, Well(u), NEW ek \in Keys
  PROVE  /\ Well(rehash(u, ek)) /\ ~Full(rehash(u, ek), ek)
         /\ \A k \in Keys : luaH_get(rehash(u, ek), k) = luaH_get(u, k)
<1> DEFINE used == Used(u, ek)
           na == computesizes(used)
           H == used \ (1..na)
           nh == Cardinality(H)
           w == luaH_resize(u, na, nh)
           A == {i \in 1..Len(u.array) : u.array[i] # Nil}
           B == {m \in DOMAIN u.node : u.node[m].val # Nil}
           C == {u.node[n].key : n \in B}
<1>1. /\ u.array \in Seq(Values \cup {Nil}) /\ Len(u.array) \in Nat /\ u.node \in Vectors
      /\ \A n \in DOMAIN u.node : u.node[n] \in Node
  BY TableShape DEF Well
<1>2. used = A \cup C \cup {ek} BY DEF Used
<1>3. IsFiniteSet(used)
  <2>1. IsFiniteSet(A)
    <3>1. IsFiniteSet(1..Len(u.array)) BY <1>1, FS_Interval
    <3> QED BY <3>1, FS_Subset
  <2>2. IsFiniteSet(C)
    <3>1. IsFiniteSet(B) BY <1>1, VectorSize, FS_Subset
    <3> DEFINE f == [n \in B |-> u.node[n].key]
    <3>2. f \in Surjection(B, C) BY DEF Surjection
    <3> HIDE DEF B, C, f
    <3> QED BY <3>1, <3>2, FS_Surjection
  <2> HIDE DEF A, C
  <2>3. IsFiniteSet(A \cup C) BY <2>1, <2>2, FS_Union
  <2> QED BY <1>2, <2>3, FS_AddElement
<1>4. Homeless(u, na) \subseteq used
  <2> SUFFICES ASSUME NEW k \in Keys, luaH_get(u, k) # Nil PROVE k \in A \cup C
    BY <1>2 DEF Homeless
  <2>1. CASE InArray(u, k) BY <2>1, KeysAreKeys DEF luaH_get, InArray
  <2>2. CASE ~InArray(u, k)
    <3>1. Find(u, k) # None BY <2>2, KeysAreKeys DEF luaH_get
    <3>2. Find(u, k) \in DOMAIN u.node /\ u.node[Find(u, k)].key = k BY <3>1, FoundIsLive
    <3>3. luaH_get(u, k) = u.node[Find(u, k)].val BY <2>2, <3>1, KeysAreKeys DEF luaH_get
    <3>4. Find(u, k) \in B BY <3>2, <3>3
    <3> HIDE DEF B
    <3> QED BY <3>2, <3>4
  <2> QED BY <2>1, <2>2
<1> HIDE DEF used, A, B, C
<1>5. na \in Nat
  <2> DEFINE P == {twoto[i] : i \in 0..Cardinality(used)}
             Q == {0} \cup {size \in P : 2 * Cardinality(used \cap (1..size)) > size}
             b == Max(P)
  <2>0. Cardinality(used) \in Nat BY <1>3, FS_CardinalityType
  <2>1. Q \in SUBSET Nat /\ Q # {}
    <3>1. \A i \in 0..Cardinality(used) : twoto[i] \in Nat BY <2>0, Powers
    <3>2. P \in SUBSET Nat BY <3>1
    <3>3. {0} \in SUBSET Nat /\ {0} # {} OBVIOUS
    <3> HIDE DEF P
    <3>4. {size \in P : 2 * Cardinality(used \cap (1..size)) > size} \in SUBSET Nat BY <3>2
    <3> QED BY <3>3, <3>4
  <2>2. \A x \in Q : x <= 2 * Cardinality(used)
    <3>1. ASSUME NEW x \in P, 2 * Cardinality(used \cap (1..x)) > x
          PROVE  x <= 2 * Cardinality(used)
      <4>1. x \in Nat BY <2>0, <3>1, Powers
      <4>2. used \cap (1..x) \in SUBSET used OBVIOUS
      <4> DEFINE X == used \cap (1..x)
      <4>3. X \in SUBSET used OBVIOUS
      <4> HIDE DEF X
      <4>4. IsFiniteSet(X) /\ Cardinality(X) <= Cardinality(used) BY <1>3, <4>3, FS_Subset
      <4>5. Cardinality(X) \in Nat BY <4>4, FS_CardinalityType
      <4>6. 2 * Cardinality(X) > x BY <3>1 DEF X
      <4> QED BY <2>0, <4>1, <4>4, <4>5, <4>6
    <3>2. 0 <= 2 * Cardinality(used) BY <2>0
    <3> QED BY <3>1, <3>2
  <2>3. na = Max(Q) BY DEF computesizes
  <2> HIDE DEF Q
  <2>4. Max(Q) \in Q
    <3>1. 2 * Cardinality(used) \in Nat BY <2>0
    <3> QED BY <2>1, <2>2, <3>1, GreatestElement
  <2> QED BY <2>1, <2>3, <2>4
<1>6. rehash(u, ek) = w BY DEF rehash, used
<1> HIDE DEF na
<1>7. IsFiniteSet(H) /\ nh \in Nat
  <2>1. H \in SUBSET used OBVIOUS
  <2>2. IsFiniteSet(H) BY <1>3, <2>1, FS_Subset
  <2> QED BY <2>2, FS_CardinalityType
<1>8. Homeless(u, na) \subseteq H BY <1>4 DEF Homeless
<1>9. ek \in 1..na \/ ek \in H BY <1>2
<1> HIDE DEF H
<1>10. Resized(u, w, na, nh, H) BY <1>5, <1>7, <1>8, ResizeKeeps
<1> HIDE DEF w
<1>11. InArray(w, ek) \/ ek \in H
  <2>1. ASSUME ek \in 1..na PROVE InArray(w, ek)
    <3>1. ek \notin Strings \cup Pointers BY <2>1, TableAssumption
    <3> QED BY <1>10, <2>1, <3>1 DEF Resized, InArray
  <2> QED BY <1>9, <2>1
<1>12. H # {} => ~w.dummy
  <2>1. H # {} => nh # 0 BY <1>7, FS_EmptySet
  <2>2. w.dummy = (nh = 0) BY <1>10 DEF Resized
  <2> QED BY <2>1, <2>2
<1>13. /\ Well(w) /\ \A n \in DOMAIN w.node : ~w.node[n].dead
       /\ \A n \in DOMAIN w.node : Live(w.node, n) => w.node[n].key \in H
       /\ Cardinality(H) <= Cardinality(DOMAIN w.node)
  <2>1. Cardinality(DOMAIN w.node) \in Nat BY <1>10, TableShape, VectorSize DEF Resized, Well
  <2> QED BY <1>7, <1>10, <2>1 DEF Resized
<1>14. ~Full(w, ek) BY <1>7, <1>11, <1>12, <1>13, NotFull
<1> QED BY <1>6, <1>10, <1>14 DEF Resized

(* A store, with the rehash that it may need.                                        *)
LEMMA SetStores ==
  ASSUME NEW u, Well(u), NEW key \in Keys \cup Floats, NEW v \in Values \cup {Nil}
  PROVE  /\ Integral(key) \in Keys /\ Well(luaH_set(u, key, v))
         /\ \A k \in Keys :
              luaH_get(luaH_set(u, key, v), k) =
                IF k = Integral(key) THEN v ELSE luaH_get(u, k)
<1> DEFINE k == Integral(key)
           z == IF Full(u, k) THEN rehash(u, k) ELSE u
<1>1. k \in Keys BY TableAssumption DEF Integral, Keys
<1> HIDE DEF k
<1>2. Well(z) /\ ~Full(z, k) /\ \A j \in Keys : luaH_get(z, j) = luaH_get(u, j)
  <2>1. CASE Full(u, k) BY <1>1, <2>1, RehashKeeps
  <2>2. CASE ~Full(u, k) BY <2>2
  <2> QED BY <2>1, <2>2
<1>3. luaH_set(u, key, v) = Insert(z, k, v) BY DEF luaH_set, k
<1> HIDE DEF z
<1>4. Stores(z, Insert(z, k, v), k, v) BY <1>1, <1>2, InsertStores
<1> QED BY <1>1, <1>2, <1>3, <1>4 DEF Stores, k

(* The list of a constructor.                                                      *)
LEMMA ListStored ==
  ASSUME NEW u, Well(u), NEW n \in 1..MaxArray, NEW v \in Values
  PROVE  LET z == IF n > Len(u.array) THEN luaH_resizearray(u, n) ELSE u
             w == [z EXCEPT !.array = [i \in 1..Len(z.array) |-> IF i <= n THEN v ELSE z.array[i]]]
         IN  /\ Well(w)
             /\ \A k \in Keys : luaH_get(w, k) = IF k \in 1..n THEN v ELSE luaH_get(u, k)
<1> DEFINE z == IF n > Len(u.array) THEN luaH_resizearray(u, n) ELSE u
           a2 == [i \in 1..Len(z.array) |-> IF i <= n THEN v ELSE z.array[i]]
           w == [z EXCEPT !.array = a2]
<1>0. n \in Nat /\ MaxArray \in Nat /\ \A i \in 1..n : i \in Keys /\ i \notin Strings \cup Pointers
  BY TableAssumption DEF Keys
<1>1. Well(z) /\ Len(z.array) >= n /\ \A k \in Keys : luaH_get(z, k) = luaH_get(u, k)
  <2>0. Len(u.array) \in Nat BY TableShape DEF Well
  <2>1. CASE n > Len(u.array)
    <3> DEFINE H == Homeless(u, n)
               D == DOMAIN u.node
               f == [k \in H |-> Find(u, k)]
               nh == IF u.dummy THEN 0 ELSE sizenode(u)
    <3>1. ASSUME NEW k \in H PROVE Find(u, k) \in D /\ u.node[Find(u, k)].key = k /\ ~u.dummy
      <4>1. k \in Keys /\ luaH_get(u, k) # Nil /\ k \notin 1..n BY DEF Homeless
      <4>2. ~InArray(u, k) BY <1>0, <2>0, <2>1, <4>1 DEF InArray
      <4>3. Find(u, k) # None BY <4>1, <4>2, KeysAreKeys DEF luaH_get
      <4>4. Find(u, k) \in D /\ u.node[Find(u, k)].key = k BY <4>1, <4>3, FoundIsLive
      <4>5. k # Nil BY <4>1, KeysAreKeys
      <4> QED BY <4>4, <4>5 DEF Well, Dummy
    <3>2. IsFiniteSet(D) /\ Cardinality(D) \in Nat BY TableShape, VectorSize DEF Well
    <3>3. f \in [H -> D] /\ \A j, k \in H : f[j] = f[k] => j = k BY <3>1
    <3> HIDE DEF f, H, D
    <3>4. f \in Injection(H, D) BY <3>3 DEF Injection, IsInjective
    <3>5. IsFiniteSet(H) /\ Cardinality(H) <= Cardinality(D) BY <3>2, <3>4, FS_Injection
    <3>6. u.dummy => Cardinality(H) = 0
      <4>1. u.dummy => H = {} BY <3>1
      <4> QED BY <4>1, FS_EmptySet
    <3>7. nh \in Nat /\ Cardinality(H) <= nh BY <3>2, <3>5, <3>6 DEF sizenode, D
    <3>8. luaH_resizearray(u, n) = luaH_resize(u, n, nh) BY DEF luaH_resizearray
    <3> HIDE DEF nh
    <3>9. Resized(u, luaH_resize(u, n, nh), n, nh, H) BY <1>0, <3>5, <3>7, ResizeKeeps DEF H
    <3> QED BY <1>0, <2>1, <3>8, <3>9 DEF Resized
  <2>2. CASE ~(n > Len(u.array)) BY <1>0, <2>0, <2>2
  <2> QED BY <2>1, <2>2
<1> HIDE DEF z
<1>2. z.array \in Seq(Values \cup {Nil}) /\ Len(z.array) \in Nat BY <1>1, TableShape DEF Well
<1>3. /\ a2 \in Seq(Values \cup {Nil}) /\ Len(a2) = Len(z.array)
      /\ \A i \in 1..Len(z.array) : a2[i] = IF i <= n THEN v ELSE z.array[i]
  <2>1. \A i \in 1..Len(z.array) : z.array[i] \in Values \cup {Nil} BY <1>2
  <2> QED BY <1>2, <2>1
<1> HIDE DEF a2
<1>4. \A i \in 1..Len(a2) : a2[i] # Nil => i \in Keys
  <2>1. \A i \in 1..Len(a2) : i <= n => i \in Keys BY <1>0, <1>2, <1>3
  <2> QED BY <1>1, <1>3, <2>1 DEF Well, Listed
<1>5. /\ Well(w)
      /\ \A k \in Keys : luaH_get(w, k) = IF InArray(z, k) THEN a2[k] ELSE luaH_get(z, k)
  BY <1>1, <1>3, <1>4, NewSlots
<1> HIDE DEF w
<1>6. ASSUME NEW k \in Keys PROVE luaH_get(w, k) = IF k \in 1..n THEN v ELSE luaH_get(u, k)
  <2>1. CASE k \in 1..n
    <3>1. InArray(z, k) /\ k \in 1..Len(z.array) BY <1>0, <1>1, <1>2, <2>1 DEF InArray
    <3> QED BY <1>0, <1>3, <1>5, <2>1, <3>1
  <2>2. CASE k \notin 1..n /\ InArray(z, k)
    <3>1. k \in 1..Len(z.array) /\ ~(k <= n) BY <1>0, <1>2, <2>2 DEF InArray
    <3>2. luaH_get(z, k) = z.array[k] BY <2>2, KeysAreKeys DEF luaH_get
    <3> QED BY <1>1, <1>3, <1>5, <2>2, <3>1, <3>2
  <2>3. CASE k \notin 1..n /\ ~InArray(z, k) BY <1>1, <1>5, <2>3
  <2> QED BY <2>1, <2>2, <2>3
<1> QED BY <1>5, <1>6 DEF w, a2, z

(* A dead key had no value any more.                                                *)
LEMMA DeathKeeps ==
  ASSUME NEW u, Well(u), NEW n \in DOMAIN u.node, u.node[n].val = Nil,
         u.node[n].key \in Strings \cup Pointers
  PROVE  LET w == [u EXCEPT !.node[n].dead = TRUE]
         IN  /\ Well(w) /\ w.array = u.array /\ DOMAIN w.node = DOMAIN u.node
             /\ \A m \in DOMAIN u.node :
                  /\ w.node[m].key = u.node[m].key /\ w.node[m].val = u.node[m].val
                  /\ w.node[m].next = u.node[m].next /\ w.node[m].dead \in BOOLEAN
                  /\ u.node[m].dead \in BOOLEAN
             /\ \A k \in Keys : luaH_get(w, k) = luaH_get(u, k)
<1> DEFINE nd == u.node
           nn == [nd EXCEPT ![n].dead = TRUE]
           w == [u EXCEPT !.node[n].dead = TRUE]
<1>1. u \in Tables /\ nd \in Vectors /\ \A m \in DOMAIN nd : nd[m] \in Node
  BY TableShape DEF Well
<1>2. nd[n].key # Nil BY TableAssumption
<1>3. w = [u EXCEPT !.node = nn] BY <1>1 DEF Tables
<1>4. /\ DOMAIN nn = DOMAIN nd /\ nn = [m \in DOMAIN nd |-> nn[m]]
      /\ nn[n] = [nd[n] EXCEPT !.dead = TRUE]
      /\ \A m \in DOMAIN nd \ {n} : nn[m] = nd[m]
  OBVIOUS
<1> HIDE DEF nn
<1>5. /\ nn[n] \in Node /\ nn[n].key = nd[n].key /\ nn[n].dead /\ nn[n].val = nd[n].val
      /\ nn[n].next = nd[n].next
  BY <1>1, <1>4 DEF Node
<1>6. \A m \in DOMAIN nd : nn[m] \in Node BY <1>1, <1>4, <1>5
<1>7. nn \in Vectors
  <2>1. n \in DOMAIN nd OBVIOUS
  <2> HIDE DEF nd
  <2> QED BY <1>1, <1>4, <1>6, VectorOf
<1>8. /\ w \in Tables /\ w.array = u.array /\ w.node = nn /\ w.lastfree = u.lastfree
      /\ w.dummy = u.dummy
  BY <1>1, <1>3, <1>7 DEF Tables
<1> HIDE DEF w
<1>9. home(w) = home(u) /\ home(u) \in [Keys -> DOMAIN nd] BY <1>1, <1>4, <1>8, HomeSame, HomeType
<1>10. \A m \in DOMAIN nd :
         /\ nn[m].key = nd[m].key /\ nn[m].val = nd[m].val /\ nn[m].next = nd[m].next
         /\ nn[m].dead \in BOOLEAN /\ nd[m].dead \in BOOLEAN
         /\ nd[m].dead => nn[m].dead
         /\ nn[m].dead => nd[m].dead \/ m = n
  BY <1>1, <1>4, <1>5, <1>6 DEF Node
<1>11. Chained(nn, home(u))
  <2> DEFINE H == home(u)
  <2>1. ASSUME NEW m \in DOMAIN nd
        PROVE  nn[m].dead => nn[m].key # Nil /\ nn[m].val = Nil
    <3>1. nd[m].dead => nd[m].key # Nil /\ nd[m].val = Nil
      BY DEF Well, Chained, FreeApart, DeadEmpty
    <3> QED BY <1>2, <1>10, <3>1
  <2>2. \A m \in DOMAIN nd : nn[m].key = Nil => nn[m].val = Nil
    BY <1>10 DEF Well, Chained, FreeApart
  <2>3. Chained(nd, H) /\ H \in [Keys -> DOMAIN nd] BY <1>9 DEF Well
  <2> HIDE DEF H, nd
  <2>4. Chained(nn, H) BY <1>1, <1>4, <1>7, <1>10, <2>1, <2>2, <2>3, SameChains
  <2> QED BY <2>4 DEF H
<1>12. Well(w)
  <2>1. HashOnly(w) BY <1>4, <1>8, <1>10 DEF Well, HashOnly, InArray
  <2>2. Below(w) BY <1>4, <1>8, <1>10 DEF Well, Below
  <2>3. Dummy(w) BY <1>4, <1>8, <1>10 DEF Well, Dummy
  <2>4. Listed(w) BY <1>8 DEF Well, Listed
  <2> QED BY <1>8, <1>9, <1>11, <2>1, <2>2, <2>3, <2>4 DEF Well
<1>13. ASSUME NEW k \in Keys PROVE luaH_get(w, k) = luaH_get(u, k)
  <2>1. w.node = nn /\ DOMAIN w.node = DOMAIN nd BY <1>4, <1>8
  <2>2. ASSUME NEW m \in DOMAIN w.node, Live(w.node, m) /\ w.node[m].key = k
        PROVE  \E j \in DOMAIN u.node :
                 Live(u.node, j) /\ u.node[j].key = k /\ u.node[j].val = w.node[m].val
    <3>1. m \in DOMAIN nd /\ Live(nd, m) /\ nd[m].key = k /\ nd[m].val = nn[m].val
      BY <1>10, <2>1, <2>2 DEF Live
    <3> QED BY <2>1, <3>1
  <2>3. ASSUME NEW m \in DOMAIN u.node, Live(u.node, m) /\ u.node[m].key = k
        PROVE  \/ u.node[m].val = Nil
               \/ \E j \in DOMAIN w.node : Live(w.node, j) /\ w.node[j].key = k
    <3>1. CASE m = n BY <3>1
    <3>2. CASE m # n
      <4>1. Live(nn, m) /\ nn[m].key = k BY <1>4, <2>3, <3>2 DEF Live
      <4> QED BY <2>1, <2>3, <4>1
    <3> QED BY <3>1, <3>2
  <2> HIDE DEF nd
  <2> QED BY <1>8, <1>12, <2>2, <2>3, GetSame
<1> QED BY <1>4, <1>8, <1>10, <1>12, <1>13 DEF w

(* A table as it is created.                                                       *)
LEMMA CreatedEmpty ==
  ASSUME NEW na \in Nat, NEW nh \in Nat
  PROVE  LET w == luaH_resize(luaH_new, na, nh)
         IN  Well(w) /\ \A k \in Keys : luaH_get(w, k) = Nil
<1> DEFINE a == <<>>
<1>1. a \in Seq(Values \cup {Nil}) /\ Len(a) = 0 /\ \A i \in 1..Len(a) : FALSE OBVIOUS
<1>2. luaH_new = Empty(a, 0) BY DEF luaH_new
<1> HIDE DEF a
<1>3. /\ Well(luaH_new) /\ luaH_new.array = a
      /\ \A k \in Keys : luaH_get(luaH_new, k) = IF InArray(luaH_new, k) THEN a[k] ELSE Nil
  <2>1. \A i \in 1..Len(a) : a[i] # Nil => i \in Keys BY <1>1
  <2>2. 0 \in Nat OBVIOUS
  <2> DEFINE w == Empty(a, 0)
  <2>3. /\ Well(w) /\ w.array = a
        /\ \A k \in Keys : luaH_get(w, k) = IF InArray(w, k) THEN a[k] ELSE Nil
    BY <1>1, <2>1, <2>2, EmptyTable
  <2> QED BY <1>2, <2>3
<1>4. \A k \in Keys : luaH_get(luaH_new, k) = Nil BY <1>1, <1>3 DEF InArray
<1>5. Homeless(luaH_new, na) \subseteq {} BY <1>4 DEF Homeless
<1>6. Resized(luaH_new, luaH_resize(luaH_new, na, nh), na, nh, {})
  BY <1>3, <1>5, FS_EmptySet, ResizeKeeps
<1> QED BY <1>4, <1>6 DEF Resized

-----------------------------------------------------------------------------
(* What a program sees.                                                           *)

Contents == [Keys -> Values \cup {Nil}]

(* The table is well-formed, and it holds what was stored.                             *)
IInv == Well(t) /\ content \in Contents /\ FindsWhatWasStored

(* A table just created is well-formed and empty.                                     *)
LEMMA IInvInit == Init => IInv
<1> SUFFICES ASSUME Init PROVE IInv OBVIOUS
<1>1. PICK na \in 0..MaxArray, nh \in 0..MaxHash : t = luaH_resize(luaH_new, na, nh) BY DEF Init
<1>2. na \in Nat /\ nh \in Nat BY TableAssumption
<1>3. Well(t) /\ \A k \in Keys : luaH_get(t, k) = Nil BY <1>1, <1>2, CreatedEmpty
<1>4. content = [k \in Keys |-> Nil] BY DEF Init
<1> QED BY <1>3, <1>4 DEF IInv, Contents, FindsWhatWasStored

(* Every operation, stores with or without a rehash, SetList, the death of a key,     *)
(* traversal, leaves the table well-formed and holding what was stored.               *)
LEMMA IInvStep == IInv /\ [Next]_vars => IInv'
<1> SUFFICES ASSUME IInv, [Next]_vars PROVE IInv' OBVIOUS
<1>1. Well(t) /\ content \in Contents /\ \A k \in Keys : luaH_get(t, k) = content[k]
  BY DEF IInv, FindsWhatWasStored
<1>2. ASSUME NEW k \in Keys \cup Floats, NEW v \in Values \cup {Nil}, Set(k, v) PROVE IInv'
  <2>1. /\ Integral(k) \in Keys /\ Well(t')
        /\ \A j \in Keys : luaH_get(t', j) = IF j = Integral(k) THEN v ELSE luaH_get(t, j)
    BY <1>1, <1>2, SetStores DEF Set
  <2>2. content' = [content EXCEPT ![Integral(k)] = v] BY <1>2 DEF Set
  <2> QED BY <1>1, <2>1, <2>2 DEF IInv, Contents, FindsWhatWasStored
<1>3. ASSUME NEW n \in 1..MaxArray, NEW v \in Values, SetList(n, v) PROVE IInv'
  <2>1. /\ Well(t')
        /\ \A k \in Keys : luaH_get(t', k) = IF k \in 1..n THEN v ELSE luaH_get(t, k)
    BY <1>1, <1>3, ListStored DEF SetList
  <2>2. content' = [k \in Keys |-> IF k \in 1..n THEN v ELSE content[k]] BY <1>3 DEF SetList
  <2> QED BY <1>1, <2>1, <2>2 DEF IInv, Contents, FindsWhatWasStored
<1>4. ASSUME NEW n \in DOMAIN t.node, removeentry(n) PROVE IInv'
  <2>1. /\ t.node[n].val = Nil /\ t.node[n].key \in Strings \cup Pointers
        /\ t' = [t EXCEPT !.node[n].dead = TRUE] /\ content' = content
    BY <1>4 DEF removeentry
  <2> DEFINE w == [t EXCEPT !.node[n].dead = TRUE]
  <2>2. Well(w) BY <1>1, <2>1, DeathKeeps
  <2>3. \A k \in Keys : luaH_get(w, k) = luaH_get(t, k) BY <1>1, <2>1, DeathKeeps
  <2>4. t' = w BY <2>1
  <2> HIDE DEF w
  <2>5. Well(t') /\ \A k \in Keys : luaH_get(t', k) = luaH_get(t, k) BY <2>2, <2>3, <2>4
  <2> QED BY <1>1, <2>1, <2>5 DEF IInv, Contents, FindsWhatWasStored
<1>5. CASE t' = t /\ content' = content BY <1>1, <1>5 DEF IInv, FindsWhatWasStored
<1>6. Visit \/ Break \/ UNCHANGED vars => t' = t /\ content' = content BY DEF Visit, Break, vars
<1> QED BY <1>2, <1>3, <1>4, <1>5, <1>6 DEF Next

(* Whatever is stored in whatever order, with whatever collisions, rehashes and dead     *)
(* keys, a lookup returns what was stored last.                                      *)
THEOREM Finds == Spec => []FindsWhatWasStored
<1>1. IInv => FindsWhatWasStored BY DEF IInv
<1> QED BY IInvInit, IInvStep, <1>1, PTL DEF Spec

-----------------------------------------------------------------------------
(* The length.                                                                  *)

Some(u, i) == i = 0 \/ luaH_get(u, i) # Nil
Border(u, n) == Some(u, n) /\ luaH_get(u, n + 1) = Nil

(* Bisection between an index with a value and one without ends at a border.            *)
LEMMA BisectBorder ==
  ASSUME NEW u, NEW i \in Nat, NEW j \in Nat, i < j, Some(u, i), luaH_get(u, j) = Nil
  PROVE  Bisect(u, i, j) \in Nat /\ Border(u, Bisect(u, i, j))
<1> DEFINE S == Nat \X Nat
           mid(p) == (p[1] + p[2]) \div 2
           halve == [p \in S |->
                  LET m == (p[1] + p[2]) \div 2
                  IN  IF p[2] - p[1] <= 1 THEN p
                      ELSE IF luaH_get(u, m) = Nil THEN <<p[1], m>> ELSE <<m, p[2]>>]
           z == Iterated(halve, <<i, j>>)
           Between(p) == p[1] < p[2] /\ Some(u, p[1]) /\ luaH_get(u, p[2]) = Nil
           T == {n \in Nat : Between(z[n]) /\ (z[n][2] - z[n][1] <= 1
                                               \/ z[n][2] - z[n][1] <= (j - i) - n)}
<1>1. ASSUME NEW p \in S
      PROVE  /\ halve[p] \in S
             /\ p[2] - p[1] <= 1 => halve[p] = p
             /\ p[2] - p[1] > 1 =>
                  /\ p[1] < mid(p) /\ mid(p) < p[2] /\ mid(p) \in Nat
                  /\ luaH_get(u, mid(p)) = Nil => halve[p][1] = p[1] /\ halve[p][2] = mid(p)
                  /\ luaH_get(u, mid(p)) # Nil => halve[p][1] = mid(p) /\ halve[p][2] = p[2]
  <2>1. p[1] \in Nat /\ p[2] \in Nat OBVIOUS
  <2>2. mid(p) \in Nat BY <2>1
  <2>3. p[2] - p[1] > 1 => p[1] < mid(p) /\ mid(p) < p[2] BY <2>1
  <2>4. halve[p] = IF p[2] - p[1] <= 1 THEN p
                   ELSE IF luaH_get(u, mid(p)) = Nil THEN <<p[1], mid(p)>> ELSE <<mid(p), p[2]>>
    OBVIOUS
  <2> HIDE DEF halve, mid
  <2>5. <<p[1], mid(p)>> \in S /\ <<mid(p), p[2]>> \in S BY <2>1, <2>2
  <2> QED BY <2>1, <2>2, <2>3, <2>4, <2>5
<1>2. halve \in [S -> S]
  <2>1. halve = [p \in S |-> halve[p]] OBVIOUS
  <2> HIDE DEF halve
  <2> QED BY <1>1, <2>1
<1>3. <<i, j>> \in S OBVIOUS
<1> HIDE DEF S, halve, mid
<1>4. z \in [Nat -> S] BY <1>2, <1>3, IteratedType
<1>5. z[0] = <<i, j>> BY <1>2, <1>3, IteratedStep
<1>6. \A n \in Nat : z[n + 1] = halve[z[n]] BY <1>2, <1>3, IteratedStep
<1> HIDE DEF z
<1>7. 0 \in T BY <1>5
<1>8. ASSUME NEW n \in T PROVE n + 1 \in T
  <2> DEFINE p == z[n]
             q == z[n + 1]
             m == mid(p)
  <2>1. n \in Nat /\ Between(p) /\ (p[2] - p[1] <= 1 \/ p[2] - p[1] <= (j - i) - n) OBVIOUS
  <2>2. p \in S /\ p[1] \in Nat /\ p[2] \in Nat BY <1>4, <2>1 DEF S
  <2>3. q = halve[p] BY <1>6, <2>1
  <2> HIDE DEF p, q, m
  <2>4. CASE p[2] - p[1] <= 1
    <3>1. q = p BY <1>1, <2>2, <2>3, <2>4
    <3> QED BY <2>1, <2>4, <3>1 DEF q
  <2>5. CASE p[2] - p[1] > 1
    <3>1. p[1] < m /\ m < p[2] /\ m \in Nat BY <1>1, <2>2, <2>5 DEF m
    <3>2. CASE luaH_get(u, m) = Nil
      <4>1. q[1] = p[1] /\ q[2] = m BY <1>1, <2>2, <2>3, <2>5, <3>2 DEF m
      <4>2. Between(q) BY <2>1, <3>1, <3>2, <4>1
      <4>3. q[2] - q[1] <= (j - i) - (n + 1) BY <2>1, <2>2, <2>5, <3>1, <4>1
      <4> QED BY <2>1, <4>2, <4>3 DEF q
    <3>3. CASE luaH_get(u, m) # Nil
      <4>1. q[1] = m /\ q[2] = p[2] BY <1>1, <2>2, <2>3, <2>5, <3>3 DEF m
      <4>2. Between(q) BY <2>1, <3>1, <3>3, <4>1 DEF Some
      <4>3. q[2] - q[1] <= (j - i) - (n + 1) BY <2>1, <2>2, <2>5, <3>1, <4>1
      <4> QED BY <2>1, <4>2, <4>3 DEF q
    <3> QED BY <3>2, <3>3
  <2> QED BY <2>2, <2>4, <2>5
<1>9. T = Nat
  <2>1. T \in SUBSET Nat OBVIOUS
  <2> HIDE DEF T
  <2> QED BY <1>7, <1>8, <2>1, SetInduction
<1> DEFINE w == z[j - i]
<1>10. w \in S /\ Between(w) /\ w[2] - w[1] <= 1
  <2>1. j - i \in T /\ j - i \in Nat BY <1>9
  <2>2. w \in S BY <1>4, <2>1
  <2>3. Between(w) /\ (w[2] - w[1] <= 1 \/ w[2] - w[1] <= (j - i) - (j - i)) BY <2>1
  <2> HIDE DEF w
  <2> QED BY <2>2, <2>3 DEF S
<1>11. Bisect(u, i, j) = w[1] BY DEF Bisect, w, z, halve, S
<1> HIDE DEF w
<1>12. w[1] \in Nat /\ w[2] \in Nat /\ w[2] = w[1] + 1 BY <1>10 DEF S
<1> QED BY <1>10, <1>11, <1>12 DEF Border

(* An integer that is not a key is not found.                                       *)
LEMMA FoundInteger ==
  ASSUME NEW u, Well(u), NEW i \in Nat \ {0}, luaH_get(u, i) # Nil
  PROVE  \/ i \in 1..Len(u.array)
         \/ Find(u, i) \in DOMAIN u.node /\ u.node[Find(u, i)].key = i /\ ~u.dummy
<1>1. i \notin Strings \cup Pointers /\ i \notin Floats /\ i # Nil BY TableAssumption
<1>2. Integral(i) = i BY <1>1 DEF Integral
<1> SUFFICES ASSUME i \notin 1..Len(u.array)
             PROVE  Find(u, i) \in DOMAIN u.node /\ u.node[Find(u, i)].key = i /\ ~u.dummy
  OBVIOUS
<1>3. Find(u, i) # None BY <1>2 DEF luaH_get, InArray
<1>4. u.node \in Vectors /\ Linked(u.node) BY TableShape DEF Well, Chained
<1>5. i \in Keys \cup Int OBVIOUS
<1>6. Find(u, i) \in DOMAIN u.node /\ u.node[Find(u, i)].key = i BY <1>3, <1>4, <1>5, SearchSound DEF Find
<1> QED BY <1>1, <1>6 DEF Well, Dummy

(* The table has no more indices with a value than slots and nodes.                     *)
LEMMA LinearBorder ==
  ASSUME NEW u, Well(u)
  PROVE  Linear(u) \in Nat /\ Border(u, Linear(u))
<1> DEFINE A == Len(u.array)
           N == sizenode(u)
           D == DOMAIN u.node
           I == A + 1..A + N + 1
           P == {i \in 1..A + N + 1 : luaH_get(u, i) = Nil}
           f == [i \in I |-> Find(u, i)]
<1>1. A \in Nat /\ N \in Nat /\ IsFiniteSet(D) /\ Cardinality(D) = N
  BY TableShape, VectorSize DEF Well, sizenode
<1> HIDE DEF A, N
<1>2. P # {}
  <2> SUFFICES ASSUME P = {} PROVE FALSE OBVIOUS
  <2>1. ASSUME NEW i \in I PROVE Find(u, i) \in D /\ u.node[Find(u, i)].key = i
    <3>1. i \in 1..A + N + 1 /\ i \in Nat \ {0} /\ i \notin 1..A BY <1>1
    <3>2. luaH_get(u, i) # Nil BY <3>1
    <3> QED BY <3>1, <3>2, FoundInteger DEF A
  <2>2. f \in [I -> D] /\ \A i, k \in I : f[i] = f[k] => i = k BY <2>1
  <2>3. Cardinality(I) = N + 1 BY <1>1, FS_Interval
  <2> HIDE DEF f, I, D
  <2>4. f \in Injection(I, D) BY <2>2 DEF Injection, IsInjective
  <2>5. Cardinality(I) <= Cardinality(D) BY <1>1, <2>4, FS_Injection
  <2> QED BY <1>1, <2>3, <2>5
<1>3. P \in SUBSET Nat BY <1>1
<1> DEFINE m == Min(P)
<1>4. m \in P /\ \A x \in P : m <= x
  <2> HIDE DEF P
  <2> QED BY <1>2, <1>3, LeastElement
<1>5. Linear(u) = m - 1 BY DEF Linear, A, N
<1> HIDE DEF m
<1>6. m \in 1..A + N + 1 /\ luaH_get(u, m) = Nil BY <1>4
<1>7. m - 1 = 0 \/ luaH_get(u, m - 1) # Nil
  <2> SUFFICES ASSUME m - 1 # 0, luaH_get(u, m - 1) = Nil PROVE FALSE OBVIOUS
  <2>1. m - 1 \in 1..A + N + 1 BY <1>1, <1>6
  <2>2. m <= m - 1 BY <1>4, <2>1
  <2> QED BY <1>1, <1>6, <2>2
<1>8. m - 1 \in Nat /\ m - 1 + 1 = m BY <1>1, <1>6
<1> QED BY <1>5, <1>6, <1>7, <1>8 DEF Border, Some

(* Doubling the index finds an end, or every index up to half of MAX_INT has a value.      *)
LEMMA UnboundBorder ==
  ASSUME NEW u, Well(u), NEW j \in Nat, Some(u, j)
  PROVE  unbound_search(u, j) \in Nat /\ Border(u, unbound_search(u, j))
<1> DEFINE f == [x \in Nat |-> 2 * x]
           index == Iterated(f, j + 1)
           P == {i \in 0..MaxInt : luaH_get(u, index[i]) = Nil \/ index[i] > MaxInt \div 2}
           n == Min(P)
           T == {i \in Nat : index[i] >= i + 1}
<1>0. MaxInt \in Nat BY TableAssumption
<1>1. f \in [Nat -> Nat] /\ \A x \in Nat : f[x] = 2 * x OBVIOUS
<1>2. j + 1 \in Nat OBVIOUS
<1>3. unbound_search(u, j) =
        IF luaH_get(u, index[n]) # Nil THEN Linear(u)
        ELSE Bisect(u, IF n = 0 THEN j ELSE index[n - 1], index[n])
  BY DEF unbound_search
<1> HIDE DEF f
<1>4. index \in [Nat -> Nat] BY <1>1, <1>2, IteratedType
<1>5. index[0] = j + 1 BY <1>1, <1>2, IteratedStep
<1>6. \A i \in Nat : index[i + 1] = f[index[i]] BY <1>1, <1>2, IteratedStep
<1>7. \A i \in Nat : index[i + 1] = 2 * index[i] BY <1>1, <1>4, <1>6
<1> HIDE DEF index
<1>8. T = Nat
  <2>1. T \in SUBSET Nat /\ 0 \in T BY <1>5
  <2>2. ASSUME NEW i \in T PROVE i + 1 \in T BY <1>4, <1>7
  <2> HIDE DEF T
  <2> QED BY <2>1, <2>2, SetInduction
<1>9. P \in SUBSET Nat /\ P # {}
  <2>1. MaxInt \in T BY <1>0, <1>8
  <2>2. index[MaxInt] >= MaxInt + 1 /\ index[MaxInt] \in Nat BY <1>0, <1>4, <2>1
  <2>3. index[MaxInt] > MaxInt \div 2 BY <1>0, <2>2
  <2>4. MaxInt \in P BY <1>0, <2>3
  <2> QED BY <1>0, <2>4
<1>10. n \in P /\ \A x \in P : n <= x
  <2> HIDE DEF P
  <2> QED BY <1>9, LeastElement
<1> HIDE DEF n
<1>11. n \in Nat /\ n <= MaxInt BY <1>0, <1>10
<1>12. CASE luaH_get(u, index[n]) # Nil
  <2>1. unbound_search(u, j) = Linear(u) BY <1>3, <1>12
  <2> QED BY <2>1, LinearBorder
<1>13. CASE luaH_get(u, index[n]) = Nil
  <2> DEFINE i == IF n = 0 THEN j ELSE index[n - 1]
  <2>1. unbound_search(u, j) = Bisect(u, i, index[n]) BY <1>3, <1>13
  <2>2. index[n] \in Nat BY <1>4, <1>11
  <2>3. CASE n = 0
    <3>1. i = j /\ i < index[n] BY <1>5, <2>3
    <3> HIDE DEF i
    <3> QED BY <1>13, <2>1, <2>2, <3>1, BisectBorder
  <2>4. CASE n # 0
    <3>1. n - 1 \in 0..MaxInt /\ n - 1 \in Nat /\ n - 1 + 1 = n BY <1>0, <1>11, <2>4
    <3>2. n - 1 \notin P BY <1>10, <1>11
    <3>3. luaH_get(u, index[n - 1]) # Nil BY <3>1, <3>2
    <3>4. i = index[n - 1] /\ i \in Nat BY <1>4, <2>4, <3>1
    <3>5. index[n] = 2 * i BY <1>7, <3>1, <3>4
    <3>6. i >= 1
      <4>1. n - 1 \in T BY <1>8, <3>1
      <4> QED BY <3>1, <3>4, <4>1
    <3> HIDE DEF i
    <3>7. i < index[n] /\ Some(u, i) BY <3>3, <3>4, <3>5, <3>6 DEF Some
    <3> QED BY <1>13, <2>1, <2>2, <3>4, <3>7, BisectBorder
  <2> QED BY <2>3, <2>4
<1> QED BY <1>12, <1>13

(* luaH_getn() returns a border of every well-formed table, whichever of its three    *)
(* ways it takes.                                                                     *)
LEMMA GetnBorder ==
  ASSUME NEW u, Well(u)
  PROVE  Border(u, luaH_getn(u))
<1> DEFINE j == Len(u.array)
<1>1. j \in Nat BY TableShape DEF Well
<1>2. CASE j > 0 /\ luaH_get(u, j) = Nil
  <2>1. luaH_getn(u) = Bisect(u, 0, j) BY <1>2 DEF luaH_getn
  <2> HIDE DEF j
  <2>2. 0 \in Nat /\ 0 < j /\ Some(u, 0) BY <1>1, <1>2 DEF Some
  <2> QED BY <1>1, <1>2, <2>1, <2>2, BisectBorder
<1>3. CASE ~(j > 0 /\ luaH_get(u, j) = Nil)
  <2>1. Some(u, j) BY <1>1, <1>3 DEF Some
  <2>2. CASE u.dummy
    <3>1. luaH_getn(u) = j BY <1>3, <2>2 DEF luaH_getn
    <3>2. luaH_get(u, j + 1) = Nil
      <4>1. j + 1 \in Nat \ {0} /\ j + 1 \notin 1..j BY <1>1
      <4> QED BY <2>2, <4>1, FoundInteger
    <3> QED BY <2>1, <3>1, <3>2 DEF Border
  <2>3. CASE ~u.dummy
    <3>1. luaH_getn(u) = unbound_search(u, j) BY <1>3, <2>3 DEF luaH_getn
    <3> HIDE DEF j
    <3> QED BY <1>1, <2>1, <3>1, UnboundBorder
  <2> QED BY <2>2, <2>3
<1> QED BY <1>2, <1>3

(* The length of a table is a border, wherever its keys are and however they came there.   *)
THEOREM Bordered == Spec => []LengthIsBorder
<1>1. IInv => LengthIsBorder BY GetnBorder DEF IInv, LengthIsBorder, Border, Some
<1> QED BY IInvInit, IInvStep, <1>1, PTL DEF Spec

-----------------------------------------------------------------------------
(* Traversal.                                                                   *)

(* Every entry has its position, at which its key is found.                             *)
LEMMA Positions ==
  ASSUME NEW u, Well(u)
  PROVE  LET L == Len(u.array) + sizenode(u)
         IN  /\ L \in Nat
             /\ \A i \in 1..L : Elements(u)[i].val # Nil =>
                  /\ Elements(u)[i].key \in Keys
                  /\ luaH_get(u, Elements(u)[i].key) # Nil
                  /\ findindex(u, Elements(u)[i].key) = i
             /\ \A k \in Keys : luaH_get(u, k) # Nil =>
                  /\ findindex(u, k) \in 1..L
                  /\ Elements(u)[findindex(u, k)].key = k
                  /\ Elements(u)[findindex(u, k)].val # Nil
<1> DEFINE A == Len(u.array)
           N == sizenode(u)
           L == A + N
           E(i) == Elements(u)[i]
<1>1. /\ u.array \in Seq(Values \cup {Nil}) /\ A \in Nat /\ u.node \in Vectors
      /\ N \in Nat /\ DOMAIN u.node = 0..N - 1
      /\ \A n \in DOMAIN u.node : u.node[n] \in Node
  BY TableShape, VectorSize DEF Well, sizenode
<1> HIDE DEF A, N
<1>2. \A i \in 1..L : E(i) = IF i <= A THEN [key |-> i, val |-> u.array[i]]
                             ELSE [key |-> u.node[i - A - 1].key, val |-> u.node[i - A - 1].val]
  BY DEF Elements, A, N
<1> HIDE DEF E
<1>3. ASSUME NEW i \in 1..L, E(i).val # Nil
      PROVE  E(i).key \in Keys /\ luaH_get(u, E(i).key) # Nil /\ findindex(u, E(i).key) = i
  <2>1. CASE i <= A
    <3>1. E(i).key = i /\ E(i).val = u.array[i] BY <1>2, <2>1
    <3>2. i \in 1..A BY <1>1, <2>1
    <3>3. i \in Keys BY <1>3, <3>1, <3>2 DEF Well, Listed, A
    <3>4. i \notin Strings \cup Pointers /\ i # Nil BY TableAssumption
    <3>5. InArray(u, i) BY <3>2, <3>4 DEF InArray, A
    <3>6. findindex(u, i) = i BY <3>4, <3>5 DEF findindex
    <3>7. luaH_get(u, i) = u.array[i] BY <3>3, <3>5, KeysAreKeys DEF luaH_get
    <3> QED BY <1>3, <3>1, <3>3, <3>6, <3>7
  <2>2. CASE ~(i <= A)
    <3> DEFINE n == i - A - 1
               k == u.node[n].key
    <3>1. n \in DOMAIN u.node /\ n # None /\ A + 1 + n = i BY <1>1, <2>2 DEF None
    <3>2. E(i).key = k /\ E(i).val = u.node[n].val BY <1>2, <2>2
    <3> HIDE DEF n
    <3>3. Live(u.node, n)
      BY <1>3, <3>1, <3>2 DEF Well, Chained, FreeApart, DeadEmpty, Live
    <3>4. k \in Keys /\ k # Nil
      <4>1. u.node[n] \in Node BY <1>1, <3>1
      <4> QED BY <3>3, <4>1 DEF Live, Node
    <3>5. luaH_get(u, k) = u.node[n].val BY <3>1, <3>3, GetOfLive
    <3>6. FindAny(u, k) = n BY <3>1, <3>3, Lookup
    <3>7. ~InArray(u, k) BY <3>1, <3>4 DEF Well, HashOnly
    <3> HIDE DEF k
    <3>8. findindex(u, k) = A + 1 + n BY <3>1, <3>4, <3>6, <3>7 DEF findindex, A
    <3> QED BY <1>3, <3>1, <3>2, <3>4, <3>5, <3>8
  <2> QED BY <2>1, <2>2
<1>4. ASSUME NEW k \in Keys, luaH_get(u, k) # Nil
      PROVE  /\ findindex(u, k) \in 1..L
             /\ E(findindex(u, k)).key = k /\ E(findindex(u, k)).val # Nil
  <2>0. k # Nil BY KeysAreKeys
  <2>1. CASE InArray(u, k)
    <3>1. findindex(u, k) = k BY <2>0, <2>1 DEF findindex
    <3>2. k \in 1..A /\ k <= A /\ k \in 1..L BY <1>1, <2>1 DEF InArray, A
    <3>3. luaH_get(u, k) = u.array[k] BY <2>1, KeysAreKeys DEF luaH_get
    <3>4. E(k).key = k /\ E(k).val = u.array[k] BY <1>2, <3>2
    <3> QED BY <1>4, <3>1, <3>2, <3>3, <3>4
  <2>2. CASE ~InArray(u, k)
    <3>1. Find(u, k) # None BY <1>4, <2>2, KeysAreKeys DEF luaH_get
    <3> DEFINE n == Find(u, k)
    <3>2. n \in DOMAIN u.node /\ u.node[n].key = k /\ Live(u.node, n) BY <3>1, FoundIsLive
    <3>3. luaH_get(u, k) = u.node[n].val BY <2>2, <3>1, KeysAreKeys DEF luaH_get
    <3> HIDE DEF n
    <3>4. FindAny(u, k) = n BY <3>2, Lookup
    <3>5. n # None BY <1>1, <3>2 DEF None
    <3>6. findindex(u, k) = A + 1 + n BY <2>0, <2>2, <3>4, <3>5 DEF findindex, A
    <3> DEFINE i == A + 1 + n
    <3>7. i \in 1..L /\ ~(i <= A) /\ i - A - 1 = n BY <1>1, <3>2
    <3>8. E(i).key = k /\ E(i).val = u.node[n].val BY <1>2, <3>2, <3>7
    <3> QED BY <1>4, <3>3, <3>6, <3>7, <3>8
  <2> QED BY <2>1, <2>2
<1> QED BY <1>1, <1>3, <1>4 DEF L, E, A, N

(* The step of a traversal: the next entry behind the cursor, if there is one.            *)
LEMMA NextEntry ==
  ASSUME NEW u, Well(u), NEW c, findindex(u, c) \in Nat
  PROVE  LET k == luaH_next(u, c)
             behind == {j \in Keys : luaH_get(u, j) # Nil /\ findindex(u, j) > findindex(u, c)}
         IN  \/ k = Nil /\ behind = {}
             \/ k \in behind /\ \A j \in behind : findindex(u, k) <= findindex(u, j)
<1> DEFINE from == findindex(u, c)
           L == Len(u.array) + sizenode(u)
           rest == {i \in from + 1..L : Elements(u)[i].val # Nil}
           behind == {j \in Keys : luaH_get(u, j) # Nil /\ findindex(u, j) > findindex(u, c)}
<1>1. /\ L \in Nat
      /\ \A i \in 1..L : Elements(u)[i].val # Nil =>
           /\ Elements(u)[i].key \in Keys
           /\ luaH_get(u, Elements(u)[i].key) # Nil
           /\ findindex(u, Elements(u)[i].key) = i
      /\ \A k \in Keys : luaH_get(u, k) # Nil =>
           /\ findindex(u, k) \in 1..L
           /\ Elements(u)[findindex(u, k)].key = k
           /\ Elements(u)[findindex(u, k)].val # Nil
  BY Positions
<1>2. luaH_next(u, c) = IF from = None THEN Error
                        ELSE IF rest = {} THEN Nil ELSE Elements(u)[Min(rest)].key
  BY DEF luaH_next
<1>3. from # None /\ from \in Nat BY DEF None
<1> HIDE DEF L
<1>4. ASSUME NEW j \in behind PROVE findindex(u, j) \in rest
  BY <1>1, <1>3 DEF L
<1>5. CASE rest = {} BY <1>2, <1>3, <1>4, <1>5
<1>6. CASE rest # {}
  <2> DEFINE m == Min(rest)
             k == Elements(u)[m].key
  <2>1. m \in rest /\ \A i \in rest : m <= i
    <3>1. rest \in SUBSET Nat BY <1>1, <1>3 DEF L
    <3> HIDE DEF rest
    <3> QED BY <1>6, <3>1, LeastElement
  <2> HIDE DEF m
  <2>2. m \in 1..L /\ Elements(u)[m].val # Nil /\ m > from BY <1>1, <1>3, <2>1 DEF L
  <2>3. k \in Keys /\ luaH_get(u, k) # Nil /\ findindex(u, k) = m BY <1>1, <2>2 DEF L
  <2>4. luaH_next(u, c) = k BY <1>2, <1>3, <1>6 DEF m
  <2>5. k \in behind BY <2>2, <2>3
  <2>6. \A j \in behind : findindex(u, k) <= findindex(u, j) BY <1>4, <2>1, <2>3
  <2> QED BY <2>4, <2>5, <2>6
<1> QED BY <1>5, <1>6

(* Entries keep their positions when one of them gets another value.                     *)
LEMMA InPlace ==
  ASSUME NEW u, Well(u), NEW key \in Keys \cup Floats, NEW v \in Values \cup {Nil},
         luaH_get(u, Integral(key)) # Nil
  PROVE  \A j \in Keys : findindex(luaH_set(u, key, v), j) = findindex(u, j)
<1> DEFINE k == Integral(key)
           w == luaH_set(u, key, v)
<1>1. k \in Keys BY TableAssumption DEF Integral, Keys
<1>2. luaH_get(u, k) # Nil OBVIOUS
<1>3. w = Insert(IF Full(u, k) THEN rehash(u, k) ELSE u, k, v) BY DEF luaH_set
<1> HIDE DEF k, w
<1>4. ~InArray(u, k) => Find(u, k) # None BY <1>1, <1>2, KeysAreKeys DEF luaH_get
<1>5. w = Insert(u, k, v) BY <1>3, <1>4 DEF Full
<1>6. u \in Tables /\ u.node \in Vectors /\ Linked(u.node) /\ u.array \in Seq(Values \cup {Nil})
  BY TableShape DEF Well, Chained
<1>7. /\ Len(w.array) = Len(u.array) /\ w.node \in Vectors /\ DOMAIN w.node = DOMAIN u.node
      /\ \A n \in DOMAIN u.node :
           /\ w.node[n].key = u.node[n].key /\ w.node[n].next = u.node[n].next
           /\ w.node[n].dead \in BOOLEAN /\ u.node[n].dead \in BOOLEAN
  <2>1. Stores(u, w, k, v)
    <3>1. ~Full(u, k) BY <1>4 DEF Full
    <3> QED BY <1>1, <1>5, <3>1, InsertStores
  <2>2. /\ Len(w.array) = Len(u.array) /\ w.node \in Vectors /\ DOMAIN w.node = DOMAIN u.node
        /\ \A n \in DOMAIN u.node : w.node[n] \in Node /\ u.node[n] \in Node
    <3>1. w \in Tables BY <2>1 DEF Stores, Well
    <3> QED BY <1>6, <2>1, <3>1, TableShape DEF Stores
  <2>3. ASSUME NEW n \in DOMAIN u.node
        PROVE  w.node[n].key = u.node[n].key /\ w.node[n].next = u.node[n].next
    <3>1. CASE InArray(u, k)
      <4>1. w = [u EXCEPT !.array[k] = v] BY <1>5, <3>1 DEF Insert
      <4>2. w.node = u.node BY <1>6, <4>1 DEF Tables
      <4> QED BY <4>2
    <3>2. CASE ~InArray(u, k)
      <4> DEFINE f == Find(u, k)
      <4>1. w = [u EXCEPT !.node[f].val = v] BY <1>4, <1>5, <3>2 DEF Insert
      <4>2. f \in DOMAIN u.node BY <1>1, <1>4, <3>2, FoundIsLive
      <4> HIDE DEF f
      <4>3. w.node = [u.node EXCEPT ![f].val = v] BY <1>6, <4>1 DEF Tables
      <4>4. n # f => w.node[n] = u.node[n] BY <4>3
      <4>5. w.node[f] = [u.node[f] EXCEPT !.val = v] BY <4>2, <4>3
      <4>6. w.node[f].key = u.node[f].key /\ w.node[f].next = u.node[f].next
        BY <2>2, <4>2, <4>5 DEF Node
      <4> QED BY <4>4, <4>6
    <3> QED BY <3>1, <3>2
  <2> QED BY <2>2, <2>3 DEF Node
<1>8. ASSUME NEW j \in Keys PROVE findindex(w, j) = findindex(u, j)
  <2>1. FindAny(w, j) = FindAny(u, j) BY <1>6, <1>7, SearchSame DEF FindAny
  <2>2. InArray(w, j) <=> InArray(u, j) BY <1>7 DEF InArray
  <2> QED BY <1>7, <2>1, <2>2 DEF findindex
<1> QED BY <1>8 DEF w

(* What was given lies at or before the cursor, what is left lies behind it.              *)
TInv ==
  /\ cursor \in Keys \cup {Nil} /\ (cursor = Nil => seen = {})
  /\ findindex(t, cursor) \in Nat
  /\ \A k \in Keys : luaH_get(t, k) # Nil =>
       (k \in seen <=> findindex(t, k) <= findindex(t, cursor))

(* A table just created is not being traversed.                                       *)
LEMMA TInvInit == Init => TInv
<1> SUFFICES ASSUME Init PROVE TInv OBVIOUS
<1>1. cursor = Nil /\ seen = {} BY DEF Init
<1>2. \A k \in Keys : luaH_get(t, k) = Nil BY IInvInit DEF IInv, FindsWhatWasStored, Init
<1>3. findindex(t, Nil) = 0 BY DEF findindex
<1> QED BY <1>1, <1>2, <1>3 DEF TInv

(* Every operation that may happen during a traversal leaves every key where          *)
(* findindex() finds it, so what was given stays at or before the cursor.             *)
LEMMA TInvStep == IInv /\ TInv /\ [Next]_vars => TInv'
<1> SUFFICES ASSUME IInv, TInv, [Next]_vars PROVE TInv' OBVIOUS
<1>1. Well(t) /\ content \in Contents /\ \A k \in Keys : luaH_get(t, k) = content[k]
  BY DEF IInv, FindsWhatWasStored
<1>2. Well(t') BY IInvStep DEF IInv
<1>3. ASSUME cursor' = Nil, seen' = {} PROVE TInv'
  <2>1. findindex(t', Nil) = 0 BY DEF findindex
  <2>2. \A k \in Keys : luaH_get(t', k) # Nil => findindex(t', k) \in Nat /\ findindex(t', k) >= 1
    BY <1>2, Positions
  <2> QED BY <1>3, <2>1, <2>2 DEF TInv
<1>4. ASSUME cursor' = cursor, seen' = seen, cursor # Nil,
             \A k \in Keys : findindex(t', k) = findindex(t, k),
             \A k \in Keys : luaH_get(t', k) # Nil => luaH_get(t, k) # Nil
      PROVE  TInv'
  <2>1. cursor \in Keys BY <1>4 DEF TInv
  <2> QED BY <1>4, <2>1 DEF TInv
<1>5. ASSUME NEW k \in Keys \cup Floats, NEW v \in Values \cup {Nil}, Set(k, v) PROVE TInv'
  <2>1. CASE cursor = Nil BY <1>3, <1>5, <2>1 DEF Set, TInv
  <2>2. CASE cursor # Nil
    <3>1. /\ Integral(k) \in Keys
          /\ \A j \in Keys : luaH_get(t', j) = IF j = Integral(k) THEN v ELSE luaH_get(t, j)
      BY <1>1, <1>5, SetStores DEF Set
    <3>2. luaH_get(t, Integral(k)) # Nil BY <1>1, <1>5, <2>2, <3>1 DEF Set
    <3>3. \A j \in Keys : findindex(t', j) = findindex(t, j) BY <1>1, <1>5, <3>2, InPlace DEF Set
    <3> QED BY <1>4, <1>5, <2>2, <3>1, <3>2, <3>3 DEF Set
  <2> QED BY <2>1, <2>2
<1>6. ASSUME NEW n \in 1..MaxArray, NEW v \in Values, SetList(n, v) PROVE TInv'
  BY <1>3, <1>6 DEF SetList, TInv
<1>7. ASSUME NEW n \in DOMAIN t.node, removeentry(n) PROVE TInv'
  <2>1. /\ t.node[n].val = Nil /\ t.node[n].key \in Strings \cup Pointers
        /\ t' = [t EXCEPT !.node[n].dead = TRUE] /\ cursor' = cursor /\ seen' = seen
    BY <1>7 DEF removeentry
  <2> DEFINE w == [t EXCEPT !.node[n].dead = TRUE]
  <2>2. /\ w.array = t.array /\ DOMAIN w.node = DOMAIN t.node
        /\ \A m \in DOMAIN t.node :
             /\ w.node[m].key = t.node[m].key /\ w.node[m].val = t.node[m].val
             /\ w.node[m].next = t.node[m].next /\ w.node[m].dead \in BOOLEAN
             /\ t.node[m].dead \in BOOLEAN
        /\ \A k \in Keys : luaH_get(w, k) = luaH_get(t, k)
    BY <1>1, <2>1, DeathKeeps
  <2>3. t' = w BY <2>1
  <2> HIDE DEF w
  <2>4. t.node \in Vectors /\ Linked(t.node) /\ w.node \in Vectors
    BY <1>1, <1>2, <2>3, TableShape DEF Well, Chained
  <2>5. ASSUME NEW k \in Keys PROVE findindex(w, k) = findindex(t, k)
    <3>1. FindAny(w, k) = FindAny(t, k) BY <2>2, <2>4, SearchSame DEF FindAny
    <3>2. InArray(w, k) <=> InArray(t, k) BY <2>2 DEF InArray
    <3> QED BY <2>2, <3>1, <3>2 DEF findindex
  <2>6. CASE cursor = Nil BY <1>3, <2>1, <2>6 DEF TInv
  <2>7. CASE cursor # Nil
    <3>1. \A k \in Keys : findindex(t', k) = findindex(t, k) BY <2>3, <2>5
    <3>2. \A k \in Keys : luaH_get(t', k) = luaH_get(t, k) BY <2>2, <2>3
    <3> QED BY <1>4, <2>1, <2>7, <3>1, <3>2
  <2> QED BY <2>6, <2>7
<1>8. ASSUME Visit PROVE TInv'
  <2> DEFINE k == luaH_next(t, cursor)
             behind == {j \in Keys : luaH_get(t, j) # Nil /\ findindex(t, j) > findindex(t, cursor)}
  <2>1. cursor' = k /\ t' = t /\ seen' = IF k \in {Nil, Error} THEN {} ELSE seen \cup {k}
    BY <1>8 DEF Visit
  <2>2. \/ k = Nil /\ behind = {}
        \/ k \in behind /\ \A j \in behind : findindex(t, k) <= findindex(t, j)
    BY <1>1, NextEntry DEF TInv
  <2> HIDE DEF k
  <2>3. CASE k = Nil BY <1>3, <2>1, <2>3
  <2>4. CASE k \in behind /\ \A j \in behind : findindex(t, k) <= findindex(t, j)
    <3>1. k \in Keys /\ k # Nil /\ k # Error
      BY <2>4, TableAssumption DEF Keys
    <3>2. seen' = seen \cup {k} BY <2>1, <3>1
    <3>3. \A j \in Keys : luaH_get(t, j) # Nil =>
            /\ findindex(t, j) \in Nat
            /\ Elements(t)[findindex(t, j)].key = j
      BY <1>1, Positions
    <3>4. findindex(t, k) \in Nat /\ findindex(t, k) > findindex(t, cursor) /\ luaH_get(t, k) # Nil
      BY <2>4, <3>3
    <3>5. ASSUME NEW j \in Keys, luaH_get(t, j) # Nil
          PROVE  j \in seen \cup {k} <=> findindex(t, j) <= findindex(t, k)
      <4>1. findindex(t, j) \in Nat /\ findindex(t, cursor) \in Nat BY <3>3, <3>5 DEF TInv
      <4>2. j \in seen <=> findindex(t, j) <= findindex(t, cursor) BY <3>5 DEF TInv
      <4>3. CASE j \in behind
        <5>1. findindex(t, j) = findindex(t, k) => j = k BY <3>1, <3>3, <3>4, <3>5
        <5>2. findindex(t, k) <= findindex(t, j) BY <2>4, <4>3
        <5>3. j \notin seen BY <4>1, <4>2, <4>3
        <5> QED BY <3>4, <4>1, <5>1, <5>2, <5>3
      <4>4. CASE j \notin behind
        <5>1. findindex(t, j) <= findindex(t, cursor) BY <3>5, <4>1, <4>4
        <5> QED BY <3>4, <4>1, <4>2, <5>1
      <4> QED BY <4>3, <4>4
    <3> QED BY <2>1, <3>1, <3>2, <3>4, <3>5 DEF TInv
  <2> QED BY <2>2, <2>3, <2>4
<1>9. CASE Break BY <1>3, <1>9 DEF Break
<1>10. CASE UNCHANGED vars BY <1>10 DEF vars, TInv
<1> QED BY <1>5, <1>6, <1>7, <1>8, <1>9, <1>10 DEF Next

(* A table just created is an empty dictionary.                                       *)
LEMMA MapInit == Init => Map!Init
BY DEF Init, Map!Init

(* Every operation of the table is a step of the dictionary, or leaves what the       *)
(* dictionary shows as it is.                                                         *)
LEMMA MapStep == IInv /\ TInv /\ [Next]_vars => [Map!Next]_<<content, cursor, seen>>
<1> SUFFICES ASSUME IInv, TInv, Next PROVE Map!Next \/ UNCHANGED <<content, cursor, seen>>
  BY DEF vars
<1>1. Well(t) /\ content \in Contents /\ \A k \in Keys : luaH_get(t, k) = content[k]
  BY DEF IInv, FindsWhatWasStored
<1>2. ASSUME NEW k \in Keys \cup Floats, NEW v \in Values \cup {Nil}, Set(k, v) PROVE Map!Next
  <2> DEFINE i == Integral(k)
  <2>1. i \in Keys BY <1>1, SetStores
  <2>2. cursor # Nil => content[i] # Nil BY <1>2 DEF Set
  <2>3. content' = [content EXCEPT ![i] = v] /\ UNCHANGED <<cursor, seen>> BY <1>2 DEF Set
  <2> HIDE DEF i
  <2>4. content' = [j \in Keys |-> IF j \in {i} THEN v ELSE content[j]]
    BY <1>1, <2>1, <2>3 DEF Contents
  <2>5. cursor # Nil => {i} \subseteq Map!Present BY <2>1, <2>2 DEF Map!Present
  <2>6. Map!Assign({i}, v) BY <2>3, <2>4, <2>5 DEF Map!Assign
  <2> QED BY <2>1, <2>6 DEF Map!Next
<1>3. ASSUME NEW n \in 1..MaxArray, NEW v \in Values, SetList(n, v) PROVE Map!Next
  <2>1. Map!Assign(1..n, v) BY <1>3 DEF SetList, Map!Assign
  <2> QED BY <2>1 DEF Map!Next
<1>4. ASSUME NEW n \in DOMAIN t.node, removeentry(n) PROVE UNCHANGED <<content, cursor, seen>>
  BY <1>4 DEF removeentry
<1>5. ASSUME Visit PROVE Map!Next
  <2> DEFINE k == luaH_next(t, cursor)
             behind == {j \in Keys : luaH_get(t, j) # Nil /\ findindex(t, j) > findindex(t, cursor)}
  <2>1. /\ cursor' = k /\ content' = content
        /\ seen' = IF k \in {Nil, Error} THEN {} ELSE seen \cup {k}
    BY <1>5 DEF Visit
  <2>2. (k = Nil /\ behind = {}) \/ k \in behind BY <1>1, NextEntry DEF TInv
  <2> HIDE DEF k
  <2>3. ASSUME NEW j \in Keys, content[j] # Nil PROVE j \in seen <=> j \notin behind
    <3>1. luaH_get(t, j) # Nil BY <1>1, <2>3
    <3>2. findindex(t, j) \in Nat /\ findindex(t, cursor) \in Nat
      BY <1>1, <3>1, Positions DEF TInv
    <3> QED BY <3>1, <3>2 DEF TInv
  <2>4. CASE k = Nil /\ behind = {}
    <3>1. Map!Present \subseteq seen BY <2>3, <2>4 DEF Map!Present
    <3>2. Map!Finish BY <2>1, <2>4, <3>1 DEF Map!Finish
    <3> QED BY <3>2 DEF Map!Next
  <2>5. CASE k \in behind
    <3>1. k \in Keys /\ content[k] # Nil BY <1>1, <2>5
    <3>2. k \in Map!Present /\ k \notin seen BY <2>3, <2>5, <3>1 DEF Map!Present
    <3>3. k # Nil /\ k # Error BY <3>1, TableAssumption DEF Keys
    <3>4. Map!Visit(k) BY <2>1, <3>2, <3>3 DEF Map!Visit
    <3> QED BY <3>1, <3>4 DEF Map!Next
  <2> QED BY <2>2, <2>4, <2>5
<1>6. ASSUME Break PROVE Map!Next BY <1>6 DEF Break, Map!Break, Map!Next
<1> QED BY <1>2, <1>3, <1>4, <1>5, <1>6 DEF Next

(* A traversal gives every entry exactly once, whatever is cleared meanwhile, and never   *)
(* fails: the table implements the dictionary of the manual.                           *)
THEOREM Traverses == Spec => TraversesAll
BY IInvInit, IInvStep, TInvInit, TInvStep, MapInit, MapStep, PTL DEF Spec, TraversesAll, Map!Spec

=============================================================================
