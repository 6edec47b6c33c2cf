---------------------------- MODULE LuaListProofs ----------------------------
(***************************************************************************)
(* For tables of any length, any elements, and any comparison function: insert, remove and  *)
(* move put every element where they should, and sort only moves the elements of 1..#t     *)
(* about; for an order, also a partial one in which different elements may be equal, it     *)
(* leaves them in order and does not complain.                                        *)
(*                                                                          *)
(* The first is about the order in which elements are moved; the second needs no more than   *)
(* where the indices are.  For the third, the parts still to be sorted do not overlap, and    *)
(* two elements are in order unless they are in one of them together; inside a part the      *)
(* partition has what the comment in auxsort() says.                                  *)
(***************************************************************************)
EXTENDS LuaList, FiniteSetTheorems, TLAPS

Sorting == {"ends", "middle", "upper", "up", "down"}

SortTypeOK ==
  /\ t \in [Positions -> Elements] /\ list \in [Positions -> Elements]
  /\ n \in 0..MaxLen
  /\ frames \in Seq(Int \X Int)
  /\ l \in Int /\ u \in Int /\ i \in Int /\ j \in Int
  /\ P \in Elements

(* Where the indices are.                                                             *)
PartInside == pc \in Sorting => 1 <= l /\ u <= n
FramesInside == \A k \in DOMAIN frames : 1 <= frames[k][1] /\ frames[k][2] <= n
IndicesInside ==
  /\ pc \in {"middle", "upper"} => l < i /\ i < u
  /\ pc \in {"up", "down"} => l + 3 <= u /\ l < j /\ j < u
  /\ pc = "up" => l <= i /\ i < u
  /\ pc = "down" => l < i /\ i <= u

(* The elements.                                                                  *)
Permuted(f, g, p) == \A k \in Positions : f[k] = IF k \in 1..n THEN g[p[k]] ELSE g[k]
Kept == \E p \in Bijection(1..n, 1..n) : Permuted(t, list, p)
KeptIdle == pc = "idle" => t = list

(* The parts.                                                                      *)
Before(p, q) == p[2] < q[1] \/ q[2] < p[1]
Disjoint ==
  /\ pc \in Sorting => \A k \in DOMAIN frames : u < frames[k][1] \/ frames[k][2] < l
  /\ \A k, m \in DOMAIN frames : k # m => Before(frames[k], frames[m])

InPart(x, lo, hi) == lo <= x /\ x <= hi
Together(x, y) ==
  \/ pc \in Sorting /\ InPart(x, l, u) /\ InPart(y, l, u)
  \/ \E k \in DOMAIN frames : /\ InPart(x, frames[k][1], frames[k][2])
                              /\ InPart(y, frames[k][1], frames[k][2])
InOrder == \A x, y \in 1..n : x < y /\ ~Together(x, y) => ~Less(t[y], t[x])

(* The part being sorted.                                                             *)
Low(hi) == \A k \in l..hi : ~Less(P, t[k])
High(lo) == \A k \in lo..u : ~Less(t[k], P)
Partitioned ==
  /\ pc \in {"middle", "upper"} => ~Less(t[u], t[l])
  /\ pc = "upper" => ~Less(t[i], t[l])
  /\ pc \in {"up", "down"} => t[u - 1] = P /\ High(j)
  /\ pc = "up" => Low(i) /\ i <= j /\ i < u - 1
  /\ pc = "down" => Low(i - 1) /\ ~Less(t[i], P) /\ i <= j + 1 /\ i < u

SortInv ==
  /\ SortTypeOK /\ PartInside /\ FramesInside /\ IndicesInside /\ Kept /\ KeptIdle
  /\ comparison = "consistent" => Disjoint /\ InOrder /\ Partitioned /\ pc # "error"
  /\ pc = "done" => frames = <<>>

-----------------------------------------------------------------------------
(* The list that is sorted lies in the places of the model, which hold its elements.        *)
LEMMA InPositions ==
  ASSUME SortTypeOK, NEW k \in 1..n
  PROVE  k \in Positions /\ t[k] \in Elements
  BY SortAssumption DEF SortTypeOK, Positions

(* A strict weak order never answers yes both ways.                                         *)
LEMMA LessAsym ==
  ASSUME NEW x \in Elements, NEW y \in Elements, Less(x, y)
  PROVE  ~Less(y, x)
  BY SortAssumption

(* Read the other way: not less is transitive.                                          *)
LEMMA NotLessTrans ==
  ASSUME NEW x \in Elements, NEW y \in Elements, NEW z \in Elements,
         ~Less(x, y), ~Less(y, z)
  PROVE  ~Less(x, z)
  BY SortAssumption

(* set2() exchanges two places and touches no other.                                        *)
LEMMA Swapped ==
  ASSUME NEW f \in [Positions -> Elements], NEW x \in Positions, NEW y \in Positions
  PROVE  /\ set2(f, x, y) \in [Positions -> Elements]
         /\ set2(f, x, y)[x] = f[y] /\ set2(f, x, y)[y] = f[x]
         /\ \A k \in Positions : k # x /\ k # y => set2(f, x, y)[k] = f[k]
  BY DEF set2

(* Exchanging two elements inside 1..#t permutes them.                                    *)
LEMMA SwapKeeps ==
  ASSUME NEW f \in [Positions -> Elements], NEW g \in [Positions -> Elements],
         n \in 0..MaxLen, NEW x \in 1..n, NEW y \in 1..n,
         \E p \in Bijection(1..n, 1..n) : Permuted(f, g, p)
  PROVE  \E p \in Bijection(1..n, 1..n) : Permuted(set2(f, x, y), g, p)
  <1>1. PICK p \in Bijection(1..n, 1..n) : Permuted(f, g, p) OBVIOUS
  <1>2. /\ p \in [1..n -> 1..n] /\ \A v \in 1..n : \E w \in 1..n : p[w] = v
        /\ \A v, w \in 1..n : p[v] = p[w] => v = w
    BY <1>1 DEF Bijection, Injection, Surjection, IsInjective
  <1> DEFINE q == [p EXCEPT ![x] = p[y], ![y] = p[x]]
  <1>3. q \in [1..n -> 1..n] BY <1>2
  <1>4. q[x] = p[y] /\ q[y] = p[x] /\ \A k \in 1..n : k # x /\ k # y => q[k] = p[k]
    BY <1>2
  <1> HIDE DEF q
  <1>5. ASSUME NEW v \in 1..n PROVE \E w \in 1..n : q[w] = v
    <2>1. PICK w \in 1..n : p[w] = v BY <1>2
    <2>2. CASE w = x BY <1>4, <2>1, <2>2
    <2>3. CASE w = y BY <1>4, <2>1, <2>3
    <2>4. CASE w # x /\ w # y BY <1>4, <2>1, <2>4
    <2> QED BY <2>2, <2>3, <2>4
  <1>9. ASSUME NEW v \in 1..n, NEW w \in 1..n, q[v] = q[w] PROVE v = w
    <2>1. CASE v = x BY <1>2, <1>4, <1>9, <2>1, ZenonT(30)
    <2>2. CASE v = y BY <1>2, <1>4, <1>9, <2>2, ZenonT(30)
    <2>3. CASE v # x /\ v # y
      <3>1. q[v] = p[v] BY <1>4, <2>3
      <3>2. CASE w = x BY <1>2, <1>4, <1>9, <2>3, <3>1, <3>2, ZenonT(30)
      <3>3. CASE w = y BY <1>2, <1>4, <1>9, <2>3, <3>1, <3>3, ZenonT(30)
      <3>4. CASE w # x /\ w # y BY <1>2, <1>4, <1>9, <3>1, <3>4, ZenonT(30)
      <3> QED BY <3>2, <3>3, <3>4
    <2> QED BY <2>1, <2>2, <2>3
  <1>6. q \in Bijection(1..n, 1..n) BY <1>3, <1>5, <1>9 DEF Bijection, Injection, Surjection, IsInjective
  <1>7. x \in Positions /\ y \in Positions BY SortAssumption DEF Positions
  <1>8. ASSUME NEW k \in Positions
        PROVE  set2(f, x, y)[k] = IF k \in 1..n THEN g[q[k]] ELSE g[k]
    <2>1. f[k] = IF k \in 1..n THEN g[p[k]] ELSE g[k] BY <1>1 DEF Permuted
    <2>2. f[x] = g[p[x]] /\ f[y] = g[p[y]] BY <1>1, <1>7 DEF Permuted
    <2>3. CASE k = x BY <1>4, <1>7, <2>2, <2>3, Swapped
    <2>4. CASE k = y BY <1>4, <1>7, <2>2, <2>4, Swapped
    <2>5. CASE k # x /\ k # y BY <1>4, <1>7, <2>1, <2>5, Swapped
    <2> QED BY <2>3, <2>4, <2>5
  <1> QED BY <1>6, <1>8 DEF Permuted

(* A call begins with the elements where they are.                                       *)
LEMMA Unpermuted ==
  ASSUME NEW f, NEW m \in Nat
  PROVE  \E p \in Bijection(1..m, 1..m) : \A k \in Positions : f[k] = IF k \in 1..m THEN f[p[k]] ELSE f[k]
  <1> DEFINE id == [k \in 1..m |-> k]
  <1>1. id \in Bijection(1..m, 1..m) BY DEF Bijection, Injection, Surjection, IsInjective
  <1> QED BY <1>1

-----------------------------------------------------------------------------
(* f is the table with elements of the current part moved about.                            *)
Rearranged(f) ==
  /\ f \in [Positions -> Elements]
  /\ \A k \in Positions : ~InPart(k, l, u) => f[k] = t[k]
  /\ \A k \in 1..n : InPart(k, l, u) => \E m \in 1..n : InPart(m, l, u) /\ f[k] = t[m]

(* Exchanges within the part being sorted only rearrange it, so what is known of the other  *)
(* parts stays true.                                                                        *)
LEMMA SwapRearranges ==
  ASSUME SortTypeOK, 1 <= l, u <= n, NEW f, Rearranged(f),
         NEW x \in Int, NEW y \in Int, InPart(x, l, u), InPart(y, l, u)
  PROVE  Rearranged(set2(f, x, y))
  <1>1. x \in 1..n /\ y \in 1..n /\ x \in Positions /\ y \in Positions
    BY SortAssumption DEF SortTypeOK, InPart, Positions
  <1>2. f \in [Positions -> Elements] BY DEF Rearranged
  <1>3. ASSUME NEW k \in 1..n, InPart(k, l, u)
        PROVE  \E m \in 1..n : InPart(m, l, u) /\ set2(f, x, y)[k] = t[m]
    <2>1. k \in Positions BY InPositions
    <2>2. set2(f, x, y)[k] \in {f[k], f[x], f[y]} BY <1>1, <1>2, <2>1, Swapped
    <2> QED BY <1>1, <1>3, <2>2 DEF Rearranged
  <1>4. ASSUME NEW k \in Positions, ~InPart(k, l, u)
        PROVE  set2(f, x, y)[k] = t[k]
    <2>1. k # x /\ k # y BY <1>4
    <2>2. set2(f, x, y)[k] = f[k] BY <1>1, <1>2, <2>1, Swapped
    <2> QED BY <1>4, <2>2 DEF Rearranged
  <1> QED BY <1>1, <1>2, <1>3, <1>4, Swapped DEF Rearranged

(* Nothing outside the part notices.                                                    *)
LEMMA RearrangedInOrder ==
  ASSUME SortTypeOK, pc \in Sorting, Disjoint, InOrder, NEW f, Rearranged(f),
         NEW x \in 1..n, NEW y \in 1..n, x < y, ~Together(x, y)
  PROVE  ~Less(f[y], f[x])
  <1>1. x \in Positions /\ y \in Positions BY InPositions
  <1>2. ~(InPart(x, l, u) /\ InPart(y, l, u)) BY DEF Together
  <1>3. CASE ~InPart(x, l, u) /\ ~InPart(y, l, u)
    BY <1>1, <1>3 DEF Rearranged, InOrder
  <1>4. CASE InPart(x, l, u) /\ ~InPart(y, l, u)
    <2>1. PICK m \in 1..n : InPart(m, l, u) /\ f[x] = t[m] BY <1>4 DEF Rearranged
    <2>2. m < y BY <1>4, <2>1 DEF InPart, SortTypeOK
    <2>3. ASSUME NEW k \in DOMAIN frames, InPart(m, frames[k][1], frames[k][2]) PROVE FALSE
      <3>1. frames[k][1] \in Int /\ frames[k][2] \in Int BY <2>3 DEF SortTypeOK
      <3>2. u < frames[k][1] \/ frames[k][2] < l BY DEF Disjoint
      <3>3. frames[k][1] <= m /\ m <= frames[k][2] /\ l <= m /\ m <= u BY <2>1, <2>3 DEF InPart
      <3>4. l \in Int /\ u \in Int /\ m \in Int BY DEF SortTypeOK
      <3> QED BY <3>1, <3>2, <3>3, <3>4
    <2>4. ~Together(m, y) BY <1>4, <2>3 DEF Together
    <2> QED BY <1>1, <1>4, <2>1, <2>2, <2>4 DEF InOrder, Rearranged
  <1>5. CASE ~InPart(x, l, u) /\ InPart(y, l, u)
    <2>1. PICK m \in 1..n : InPart(m, l, u) /\ f[y] = t[m] BY <1>5 DEF Rearranged
    <2>2. x < m BY <1>5, <2>1 DEF InPart, SortTypeOK
    <2>3. ASSUME NEW k \in DOMAIN frames, InPart(m, frames[k][1], frames[k][2]) PROVE FALSE
      <3>1. frames[k][1] \in Int /\ frames[k][2] \in Int BY <2>3 DEF SortTypeOK
      <3>2. u < frames[k][1] \/ frames[k][2] < l BY DEF Disjoint
      <3>3. frames[k][1] <= m /\ m <= frames[k][2] /\ l <= m /\ m <= u BY <2>1, <2>3 DEF InPart
      <3>4. l \in Int /\ u \in Int /\ m \in Int BY DEF SortTypeOK
      <3> QED BY <3>1, <3>2, <3>3, <3>4
    <2>4. ~Together(x, m) BY <1>5, <2>3 DEF Together
    <2> QED BY <1>1, <1>5, <2>1, <2>2, <2>4 DEF InOrder, Rearranged
  <1> QED BY <1>2, <1>3, <1>4, <1>5

-----------------------------------------------------------------------------
(* Each element is there as often as it was.                                             *)
LEMMA KeptCounts ==
  ASSUME SortTypeOK, Kept, NEW e
  PROVE  Occurrences(t, e) = Occurrences(list, e)
  <1>1. PICK p \in Bijection(1..n, 1..n) : Permuted(t, list, p) BY DEF Kept
  <1> DEFINE S == {k \in 1..n : t[k] = e}
             T == {k \in 1..n : list[k] = e}
             q == [k \in S |-> p[k]]
  <1>2. /\ p \in [1..n -> 1..n] /\ \A v \in 1..n : \E w \in 1..n : p[w] = v
        /\ \A v, w \in 1..n : p[v] = p[w] => v = w
    BY <1>1 DEF Bijection, Injection, Surjection, IsInjective
  <1>3. ASSUME NEW k \in 1..n PROVE t[k] = list[p[k]]
    BY <1>1, InPositions DEF Permuted
  <1>4. q \in [S -> T] BY <1>2, <1>3
  <1>5. \A v \in T : \E w \in S : q[w] = v BY <1>2, <1>3
  <1>6. \A v, w \in S : q[v] = q[w] => v = w BY <1>2
  <1>7. q \in Bijection(S, T)
    BY <1>4, <1>5, <1>6 DEF Bijection, Injection, Surjection, IsInjective
  <1>8. IsFiniteSet(S)
    <2>1. IsFiniteSet(1..n) BY FS_Interval DEF SortTypeOK
    <2> QED BY <2>1, FS_Subset
  <1>9. Cardinality(T) = Cardinality(S)
    BY <1>7, <1>8, FS_Bijection DEF ExistsBijection
  <1> QED BY <1>9 DEF Occurrences

-----------------------------------------------------------------------------
(* A step inside the current part disturbs no other.                                      *)
LEMMA SamePart ==
  ASSUME SortInv, pc \in Sorting, pc' \in Sorting, Rearranged(t'),
         UNCHANGED <<list, n, comparison, frames, l, u>>
  PROVE  /\ PartInside' /\ FramesInside' /\ KeptIdle'
         /\ comparison = "consistent" => Disjoint' /\ InOrder'
  <1>1. PartInside' BY DEF SortInv, PartInside
  <1>2. FramesInside' BY DEF SortInv, FramesInside
  <1>3. KeptIdle' BY DEF KeptIdle, Sorting
  <1>4. ASSUME comparison = "consistent" PROVE Disjoint' /\ InOrder'
    <2>1. Disjoint /\ InOrder BY <1>4 DEF SortInv
    <2>2. Disjoint' BY <2>1 DEF Disjoint, Before
    <2>3. ASSUME NEW x \in 1..n, NEW y \in 1..n, x < y, ~Together(x, y)'
          PROVE  ~Less(t'[y], t'[x])
      <3>1. ~Together(x, y) BY <2>3 DEF Together
      <3> QED BY <2>1, <2>3, <3>1, RearrangedInOrder DEF SortInv
    <2> QED BY <2>2, <2>3 DEF InOrder, Less
  <1> QED BY <1>1, <1>2, <1>3, <1>4

(* Storing nothing rearranges nothing.                                                      *)
LEMMA Unmoved ==
  ASSUME SortTypeOK
  PROVE  Rearranged(t)
  BY DEF Rearranged, SortTypeOK

(* Where the elements of the current part are.                                             *)
LEMMA InPartPositions ==
  ASSUME SortTypeOK, 1 <= l, u <= n, NEW k \in Int, InPart(k, l, u)
  PROVE  k \in 1..n /\ k \in Positions /\ t[k] \in Elements
  BY InPositions DEF SortTypeOK, InPart

(* Ordering a[lo] and a[up]: a part of two is then sorted, and of a larger part only the    *)
(* middle is left to be looked at.                                                          *)
LEMMA EndsKeeps == ASSUME SortInv, Ends PROVE SortInv'
  <1>1. pc \in Sorting /\ 1 <= l /\ u <= n /\ l < u /\ l \in Int /\ u \in Int
    BY DEF Ends, Sorting, SortInv, PartInside, SortTypeOK
  <1>2. InPart(l, l, u) /\ InPart(u, l, u) BY <1>1 DEF InPart
  <1>3. l \in 1..n /\ u \in 1..n /\ l \in Positions /\ u \in Positions
        /\ t[l] \in Elements /\ t[u] \in Elements
    BY <1>1, <1>2, InPartPositions DEF SortInv
  <1>4. t' \in {t, set2(t, l, u)} BY DEF Ends
  <1>5. Rearranged(t')
    BY <1>1, <1>2, <1>4, Unmoved, SwapRearranges DEF SortInv
  <1>6. UNCHANGED <<list, n, comparison, frames, l, u, j, P>> /\ pc' \in {"return", "middle"}
    BY DEF Ends
  <1>7. SortTypeOK'
    <2>1. t' \in [Positions -> Elements] BY <1>5 DEF Rearranged
    <2>2. i' \in Int BY <1>1 DEF Ends, SortInv, SortTypeOK
    <2> QED BY <1>6, <2>1, <2>2 DEF SortInv, SortTypeOK
  <1>8. Kept'
    <2>1. \E p \in Bijection(1..n, 1..n) : Permuted(t', list, p)
      <3>1. /\ t \in [Positions -> Elements] /\ list \in [Positions -> Elements] /\ n \in 0..MaxLen
            /\ \E p \in Bijection(1..n, 1..n) : Permuted(t, list, p)
        BY DEF SortInv, SortTypeOK, Kept
      <3>2. CASE t' = t BY <3>1, <3>2
      <3>3. CASE t' = set2(t, l, u)
        <4>1. \E p \in Bijection(1..n, 1..n) : Permuted(set2(t, l, u), list, p)
          BY <1>3, <3>1, SwapKeeps
        <4> QED BY <3>3, <4>1
      <3> QED BY <1>4, <3>2, <3>3
    <2> QED BY <1>6, <2>1 DEF Kept, Permuted
  <1>9. KeptIdle' /\ FramesInside'
    BY <1>6 DEF KeptIdle, SortInv, FramesInside
  <1>10. IndicesInside'
    <2>1. pc' = "middle" => i' = (l + u) \div 2 /\ u - l # 1 BY DEF Ends
    <2> QED BY <1>1, <1>6, <2>1 DEF IndicesInside
  <1>11. PartInside' BY <1>1, <1>6 DEF PartInside
  <1>12. ASSUME comparison = "consistent" PROVE ~Less(t'[u], t'[l])
    <2>1. CASE Says(t[u], t[l]) /\ t' = set2(t, l, u)
      BY <1>3, <1>12, <2>1, LessAsym, Swapped, SMTT(30) DEF Says, SortInv, SortTypeOK
    <2>2. CASE Denies(t[u], t[l]) /\ t' = t BY <1>12, <2>2 DEF Denies
    <2> QED BY <2>1, <2>2 DEF Ends
  <1>13. ASSUME comparison = "consistent" PROVE Disjoint' /\ InOrder'
    <2>1. Disjoint /\ InOrder BY <1>13 DEF SortInv
    <2>2. Disjoint' BY <1>1, <1>6, <2>1 DEF Disjoint, Before
    <2>3. ASSUME NEW x \in 1..n, NEW y \in 1..n, x < y, ~Together(x, y)'
          PROVE  ~Less(t'[y], t'[x])
      <3>1. CASE Together(x, y)
        <4>1. pc' = "return" /\ InPart(x, l, u) /\ InPart(y, l, u)
          BY <1>6, <2>3, <3>1 DEF Together, Sorting
        <4>2. u - l = 1 BY <4>1 DEF Ends
        <4>3. x = l /\ y = u BY <1>1, <2>3, <4>1, <4>2 DEF InPart
        <4> QED BY <1>12, <1>13, <4>3
      <3>2. CASE ~Together(x, y)
        BY <1>1, <1>5, <2>1, <2>3, <3>2, RearrangedInOrder DEF SortInv
      <3> QED BY <3>1, <3>2
    <2> QED BY <1>6, <2>2, <2>3 DEF InOrder, Less
  <1>14. ASSUME comparison = "consistent" PROVE Partitioned'
    BY <1>6, <1>12, <1>14 DEF Partitioned, Less
  <1> QED BY <1>6, <1>7, <1>8, <1>9, <1>10, <1>11, <1>13, <1>14 DEF SortInv

(* The three elements are in order in f.                                                  *)
LEMMA PivotKeeps ==
  ASSUME SortInv, pc \in {"middle", "upper"}, UNCHANGED <<list, n, comparison, frames, l, u>>,
         NEW f, Rearranged(f), \E p \in Bijection(1..n, 1..n) : Permuted(f, list, p),
         comparison = "consistent" => ~Less(f[i], f[l]) /\ ~Less(f[u], f[i]),
         Pivot(f)
  PROVE  SortInv'
  <1>1. /\ pc \in Sorting /\ 1 <= l /\ u <= n /\ l < i /\ i < u
        /\ l \in Int /\ u \in Int /\ i \in Int
    BY DEF Sorting, SortInv, PartInside, IndicesInside, SortTypeOK
  <1>2. InPart(l, l, u) /\ InPart(u, l, u) /\ InPart(i, l, u) /\ InPart(u - 1, l, u)
    BY <1>1 DEF InPart
  <1>3. /\ l \in 1..n /\ u \in 1..n /\ i \in 1..n /\ u - 1 \in 1..n
        /\ l \in Positions /\ u \in Positions /\ i \in Positions /\ u - 1 \in Positions
    BY <1>1, <1>2, InPartPositions DEF SortInv
  <1>4. f \in [Positions -> Elements] BY DEF Rearranged
  <1>5. CASE u - l = 2
    <2>1. pc' = "return" /\ t' = f /\ i' = 0 /\ j' = 0 /\ P' = Nil BY <1>5 DEF Pivot, NoPartition
    <2>2. SortTypeOK' BY <1>4, <2>1 DEF SortInv, SortTypeOK, Elements
    <2>3. PartInside' /\ KeptIdle' /\ IndicesInside' /\ Partitioned'
      BY <2>1 DEF PartInside, KeptIdle, IndicesInside, Partitioned, Sorting
    <2>4. FramesInside' BY DEF SortInv, FramesInside
    <2>5. Kept' BY <2>1 DEF Kept, Permuted
    <2>6. ASSUME comparison = "consistent" PROVE Disjoint' /\ InOrder'
      <3>1. Disjoint /\ InOrder BY <2>6 DEF SortInv
      <3>2. Disjoint' BY <2>1, <3>1 DEF Disjoint, Before, Sorting
      <3>3. ASSUME NEW x \in 1..n, NEW y \in 1..n, x < y, ~Together(x, y)'
            PROVE  ~Less(f[y], f[x])
        <4>1. CASE Together(x, y)
          <5>1. InPart(x, l, u) /\ InPart(y, l, u) BY <3>3, <4>1 DEF Together
          <5>2. i = l + 1 /\ u = l + 2 BY <1>1, <1>5
          <5>3. (x = l /\ y = i) \/ (x = i /\ y = u) \/ (x = l /\ y = u)
            BY <1>1, <3>3, <5>1, <5>2 DEF InPart
          <5>4. ~Less(f[u], f[l]) BY <1>3, <1>4, <2>6, NotLessTrans
          <5> QED BY <2>6, <5>3, <5>4
        <4>2. CASE ~Together(x, y)
          BY <1>1, <3>1, <3>3, <4>2, RearrangedInOrder DEF SortInv
        <4> QED BY <4>1, <4>2
      <3> QED BY <2>1, <3>2, <3>3 DEF InOrder, Less
    <2> QED BY <2>1, <2>2, <2>3, <2>4, <2>5, <2>6 DEF SortInv
  <1>6. CASE u - l # 2
    <2>1. /\ P' = f[i] /\ t' = set2(f, i, u - 1) /\ i' = l /\ j' = u - 1 /\ pc' = "up"
      BY <1>6 DEF Pivot
    <2>2. Rearranged(t') BY <1>1, <1>2, <2>1, SwapRearranges DEF SortInv
    <2>3. SortTypeOK'
      <3>1. t' \in [Positions -> Elements] BY <2>2 DEF Rearranged
      <3>2. P' \in Elements BY <1>3, <1>4, <2>1
      <3> QED BY <1>1, <2>1, <3>1, <3>2 DEF SortInv, SortTypeOK
    <2>4. Kept'
      <3>1. list \in [Positions -> Elements] /\ n \in 0..MaxLen BY DEF SortInv, SortTypeOK
      <3>2. \E p \in Bijection(1..n, 1..n) : Permuted(set2(f, i, u - 1), list, p)
        BY <1>3, <1>4, <3>1, SwapKeeps
      <3> QED BY <2>1, <3>2 DEF Kept, Permuted
    <2>5. IndicesInside' BY <1>1, <1>6, <2>1 DEF IndicesInside
    <2>6. /\ PartInside' /\ FramesInside' /\ KeptIdle'
          /\ comparison = "consistent" => Disjoint' /\ InOrder'
      <3>1. pc' \in Sorting BY <2>1 DEF Sorting
      <3> QED BY <1>1, <2>2, <3>1, SamePart
    <2>7. ASSUME comparison = "consistent" PROVE Partitioned'
      <3>1. /\ t'[u - 1] = P' /\ t'[u] = f[u] /\ t'[l] = f[l]
        <4>1. u # i /\ u # u - 1 /\ l # i /\ l # u - 1 BY <1>1
        <4> QED BY <1>3, <1>4, <2>1, <4>1, Swapped
      <3>2. ~Less(P', t'[l]) /\ ~Less(t'[u], P') BY <2>1, <2>7, <3>1
      <3>3. ~Less(t'[u - 1], P')
        <4>1. P' \in Elements BY <1>3, <1>4, <2>1
        <4> QED BY <3>1, <4>1, LessAsym
      <3>4. Low(i)'
        <4>1. \A k \in l..l : k = l BY <1>1
        <4> QED BY <2>1, <3>2, <4>1 DEF Low, Less
      <3>5. High(j)'
        <4>1. \A k \in (u - 1)..u : k = u - 1 \/ k = u BY <1>1
        <4> QED BY <2>1, <3>2, <3>3, <4>1 DEF High, Less
      <3>6. i' <= j' /\ i' < u - 1 BY <1>1, <1>6, <2>1
      <3> QED BY <2>1, <3>1, <3>4, <3>5, <3>6 DEF Partitioned
    <2> QED BY <2>1, <2>3, <2>4, <2>5, <2>6, <2>7 DEF SortInv
  <1> QED BY <1>5, <1>6

(* Ordering the middle against a[lo]: either they were in order and a[up] comes next, or    *)
(* the exchange puts all three in order.                                                    *)
LEMMA MiddleKeeps == ASSUME SortInv, Middle PROVE SortInv'
  <1>1. /\ pc \in Sorting /\ pc = "middle" /\ 1 <= l /\ u <= n /\ l < i /\ i < u
        /\ l \in Int /\ u \in Int /\ i \in Int
    BY DEF Middle, Sorting, SortInv, PartInside, IndicesInside, SortTypeOK
  <1>2. InPart(l, l, u) /\ InPart(u, l, u) /\ InPart(i, l, u) BY <1>1 DEF InPart
  <1>3. /\ l \in 1..n /\ u \in 1..n /\ i \in 1..n
        /\ l \in Positions /\ u \in Positions /\ i \in Positions
        /\ t[l] \in Elements /\ t[u] \in Elements /\ t[i] \in Elements
    BY <1>1, <1>2, InPartPositions DEF SortInv
  <1>4. /\ t \in [Positions -> Elements] /\ list \in [Positions -> Elements] /\ n \in 0..MaxLen
        /\ \E p \in Bijection(1..n, 1..n) : Permuted(t, list, p)
    BY DEF SortInv, SortTypeOK, Kept
  <1>5. UNCHANGED <<list, n, comparison, frames, l, u>> BY DEF Middle
  <1>6. comparison = "consistent" => ~Less(t[u], t[l]) BY <1>1 DEF SortInv, Partitioned
  <1>7. CASE Says(t[i], t[l]) /\ Pivot(set2(t, i, l))
    <2> DEFINE f == set2(t, i, l)
    <2>1. Rearranged(f) BY <1>1, <1>2, Unmoved, SwapRearranges DEF SortInv
    <2>2. \E p \in Bijection(1..n, 1..n) : Permuted(f, list, p) BY <1>3, <1>4, SwapKeeps
    <2>3. f[i] = t[l] /\ f[l] = t[i] /\ f[u] = t[u]
      <3>1. u # i /\ u # l BY <1>1
      <3> QED BY <1>3, <1>4, <3>1, Swapped
    <2>4. comparison = "consistent" => ~Less(f[i], f[l]) /\ ~Less(f[u], f[i])
      BY <1>3, <1>6, <1>7, <2>3, LessAsym DEF Says
    <2>5. Pivot(f) BY <1>7
    <2> HIDE DEF f
    <2> QED BY <1>1, <1>5, <2>1, <2>2, <2>4, <2>5, PivotKeeps
  <1>8. CASE Denies(t[i], t[l]) /\ pc' = "upper" /\ UNCHANGED <<t, i, j, P>>
    <2>1. Rearranged(t') BY <1>8, Unmoved DEF SortInv
    <2>2. SortTypeOK' BY <1>5, <1>8 DEF SortInv, SortTypeOK
    <2>3. Kept' BY <1>4, <1>5, <1>8 DEF Kept, Permuted
    <2>4. IndicesInside' BY <1>1, <1>5, <1>8 DEF IndicesInside
    <2>5. /\ PartInside' /\ FramesInside' /\ KeptIdle'
          /\ comparison = "consistent" => Disjoint' /\ InOrder'
      <3>1. pc' \in Sorting BY <1>8 DEF Sorting
      <3> QED BY <1>1, <1>5, <2>1, <3>1, SamePart
    <2>6. ASSUME comparison = "consistent" PROVE Partitioned'
      BY <1>5, <1>6, <1>8, <2>6 DEF Partitioned, Denies, Less
    <2> QED BY <1>5, <1>8, <2>2, <2>3, <2>4, <2>5, <2>6 DEF SortInv
  <1> QED BY <1>7, <1>8 DEF Middle

(* Ordering the middle against a[up]: a part of three is sorted, in a larger one the pivot  *)
(* goes to up - 1 and the partition starts.                                                 *)
LEMMA UpperKeeps == ASSUME SortInv, Upper PROVE SortInv'
  <1>1. /\ pc \in Sorting /\ pc = "upper" /\ 1 <= l /\ u <= n /\ l < i /\ i < u
        /\ l \in Int /\ u \in Int /\ i \in Int
    BY DEF Upper, Sorting, SortInv, PartInside, IndicesInside, SortTypeOK
  <1>2. InPart(l, l, u) /\ InPart(u, l, u) /\ InPart(i, l, u) BY <1>1 DEF InPart
  <1>3. /\ l \in 1..n /\ u \in 1..n /\ i \in 1..n
        /\ l \in Positions /\ u \in Positions /\ i \in Positions
        /\ t[l] \in Elements /\ t[u] \in Elements /\ t[i] \in Elements
    BY <1>1, <1>2, InPartPositions DEF SortInv
  <1>4. /\ t \in [Positions -> Elements] /\ list \in [Positions -> Elements] /\ n \in 0..MaxLen
        /\ \E p \in Bijection(1..n, 1..n) : Permuted(t, list, p)
    BY DEF SortInv, SortTypeOK, Kept
  <1>5. UNCHANGED <<list, n, comparison, frames, l, u>> BY DEF Upper
  <1>6. comparison = "consistent" => ~Less(t[u], t[l]) /\ ~Less(t[i], t[l])
    BY <1>1 DEF SortInv, Partitioned
  <1>7. CASE Says(t[u], t[i]) /\ Pivot(set2(t, i, u))
    <2> DEFINE f == set2(t, i, u)
    <2>1. Rearranged(f) BY <1>1, <1>2, Unmoved, SwapRearranges DEF SortInv
    <2>2. \E p \in Bijection(1..n, 1..n) : Permuted(f, list, p) BY <1>3, <1>4, SwapKeeps
    <2>3. f[i] = t[u] /\ f[u] = t[i] /\ f[l] = t[l]
      <3>1. l # i /\ u # l BY <1>1
      <3> QED BY <1>3, <1>4, <3>1, Swapped
    <2>4. comparison = "consistent" => ~Less(f[i], f[l]) /\ ~Less(f[u], f[i])
      BY <1>3, <1>6, <1>7, <2>3, LessAsym DEF Says
    <2>5. Pivot(f) BY <1>7
    <2> HIDE DEF f
    <2> QED BY <1>1, <1>5, <2>1, <2>2, <2>4, <2>5, PivotKeeps
  <1>8. CASE Denies(t[u], t[i]) /\ Pivot(t)
    <2>1. Rearranged(t) BY Unmoved DEF SortInv
    <2>2. comparison = "consistent" => ~Less(t[i], t[l]) /\ ~Less(t[u], t[i])
      BY <1>6, <1>8 DEF Denies
    <2> QED BY <1>1, <1>4, <1>5, <1>8, <2>1, <2>2, PivotKeeps
  <1> QED BY <1>7, <1>8 DEF Upper

-----------------------------------------------------------------------------
(* The loop that goes up stops at the pivot at the latest; a consistent function that led   *)
(* it further would say that the pivot is less than itself.                                 *)
LEMMA UpKeeps == ASSUME SortInv, Up PROVE SortInv'
  <1>1. /\ pc \in Sorting /\ pc = "up" /\ 1 <= l /\ u <= n /\ l + 3 <= u
        /\ l <= i /\ i < u /\ l < j /\ j < u
        /\ l \in Int /\ u \in Int /\ i \in Int /\ j \in Int
    BY DEF Up, Sorting, SortInv, PartInside, IndicesInside, SortTypeOK
  <1>2. UNCHANGED <<t, list, n, comparison, frames, l, u, j, P>> /\ i' = i + 1 BY DEF Up
  <1>3. i + 1 \in 1..n /\ t[i + 1] \in Elements /\ P \in Elements
    <2>1. InPart(i + 1, l, u) BY <1>1 DEF InPart
    <2> QED BY <1>1, <2>1, InPartPositions DEF SortInv, SortTypeOK
  <1>4. ASSUME comparison = "consistent"
        PROVE  t[u - 1] = P /\ High(j) /\ Low(i) /\ i <= j /\ i < u - 1 /\ Disjoint /\ InOrder
    BY <1>1, <1>4 DEF SortInv, Partitioned
  <1>5. SortTypeOK' BY <1>1, <1>2 DEF SortInv, SortTypeOK
  <1>6. Kept' BY <1>2 DEF SortInv, Kept, Permuted
  <1>7. Rearranged(t') BY <1>2, Unmoved DEF SortInv
  <1>8. ASSUME comparison = "consistent", Less(t[i + 1], P) PROVE i + 1 < j
    <2>1. ~(j <= i + 1 /\ i + 1 <= u) BY <1>1, <1>4, <1>8 DEF High
    <2> QED BY <1>1, <2>1
  <1>9. FramesInside' BY <1>2 DEF SortInv, FramesInside
  <1>10. CASE Says(t[i + 1], P) /\ i + 1 >= u /\ pc' = "error"
    <2>1. comparison # "consistent" BY <1>1, <1>8, <1>10 DEF Says
    <2>2. PartInside' /\ KeptIdle' /\ IndicesInside'
      BY <1>10 DEF PartInside, KeptIdle, IndicesInside, Sorting
    <2> QED BY <1>2, <1>5, <1>6, <1>9, <1>10, <2>1, <2>2 DEF SortInv
  <1>11. CASE Says(t[i + 1], P) /\ i + 1 < u /\ pc' = "up"
    <2>1. pc' \in Sorting BY <1>11 DEF Sorting
    <2>2. /\ PartInside' /\ FramesInside' /\ KeptIdle'
          /\ comparison = "consistent" => Disjoint' /\ InOrder'
      BY <1>1, <1>2, <1>7, <2>1, SamePart
    <2>3. IndicesInside' BY <1>1, <1>2, <1>11 DEF IndicesInside
    <2>4. ASSUME comparison = "consistent" PROVE Partitioned'
      <3>1. Less(t[i + 1], P) BY <1>11, <2>4 DEF Says
      <3>2. i + 1 < j BY <1>8, <2>4, <3>1
      <3>3. ~Less(P, t[i + 1]) BY <1>3, <3>1, LessAsym
      <3>4. Low(i)'
        <4>1. \A k \in l..(i + 1) : k \in l..i \/ k = i + 1 BY <1>1
        <4> QED BY <1>2, <1>4, <2>4, <3>3, <4>1 DEF Low, Less
      <3>5. High(j)' BY <1>2, <1>4, <2>4 DEF High, Less
      <3>6. i' <= j' /\ i' < u' - 1 BY <1>1, <1>2, <3>2
      <3> QED BY <1>2, <1>4, <1>11, <2>4, <3>4, <3>5, <3>6 DEF Partitioned
    <2> QED BY <1>2, <1>5, <1>6, <1>11, <2>2, <2>3, <2>4 DEF SortInv
  <1>12. CASE Denies(t[i + 1], P) /\ pc' = "down"
    <2>1. pc' \in Sorting BY <1>12 DEF Sorting
    <2>2. /\ PartInside' /\ FramesInside' /\ KeptIdle'
          /\ comparison = "consistent" => Disjoint' /\ InOrder'
      BY <1>1, <1>2, <1>7, <2>1, SamePart
    <2>3. IndicesInside' BY <1>1, <1>2, <1>12 DEF IndicesInside
    <2>4. ASSUME comparison = "consistent" PROVE Partitioned'
      <3>1. ~Less(t[i + 1], P) BY <1>12, <2>4 DEF Denies
      <3>2. Low(i - 1)'
        <4>1. i' - 1 = i BY <1>1, <1>2
        <4> QED BY <1>2, <1>4, <2>4, <4>1 DEF Low, Less
      <3>3. High(j)' BY <1>2, <1>4, <2>4 DEF High, Less
      <3>4. i' <= j' + 1 /\ i' < u' BY <1>1, <1>2, <1>4, <2>4
      <3> QED BY <1>2, <1>4, <1>12, <2>4, <3>1, <3>2, <3>3, <3>4 DEF Partitioned, Less
    <2> QED BY <1>2, <1>5, <1>6, <1>12, <2>2, <2>3, <2>4 DEF SortInv
  <1> QED
    <2>1. i + 1 >= u \/ i + 1 < u BY <1>1
    <2> QED BY <1>10, <1>11, <1>12, <2>1 DEF Up

(* The pivot in its place, everything before it is not greater, everything behind it not less. *)
LEMMA DivideKeeps ==
  ASSUME SortInv, pc = "down", Divide,
         comparison = "consistent" => j <= i
  PROVE  SortInv'
  <1>1. /\ pc \in Sorting /\ 1 <= l /\ u <= n /\ l + 3 <= u
        /\ l < i /\ i <= u /\ l < j /\ j < u
        /\ l \in Int /\ u \in Int /\ i \in Int /\ j \in Int /\ n \in Nat
    BY DEF Sorting, SortInv, PartInside, IndicesInside, SortTypeOK
  <1>2. InPart(u - 1, l, u) /\ InPart(i, l, u) BY <1>1 DEF InPart
  <1>3. /\ u - 1 \in 1..n /\ i \in 1..n /\ u - 1 \in Positions /\ i \in Positions
        /\ t[i] \in Elements
    BY <1>1, <1>2, InPartPositions DEF SortInv
  <1>4. t' = set2(t, u - 1, i) /\ pc' = "ends" /\ i' = 0 /\ j' = 0 /\ P' = Nil
        /\ UNCHANGED <<list, n, comparison>>
    BY DEF Divide, NoPartition
  <1>5. Rearranged(t') BY <1>1, <1>2, <1>4, Unmoved, SwapRearranges DEF SortInv
  (* The part that is sorted now, and the one that waits.                                   *)
  <1>6. PICK lo \in Int, hi \in Int :
          /\ frames' = <<<<lo, hi>>>> \o frames /\ l' \in Int /\ u' \in Int
          /\ \/ l' = l /\ u' = i - 1 /\ lo = i + 1 /\ hi = u
             \/ l' = i + 1 /\ u' = u /\ lo = l /\ hi = i - 1
    <2>1. i - 1 \in Int /\ i + 1 \in Int BY <1>1
    <2>2. CASE i - l < u - i BY <1>1, <2>1, <2>2 DEF Divide
    <2>3. CASE ~(i - l < u - i) BY <1>1, <2>1, <2>3 DEF Divide
    <2> QED BY <2>2, <2>3
  <1>7. /\ frames' \in Seq(Int \X Int) /\ Len(frames') = Len(frames) + 1
        /\ frames'[1] = <<lo, hi>>
        /\ \A k \in DOMAIN frames' : k # 1 => k - 1 \in DOMAIN frames /\ frames'[k] = frames[k - 1]
        /\ \A k \in DOMAIN frames : k + 1 \in DOMAIN frames' /\ frames'[k + 1] = frames[k]
        /\ 1 \in DOMAIN frames'
    <2>1. frames \in Seq(Int \X Int) BY DEF SortInv, SortTypeOK
    <2> DEFINE new == <<lo, hi>>
    <2>2. new \in Int \X Int BY <1>6
    <2>3. frames' = <<new>> \o frames BY <1>6
    <2> HIDE DEF new
    <2>4. frames' \in Seq(Int \X Int) /\ Len(frames') = Len(frames) + 1 BY <2>1, <2>2, <2>3
    <2>5. \A k \in 1..Len(frames') : frames'[k] = IF k = 1 THEN new ELSE frames[k - 1]
      BY <2>1, <2>2, <2>3, <2>4
    <2>6. /\ DOMAIN frames = 1..Len(frames) /\ DOMAIN frames' = 1..Len(frames')
          /\ Len(frames) \in Nat
      BY <2>1, <2>4
    <2>7. \A k \in DOMAIN frames' : k # 1 => k - 1 \in DOMAIN frames /\ frames'[k] = frames[k - 1]
      BY <2>4, <2>5, <2>6, SMTT(30)
    <2>8. ASSUME NEW k \in DOMAIN frames
          PROVE  k + 1 \in DOMAIN frames' /\ frames'[k + 1] = frames[k]
      <3>1. k \in Nat /\ k + 1 \in 1..Len(frames') /\ k + 1 # 1 BY <2>4, <2>6, SMTT(30)
      <3>2. (k + 1) - 1 = k BY <3>1
      <3> QED BY <2>5, <2>6, <3>1, <3>2
    <2>9. 1 \in DOMAIN frames' /\ frames'[1] = new BY <2>4, <2>5, <2>6
    <2> QED BY <2>4, <2>7, <2>8, <2>9 DEF new
  <1>8. SortTypeOK'
    <2>1. t' \in [Positions -> Elements] BY <1>5 DEF Rearranged
    <2> QED BY <1>4, <1>6, <1>7, <2>1 DEF SortInv, SortTypeOK, Elements
  <1>9. Kept'
    <2>1. /\ t \in [Positions -> Elements] /\ list \in [Positions -> Elements] /\ n \in 0..MaxLen
          /\ \E p \in Bijection(1..n, 1..n) : Permuted(t, list, p)
      BY DEF SortInv, SortTypeOK, Kept
    <2>2. \E p \in Bijection(1..n, 1..n) : Permuted(set2(t, u - 1, i), list, p)
      BY <1>3, <2>1, SwapKeeps
    <2> QED BY <1>4, <2>2 DEF Kept, Permuted
  <1>10. PartInside' /\ KeptIdle' /\ IndicesInside'
    BY <1>1, <1>4, <1>6 DEF PartInside, KeptIdle, IndicesInside
  <1>11. FramesInside'
    <2> SUFFICES ASSUME NEW k \in DOMAIN frames'
                 PROVE  1 <= frames'[k][1] /\ frames'[k][2] <= n
      BY <1>4 DEF FramesInside
    <2>1. CASE k = 1 BY <1>1, <1>6, <1>7, <2>1
    <2>2. CASE k # 1 BY <1>7, <2>2 DEF SortInv, FramesInside
    <2> QED BY <2>1, <2>2
  <1>12. ASSUME comparison = "consistent" PROVE Disjoint'
    <2>1. Disjoint BY <1>12 DEF SortInv
    <2>2. ASSUME NEW k \in DOMAIN frames
          PROVE  /\ u' < frames[k][1] \/ frames[k][2] < l'
                 /\ hi < frames[k][1] \/ frames[k][2] < lo
      <3>1. u < frames[k][1] \/ frames[k][2] < l BY <1>1, <2>1 DEF Disjoint
      <3>2. frames[k][1] \in Int /\ frames[k][2] \in Int BY DEF SortInv, SortTypeOK
      <3> QED BY <1>1, <1>6, <3>1, <3>2
    <2>3. ASSUME NEW k \in DOMAIN frames'
          PROVE  u' < frames'[k][1] \/ frames'[k][2] < l'
      <3>1. CASE k = 1 BY <1>1, <1>6, <1>7, <3>1
      <3>2. CASE k # 1 BY <1>7, <2>2, <3>2
      <3> QED BY <3>1, <3>2
    <2>4. ASSUME NEW k \in DOMAIN frames', NEW m \in DOMAIN frames', k # m
          PROVE  Before(frames'[k], frames'[m])
      <3>1. CASE k = 1
        <4>1. m - 1 \in DOMAIN frames /\ frames'[m] = frames[m - 1] BY <1>7, <2>4, <3>1
        <4> QED BY <1>7, <2>2, <3>1, <4>1 DEF Before
      <3>2. CASE m = 1
        <4>1. k - 1 \in DOMAIN frames /\ frames'[k] = frames[k - 1] BY <1>7, <2>4, <3>2
        <4> QED BY <1>7, <2>2, <3>2, <4>1 DEF Before
      <3>3. CASE k # 1 /\ m # 1
        <4>1. /\ k - 1 \in DOMAIN frames /\ frames'[k] = frames[k - 1]
              /\ m - 1 \in DOMAIN frames /\ frames'[m] = frames[m - 1]
          BY <1>7, <3>3
        <4>2. k - 1 # m - 1 BY <1>7, <2>4
        <4> QED BY <2>1, <4>1, <4>2 DEF Disjoint
      <3> QED BY <3>1, <3>2, <3>3
    <2> QED BY <2>3, <2>4 DEF Disjoint
  <1>13. ASSUME comparison = "consistent" PROVE InOrder'
    <2>1. /\ Disjoint /\ InOrder /\ t[u - 1] = P /\ High(j) /\ Low(i - 1) /\ ~Less(t[i], P)
          /\ i < u /\ j <= i
      BY <1>13 DEF SortInv, Partitioned
    <2>2. P \in Elements BY DEF SortInv, SortTypeOK
    <2>3. t'[i] = P /\ t'[u - 1] = t[i]
          /\ \A k \in Positions : k # i /\ k # u - 1 => t'[k] = t[k]
      <3>1. t \in [Positions -> Elements] BY DEF SortInv, SortTypeOK
      <3> QED BY <1>3, <1>4, <2>1, <3>1, Swapped
    <2>4. ASSUME NEW k \in l..(i - 1) PROVE ~Less(P, t'[k])
      <3>1. k # i /\ k # u - 1 /\ k \in Positions
        <4>1. InPart(k, l, u) BY <1>1 DEF InPart
        <4> QED BY <1>1, <2>1, <4>1, InPartPositions DEF SortInv
      <3> QED BY <2>1, <2>3, <3>1 DEF Low
    <2>5. ASSUME NEW k \in (i + 1)..u PROVE ~Less(t'[k], P)
      <3>1. CASE k = u - 1 BY <2>1, <2>3, <3>1
      <3>2. CASE k # u - 1
        <4>1. k \in j..u /\ k # i BY <1>1, <2>1
        <4>2. InPart(k, l, u) BY <1>1 DEF InPart
        <4>3. k \in Positions BY <1>1, <4>2, InPartPositions DEF SortInv
        <4> QED BY <2>1, <2>3, <3>2, <4>1, <4>3 DEF High
      <3> QED BY <3>1, <3>2
    <2>6. ~Less(P, P) BY <2>2, LessAsym
    <2>7. ASSUME NEW x \in 1..n, NEW y \in 1..n, x < y, ~Together(x, y)'
          PROVE  ~Less(t'[y], t'[x])
      <3>1. CASE Together(x, y)
        <4>1. ASSUME NEW k \in DOMAIN frames
              PROVE  ~(InPart(x, frames[k][1], frames[k][2]) /\ InPart(y, frames[k][1], frames[k][2]))
          BY <1>7, <2>7 DEF Together
        <4>2. InPart(x, l, u) /\ InPart(y, l, u) BY <3>1, <4>1 DEF Together
        <4>3. ~(InPart(x, l', u') /\ InPart(y, l', u'))
              /\ ~(InPart(x, lo, hi) /\ InPart(y, lo, hi))
          <5>1. pc' \in Sorting BY <1>4 DEF Sorting
          <5>2. ~(InPart(x, l', u') /\ InPart(y, l', u')) BY <2>7, <5>1 DEF Together
          <5>3. ~(InPart(x, frames'[1][1], frames'[1][2]) /\ InPart(y, frames'[1][1], frames'[1][2]))
            BY <1>7, <2>7 DEF Together
          <5>4. frames'[1][1] = lo /\ frames'[1][2] = hi BY <1>7
          <5> QED BY <5>2, <5>3, <5>4
        <4>4. x \in l..i /\ y \in i..u BY <1>1, <1>6, <2>7, <4>2, <4>3 DEF InPart
        <4>5. ~Less(P, t'[x])
          <5>1. x = i \/ x \in l..(i - 1) BY <1>1, <4>4
          <5> QED BY <2>3, <2>4, <2>6, <5>1
        <4>6. ~Less(t'[y], P)
          <5>1. y = i \/ y \in (i + 1)..u BY <1>1, <4>4
          <5> QED BY <2>3, <2>5, <2>6, <5>1
        <4>7. t'[x] \in Elements /\ t'[y] \in Elements
          BY <1>5, <2>7, InPositions DEF Rearranged, SortInv
        <4> QED BY <2>2, <4>5, <4>6, <4>7, NotLessTrans
      <3>2. CASE ~Together(x, y)
        BY <1>1, <1>5, <2>1, <2>7, <3>2, RearrangedInOrder DEF SortInv
      <3> QED BY <3>1, <3>2
    <2> QED BY <1>4, <2>7 DEF InOrder, Less
  <1>14. Partitioned' BY <1>4 DEF Partitioned
  <1> QED BY <1>4, <1>8, <1>9, <1>10, <1>11, <1>12, <1>13, <1>14 DEF SortInv

(* The loop that goes down stops at a[lo] at the latest; where the loops have met the pivot *)
(* goes between the two parts.                                                              *)
LEMMA DownKeeps == ASSUME SortInv, Down PROVE SortInv'
  <1>1. /\ pc \in Sorting /\ pc = "down" /\ 1 <= l /\ u <= n /\ l + 3 <= u
        /\ l < i /\ i <= u /\ l < j /\ j < u
        /\ l \in Int /\ u \in Int /\ i \in Int /\ j \in Int
    BY DEF Down, Sorting, SortInv, PartInside, IndicesInside, SortTypeOK
  <1>2. InPart(i, l, u) /\ InPart(j - 1, l, u) BY <1>1 DEF InPart
  <1>3. /\ i \in 1..n /\ j - 1 \in 1..n /\ i \in Positions /\ j - 1 \in Positions
        /\ t[i] \in Elements /\ t[j - 1] \in Elements /\ P \in Elements
    BY <1>1, <1>2, InPartPositions DEF SortInv, SortTypeOK
  <1>4. ASSUME comparison = "consistent"
        PROVE  /\ t[u - 1] = P /\ High(j) /\ Low(i - 1) /\ ~Less(t[i], P) /\ i <= j + 1 /\ i < u
    BY <1>1, <1>4 DEF SortInv, Partitioned
  <1>5. CASE /\ Says(P, t[j - 1])
             /\ j' = j - 1 /\ pc' = (IF j - 1 <= l THEN "error" ELSE "down")
             /\ UNCHANGED <<t, list, n, comparison, frames, l, u, i, P>>
    <2>1. SortTypeOK' BY <1>1, <1>5 DEF SortInv, SortTypeOK
    <2>2. Kept' BY <1>5 DEF SortInv, Kept, Permuted
    <2>3. FramesInside' BY <1>5 DEF SortInv, FramesInside
    <2>4. ASSUME comparison = "consistent"
          PROVE  Less(P, t[j - 1]) /\ i <= j /\ l < j - 1
      <3>1. Less(P, t[j - 1]) BY <1>5, <2>4 DEF Says
      <3>2. ~(l <= j - 1 /\ j - 1 <= i - 1) BY <1>1, <1>4, <2>4, <3>1 DEF Low
      <3> QED BY <1>1, <1>4, <2>4, <3>1, <3>2
    <2>5. CASE j - 1 <= l
      <3>1. comparison # "consistent" BY <1>1, <2>4, <2>5
      <3>2. PartInside' /\ KeptIdle' /\ IndicesInside'
        BY <1>5, <2>5 DEF PartInside, KeptIdle, IndicesInside, Sorting
      <3> QED BY <1>5, <2>1, <2>2, <2>3, <2>5, <3>1, <3>2 DEF SortInv
    <2>6. CASE ~(j - 1 <= l)
      <3>1. pc' = "down" /\ pc' \in Sorting BY <1>5, <2>6 DEF Sorting
      <3>2. Rearranged(t') BY <1>5, Unmoved DEF SortInv
      <3>3. /\ PartInside' /\ FramesInside' /\ KeptIdle'
            /\ comparison = "consistent" => Disjoint' /\ InOrder'
        BY <1>1, <1>5, <3>1, <3>2, SamePart
      <3>4. IndicesInside' BY <1>1, <1>5, <2>6, <3>1 DEF IndicesInside
      <3>5. ASSUME comparison = "consistent" PROVE Partitioned'
        <4>1. ~Less(t[j - 1], P) BY <1>3, <2>4, <3>5, LessAsym
        <4>2. High(j)'
          <5>1. \A k \in (j - 1)..u : k = j - 1 \/ k \in j..u BY <1>1
          <5> QED BY <1>4, <1>5, <3>5, <4>1, <5>1 DEF High, Less
        <4>3. Low(i - 1)' BY <1>4, <1>5, <3>5 DEF Low, Less
        <4>4. i' <= j' + 1 /\ i' < u' BY <1>1, <1>4, <1>5, <2>4, <3>5
        <4> QED BY <1>4, <1>5, <3>1, <3>5, <4>2, <4>3, <4>4 DEF Partitioned, Less
      <3> QED BY <1>5, <2>1, <2>2, <3>1, <3>3, <3>4, <3>5 DEF SortInv
    <2> QED BY <2>5, <2>6
  <1>6. CASE /\ Denies(P, t[j - 1]) /\ i <= j - 1
             /\ t' = set2(t, i, j - 1) /\ j' = j - 1 /\ pc' = "up"
             /\ UNCHANGED <<list, n, comparison, frames, l, u, i, P>>
    <2>1. Rearranged(t') BY <1>1, <1>2, <1>6, Unmoved, SwapRearranges DEF SortInv
    <2>2. SortTypeOK'
      <3>1. t' \in [Positions -> Elements] BY <2>1 DEF Rearranged
      <3> QED BY <1>1, <1>6, <3>1 DEF SortInv, SortTypeOK
    <2>3. Kept'
      <3>1. /\ t \in [Positions -> Elements] /\ list \in [Positions -> Elements] /\ n \in 0..MaxLen
            /\ \E p \in Bijection(1..n, 1..n) : Permuted(t, list, p)
        BY DEF SortInv, SortTypeOK, Kept
      <3>2. \E p \in Bijection(1..n, 1..n) : Permuted(set2(t, i, j - 1), list, p)
        BY <1>3, <3>1, SwapKeeps
      <3> QED BY <1>6, <3>2 DEF Kept, Permuted
    <2>4. IndicesInside' BY <1>1, <1>6 DEF IndicesInside
    <2>5. /\ PartInside' /\ FramesInside' /\ KeptIdle'
          /\ comparison = "consistent" => Disjoint' /\ InOrder'
      <3>1. pc' \in Sorting BY <1>6 DEF Sorting
      <3> QED BY <1>1, <1>6, <2>1, <3>1, SamePart
    <2>6. ASSUME comparison = "consistent" PROVE Partitioned'
      <3>1. /\ t'[i] = t[j - 1] /\ t'[j - 1] = t[i]
            /\ \A k \in Positions : k # i /\ k # j - 1 => t'[k] = t[k]
        <4>1. t \in [Positions -> Elements] BY DEF SortInv, SortTypeOK
        <4> QED BY <1>3, <1>6, <4>1, Swapped
      <3>2. ~Less(P, t'[i]) BY <1>6, <2>6, <3>1 DEF Denies
      <3>3. ~Less(t'[j - 1], P) BY <1>4, <2>6, <3>1
      <3>4. ASSUME NEW k \in l..u, k # i, k # j - 1 PROVE t'[k] = t[k]
        <4>1. InPart(k, l, u) BY <1>1 DEF InPart
        <4> QED BY <1>1, <3>1, <3>4, <4>1, InPartPositions DEF SortInv
      <3>5. t'[u - 1] = P
        <4>1. u - 1 \in l..u /\ u - 1 # i /\ u - 1 # j - 1 BY <1>1, <1>6
        <4> QED BY <1>4, <2>6, <3>4, <4>1
      <3>6. ASSUME NEW k \in l..i PROVE ~Less(P, t'[k])
        <4>1. CASE k = i BY <3>2, <4>1
        <4>2. CASE k # i
          <5>1. k \in l..(i - 1) /\ k \in l..u /\ k # j - 1 BY <1>1, <1>6, <4>2
          <5> QED BY <1>4, <2>6, <3>4, <4>2, <5>1 DEF Low
        <4> QED BY <4>1, <4>2
      <3>7. ASSUME NEW k \in (j - 1)..u PROVE ~Less(t'[k], P)
        <4>1. CASE k = j - 1 BY <3>3, <4>1
        <4>2. CASE k # j - 1
          <5>1. k \in j..u /\ k \in l..u /\ k # i BY <1>1, <1>6, <4>2
          <5> QED BY <1>4, <2>6, <3>4, <4>2, <5>1 DEF High
        <4> QED BY <4>1, <4>2
      <3>8. Low(i)' BY <1>6, <3>6 DEF Low, Less
      <3>9. High(j)' BY <1>6, <3>7 DEF High, Less
      <3>10. i' <= j' /\ i' < u' - 1 BY <1>1, <1>6
      <3> QED BY <1>6, <3>5, <3>8, <3>9, <3>10 DEF Partitioned
    <2> QED BY <1>6, <2>2, <2>3, <2>4, <2>5, <2>6 DEF SortInv
  <1>7. CASE Denies(P, t[j - 1]) /\ j - 1 < i /\ Divide
    <2>1. j <= i BY <1>1, <1>7
    <2> QED BY <1>1, <1>7, <2>1, DivideKeeps
  <1> QED BY <1>5, <1>6, <1>7 DEF Down

(* The activation that called goes on with the part that waited.                             *)
LEMMA ReturnKeeps == ASSUME SortInv, Return PROVE SortInv'
  <1>1. /\ UNCHANGED <<t, list, n, comparison, i, j, P>>
        /\ pc = "return" \/ (pc = "ends" /\ l >= u)
        /\ frames \in Seq(Int \X Int) /\ l \in Int /\ u \in Int
    BY DEF Return, SortInv, SortTypeOK
  <1>2. Kept' BY <1>1 DEF SortInv, Kept, Permuted
  <1>3. ASSUME NEW x \in Int, NEW y \in Int, x < y, Together(x, y)
        PROVE  \E k \in DOMAIN frames : /\ InPart(x, frames[k][1], frames[k][2])
                                        /\ InPart(y, frames[k][1], frames[k][2])
    BY <1>1, <1>3 DEF Together, InPart, Sorting
  <1>4. CASE frames = <<>>
    <2>1. pc' = "done" /\ UNCHANGED <<l, u, frames>> BY <1>4 DEF Return
    <2>2. SortTypeOK' BY <1>1, <2>1 DEF SortInv, SortTypeOK
    <2>3. PartInside' /\ KeptIdle' /\ IndicesInside' /\ Partitioned'
      BY <2>1 DEF PartInside, KeptIdle, IndicesInside, Partitioned, Sorting
    <2>4. FramesInside' BY <1>1, <2>1 DEF SortInv, FramesInside
    <2>5. ASSUME comparison = "consistent" PROVE Disjoint' /\ InOrder'
      <3>1. InOrder BY <2>5 DEF SortInv
      <3>2. Disjoint' BY <1>4, <2>1 DEF Disjoint, Sorting
      <3>3. ASSUME NEW x \in 1..n, NEW y \in 1..n, x < y PROVE ~Less(t[y], t[x])
        <4>1. ~Together(x, y) BY <1>3, <1>4, <3>3
        <4> QED BY <3>1, <3>3, <4>1 DEF InOrder
      <3> QED BY <1>1, <3>2, <3>3 DEF InOrder, Less
    <2> QED BY <1>1, <1>2, <1>4, <2>1, <2>2, <2>3, <2>4, <2>5 DEF SortInv
  <1>5. CASE frames # <<>>
    <2>1. pc' = "ends" /\ l' = frames[1][1] /\ u' = frames[1][2] /\ frames' = Tail(frames)
      BY <1>1, <1>5 DEF Return
    <2>2. /\ frames' \in Seq(Int \X Int) /\ 1 \in DOMAIN frames /\ frames[1] \in Int \X Int
          /\ \A k \in DOMAIN frames' : k + 1 \in DOMAIN frames /\ frames'[k] = frames[k + 1]
      BY <1>1, <1>5, <2>1
    <2>3. \A k \in DOMAIN frames : k # 1 => k - 1 \in DOMAIN frames' /\ frames'[k - 1] = frames[k]
      BY <1>1, <1>5, <2>1
    <2>4. l' \in Int /\ u' \in Int BY <2>1, <2>2
    <2>5. SortTypeOK' BY <1>1, <2>2, <2>4 DEF SortInv, SortTypeOK
    <2>6. PartInside' BY <1>1, <2>1, <2>2 DEF SortInv, PartInside, FramesInside
    <2>7. FramesInside' BY <1>1, <2>2 DEF SortInv, FramesInside
    <2>8. KeptIdle' /\ IndicesInside' /\ Partitioned'
      BY <2>1 DEF KeptIdle, IndicesInside, Partitioned
    <2>9. ASSUME comparison = "consistent" PROVE Disjoint' /\ InOrder'
      <3>1. Disjoint /\ InOrder BY <2>9 DEF SortInv
      <3>2. ASSUME NEW k \in DOMAIN frames' PROVE u' < frames'[k][1] \/ frames'[k][2] < l'
        <4>1. k + 1 \in DOMAIN frames /\ k + 1 # 1 /\ frames'[k] = frames[k + 1]
          BY <2>2
        <4>2. Before(frames[1], frames[k + 1]) BY <2>2, <3>1, <4>1 DEF Disjoint
        <4> QED BY <2>1, <4>1, <4>2 DEF Before
      <3>3. ASSUME NEW k \in DOMAIN frames', NEW m \in DOMAIN frames', k # m
            PROVE  Before(frames'[k], frames'[m])
        <4>1. /\ k + 1 \in DOMAIN frames /\ frames'[k] = frames[k + 1]
              /\ m + 1 \in DOMAIN frames /\ frames'[m] = frames[m + 1] /\ k + 1 # m + 1
          BY <2>2, <3>3
        <4> QED BY <3>1, <4>1 DEF Disjoint
      <3>4. Disjoint' BY <3>2, <3>3 DEF Disjoint
      <3>5. ASSUME NEW x \in 1..n, NEW y \in 1..n, x < y, ~Together(x, y)'
            PROVE  ~Less(t[y], t[x])
        <4>1. ASSUME Together(x, y) PROVE FALSE
          <5>1. PICK k \in DOMAIN frames : /\ InPart(x, frames[k][1], frames[k][2])
                                           /\ InPart(y, frames[k][1], frames[k][2])
            BY <1>3, <3>5, <4>1
          <5>2. CASE k = 1 BY <2>1, <3>5, <5>1, <5>2 DEF Together, Sorting
          <5>3. CASE k # 1 BY <2>3, <3>5, <5>1, <5>3 DEF Together
          <5> QED BY <5>2, <5>3
        <4> QED BY <3>1, <3>5, <4>1 DEF InOrder
      <3> QED BY <1>1, <3>4, <3>5 DEF InOrder, Less
    <2> QED BY <1>1, <1>2, <2>1, <2>5, <2>6, <2>7, <2>8, <2>9 DEF SortInv
  <1> QED BY <1>4, <1>5

-----------------------------------------------------------------------------
(* insert, remove and move.                                                          *)

(* What holds of 0, and of m + 1 whenever it holds of m, holds of every number.      *)
LEMMA SetInduction ==
  ASSUME NEW T \in SUBSET Nat, 0 \in T, \A m \in T : m + 1 \in T
  PROVE  T = Nat
<1> DEFINE UpTo(m) == 0 .. m
           F == {UpTo(m) : m \in Nat \ T}
           R == StrictSubsetOrdering(Nat)
<1>1. SUFFICES ASSUME Nat \ T # {} PROVE FALSE OBVIOUS
<1>2. IsWellFoundedOn(R, FiniteSubsetsOf(Nat)) BY FS_StrictSubsetOrderingWellFounded
<1>3. \A m \in Nat : UpTo(m) \in FiniteSubsetsOf(Nat)
  BY FS_Interval DEF FiniteSubsetsOf
<1>4. F \subseteq FiniteSubsetsOf(Nat) /\ F # {}
  BY <1>1, <1>3
<1>5. \A m \in Nat \ T : m # 0 /\ m - 1 \in Nat \ T
  OBVIOUS
<1>6. \A m \in Nat \ {0} : <<UpTo(m - 1), UpTo(m)>> \in R
  BY DEF StrictSubsetOrdering
<1> HIDE DEF R, F
<1>7. \E x \in F : \A y \in F : ~ (<<y, x>> \in R)
  BY <1>2, <1>4, WFMin
<1>8. PICK x \in F : \A y \in F : ~ (<<y, x>> \in R) BY <1>7
<1>9. PICK m \in Nat \ T : x = UpTo(m) BY DEF F
<1>10. UpTo(m - 1) \in F BY <1>5 DEF F
<1> QED BY <1>5, <1>6, <1>8, <1>9, <1>10

(* A bounded set of natural numbers that is not empty has a greatest: Max is it.      *)
LEMMA GreatestElement ==
  ASSUME NEW S \in SUBSET Nat, S # {}, NEW b \in Nat, \A x \in S : x <= b
  PROVE  Max(S) \in S /\ \A x \in S : x <= Max(S)
<1> DEFINE T == {m \in Nat : \A X \in SUBSET (0..m) :
                   X # {} => \E y \in X : \A x \in X : y >= x}
<1>1. 0 \in T
  <2>1. ASSUME NEW X \in SUBSET (0..0), X # {}
        PROVE  \E y \in X : \A x \in X : y >= x
    <3>1. PICK y \in X : TRUE BY <2>1
    <3>2. \A x \in X : x = 0 OBVIOUS
    <3> QED BY <3>1, <3>2
  <2> QED BY <2>1
<1>2. ASSUME NEW m \in T PROVE m + 1 \in T
  <2> SUFFICES ASSUME NEW X \in SUBSET (0..m + 1), X # {}
               PROVE  \E y \in X : \A x \in X : y >= x
    OBVIOUS
  <2>1. CASE m + 1 \in X BY <2>1
  <2>2. CASE m + 1 \notin X
    <3>1. X \in SUBSET (0..m) BY <2>2
    <3> QED BY <3>1
  <2> QED BY <2>1, <2>2
<1>3. T = Nat
  <2> HIDE DEF T
  <2>1. T \in SUBSET Nat BY DEF T
  <2> QED BY <1>1, <1>2, <2>1, SetInduction
<1>4. b \in T /\ S \in SUBSET (0..b) BY <1>3
<1>5. \E y \in S : \A x \in S : y >= x BY <1>4
<1> QED BY <1>5 DEF Max

(* z has the table after each of the m elements moved.                                    *)
Traces(z, f, to, from, order, m) ==
  /\ z[0] = f
  /\ \A k \in 1..m : z[k] = Store(z[k - 1], to + order[k], from + order[k])
  /\ MoveAll(f, to, from, order) = z[m]

(* Folding over the order is moving one element after the other.                           *)
LEMMA MovedSteps ==
  ASSUME NEW f, NEW to, NEW from, NEW m \in Nat, NEW order, DOMAIN order = 1..m
  PROVE  \E z : Traces(z, f, to, from, order, m)
  <1> DEFINE Step(k, g) == Store(g, to + order[k], from + order[k])
             Eq(it) == it = [s \in SUBSET (1..m) |->
                              IF s = {} THEN f ELSE Step(Max(s), it[s \ {Max(s)}])]
             iter == CHOOSE it : Eq(it)
  <1>1. MoveAll(f, to, from, order) = iter[1..m]
    BY DEF MoveAll, FoldLeft, MapThenFoldSet
  <1>2. \A k \in 1..m : Store(iter[1..(k - 1)], to + order[k], from + order[k]) = Step(k, iter[1..(k - 1)])
    OBVIOUS
  <1> HIDE DEF Step
  <1> DEFINE Def(g, k) == g = [s \in SUBSET (1..k) |-> IF s = {} THEN f ELSE Step(Max(s), g[s \ {Max(s)}])]
             T == {k \in Nat : \E g : Def(g, k)}
  <1>3. ASSUME NEW k \in Nat, NEW s \in SUBSET (1..k), s # {}
        PROVE  Max(s) \in s /\ \A x \in s : x <= Max(s)
    <2>1. s \in SUBSET Nat /\ \A x \in s : x <= k OBVIOUS
    <2> QED BY <1>3, <2>1, GreatestElement
  <1>4. 0 \in T
    <2> DEFINE g == [s \in SUBSET (1..0) |-> f]
    <2>1. Def(g, 0) OBVIOUS
    <2> QED BY <2>1
  <1>5. ASSUME NEW k \in T PROVE k + 1 \in T
    <2>1. k \in Nat /\ k + 1 \in Nat OBVIOUS
    <2>2. PICK g : Def(g, k) BY <1>5
    <2> DEFINE w == [s \in SUBSET (1..(k + 1)) |->
                      IF s \in SUBSET (1..k) THEN g[s] ELSE Step(k + 1, g[s \ {k + 1}])]
    <2>3. ASSUME NEW s \in SUBSET (1..(k + 1))
          PROVE  w[s] = IF s = {} THEN f ELSE Step(Max(s), w[s \ {Max(s)}])
      <3>1. CASE s \in SUBSET (1..k)
        <4>1. w[s] = g[s] BY <3>1
        <4>2. s # {} => s \ {Max(s)} \in SUBSET (1..k) /\ w[s \ {Max(s)}] = g[s \ {Max(s)}]
          BY <3>1
        <4>3. g[s] = IF s = {} THEN f ELSE Step(Max(s), g[s \ {Max(s)}]) BY <2>2, <3>1
        <4> HIDE DEF w
        <4> QED BY <4>1, <4>2, <4>3
      <3>2. CASE s \notin SUBSET (1..k)
        <4>1. k + 1 \in s /\ s # {} BY <2>1, <3>2
        <4>2. Max(s) = k + 1
          <5>1. Max(s) \in s /\ k + 1 <= Max(s) BY <1>3, <2>1, <4>1
          <5>2. Max(s) \in 1..(k + 1) BY <5>1
          <5> HIDE DEF w
          <5> QED BY <2>1, <5>1, <5>2
        <4>3. s \ {k + 1} \in SUBSET (1..k) BY <2>1
        <4>4. w[s] = Step(k + 1, g[s \ {k + 1}]) BY <3>2
        <4>5. w[s \ {k + 1}] = g[s \ {k + 1}] BY <4>3
        <4> HIDE DEF w
        <4> QED BY <4>1, <4>2, <4>4, <4>5
      <3> QED BY <3>1, <3>2
    <2>4. w = [s \in SUBSET (1..(k + 1)) |-> w[s]] OBVIOUS
    <2> HIDE DEF w
    <2>5. Def(w, k + 1) BY <2>3, <2>4
    <2> QED BY <2>1, <2>5
  <1>6. T = Nat
    <2>1. T \in SUBSET Nat OBVIOUS
    <2> HIDE DEF T
    <2> QED BY <1>4, <1>5, <2>1, SetInduction
  <1>7. Eq(iter)
    <2>1. \E g : Eq(g) BY <1>6
    <2> QED BY <2>1
  <1> HIDE DEF iter
  <1> DEFINE z == [k \in 0..m |-> iter[1..k]]
  <1>8. z[0] = f
    <2>1. {} \in SUBSET (1..m) /\ 1..0 = {} OBVIOUS
    <2>2. iter[{}] = f BY <1>7, <2>1
    <2> QED BY <2>1, <2>2
  <1>9. ASSUME NEW k \in 1..m PROVE z[k] = Step(k, z[k - 1])
    <2>1. 1..k \in SUBSET (1..m) /\ 1..k # {} /\ k \in Nat /\ k \in 1..k OBVIOUS
    <2>2. Max(1..k) = k
      <3>1. Max(1..k) \in 1..k /\ \A x \in 1..k : x <= Max(1..k) BY <1>3, <2>1
      <3> QED BY <2>1, <3>1
    <2>3. (1..k) \ {k} = 1..(k - 1) OBVIOUS
    <2>4. iter[1..k] = Step(Max(1..k), iter[(1..k) \ {Max(1..k)}]) BY <1>7, <2>1
    <2>5. z[k] = iter[1..k] /\ z[k - 1] = iter[1..(k - 1)] OBVIOUS
    <2> HIDE DEF z
    <2> QED BY <2>2, <2>3, <2>4, <2>5
  <1>10. z[m] = iter[1..m] OBVIOUS
  <1> HIDE DEF z
  <1>11. \A k \in 1..m : z[k] = Store(z[k - 1], to + order[k], from + order[k])
    BY <1>9 DEF Step
  <1> QED BY <1>1, <1>8, <1>10, <1>11 DEF Traces

(* The orders in which elements are moved.                                               *)
LEMMA AscendingIs ==
  ASSUME NEW lo \in Int, NEW hi \in Int
  PROVE  \E m \in Nat :
           /\ m = IF lo <= hi THEN hi - lo + 1 ELSE 0
           /\ DOMAIN Ascending(lo, hi) = 1..m /\ DOMAIN Descending(hi, lo) = 1..m
           /\ \A k \in 1..m : Ascending(lo, hi)[k] = lo + k - 1 /\ Descending(hi, lo)[k] = hi - k + 1
  <1> DEFINE S == {0, hi - lo + 1}
             m == IF lo <= hi THEN hi - lo + 1 ELSE 0
             a == Ascending(lo, hi)
  <1>1. m \in S /\ \A x \in S : m >= x OBVIOUS
  <1>2. Max(S) \in S /\ \A x \in S : Max(S) >= x BY <1>1, Zenon DEF Max
  <1>3. Max(S) = m /\ m \in Nat
    <2>1. Max(S) >= m /\ m >= Max(S) /\ m \in Nat BY <1>1, <1>2
    <2>2. Max(S) \in Int BY <1>2
    <2> QED BY <2>1, <2>2
  <1>4. a = [k \in 1..m |-> lo + k - 1]
    <2>1. a = [k \in 1..Max(S) |-> lo + k - 1] BY DEF Ascending
    <2> QED BY <1>3, <2>1
  <1>5. a \in Seq(Int) /\ Len(a) = m
    <2> HIDE DEF a, m
    <2> QED BY <1>3, <1>4
  <1>6. Descending(hi, lo) = [k \in 1..m |-> a[m - k + 1]]
    <2>1. Descending(hi, lo) = [k \in 1..Len(a) |-> a[Len(a) - k + 1]] BY DEF Descending, Reverse
    <2> QED BY <1>5, <2>1
  <1>7. ASSUME NEW k \in 1..m
        PROVE  a[k] = lo + k - 1 /\ Descending(hi, lo)[k] = hi - k + 1
    <2>1. lo <= hi /\ m = hi - lo + 1 /\ k \in Int OBVIOUS
    <2>2. m - k + 1 \in 1..m BY <1>3, <2>1
    <2> HIDE DEF a, m
    <2>3. a[k] = lo + k - 1 /\ a[m - k + 1] = lo + (m - k + 1) - 1 BY <1>4, <2>2
    <2>4. Descending(hi, lo)[k] = a[m - k + 1] BY <1>6
    <2> QED BY <1>3, <2>1, <2>3, <2>4
  <1>8. DOMAIN a = 1..m /\ DOMAIN Descending(hi, lo) = 1..m BY <1>4, <1>6
  <1> QED BY <1>3, <1>7, <1>8

(* All elements from + k, and the places to + k, for each k in lo..hi, are in the table.        *)
Inside(to, from, lo, hi) == \A k \in lo..hi : to + k \in Positions /\ from + k \in Positions

(* f with these elements moved to these places.                                            *)
Shifted(f, to, from, lo, hi) ==
  [x \in Positions |-> IF x \in (to + lo)..(to + hi) THEN f[(x - to) + from] ELSE f[x]]

(* What a store leaves, written for each place.                                             *)
LEMMA StoreIs ==
  ASSUME NEW f \in [Positions -> Elements], NEW x \in Positions, NEW y \in Positions
  PROVE  Store(f, x, y) = [k \in Positions |-> IF k = x THEN f[y] ELSE f[k]]
  BY DEF Store

(* Moving down, the first element first, overwrites none that is still to be moved.           *)
LEMMA MovedDown ==
  ASSUME NEW f \in [Positions -> Elements], NEW to \in Int, NEW from \in Int, to <= from,
         NEW lo \in Int, NEW hi \in Int, Inside(to, from, lo, hi)
  PROVE  MoveAll(f, to, from, Ascending(lo, hi)) = Shifted(f, to, from, lo, hi)
  <1> DEFINE order == Ascending(lo, hi)
  <1>1. PICK m \in Nat : /\ m = IF lo <= hi THEN hi - lo + 1 ELSE 0
                         /\ DOMAIN order = 1..m /\ \A k \in 1..m : order[k] = lo + k - 1
    BY AscendingIs
  <1> HIDE DEF order
  <1>0. PICK z : Traces(z, f, to, from, order, m) BY <1>1, MovedSteps
  <1>2. /\ z[0] = f
        /\ \A k \in 1..m : z[k] = Store(z[k - 1], to + order[k], from + order[k])
        /\ MoveAll(f, to, from, order) = z[m]
    BY <1>0 DEF Traces
  <1> DEFINE T == {k \in Nat : k <= m => z[k] = Shifted(f, to, from, lo, lo + k - 1)}
  <1>3. 0 \in T
    <2>1. Positions \subseteq Int BY SortAssumption DEF Positions
    <2>2. \A x \in Positions : x \notin (to + lo)..(to + (lo + 0 - 1)) BY <2>1
    <2>3. Shifted(f, to, from, lo, lo + 0 - 1) = [x \in Positions |-> f[x]] BY <2>2 DEF Shifted
    <2> QED BY <1>2, <2>3
  <1>4. ASSUME NEW k \in T PROVE k + 1 \in T
    <2> SUFFICES ASSUME k + 1 <= m PROVE z[k + 1] = Shifted(f, to, from, lo, lo + (k + 1) - 1)
      OBVIOUS
    <2> DEFINE w == Shifted(f, to, from, lo, lo + k - 1)
    <2>1. k \in Nat /\ z[k] = w /\ k + 1 \in 1..m /\ order[k + 1] = lo + k
      BY <1>1
    <2>2. to + (lo + k) \in Positions /\ from + (lo + k) \in Positions
      <3>1. lo + k \in lo..hi BY <1>1, <2>1
      <3> QED BY <3>1 DEF Inside
    <2>3. w \in [Positions -> Elements]
      <3>1. ASSUME NEW x \in Positions, x \in (to + lo)..(to + (lo + k - 1)) PROVE (x - to) + from \in Positions
        <4>1. x \in Int BY SortAssumption DEF Positions
        <4>2. x - to \in lo..hi BY <1>1, <2>1, <3>1, <4>1
        <4>3. from + (x - to) = (x - to) + from BY <4>1
        <4> QED BY <4>2, <4>3 DEF Inside
      <3> QED BY <3>1 DEF Shifted
    <2>4. z[k + 1] = Store(w, to + (lo + k), from + (lo + k))
      <3>1. z[k + 1] = Store(z[(k + 1) - 1], to + order[k + 1], from + order[k + 1]) BY <1>2, <2>1
      <3>2. (k + 1) - 1 = k BY <2>1
      <3> QED BY <2>1, <3>1, <3>2
    <2>5. w[from + (lo + k)] = f[from + (lo + k)]
      <3>1. ~(from + (lo + k) \in (to + lo)..(to + (lo + k - 1))) BY <2>1
      <3> QED BY <2>2, <3>1 DEF Shifted
    <2>6. ASSUME NEW x \in Positions
          PROVE  (IF x = to + (lo + k) THEN w[from + (lo + k)] ELSE w[x])
                   = IF x \in (to + lo)..(to + (lo + (k + 1) - 1)) THEN f[(x - to) + from] ELSE f[x]
      <3>1. x \in Int BY SortAssumption DEF Positions
      <3>2. w[x] = IF x \in (to + lo)..(to + (lo + k - 1)) THEN f[(x - to) + from] ELSE f[x] BY DEF Shifted
      <3> HIDE DEF w
      <3>3. CASE x = to + (lo + k)
        <4>1. (x - to) + from = from + (lo + k) /\ x \in (to + lo)..(to + (lo + (k + 1) - 1))
          BY <2>1, <3>3
        <4> QED BY <2>5, <3>3, <4>1
      <3>4. CASE x # to + (lo + k)
        <4>1. x \in (to + lo)..(to + (lo + (k + 1) - 1)) <=> x \in (to + lo)..(to + (lo + k - 1))
          BY <2>1, <3>1, <3>4
        <4> QED BY <3>2, <3>4, <4>1
      <3> QED BY <3>3, <3>4
    <2> HIDE DEF w
    <2>7. z[k + 1] = [x \in Positions |-> IF x = to + (lo + k) THEN w[from + (lo + k)] ELSE w[x]]
      BY <2>2, <2>3, <2>4, StoreIs
    <2> QED BY <2>6, <2>7 DEF Shifted
  <1>5. T = Nat
    <2>1. T \in SUBSET Nat OBVIOUS
    <2> HIDE DEF T
    <2> QED BY <1>3, <1>4, <2>1, SetInduction
  <1>6. z[m] = Shifted(f, to, from, lo, lo + m - 1) BY <1>5
  <1>7. (to + lo)..(to + (lo + m - 1)) = (to + lo)..(to + hi) BY <1>1
  <1> QED BY <1>2, <1>6, <1>7 DEF Shifted, order

(* And moving up, the last first.                                                        *)
LEMMA MovedUp ==
  ASSUME NEW f \in [Positions -> Elements], NEW to \in Int, NEW from \in Int, from <= to,
         NEW lo \in Int, NEW hi \in Int, Inside(to, from, lo, hi)
  PROVE  MoveAll(f, to, from, Descending(hi, lo)) = Shifted(f, to, from, lo, hi)
  <1> DEFINE order == Descending(hi, lo)
  <1>1. PICK m \in Nat : /\ m = IF lo <= hi THEN hi - lo + 1 ELSE 0
                         /\ DOMAIN order = 1..m /\ \A k \in 1..m : order[k] = hi - k + 1
    BY AscendingIs
  <1> HIDE DEF order
  <1>0. PICK z : Traces(z, f, to, from, order, m) BY <1>1, MovedSteps
  <1>2. /\ z[0] = f
        /\ \A k \in 1..m : z[k] = Store(z[k - 1], to + order[k], from + order[k])
        /\ MoveAll(f, to, from, order) = z[m]
    BY <1>0 DEF Traces
  <1> DEFINE T == {k \in Nat : k <= m => z[k] = Shifted(f, to, from, hi - k + 1, hi)}
  <1>3. 0 \in T
    <2>1. Positions \subseteq Int BY SortAssumption DEF Positions
    <2>2. \A x \in Positions : x \notin (to + (hi - 0 + 1))..(to + hi) BY <2>1
    <2>3. Shifted(f, to, from, hi - 0 + 1, hi) = [x \in Positions |-> f[x]] BY <2>2 DEF Shifted
    <2> QED BY <1>2, <2>3
  <1>4. ASSUME NEW k \in T PROVE k + 1 \in T
    <2> SUFFICES ASSUME k + 1 <= m PROVE z[k + 1] = Shifted(f, to, from, hi - (k + 1) + 1, hi)
      OBVIOUS
    <2> DEFINE w == Shifted(f, to, from, hi - k + 1, hi)
    <2>1. k \in Nat /\ z[k] = w /\ k + 1 \in 1..m /\ order[k + 1] = hi - k
      BY <1>1
    <2>2. to + (hi - k) \in Positions /\ from + (hi - k) \in Positions
      <3>1. hi - k \in lo..hi BY <1>1, <2>1
      <3> QED BY <3>1 DEF Inside
    <2>3. w \in [Positions -> Elements]
      <3>1. ASSUME NEW x \in Positions, x \in (to + (hi - k + 1))..(to + hi) PROVE (x - to) + from \in Positions
        <4>1. x \in Int BY SortAssumption DEF Positions
        <4>2. x - to \in lo..hi BY <1>1, <2>1, <3>1, <4>1
        <4>3. from + (x - to) = (x - to) + from BY <4>1
        <4> QED BY <4>2, <4>3 DEF Inside
      <3> QED BY <3>1 DEF Shifted
    <2>4. z[k + 1] = Store(w, to + (hi - k), from + (hi - k))
      <3>1. z[k + 1] = Store(z[(k + 1) - 1], to + order[k + 1], from + order[k + 1]) BY <1>2, <2>1
      <3>2. (k + 1) - 1 = k BY <2>1
      <3> QED BY <2>1, <3>1, <3>2
    <2>5. w[from + (hi - k)] = f[from + (hi - k)]
      <3>1. ~(from + (hi - k) \in (to + (hi - k + 1))..(to + hi)) BY <2>1
      <3> QED BY <2>2, <3>1 DEF Shifted
    <2>6. ASSUME NEW x \in Positions
          PROVE  (IF x = to + (hi - k) THEN w[from + (hi - k)] ELSE w[x])
                   = IF x \in (to + (hi - (k + 1) + 1))..(to + hi) THEN f[(x - to) + from] ELSE f[x]
      <3>1. x \in Int BY SortAssumption DEF Positions
      <3>2. w[x] = IF x \in (to + (hi - k + 1))..(to + hi) THEN f[(x - to) + from] ELSE f[x] BY DEF Shifted
      <3> HIDE DEF w
      <3>3. CASE x = to + (hi - k)
        <4>1. (x - to) + from = from + (hi - k) /\ x \in (to + (hi - (k + 1) + 1))..(to + hi)
          BY <2>1, <3>3
        <4> QED BY <2>5, <3>3, <4>1
      <3>4. CASE x # to + (hi - k)
        <4>1. x \in (to + (hi - (k + 1) + 1))..(to + hi) <=> x \in (to + (hi - k + 1))..(to + hi)
          BY <2>1, <3>1, <3>4
        <4> QED BY <3>2, <3>4, <4>1
      <3> QED BY <3>3, <3>4
    <2> HIDE DEF w
    <2>7. z[k + 1] = [x \in Positions |-> IF x = to + (hi - k) THEN w[from + (hi - k)] ELSE w[x]]
      BY <2>2, <2>3, <2>4, StoreIs
    <2> QED BY <2>6, <2>7 DEF Shifted
  <1>5. T = Nat
    <2>1. T \in SUBSET Nat OBVIOUS
    <2> HIDE DEF T
    <2> QED BY <1>3, <1>4, <2>1, SetInduction
  <1>6. z[m] = Shifted(f, to, from, hi - m + 1, hi) BY <1>5
  <1>7. (to + (hi - m + 1))..(to + hi) = (to + lo)..(to + hi) BY <1>1
  <1> QED BY <1>2, <1>6, <1>7 DEF Shifted, order

-----------------------------------------------------------------------------
(* sort starts with one part, the whole list.                                               *)
LEMMA SortBegins == ASSUME SortInv, sort PROVE SortInv'
  <1>1. /\ pc = "idle" /\ pc' = "ends" /\ t = list /\ UNCHANGED <<t, list, i, j, P>>
        /\ n' \in 0..MaxLen /\ u' = n' /\ l' = 1 /\ frames' = <<>>
    BY DEF sort, SortInv, KeptIdle
  <1>2. n' \in Nat BY <1>1, SortAssumption
  <1>3. SortTypeOK' BY <1>1, <1>2 DEF SortInv, SortTypeOK
  <1>4. Kept'
    <2>1. \E p \in Bijection(1..n', 1..n') :
            \A k \in Positions : t[k] = IF k \in 1..n' THEN t[p[k]] ELSE t[k]
      BY <1>2, Unpermuted
    <2> QED BY <1>1, <2>1 DEF Kept, Permuted
  <1>5. PartInside' /\ KeptIdle' /\ IndicesInside' /\ Partitioned' /\ FramesInside' /\ Disjoint'
    BY <1>1, <1>2 DEF PartInside, KeptIdle, IndicesInside, Partitioned, FramesInside, Disjoint
  <1>6. InOrder'
    <2>1. ASSUME NEW x \in 1..n', NEW y \in 1..n' PROVE Together(x, y)'
      BY <1>1, <1>2 DEF Together, InPart, Sorting
    <2> QED BY <2>1 DEF InOrder
  <1> QED BY <1>1, <1>3, <1>4, <1>5, <1>6 DEF SortInv

(* After sort, or an error in it, the program goes on with the list as it was left.         *)
LEMMA GoesKeeps == ASSUME SortInv, Goes PROVE SortInv'
  <1>1. /\ pc' = "idle" /\ t' = t /\ list' = t /\ n' = 0 /\ comparison' = "any" /\ frames' = <<>>
        /\ l' = 1 /\ u' = 0 /\ i' = 0 /\ j' = 0 /\ P' = Nil
    BY DEF Goes, NoPartition
  <1>2. SortTypeOK' BY <1>1, SortAssumption DEF SortInv, SortTypeOK, Elements
  <1>3. Kept'
    <2>1. \E p \in Bijection(1..0, 1..0) :
            \A k \in Positions : t[k] = IF k \in 1..0 THEN t[p[k]] ELSE t[k]
      BY Unpermuted
    <2> QED BY <1>1, <2>1 DEF Kept, Permuted
  <1>4. PartInside' /\ KeptIdle' /\ IndicesInside' /\ FramesInside'
    BY <1>1 DEF PartInside, KeptIdle, IndicesInside, FramesInside, Sorting
  <1> QED BY <1>1, <1>2, <1>3, <1>4 DEF SortInv

-----------------------------------------------------------------------------
(* Calls of insert, remove and move, with nothing being sorted.                            *)
ListInv == SortInv /\ (pc = "idle" => comparison = "any")

(* The table has what it should have.                                                   *)
LEMMA AssignKeeps ==
  ASSUME ListInv, NEW f \in [Positions -> Elements], Assign(f, f)
  PROVE  ListInv'
  <1>1. /\ t' = f /\ list' = f /\ pc' = "idle" /\ comparison' = "any"
        /\ UNCHANGED <<n, frames, l, u, i, j, P>>
    BY DEF Assign, ListInv
  <1>2. SortTypeOK' BY <1>1 DEF ListInv, SortInv, SortTypeOK
  <1>3. Kept'
    <2>1. n \in Nat BY SortAssumption DEF ListInv, SortInv, SortTypeOK
    <2>2. \E p \in Bijection(1..n, 1..n) :
            \A k \in Positions : f[k] = IF k \in 1..n THEN f[p[k]] ELSE f[k]
      BY <2>1, Unpermuted
    <2> QED BY <1>1, <2>2 DEF Kept, Permuted
  <1>4. PartInside' /\ KeptIdle' /\ IndicesInside'
    BY <1>1 DEF PartInside, KeptIdle, IndicesInside, Sorting
  <1>5. FramesInside' BY <1>1 DEF ListInv, SortInv, FramesInside
  <1> QED BY <1>1, <1>2, <1>3, <1>4, <1>5 DEF ListInv, SortInv

(* The elements from pos on go up by one, the last first.                                  *)
LEMMA InsertKeeps == ASSUME ListInv, tinsert PROVE ListInv'
  <1>0. PICK m \in 0..(MaxLen - 1), v \in Values : \E pos \in 1..(m + 1) :
          LET e == m + 1
              moved == MoveAll(t, 0, -1, Descending(e, pos + 1))
          IN  Assign([moved EXCEPT ![pos] = v],
                     [k \in Positions |-> IF k = pos THEN v
                                          ELSE list[IF k \in pos..e THEN k - 1 ELSE k]])
    BY DEF tinsert
  <1>1. PICK pos \in 1..(m + 1) :
          LET e == m + 1
              moved == MoveAll(t, 0, -1, Descending(e, pos + 1))
          IN  Assign([moved EXCEPT ![pos] = v],
                     [k \in Positions |-> IF k = pos THEN v
                                          ELSE list[IF k \in pos..e THEN k - 1 ELSE k]])
    BY <1>0
  <1> DEFINE e == m + 1
             w == MoveAll(t, 0, -1, Descending(e, pos + 1))
             f == [w EXCEPT ![pos] = v]
             g == [k \in Positions |-> IF k = pos THEN v
                                       ELSE list[IF k \in pos..e THEN k - 1 ELSE k]]
  <1>2. pc = "idle" /\ t = list /\ t \in [Positions -> Elements]
    BY <1>1 DEF Assign, ListInv, SortInv, KeptIdle, SortTypeOK
  <1>3. MaxLen \in Nat /\ m \in Int /\ pos \in Int /\ e \in Int /\ pos \in Positions
    BY SortAssumption DEF Positions
  <1>4. w = Shifted(t, 0, -1, pos + 1, e)
    <2>1. Inside(0, -1, pos + 1, e) BY <1>3 DEF Inside, Positions
    <2> QED BY <1>2, <1>3, <2>1, MovedUp
  <1>5. f = g
    <2>1. f = [k \in Positions |-> IF k = pos THEN v ELSE w[k]] BY <1>4 DEF Shifted
    <2>2. ASSUME NEW k \in Positions, k # pos
          PROVE  w[k] = list[IF k \in pos..e THEN k - 1 ELSE k]
      <3>1. k \in Int BY <1>3 DEF Positions
      <3>2. w[k] = IF k \in (0 + (pos + 1))..(0 + e) THEN t[(k - 0) + -1] ELSE t[k]
        BY <1>4 DEF Shifted
      <3>3. (k - 0) + -1 = k - 1 /\ (k \in (0 + (pos + 1))..(0 + e) <=> k \in pos..e)
        BY <1>3, <2>2, <3>1
      <3> HIDE DEF w, e
      <3> QED BY <1>2, <3>2, <3>3
    <2> HIDE DEF w, e
    <2> QED BY <2>1, <2>2
  <1>6. f \in [Positions -> Elements]
    <2>1. \A k \in (pos + 1)..e : k - 1 \in Positions BY <1>3 DEF Positions
    <2>2. \A k \in Positions : w[k] \in Elements
      <3>1. ASSUME NEW k \in Positions PROVE w[k] \in Elements
        <4>1. k \in Int BY <1>3 DEF Positions
        <4>2. w[k] = IF k \in (0 + (pos + 1))..(0 + e) THEN t[(k - 0) + -1] ELSE t[k]
          BY <1>4 DEF Shifted
        <4>3. (k - 0) + -1 = k - 1 /\ (k \in (0 + (pos + 1))..(0 + e) <=> k \in (pos + 1)..e)
          BY <1>3, <4>1
        <4> HIDE DEF w, e
        <4> QED BY <1>2, <2>1, <4>2, <4>3
      <3> QED BY <3>1
    <2>3. f = [k \in Positions |-> IF k = pos THEN v ELSE w[k]] BY <1>4 DEF Shifted
    <2>4. v \in Elements BY DEF Elements
    <2> HIDE DEF w
    <2> QED BY <2>2, <2>3, <2>4
  <1>7. Assign(f, g) BY <1>1
  <1> HIDE DEF f, g
  <1> QED BY <1>5, <1>6, <1>7, AssignKeeps

(* The elements behind pos go down by one, the first of them first.                          *)
LEMMA RemoveKeeps == ASSUME ListInv, tremove PROVE ListInv'
  <1>0. PICK size \in 0..MaxLen : \E pos \in {size} \cup 1..(size + 1) :
          LET moved == MoveAll(t, 0, 1, Ascending(pos, size - 1))
              last == Max({pos, size})
          IN  Assign([moved EXCEPT ![last] = Nil],
                     [k \in Positions |-> IF k = last THEN Nil
                                          ELSE list[IF k \in pos..size THEN k + 1 ELSE k]])
    BY DEF tremove
  <1>1. PICK pos \in {size} \cup 1..(size + 1) :
          LET moved == MoveAll(t, 0, 1, Ascending(pos, size - 1))
              last == Max({pos, size})
          IN  Assign([moved EXCEPT ![last] = Nil],
                     [k \in Positions |-> IF k = last THEN Nil
                                          ELSE list[IF k \in pos..size THEN k + 1 ELSE k]])
    BY <1>0
  <1> DEFINE w == MoveAll(t, 0, 1, Ascending(pos, size - 1))
             last == Max({pos, size})
             f == [w EXCEPT ![last] = Nil]
             g == [k \in Positions |-> IF k = last THEN Nil
                                       ELSE list[IF k \in pos..size THEN k + 1 ELSE k]]
  <1>2. pc = "idle" /\ t = list /\ t \in [Positions -> Elements]
    BY <1>1 DEF Assign, ListInv, SortInv, KeptIdle, SortTypeOK
  <1>3. MaxLen \in Nat /\ size \in Nat /\ pos \in Nat /\ pos <= size + 1
        /\ pos \in Positions /\ size \in Positions
    BY SortAssumption DEF Positions
  <1>4. last = IF pos <= size THEN size ELSE pos
    <2>1. {pos, size} \in SUBSET Nat /\ {pos, size} # {} /\ \A x \in {pos, size} : x <= size + 1
      BY <1>3
    <2>2. last \in {pos, size} /\ \A x \in {pos, size} : x <= last
      BY <1>3, <2>1, GreatestElement
    <2> HIDE DEF last
    <2> QED BY <1>3, <2>2
  <1> HIDE DEF last
  <1>5. w = Shifted(t, 0, 1, pos, size - 1)
    <2>1. Inside(0, 1, pos, size - 1) BY <1>3 DEF Inside, Positions
    <2> QED BY <1>2, <1>3, <2>1, MovedDown
  <1>6. ASSUME NEW k \in Positions
        PROVE  w[k] = IF k \in pos..(size - 1) THEN t[k + 1] ELSE t[k]
    <2>1. k \in Int BY <1>3 DEF Positions
    <2>2. w[k] = IF k \in (0 + pos)..(0 + (size - 1)) THEN t[(k - 0) + 1] ELSE t[k]
      BY <1>5 DEF Shifted
    <2>3. (k - 0) + 1 = k + 1 /\ (k \in (0 + pos)..(0 + (size - 1)) <=> k \in pos..(size - 1))
      BY <1>3, <2>1
    <2> HIDE DEF w
    <2> QED BY <2>2, <2>3
  <1>7. f = [k \in Positions |-> IF k = last THEN Nil ELSE w[k]] BY <1>5 DEF Shifted
  <1> HIDE DEF w
  <1>8. f = g
    <2>1. ASSUME NEW k \in Positions, k # last
          PROVE  w[k] = list[IF k \in pos..size THEN k + 1 ELSE k]
      <3>1. k \in Int BY <1>3 DEF Positions
      <3>2. k \in pos..size <=> k \in pos..(size - 1) BY <1>3, <1>4, <2>1, <3>1
      <3> QED BY <1>2, <1>6, <3>2
    <2> QED BY <1>7, <2>1
  <1>9. f \in [Positions -> Elements]
    <2>1. \A k \in pos..(size - 1) : k + 1 \in Positions BY <1>3 DEF Positions
    <2>2. \A k \in Positions : w[k] \in Elements BY <1>2, <1>6, <2>1
    <2>3. Nil \in Elements BY DEF Elements
    <2> QED BY <1>7, <2>2, <2>3
  <1>10. Assign(f, g) BY <1>1 DEF w, last
  <1> HIDE DEF f, g
  <1> QED BY <1>8, <1>9, <1>10, AssignKeeps

(* Elements that go up are moved from the last on, others from the first: they may overlap.      *)
LEMMA MoveKeeps == ASSUME ListInv, tmove PROVE ListInv'
  <1>1. PICK f \in 1..MaxLen, e \in 1..MaxLen, d \in 1..MaxLen :
          LET m == e - f + 1
              order == MoveOrder(f, d, m)
          IN  /\ e >= f /\ d + m - 1 <= MaxLen
              /\ Assign(MoveAll(t, d, f, order),
                        [k \in Positions |-> list[IF k \in d..(d + m - 1) THEN k - d + f ELSE k]])
    BY DEF tmove
  <1> DEFINE m == e - f + 1
             w == MoveAll(t, d, f, MoveOrder(f, d, m))
             g == [k \in Positions |-> list[IF k \in d..(d + m - 1) THEN k - d + f ELSE k]]
  <1>2. pc = "idle" /\ t = list /\ t \in [Positions -> Elements]
    BY <1>1 DEF Assign, ListInv, SortInv, KeptIdle, SortTypeOK
  <1>3. MaxLen \in Nat /\ m \in Nat /\ f \in Nat /\ d \in Nat /\ d + m - 1 <= MaxLen
        /\ f + m - 1 <= MaxLen /\ f >= 1 /\ d >= 1
    BY <1>1, SortAssumption
  <1> HIDE DEF m
  <1>4. Inside(d, f, 0, m - 1) BY <1>3 DEF Inside, Positions
  <1>5. w = Shifted(t, d, f, 0, m - 1)
    <2>1. CASE d > f
      <3>1. w = MoveAll(t, d, f, Descending(m - 1, 0)) BY <2>1 DEF MoveOrder
      <3>2. f <= d /\ 0 \in Int /\ m - 1 \in Int /\ d \in Int /\ f \in Int BY <1>3, <2>1
      <3> HIDE DEF w
      <3>3. MoveAll(t, d, f, Descending(m - 1, 0)) = Shifted(t, d, f, 0, m - 1)
        BY <1>2, <1>4, <3>2, MovedUp
      <3> QED BY <3>1, <3>3
    <2>2. CASE ~(d > f)
      <3>1. w = MoveAll(t, d, f, Ascending(0, m - 1)) BY <2>2 DEF MoveOrder
      <3>2. d <= f /\ 0 \in Int /\ m - 1 \in Int /\ d \in Int /\ f \in Int BY <1>3, <2>2
      <3> HIDE DEF w
      <3>3. MoveAll(t, d, f, Ascending(0, m - 1)) = Shifted(t, d, f, 0, m - 1)
        BY <1>2, <1>4, <3>2, MovedDown
      <3> QED BY <3>1, <3>3
    <2> QED BY <2>1, <2>2
  <1>6. Assign(w, g) BY <1>1 DEF m
  <1> HIDE DEF w
  <1>7. ASSUME NEW k \in Positions
        PROVE  /\ w[k] = list[IF k \in d..(d + m - 1) THEN k - d + f ELSE k]
               /\ w[k] \in Elements
    <2>1. k \in Int BY <1>3 DEF Positions
    <2>2. w[k] = IF k \in (d + 0)..(d + (m - 1)) THEN t[(k - d) + f] ELSE t[k]
      BY <1>5 DEF Shifted
    <2>3. (d + 0)..(d + (m - 1)) = d..(d + m - 1) BY <1>3
    <2>4. k \in d..(d + m - 1) => (k - d) + f \in Positions BY <1>3, <2>1 DEF Positions
    <2> QED BY <1>2, <2>2, <2>3, <2>4
  <1>8. w = [k \in Positions |-> w[k]] BY <1>5 DEF Shifted
  <1>9. w = g BY <1>7, <1>8
  <1>10. w \in [Positions -> Elements] BY <1>7, <1>8
  <1> HIDE DEF g
  <1> QED BY <1>6, <1>9, <1>10, AssignKeeps

(* The inductive invariant of the functions that change a list.                             *)
THEOREM ListInvHolds == ListSpec => []ListInv
  <1>1. SortInit => ListInv
    <2> SUFFICES ASSUME SortInit PROVE ListInv OBVIOUS
    <2>1. SortTypeOK BY SortAssumption DEF SortInit, SortTypeOK, Elements
    <2>2. Kept
      <3>1. \E p \in Bijection(1..0, 1..0) :
              \A k \in Positions : t[k] = IF k \in 1..0 THEN t[p[k]] ELSE t[k]
        BY Unpermuted
      <3> QED BY <3>1 DEF SortInit, Kept, Permuted
    <2>3. PartInside /\ KeptIdle /\ IndicesInside /\ FramesInside
      BY DEF SortInit, PartInside, KeptIdle, IndicesInside, FramesInside, Sorting
    <2> QED BY <2>1, <2>2, <2>3 DEF SortInv, SortInit, ListInv
  <1>2. ListInv /\ [ListNext]_sortvars => ListInv'
    <2> SUFFICES ASSUME ListInv, [ListNext]_sortvars PROVE ListInv' OBVIOUS
    <2>1. CASE UNCHANGED sortvars
      BY <2>1 DEF ListInv, sortvars, SortInv, SortTypeOK, PartInside, FramesInside, IndicesInside,
                  Kept, Permuted, KeptIdle, Disjoint, Before, InOrder, Together, Partitioned,
                  Low, High, Less
    <2>2. CASE SortNext
      <3>1. SortInv'
        BY <2>2, SortBegins, EndsKeeps, MiddleKeeps, UpperKeeps, UpKeeps, DownKeeps,
           ReturnKeeps, GoesKeeps DEF SortNext, ListInv
      <3>2. pc' = "idle" => comparison' = "any"
        BY <2>2 DEF SortNext, sort, Ends, Middle, Upper, Up, Down, Return, Goes, Pivot, Divide
      <3> QED BY <3>1, <3>2 DEF ListInv
    <2> QED BY <2>1, <2>2, InsertKeeps, RemoveKeeps, MoveKeeps DEF ListNext
  <1> QED BY <1>1, <1>2, PTL DEF ListSpec

(* insert, remove and move put every element where they should; whatever a comparison          *)
(* function answers, sort neither loses nor invents elements, and touches nothing outside      *)
(* 1..#t.                                                                           *)
THEOREM ListPermutes == ListSpec => []KeepsElements
  <1>1. ListInv => KeepsElements
    <2> SUFFICES ASSUME ListInv PROVE KeepsElements OBVIOUS
    <2>1. \A e \in Elements : Occurrences(t, e) = Occurrences(list, e)
      BY KeptCounts DEF ListInv, SortInv
    <2>2. \A k \in Positions \ 1..n : t[k] = list[k] BY DEF ListInv, SortInv, Kept, Permuted
    <2> QED BY <2>1, <2>2 DEF ListInv, SortInv, KeptIdle, KeepsElements
  <1> QED BY <1>1, ListInvHolds, PTL

(* With a comparison function that is a consistent order, table.sort sorts, and never calls it   *)
(* an invalid one.                                                                  *)
THEOREM SortSorts == ListSpec => []SortsInOrder
  <1>1. ListInv => SortsInOrder
    <2> SUFFICES ASSUME ListInv, comparison = "consistent"
                 PROVE  /\ pc # "error"
                        /\ pc = "done" => \A x, y \in 1..n : x < y => ~Less(t[y], t[x])
      BY DEF SortsInOrder
    <2>1. ASSUME pc = "done", NEW x \in 1..n, NEW y \in 1..n, x < y PROVE ~Less(t[y], t[x])
      <3>1. ~Together(x, y) BY <2>1 DEF ListInv, SortInv, Together, Sorting
      <3> QED BY <2>1, <3>1 DEF ListInv, SortInv, InOrder
    <2> QED BY <2>1 DEF ListInv, SortInv
  <1> QED BY <1>1, ListInvHolds, PTL
=============================================================================
