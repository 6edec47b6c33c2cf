------------------------------- MODULE LuaSort -------------------------------
(***************************************************************************)
(* table.sort, 3rd/lua/ltablib.c: a quicksort in place whose only way to look at two     *)
(* elements is a call of the program's comparison function, a step each.  One that is     *)
(* consistent answers by an order; any other answers as it likes, by accident or because   *)
(* it is not an order at all (`<=', a comparison of changing things), and must do no       *)
(* worse than leave the table in disorder.                                           *)
(*                                                                          *)
(* A table is a function on some positions, nil where it has nothing.  A comparison       *)
(* function that changes the table or raises an error, and metamethods, are left out.      *)
(***************************************************************************)
EXTENDS Integers, Sequences, FiniteSets

CONSTANTS
  Values, Nil,
  Order,        (* the pairs <<x, y>> such that x < y                                *)
  MaxLen        (* bound: the length of a table                                     *)

Elements == Values \cup {Nil}
Positions == 0..(MaxLen + 1)
Less(x, y) == <<x, y>> \in Order

ASSUME SortAssumption ==
  /\ MaxLen \in Nat
  /\ \A x, y \in Elements : Less(x, y) => ~Less(y, x)
  /\ \A x, y, z \in Elements : Less(x, z) => Less(x, y) \/ Less(y, z)

VARIABLES
  t,            \* the table
  list,         \* history: its content when no call is under way
  n,            \* its length when sort() was called
  comparison,   \* "consistent" or "any"
  frames,       \* the l and u of the activations of auxsort() that wait for another, the last first
  l, u,         \* the part being sorted
  i, j, P,
  pc            \* the comparison to be made next; "idle" outside sort(), "error" after an error

sortvars == <<t, list, n, comparison, frames, l, u, i, j, P, pc>>

-----------------------------------------------------------------------------
(* A border: #t.                                                                  *)
IsLength(f, m) == m \in 0..MaxLen /\ (m = 0 \/ f[m] # Nil) /\ f[m + 1] = Nil

(* What the comparison function may answer.                                            *)
Says(x, y) == comparison = "consistent" => Less(x, y)
Denies(x, y) == comparison = "consistent" => ~Less(x, y)

(* No partition is under way.                                                       *)
NoPartition == i' = 0 /\ j' = 0 /\ P' = Nil

(* The two values on the stack are stored the other way round.                            *)
set2(f, x, y) == [f EXCEPT ![x] = f[y], ![y] = f[x]]

sort ==
  /\ pc = "idle"
  /\ \E m \in 0..MaxLen : IsLength(t, m) /\ n' = m /\ u' = m
  /\ comparison' \in {"consistent", "any"}
  /\ l' = 1 /\ frames' = <<>> /\ pc' = "ends"
  /\ UNCHANGED <<t, list, i, j, P>>

(* a[u] < a[l]?                                                                      *)
Ends ==
  /\ pc = "ends" /\ l < u
  /\ \/ Says(t[u], t[l]) /\ t' = set2(t, l, u)
     \/ Denies(t[u], t[l]) /\ t' = t
  /\ IF u - l = 1 THEN pc' = "return" /\ i' = i ELSE pc' = "middle" /\ i' = (l + u) \div 2
  /\ UNCHANGED <<list, n, comparison, frames, l, u, j, P>>

(* Three elements are sorted; of more, the one in the middle becomes the pivot, and waits     *)
(* before the last.                                                                 *)
Pivot(f) ==
  IF u - l = 2 THEN pc' = "return" /\ t' = f /\ NoPartition
  ELSE /\ P' = f[i]
       /\ t' = set2(f, i, u - 1)
       /\ i' = l /\ j' = u - 1
       /\ pc' = "up"

(* a[i] < a[l]?                                                                      *)
Middle ==
  /\ pc = "middle"
  /\ \/ Says(t[i], t[l]) /\ Pivot(set2(t, i, l))
     \/ Denies(t[i], t[l]) /\ pc' = "upper" /\ UNCHANGED <<t, i, j, P>>
  /\ UNCHANGED <<list, n, comparison, frames, l, u>>

(* a[u] < a[i]?                                                                      *)
Upper ==
  /\ pc = "upper"
  /\ \/ Says(t[u], t[i]) /\ Pivot(set2(t, i, u))
     \/ Denies(t[u], t[i]) /\ Pivot(t)
  /\ UNCHANGED <<list, n, comparison, frames, l, u>>

(* repeat ++i until a[i] >= P                                                         *)
Up ==
  /\ pc = "up" /\ i' = i + 1
  /\ \/ Says(t[i + 1], P) /\ pc' = (IF i + 1 >= u THEN "error" ELSE "up")
     \/ Denies(t[i + 1], P) /\ pc' = "down"
  /\ UNCHANGED <<t, list, n, comparison, frames, l, u, j, P>>

(* Without the pivot put between the parts.                                          *)
DivideUnplaced ==
  /\ t' = t
  /\ IF i - l < u - i
     THEN l' = l /\ u' = i - 1 /\ frames' = <<<<i + 1, u>>>> \o frames
     ELSE l' = i + 1 /\ u' = u /\ frames' = <<<<l, i - 1>>>> \o frames
  /\ pc' = "ends" /\ NoPartition
  /\ UNCHANGED <<list, n, comparison>>

(* The pivot goes where it belongs, the smaller part is sorted by a call, the other next.      *)
Divide ==
  /\ t' = set2(t, u - 1, i)
  /\ IF i - l < u - i
     THEN l' = l /\ u' = i - 1 /\ frames' = <<<<i + 1, u>>>> \o frames
     ELSE l' = i + 1 /\ u' = u /\ frames' = <<<<l, i - 1>>>> \o frames
  /\ pc' = "ends" /\ NoPartition
  /\ UNCHANGED <<list, n, comparison>>

(* repeat --j until a[j] <= P                                                         *)
Down ==
  /\ pc = "down"
  /\ \/ /\ Says(P, t[j - 1])
        /\ j' = j - 1 /\ pc' = (IF j - 1 <= l THEN "error" ELSE "down")
        /\ UNCHANGED <<t, list, n, comparison, frames, l, u, i, P>>
     \/ /\ Denies(P, t[j - 1]) /\ i <= j - 1
        /\ t' = set2(t, i, j - 1) /\ j' = j - 1 /\ pc' = "up"
        /\ UNCHANGED <<list, n, comparison, frames, l, u, i, P>>
     \/ Denies(P, t[j - 1]) /\ j - 1 < i /\ Divide

(* An activation is over: the one that called it goes on, or sort() returns.                *)
Return ==
  /\ pc = "return" \/ (pc = "ends" /\ l >= u)
  /\ IF frames = <<>> THEN pc' = "done" /\ UNCHANGED <<l, u, frames>>
     ELSE /\ l' = Head(frames)[1] /\ u' = Head(frames)[2] /\ frames' = Tail(frames)
          /\ pc' = "ends"
  /\ UNCHANGED <<t, list, n, comparison, i, j, P>>

(* The program goes on, after an error too.                                             *)
Goes ==
  /\ pc \in {"done", "error"}
  /\ pc' = "idle" /\ list' = t
  /\ n' = 0 /\ comparison' = "any" /\ frames' = <<>> /\ l' = 1 /\ u' = 0 /\ NoPartition
  /\ UNCHANGED t

SortInit ==
  /\ t \in [Positions -> Elements] /\ t[0] = Nil /\ t[MaxLen + 1] = Nil
  /\ list = t
  /\ n = 0 /\ comparison = "any" /\ frames = <<>> /\ l = 1 /\ u = 0 /\ i = 0 /\ j = 0 /\ P = Nil
  /\ pc = "idle"

SortNext == sort \/ Ends \/ Middle \/ Upper \/ Up \/ Down \/ Return \/ Goes

SortSpec == SortInit /\ [][SortNext]_sortvars

-----------------------------------------------------------------------------
(* What is promised.                                                               *)

(* Whatever the comparison function answers, the table has the elements it had, each as      *)
(* often, and nothing outside 1..#t is touched; outside sort() it is as the calls left it.    *)
(* (auxsort() looks for its ends by comparisons alone, and moves elements by pairs.)         *)
Occurrences(f, e) == Cardinality({k \in 1..n : f[k] = e})
KeepsElements ==
  /\ \A e \in Elements : Occurrences(t, e) = Occurrences(list, e)
  /\ \A k \in Positions \ 1..n : t[k] = list[k]
  /\ pc = "idle" => t = list

(* With a consistent comparison function the table is in order when sort() returns, and no     *)
(* "invalid order function" is reported (the comment at the head of the partition loop).      *)
SortsInOrder ==
  comparison = "consistent" =>
    /\ pc # "error"
    /\ pc = "done" => \A x, y \in 1..n : x < y => ~Less(t[y], t[x])
=============================================================================
