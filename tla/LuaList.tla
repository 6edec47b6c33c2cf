------------------------------- MODULE LuaList -------------------------------
(***************************************************************************)
(* The functions of 3rd/lua/ltablib.c that change a table: insert, remove and move, which  *)
(* store one element after the other where others have just been read, and sort.          *)
(* tcp_servlet.lua takes its sockets out of a list with remove.                          *)
(*                                                                          *)
(* The length is a border, any one if there are holes.  concat and unpack, which only       *)
(* read, are in LuaText; pack, which makes a new table, metamethods and moving between two   *)
(* tables are left out.                                                            *)
(***************************************************************************)
EXTENDS LuaSort, FiniteSetsExt, Folds, SequencesExt

(* t[to + k] = t[from + k], for each k in the order given.                                 *)
Store(f, to, from) == [f EXCEPT ![to] = f[from]]
MoveAll(f, to, from, order) == FoldLeft(LAMBDA g, k : Store(g, to + k, from + k), f, order)

Ascending(lo, hi) == [k \in 1..Max({0, hi - lo + 1}) |-> lo + k - 1]
Descending(hi, lo) == Reverse(Ascending(lo, hi))

Assign(f, g) == pc = "idle" /\ t' = f /\ list' = g /\ UNCHANGED <<n, comparison, frames, l, u, i, j, P, pc>>

(* Without a position, pos = e, nothing is moved.                                        *)
tinsert ==
  \E m \in 0..(MaxLen - 1), v \in Values :
    /\ IsLength(t, m)
    /\ \E pos \in 1..(m + 1) :
         LET e == m + 1
             moved == MoveAll(t, 0, -1, Descending(e, pos + 1))
         IN  Assign([moved EXCEPT ![pos] = v],
                  [k \in Positions |-> IF k = pos THEN v
                                       ELSE list[IF k \in pos..e THEN k - 1 ELSE k]])

tremove ==
  \E size \in 0..MaxLen :
    /\ IsLength(t, size)
    /\ \E pos \in {size} \cup 1..(size + 1) :
         LET moved == MoveAll(t, 0, 1, Ascending(pos, size - 1))
             last == Max({pos, size})
         IN  Assign([moved EXCEPT ![last] = Nil],
                  [k \in Positions |-> IF k = last THEN Nil
                                       ELSE list[IF k \in pos..size THEN k + 1 ELSE k]])

(* The order in which m elements are moved from f to d: they may overlap.                     *)
AlwaysForward(f, d, m) == Ascending(0, m - 1)
MoveOrder(f, d, m) == IF d > f THEN Descending(m - 1, 0) ELSE Ascending(0, m - 1)

tmove ==
  \E f, e, d \in 1..MaxLen :
    LET m == e - f + 1
        order == MoveOrder(f, d, m)
    IN  /\ e >= f /\ d + m - 1 <= MaxLen
        /\ Assign(MoveAll(t, d, f, order),
                [k \in Positions |-> list[IF k \in d..(d + m - 1) THEN k - d + f ELSE k]])

ListNext == tinsert \/ tremove \/ tmove \/ SortNext

(* The functions on lists alone; the run interleaves them with those on strings.             *)
ListSpec == SortInit /\ [][ListNext]_sortvars
=============================================================================
