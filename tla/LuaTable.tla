------------------------------ MODULE LuaTable ------------------------------
(***************************************************************************)
(* Lua's tables, 3rd/lua/ltable.c: an array part for the keys 1..n, and a hash part   *)
(* of 2^k nodes in which colliding keys are chained through free nodes by relative    *)
(* links, a node that is not in its main position giving way to one that is.  A node  *)
(* keeps its key when its value becomes nil; the collector may then declare the key   *)
(* dead.  When no node is free, both parts are sized anew.                         *)
(*                                                                          *)
(* The socket tables of the servlets, their handlers and the binding's weak table are *)
(* such tables.  Errors that leave the table alone (a key nil or NaN, a table that    *)
(* overflows) are left out.                                                     *)
(***************************************************************************)
EXTENDS Integers, Sequences, FiniteSetsExt

CONSTANTS
  Ints, Strings, Pointers,  (* the keys, by how they are hashed; the last two collectable *)
  Hash,         (* the hash value of strings and pointers                          *)
  Floats, Whole,(* floats with an integer value, and that integer                   *)
  Values, Nil,
  Error,        (* the cursor of a traversal that failed                           *)
  MaxArray, MaxHash,  (* bound: the sizes a table is created with, or its list has     *)
  MaxInt        (* MAX_INT                                                       *)

ASSUME TableAssumption ==
  /\ Ints \subseteq Int /\ MaxInt \in Nat
  /\ MaxArray \in Nat /\ MaxHash \in Nat /\ 1..MaxArray \subseteq Ints
  /\ \A k \in Strings \cup Pointers : k \notin Int
  /\ Hash \in [Strings \cup Pointers -> Nat] /\ Whole \in [Floats -> Ints]
  /\ \A k \in Floats : k \notin Int \cup Strings \cup Pointers
  /\ Nil \notin Values \cup Strings \cup Pointers /\ Nil \notin Int
  /\ Error \notin Strings \cup Pointers \cup {Nil} /\ Error \notin Int

Keys == Ints \cup Strings \cup Pointers

VARIABLES
  t,              \* the table: array, node, lastfree; dummy if its node is dummynode
  content,        \* history: what the program has stored
  cursor, seen    \* the key on the stack of a loop over next(), and those it had so far

vars == <<t, content, cursor, seen>>

-----------------------------------------------------------------------------
(* Looking up.                                                               *)

sizenode(u) == Cardinality(DOMAIN u.node)

(* hashmod() for pointers, hashpow2() for the others.                              *)
mainposition(u, k) ==
  IF k \in Pointers THEN Hash[k] % Max({1, sizenode(u) - 1})
  ELSE (IF k \in Strings THEN Hash[k] ELSE k) % sizenode(u)

(* f applied to a again and again.                                                *)
Iterated(f, a) == LET g[i \in Nat] == IF i = 0 THEN a ELSE f[g[i - 1]] IN g

(* The nodes along a chain, from node n; at its end, the last one forever.             *)
Walk(u, n) == Iterated([m \in DOMAIN u.node |-> m + u.node[m].next], n)

None == -1
(* The first node that has key k, as it is or dead as well, None if there is none.      *)
Search(u, k, deads) ==
  LET walk == Walk(u, mainposition(u, k))
      hits == {i \in 0..sizenode(u) - 1 :
                 u.node[walk[i]].key = k /\ u.node[walk[i]].dead \in deads}
  IN  IF hits = {} THEN None ELSE walk[Min(hits)]
Find(u, k) == Search(u, k, {FALSE})

InArray(u, k) == k \notin Strings \cup Pointers /\ k \in 1..Len(u.array)
Integral(k) == IF k \in Floats THEN Whole[k] ELSE k

luaH_get(u, key) ==
  LET k == Integral(key)
  IN  IF InArray(u, k) THEN u.array[k]
      ELSE IF Find(u, k) = None THEN Nil ELSE u.node[Find(u, k)].val

-----------------------------------------------------------------------------
(* A new key.                                                                *)

Put(u, n, k, v) == [u EXCEPT !.node[n].key = k, !.node[n].dead = FALSE, !.node[n].val = v]

getfreepos(u) == {n \in 0..u.lastfree - 1 : u.node[n].key = Nil}

(* The node whose link leads to mp.                                               *)
previous(u, mp) ==
  LET path == Walk(u, mainposition(u, u.node[mp].key))
  IN  path[Min({i \in 0..sizenode(u) - 1 : path[i] + u.node[path[i]].next = mp})]

(* Mutant: the nodes behind it are cut off.                                         *)
MoveUnlinked(u, mp, f, k, v) ==
  LET prev == previous(u, mp)
      moved == [u EXCEPT !.node[f] = [u.node[mp] EXCEPT !.next = 0],
                         !.node[prev].next = f - prev, !.node[mp].next = 0]
  IN  Put(moved, mp, k, v)

(* The colliding node is not in its main position: it moves to f, with its link.      *)
MoveToFree(u, mp, f, k, v) ==
  LET prev == previous(u, mp)
      link == IF u.node[mp].next = 0 THEN 0 ELSE u.node[mp].next + (mp - f)
      moved == [u EXCEPT !.node[f] = [u.node[mp] EXCEPT !.next = link],
                         !.node[prev].next = f - prev, !.node[mp].next = 0]
  IN  Put(moved, mp, k, v)

(* It is: the new key goes to f, behind it.                                        *)
ChainFree(u, mp, f, k, v) ==
  LET link == IF u.node[mp].next = 0 THEN 0 ELSE (mp + u.node[mp].next) - f
  IN  Put([u EXCEPT !.node[f].next = link, !.node[mp].next = f - mp], f, k, v)

Taken(u, mp) == u.node[mp].val # Nil \/ u.dummy

(* luaH_newkey() that needs no rehash, and the value that its caller stores: a main     *)
(* position without a value is used, whatever key and link it has.                   *)
luaH_newkey(u, k, v) ==
  LET mp == mainposition(u, k)
      f == Max(getfreepos(u))
      taken == [u EXCEPT !.lastfree = f]
  IN  IF ~Taken(u, mp) THEN Put(u, mp, k, v)
      ELSE IF mainposition(u, u.node[mp].key) # mp THEN MoveToFree(taken, mp, f, k, v)
      ELSE ChainFree(taken, mp, f, k, v)

Insert(u, k, v) ==
  IF InArray(u, k) THEN [u EXCEPT !.array[k] = v]
  ELSE IF Find(u, k) = None THEN luaH_newkey(u, k, v)
  ELSE [u EXCEPT !.node[Find(u, k)].val = v]

-----------------------------------------------------------------------------
(* Sizes.                                                                    *)

twoto == Iterated([x \in Nat |-> 2 * x], 1)

(* numusearray(), numusehash(), countint(): the keys with a value, and the new one.    *)
Used(u, ek) ==
  {i \in 1..Len(u.array) : u.array[i] # Nil}
  \cup {u.node[n].key : n \in {m \in DOMAIN u.node : u.node[m].val # Nil}}
  \cup {ek}

(* The largest 2^i of whose array slots more than half would be used.              *)
computesizes(used) ==
  Max({0} \cup {size \in {twoto[i] : i \in 0..Cardinality(used)} :
                  2 * Cardinality(used \cap (1..size)) > size})

setnodevector(size) ==
  LET nodes == Min({twoto[i] : i \in {j \in 0..size : twoto[j] >= size}})
  IN  [n \in 0..nodes - 1 |-> [key |-> Nil, dead |-> FALSE, val |-> Nil, next |-> 0]]

Empty(array, nhsize) ==
  [array |-> array, node |-> setnodevector(nhsize), dummy |-> nhsize = 0,
   lastfree |-> IF nhsize = 0 THEN 0 ELSE Cardinality(DOMAIN setnodevector(nhsize))]

luaH_new == Empty(<<>>, 0)

(* The entries of the vanishing slice of the array, then those of the old hash part,   *)
(* from the last node, go where they belong now.  No call of luaH_resize() gives the    *)
(* hash part too few nodes for them, so that none of them leads to another rehash.     *)
luaH_resize(u, nasize, nhsize) ==
  LET slot == [i \in 1..Max({nasize, Len(u.array)}) |->
                 IF i <= Len(u.array) THEN u.array[i] ELSE Nil]
      gone == Len(slot) - nasize
      entry(i) == IF i <= gone THEN [key |-> nasize + i, val |-> slot[nasize + i]]
                  ELSE u.node[sizenode(u) - (i - gone)]
      after[i \in 0..gone + sizenode(u)] ==
        IF i = 0 THEN Empty([j \in 1..nasize |-> slot[j]], nhsize)
        ELSE IF entry(i).val = Nil THEN after[i - 1]
        ELSE Insert(after[i - 1], entry(i).key, entry(i).val)
  IN  after[gone + sizenode(u)]

luaH_resizearray(u, nasize) == luaH_resize(u, nasize, IF u.dummy THEN 0 ELSE sizenode(u))

rehash(u, ek) ==
  LET used == Used(u, ek)
      asize == computesizes(used)
  IN  luaH_resize(u, asize, Cardinality(used \ (1..asize)))

(* luaH_newkey() finds neither the key's main position nor another node free.         *)
Full(u, k) ==
  /\ ~InArray(u, k) /\ Find(u, k) = None
  /\ Taken(u, mainposition(u, k)) /\ getfreepos(u) = {}

luaH_set(u, key, v) ==
  LET k == Integral(key)
  IN  Insert(IF Full(u, k) THEN rehash(u, k) ELSE u, k, v)

-----------------------------------------------------------------------------
(* Traversal.                                                                *)

Elements(u) ==
  [i \in 1..Len(u.array) + sizenode(u) |->
     IF i <= Len(u.array) THEN [key |-> i, val |-> u.array[i]]
     ELSE [key |-> u.node[i - Len(u.array) - 1].key, val |-> u.node[i - Len(u.array) - 1].val]]

(* Mutant: a dead key is not found.                                              *)
FindLive(u, k) == Find(u, k)
FindAny(u, k) == Search(u, k, BOOLEAN)

(* None stands for the error "invalid key to 'next'".                              *)
findindex(u, k) ==
  IF k = Nil THEN 0 ELSE IF InArray(u, k) THEN k
  ELSE IF FindAny(u, k) = None THEN None ELSE Len(u.array) + 1 + FindAny(u, k)

luaH_next(u, k) ==
  LET from == findindex(u, k)
      rest == {i \in from + 1..Len(u.array) + sizenode(u) : Elements(u)[i].val # Nil}
  IN  IF from = None THEN Error ELSE IF rest = {} THEN Nil ELSE Elements(u)[Min(rest)].key

-----------------------------------------------------------------------------
(* The length.                                                               *)

(* An index with a value, or i, behind which there is none, between i and j.           *)
Bisect(u, i, j) ==
  LET halve == [p \in Nat \X Nat |->
                  LET m == (p[1] + p[2]) \div 2
                  IN  IF p[2] - p[1] <= 1 THEN p
                      ELSE IF luaH_get(u, m) = Nil THEN <<p[1], m>> ELSE <<m, p[2]>>]
  IN  Iterated(halve, <<i, j>>)[j - i][1]

Linear(u) ==
  Min({i \in 1..Len(u.array) + sizenode(u) + 1 : luaH_get(u, i) = Nil}) - 1

(* The first of the indices j + 1, 2(j + 1), 4(j + 1)... without a value bounds the search. *)
unbound_search(u, j) ==
  LET index == Iterated([x \in Nat |-> 2 * x], j + 1)
      n == Min({i \in 0..MaxInt : luaH_get(u, index[i]) = Nil \/ index[i] > MaxInt \div 2})
  IN  IF luaH_get(u, index[n]) # Nil THEN Linear(u)
      ELSE Bisect(u, IF n = 0 THEN j ELSE index[n - 1], index[n])

(* Mutant: the hash part is not looked at.                                         *)
ArrayOnly(u) ==
  LET j == Len(u.array)
  IN  IF j > 0 /\ luaH_get(u, j) = Nil THEN Bisect(u, 0, j) ELSE j

luaH_getn(u) ==
  LET j == Len(u.array)
  IN  IF j > 0 /\ luaH_get(u, j) = Nil THEN Bisect(u, 0, j)
      ELSE IF u.dummy THEN j
      ELSE unbound_search(u, j)

-----------------------------------------------------------------------------
(* The API.                                                                  *)

(* lua_createtable()                                                         *)
Init ==
  /\ \E na \in 0..MaxArray, nh \in 0..MaxHash : t = luaH_resize(luaH_new, na, nh)
  /\ content = [k \in Keys |-> Nil] /\ cursor = Nil /\ seen = {}

(* lua_rawset(); during a traversal, of an entry there is.                         *)
Set(k, v) ==
  /\ cursor # Nil => content[Integral(k)] # Nil
  /\ t' = luaH_set(t, k, v)
  /\ content' = [content EXCEPT ![Integral(k)] = v]
  /\ UNCHANGED <<cursor, seen>>

(* OP_SETLIST: the list of a constructor, for which the array part is made large enough. *)
SetList(n, v) ==
  LET u == IF n > Len(t.array) THEN luaH_resizearray(t, n) ELSE t
  IN  /\ cursor = Nil
      /\ t' = [u EXCEPT !.array = [i \in 1..Len(u.array) |-> IF i <= n THEN v ELSE u.array[i]]]
      /\ content' = [k \in Keys |-> IF k \in 1..n THEN v ELSE content[k]]
      /\ UNCHANGED <<cursor, seen>>

(* removeentry() of lgc.c, for a table that was traversed before its key was marked.   *)
removeentry(n) ==
  /\ t.node[n].val = Nil /\ t.node[n].key \in Strings \cup Pointers
  /\ ~t.node[n].dead
  /\ t' = [t EXCEPT !.node[n].dead = TRUE]
  /\ UNCHANGED <<content, cursor, seen>>

(* lua_next()                                                                *)
Visit ==
  /\ cursor # Error
  /\ cursor' = luaH_next(t, cursor)
  /\ seen' = IF cursor' \in {Nil, Error} THEN {} ELSE seen \cup {cursor'}
  /\ UNCHANGED <<t, content>>

Break == cursor # Nil /\ cursor' = Nil /\ seen' = {} /\ UNCHANGED <<t, content>>

Next ==
  \/ \E k \in Keys \cup Floats, v \in Values \cup {Nil} : Set(k, v)
  \/ \E n \in 1..MaxArray, v \in Values : SetList(n, v)
  \/ \E n \in DOMAIN t.node : removeentry(n)
  \/ Visit \/ Break

Spec == Init /\ [][Next]_vars

-----------------------------------------------------------------------------
(* Properties.                                                               *)

(* Nothing is lost, doubled or mixed up by collisions, moves, overwritten nodes, dead    *)
(* keys and new sizes: what is looked up is what was stored last.                  *)
FindsWhatWasStored == \A k \in Keys : luaH_get(t, k) = content[k]

Map == INSTANCE Dictionary WITH
  Groups <- {{k} : k \in Keys} \cup {1..n : n \in 1..MaxArray}

(* A traversal gives every entry once, whatever is cleared behind, at or before it, and   *)
(* whichever of the cleared keys the collector takes; it never fails.                *)
TraversesAll == Map!Spec

(* #t is a border: an index with a value, or 0, behind which there is none, though the    *)
(* array part and the hash part are searched in different ways.                     *)
LengthIsBorder ==
  LET n == luaH_getn(t)
  IN  /\ n = 0 \/ luaH_get(t, n) # Nil
      /\ luaH_get(t, n + 1) = Nil
=============================================================================
