------------------------------ MODULE MCTables ------------------------------
(* The tables of Lua, and the table of the ENet binding, which gives a slot its       *)
(* userdata: in one run, in which a behaviour uses the one or the other.             *)
EXTENDS LuaTable, EnetBinding, TLC

(* A string and a pointer that collide with integers and each other in hash parts of     *)
(* some sizes and not of others.                                               *)
CONSTANTS str, ptr, num

Hashes == [k \in {str, ptr} |-> IF k = str THEN 2 ELSE 5]
Wholes == [k \in {num} |-> 1]

(* The binding treats all places alike, and all userdata of a kind.                   *)
Alike == Permutations(Places) \cup Permutations(HostObjects) \cup Permutations(PeerObjects)

TableUnused == t = luaH_resize(luaH_new, 0, 0) /\ cursor = Nil

TablesInit == Init /\ BindingInit
TablesNext ==
  \/ BindingInit /\ Next /\ UNCHANGED bindingVars
  \/ TableUnused /\ BindingNext /\ UNCHANGED vars

TablesSpec == TablesInit /\ [][TablesNext]_<<vars, bindingVars>>
=============================================================================
