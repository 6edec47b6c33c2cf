--------------------------- MODULE MCLuaCollector ---------------------------
(* The heaps TLC takes LuaCollector through.  Places can be exchanged, so that one     *)
(* order of the kinds is enough.                                              *)
EXTENDS LuaCollector

Order == <<"userdata", "string", "table", "closure", "weakvalue", "ephemeron", "allweak">>
Ranks == {r \in [{1, 2} -> DOMAIN Order] : r[1] <= r[2]}

(* Two objects, of every two kinds; the third place is not used.                     *)
Pairs == {[o \in Objects |-> IF o \in {1, 2} THEN Order[r[o]] ELSE "unused"] : r \in Ranks}

(* An ephemeron that was visited before its key is marked, on the stack or for its     *)
(* finalizer: its value is marked in a round of convergeephemerons().               *)
Rounds == {<<"ephemeron", "userdata", "closure">>}

SmallHeaps == Pairs \cup Rounds
TwoUserdata == {<<"userdata", "userdata">>}

(* Bounds: unused places stay free, and in the heap of three only the ephemeron refers to   *)
(* anything, with the second object as key and the third as value.                    *)
Bounded ==
  \A o \in Objects :
    /\ kind[o] = "unused" => h'.marked[o] = "free"
    /\ kind \in Rounds => h'.key[o] \in {None, 2} /\ h'.val[o] \in {None, 3}
    /\ kind \in Rounds /\ kind[o] # "ephemeron" => h'.val[o] = None

(* Every step but one: no finalizer is called for the object that the sweep stands on,   *)
(* which sends the sweep into another list (run finalizer_in_sweep).                *)
NotUnderSweep == h.sweepgc # Head(h.tobefnz)

SteadyNext ==
  \/ Program /\ Bounded
  \/ Step
  \/ CallFinalizer /\ NotUnderSweep
  \/ FullGC

SteadySpec == Init /\ [][SteadyNext]_vars /\ []<><<Step \/ CallFinalizer>>_vars
=============================================================================
