---------------------------- MODULE LuaCollector ----------------------------
(***************************************************************************)
(* The incremental collector of the Lua the programs run on, 3rd/lua/lgc.c, and   *)
(* the operations of the API that have to keep it informed: every allocation may    *)
(* do a step of marking or sweeping in between two operations of the program.      *)
(*                                                                          *)
(* An object holds a reference in key and one in val: a table has one entry, a       *)
(* closure one upvalue, a userdata one user value, a string nothing.  Metatables,   *)
(* fixed strings and the registry are always reachable and not in here; all code      *)
(* runs on the main thread, whose stack is the only root.  Userdata are the objects *)
(* that may get a finalizer.  What paces the collector (debt, estimate, pause) only  *)
(* says when the next step comes, which is at any time here.                     *)
(***************************************************************************)
EXTENDS Naturals, Sequences, SequencesExt, FiniteSetsExt, TLC

CONSTANTS
  Objects, None, Heaps,   (* as in ManagedHeap                                  *)
  Main,                   (* the main thread                                   *)
  Header,                 (* for sweepgc: the head of the list swept in this state  *)
  SweepMax                (* GCSWEEPMAX: elements of a list swept in a step       *)

ASSUME CollectorAssumption == SweepMax > 0 /\ {Main, Header, None} \cap Objects = {}

VARIABLES
  kind, stack,     \* as in ManagedHeap
  h                \* the objects' own fields and those of global_State

vars == <<kind, stack, h>>

Weak == {"weakvalue", "ephemeron", "allweak"}
Tables == {"table"} \cup Weak
SweptList == [swpallgc |-> "allgc", swpfinobj |-> "finobj", swptobefnz |-> "tobefnz"]
Whites == {"white", "otherwhite"}       \* the current white, and the one of the dead
Lists == {"gray", "grayagain", "weak", "ephemeron", "allweak"}

White(s, o) == o # None /\ s.marked[o] \in Whites
Dead(s, o) == s.marked[o] = "otherwhite"
issweepphase(s) == s.gcstate \in DOMAIN SweptList \cup {"swpend"}
keepinvariant(s) == s.gcstate \in {"propagate", "atomic"}
Colour(s, o, c) == [s EXCEPT !.marked[o] = c]
Link(s, o, list) == [s EXCEPT ![list] = <<o>> \o @]       \* linkgclist()

-----------------------------------------------------------------------------
(* Marking.                                                                  *)

RECURSIVE Mark(_, _)
(* markobject(): strings and userdata turn black here, the others get in line.     *)
Mark(s, o) ==
  IF ~White(s, o) THEN s
  ELSE IF kind[o] = "string" THEN Colour(s, o, "black")
  ELSE IF kind[o] = "userdata" THEN Mark(Colour(s, o, "black"), s.val[o])
  ELSE Link(Colour(s, o, "gray"), o, "gray")

MarkEach(s, list) == FoldLeft(Mark, s, list)

Unlinked(s) == [x \in DOMAIN s |-> IF x \in Lists THEN <<>> ELSE s[x]]

restartcollection(s) ==
  LET clean == [Unlinked(s) EXCEPT !.gcstate = "propagate", !.marked[Main] = "gray"]
  IN  MarkEach(Link(clean, Main, "gray"), s.tobefnz)

(* iscleared(): what may go out of a weak table; a string is marked for good.       *)
Cleared(s, o) == White(s, o) /\ kind[o] # "string"
MarkString(s, o) == IF o # None /\ o # Main /\ kind[o] = "string" THEN Mark(s, o) ELSE s

traverseweakvalue(s, t) ==
  LET keyed == Mark(s, s.key[t])
      seen == MarkString(keyed, s.val[t])
  IN  IF s.gcstate = "propagate" THEN Link(seen, t, "grayagain")
      ELSE IF Cleared(keyed, s.val[t]) THEN Link(seen, t, "weak")
      ELSE seen

(* What the result of traverseephemeron() says: a value is marked.              *)
Marks(s, t) == ~Cleared(s, s.key[t]) /\ White(s, s.val[t])

traverseephemeron(s, t) ==
  LET keyed == MarkString(s, s.key[t])
      seen == IF Marks(s, t) THEN Mark(keyed, s.val[t]) ELSE keyed
  IN  IF s.gcstate = "propagate" THEN Link(seen, t, "grayagain")
      ELSE IF ~Cleared(s, s.key[t]) THEN seen
      ELSE Link(seen, t, IF White(s, s.val[t]) THEN "ephemeron" ELSE "allweak")

traversetable(s, t) ==
  CASE kind[t] = "table" -> Mark(Mark(s, s.key[t]), s.val[t])
    [] kind[t] = "weakvalue" -> traverseweakvalue(Colour(s, t, "gray"), t)
    [] kind[t] = "ephemeron" -> traverseephemeron(Colour(s, t, "gray"), t)
    [] kind[t] = "allweak" -> Link(Colour(s, t, "gray"), t, "allweak")

propagatemark(s) ==
  LET o == Head(s.gray)
      taken == Colour([s EXCEPT !.gray = Tail(@)], o, "black")
  IN  IF o = Main
      THEN MarkEach(Link(Colour(taken, Main, "gray"), Main, "grayagain"), SetToSeq(stack))
      ELSE IF kind[o] = "closure" THEN Mark(taken, s.val[o])
      ELSE traversetable(taken, o)

RECURSIVE propagateall(_)
propagateall(s) == IF s.gray = <<>> THEN s ELSE propagateall(propagatemark(s))

RECURSIVE convergeephemerons(_)
convergeephemerons(s) ==
  LET Visit(r, t) ==
        [s |-> IF Marks(r.s, t) THEN propagateall(traverseephemeron(r.s, t))
               ELSE traverseephemeron(r.s, t),
         changed |-> r.changed \/ Marks(r.s, t)]
      pass == FoldLeft(Visit, [s |-> [s EXCEPT !.ephemeron = <<>>], changed |-> FALSE],
                       s.ephemeron)
  IN  IF pass.changed THEN convergeephemerons(pass.s) ELSE pass.s

Clear(s, t, o) ==
  IF Cleared(s, o) THEN [s EXCEPT !.key[t] = None, !.val[t] = None] ELSE MarkString(s, o)
clearkeys(s, list) == FoldLeft(LAMBDA r, t : Clear(r, t, r.key[t]), s, list)
clearvalues(s, list) == FoldLeft(LAMBDA r, t : Clear(r, t, r.val[t]), s, list)

separatetobefnz(s) ==
  LET Unmarked(o) == White(s, o)
      Marked(o) == ~White(s, o)
  IN  [s EXCEPT !.finobj = SelectSeq(@, Marked),
                !.tobefnz = @ \o SelectSeq(s.finobj, Unmarked)]

(* What atomic() does, once a cycle, with the program held: what is strongly accessible    *)
(* is marked, lists of objects to visit again included;                            *)
MarkAgain(s, again) ==
  propagateall([propagateall([s EXCEPT !.gcstate = "insideatomic"]) EXCEPT !.gray = again])
MarkStrong(s) == convergeephemerons(MarkAgain(s, s.grayagain))

(* then weak values go, then what the finalizers to be called need is marked as well,     *)
ClearWeakValues(s) == clearvalues(clearvalues(s, s.weak), s.allweak)
Resurrect(s) == convergeephemerons(propagateall(MarkEach(s, s.tobefnz)))

(* then weak keys go, and values of tables that were not yet in their lists before,        *)
ClearWeakKeys(s) == clearkeys(clearkeys(s, s.ephemeron), s.allweak)
ClearNewValues(s, weak, allweak) ==
  clearvalues(clearvalues(s, SubSeq(s.weak, 1, Len(s.weak) - Len(weak))),
              SubSeq(s.allweak, 1, Len(s.allweak) - Len(allweak)))

(* and the colour that was white becomes the colour of the dead.                         *)
FlipWhite(s) ==
  [s EXCEPT !.marked = [o \in DOMAIN @ |->
     CASE @[o] = "white" -> "otherwhite" [] @[o] = "otherwhite" -> "white" [] OTHER -> @[o]]]

ClearAll(s) ==
  FlipWhite(ClearNewValues(ClearWeakKeys(Resurrect(separatetobefnz(ClearWeakValues(s)))),
                           s.weak, s.allweak))
atomic(s) == ClearAll(MarkStrong(propagateall(s)))

-----------------------------------------------------------------------------
(* Sweeping.  sweepgc points to the next field of an object, or to the head of a list; *)
(* what it reaches is the rest of whatever list the object is in by then.          *)

Swept(s) == IF s.sweepgc = Header THEN SweptList[s.gcstate]
            ELSE CHOOSE list \in {"allgc", "finobj", "tobefnz"} : Contains(s[list], s.sweepgc)
Place(s) == IF s.sweepgc = Header THEN 1
            ELSE 1 + CHOOSE i \in DOMAIN s[Swept(s)] : s[Swept(s)][i] = s.sweepgc

(* Mutant: what has lived through a cycle is not white for the next.                       *)
Unpainted(s) ==
  LET curr == s[Swept(s)][Place(s)]
  IN  [s EXCEPT !.sweepgc = curr]

SweepElement(s) ==
  LET curr == s[Swept(s)][Place(s)]
  IN  IF Dead(s, curr)
      THEN [Colour(s, curr, "free") EXCEPT ![Swept(s)] = RemoveAt(@, Place(s)),
                                           !.key[curr] = None, !.val[curr] = None]
      ELSE [Colour(s, curr, "white") EXCEPT !.sweepgc = curr]

RECURSIVE sweeplist(_, _)
sweeplist(s, count) ==
  IF Place(s) > Len(s[Swept(s)]) THEN [s EXCEPT !.sweepgc = None]
  ELSE IF count = 0 THEN s
  ELSE sweeplist(SweepElement(s), count - 1)

RECURSIVE sweeptolive(_)
sweeptolive(s) ==
  LET on == sweeplist(s, 1)
  IN  IF on.sweepgc = s.sweepgc THEN sweeptolive(on) ELSE on

(* The gray lists have no meaning from here to restartcollection(), which resets them.     *)
entersweep(s) ==
  sweeptolive([Unlinked(s) EXCEPT !.gcstate = "swpallgc", !.sweepgc = Header])

sweepstep(s, nextstate) ==
  LET on == IF s.sweepgc = None THEN s ELSE sweeplist(s, SweepMax)
  IN  IF on.sweepgc # None THEN on
      ELSE [on EXCEPT !.gcstate = nextstate,
                      !.sweepgc = IF nextstate = "swpend" THEN None ELSE Header]

(* One step; in GCScallfin, with no finalizer to call.                          *)
singlestep(s) ==
  CASE s.gcstate = "pause" -> restartcollection(s)
    [] s.gcstate = "propagate" ->
         LET on == propagatemark(s)
         IN  IF on.gray = <<>> THEN [on EXCEPT !.gcstate = "atomic"] ELSE on
    [] s.gcstate = "atomic" -> entersweep(atomic(s))
    [] s.gcstate = "swpallgc" -> sweepstep(s, "swpfinobj")
    [] s.gcstate = "swpfinobj" -> sweepstep(s, "swptobefnz")
    [] s.gcstate = "swptobefnz" -> sweepstep(s, "swpend")
    [] s.gcstate = "swpend" ->
         [Colour(s, Main, "white") EXCEPT !.gcstate = "callfin"]
    [] s.gcstate = "callfin" -> [s EXCEPT !.gcstate = "pause"]

RECURSIVE luaC_runtilstate(_, _)
luaC_runtilstate(s, states) ==
  IF s.gcstate \in states THEN s ELSE luaC_runtilstate(singlestep(s), states)

(* What luaC_fullgc() does: if there may be black objects, sweep them back to white first, *)
(* which takes none; finish what is pending; then a cycle up to its finalizers.      *)
Collected(s) ==
  luaC_runtilstate(
    singlestep(luaC_runtilstate(IF keepinvariant(s) THEN entersweep(s) ELSE s, {"pause"})),
    {"callfin"})

-----------------------------------------------------------------------------
(* The API: what it does to objects, and its barriers.                         *)

Init ==
  /\ kind \in Heaps
  /\ stack = {}
  /\ h = [gcstate |-> "pause", sweepgc |-> None,
          marked |-> [o \in Objects |-> "free"] @@ (Main :> "white"),
          key |-> [o \in Objects |-> None], val |-> [o \in Objects |-> None],
          allgc |-> <<>>, finobj |-> <<>>, tobefnz |-> <<>>,
          gray |-> <<>>, grayagain |-> <<>>,
          weak |-> <<>>, ephemeron |-> <<>>, allweak |-> <<>>]

Push(o) == stack' = stack \cup {o} /\ UNCHANGED kind

(* luaC_newobj()                                                             *)
New(o) ==
  /\ h.marked[o] = "free"
  /\ h' = Link(Colour(h, o, "white"), o, "allgc")
  /\ Push(o)

(* Mutant: a string found dead in the string table is handed out as it is.          *)
InternDead(o) ==
  /\ kind[o] = "string" /\ h.marked[o] # "free"
  /\ Push(o) /\ UNCHANGED h

(* internshrstr(): a short string that is there, dead or not, is used again.       *)
Intern(o) ==
  /\ kind[o] = "string" /\ h.marked[o] # "free"
  /\ h' = IF Dead(h, o) THEN Colour(h, o, "white") ELSE h
  /\ Push(o)

Load(o, r) ==
  /\ o \in stack /\ r \in {h.key[o], h.val[o]} \ {None}
  /\ Push(r) /\ UNCHANGED h

Pop(o) ==
  /\ o \in stack
  /\ stack' = stack \ {o} /\ UNCHANGED <<kind, h>>

(* Mutant: no barrier: the collector is not told of a reference stored in a black table.        *)
NoBarrier(s, t, r) == s

(* luaC_barrierback() for the key (luaH_newkey()) and for the value.             *)
barrierback(s, t, r) ==
  IF ~White(s, r) \/ s.marked[t] # "black" THEN s
  ELSE IF keepinvariant(s) THEN Link(Colour(s, t, "gray"), t, "grayagain")
  ELSE Colour(s, t, "gray")

SetTable(t, k, v) ==
  /\ kind[t] \in Tables
  /\ {t, k, v} \subseteq stack \cup {None}
  /\ h' = LET stored == [h EXCEPT !.key[t] = k, !.val[t] = v]
          IN  barrierback(barrierback(stored, t, k), t, v)
  /\ UNCHANGED <<kind, stack>>

(* luaC_barrier_(): mark the new referent or, when sweeping, sweep the object.      *)
barrier(s, o, r) ==
  IF ~White(s, r) \/ s.marked[o] # "black" THEN s
  ELSE IF keepinvariant(s) THEN Mark(s, r)
  ELSE Colour(s, o, "white")

SetReferent(o, v) ==
  /\ kind[o] \in {"closure", "userdata"}
  /\ {o, v} \subseteq stack \cup {None}
  /\ h' = barrier([h EXCEPT !.val[o] = v], o, v)
  /\ UNCHANGED <<kind, stack>>

(* lua_setmetatable() with a __gc: luaC_checkfinalizer() takes the object out of      *)
(* allgc, and the sweep must not be standing on it.                            *)
SetFinalizer(o) ==
  /\ o \in stack /\ kind[o] = "userdata" /\ Contains(h.allgc, o)
  /\ h' = LET swept == IF issweepphase(h) THEN Colour(h, o, "white") ELSE h
              on == IF h.sweepgc = o THEN sweeptolive(swept) ELSE swept
          IN  Link([on EXCEPT !.allgc = SelectSeq(@, LAMBDA x : x # o)], o, "finobj")
  /\ UNCHANGED <<kind, stack>>

Program ==
  \/ \E o \in Objects : New(o) \/ Intern(o) \/ Pop(o) \/ SetFinalizer(o)
  \/ \E o, r \in Objects : Load(o, r)
  \/ \E t \in Objects, k, v \in Objects \cup {None} : SetTable(t, k, v)
  \/ \E o \in Objects, v \in Objects \cup {None} : SetReferent(o, v)

-----------------------------------------------------------------------------
(* The collector, from luaC_step() and luaC_fullgc().                           *)

Step ==
  /\ h.gcstate = "callfin" => h.tobefnz = <<>>
  /\ h' = singlestep(h)
  /\ UNCHANGED <<kind, stack>>

(* udata2finalize(): the object is an ordinary one again; its finalizer gets it.     *)
Ordinary(s) ==
  LET o == Head(s.tobefnz)
      back == Link([s EXCEPT !.tobefnz = Tail(@)], o, "allgc")
  IN  IF issweepphase(s) THEN Colour(back, o, "white") ELSE back

(* GCTM(), from runafewfinalizers(): at the end of any step that does not end the      *)
(* cycle.                                                                   *)
CallFinalizer ==
  /\ h.gcstate # "pause" /\ h.tobefnz # <<>>
  /\ h' = Ordinary(h)
  /\ Push(Head(h.tobefnz))

(* luaC_fullgc(): at once, but for its finalizers, which CallFinalizer calls then; when it *)
(* is malloc that has failed, they are left to later steps and the cycle ends.        *)
FullGC ==
  /\ \E found \in {Collected(h)} :
       \/ h.tobefnz = <<>> /\ h' = found
       \/ h' = singlestep(found)
  /\ UNCHANGED <<kind, stack>>

Next == Program \/ Step \/ CallFinalizer \/ FullGC

Spec == Init /\ [][Next]_vars
(* A step of the collector comes with every few allocations, and one of these is always   *)
(* enabled: this is their weak fairness.                                        *)
FairSpec == Spec /\ []<><<Step \/ CallFinalizer>>_vars

-----------------------------------------------------------------------------
(* Properties.                                                               *)

Owned == h.allgc \o h.finobj \o h.tobefnz

(* The fields have their types; an object is in one of the three lists of objects,      *)
(* once, and is one that has not been freed.                                    *)
TypeOK ==
  /\ kind \in Heaps /\ stack \subseteq Objects
  /\ h.gcstate \in {"pause", "propagate", "atomic", "swpallgc", "swpfinobj",
                    "swptobefnz", "swpend", "callfin"}
  /\ h.sweepgc \in Objects \cup {None, Header}
  /\ h.marked \in [Objects \cup {Main} -> Whites \cup {"gray", "black", "free"}]
  /\ {h.key, h.val} \subseteq [Objects -> Objects \cup {None}]
  /\ \A list \in Lists : h[list] \in Seq(Objects \cup {Main})
  /\ IsInjective(Owned) /\ ToSet(Owned) = {o \in Objects : h.marked[o] # "free"}

(* lgc.h, "The main invariant of the garbage collector, while marking objects, is that    *)
(* a black object can never point to a white one."                              *)
BlackNeverPointsToWhite ==
  keepinvariant(h) =>
    \A o \in Objects : h.marked[o] = "black" => ~White(h, h.key[o]) /\ ~White(h, h.val[o])

(* lgc.h, "any gray object must be in a gray list so that it can be visited again         *)
(* before finishing the collection cycle": and in one of them only, once, for its one    *)
(* gclist field.                                                             *)
GrayListed ==
  keepinvariant(h) =>
    \A o \in Objects \cup {Main} :
      h.marked[o] = "gray" =>
        Cardinality({<<list, i>> \in Lists \X (1..Cardinality(Objects) + 1) :
                       i \in DOMAIN h[list] /\ h[list][i] = o}) = 1

(* Both, after every step of the program and of the collector.                      *)
MarkingKept == BlackNeverPointsToWhite /\ GrayListed

Managed == INSTANCE ManagedHeap WITH
  key <- h.key, val <- h.val,
  used <- {o \in Objects : h.marked[o] # "free"},
  armed <- ToSet(h.finobj) \cup ToSet(h.tobefnz),
  due <- ToSet(h.tobefnz)

(* The collector keeps the promise of ManagedHeap: no object goes that the program or a   *)
(* finalizer can still get at, no weak entry whose object is strongly reachable, no      *)
(* object with a finalizer before the finalizer has had it; and once an object is queued *)
(* for its finalizer the program finds it in no table as a weak value.             *)
KeepsPromise == Managed!Spec

(* What the program cannot get at any more, and no finalizer will, is freed: a step of the *)
(* collector comes with every few allocations.                                  *)
GarbageFreed ==
  \A o \in Objects :
    []<>(h.marked[o] = "free"
         \/ o \in Managed!Readable(stack \cup ToSet(h.finobj) \cup ToSet(h.tobefnz)))
=============================================================================
