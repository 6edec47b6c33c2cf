---------------------------- MODULE ManagedHeap ----------------------------
(***************************************************************************)
(* What a Lua program is promised about memory: an object stays as long as the   *)
(* program can get at it, a weak reference as long as its object is strongly    *)
(* reachable, and an object with a finalizer until the finalizer has been run.   *)
(* Collection takes, at any time and all at once, any part of the rest.          *)
(* LuaCollector shows that the collector of 3rd/lua/lgc.c keeps the promise.      *)
(***************************************************************************)
EXTENDS Naturals, FiniteSets

CONSTANTS
  Objects, None,     (* the places objects may have, and no object             *)
  Heaps              (* what kinds of object there may be: [Objects -> Kinds]   *)

Weak == {"weakvalue", "ephemeron", "allweak"}     \* __mode "v", "k", "kv"
Tables == {"table"} \cup Weak
Holders == {"closure", "userdata"}                \* an upvalue, a user value
Kinds == Tables \cup Holders \cup {"string"}
VARIABLES
  kind,              \* what an object at this place is
  key, val,          \* the entry of a table; val alone: upvalue, user value
  stack,             \* the objects the running program has in its hands
  used,              \* the objects there are
  armed,             \* of these, the ones whose finalizer is to be called
  due                \* of these, the ones found unreachable: theirs is next

vars == <<kind, key, val, stack, used, armed, due>>

Referents(o) == {key[o], val[o]} \ {None}

RECURSIVE Readable(_)
(* All that can be got at from `from', weak references included.              *)
Readable(from) ==
  LET more == from \cup UNION {Referents(o) : o \in from}
  IN  IF more = from THEN from ELSE Readable(more)

(* The referents of o that o keeps, when all of `kept' is kept: strings are values, *)
(* an ephemeron keeps its value as long as something else keeps its key.         *)
Keeps(o, kept) ==
  {r \in Referents(o) :
     \/ kind[r] = "string"
     \/ kind[o] \notin Weak
     \/ kind[o] = "weakvalue" /\ r = key[o]
     \/ kind[o] = "ephemeron" /\ r = val[o] /\ key[o] \in kept \cup {None}}

RECURSIVE Strong(_)
Strong(from) ==
  LET more == from \cup UNION {Keeps(o, from) : o \in from}
  IN  IF more = from THEN from ELSE Strong(more)

Init ==
  /\ kind \in Heaps
  /\ key = [o \in Objects |-> None] /\ val = key
  /\ stack = {} /\ used = {} /\ armed = {} /\ due = {}

(* The program.                                                              *)
New(o) ==
  /\ o \notin used
  /\ used' = used \cup {o} /\ stack' = stack \cup {o}
  /\ UNCHANGED <<kind, key, val, armed, due>>

Load(o, r) ==
  /\ o \in stack /\ r \in Referents(o)
  /\ stack' = stack \cup {r}
  /\ UNCHANGED <<kind, key, val, used, armed, due>>

Intern(o) ==
  /\ o \in used /\ kind[o] = "string"
  /\ stack' = stack \cup {o}
  /\ UNCHANGED <<kind, key, val, used, armed, due>>

Pop(o) ==
  /\ stack' = stack \ {o}
  /\ UNCHANGED <<kind, key, val, used, armed, due>>

Store(o, k, v) ==
  /\ o \in stack /\ {k, v} \subseteq stack \cup {None}
  /\ kind[o] # "string" /\ (kind[o] \in Holders => k = None)
  /\ key' = [key EXCEPT ![o] = k] /\ val' = [val EXCEPT ![o] = v]
  /\ UNCHANGED <<kind, stack, used, armed, due>>

(* Objects that cannot be got at, from anywhere, go (with Arm, since setting a      *)
(* finalizer may take the sweep a step further).                              *)
Gone == used \ used'
Unreadable == Gone \cap Readable(stack \cup armed \cup due) = {}

Arm(o) ==
  /\ o \in stack /\ armed' = armed \cup {o}
  /\ \E gone \in SUBSET used : used' = used \ gone
  /\ key' = [x \in Objects |-> IF x \in Gone THEN None ELSE key[x]]
  /\ val' = [x \in Objects |-> IF x \in Gone THEN None ELSE val[x]]
  /\ Unreadable
  /\ UNCHANGED <<kind, stack, due>>

RunFinalizer(o) ==
  /\ o \in due
  /\ due' = due \ {o} /\ armed' = armed \ {o} /\ stack' = stack \cup {o}
  /\ UNCHANGED <<kind, key, val, used>>

(* Finalizers become due, of unreachable objects only.  Entries of weak tables go,   *)
(* where the value is not strongly reachable, or the key not even from the         *)
(* objects whose finalizer is due; in a table the program can reach, the ones with   *)
(* a value whose finalizer has become due all go.                              *)
Reclaim ==
  /\ \E more \in SUBSET (armed \ (due \cup Strong(stack \cup due))) : due' = due \cup more
  /\ \E gone \in SUBSET used : used' = used \ gone
  /\ \E cut \in SUBSET {t \in used : kind[t] \in Weak} :
       /\ key' = [x \in Objects |-> IF x \in cut \cup Gone THEN None ELSE key[x]]
       /\ val' = [x \in Objects |-> IF x \in cut \cup Gone THEN None ELSE val[x]]
       /\ \A t \in cut \ Gone :
            \/ kind[t] # "ephemeron" /\ val[t] \notin Strong(stack \cup due) \cup {None}
            \/ kind[t] # "weakvalue" /\ key[t] \notin Strong(stack \cup due') \cup {None}
  /\ \A t \in Strong(stack \cup due) :
       kind[t] \in {"weakvalue", "allweak"} => val'[t] \notin due' \ due
  /\ Gone \cap (Readable(stack \cup armed))' = {}
  /\ UNCHANGED <<kind, stack, armed>>

Next ==
  \/ \E o \in Objects :
       New(o) \/ Intern(o) \/ Pop(o) \/ Arm(o) \/ RunFinalizer(o)
  \/ \E o, r \in Objects : Load(o, r)
  \/ \E o \in Objects, k, v \in Objects \cup {None} : Store(o, k, v)
  \/ Reclaim

Spec == Init /\ [][Next]_vars
=============================================================================
