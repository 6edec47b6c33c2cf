----------------------------- MODULE Dictionary -----------------------------
(***************************************************************************)
(* What Lua promises of a table: a map from keys to values, in which an absent key  *)
(* has the value nil, and a traversal that gives every key there is exactly once, in  *)
(* some order, though existing entries are changed or removed meanwhile.  Of a table *)
(* that gets new entries during a traversal nothing is promised.                  *)
(***************************************************************************)
CONSTANTS
  Keys, Values, Nil,
  Groups      (* sets of keys that may be assigned together                       *)

VARIABLES
  content,    \* the value of every key
  cursor,     \* the last key that the traversal gave, Nil if there is none going on
  seen        \* the keys it has given

Init == content = [k \in Keys |-> Nil] /\ cursor = Nil /\ seen = {}

Present == {k \in Keys : content[k] # Nil}

(* A value for a key, or for every key of the list in a constructor.               *)
Assign(ks, v) ==
  /\ cursor # Nil => ks \subseteq Present
  /\ content' = [k \in Keys |-> IF k \in ks THEN v ELSE content[k]]
  /\ UNCHANGED <<cursor, seen>>

Visit(k) ==
  /\ k \in Present \ seen
  /\ cursor' = k /\ seen' = seen \cup {k}
  /\ UNCHANGED content

(* The traversal ends by itself when nothing is left; the program may break off.   *)
Finish == Present \subseteq seen /\ cursor' = Nil /\ seen' = {} /\ UNCHANGED content
Break == cursor # Nil /\ cursor' = Nil /\ seen' = {} /\ UNCHANGED content

Next ==
  \/ \E ks \in Groups, v \in Values \cup {Nil} : Assign(ks, v)
  \/ \E k \in Keys : Visit(k)
  \/ Finish \/ Break

Spec == Init /\ [][Next]_<<content, cursor, seen>>
=============================================================================
