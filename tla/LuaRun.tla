------------------------------- MODULE LuaRun -------------------------------
(***************************************************************************)
(* What running a program promises: it prints, in this order, what its meaning prints,    *)
(* and ends as its meaning ends, whatever it is compiled to.                              *)
(***************************************************************************)
EXTENDS Naturals, Sequences

CONSTANT Means      (* of each program, what it prints and how it ends                    *)

VARIABLES program, out, outcome
vars == <<program, out, outcome>>

Init == program \in DOMAIN Means /\ out = <<>> /\ outcome = "running"

Output ==
  /\ outcome = "running"
  /\ Len(out) < Len(Means[program].out)
  /\ out' = Append(out, Means[program].out[Len(out) + 1])
  /\ UNCHANGED <<program, outcome>>

End ==
  /\ outcome = "running"
  /\ out = Means[program].out
  /\ outcome' = Means[program].outcome
  /\ UNCHANGED <<program, out>>

Next == Output \/ End

Spec == Init /\ [][Next]_vars /\ WF_vars(Next)
=============================================================================
