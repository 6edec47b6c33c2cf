------------------------------ MODULE AsyncLog ------------------------------
(***************************************************************************)
(* What the asynchronous logger promises its callers, with no buffers, no    *)
(* lists and no threads: records are numbered as they are accepted, and      *)
(* leave in runs, each written behind the file or dropped.                    *)
(***************************************************************************)
EXTENDS Naturals, Sequences

VARIABLES
  accepted,   \* how many records were accepted: their numbers are 1..accepted
  file,       \* the records written, in the order they were written
  dropped     \* the records given up

logVars == <<accepted, file, dropped>>

Pending == (1..accepted) \ ({file[i] : i \in 1..Len(file)} \cup dropped)

Init == accepted = 0 /\ file = <<>> /\ dropped = {}

Accept ==
  /\ accepted' = accepted + 1
  /\ UNCHANGED <<file, dropped>>

(* The oldest pending records, lo + 1 to hi, are written in order.           *)
Write(lo, hi) ==
  /\ lo < hi
  /\ (lo + 1)..hi \subseteq Pending
  /\ \A r \in Pending : lo < r
  /\ file' = file \o [i \in 1..(hi - lo) |-> lo + i]
  /\ UNCHANGED <<accepted, dropped>>

(* A run of pending records is given up, but never the oldest pending one:    *)
(* the first buffers of a batch are kept.                                     *)
Drop(lo, hi) ==
  /\ lo < hi
  /\ (lo + 1)..hi \subseteq Pending
  /\ \E r \in Pending : r <= lo
  /\ dropped' = dropped \cup ((lo + 1)..hi)
  /\ UNCHANGED <<accepted, file>>

Next ==
  \/ Accept
  \/ \E lo, hi \in 0..accepted : Write(lo, hi) \/ Drop(lo, hi)

Spec == Init /\ [][Next]_logVars

=============================================================================
