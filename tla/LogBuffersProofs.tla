-------------------------- MODULE LogBuffersProofs --------------------------
(***************************************************************************)
(* The inductive invariant of LogBuffers, and what follows from it, for      *)
(* every heap, allocator, buffer capacity, record length, drop limit and     *)
(* number of records.                                                        *)
(***************************************************************************)
EXTENDS LogBuffers, SequenceTheorems, TLAPS

-----------------------------------------------------------------------------
(* Sequences of cells and the chains the next fields form along them.        *)

(* The cells of a sequence of buffers are cells, Null not among them.        *)
LEMMA CellsOfSeq ==
  ASSUME NEW s \in Seq(Buf)
  PROVE  /\ CellsOf(s) \subseteq Buf
         /\ \A i \in 1..Len(s) : s[i] \in CellsOf(s)
         /\ Null \notin CellsOf(s)
  BY LogAssumption DEF CellsOf

(* An empty list has no cells.                                               *)
LEMMA CellsOfEmpty == CellsOf(<<>>) = {}
  BY DEF CellsOf

(* Appending a buffer adds its cell.                                         *)
LEMMA CellsOfAppend ==
  ASSUME NEW s \in Seq(Buf), NEW b \in Buf
  PROVE  CellsOf(Append(s, b)) = CellsOf(s) \cup {b}
  BY DEF CellsOf

(* Length, first and last element of a list with a buffer appended.          *)
LEMMA AppendFacts ==
  ASSUME NEW s \in Seq(Buf), NEW b \in Buf
  PROVE  /\ Append(s, b) \in Seq(Buf) /\ Append(s, b) # <<>>
         /\ Len(Append(s, b)) = Len(s) + 1 /\ Len(s) \in Nat
         /\ Append(s, b)[Len(s) + 1] = b
         /\ Append(s, b)[1] = IF s = <<>> THEN b ELSE s[1]
  <1> DEFINE t == Append(s, b)
  <1>1. /\ t \in Seq(Buf) /\ Len(t) = Len(s) + 1 /\ t[Len(s) + 1] = b
        /\ \A i \in 1..Len(s) : t[i] = s[i]
    BY AppendProperties
  <1> HIDE DEF t
  <1>2. Len(s) \in Nat /\ (s = <<>> <=> Len(s) = 0)
    BY EmptySeq
  <1>3. t # <<>>
    BY <1>1, <1>2, EmptySeq
  <1>4. CASE s = <<>> BY <1>1, <1>2, <1>3, <1>4 DEF t
  <1>5. CASE s # <<>>
    <2>1. 1 \in 1..Len(s) BY <1>2, <1>5
    <2> QED BY <1>1, <1>2, <1>3, <1>5, <2>1 DEF t
  <1> QED BY <1>4, <1>5

(* What a head pointer is: Null for the empty list, else its first cell.     *)
LEMMA FirstFacts ==
  ASSUME NEW s \in Seq(Buf)
  PROVE  /\ First(s) \in Ptr
         /\ First(s) = Null <=> s = <<>>
         /\ s # <<>> => First(s) = s[1] /\ s[1] \in Buf /\ s[1] \in CellsOf(s)
  <1>1. CASE s = <<>> BY <1>1 DEF First, Ptr
  <1>2. CASE s # <<>>
    <2>1. 1 \in 1..Len(s) BY <1>2, EmptySeq
    <2>2. s[1] \in Buf /\ s[1] \in CellsOf(s) BY <2>1, CellsOfSeq
    <2> QED BY <1>2, <2>2, LogAssumption DEF First, Ptr
  <1> QED BY <1>1, <1>2

(* A list of two buffers is its first and its second.                        *)
LEMMA LenTwo ==
  ASSUME NEW s \in Seq(Buf), Len(s) = 2
  PROVE  Len(s) >= 2
  OBVIOUS

(* The two buffers a cut batch keeps.                                        *)
LEMMA TwoFacts ==
  ASSUME NEW s \in Seq(Buf), Len(s) >= 2
  PROVE  s # <<>> /\ s[1] \in CellsOf(s) /\ s[2] \in CellsOf(s)
  <1>1. s # <<>> /\ 1 \in 1..Len(s) /\ 2 \in 1..Len(s) BY EmptySeq
  <1> QED BY <1>1, CellsOfSeq

(* A chain without its first cell is the chain that cell leads to.            *)
LEMMA ChainTail ==
  ASSUME NEW lk, NEW s \in Seq(Buf), s # <<>>, Chained(lk, s)
  PROVE  /\ Tail(s) \in Seq(Buf) /\ Len(Tail(s)) = Len(s) - 1
         /\ Chained(lk, Tail(s))
         /\ lk[s[1]] = First(Tail(s))
         /\ s[1] \in Buf /\ s[1] \notin CellsOf(Tail(s))
         /\ CellsOf(s) = {s[1]} \cup CellsOf(Tail(s))
  <1> DEFINE t == Tail(s)
  <1>1. /\ t \in Seq(Buf) /\ Len(t) = Len(s) - 1
        /\ \A i \in 1..Len(t) : t[i] = s[i + 1]
        /\ Len(s) \in Nat /\ Len(s) > 0
        /\ t = <<>> <=> Len(s) = 1
    <2>1. /\ t \in Seq(Buf) /\ Len(t) = Len(s) - 1
          /\ \A i \in 1..Len(t) : t[i] = s[i + 1]
      BY HeadTailProperties
    <2> HIDE DEF t
    <2>2. Len(s) \in Nat /\ Len(s) > 0
      BY EmptySeq
    <2>3. t = <<>> <=> Len(t) = 0
      BY <2>1, EmptySeq
    <2> QED BY <2>1, <2>2, <2>3
  <1> HIDE DEF t
  <1>2. Chained(lk, t)
    <2>1. ASSUME NEW i \in 1..Len(t) PROVE lk[t[i]] = IF i = Len(t) THEN Null ELSE t[i + 1]
      <3>1. i + 1 \in 1..Len(s) /\ t[i] = s[i + 1] BY <1>1
      <3>2. lk[s[i + 1]] = IF i + 1 = Len(s) THEN Null ELSE s[i + 1 + 1] BY <3>1 DEF Chained
      <3>3. i # Len(t) => i + 1 \in 1..Len(t) /\ t[i + 1] = s[i + 1 + 1] BY <1>1
      <3>4. i = Len(t) <=> i + 1 = Len(s) BY <1>1
      <3> QED BY <3>1, <3>2, <3>3, <3>4
    <2>2. ASSUME NEW i \in 1..Len(t), NEW j \in 1..Len(t), t[i] = t[j] PROVE i = j
      <3>1. i + 1 \in 1..Len(s) /\ j + 1 \in 1..Len(s) /\ s[i + 1] = s[j + 1] BY <1>1, <2>2
      <3>2. i + 1 = j + 1 BY <3>1 DEF Chained
      <3> QED BY <3>2
    <2> QED BY <2>1, <2>2 DEF Chained
  <1>3. lk[s[1]] = First(t)
    <2>1. lk[s[1]] = IF 1 = Len(s) THEN Null ELSE s[1 + 1] BY <1>1 DEF Chained
    <2>2. Len(s) # 1 => t # <<>> /\ t[1] = s[1 + 1] BY <1>1
    <2> QED BY <1>1, <2>1, <2>2 DEF First
  <1>4. s[1] \in Buf /\ s[1] \notin CellsOf(t)
    <2>1. ASSUME NEW i \in 1..Len(t), s[1] = t[i] PROVE FALSE
      <3>1. i + 1 \in 1..Len(s) /\ 1 \in 1..Len(s) /\ s[1] = s[i + 1] BY <1>1, <2>1
      <3>2. i + 1 = 1 BY <3>1 DEF Chained
      <3> QED BY <3>2
    <2> QED BY <1>1, <2>1 DEF CellsOf
  <1>5. CellsOf(s) = {s[1]} \cup CellsOf(t)
    <2>1. ASSUME NEW i \in 1..Len(s) PROVE s[i] \in {s[1]} \cup CellsOf(t)
      <3>1. CASE i = 1 BY <3>1
      <3>2. CASE i # 1
        <4>1. i - 1 \in 1..Len(t) /\ t[i - 1] = s[i] BY <1>1, <3>2
        <4> QED BY <4>1 DEF CellsOf
      <3> QED BY <3>1, <3>2
    <2>2. {s[1]} \cup CellsOf(t) \subseteq CellsOf(s)
      BY <1>1 DEF CellsOf
    <2> QED BY <2>1, <2>2 DEF CellsOf
  <1> QED BY <1>1, <1>2, <1>3, <1>4, <1>5 DEF t

(* A chain depends on the next fields of its own cells only.                  *)
LEMMA ChainFrame ==
  ASSUME NEW lk, NEW lk2, NEW s \in Seq(Buf), Chained(lk, s),
         \A b \in CellsOf(s) : lk2[b] = lk[b]
  PROVE  Chained(lk2, s)
  BY DEF Chained, CellsOf

(* A buffer behind the last one makes the chain longer.                       *)
LEMMA ChainPush ==
  ASSUME NEW lk, NEW lk2, NEW s \in Seq(Buf), NEW c \in Buf, NEW b \in Buf,
         Chained(lk, Append(s, c)),
         b \notin CellsOf(s), b # c,
         lk2[c] = b, lk2[b] = Null,
         \A x \in CellsOf(s) : lk2[x] = lk[x]
  PROVE  Chained(lk2, Append(Append(s, c), b))
  <1> DEFINE t == Append(s, c)
             u == Append(t, b)
  <1>1. /\ t \in Seq(Buf) /\ Len(t) = Len(s) + 1 /\ Len(s) \in Nat
        /\ \A i \in 1..Len(s) : t[i] = s[i]
        /\ t[Len(s) + 1] = c
    OBVIOUS
  <1>2. /\ u \in Seq(Buf) /\ Len(u) = Len(s) + 2
        /\ \A i \in 1..Len(s) : u[i] = s[i]
        /\ u[Len(s) + 1] = c /\ u[Len(s) + 2] = b
    BY <1>1
  <1>3. ASSUME NEW i \in 1..Len(u)
        PROVE  lk2[u[i]] = IF i = Len(u) THEN Null ELSE u[i + 1]
    <2>1. CASE i \in 1..Len(s)
      <3>1. u[i] = s[i] /\ s[i] \in CellsOf(s) BY <2>1, <1>2, CellsOfSeq
      <3>2. lk[t[i]] = t[i + 1] BY <2>1, <1>1 DEF Chained
      <3>3. t[i + 1] = u[i + 1] BY <2>1, <1>1, <1>2
      <3> QED BY <3>1, <3>2, <3>3, <2>1, <1>1, <1>2
    <2>2. CASE i = Len(s) + 1 BY <2>2, <1>2
    <2>3. CASE i = Len(s) + 2 BY <2>3, <1>2
    <2> QED BY <2>1, <2>2, <2>3, <1>1, <1>2
  <1>4. ASSUME NEW i \in 1..Len(u), NEW j \in 1..Len(u), u[i] = u[j]
        PROVE  i = j
    <2>1. \A k \in 1..Len(s) : u[k] = t[k] /\ u[k] # b BY <1>1, <1>2 DEF CellsOf
    <2>2. \A k \in 1..Len(t) : u[k] = t[k] /\ u[k] # b BY <1>1, <1>2, <2>1
    <2>3. \A k, l \in 1..Len(t) : t[k] = t[l] => k = l BY DEF Chained
    <2> QED BY <2>2, <2>3, <1>1, <1>2, <1>4
  <1> QED BY <1>3, <1>4 DEF Chained

(* The first two cells of a chain, and the chain behind them.                 *)
LEMMA ChainCut ==
  ASSUME NEW lk, NEW s \in Seq(Buf), Len(s) >= 2, Chained(lk, s)
  PROVE  LET t == SubSeq(s, 1, 2)
             u == SubSeq(s, 3, Len(s))
         IN  /\ t \in Seq(Buf) /\ Len(t) = 2 /\ t[1] = s[1] /\ t[2] = s[2]
             /\ u \in Seq(Buf) /\ Chained(lk, u)
             /\ lk[s[1]] = s[2] /\ s[1] # s[2] /\ lk[s[2]] = First(u)
             /\ CellsOf(s) = CellsOf(t) \cup CellsOf(u)
             /\ CellsOf(t) \cap CellsOf(u) = {}
  <1> DEFINE t == SubSeq(s, 1, 2)
             u == SubSeq(s, 3, Len(s))
  <1>1. /\ t \in Seq(Buf) /\ Len(t) = 2 /\ t[1] = s[1] /\ t[2] = s[2]
        /\ Len(s) \in Nat
    OBVIOUS
  <1>2. /\ u \in Seq(Buf) /\ Len(u) = Len(s) - 2
        /\ \A i \in 1..Len(u) : u[i] = s[i + 2]
        /\ u = <<>> <=> Len(s) = 2
    <2>1. ASSUME NEW i \in 3..Len(s) PROVE s[i] \in Buf BY <1>1
    <2>2. u \in Seq(Buf)
      BY <1>1, <2>1, SubSeqProperties
    <2>3. Len(u) = IF 3 <= Len(s) THEN Len(s) - 3 + 1 ELSE 0
      BY <1>1, <2>1, SubSeqProperties
    <2>4. \A i \in 1..(Len(s) - 3 + 1) : u[i] = s[3 + i - 1]
      BY <1>1, <2>1, SubSeqProperties
    <2> HIDE DEF t, u
    <2>a. \A n \in Nat : n >= 2 => (IF 3 <= n THEN n - 3 + 1 ELSE 0) = n - 2
      OBVIOUS
    <2>5. Len(u) = Len(s) - 2
      BY <1>1, <2>3, <2>a
    <2>6. ASSUME NEW i \in 1..Len(u) PROVE u[i] = s[i + 2]
      <3>1. i \in 1..(Len(s) - 3 + 1) /\ 3 + i - 1 = i + 2 BY <1>1, <2>5
      <3> QED BY <3>1, <2>4
    <2>7. u = <<>> <=> Len(u) = 0 BY <2>2, EmptySeq
    <2> QED BY <1>1, <2>2, <2>5, <2>6, <2>7
  <1> HIDE DEF t, u
  <1>3. Chained(lk, u)
    <2>1. ASSUME NEW i \in 1..Len(u) PROVE lk[u[i]] = IF i = Len(u) THEN Null ELSE u[i + 1]
      <3>1. i + 2 \in 1..Len(s) /\ u[i] = s[i + 2] BY <1>1, <1>2
      <3>2. lk[s[i + 2]] = IF i + 2 = Len(s) THEN Null ELSE s[i + 2 + 1] BY <3>1 DEF Chained
      <3>3. i # Len(u) => i + 1 \in 1..Len(u) /\ u[i + 1] = s[i + 2 + 1] BY <1>1, <1>2
      <3>4. i = Len(u) <=> i + 2 = Len(s) BY <1>1, <1>2
      <3> QED BY <3>1, <3>2, <3>3, <3>4
    <2>2. ASSUME NEW i \in 1..Len(u), NEW j \in 1..Len(u), u[i] = u[j] PROVE i = j
      <3>1. i + 2 \in 1..Len(s) /\ j + 2 \in 1..Len(s) /\ s[i + 2] = s[j + 2] BY <1>1, <1>2, <2>2
      <3>2. i + 2 = j + 2 BY <3>1 DEF Chained
      <3> QED BY <3>2
    <2> QED BY <2>1, <2>2 DEF Chained
  <1>4. lk[s[1]] = s[2] /\ s[1] # s[2] /\ lk[s[2]] = First(u)
    <2>1. 1 \in 1..Len(s) /\ 2 \in 1..Len(s) /\ Len(s) # 1 BY <1>1
    <2>2. lk[s[1]] = s[2] /\ s[1] # s[2] BY <2>1 DEF Chained
    <2>3. lk[s[2]] = IF 2 = Len(s) THEN Null ELSE s[2 + 1] BY <2>1 DEF Chained
    <2>4. Len(s) # 2 => u # <<>> /\ u[1] = s[2 + 1] BY <1>1, <1>2
    <2> QED BY <2>2, <2>3, <2>4, <1>2 DEF First
  <1>5. CellsOf(t) = {s[1], s[2]}
    BY <1>1 DEF CellsOf
  <1>6. CellsOf(s) = CellsOf(t) \cup CellsOf(u)
    <2>1. ASSUME NEW i \in 1..Len(s) PROVE s[i] \in {s[1], s[2]} \cup CellsOf(u)
      <3>1. CASE i \in {1, 2} BY <3>1
      <3>2. CASE i > 2
        <4>1. i - 2 \in 1..Len(u) /\ u[i - 2] = s[i] BY <1>1, <1>2, <3>2
        <4> QED BY <4>1 DEF CellsOf
      <3> QED BY <3>1, <3>2
    <2>2. {s[1], s[2]} \cup CellsOf(u) \subseteq CellsOf(s)
      BY <1>1, <1>2 DEF CellsOf
    <2> QED BY <2>1, <2>2, <1>5 DEF CellsOf
  <1>7. CellsOf(t) \cap CellsOf(u) = {}
    BY <1>1, <1>2, <1>5 DEF CellsOf, Chained
  <1> QED BY <1>1, <1>2, <1>3, <1>4, <1>6, <1>7 DEF t, u

(* From a cell of a chain the next field leads to another one, or ends it.    *)
LEMMA ChainNext ==
  ASSUME NEW lk, NEW s \in Seq(Buf), Chained(lk, s), NEW b \in CellsOf(s)
  PROVE  lk[b] \in CellsOf(s) \cup {Null}
  <1>1. PICK i \in 1..Len(s) : b = s[i] BY DEF CellsOf
  <1>2. CASE i = Len(s) BY <1>1, <1>2 DEF Chained
  <1>3. CASE i # Len(s)
    <2>1. i + 1 \in 1..Len(s) /\ lk[b] = s[i + 1] BY <1>1, <1>3 DEF Chained
    <2> QED BY <2>1, CellsOfSeq
  <1> QED BY <1>2, <1>3

-----------------------------------------------------------------------------
(* An empty pointer list means an empty list of buffers. *)
LEMMA HeadNull == TypeOK /\ ListsLinked /\ head = Null => queue = <<>>
  <1> SUFFICES ASSUME TypeOK, ListsLinked, queue # <<>>
               PROVE  head # Null
    OBVIOUS
  <1>1. queue \in Seq(Buf) /\ head = queue[1]
    BY DEF TypeOK, ListsLinked
  <1>2. queue[1] \in Buf
    BY <1>1
  <1> QED BY <1>1, <1>2, LogAssumption

(* The steps that move a program counter or running only (log_exit, the      *)
(* test of running, the wait) keep the invariant.                            *)
LEMMA QuietSteps ==
  ASSUME IInv, Exit \/ Joined \/ Check \/ Lock \/ Timeout \/ Relock \/ EndWrite \/ UNCHANGED vars
  PROVE  IInv'
  <1> USE DEF heapVars, instVars, listVars, histVars, vars
  <1>0. TypeOK /\ ListsLinked /\ Separation /\ NoLeak /\ BufferBound /\ SpareReady
        /\ NoLostWakeup /\ ReserveFresh /\ WorkerAt
    BY DEF IInv
  <1>1. TypeOK' BY <1>0, ZenonT(30) DEF TypeOK, WorkerStates, Exit, Joined, Check, Lock, Timeout, Relock, EndWrite
  <1>2. UNCHANGED <<link, size, data, live, curr, next, head, tail, count, new1, new2, batch, cut, queue, wcount, whead, node>>
    BY DEF Exit, Joined, Check, Lock, Timeout, Relock, EndWrite
  <1>30. FrontCells' = FrontCells /\ WorkerCells' = WorkerCells
    BY <1>2 DEF FrontCells, WorkerCells
  <1>31. Separation' BY <1>0, <1>30 DEF Separation
  <1>32. NoLeak' BY <1>0, <1>2, <1>30 DEF NoLeak
  <1>33. BufferBound' BY <1>0, <1>2 DEF BufferBound
  <1>34. SpareReady' BY <1>0, <1>2 DEF SpareReady
  <1>35. ReserveFresh' BY <1>0, <1>2 DEF ReserveFresh, Fresh
  <1>4. ListsLinked' BY <1>0, <1>2 DEF ListsLinked, Exit, Joined, Check, Lock, Timeout, Relock, EndWrite, CellsOf
  <1>5. NoLostWakeup' BY <1>0, HeadNull, <1>2 DEF Exit, Joined, Check, Lock, MustWait, Timeout, Relock, EndWrite, NoLostWakeup
  <1>6. WorkerAt' BY <1>0, <1>2, ZenonT(30) DEF WorkerAt, Holding, First, CellsOf, Exit, Joined, Check, Lock, Timeout, Relock, EndWrite
  <1> QED BY <1>1, <1>31, <1>32, <1>33, <1>34, <1>35, <1>4, <1>5, <1>6 DEF IInv

-----------------------------------------------------------------------------
(* append(), whoever calls it: what it does to the lists and the heap.        *)

FrontLinked ==
  /\ Chained(link, Append(queue, curr))
  /\ count = Len(queue)
  /\ IF queue = <<>> THEN head = Null /\ tail = Null
                     ELSE head = queue[1] /\ tail = queue[Len(queue)]

(* append() with room in the current buffer keeps what the lists say.        *)
LEMMA AppendInPlace ==
  ASSUME IInv, NEW len \in Lens, AppendToCurrent(len), accepted' = accepted + 1,
         UNCHANGED <<listVars, batch, cut>>
  PROVE  /\ link' \in [Buf -> Ptr] /\ size' \in [Buf -> Nat] /\ data' \in [Buf -> Seq(Nat)]
         /\ live' \in SUBSET Buf /\ accepted' \in Nat
         /\ UNCHANGED <<link, curr, next, head, tail, count, queue>>
         /\ FrontLinked'
         /\ (Separation /\ NoLeak /\ BufferBound /\ SpareReady /\ ReserveFresh)'
  <1> USE DEF AppendToCurrent, instVars, listVars
  <1>0. TypeOK /\ ListsLinked /\ Separation /\ NoLeak /\ BufferBound /\ SpareReady /\ ReserveFresh
    BY DEF IInv
  <1>1. curr \in Buf /\ accepted \in Nat /\ len \in Nat
    BY <1>0, LogAssumption DEF TypeOK
  <1>2. link' \in [Buf -> Ptr] /\ size' \in [Buf -> Nat] /\ live' \in SUBSET Buf /\ accepted' \in Nat
    BY <1>0, <1>1 DEF TypeOK
  <1>3. data' \in [Buf -> Seq(Nat)]
    BY <1>0, <1>1 DEF TypeOK
  <1>4. UNCHANGED <<link, live, curr, next, head, tail, count, queue>>
    OBVIOUS
  <1>5. FrontLinked'
    BY <1>0, <1>4 DEF ListsLinked, FrontLinked
  <1>6. FrontCells' = FrontCells /\ WorkerCells' = WorkerCells
    BY <1>4 DEF FrontCells, WorkerCells
  <1>7. (Separation /\ NoLeak /\ SpareReady)'
    BY <1>0, <1>4, <1>6 DEF Separation, NoLeak, SpareReady
  <1>8. BufferBound'
    BY <1>0, <1>1, <1>4 DEF BufferBound, Fits, TypeOK
  <1>9. ReserveFresh'
    <2>0. curr \in FrontCells /\ curr # Null /\ curr # next
      BY <1>0, <1>1, LogAssumption DEF NoLeak, FrontCells
    <2>1. curr \notin {next, new1, new2}
      BY <1>0, <2>0 DEF Separation, WorkerCells
    <2>2. {next, new1, new2} \ {Null} \subseteq Buf
      BY <1>0 DEF TypeOK, Ptr
    <2> QED BY <1>0, <1>1, <1>4, <2>1, <2>2 DEF ReserveFresh, Fresh, TypeOK
  <1> QED BY <1>2, <1>3, <1>4, <1>5, <1>7, <1>8, <1>9

(* append() that pushes the current buffer and goes on in the spare, or in   *)
(* a new one, keeps what the lists say.                                      *)
LEMMA AppendSwitching ==
  ASSUME IInv, NEW len \in Lens, NEW b,
         (b = next /\ next # Null) \/ (next = Null /\ b \in Calloc(live)),
         PushCurrent(b, len), accepted' = accepted + 1,
         UNCHANGED <<listVars, batch, cut>>
  PROVE  /\ link' \in [Buf -> Ptr] /\ size' \in [Buf -> Nat] /\ data' \in [Buf -> Seq(Nat)]
         /\ live' \in SUBSET Buf /\ accepted' \in Nat
         /\ curr' \in Buf /\ next' \in Ptr /\ head' \in Ptr /\ tail' \in Ptr /\ count' \in Nat
         /\ queue' \in Seq(Buf)
         /\ \A c \in WorkerCells : link'[c] = link[c]
         /\ FrontLinked'
         /\ (Separation /\ NoLeak /\ BufferBound /\ SpareReady /\ ReserveFresh)'
  <1> USE DEF listVars
  <1>0. TypeOK /\ ListsLinked /\ Separation /\ NoLeak /\ BufferBound /\ SpareReady /\ ReserveFresh
    BY DEF IInv
  <1>1. /\ curr \in Buf /\ accepted \in Nat /\ len \in Nat /\ len < BufferCap /\ BufferCap \in Nat
        /\ queue \in Seq(Buf) /\ batch \in Seq(Buf) /\ cut \in Seq(Buf)
        /\ link \in [Buf -> Ptr] /\ size \in [Buf -> Nat] /\ data \in [Buf -> Seq(Nat)]
        /\ live \in SUBSET Buf /\ Null \notin Buf
    BY <1>0, LogAssumption DEF TypeOK
  <1>2. /\ b \in Buf /\ b # curr /\ b \notin CellsOf(queue) /\ b \notin WorkerCells
        /\ (next = Null => b \notin live)
        /\ (next # Null => b = next)
    <2>1. CASE b = next /\ next # Null
      BY <1>0, <1>1, <2>1 DEF TypeOK, Ptr, NoLeak, Separation, FrontCells
    <2>2. CASE next = Null /\ b \in Calloc(live)
      <3>1. b \in Buf \ live BY <1>1, <2>2, LogAssumption
      <3>2. curr \in live /\ CellsOf(queue) \subseteq live /\ WorkerCells \subseteq live
        BY <1>0, <1>1 DEF NoLeak, FrontCells
      <3> QED BY <2>2, <3>1, <3>2
    <2> QED BY <2>1, <2>2
  <1>3. /\ curr' = b /\ next' = Null /\ tail' = curr /\ count' = count + 1
        /\ queue' = Append(queue, curr) /\ live' = live \cup {b}
        /\ head' = (IF head = Null THEN curr ELSE head)
    BY DEF PushCurrent
  <1>4. /\ link'[curr] = b /\ link'[b] = Null
        /\ \A c \in CellsOf(queue) : link'[c] = link[c]
        /\ \A c \in WorkerCells : link'[c] = link[c]
        /\ link' \in [Buf -> Ptr]
    <2> DEFINE n == Len(queue)
    <2>1. ASSUME queue # <<>> PROVE tail \in CellsOf(queue) /\ tail \in Buf /\ link[tail] = curr
      <3> DEFINE t == Append(queue, curr)
      <3>1. /\ n \in 1..n /\ Len(t) = n + 1 /\ n \in 1..Len(t) /\ n # Len(t)
            /\ t[n] = queue[n] /\ t[n + 1] = curr /\ queue[n] \in Buf
        BY <1>1, <2>1
      <3>2. Chained(link, t) /\ tail = queue[n]
        BY <1>0, <2>1 DEF ListsLinked
      <3> HIDE DEF t, n
      <3>3. link[t[n]] = t[n + 1]
        BY <3>1, <3>2 DEF Chained
      <3> QED BY <3>1, <3>2, <3>3 DEF CellsOf, n
    <2>2. head = Null <=> queue = <<>>
      BY <1>0, HeadNull DEF ListsLinked
    <2>3. link' = [LinkAfterPush(b) EXCEPT ![b] = IF b = next THEN LinkAfterPush(b)[b] ELSE Null]
      BY DEF PushCurrent
    <2>4. LinkAfterPush(b) = [link EXCEPT ![curr] = b]
      <3>1. CASE queue = <<>> BY <2>2, <3>1 DEF LinkAfterPush
      <3>2. CASE queue # <<>>
        <4>1. [link EXCEPT ![tail] = curr] = link BY <1>1, <2>1, <3>2
        <4> QED BY <2>2, <3>2, <4>1 DEF LinkAfterPush
      <3> QED BY <3>1, <3>2
    <2>5. /\ link' \in [Buf -> Ptr] /\ link'[curr] = b
          /\ link'[b] = IF b = next THEN link[b] ELSE Null
          /\ \A c \in Buf \ {curr, b} : link'[c] = link[c]
      BY <1>1, <1>2, <2>3, <2>4 DEF Ptr
    <2>6. link'[b] = Null
      BY <1>0, <1>1, <1>2, <2>5 DEF ReserveFresh, Fresh
    <2>7. CellsOf(queue) \subseteq Buf \ {curr, b}
      BY <1>0, <1>1, <1>2, CellsOfSeq DEF NoLeak
    <2>8. WorkerCells \subseteq Buf \ {curr, b}
      BY <1>0, <1>1, <1>2 DEF NoLeak, Separation, FrontCells
    <2> QED BY <2>5, <2>6, <2>7, <2>8
  <1>5. queue' \in Seq(Buf) /\ curr' \in Buf /\ next' \in Ptr /\ head' \in Ptr /\ tail' \in Ptr /\ count' \in Nat
        /\ live' \in SUBSET Buf /\ accepted' \in Nat
    <2>1. Append(queue, curr) \in Seq(Buf) BY <1>1
    <2> QED BY <1>0, <1>1, <1>2, <1>3, <2>1 DEF TypeOK, Ptr
  <1>6. size' \in [Buf -> Nat] /\ data' \in [Buf -> Seq(Nat)]
    <2>1. \A n \in Seq(Nat) : Append(n, accepted + 1) \in Seq(Nat) BY <1>1
    <2>2. (IF b = next THEN data[b] ELSE <<>>) \in Seq(Nat) BY <1>1, <1>2
    <2>3. Append(IF b = next THEN data[b] ELSE <<>>, accepted + 1) \in Seq(Nat) BY <2>1, <2>2
    <2>4. (IF b = next THEN size[b] ELSE 0) + len \in Nat BY <1>1, <1>2
    <2> QED BY <1>1, <1>2, <2>3, <2>4 DEF PushCurrent
  <1>7. FrontLinked'
    <2>0. Chained(link, Append(queue, curr))
      BY <1>0 DEF ListsLinked
    <2>1. Chained(link', Append(Append(queue, curr), b))
      BY <2>0, <1>1, <1>2, <1>4, ChainPush
    <2>2. head' = queue'[1] /\ tail' = queue'[Len(queue')] /\ queue' # <<>> /\ count' = Len(queue')
      <3>1. /\ queue = <<>> => head = Null
            /\ queue # <<>> => head # Null /\ head = queue[1]
        BY <1>0, HeadNull DEF ListsLinked
      <3>2. /\ Append(queue, curr) # <<>> /\ Len(Append(queue, curr)) = Len(queue) + 1
            /\ Append(queue, curr)[Len(queue) + 1] = curr
            /\ Append(queue, curr)[1] = IF queue = <<>> THEN curr ELSE queue[1]
        BY <1>1, AppendFacts
      <3>4. count = Len(queue)
        BY <1>0 DEF ListsLinked
      <3> QED BY <1>3, <3>1, <3>2, <3>4
    <2> QED BY <1>3, <2>1, <2>2 DEF FrontLinked
  <1>8. CellsOf(queue') = CellsOf(queue) \cup {curr}
    BY <1>1, <1>3, CellsOfAppend
  <1>9. FrontCells' = FrontCells \cup {b} /\ WorkerCells' = WorkerCells
    BY <1>1, <1>2, <1>3, <1>8 DEF FrontCells, WorkerCells
  <1>10. Separation'
    BY <1>0, <1>2, <1>9 DEF Separation
  <1>11. NoLeak'
    BY <1>0, <1>1, <1>2, <1>3, <1>8, <1>9, CellsOfSeq DEF NoLeak
  <1>12. BufferBound'
    BY <1>0, <1>1, <1>2, <1>3 DEF BufferBound, ReserveFresh, Fresh, PushCurrent
  <1>13. SpareReady'
    <2>1. Append(queue, curr) # <<>> BY <1>1, AppendFacts
    <2> QED BY <1>3, <2>1 DEF SpareReady
  <1>14. ReserveFresh'
    <2>1. \A c \in {new1, new2} \ {Null} : c \in Buf \ {b} /\ c \in WorkerCells
      BY <1>0, <1>2 DEF WorkerCells, TypeOK, Ptr
    <2>2. \A c \in Buf \ {b} : size'[c] = size[c] /\ data'[c] = data[c]
      BY <1>1 DEF PushCurrent
    <2> QED BY <1>0, <1>3, <1>4, <2>1, <2>2 DEF ReserveFresh, Fresh
  <1> QED BY <1>3, <1>4, <1>5, <1>6, <1>7, <1>10, <1>11, <1>12, <1>13, <1>14

(* append(), whichever way it goes, keeps what the lists say.                *)
LEMMA AppendStep ==
  ASSUME IInv, NEW len \in Lens, append(len), UNCHANGED <<listVars, batch, cut>>
  PROVE  /\ link' \in [Buf -> Ptr] /\ size' \in [Buf -> Nat] /\ data' \in [Buf -> Seq(Nat)]
         /\ live' \in SUBSET Buf /\ accepted' \in Nat
         /\ curr' \in Buf /\ next' \in Ptr /\ head' \in Ptr /\ tail' \in Ptr /\ count' \in Nat
         /\ queue' \in Seq(Buf)
         /\ Fits(len) => queue' = queue
         /\ \A c \in WorkerCells : link'[c] = link[c]
         /\ FrontLinked'
         /\ (Separation /\ NoLeak /\ BufferBound /\ SpareReady /\ ReserveFresh)'
  <1>1. accepted' = accepted + 1 BY DEF append
  <1>2. CASE AppendToCurrent(len)
    <2>1. /\ curr \in Buf /\ next \in Ptr /\ head \in Ptr /\ tail \in Ptr /\ count \in Nat
          /\ queue \in Seq(Buf)
      BY DEF IInv, TypeOK
    <2> QED BY <1>1, <1>2, <2>1, AppendInPlace
  <1>3. CASE SwitchToSpare(len)
    BY <1>1, <1>3, AppendSwitching DEF SwitchToSpare
  <1>4. CASE SwitchToCalloc(len)
    BY <1>1, <1>4, AppendSwitching DEF SwitchToCalloc
  <1> QED BY <1>2, <1>3, <1>4 DEF append

(* The cells the worker's chains run through are the worker's.                *)
LEMMA WorkerChains ==
  ASSUME TypeOK
  PROVE  /\ CellsOf(batch) \subseteq WorkerCells /\ CellsOf(cut) \subseteq WorkerCells
         /\ batch # <<>> => batch[1] \in WorkerCells
  <1>1. batch \in Seq(Buf) BY DEF TypeOK
  <1>2. batch # <<>> => batch[1] \in CellsOf(batch)
    <2>1. batch # <<>> => 1 \in 1..Len(batch) BY <1>1, EmptySeq
    <2> QED BY <1>1, <2>1, CellsOfSeq
  <1> QED BY <1>2 DEF WorkerCells

(* The cut never empties the batch.                                          *)
LEMMA BatchKept == WorkerAt /\ wpc = "free dropped" => batch # <<>>
  <1>1. WorkerAt /\ wpc = "free dropped" => Len(batch) = 2 BY DEF WorkerAt
  <1>2. Len(batch) = 2 => batch # <<>> BY EmptySeq
  <1> QED BY <1>1, <1>2

(* Steps that leave the worker's cells and lists alone leave its chains alone.  *)
LEMMA WorkerFrame ==
  ASSUME IInv, \A c \in WorkerCells : link'[c] = link[c],
         UNCHANGED <<batch, cut, wcount>>, FrontLinked',
         (wpc' = "free dropped") <=> (wpc = "free dropped"),
         wpc' \in {"notice", "drop", "write", "recycle1", "recycle2"} =>
           wpc \in {"notice", "drop", "write", "recycle1", "recycle2"}
  PROVE  ListsLinked'
  <1>0. TypeOK /\ ListsLinked /\ WorkerAt BY DEF IInv
  <1>1. batch \in Seq(Buf) /\ cut \in Seq(Buf) BY <1>0 DEF TypeOK
  <1>2. Chained(link', cut')
    BY <1>0, <1>1, WorkerChains, ChainFrame DEF ListsLinked
  <1>3. wpc' # "free dropped" => Chained(link', batch')
    BY <1>0, <1>1, WorkerChains, ChainFrame DEF ListsLinked
  <1>4. wpc' = "free dropped" => link'[batch'[1]] = batch'[2] /\ batch'[1] # batch'[2]
    <2>1. wpc = "free dropped" => batch # <<>>
      BY <1>0, BatchKept
    <2>2. wpc = "free dropped" => link'[batch[1]] = link[batch[1]]
      BY <1>0, <2>1, WorkerChains
    <2> QED BY <1>0, <2>2 DEF ListsLinked
  <1>5. wpc' \in {"notice", "drop", "write", "recycle1", "recycle2"} => wcount' = Len(batch')
    BY <1>0 DEF ListsLinked
  <1> QED BY <1>2, <1>3, <1>4, <1>5 DEF ListsLinked, FrontLinked

(* ldebug() and the like keep the invariant.                                 *)
LEMMA LogStep ==
  ASSUME IInv, NEW len \in Lens, Log(len)
  PROVE  IInv'
  <1>0. TypeOK /\ NoLostWakeup /\ WorkerAt BY DEF IInv
  <1>1. /\ append(len) /\ UNCHANGED <<listVars, batch, cut>> /\ UNCHANGED mutex
        /\ UNCHANGED <<running, front, file, dropped, notices, wcount, node>>
        /\ wpc' = Signal(~Fits(len))
    BY DEF Log, listVars
  <1>2. wpc' = wpc \/ (wpc = "waiting" /\ wpc' = "woken")
    BY <1>1 DEF Signal
  <1>3. TypeOK'
    BY <1>0, <1>1, <1>2, AppendStep DEF TypeOK, WorkerStates, listVars
  <1>4. ListsLinked'
    BY <1>1, <1>2, AppendStep, WorkerFrame
  <1>5. (Separation /\ NoLeak /\ BufferBound /\ SpareReady /\ ReserveFresh)'
    BY <1>1, AppendStep
  <1>6. NoLostWakeup'
    BY <1>0, <1>1, AppendStep DEF NoLostWakeup, Signal
  <1>7. WorkerAt'
    <2>1. UNCHANGED <<mutex, new1, new2, whead, wcount, node, batch, cut>>
      BY <1>1 DEF listVars
    <2>2. CASE wpc' = wpc BY <1>0, <2>1, <2>2 DEF WorkerAt
    <2>3. CASE wpc = "waiting" /\ wpc' = "woken"
      BY <1>0, <2>1, <2>3 DEF WorkerAt, Holding
    <2> QED BY <1>2, <2>2, <2>3
  <1> QED BY <1>3, <1>4, <1>5, <1>6, <1>7 DEF IInv

(* The notice of a drop, appended by the worker, keeps the invariant.        *)
LEMMA NoticeStep ==
  ASSUME IInv, NEW len \in Lens, Notice(len)
  PROVE  IInv'
  <1>0. TypeOK /\ NoLostWakeup /\ WorkerAt BY DEF IInv
  <1>1. /\ append(len) /\ UNCHANGED <<listVars, batch, cut>> /\ UNCHANGED mutex
        /\ UNCHANGED <<running, front, file, dropped, wcount, node>>
        /\ notices' = notices \cup {accepted + 1}
        /\ wpc = "notice" /\ wpc' = "drop"
    BY DEF Notice, listVars
  <1>3. TypeOK'
    <2>1. notices' \in SUBSET Nat
      BY <1>0, <1>1 DEF TypeOK
    <2> QED BY <1>0, <1>1, <2>1, AppendStep DEF TypeOK, WorkerStates, listVars
  <1>4. ListsLinked'
    BY <1>1, AppendStep, WorkerFrame
  <1>5. (Separation /\ NoLeak /\ BufferBound /\ SpareReady /\ ReserveFresh)'
    BY <1>1, AppendStep
  <1>6. NoLostWakeup'
    BY <1>1 DEF NoLostWakeup
  <1>7. WorkerAt'
    BY <1>0, <1>1 DEF WorkerAt, Holding, listVars
  <1> QED BY <1>3, <1>4, <1>5, <1>6, <1>7 DEF IInv

-----------------------------------------------------------------------------
(* The worker's own steps.                                                    *)

(* The worker's first two buffers keep the invariant.                        *)
LEMMA StartStep ==
  ASSUME IInv, Start
  PROVE  IInv'
  <1>0. /\ TypeOK /\ ListsLinked /\ Separation /\ NoLeak /\ BufferBound /\ SpareReady
        /\ NoLostWakeup /\ ReserveFresh /\ WorkerAt
    BY DEF IInv
  <1>a. PICK a \in Calloc(live) : \E b \in Calloc(live \cup {a}) :
          /\ new1' = a /\ new2' = b
          /\ live' = live \cup {a, b}
          /\ link' = [link EXCEPT ![a] = Null, ![b] = Null]
          /\ size' = [size EXCEPT ![a] = 0, ![b] = 0]
          /\ data' = [data EXCEPT ![a] = <<>>, ![b] = <<>>]
    BY DEF Start
  <1>1. PICK b \in Calloc(live \cup {a}) :
          /\ new1' = a /\ new2' = b
          /\ live' = live \cup {a, b}
          /\ link' = [link EXCEPT ![a] = Null, ![b] = Null]
          /\ size' = [size EXCEPT ![a] = 0, ![b] = 0]
          /\ data' = [data EXCEPT ![a] = <<>>, ![b] = <<>>]
    BY <1>a
  <1>2. a \in Buf \ live /\ b \in Buf \ live /\ a # b /\ Null \notin Buf
    <2>1. a \in Buf \ live BY <1>0, LogAssumption DEF TypeOK
    <2>2. live \cup {a} \in SUBSET Buf BY <1>0, <2>1 DEF TypeOK
    <2> QED BY <2>1, <2>2, LogAssumption
  <1>3. /\ UNCHANGED <<curr, next, head, tail, count, queue, batch, cut, mutex, whead, wcount, node>>
        /\ UNCHANGED <<running, front, wtail, accepted, file, dropped, notices>>
        /\ wpc = "start" /\ wpc' = "top"
    BY DEF Start, instVars, histVars
  <1>4. batch = <<>> /\ cut = <<>> /\ new1 = Null /\ new2 = Null /\ WorkerCells = {}
    BY <1>0, <1>3, CellsOfEmpty DEF WorkerAt, Holding, WorkerCells
  <1>5. /\ link' \in [Buf -> Ptr] /\ size' \in [Buf -> Nat] /\ data' \in [Buf -> Seq(Nat)]
        /\ \A c \in Buf \ {a, b} : link'[c] = link[c] /\ size'[c] = size[c] /\ data'[c] = data[c]
        /\ Fresh(a)' /\ Fresh(b)'
    <2>1. link \in [Buf -> Ptr] /\ size \in [Buf -> Nat] /\ data \in [Buf -> Seq(Nat)] /\ Null \in Ptr
      BY <1>0 DEF TypeOK, Ptr
    <2>2. <<>> \in Seq(Nat) OBVIOUS
    <2>3. link' \in [Buf -> Ptr] /\ size' \in [Buf -> Nat]
      BY <1>1, <1>2, <2>1
    <2>4. data' \in [Buf -> Seq(Nat)]
      BY <1>1, <1>2, <2>1, <2>2
    <2>5. \A c \in Buf \ {a, b} : link'[c] = link[c] /\ size'[c] = size[c] /\ data'[c] = data[c]
      BY <1>1, <1>2, <2>1
    <2>6. Fresh(a)' /\ Fresh(b)'
      BY <1>1, <1>2, <2>1 DEF Fresh
    <2> QED BY <2>3, <2>4, <2>5, <2>6
  <1>6. TypeOK'
    BY <1>0, <1>1, <1>2, <1>3, <1>5, ZenonT(30) DEF TypeOK, WorkerStates, Ptr
  <1>7. CellsOf(queue) \cup {curr} \subseteq Buf \ {a, b} /\ next \notin {a, b}
    BY <1>0, <1>2 DEF NoLeak, FrontCells, TypeOK
  <1>8. Chained(link', Append(queue, curr))
    <2>1. queue \in Seq(Buf) /\ curr \in Buf BY <1>0 DEF TypeOK
    <2>2. /\ Append(queue, curr) \in Seq(Buf)
          /\ CellsOf(Append(queue, curr)) \subseteq Buf \ {a, b}
      BY <1>7, <2>1, AppendFacts, CellsOfAppend
    <2> QED BY <1>0, <1>5, <2>2, ChainFrame, ZenonT(30) DEF ListsLinked
  <1>9. Chained(link', <<>>)
    BY DEF Chained
  <1>10. ListsLinked'
    BY <1>0, <1>3, <1>4, <1>8, <1>9 DEF ListsLinked
  <1>11. FrontCells' = FrontCells /\ WorkerCells' = {a, b}
    BY <1>1, <1>2, <1>3, <1>4, CellsOfEmpty DEF FrontCells, WorkerCells
  <1>12. Separation' /\ NoLeak'
    BY <1>0, <1>1, <1>2, <1>3, <1>4, <1>11, CellsOfEmpty DEF Separation, NoLeak
  <1>13. BufferBound'
    <2>1. size'[a] < BufferCap /\ size'[b] < BufferCap
      BY <1>5, LogAssumption DEF Fresh
    <2>2. \A c \in live : c \in Buf \ {a, b} /\ size[c] < BufferCap
      BY <1>0, <1>2 DEF BufferBound, TypeOK
    <2> QED BY <1>1, <1>5, <2>1, <2>2 DEF BufferBound
  <1>14. SpareReady' /\ NoLostWakeup'
    BY <1>0, <1>3 DEF SpareReady, NoLostWakeup
  <1>15. ReserveFresh'
    BY <1>0, <1>1, <1>3, <1>5, <1>7 DEF ReserveFresh, Fresh, TypeOK, Ptr
  <1>16. WorkerAt'
    BY <1>0, <1>1, <1>2, <1>3 DEF WorkerAt, Holding
  <1> QED BY <1>6, <1>10, <1>12, <1>13, <1>14, <1>15, <1>16 DEF IInv

(* Collecting the list, the heart of worker_func(), keeps the invariant.     *)
LEMMA GrabStep ==
  ASSUME IInv, Grab
  PROVE  IInv'
  <1>0. /\ TypeOK /\ ListsLinked /\ Separation /\ NoLeak /\ BufferBound /\ SpareReady
        /\ NoLostWakeup /\ ReserveFresh /\ WorkerAt
    BY DEF IInv
  <1>1. /\ wpc = "grab" /\ mutex' = "free"
        /\ whead' = (IF head = Null THEN curr ELSE head)
        /\ wtail' = curr /\ wcount' = count + 1
        /\ head' = Null /\ tail' = Null /\ count' = 0
        /\ curr' = new1 /\ new1' = Null
        /\ batch' = Append(queue, curr) /\ queue' = <<>>
        /\ (wpc' = "notice" /\ wcount' > DropLimit /\ node' = node) \/ (wpc' = "write" /\ node' = whead')
        /\ (next = Null /\ next' = new2 /\ new2' = Null) \/ (next # Null /\ next' = next /\ new2' = new2)
    BY DEF Grab, RefillSpare
  <1>2. UNCHANGED <<link, size, data, live, running, front, accepted, file, cut, dropped, notices>>
    BY DEF Grab, heapVars
  <1>3. /\ batch = <<>> /\ cut = <<>> /\ new1 \in Buf /\ new2 \in Buf /\ new1 # new2
        /\ node = Null /\ Null \notin Buf
    BY <1>0, <1>1, LogAssumption DEF WorkerAt, Holding, TypeOK, Ptr, NoLeak
  <1>4. queue \in Seq(Buf) /\ curr \in Buf
    BY <1>0 DEF TypeOK
  <1>5. /\ batch' \in Seq(Buf) /\ Len(batch') = Len(queue) + 1 /\ Len(queue) \in Nat
        /\ batch' # <<>> /\ batch'[1] = IF queue = <<>> THEN curr ELSE queue[1]
        /\ CellsOf(batch') = CellsOf(queue) \cup {curr}
    BY <1>1, <1>4, AppendFacts, CellsOfAppend
  <1>6. whead' = batch'[1] /\ wcount' = Len(batch')
    BY <1>0, <1>1, <1>5, HeadNull DEF ListsLinked
  <1>7. TypeOK'
    <2>1. /\ curr' \in Buf /\ next' \in Ptr /\ head' \in Ptr /\ tail' \in Ptr /\ count' \in Nat
          /\ new1' \in Ptr /\ new2' \in Ptr /\ wtail' \in Ptr
      BY <1>0, <1>1, <1>3, <1>4 DEF TypeOK, Ptr
    <2>2. batch'[1] \in Buf
      BY <1>5, CellsOfSeq, <1>4
    <2>3. whead' \in Ptr /\ wcount' \in Nat /\ node' \in Ptr
      BY <1>1, <1>3, <1>5, <1>6, <2>2 DEF Ptr
    <2>4. queue' \in Seq(Buf) /\ batch' \in Seq(Buf)
      BY <1>1, <1>5
    <2>5. wpc' \in WorkerStates /\ mutex' \in {"free", "worker"}
      BY <1>1 DEF WorkerStates
    <2> QED BY <1>0, <1>2, <2>1, <2>3, <2>4, <2>5 DEF TypeOK
  <1>8. Chained(link', Append(<<>>, new1))
    <2>1. link[new1] = Null BY <1>0, <1>3 DEF ReserveFresh, Fresh
    <2>2. Append(<<>>, new1) = <<new1>> OBVIOUS
    <2> QED BY <1>2, <2>1, <2>2 DEF Chained
  <1>9. ListsLinked'
    BY <1>0, <1>1, <1>2, <1>3, <1>6, <1>8 DEF ListsLinked
  <1>10. CellsOf(queue') = {} /\ CellsOf(cut') = {} /\ CellsOf(cut) = {} /\ CellsOf(batch) = {}
    BY <1>1, <1>2, <1>3, CellsOfEmpty
  <1>11. /\ FrontCells = ({curr, next} \ {Null}) \cup CellsOf(queue)
         /\ WorkerCells = {new1, new2}
         /\ FrontCells' = {new1, next'} \ {Null}
         /\ WorkerCells' = ({new2'} \ {Null}) \cup CellsOf(queue) \cup {curr}
    BY <1>1, <1>3, <1>5, <1>10 DEF FrontCells, WorkerCells
  <1>12. Separation'
    BY <1>0, <1>1, <1>3, <1>4, <1>11, CellsOfSeq DEF Separation, NoLeak
  <1>13. NoLeak'
    <2>1. live' = FrontCells' \cup WorkerCells'
      BY <1>0, <1>1, <1>2, <1>3, <1>4, <1>11, CellsOfSeq DEF NoLeak
    <2>2. {new1, new2} \cap ({curr, next} \cup CellsOf(queue)) = {}
      BY <1>0, <1>3, <1>11 DEF Separation
    <2>3. curr # next /\ {curr, next} \cap CellsOf(queue) = {} /\ Null \notin CellsOf(queue)
      BY <1>0, <1>4, CellsOfSeq DEF NoLeak
    <2>4. curr' # next' /\ (new1' # Null => new1' # new2')
      BY <1>1, <1>3, <2>2
    <2>5. {new1', new2'} \cap CellsOf(batch') = {}
      BY <1>1, <1>3, <1>4, <1>5, <2>2, <2>3
    <2> QED BY <2>1, <2>4, <2>5, <1>10 DEF NoLeak
  <1>14. BufferBound' /\ SpareReady' /\ NoLostWakeup'
    BY <1>0, <1>1, <1>2, <1>3 DEF BufferBound, SpareReady, NoLostWakeup
  <1>15. ReserveFresh'
    BY <1>0, <1>1, <1>2 DEF ReserveFresh, Fresh
  <1>16. WorkerAt'
    <2>1. wpc' = "notice" => Len(batch') >= 2
      BY <1>1, <1>5, <1>6, LogAssumption
    <2>2. Len(batch') >= IF new2' = Null THEN 2 ELSE 1
      <3>1. next = Null => queue # <<>> BY <1>0 DEF SpareReady
      <3>2. queue # <<>> => Len(queue) >= 1 BY <1>4, EmptySeq
      <3> QED BY <1>1, <1>3, <1>5, <3>1, <3>2
    <2>3. wpc' = "write" => node' \in CellsOf(batch')
      BY <1>1, <1>5, <1>6, CellsOfSeq
    <2>4. whead' = First(batch')
      BY <1>5, <1>6 DEF First
    <2> QED BY <1>1, <1>2, <1>3, <2>1, <2>2, <2>3, <2>4 DEF WorkerAt, Holding
  <1> QED BY <1>7, <1>9, <1>12, <1>13, <1>14, <1>15, <1>16 DEF IInv

(* Deciding what to drop keeps the invariant.                                *)
LEMMA DropStep ==
  ASSUME IInv, Drop
  PROVE  IInv'
  <1>0. /\ TypeOK /\ ListsLinked /\ Separation /\ NoLeak /\ BufferBound /\ SpareReady
        /\ NoLostWakeup /\ ReserveFresh /\ WorkerAt
    BY DEF IInv
  <1>1. /\ wpc = "drop" /\ wpc' = "free dropped" /\ node' = link[link[whead]]
        /\ batch' = SubSeq(batch, 1, 2) /\ cut' = SubSeq(batch, 3, Len(batch))
    BY DEF Drop, FirstDropped
  <1>2. /\ UNCHANGED <<link, size, data, live, curr, next, head, tail, count, queue>>
        /\ UNCHANGED <<running, mutex, front, new1, new2, whead, wtail, wcount>>
        /\ UNCHANGED <<accepted, file, dropped, notices>>
    BY DEF Drop, heapVars, instVars
  <1>3. /\ batch \in Seq(Buf) /\ Len(batch) >= 2 /\ Chained(link, batch)
        /\ cut = <<>> /\ new1 = Null /\ whead = First(batch) /\ wcount = Len(batch)
    BY <1>0, <1>1 DEF TypeOK, WorkerAt, Holding, ListsLinked
  <1>4. /\ batch' \in Seq(Buf) /\ Len(batch') = 2 /\ batch'[1] = batch[1] /\ batch'[2] = batch[2]
        /\ cut' \in Seq(Buf) /\ Chained(link, cut')
        /\ link[batch[1]] = batch[2] /\ batch[1] # batch[2] /\ link[batch[2]] = First(cut')
        /\ CellsOf(batch) = CellsOf(batch') \cup CellsOf(cut')
        /\ CellsOf(batch') \cap CellsOf(cut') = {}
    <2> DEFINE t == SubSeq(batch, 1, 2)
               u == SubSeq(batch, 3, Len(batch))
    <2>1. /\ t \in Seq(Buf) /\ Len(t) = 2 /\ t[1] = batch[1] /\ t[2] = batch[2]
          /\ u \in Seq(Buf) /\ Chained(link, u)
          /\ link[batch[1]] = batch[2] /\ batch[1] # batch[2] /\ link[batch[2]] = First(u)
          /\ CellsOf(batch) = CellsOf(t) \cup CellsOf(u)
          /\ CellsOf(t) \cap CellsOf(u) = {}
      BY <1>3, ChainCut
    <2>2. batch' = t /\ cut' = u BY <1>1
    <2> HIDE DEF t, u
    <2> QED BY <2>1, <2>2
  <1>5. batch # <<>> /\ batch' # <<>> /\ First(batch) = batch[1] /\ First(batch') = batch[1]
    <2>1. batch # <<>> BY <1>3, TwoFacts
    <2>2. Len(batch') >= 2 BY <1>4
    <2>3. batch' # <<>> BY <1>4, <2>2, TwoFacts
    <2> QED BY <1>3, <1>4, <2>1, <2>3, FirstFacts
  <1>6. node' = First(cut')
    BY <1>1, <1>3, <1>4, <1>5
  <1>7. TypeOK'
    <2>1. node' \in Ptr
      BY <1>4, <1>6, FirstFacts
    <2> QED BY <1>0, <1>1, <1>2, <1>4, <2>1 DEF TypeOK, WorkerStates
  <1>8. ListsLinked'
    BY <1>0, <1>1, <1>2, <1>4 DEF ListsLinked
  <1>9. FrontCells' = FrontCells /\ WorkerCells' = WorkerCells
    BY <1>2, <1>3, <1>4, CellsOfEmpty DEF FrontCells, WorkerCells
  <1>10. Separation' /\ BufferBound' /\ SpareReady' /\ NoLostWakeup' /\ ReserveFresh'
    BY <1>0, <1>1, <1>2, <1>9 DEF Separation, BufferBound, SpareReady, NoLostWakeup, ReserveFresh, Fresh
  <1>11. NoLeak'
    BY <1>0, <1>2, <1>3, <1>4, <1>9 DEF NoLeak
  <1>12. WorkerAt'
    <2>1. wcount' > 0
      BY <1>2, <1>3
    <2>2. /\ wpc' = "free dropped" /\ mutex' = "free" /\ new1' = Null /\ whead' = First(batch')
          /\ Len(batch') = 2 /\ node' = First(cut')
      BY <1>0, <1>1, <1>2, <1>3, <1>4, <1>5, <1>6 DEF WorkerAt
    <2> QED BY <2>1, <2>2 DEF WorkerAt, Holding
  <1> QED BY <1>7, <1>8, <1>10, <1>11, <1>12 DEF IInv

(* Freeing a dropped buffer keeps the invariant.                             *)
LEMMA FreeDroppedStep ==
  ASSUME IInv, FreeDropped
  PROVE  IInv'
  <1>0. /\ TypeOK /\ ListsLinked /\ Separation /\ NoLeak /\ BufferBound /\ SpareReady
        /\ NoLostWakeup /\ ReserveFresh /\ WorkerAt
    BY DEF IInv
  <1>1. /\ wpc = "free dropped" /\ node # Null /\ node' = link[node]
        /\ live' = live \ {node} /\ cut' = Tail(cut)
        /\ dropped' = dropped \cup {data[node][i] : i \in DOMAIN data[node]}
    BY DEF FreeDropped
  <1>2. /\ UNCHANGED <<link, size, data, curr, next, head, tail, count, queue>>
        /\ UNCHANGED <<running, mutex, front, wpc, new1, new2, whead, wtail, wcount>>
        /\ UNCHANGED <<accepted, file, batch, notices>>
    BY DEF FreeDropped, instVars
  <1>3. /\ cut \in Seq(Buf) /\ Chained(link, cut) /\ cut # <<>> /\ node = cut[1]
    BY <1>0, <1>1 DEF TypeOK, WorkerAt, ListsLinked, First
  <1>4. /\ cut' \in Seq(Buf) /\ Chained(link, cut') /\ link[node] = First(cut')
        /\ node \in Buf /\ node \notin CellsOf(cut') /\ CellsOf(cut) = {node} \cup CellsOf(cut')
    BY <1>1, <1>3, ChainTail
  <1>5. TypeOK'
    <2>1. node' \in Ptr
      BY <1>1, <1>4, FirstFacts
    <2>2. data[node] \in Seq(Nat)
      BY <1>0, <1>4 DEF TypeOK
    <2>3. {data[node][i] : i \in DOMAIN data[node]} \subseteq Nat
      BY <2>2
    <2>4. dropped' \in SUBSET Nat /\ live' \in SUBSET Buf
      BY <1>0, <1>1, <2>3 DEF TypeOK
    <2> QED BY <1>0, <1>2, <1>4, <2>1, <2>4 DEF TypeOK
  <1>6. ListsLinked'
    BY <1>0, <1>1, <1>2, <1>4 DEF ListsLinked
  <1>7. node \in WorkerCells /\ node \notin CellsOf(batch) /\ node \notin {new1, new2}
    BY <1>0, <1>4 DEF NoLeak, WorkerCells
  <1>8. FrontCells' = FrontCells /\ WorkerCells' = WorkerCells \ {node}
    BY <1>2, <1>4, <1>7 DEF FrontCells, WorkerCells
  <1>9. Separation' /\ BufferBound' /\ SpareReady' /\ NoLostWakeup' /\ ReserveFresh'
    BY <1>0, <1>1, <1>2, <1>8 DEF Separation, BufferBound, SpareReady, NoLostWakeup, ReserveFresh, Fresh
  <1>10. NoLeak'
    <2>1. node \notin FrontCells BY <1>0, <1>7 DEF Separation
    <2> QED BY <1>0, <1>1, <1>2, <1>4, <1>8, <2>1 DEF NoLeak
  <1>11. WorkerAt'
    BY <1>0, <1>1, <1>2, <1>4 DEF WorkerAt, Holding
  <1> QED BY <1>5, <1>6, <1>9, <1>10, <1>11 DEF IInv

(* Ending the cut batch after its second buffer keeps the invariant.         *)
LEMMA EndDropStep ==
  ASSUME IInv, EndDrop
  PROVE  IInv'
  <1>0. /\ TypeOK /\ ListsLinked /\ Separation /\ NoLeak /\ BufferBound /\ SpareReady
        /\ NoLostWakeup /\ ReserveFresh /\ WorkerAt
    BY DEF IInv
  <1>1. /\ wpc = "free dropped" /\ node = Null /\ wpc' = "write" /\ node' = whead
        /\ wtail' = link[whead] /\ link' = [link EXCEPT ![link[whead]] = Null]
        /\ wcount' = 2 /\ cut' = <<>>
    BY DEF EndDrop
  <1>2. /\ UNCHANGED <<size, data, live, curr, next, head, tail, count, queue>>
        /\ UNCHANGED <<running, mutex, front, new1, new2, whead>>
        /\ UNCHANGED <<accepted, file, batch, dropped, notices>>
    BY DEF EndDrop, instVars
  <1>3. /\ batch \in Seq(Buf) /\ Len(batch) = 2 /\ batch # <<>> /\ cut \in Seq(Buf)
        /\ whead = batch[1] /\ link[whead] = batch[2] /\ batch[1] # batch[2]
        /\ new1 = Null /\ node = First(cut)
    BY <1>0, <1>1, BatchKept DEF TypeOK, WorkerAt, Holding, ListsLinked, First
  <1>4. cut = <<>>
    BY <1>1, <1>3, FirstFacts
  <1>5. batch[1] \in CellsOf(batch) /\ batch[2] \in CellsOf(batch) /\ CellsOf(batch) \subseteq Buf
    BY <1>3, CellsOfSeq
  <1>6. /\ link' \in [Buf -> Ptr] /\ link'[batch[1]] = batch[2] /\ link'[batch[2]] = Null
        /\ \A c \in Buf \ {batch[2]} : link'[c] = link[c]
    BY <1>0, <1>1, <1>3, <1>5 DEF TypeOK, Ptr
  <1>7. TypeOK'
    <2>0. cut' \in Seq(Buf) BY <1>1, EmptySeq
    <2>1. wtail' \in Ptr /\ node' \in Ptr /\ wcount' \in Nat
      BY <1>1, <1>3, <1>5 DEF Ptr
    <2>2. wpc' \in WorkerStates BY <1>1 DEF WorkerStates
    <2> QED BY <1>0, <1>2, <1>6, <2>0, <2>1, <2>2 DEF TypeOK
  <1>8. Chained(link', batch)
    BY <1>3, <1>6 DEF Chained
  <1>9. Chained(link', Append(queue, curr))
    <2>1. queue \in Seq(Buf) /\ curr \in Buf BY <1>0 DEF TypeOK
    <2>2. Append(queue, curr) \in Seq(Buf) /\ CellsOf(Append(queue, curr)) = CellsOf(queue) \cup {curr}
      BY <2>1, AppendFacts, CellsOfAppend
    <2>3. batch[2] \notin CellsOf(queue) \cup {curr}
      BY <1>0, <1>5, <2>1, LogAssumption DEF Separation, FrontCells, WorkerCells
    <2>4. CellsOf(queue) \subseteq Buf
      BY <2>1, CellsOfSeq
    <2>5. \A c \in CellsOf(Append(queue, curr)) : link'[c] = link[c]
      BY <1>6, <2>1, <2>2, <2>3, <2>4
    <2>6. Chained(link, Append(queue, curr)) BY <1>0 DEF ListsLinked
    <2> QED BY <2>2, <2>5, <2>6, ChainFrame
  <1>10. ListsLinked'
    <2>1. Chained(link', <<>>) BY DEF Chained
    <2> QED BY <1>0, <1>1, <1>2, <1>3, <1>8, <1>9, <2>1 DEF ListsLinked
  <1>11. FrontCells' = FrontCells /\ WorkerCells' = WorkerCells
    BY <1>1, <1>2, <1>4 DEF FrontCells, WorkerCells
  <1>12. Separation' /\ BufferBound' /\ SpareReady' /\ NoLostWakeup'
    BY <1>0, <1>1, <1>2, <1>11 DEF Separation, BufferBound, SpareReady, NoLostWakeup
  <1>13. NoLeak'
    BY <1>0, <1>1, <1>2, <1>4, <1>11 DEF NoLeak
  <1>14. ReserveFresh'
    <2>1. {next, new1, new2} \ {Null} \subseteq Buf BY <1>0 DEF TypeOK, Ptr
    <2>2. batch[2] \notin {next, new1, new2} \/ batch[2] = Null
      BY <1>0, <1>5 DEF NoLeak, Separation, FrontCells, WorkerCells
    <2> QED BY <1>0, <1>2, <1>5, <1>6, <2>1, <2>2, LogAssumption DEF ReserveFresh, Fresh
  <1>15. WorkerAt'
    <2>1. /\ wpc' = "write" /\ mutex' = "free" /\ cut' = <<>> /\ new1' = Null /\ batch' = batch
          /\ whead' = First(batch') /\ Len(batch') = 2 /\ node' \in CellsOf(batch')
      BY <1>0, <1>1, <1>2, <1>3, <1>5, FirstFacts DEF WorkerAt
    <2>2. Len(batch') >= IF new2' = Null THEN 2 ELSE 1
      BY <2>1
    <2> QED BY <2>1, <2>2 DEF WorkerAt, Holding
  <1> QED BY <1>7, <1>10, <1>12, <1>13, <1>14, <1>15 DEF IInv

(* Writing a buffer keeps the invariant.                                     *)
LEMMA WriteNodeStep ==
  ASSUME IInv, WriteNode
  PROVE  IInv'
  <1>0. /\ TypeOK /\ ListsLinked /\ Separation /\ NoLeak /\ BufferBound /\ SpareReady
        /\ NoLostWakeup /\ ReserveFresh /\ WorkerAt
    BY DEF IInv
  <1>1. /\ wpc = "write" /\ node # Null /\ node' = link[node] /\ file' = file \o data[node]
    BY DEF WriteNode
  <1>2. /\ UNCHANGED <<link, size, data, live, curr, next, head, tail, count, queue>>
        /\ UNCHANGED <<running, mutex, front, wpc, new1, new2, whead, wtail, wcount>>
        /\ UNCHANGED <<accepted, batch, cut, dropped, notices>>
    BY DEF WriteNode, heapVars, instVars, histVars
  <1>3. /\ batch \in Seq(Buf) /\ Chained(link, batch) /\ node \in CellsOf(batch)
        /\ CellsOf(batch) \subseteq Buf
    BY <1>0, <1>1, CellsOfSeq DEF TypeOK, WorkerAt, ListsLinked
  <1>4. node' \in CellsOf(batch) \cup {Null}
    BY <1>1, <1>3, ChainNext
  <1>5. TypeOK'
    <2>1. file' \in Seq(Nat) BY <1>0, <1>1, <1>3 DEF TypeOK
    <2>2. node' \in Ptr BY <1>3, <1>4 DEF Ptr
    <2> QED BY <1>0, <1>2, <2>1, <2>2 DEF TypeOK
  <1>6. ListsLinked'
    BY <1>0, <1>2 DEF ListsLinked
  <1>7. FrontCells' = FrontCells /\ WorkerCells' = WorkerCells
    BY <1>2 DEF FrontCells, WorkerCells
  <1>8. Separation' /\ NoLeak' /\ BufferBound' /\ SpareReady' /\ NoLostWakeup' /\ ReserveFresh'
    BY <1>0, <1>2, <1>7 DEF Separation, NoLeak, BufferBound, SpareReady, NoLostWakeup, ReserveFresh, Fresh
  <1>9. WorkerAt'
    BY <1>0, <1>1, <1>2, <1>4 DEF WorkerAt, Holding
  <1> QED BY <1>5, <1>6, <1>8, <1>9 DEF IInv

(* TakeHead: the first cell leaves the batch, empty; the rest stays a chain.   *)
LEMMA TakeHeadFacts ==
  ASSUME IInv, TakeHead, batch # <<>>, whead = First(batch), wcount = Len(batch), Chained(link, batch)
  PROVE  /\ whead \in Buf /\ whead \in WorkerCells /\ whead \notin {next, new1, new2}
         /\ batch' \in Seq(Buf) /\ Chained(link', batch') /\ Len(batch') = Len(batch) - 1
         /\ whead' = First(batch') /\ wcount' = Len(batch') /\ wcount' \in Nat
         /\ CellsOf(batch) = {whead} \cup CellsOf(batch') /\ whead \notin CellsOf(batch')
         /\ link' \in [Buf -> Ptr] /\ size' \in [Buf -> Nat] /\ data' \in [Buf -> Seq(Nat)]
         /\ \A c \in Buf \ {whead} : link'[c] = link[c] /\ size'[c] = size[c] /\ data'[c] = data[c]
         /\ \A c \in Buf : size'[c] <= size[c]
         /\ link'[whead] = Null /\ size'[whead] = 0 /\ data'[whead] = <<>>
         /\ Chained(link', Append(queue, curr))
  <1>0. TypeOK /\ ListsLinked /\ Separation /\ NoLeak BY DEF IInv
  <1>1. /\ whead' = link[whead] /\ wcount' = wcount - 1
        /\ link' = [link EXCEPT ![whead] = Null]
        /\ size' = [size EXCEPT ![whead] = 0]
        /\ data' = [data EXCEPT ![whead] = <<>>]
        /\ batch' = Tail(batch)
    BY DEF TakeHead
  <1>2. batch \in Seq(Buf) /\ queue \in Seq(Buf) /\ curr \in Buf /\ Len(batch) \in Nat
    BY <1>0 DEF TypeOK
  <1>3. whead = batch[1] /\ whead \in Buf /\ whead \in CellsOf(batch)
    BY <1>2, FirstFacts
  <1>4. /\ batch' \in Seq(Buf) /\ Len(batch') = Len(batch) - 1 /\ Chained(link, batch')
        /\ link[whead] = First(batch') /\ whead \notin CellsOf(batch')
        /\ CellsOf(batch) = {whead} \cup CellsOf(batch')
    <2> DEFINE t == Tail(batch)
    <2>1. /\ t \in Seq(Buf) /\ Len(t) = Len(batch) - 1 /\ Chained(link, t)
          /\ link[batch[1]] = First(t) /\ batch[1] \notin CellsOf(t)
          /\ CellsOf(batch) = {batch[1]} \cup CellsOf(t)
      BY <1>2, ChainTail
    <2>2. batch' = t BY <1>1
    <2> HIDE DEF t
    <2> QED BY <1>3, <2>1, <2>2
  <1>5. wcount' = Len(batch') /\ wcount' \in Nat
    BY <1>1, <1>4, EmptySeq
  <1>6. whead \in WorkerCells /\ whead \notin FrontCells /\ whead \notin {next, new1, new2}
    BY <1>0, <1>3, LogAssumption DEF WorkerCells, FrontCells, Separation, NoLeak
  <1>7. /\ link' \in [Buf -> Ptr] /\ size' \in [Buf -> Nat]
        /\ \A c \in Buf \ {whead} : link'[c] = link[c] /\ size'[c] = size[c] /\ data'[c] = data[c]
        /\ link'[whead] = Null /\ size'[whead] = 0 /\ data'[whead] = <<>>
    BY <1>0, <1>1, <1>3 DEF TypeOK, Ptr
  <1>8. data' \in [Buf -> Seq(Nat)]
    <2>1. <<>> \in Seq(Nat) BY EmptySeq
    <2> QED BY <1>0, <1>1, <1>3, <2>1 DEF TypeOK
  <1>10. \A c \in Buf : size'[c] <= size[c]
    <2> SUFFICES ASSUME NEW c \in Buf PROVE size'[c] <= size[c] OBVIOUS
    <2>1. size \in [Buf -> Nat] BY <1>0 DEF TypeOK
    <2>2. CASE c = whead BY <1>7, <2>1, <2>2
    <2>3. CASE c # whead BY <1>7, <2>1, <2>3
    <2> QED BY <2>2, <2>3
  <1>11. Chained(link', batch')
    <2>1. CellsOf(batch') \subseteq Buf BY <1>4, CellsOfSeq
    <2> QED BY <1>4, <1>7, <2>1, ChainFrame
  <1>12. Chained(link', Append(queue, curr))
    <2>1. Append(queue, curr) \in Seq(Buf) /\ CellsOf(Append(queue, curr)) = CellsOf(queue) \cup {curr}
      BY <1>2, AppendFacts, CellsOfAppend
    <2>2. \A c \in CellsOf(Append(queue, curr)) : c \in Buf \ {whead}
      BY <1>2, <1>6, <2>1, CellsOfSeq, LogAssumption DEF FrontCells
    <2>3. Chained(link, Append(queue, curr)) BY <1>0 DEF ListsLinked
    <2> QED BY <1>7, <2>1, <2>2, <2>3, ChainFrame
  <1> QED BY <1>1, <1>3, <1>4, <1>5, <1>6, <1>7, <1>8, <1>10, <1>11, <1>12

(* Taking new_buffer1 from the batch keeps the invariant.                    *)
LEMMA Recycle1Step ==
  ASSUME IInv, Recycle1
  PROVE  IInv'
  <1>0. /\ TypeOK /\ ListsLinked /\ Separation /\ NoLeak /\ BufferBound /\ SpareReady
        /\ NoLostWakeup /\ ReserveFresh /\ WorkerAt
    BY DEF IInv
  <1>1. /\ wpc = "recycle1" /\ wpc' = "recycle2"
        /\ UNCHANGED <<live, curr, next, head, tail, count, queue>>
        /\ UNCHANGED <<running, mutex, front, new2, wtail, node>>
        /\ UNCHANGED <<accepted, file, cut, dropped, notices>>
    BY DEF Recycle1, instVars
  <1>2. /\ new1 = Null /\ whead = First(batch) /\ cut = <<>> /\ node = Null /\ mutex = "free"
        /\ wcount = Len(batch) /\ Chained(link, batch)
    BY <1>0, <1>1 DEF WorkerAt, Holding, ListsLinked
  <1>3. batch \in Seq(Buf) /\ Len(batch) \in Nat /\ Len(batch) >= IF new2 = Null THEN 2 ELSE 1
    BY <1>0, <1>1 DEF WorkerAt, TypeOK
  <1>4. batch # <<>>
    BY <1>3, EmptySeq
  <1>5. new1' = whead /\ TakeHead
    BY <1>2 DEF Recycle1
  <1>6. /\ whead \in Buf /\ whead \in WorkerCells /\ whead \notin {next, new1, new2}
        /\ batch' \in Seq(Buf) /\ Chained(link', batch') /\ Len(batch') = Len(batch) - 1
        /\ whead' = First(batch') /\ wcount' = Len(batch') /\ wcount' \in Nat
        /\ CellsOf(batch) = {whead} \cup CellsOf(batch') /\ whead \notin CellsOf(batch')
        /\ link' \in [Buf -> Ptr] /\ size' \in [Buf -> Nat] /\ data' \in [Buf -> Seq(Nat)]
        /\ \A c \in Buf \ {whead} : link'[c] = link[c] /\ size'[c] = size[c] /\ data'[c] = data[c]
        /\ \A c \in Buf : size'[c] <= size[c]
        /\ link'[whead] = Null /\ size'[whead] = 0 /\ data'[whead] = <<>>
        /\ Chained(link', Append(queue, curr))
    BY <1>2, <1>4, <1>5, TakeHeadFacts
  <1>7. TypeOK'
    <2>1. whead' \in Ptr /\ new1' \in Ptr BY <1>5, <1>6, FirstFacts DEF Ptr
    <2> QED BY <1>0, <1>1, <1>6, <2>1 DEF TypeOK, WorkerStates
  <1>8. ListsLinked'
    <2>1. Chained(link', <<>>) BY DEF Chained
    <2> QED BY <1>0, <1>1, <1>2, <1>6, <2>1 DEF ListsLinked
  <1>9. FrontCells' = FrontCells /\ WorkerCells' = WorkerCells
    BY <1>1, <1>2, <1>5, <1>6, LogAssumption DEF FrontCells, WorkerCells
  <1>10. Separation' /\ SpareReady' /\ NoLostWakeup'
    BY <1>0, <1>1, <1>9 DEF Separation, SpareReady, NoLostWakeup
  <1>11. NoLeak'
    BY <1>0, <1>1, <1>2, <1>5, <1>6, <1>9, CellsOfEmpty DEF NoLeak
  <1>12. BufferBound'
    BY <1>0, <1>1, <1>6, LogAssumption, SMTT(30) DEF BufferBound, TypeOK
  <1>13. ReserveFresh'
    <2>1. next' = next /\ new2' = new2 /\ new1' = whead BY <1>1, <1>5
    <2>2. {next, new2} \ {Null} \subseteq Buf \ {whead} BY <1>0, <1>6 DEF TypeOK, Ptr
    <2> QED BY <1>0, <1>6, <2>1, <2>2 DEF ReserveFresh, Fresh
  <1>14. WorkerAt'
    <2>1. new2' = Null => batch' # <<>>
      BY <1>1, <1>3, <1>6, EmptySeq
    <2>2. new1' # Null
      BY <1>5, <1>6, LogAssumption
    <2> QED BY <1>0, <1>1, <1>2, <1>6, <2>1, <2>2 DEF WorkerAt, Holding
  <1> QED BY <1>7, <1>8, <1>10, <1>11, <1>12, <1>13, <1>14 DEF IInv

(* Taking new_buffer2 from the batch keeps the invariant.                    *)
LEMMA Recycle2Step ==
  ASSUME IInv, Recycle2
  PROVE  IInv'
  <1>0. /\ TypeOK /\ ListsLinked /\ Separation /\ NoLeak /\ BufferBound /\ SpareReady
        /\ NoLostWakeup /\ ReserveFresh /\ WorkerAt
    BY DEF IInv
  <1>1. /\ wpc = "recycle2" /\ wpc' = "clear" /\ node' = whead'
        /\ UNCHANGED <<live, curr, next, head, tail, count, queue>>
        /\ UNCHANGED <<running, mutex, front, new1, wtail>>
        /\ UNCHANGED <<accepted, file, cut, dropped, notices>>
    BY DEF Recycle2, instVars
  <1>2. /\ new1 # Null /\ whead = First(batch) /\ cut = <<>> /\ mutex = "free"
        /\ wcount = Len(batch) /\ Chained(link, batch) /\ (new2 = Null => batch # <<>>)
        /\ batch \in Seq(Buf)
    BY <1>0, <1>1 DEF WorkerAt, Holding, ListsLinked, TypeOK
  <1>3. CASE new2 # Null
    <2>1. UNCHANGED <<new2, whead, wcount, link, size, data, batch>>
      BY <1>3 DEF Recycle2
    <2>2. TypeOK'
      <3>1. node' \in Ptr BY <1>1, <1>2, <2>1, FirstFacts
      <3> QED BY <1>0, <1>1, <2>1, <3>1 DEF TypeOK, WorkerStates
    <2>3. ListsLinked'
      BY <1>0, <1>1, <1>2, <2>1 DEF ListsLinked
    <2>4. FrontCells' = FrontCells /\ WorkerCells' = WorkerCells
      BY <1>1, <2>1 DEF FrontCells, WorkerCells
    <2>5. Separation' /\ NoLeak' /\ BufferBound' /\ SpareReady' /\ NoLostWakeup' /\ ReserveFresh'
      BY <1>0, <1>1, <2>1, <2>4 DEF Separation, NoLeak, BufferBound, SpareReady, NoLostWakeup, ReserveFresh, Fresh
    <2>6. WorkerAt'
      BY <1>0, <1>1, <1>2, <1>3, <2>1 DEF WorkerAt, Holding
    <2> QED BY <2>2, <2>3, <2>5, <2>6 DEF IInv
  <1>4. CASE new2 = Null
    <2>1. new2' = whead /\ TakeHead
      BY <1>4 DEF Recycle2
    <2>2. /\ whead \in Buf /\ whead \in WorkerCells /\ whead \notin {next, new1, new2}
          /\ batch' \in Seq(Buf) /\ Chained(link', batch') /\ Len(batch') = Len(batch) - 1
          /\ whead' = First(batch') /\ wcount' = Len(batch') /\ wcount' \in Nat
          /\ CellsOf(batch) = {whead} \cup CellsOf(batch') /\ whead \notin CellsOf(batch')
          /\ link' \in [Buf -> Ptr] /\ size' \in [Buf -> Nat] /\ data' \in [Buf -> Seq(Nat)]
          /\ \A c \in Buf \ {whead} : link'[c] = link[c] /\ size'[c] = size[c] /\ data'[c] = data[c]
          /\ \A c \in Buf : size'[c] <= size[c]
          /\ link'[whead] = Null /\ size'[whead] = 0 /\ data'[whead] = <<>>
          /\ Chained(link', Append(queue, curr))
      BY <1>2, <1>4, <2>1, TakeHeadFacts
    <2>3. TypeOK'
      <3>1. whead' \in Ptr /\ new2' \in Ptr BY <2>1, <2>2, FirstFacts DEF Ptr
      <3> QED BY <1>0, <1>1, <2>2, <3>1 DEF TypeOK, WorkerStates
    <2>4. ListsLinked'
      <3>1. Chained(link', <<>>) BY DEF Chained
      <3> QED BY <1>0, <1>1, <1>2, <2>2, <3>1 DEF ListsLinked
    <2>5. FrontCells' = FrontCells /\ WorkerCells' = WorkerCells
      BY <1>1, <1>2, <1>4, <2>1, <2>2, LogAssumption DEF FrontCells, WorkerCells
    <2>6. Separation' /\ SpareReady' /\ NoLostWakeup'
      BY <1>0, <1>1, <2>5 DEF Separation, SpareReady, NoLostWakeup
    <2>7. NoLeak'
      BY <1>0, <1>1, <1>2, <2>1, <2>2, <2>5, CellsOfEmpty DEF NoLeak
    <2>8. BufferBound'
      BY <1>0, <1>1, <2>2, LogAssumption, SMTT(30) DEF BufferBound, TypeOK
    <2>9. ReserveFresh'
      <3>1. next' = next /\ new1' = new1 BY <1>1
      <3>2. {next, new1} \ {Null} \subseteq Buf \ {whead} BY <1>0, <2>2 DEF TypeOK, Ptr
      <3> QED BY <1>0, <2>1, <2>2, <3>1, <3>2 DEF ReserveFresh, Fresh
    <2>10. WorkerAt'
      <3>1. new2' # Null
        BY <2>1, <2>2, LogAssumption
      <3> QED BY <1>0, <1>1, <1>2, <2>2, <3>1 DEF WorkerAt, Holding
    <2> QED BY <2>3, <2>4, <2>6, <2>7, <2>8, <2>9, <2>10 DEF IInv
  <1> QED BY <1>3, <1>4

(* Freeing a buffer of the batch keeps the invariant.                        *)
LEMMA FreeNodeStep ==
  ASSUME IInv, FreeNode
  PROVE  IInv'
  <1>0. /\ TypeOK /\ ListsLinked /\ Separation /\ NoLeak /\ BufferBound /\ SpareReady
        /\ NoLostWakeup /\ ReserveFresh /\ WorkerAt
    BY DEF IInv
  <1>1. /\ wpc = "clear" /\ node # Null /\ node' = link[node]
        /\ live' = live \ {node} /\ batch' = Tail(batch)
        /\ UNCHANGED <<link, size, data, curr, next, head, tail, count, queue>>
        /\ UNCHANGED <<running, mutex, front, wpc, new1, new2, whead, wtail, wcount>>
        /\ UNCHANGED <<accepted, file, cut, dropped, notices>>
    BY DEF FreeNode, instVars
  <1>2. /\ batch \in Seq(Buf) /\ Chained(link, batch) /\ node = First(batch)
        /\ cut = <<>> /\ new1 # Null /\ new2 # Null
    BY <1>0, <1>1 DEF TypeOK, WorkerAt, ListsLinked, Holding
  <1>3. batch # <<>> /\ node = batch[1]
    BY <1>1, <1>2, FirstFacts
  <1>4. /\ batch' \in Seq(Buf) /\ Chained(link, batch') /\ link[node] = First(batch')
        /\ node \in Buf /\ node \notin CellsOf(batch') /\ CellsOf(batch) = {node} \cup CellsOf(batch')
    BY <1>1, <1>2, <1>3, ChainTail, SMTT(30)
  <1>5. TypeOK'
    <2>1. node' \in Ptr
      BY <1>1, <1>4, FirstFacts
    <2>2. live' \in SUBSET Buf
      BY <1>0, <1>1 DEF TypeOK
    <2> QED BY <1>0, <1>1, <1>4, <2>1, <2>2 DEF TypeOK
  <1>6. ListsLinked'
    BY <1>0, <1>1, <1>4 DEF ListsLinked
  <1>7. node \in WorkerCells /\ node \notin CellsOf(cut) /\ node \notin {new1, new2}
    BY <1>0, <1>4 DEF NoLeak, WorkerCells
  <1>8. FrontCells' = FrontCells /\ WorkerCells' = WorkerCells \ {node}
    BY <1>1, <1>4, <1>7 DEF FrontCells, WorkerCells
  <1>9. Separation' /\ BufferBound' /\ SpareReady' /\ NoLostWakeup' /\ ReserveFresh'
    BY <1>0, <1>1, <1>8 DEF Separation, BufferBound, SpareReady, NoLostWakeup, ReserveFresh, Fresh
  <1>10. NoLeak'
    <2>1. node \notin FrontCells BY <1>0, <1>7 DEF Separation
    <2> QED BY <1>0, <1>1, <1>4, <1>8, <2>1 DEF NoLeak
  <1>11. WorkerAt'
    BY <1>0, <1>1, <1>4 DEF WorkerAt, Holding
  <1> QED BY <1>5, <1>6, <1>9, <1>10, <1>11 DEF IInv

(* Clearing buffers_to_write keeps the invariant.                            *)
LEMMA EndClearStep ==
  ASSUME IInv, EndClear
  PROVE  IInv'
  <1>0. /\ TypeOK /\ ListsLinked /\ Separation /\ NoLeak /\ BufferBound /\ SpareReady
        /\ NoLostWakeup /\ ReserveFresh /\ WorkerAt
    BY DEF IInv
  <1>1. /\ wpc = "clear" /\ node = Null /\ wpc' = "top" /\ batch' = <<>>
        /\ whead' = Null /\ wtail' = Null /\ wcount' = 0
        /\ UNCHANGED <<link, size, data, live, curr, next, head, tail, count, queue>>
        /\ UNCHANGED <<running, mutex, front, new1, new2, node>>
        /\ UNCHANGED <<accepted, file, cut, dropped, notices>>
    BY DEF EndClear, heapVars, instVars
  <1>2. batch = <<>> /\ cut = <<>> /\ new1 # Null /\ new2 # Null /\ mutex = "free"
    <2>1. batch \in Seq(Buf) BY <1>0 DEF TypeOK
    <2> QED BY <1>0, <1>1, <2>1, FirstFacts DEF WorkerAt, Holding
  <1>3. TypeOK'
    <2>1. batch' \in Seq(Buf) BY <1>1, EmptySeq
    <2> QED BY <1>0, <1>1, <2>1 DEF TypeOK, WorkerStates, Ptr
  <1>4. ListsLinked'
    BY <1>0, <1>1, <1>2 DEF ListsLinked
  <1>5. FrontCells' = FrontCells /\ WorkerCells' = WorkerCells
    BY <1>1, <1>2 DEF FrontCells, WorkerCells
  <1>6. Separation' /\ NoLeak' /\ BufferBound' /\ SpareReady' /\ NoLostWakeup' /\ ReserveFresh'
    BY <1>0, <1>1, <1>2, <1>5 DEF Separation, NoLeak, BufferBound, SpareReady, NoLostWakeup, ReserveFresh, Fresh
  <1>7. WorkerAt'
    BY <1>1, <1>2 DEF WorkerAt, Holding
  <1> QED BY <1>3, <1>4, <1>6, <1>7 DEF IInv

-----------------------------------------------------------------------------
(* The invariant holds in every reachable state.                              *)

(* linit() establishes the invariant.                                        *)
LEMMA InitIInv == Init => IInv
  <1> SUFFICES ASSUME Init PROVE IInv OBVIOUS
  <1>1. PICK c \in Calloc({}) : \E n \in Calloc({c}) : curr = c /\ next = n /\ live = {c, n}
    BY DEF Init
  <1>2. PICK n \in Calloc({c}) : curr = c /\ next = n /\ live = {c, n}
    BY <1>1
  <1>3. c \in Buf /\ n \in Buf /\ c # n /\ Null \notin Buf
    <2>1. c \in Buf BY LogAssumption
    <2> QED BY <2>1, LogAssumption
  <1>4. /\ link = [b \in Buf |-> Null] /\ size = [b \in Buf |-> 0] /\ data = [b \in Buf |-> <<>>]
        /\ head = Null /\ tail = Null /\ count = 0 /\ running = TRUE /\ mutex = "free" /\ front = "running"
        /\ wpc = "start" /\ new1 = Null /\ new2 = Null
        /\ whead = Null /\ wtail = Null /\ wcount = 0 /\ node = Null
        /\ accepted = 0 /\ file = <<>> /\ queue = <<>> /\ batch = <<>> /\ cut = <<>>
        /\ dropped = {} /\ notices = {}
    BY DEF Init
  <1>5. TypeOK
    <2>1. <<>> \in Seq(Nat) /\ <<>> \in Seq(Buf) BY EmptySeq
    <2>2. data \in [Buf -> Seq(Nat)] BY <1>4, <2>1
    <2>3. link \in [Buf -> Ptr] /\ size \in [Buf -> Nat] BY <1>4 DEF Ptr
    <2> QED BY <1>2, <1>3, <1>4, <2>1, <2>2, <2>3 DEF TypeOK, WorkerStates, Ptr
  <1>6. ListsLinked
    <2>1. Append(<<>>, c) = <<c>> /\ Len(<<>>) = 0 OBVIOUS
    <2>2. Chained(link, <<c>>) BY <1>3, <1>4 DEF Chained
    <2>3. Chained(link, <<>>) BY DEF Chained
    <2> QED BY <1>2, <1>4, <2>1, <2>2, <2>3 DEF ListsLinked
  <1>7. FrontCells = {c, n} /\ WorkerCells = {}
    BY <1>2, <1>3, <1>4, CellsOfEmpty DEF FrontCells, WorkerCells
  <1>8. Separation /\ NoLeak /\ SpareReady /\ NoLostWakeup
    BY <1>2, <1>3, <1>4, <1>7, CellsOfEmpty DEF Separation, NoLeak, SpareReady, NoLostWakeup
  <1>9. BufferBound
    BY <1>2, <1>3, <1>4, LogAssumption DEF BufferBound
  <1>10. ReserveFresh
    BY <1>2, <1>3, <1>4 DEF ReserveFresh, Fresh
  <1>11. WorkerAt
    BY <1>4 DEF WorkerAt, Holding
  <1> QED BY <1>5, <1>6, <1>8, <1>9, <1>10, <1>11 DEF IInv

(* Every step keeps the invariant.                                           *)
LEMMA NextIInv == IInv /\ [Next]_vars => IInv'
  <1> SUFFICES ASSUME IInv, [Next]_vars PROVE IInv' OBVIOUS
  <1>1. CASE UNCHANGED vars BY <1>1, QuietSteps
  <1>2. CASE \E len \in Lens : Log(len) BY <1>2, LogStep
  <1>3. CASE Exit BY <1>3, QuietSteps
  <1>4. CASE Joined BY <1>4, QuietSteps
  <1>5. CASE Start BY <1>5, StartStep
  <1>6. CASE Check \/ Lock \/ Timeout \/ Relock BY <1>6, QuietSteps
  <1>7. CASE Grab BY <1>7, GrabStep
  <1>8. CASE \E len \in Lens : Notice(len) BY <1>8, NoticeStep
  <1>9. CASE Drop BY <1>9, DropStep
  <1>10. CASE FreeDropped BY <1>10, FreeDroppedStep
  <1>11. CASE EndDrop BY <1>11, EndDropStep
  <1>12. CASE WriteNode BY <1>12, WriteNodeStep
  <1>13. CASE EndWrite BY <1>13, QuietSteps
  <1>14. CASE Recycle1 BY <1>14, Recycle1Step
  <1>15. CASE Recycle2 BY <1>15, Recycle2Step
  <1>16. CASE FreeNode BY <1>16, FreeNodeStep
  <1>17. CASE EndClear BY <1>17, EndClearStep
  <1>18. CASE Ended BY <1>18, QuietSteps DEF Ended
  <1> QED BY <1>1, <1>2, <1>3, <1>4, <1>5, <1>6, <1>7, <1>8, <1>9, <1>10, <1>11, <1>12,
             <1>13, <1>14, <1>15, <1>16, <1>17, <1>18 DEF Next, Front, Worker

(* The inductive invariant: the shape of the heap, of both lists and of what   *)
(* the worker holds at each place of worker_func, at all times.                *)
THEOREM IInvHolds == Spec => []IInv
  BY InitIInv, NextIInv, PTL DEF Spec

(* Every pointer of the logger is NULL or points to a struct buffer, every      *)
(* counter is a natural number, the program points are those of the code.      *)
THEOREM TypeCorrect == Spec => []TypeOK
  <1>1. IInv => TypeOK BY DEF IInv
  <1> QED BY IInvHolds, <1>1, PTL

(* The worker may walk its batch without the mutex: no buffer it holds can be   *)
(* reached from curr_buffer, next_buffer or the list of filled buffers.         *)
THEOREM Exclusive == Spec => []Separation
  <1>1. IInv => Separation BY DEF IInv
  <1> QED BY IInvHolds, <1>1, PTL

(* calloc and free are balanced: a buffer is allocated as long as exactly one    *)
(* place of the front end or of the worker holds it, and no longer.             *)
THEOREM Balanced == Spec => []NoLeak
  <1>1. IInv => NoLeak BY DEF IInv
  <1> QED BY IInvHolds, <1>1, PTL

(* Every allocated buffer is in one place of one owner, at every moment and for  *)
(* any number of buffers.                                                       *)
THEOREM OwnedOnce == Spec => []OneOwner
  <1>1. IInv => OneOwner BY DEF IInv, OneOwner
  <1> QED BY IInvHolds, <1>1, PTL

(* Both lists are well formed chains of the length their counters say.          *)
THEOREM WellLinked == Spec => []ListsLinked
  <1>1. IInv => ListsLinked BY DEF IInv
  <1> QED BY IInvHolds, <1>1, PTL

(* memcpy in append() never writes past the data of a buffer.                    *)
THEOREM NoOverrun == Spec => []BufferBound
  <1>1. IInv => BufferBound BY DEF IInv
  <1> QED BY IInvHolds, <1>1, PTL

(* The front end's spare is missing only while a filled buffer waits for the   *)
(* worker (worker_func refills it in every round).                            *)
THEOREM SpareKept == Spec => []SpareReady
  <1>1. IInv => SpareReady BY DEF IInv
  <1> QED BY <1>1, IInvHolds, PTL

(* The worker never waits on the condition while a filled buffer is listed.      *)
THEOREM AlwaysWoken == Spec => []NoLostWakeup
  <1>1. IInv => NoLostWakeup BY DEF IInv
  <1> QED BY IInvHolds, <1>1, PTL

(* The invariant makes the assertions of the C code true.                    *)
LEMMA IInvAsserts == IInv => AssertsHold
  <1> SUFFICES ASSUME IInv PROVE AssertsHold OBVIOUS
  <1>0. TypeOK /\ ListsLinked /\ ReserveFresh /\ WorkerAt BY DEF IInv
  <1>1. queue \in Seq(Buf) /\ batch \in Seq(Buf) /\ curr \in Buf BY <1>0 DEF TypeOK
  <1>2. head = Null => tail = Null
    BY <1>0, HeadNull DEF ListsLinked
  <1>3. link[curr] = Null
    <2> DEFINE t == Append(queue, curr)
    <2>1. Len(t) \in 1..Len(t) /\ t[Len(t)] = curr
      BY <1>1, AppendFacts
    <2>2. Chained(link, t) BY <1>0 DEF ListsLinked
    <2> HIDE DEF t
    <2> QED BY <2>1, <2>2 DEF Chained
  <1>4. wpc = "top" => whead = Null /\ new1 # Null /\ size[new1] = 0 /\ new2 # Null /\ size[new2] = 0
    BY <1>0 DEF WorkerAt, Holding, ReserveFresh, Fresh
  <1>5. wpc \in {"notice", "drop"} => wcount > 0
    <2>1. wpc \in {"notice", "drop"} => Len(batch) >= 2 BY <1>0 DEF WorkerAt
    <2>2. wpc \in {"notice", "drop"} => wcount = Len(batch) BY <1>0 DEF ListsLinked
    <2> QED BY <1>1, <2>1, <2>2
  <1>6. wpc = "free dropped" => wcount > 0
    BY <1>0 DEF WorkerAt
  <1>7. wpc \in {"write", "recycle1"} => wcount > 0
    <2>1. wpc \in {"write", "recycle1"} => Len(batch) >= IF new2 = Null THEN 2 ELSE 1
      BY <1>0 DEF WorkerAt
    <2>2. wpc \in {"write", "recycle1"} => wcount = Len(batch) BY <1>0 DEF ListsLinked
    <2> QED BY <1>1, <2>1, <2>2
  <1>8. wpc = "recycle2" /\ new2 = Null => wcount > 0
    <2>1. wpc = "recycle2" /\ new2 = Null => batch # <<>> /\ wcount = Len(batch)
      BY <1>0 DEF WorkerAt, ListsLinked
    <2>2. batch # <<>> => Len(batch) > 0 BY <1>1, EmptySeq
    <2> QED BY <2>1, <2>2
  <1> QED BY <1>2, <1>3, <1>4, <1>5, <1>6, <1>7, <1>8 DEF AssertsHold

(* No assert() of append() or worker_func() can fail.                            *)
THEOREM NoAssertFails == Spec => []AssertsHold
  BY IInvHolds, IInvAsserts, PTL

(* The invariant makes every pointer that is followed one to an allocated    *)
(* buffer.                                                                   *)
LEMMA IInvPointers == IInv => PointersLive
  <1> SUFFICES ASSUME IInv PROVE PointersLive OBVIOUS
  <1>0. TypeOK /\ ListsLinked /\ NoLeak /\ WorkerAt BY DEF IInv
  <1>1. queue \in Seq(Buf) /\ batch \in Seq(Buf) /\ cut \in Seq(Buf) /\ curr \in Buf /\ Null \notin Buf
    BY <1>0, LogAssumption DEF TypeOK
  <1>2. /\ {curr, next, new1, new2} \ {Null} \subseteq live
        /\ CellsOf(queue) \cup CellsOf(batch) \cup CellsOf(cut) \subseteq live
    BY <1>0 DEF NoLeak, FrontCells, WorkerCells
  <1>3. curr \in live BY <1>1, <1>2
  <1>4. {head, tail} \subseteq live \cup {Null}
    <2>1. queue # <<>> => queue[1] \in live /\ queue[Len(queue)] \in live
      <3>1. queue # <<>> => 1 \in 1..Len(queue) /\ Len(queue) \in 1..Len(queue)
        BY <1>1, EmptySeq
      <3> QED BY <1>1, <1>2, <3>1, CellsOfSeq
    <2> QED BY <1>0, <2>1 DEF ListsLinked
  <1>5. First(batch) \in live \cup {Null} /\ First(cut) \in live \cup {Null}
    BY <1>1, <1>2, FirstFacts
  <1>6. node \in live \cup {Null}
    <2>1. CASE wpc = "write" BY <1>0, <1>2, <2>1 DEF WorkerAt
    <2>2. CASE wpc = "free dropped" BY <1>0, <1>5, <2>2 DEF WorkerAt
    <2>3. CASE wpc = "clear" BY <1>0, <1>5, <2>3 DEF WorkerAt
    <2>4. CASE wpc \notin {"write", "free dropped", "clear"} BY <1>0, <2>4 DEF WorkerAt
    <2> QED BY <2>1, <2>2, <2>3, <2>4
  <1>7. batch # <<>> /\ whead = First(batch) => whead \in live /\ whead = batch[1]
    BY <1>1, <1>2, FirstFacts
  <1>8. wpc \in {"notice", "drop"} => whead \in live /\ link[whead] \in live
    <2> SUFFICES ASSUME wpc \in {"notice", "drop"} PROVE whead \in live /\ link[whead] \in live
      OBVIOUS
    <2>1. Len(batch) >= 2 /\ Chained(link, batch) /\ whead = First(batch)
      BY <1>0 DEF WorkerAt, Holding, ListsLinked
    <2>2. batch # <<>> /\ batch[2] \in live
      BY <1>1, <1>2, <2>1, TwoFacts
    <2>3. link[batch[1]] = batch[2]
      BY <1>1, <2>1, ChainCut
    <2> QED BY <1>7, <2>1, <2>2, <2>3
  <1>9. wpc = "free dropped" => whead \in live /\ link[whead] \in live
    <2> SUFFICES ASSUME wpc = "free dropped" PROVE whead \in live /\ link[whead] \in live
      OBVIOUS
    <2>1. Len(batch) = 2 /\ whead = First(batch) /\ link[batch[1]] = batch[2]
      BY <1>0 DEF WorkerAt, Holding, ListsLinked
    <2>0. Len(batch) = 2 BY <2>1
    <2>2. Len(batch) >= 2 BY <1>1, <2>0, LenTwo
    <2>3. batch # <<>> /\ batch[2] \in live
      BY <1>1, <1>2, <2>2, TwoFacts
    <2> QED BY <1>7, <2>1, <2>3
  <1>10. wpc = "recycle1" => whead \in live
    <2>1. wpc = "recycle1" => Len(batch) >= 1 /\ whead = First(batch)
      BY <1>0, <1>1 DEF WorkerAt, Holding
    <2>2. Len(batch) >= 1 => batch # <<>> BY <1>1, EmptySeq
    <2> QED BY <1>7, <2>1, <2>2
  <1>11. wpc = "recycle2" /\ new2 = Null => whead \in live
    BY <1>0, <1>7 DEF WorkerAt, Holding
  <1> QED BY <1>2, <1>3, <1>4, <1>6, <1>8, <1>9, <1>10, <1>11 DEF PointersLive

(* No pointer is followed that is NULL or points to a buffer already freed.      *)
THEOREM NoDangling == Spec => []PointersLive
  BY IInvHolds, IInvPointers, PTL

=============================================================================
