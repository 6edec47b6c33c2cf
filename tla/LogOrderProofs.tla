--------------------------- MODULE LogOrderProofs ---------------------------
(***************************************************************************)
(* What becomes of the records: the second half of the inductive invariant   *)
(* of LogBuffers, and the proof that the buffers implement AsyncLog, for     *)
(* every heap, allocator, buffer capacity, record length, drop limit and     *)
(* number of records.                                                        *)
(***************************************************************************)
EXTENDS LogBuffersProofs, FiniteSetTheorems

-----------------------------------------------------------------------------
(* The operators: what is in sequences of records and in lists of buffers.    *)

(* Appending a record adds its number.                                       *)
LEMMA ItemsOfAppend ==
  ASSUME NEW s \in Seq(Nat), NEW r \in Nat
  PROVE  /\ CellsOf(Append(s, r)) = CellsOf(s) \cup {r}
         /\ Append(s, r) \in Seq(Nat) /\ Append(s, r) # <<>>
  BY AppendProperties DEF CellsOf

(* The records of a buffer are the elements of its data.                     *)
LEMMA RecordsAre == \A b : Records(b) = CellsOf(data[b])
  BY DEF Records, CellsOf

(* A run is a sequence of consecutive numbers.                               *)
LEMMA RunFacts ==
  ASSUME NEW s \in Seq(Nat), Run(s)
  PROVE  \A i, j \in 1..Len(s) : (s[i] = s[j] => i = j) /\ (i < j => s[i] < s[j])
  <1>1. \A i \in 1..Len(s) : s[i] \in Nat /\ s[i] + 1 = s[1] + i /\ s[1] \in Nat
    BY DEF Run
  <1> SUFFICES ASSUME NEW i \in 1..Len(s), NEW j \in 1..Len(s)
               PROVE  (s[i] = s[j] => i = j) /\ (i < j => s[i] < s[j])
    OBVIOUS
  <1>2. s[i] \in Nat /\ s[j] \in Nat /\ s[1] \in Nat /\ i \in Nat /\ j \in Nat
    BY <1>1
  <1>3. s[i] + 1 = s[1] + i /\ s[j] + 1 = s[1] + j BY <1>1
  <1> QED BY <1>2, <1>3, SMTT(30)

(* What follows the first buffer of an ordered list is ordered, and newer.     *)
LEMMA OrderTail ==
  ASSUME NEW d, NEW s \in Seq(Buf), s # <<>>, InOrder(d, s)
  PROVE  /\ InOrder(d, Tail(s))
         /\ \A c \in CellsOf(Tail(s)) : Older(d, s[1], c)
         /\ CellsOf(Tail(s)) \subseteq CellsOf(s)
  <1> DEFINE t == Tail(s)
  <1>1. /\ t \in Seq(Buf) /\ Len(t) = Len(s) - 1 /\ Len(s) \in Nat /\ Len(s) > 0
        /\ \A i \in 1..Len(t) : t[i] = s[i + 1]
    BY HeadTailProperties, EmptySeq
  <1> HIDE DEF t
  <1>2. \A i \in 1..Len(t) : i + 1 \in 1..Len(s) /\ 1 \in 1..Len(s) /\ 1 < i + 1
    BY <1>1
  <1>3. InOrder(d, t)
    <2> SUFFICES ASSUME NEW i \in 1..Len(t), NEW j \in 1..Len(t), i < j
                 PROVE  Older(d, t[i], t[j])
      BY DEF InOrder
    <2>1. i + 1 < j + 1 /\ i + 1 \in 1..Len(s) /\ j + 1 \in 1..Len(s) BY <1>2
    <2>2. Older(d, s[i + 1], s[j + 1]) BY <2>1 DEF InOrder
    <2> QED BY <1>1, <2>2
  <1>4. \A c \in CellsOf(t) : Older(d, s[1], c) /\ c \in CellsOf(s)
    BY <1>1, <1>2 DEF InOrder, CellsOf
  <1> QED BY <1>3, <1>4 DEF t

(* A buffer newer than all of an ordered list may be added to it.              *)
LEMMA OrderAppend ==
  ASSUME NEW d, NEW s \in Seq(Buf), NEW b \in Buf, InOrder(d, s),
         \A c \in CellsOf(s) : Older(d, c, b)
  PROVE  InOrder(d, Append(s, b))
  <1> DEFINE t == Append(s, b)
  <1>1. /\ Len(t) = Len(s) + 1 /\ Len(s) \in Nat /\ t[Len(s) + 1] = b
        /\ \A i \in 1..Len(s) : t[i] = s[i] /\ s[i] \in CellsOf(s)
    BY AppendProperties, CellsOfSeq
  <1> HIDE DEF t
  <1> SUFFICES ASSUME NEW i \in 1..Len(t), NEW j \in 1..Len(t), i < j
               PROVE  Older(d, t[i], t[j])
    BY DEF InOrder, t
  <1>2. i \in 1..Len(s) BY <1>1
  <1>3. CASE j = Len(s) + 1 BY <1>1, <1>2, <1>3
  <1>4. CASE j # Len(s) + 1
    <2>1. j \in 1..Len(s) BY <1>1, <1>4
    <2> QED BY <1>1, <1>2, <2>1 DEF InOrder
  <1> QED BY <1>3, <1>4

(* What is ahead of a buffer in an ordered list that it ends.                 *)
LEMMA OrderFront ==
  ASSUME NEW d, NEW s \in Seq(Buf), NEW b \in Buf, InOrder(d, Append(s, b))
  PROVE  InOrder(d, s) /\ \A c \in CellsOf(s) : Older(d, c, b)
  <1> DEFINE t == Append(s, b)
  <1>1. /\ Len(t) = Len(s) + 1 /\ Len(s) \in Nat /\ t[Len(s) + 1] = b
        /\ \A i \in 1..Len(s) : t[i] = s[i]
    BY AppendProperties
  <1> HIDE DEF t
  <1>2. \A i \in 1..Len(s) : i \in 1..Len(t) /\ Len(s) + 1 \in 1..Len(t) /\ i < Len(s) + 1
    BY <1>1
  <1>3. InOrder(d, s) BY <1>1, <1>2 DEF InOrder, t
  <1>4. \A c \in CellsOf(s) : Older(d, c, b)
    <2> SUFFICES ASSUME NEW i \in 1..Len(s) PROVE Older(d, s[i], b) BY DEF CellsOf
    <2> QED BY <1>1, <1>2 DEF InOrder, t
  <1> QED BY <1>3, <1>4

(* The parts of an ordered list that is cut behind its second buffer.          *)
LEMMA OrderCut ==
  ASSUME NEW d, NEW s \in Seq(Buf), Len(s) >= 2, InOrder(d, s)
  PROVE  LET t == SubSeq(s, 1, 2)
             u == SubSeq(s, 3, Len(s))
         IN  /\ InOrder(d, t) /\ InOrder(d, u)
             /\ \A b \in CellsOf(t), c \in CellsOf(u) : Older(d, b, c)
  <1> DEFINE t == SubSeq(s, 1, 2)
             u == SubSeq(s, 3, Len(s))
  <1>1. Len(t) = 2 /\ t[1] = s[1] /\ t[2] = s[2] /\ Len(s) \in Nat
    OBVIOUS
  <1>2. Len(u) = Len(s) - 2 /\ \A i \in 1..Len(u) : u[i] = s[i + 2]
    <2>1. ASSUME NEW i \in 3..Len(s) PROVE s[i] \in Buf BY <1>1
    <2>2. /\ Len(u) = IF 3 <= Len(s) THEN Len(s) - 3 + 1 ELSE 0
          /\ \A i \in 1..(Len(s) - 3 + 1) : u[i] = s[3 + i - 1]
      BY <1>1, <2>1, SubSeqProperties
    <2> HIDE DEF t, u
    <2>3. \A n \in Nat : n >= 2 => (IF 3 <= n THEN n - 3 + 1 ELSE 0) = n - 2
      OBVIOUS
    <2>4. Len(u) = Len(s) - 2 BY <1>1, <2>2, <2>3
    <2>5. ASSUME NEW i \in 1..Len(u) PROVE u[i] = s[i + 2]
      <3>1. i \in 1..(Len(s) - 3 + 1) /\ 3 + i - 1 = i + 2 BY <1>1, <2>4
      <3> QED BY <3>1, <2>2
    <2> QED BY <2>4, <2>5
  <1> HIDE DEF t, u
  <1>3. InOrder(d, t)
    <2> SUFFICES ASSUME NEW i \in 1..2, NEW j \in 1..2, i < j PROVE Older(d, t[i], t[j])
      BY <1>1 DEF InOrder
    <2>1. i = 1 /\ j = 2 /\ 1 \in 1..Len(s) /\ 2 \in 1..Len(s) BY <1>1
    <2> QED BY <1>1, <2>1 DEF InOrder
  <1>4. InOrder(d, u)
    <2> SUFFICES ASSUME NEW i \in 1..Len(u), NEW j \in 1..Len(u), i < j PROVE Older(d, u[i], u[j])
      BY DEF InOrder
    <2>1. i + 2 \in 1..Len(s) /\ j + 2 \in 1..Len(s) /\ i + 2 < j + 2 BY <1>1, <1>2
    <2>2. Older(d, s[i + 2], s[j + 2]) BY <2>1 DEF InOrder
    <2> QED BY <1>2, <2>2
  <1>5. \A b \in CellsOf(t), c \in CellsOf(u) : Older(d, b, c)
    <2> SUFFICES ASSUME NEW i \in 1..2, NEW j \in 1..Len(u) PROVE Older(d, t[i], u[j])
      BY <1>1 DEF CellsOf
    <2>1. i \in 1..Len(s) /\ j + 2 \in 1..Len(s) /\ i < j + 2 BY <1>1, <1>2
    <2>2. Older(d, s[i], s[j + 2]) BY <2>1 DEF InOrder
    <2>3. i = 1 \/ i = 2 OBVIOUS
    <2> QED BY <1>1, <1>2, <2>2, <2>3
  <1> QED BY <1>3, <1>4, <1>5 DEF t, u

-----------------------------------------------------------------------------
(* Which buffers hold records that are not out yet.                           *)

(* From a place of a list on: what the write loop has still before it.         *)
LEMMA FromPosition ==
  ASSUME NEW s \in Seq(Buf), NEW p \in 1..Len(s), \A i, j \in 1..Len(s) : s[i] = s[j] => i = j
  PROVE  {s[i] : i \in {j \in 1..Len(s) : \E k \in 1..j : s[k] = s[p]}} = {s[i] : i \in p..Len(s)}
  <1>1. Len(s) \in Nat OBVIOUS
  <1>2. \A k \in 1..Len(s) : s[k] = s[p] => k = p OBVIOUS
  <1>3. ASSUME NEW j \in 1..Len(s)
        PROVE  (\E k \in 1..j : s[k] = s[p]) <=> j \in p..Len(s)
    <2>1. \A k \in 1..j : k \in 1..Len(s) BY <1>1
    <2>2. (\E k \in 1..j : s[k] = s[p]) <=> p \in 1..j BY <1>2, <2>1
    <2>3. p \in 1..j <=> j \in p..Len(s) BY <1>1
    <2> QED BY <2>2, <2>3
  <1>4. p..Len(s) \subseteq 1..Len(s) BY <1>1
  <1>5. {j \in 1..Len(s) : \E k \in 1..j : s[k] = s[p]} = p..Len(s)
    BY <1>3, <1>4
  <1> QED BY <1>5

(* Null is at no place of a list.                                            *)
LEMMA FromNull ==
  ASSUME NEW s \in Seq(Buf)
  PROVE  {s[i] : i \in {j \in 1..Len(s) : \E k \in 1..j : s[k] = Null}} = {}
  <1>1. \A k \in 1..Len(s) : s[k] # Null BY LogAssumption
  <1>2. Len(s) \in Nat OBVIOUS
  <1>3. \A j \in 1..Len(s) : \A k \in 1..j : k \in 1..Len(s) BY <1>2
  <1> QED BY <1>1, <1>3

(* The first buffer of a list has all of it before it.                         *)
LEMMA FromFirst ==
  ASSUME NEW s \in Seq(Buf), s # <<>>
  PROVE  {s[i] : i \in {j \in 1..Len(s) : \E k \in 1..j : s[k] = s[1]}} = CellsOf(s)
  <1>1. Len(s) \in Nat OBVIOUS
  <1>2. \A j \in 1..Len(s) : 1 \in 1..j BY <1>1
  <1>3. {j \in 1..Len(s) : \E k \in 1..j : s[k] = s[1]} = 1..Len(s) BY <1>2
  <1> QED BY <1>3 DEF CellsOf

(* The write loop: the buffers from the worker's pointer on.                  *)
LEMMA WritePosition ==
  ASSUME IInv, wpc = "write"
  PROVE  /\ node = Null => Unwritten = {}
         /\ node # Null =>
              \E p \in 1..Len(batch) : /\ node = batch[p]
                                       /\ Unwritten = {batch[i] : i \in p..Len(batch)}
  <1>0. /\ batch \in Seq(Buf) /\ Chained(link, batch)
        /\ node \in CellsOf(batch) \cup {Null}
    BY DEF IInv, TypeOK, ListsLinked, WorkerAt
  <1>1. Unwritten = {batch[i] : i \in {j \in 1..Len(batch) : \E k \in 1..j : batch[k] = node}}
    BY DEF Unwritten, Cutting
  <1>2. ASSUME node = Null PROVE Unwritten = {}
    BY <1>0, <1>1, <1>2, FromNull
  <1>3. ASSUME node # Null
        PROVE  \E p \in 1..Len(batch) : /\ node = batch[p]
                                        /\ Unwritten = {batch[i] : i \in p..Len(batch)}
    <2>1. PICK p \in 1..Len(batch) : node = batch[p] BY <1>0, <1>3 DEF CellsOf
    <2>2. \A i, j \in 1..Len(batch) : batch[i] = batch[j] => i = j BY <1>0 DEF Chained
    <2> QED BY <1>0, <1>1, <2>1, <2>2, FromPosition
  <1> QED BY <1>2, <1>3

(* Elsewhere: the whole batch while it is cut, and nothing of it when it has    *)
(* been written.                                                              *)
LEMMA UnwrittenElse ==
  /\ Cutting => Unwritten = CellsOf(batch) \cup CellsOf(cut)
  /\ ~Cutting /\ wpc # "write" => Unwritten = {}
  BY DEF Unwritten, Cutting

(* The same after a step.                                                     *)
LEMMA UnwrittenNext ==
  /\ Cutting' => Unwritten' = CellsOf(batch') \cup CellsOf(cut')
  /\ ~Cutting' /\ wpc' # "write" => Unwritten' = {}
  <1>1. Cutting' => wpc' # "write" BY DEF Cutting
  <1> QED BY <1>1 DEF Unwritten

(* Only the worker's buffers are unwritten and not the front end's.             *)
LEMMA UnwrittenWorkers ==
  ASSUME IInv
  PROVE  Unwritten \subseteq CellsOf(batch) \cup CellsOf(cut)
  <1>0. batch \in Seq(Buf) BY DEF IInv, TypeOK
  <1>1. CASE wpc = "write" BY <1>0, <1>1 DEF Unwritten, CellsOf
  <1>2. CASE wpc # "write" BY <1>2, UnwrittenElse
  <1> QED BY <1>1, <1>2

(* Every holder is an allocated cell.                                        *)
LEMMA HoldersLive ==
  ASSUME IInv
  PROVE  /\ Holders \subseteq live /\ live \subseteq Buf
         /\ CellsOf(batch) \cup CellsOf(cut) \subseteq live
         /\ CellsOf(queue) \cup {curr} \subseteq live
         /\ CellsOf(queue) \cup {curr} \subseteq Holders
         /\ (CellsOf(batch) \cup CellsOf(cut)) \cap FrontCells = {}
  BY UnwrittenWorkers, LogAssumption
  DEF IInv, TypeOK, NoLeak, Separation, Holders, FrontCells, WorkerCells

(* Records stay divided when buffers without any become holders or cease to be. *)
LEMMA DividedKept ==
  ASSUME Divided, UNCHANGED <<file, dropped, accepted>>,
         \A b \in Holders' : Records(b)' # {} => b \in Holders /\ Records(b)' = Records(b),
         \A b \in Holders : Records(b) # {} => b \in Holders' /\ Records(b)' = Records(b)
  PROVE  Divided'
  <1>1. ASSUME NEW r \in 1..accepted'
        PROVE  r \in CellsOf(file') \/ r \in dropped' \/ \E b \in Holders' : r \in Records(b)'
    <2>1. r \in CellsOf(file) \/ r \in dropped \/ \E b \in Holders : r \in Records(b)
      BY DEF Divided
    <2> QED BY <2>1
  <1>2. \A b \in Holders' : Records(b)' \cap (CellsOf(file') \cup dropped') = {}
    BY DEF Divided
  <1>3. \A b, c \in Holders' : b # c => Records(b)' \cap Records(c)' = {}
    BY DEF Divided
  <1>4. CellsOf(file') \cap dropped' = {} /\ \A i, j \in 1..Len(file') : file'[i] = file'[j] => i = j
    BY DEF Divided
  <1> QED BY <1>1, <1>2, <1>3, <1>4 DEF Divided

(* The order of a list depends on what is in its own buffers only.             *)
LEMMA OrderFrame ==
  ASSUME NEW d, NEW e, NEW s \in Seq(Buf), InOrder(d, s), \A b \in CellsOf(s) : e[b] = d[b]
  PROVE  InOrder(e, s)
  BY CellsOfSeq DEF InOrder, Older

(* Order outlasts what takes buffers from the worker's lists only.             *)
LEMMA OrderedKept ==
  ASSUME Ordered, UNCHANGED <<curr, queue>>,
         batch' \in Seq(Buf), cut' \in Seq(Buf), queue \in Seq(Buf), curr \in Buf,
         CellsOf(batch') \cup CellsOf(cut') \subseteq CellsOf(batch) \cup CellsOf(cut),
         \A b \in CellsOf(queue) \cup {curr} \cup CellsOf(batch') \cup CellsOf(cut') : data'[b] = data[b],
         InOrder(data, batch'), InOrder(data, cut'),
         \A b \in CellsOf(batch'), c \in CellsOf(cut') : Older(data, b, c)
  PROVE  Ordered'
  <1>1. CellsOf(Append(queue, curr)) = CellsOf(queue) \cup {curr} /\ Append(queue, curr) \in Seq(Buf)
    BY CellsOfAppend, AppendFacts
  <1>2. InOrder(data', Append(queue, curr)) BY <1>1, OrderFrame DEF Ordered
  <1>3. InOrder(data', batch') /\ InOrder(data', cut') BY OrderFrame
  <1>4. \A b \in CellsOf(batch'), c \in CellsOf(cut') : Older(data', b, c)
    BY DEF Older
  <1>5. \A b \in CellsOf(batch') \cup CellsOf(cut'), c \in CellsOf(queue) \cup {curr} : Older(data', b, c)
    BY DEF Ordered, Older
  <1> QED BY <1>2, <1>3, <1>4, <1>5 DEF Ordered

(* The contents outlast what only empties or frees buffers.                     *)
LEMMA ContentsKept ==
  ASSUME Contents, UNCHANGED <<curr, queue, accepted>>,
         \A b \in live' : \/ b \in live /\ data'[b] = data[b] /\ size'[b] = size[b]
                          \/ data'[b] = <<>> /\ size'[b] = 0,
         \A b \in CellsOf(queue) \cup {curr} : data'[b] = data[b],
         CellsOf(file') \cup dropped' \cup notices' \subseteq 1..accepted,
         Cutting' => data'[batch'[1]] # <<>>
  PROVE  Contents'
  <1>1. \A b : Records(b)' = CellsOf(data'[b]) BY DEF Records, CellsOf
  <1>2. Run(<<>>) /\ CellsOf(<<>>) = {} BY DEF Run, CellsOf
  <1>3. \A b \in live : Run(data[b]) /\ CellsOf(data[b]) \subseteq 1..accepted
                        /\ (size[b] # 0 => data[b] # <<>>)
    BY RecordsAre DEF Contents
  <1>4. \A b \in live' : Run(data'[b]) /\ Records(b)' \subseteq 1..accepted
                         /\ (size'[b] # 0 => data'[b] # <<>>)
    BY <1>1, <1>2, <1>3
  <1>5. \A b \in CellsOf(queue) : data'[b] # <<>>
    BY DEF Contents
  <1>6. data'[curr] # <<>> => data'[curr][1] + Len(data'[curr]) = accepted + 1
    BY DEF Contents
  <1> QED BY <1>4, <1>5, <1>6 DEF Contents

(* A notice stays ahead of the batch while nothing is dropped.                 *)
LEMMA NoticeKept ==
  ASSUME NoticeAhead, notices \subseteq notices', UNCHANGED dropped, Noticed' => Noticed,
         CellsOf(batch') \cup CellsOf(cut') \subseteq CellsOf(batch) \cup CellsOf(cut),
         \A b \in CellsOf(batch') \cup CellsOf(cut') : data'[b] = data[b]
  PROVE  NoticeAhead'
  <1> SUFFICES ASSUME Noticed'
               PROVE  \E n \in notices' \ dropped' :
                        \A b \in CellsOf(batch') \cup CellsOf(cut') : \A x \in Records(b)' : x < n
    BY DEF NoticeAhead, CellsOf
  <1>1. PICK n \in notices \ dropped :
               \A b \in CellsOf(batch) \cup CellsOf(cut) : \A x \in CellsOf(data[b]) : x < n
    BY RecordsAre DEF NoticeAhead
  <1>2. \A b : Records(b)' = CellsOf(data'[b]) BY DEF Records, CellsOf
  <1> QED BY <1>1, <1>2

(* A batch that is cut has two buffers.                                       *)
LEMMA CutLength ==
  ASSUME TypeOK, WorkerAt, Cutting
  PROVE  Len(batch) >= 2
  <1>1. wpc \in {"notice", "drop"} => Len(batch) >= 2 BY DEF WorkerAt
  <1>2. wpc = "free dropped" => Len(batch) = 2 BY DEF WorkerAt
  <1>3. Len(batch) = 2 => Len(batch) >= 2 OBVIOUS
  <1> QED BY <1>1, <1>2, <1>3 DEF Cutting

(* The steps that move a program counter or running only.                     *)
LEMMA QuietOrder ==
  ASSUME IInv, CInv, Exit \/ Joined \/ Check \/ Lock \/ Timeout \/ Relock \/ EndWrite \/ UNCHANGED vars
  PROVE  CInv'
  <1> USE DEF heapVars, instVars, listVars, histVars, vars
  <1>1. /\ UNCHANGED <<size, data, live, curr, next, queue, batch, cut, node>>
        /\ UNCHANGED <<accepted, file, dropped, notices>>
    BY DEF Exit, Joined, Check, Lock, Timeout, Relock, EndWrite
  <1>2. \/ wpc' = wpc
        \/ ~Cutting /\ wpc # "write" /\ ~Cutting' /\ wpc' # "write"
        \/ wpc = "write" /\ node = Null /\ wpc' = "recycle1"
    BY DEF Cutting, Exit, Joined, Check, Lock, Timeout, Relock, EndWrite
  <1>3. (Cutting' => Cutting) /\ (Noticed' => Noticed)
    BY <1>2 DEF Cutting, Noticed
  <1>4. /\ batch \in Seq(Buf) /\ cut \in Seq(Buf) /\ queue \in Seq(Buf) /\ curr \in Buf
        /\ CellsOf(file') = CellsOf(file) /\ CellsOf(batch') = CellsOf(batch) /\ CellsOf(cut') = CellsOf(cut)
    BY <1>1 DEF IInv, TypeOK, CellsOf
  <1>5. Contents'
    <2>1. /\ CellsOf(file) \cup dropped \cup notices \subseteq 1..accepted
          /\ Cutting => data[batch[1]] # <<>>
      BY DEF CInv, Contents
    <2> QED BY <1>1, <1>3, <1>4, <2>1, ContentsKept DEF CInv
  <1>6. Ordered'
    <2>1. /\ InOrder(data, batch) /\ InOrder(data, cut)
          /\ \A b \in CellsOf(batch), c \in CellsOf(cut) : Older(data, b, c)
      BY DEF CInv, Ordered
    <2> QED BY <1>1, <1>4, <2>1, OrderedKept DEF CInv
  <1>7. NoticeAhead' BY <1>1, <1>3, <1>4, NoticeKept DEF CInv
  <1>8. Unwritten' = Unwritten
    <2>1. CASE wpc' = wpc
      <3>1. Cutting' <=> Cutting BY <2>1 DEF Cutting
      <3> QED BY <1>1, <2>1, <3>1 DEF Unwritten, CellsOf
    <2>2. CASE ~Cutting /\ wpc # "write" /\ ~Cutting' /\ wpc' # "write"
      BY <2>2 DEF Unwritten
    <2>3. CASE wpc = "write" /\ node = Null /\ wpc' = "recycle1"
      <3>1. ~Cutting' /\ wpc' # "write" BY <2>3 DEF Cutting
      <3> QED BY <2>3, <3>1, WritePosition DEF Unwritten
    <2> QED BY <1>2, <2>1, <2>2, <2>3
  <1>9. Holders' = Holders BY <1>1, <1>8 DEF Holders, FrontCells, CellsOf
  <1>10. Divided' BY <1>1, <1>9, DividedKept DEF CInv, Records
  <1> QED BY <1>5, <1>6, <1>7, <1>10 DEF CInv

-----------------------------------------------------------------------------
(* append(), whoever calls it.                                               *)

(* The new record goes behind what is in the buffer that is current then: the   *)
(* old one, or an empty one that follows it.                                  *)
LEMMA AppendData ==
  ASSUME IInv, CInv, NEW len \in Lens, append(len)
  PROVE  /\ accepted' = accepted + 1 /\ accepted \in Nat
         /\ curr' \in Buf /\ curr' \notin CellsOf(batch) \cup CellsOf(cut)
         /\ live' = live \cup {curr'} /\ FrontCells' = FrontCells \cup {curr'}
         /\ \A c \in Buf \ {curr'} : data'[c] = data[c] /\ size'[c] = size[c]
         /\ data' \in [Buf -> Seq(Nat)]
         /\ \/ /\ curr' = curr /\ queue' = queue
               /\ data'[curr'] = Append(data[curr'], accepted + 1)
            \/ /\ curr' # curr /\ queue' = Append(queue, curr) /\ data[curr] # <<>>
               /\ curr' \notin CellsOf(queue)
               /\ data'[curr'] = <<accepted + 1>>
               /\ curr' \in live => data[curr'] = <<>>
  <1> USE DEF instVars
  <1>0. TypeOK /\ NoLeak /\ Separation /\ ReserveFresh /\ Contents BY DEF IInv, CInv
  <1>1. /\ curr \in Buf /\ accepted \in Nat /\ len \in Nat /\ len < BufferCap /\ BufferCap \in Nat
        /\ queue \in Seq(Buf) /\ batch \in Seq(Buf) /\ cut \in Seq(Buf)
        /\ size \in [Buf -> Nat] /\ data \in [Buf -> Seq(Nat)]
        /\ live \in SUBSET Buf /\ Null \notin Buf /\ next \in Ptr
        /\ accepted' = accepted + 1
    BY <1>0, LogAssumption DEF TypeOK, append
  <1>2. CellsOf(batch) \cup CellsOf(cut) \subseteq WorkerCells /\ WorkerCells \subseteq live
    BY <1>0 DEF NoLeak, WorkerCells
  <1>3. curr \in FrontCells /\ FrontCells \cap WorkerCells = {} /\ FrontCells \subseteq live
        /\ CellsOf(queue) \subseteq FrontCells
    BY <1>0, <1>1 DEF NoLeak, Separation, FrontCells
  <1>4. CASE AppendToCurrent(len)
    <2>1. /\ UNCHANGED <<live, curr, next, queue>>
          /\ size' = [size EXCEPT ![curr] = @ + len]
          /\ data' = [data EXCEPT ![curr] = Append(@, accepted + 1)]
      BY <1>4 DEF AppendToCurrent
    <2>2. Append(data[curr], accepted + 1) \in Seq(Nat) BY <1>1
    <2>3. data'[curr'] = Append(data[curr'], accepted + 1) /\ data' \in [Buf -> Seq(Nat)]
      BY <1>1, <2>1, <2>2
    <2>4. FrontCells' = FrontCells BY <2>1 DEF FrontCells
    <2> QED BY <1>1, <1>2, <1>3, <2>1, <2>3, <2>4
  <1>5. ASSUME NEW b, (b = next /\ next # Null) \/ (next = Null /\ b \in Calloc(live)),
               ~Fits(len), PushCurrent(b, len)
        PROVE  /\ curr' = b /\ b \in Buf /\ b # curr /\ queue' = Append(queue, curr)
               /\ b \notin CellsOf(queue) /\ b \notin WorkerCells
               /\ live' = live \cup {b} /\ FrontCells' = FrontCells \cup {b}
               /\ \A c \in Buf \ {b} : data'[c] = data[c] /\ size'[c] = size[c]
               /\ data' \in [Buf -> Seq(Nat)] /\ data'[b] = <<accepted + 1>>
               /\ data[curr] # <<>>
               /\ b \in live => data[b] = <<>>
    <2>2. b \in Buf /\ b # curr /\ b \notin CellsOf(queue) /\ b \notin WorkerCells
          /\ (b \in live => b = next /\ data[b] = <<>>)
      <3>1. CASE b = next /\ next # Null
        BY <1>0, <1>1, <1>3, <3>1 DEF Ptr, NoLeak, FrontCells, ReserveFresh, Fresh
      <3>2. CASE next = Null /\ b \in Calloc(live)
        <4>1. b \in Buf \ live BY <1>1, <3>2, LogAssumption
        <4> QED BY <1>2, <1>3, <4>1
      <3> QED BY <1>5, <3>1, <3>2
    <2>3. (IF b = next THEN data[b] ELSE <<>>) = <<>>
      BY <1>0, <1>1, <1>5, <2>2 DEF ReserveFresh, Fresh
    <2>4. /\ curr' = b /\ next' = Null /\ queue' = Append(queue, curr) /\ live' = live \cup {b}
          /\ data' = [data EXCEPT ![b] = Append(IF b = next THEN @ ELSE <<>>, accepted + 1)]
          /\ size' = [size EXCEPT ![b] = (IF b = next THEN @ ELSE 0) + len]
      BY <1>5 DEF PushCurrent
    <2>5. Append(<<>>, accepted + 1) = <<accepted + 1>> /\ <<accepted + 1>> \in Seq(Nat)
      BY <1>1
    <2>6. /\ \A c \in Buf \ {b} : data'[c] = data[c] /\ size'[c] = size[c]
          /\ data'[b] = <<accepted + 1>> /\ data' \in [Buf -> Seq(Nat)]
      BY <1>1, <2>2, <2>3, <2>4, <2>5
    <2>7. data[curr] # <<>>
      <3>1. size[curr] # 0 BY <1>1, <1>5 DEF Fits
      <3>2. curr \in live BY <1>3
      <3>3. \A c \in live : size[c] # 0 => data[c] # <<>> BY <1>0, Zenon DEF Contents
      <3> QED BY <3>1, <3>2, <3>3
    <2>8. FrontCells' = FrontCells \cup {b}
      <3>1. CellsOf(queue') = CellsOf(queue) \cup {curr} BY <1>1, <2>4, CellsOfAppend
      <3>2. next # Null => next = b BY <1>5
      <3> QED BY <1>1, <2>2, <2>4, <3>1, <3>2 DEF FrontCells
    <2> QED BY <2>2, <2>4, <2>6, <2>7, <2>8
  <1>6. CASE SwitchToSpare(len) BY <1>1, <1>2, <1>5, <1>6 DEF SwitchToSpare
  <1>7. CASE SwitchToCalloc(len) BY <1>1, <1>2, <1>5, <1>7 DEF SwitchToCalloc
  <1> QED BY <1>4, <1>6, <1>7 DEF append

(* A run with the next number behind it is a run.                             *)
LEMMA RunAppend ==
  ASSUME NEW s \in Seq(Nat), NEW r \in Nat, Run(s),
         s # <<>> => s[1] + Len(s) = r
  PROVE  /\ Run(Append(s, r))
         /\ Append(s, r)[1] + Len(Append(s, r)) = r + 1
  <1> DEFINE t == Append(s, r)
  <1>1. /\ Len(t) = Len(s) + 1 /\ Len(s) \in Nat /\ t[Len(s) + 1] = r
        /\ \A i \in 1..Len(s) : t[i] = s[i]
        /\ s = <<>> => Len(s) = 0
    BY AppendProperties, EmptySeq
  <1> HIDE DEF t
  <1>2. CASE s = <<>>
    <2>1. Len(t) = 1 /\ t[1] = r BY <1>1, <1>2
    <2> QED BY <2>1 DEF Run, t
  <1>3. CASE s # <<>>
    <2>1. 1 \in 1..Len(s) BY <1>3, EmptySeq
    <2>2. t[1] = s[1] /\ s[1] \in Nat BY <1>1, <2>1
    <2>3. ASSUME NEW i \in 1..Len(t) PROVE t[i] + 1 = t[1] + i
      <3>1. CASE i = Len(s) + 1
        <4>1. t[i] = r /\ s[1] + Len(s) = r BY <1>1, <1>3, <3>1
        <4> QED BY <1>1, <2>2, <3>1, <4>1
      <3>2. CASE i # Len(s) + 1
        <4>1. i \in 1..Len(s) BY <1>1, <3>2
        <4> QED BY <1>1, <2>2, <4>1 DEF Run
      <3> QED BY <3>1, <3>2
    <2> QED BY <1>1, <1>3, <2>2, <2>3 DEF Run, t
  <1> QED BY <1>2, <1>3

(* What append() leaves in the buffers.                                      *)
LEMMA AppendContents ==
  ASSUME IInv, CInv, NEW len \in Lens, append(len), UNCHANGED <<batch, file, dropped>>,
         notices' \in {notices, notices \cup {accepted + 1}},
         Cutting' => Cutting
  PROVE  Contents'
  <1> DEFINE B == curr'
             r == accepted + 1
  <1>0. TypeOK /\ NoLeak /\ WorkerAt /\ Contents BY DEF IInv, CInv
  <1>1. /\ data \in [Buf -> Seq(Nat)] /\ live \subseteq Buf /\ queue \in Seq(Buf) /\ batch \in Seq(Buf)
        /\ accepted \in Nat /\ curr \in Buf /\ curr \in live
    BY <1>0, LogAssumption DEF TypeOK, NoLeak, FrontCells
  <1>2. /\ accepted' = r /\ B \in Buf /\ B \notin CellsOf(batch)
        /\ live' = live \cup {B}
        /\ \A c \in Buf \ {B} : data'[c] = data[c] /\ size'[c] = size[c]
        /\ \/ B = curr /\ queue' = queue /\ data'[B] = Append(data[B], r)
           \/ queue' = Append(queue, curr) /\ data[curr] # <<>> /\ data'[B] = <<r>> /\ B # curr
    BY AppendData
  <1>3. /\ \A b \in live : Run(data[b]) /\ CellsOf(data[b]) \subseteq 1..accepted
                           /\ (size[b] # 0 => data[b] # <<>>)
        /\ data[curr] # <<>> => data[curr][1] + Len(data[curr]) = r
        /\ CellsOf(file) \cup dropped \cup notices \subseteq 1..accepted
        /\ \A b \in CellsOf(queue) : data[b] # <<>>
        /\ Cutting => data[batch[1]] # <<>>
    BY <1>0, RecordsAre DEF Contents
  <1>4. /\ Run(data'[B]) /\ data'[B][1] + Len(data'[B]) = r + 1
        /\ CellsOf(data'[B]) \subseteq 1..r /\ data'[B] # <<>>
    <2>1. CASE B = curr /\ data'[B] = Append(data[B], r)
      <3>1. r \in Nat /\ data[B] \in Seq(Nat) /\ Run(data[B]) /\ CellsOf(data[B]) \subseteq 1..accepted
        BY <1>1, <1>2, <1>3, <2>1
      <3>2. data[B] # <<>> => data[B][1] + Len(data[B]) = r BY <1>3, <2>1
      <3>3. Run(data'[B]) /\ data'[B][1] + Len(data'[B]) = r + 1
        BY <2>1, <3>1, <3>2, RunAppend
      <3>4. CellsOf(data'[B]) = CellsOf(data[B]) \cup {r} /\ data'[B] # <<>>
        BY <2>1, <3>1, ItemsOfAppend
      <3>5. \A i \in 1..accepted : i \in 1..r BY <1>1
      <3>6. r \in 1..r BY <1>1
      <3> QED BY <3>1, <3>3, <3>4, <3>5, <3>6
    <2>2. CASE data'[B] = <<r>>
      <3>1. Len(<<r>>) = 1 /\ <<r>>[1] = r /\ <<r>> # <<>> OBVIOUS
      <3> QED BY <1>1, <2>2, <3>1 DEF Run, CellsOf
    <2> QED BY <1>2, <2>1, <2>2
  <1> HIDE DEF B, r
  <1>5. accepted \in Nat BY <1>1
  <1>6. \A i \in 1..accepted : i \in 1..r BY <1>5 DEF r
  <1>7. \A b \in live' : Run(data'[b]) /\ CellsOf(data'[b]) \subseteq 1..r
                         /\ (size'[b] # 0 => data'[b] # <<>>)
    BY <1>1, <1>2, <1>3, <1>4, <1>6
  <1>8. CellsOf(file') \cup dropped' \cup notices' \subseteq 1..r
    <2>1. r \in 1..r BY <1>5 DEF r
    <2>2. CellsOf(file') = CellsOf(file) BY DEF CellsOf
    <2> QED BY <1>3, <1>6, <2>1, <2>2 DEF r
  <1>9. \A b \in CellsOf(queue') : data'[b] # <<>>
    <2>1. CellsOf(queue') \subseteq CellsOf(queue) \cup {curr} /\ (B = curr \/ data[curr] # <<>>)
      BY <1>1, <1>2, CellsOfAppend
    <2>2. CellsOf(queue') \subseteq Buf BY <1>1, <2>1, CellsOfSeq
    <2>3. \A b \in CellsOf(queue) : data[b] # <<>> BY <1>3
    <2> QED BY <1>2, <1>4, <2>1, <2>2, <2>3
  <1>10. Cutting' => data'[batch'[1]] # <<>>
    <2> SUFFICES ASSUME Cutting PROVE data'[batch[1]] # <<>>
      OBVIOUS
    <2>1. Len(batch) >= 2 BY <1>0, CutLength
    <2>2. batch[1] \in CellsOf(batch) /\ batch[1] \in Buf BY <1>1, <2>1, TwoFacts, CellsOfSeq
    <2> QED BY <1>2, <1>3, <2>2
  <1>11. \A b : Records(b)' = CellsOf(data'[b]) BY DEF Records, CellsOf
  <1> QED BY <1>2, <1>4, <1>7, <1>8, <1>9, <1>10, <1>11 DEF Contents, B

(* append() adds to the newest buffer, or makes a newer one.                  *)
LEMMA AppendOrdered ==
  ASSUME IInv, CInv, NEW len \in Lens, append(len), UNCHANGED <<batch, cut>>
  PROVE  Ordered'
  <1> DEFINE B == curr'
             r == accepted + 1
             W == CellsOf(batch) \cup CellsOf(cut)
  <1>0. TypeOK /\ NoLeak /\ Contents /\ Ordered BY DEF IInv, CInv
  <1>1. /\ data \in [Buf -> Seq(Nat)] /\ live \subseteq Buf /\ accepted \in Nat
        /\ queue \in Seq(Buf) /\ batch \in Seq(Buf) /\ cut \in Seq(Buf)
        /\ curr \in Buf /\ curr \in live /\ CellsOf(queue) \subseteq live /\ W \subseteq live
        /\ curr \notin CellsOf(queue)
    BY <1>0, LogAssumption DEF TypeOK, NoLeak, FrontCells, WorkerCells
  <1>2. /\ B \in Buf /\ B \notin W
        /\ \A c \in Buf \ {B} : data'[c] = data[c]
        /\ \/ B = curr /\ queue' = queue /\ data'[B] = Append(data[B], r)
           \/ /\ B # curr /\ queue' = Append(queue, curr)
              /\ B \notin CellsOf(queue) /\ data'[B] = <<r>>
    BY AppendData
  <1>3. \A b \in live : CellsOf(data[b]) \subseteq 1..accepted
    BY <1>0, RecordsAre DEF Contents
  <1>4. \A x \in 1..accepted : x < r BY <1>1
  <1>5. /\ InOrder(data, Append(queue, curr)) /\ InOrder(data, batch) /\ InOrder(data, cut)
        /\ \A b \in CellsOf(batch), c \in CellsOf(cut) : Older(data, b, c)
        /\ \A b \in W, c \in CellsOf(queue) \cup {curr} : Older(data, b, c)
    BY <1>0 DEF Ordered
  <1>6. InOrder(data, queue) /\ \A c \in CellsOf(queue) : Older(data, c, curr)
    BY <1>1, <1>5, OrderFront
  <1> HIDE DEF B, W
  <1>7. ASSUME NEW b \in live, b # B, B = curr => Older(data, b, curr)
        PROVE  Older(data', b, B)
    <2>1. data'[b] = data[b] /\ CellsOf(data[b]) \subseteq 1..accepted BY <1>1, <1>2, <1>3, <1>7
    <2>2. CASE B = curr /\ data'[B] = Append(data[B], r)
      <3>1. CellsOf(data'[B]) = CellsOf(data[B]) \cup {r} BY <1>1, <2>2, ItemsOfAppend
      <3> QED BY <1>4, <1>7, <2>1, <2>2, <3>1 DEF Older
    <2>3. CASE data'[B] = <<r>>
      <3>1. CellsOf(data'[B]) = {r} BY <2>3 DEF CellsOf
      <3> QED BY <1>4, <2>1, <3>1 DEF Older
    <2> QED BY <1>2, <2>2, <2>3
  <1>8. \A b, c \in Buf \ {B} : Older(data, b, c) => Older(data', b, c)
    BY <1>2 DEF Older
  <1>9. CellsOf(batch) \subseteq Buf \ {B} /\ CellsOf(cut) \subseteq Buf \ {B} /\ W \subseteq Buf \ {B}
    BY <1>1, <1>2 DEF W
  <1>10. InOrder(data', batch) /\ InOrder(data', cut)
    BY <1>1, <1>2, <1>5, <1>9, OrderFrame
  <1>11. \A b \in CellsOf(batch), c \in CellsOf(cut) : Older(data', b, c)
    BY <1>5, <1>8, <1>9
  <1>12. CASE B = curr /\ queue' = queue
    <2>1. CellsOf(queue) \subseteq Buf \ {B} BY <1>1, <1>12
    <2>2. InOrder(data', queue) BY <1>1, <1>2, <1>6, <2>1, OrderFrame
    <2>3. \A c \in CellsOf(queue) : Older(data', c, B) BY <1>1, <1>6, <1>7, <1>12, <2>1
    <2>4. InOrder(data', Append(queue, B)) BY <1>1, <1>2, <2>2, <2>3, OrderAppend
    <2>5. \A b \in W : Older(data', b, B) BY <1>1, <1>5, <1>7, <1>9, <1>12
    <2>6. \A b \in W, c \in CellsOf(queue) : Older(data', b, c) BY <1>5, <1>8, <1>9, <2>1
    <2> QED BY <1>10, <1>11, <1>12, <2>4, <2>5, <2>6 DEF Ordered, B, W
  <1>13. CASE B # curr /\ queue' = Append(queue, curr) /\ B \notin CellsOf(queue)
    <2>1. /\ CellsOf(queue') = CellsOf(queue) \cup {curr} /\ queue' \in Seq(Buf)
      BY <1>1, <1>13, CellsOfAppend, AppendFacts
    <2>2. CellsOf(queue') \subseteq Buf \ {B} /\ CellsOf(queue') \subseteq live
      BY <1>1, <1>13, <2>1
    <2>3. InOrder(data', queue') BY <1>2, <1>5, <1>13, <2>1, <2>2, OrderFrame
    <2>4. \A c \in CellsOf(queue') : Older(data', c, B) BY <1>7, <1>13, <2>2
    <2>5. InOrder(data', Append(queue', B)) BY <1>2, <2>1, <2>3, <2>4, OrderAppend
    <2>6. \A b \in W : Older(data', b, B) BY <1>1, <1>7, <1>9, <1>13
    <2>7. \A b \in W, c \in CellsOf(queue') : Older(data', b, c) BY <1>5, <1>8, <1>9, <2>1, <2>2
    <2> QED BY <1>10, <1>11, <2>5, <2>6, <2>7 DEF Ordered, B, W
  <1> QED BY <1>2, <1>12, <1>13

(* The record appended has one place: the current buffer.                     *)
LEMMA AppendDivided ==
  ASSUME IInv, CInv, NEW len \in Lens, append(len), UNCHANGED <<file, dropped>>,
         Unwritten' = Unwritten
  PROVE  Divided'
  <1> DEFINE B == curr'
             r == accepted + 1
  <1>0. TypeOK /\ Contents /\ Divided BY DEF IInv, CInv
  <1>1. /\ data \in [Buf -> Seq(Nat)] /\ live \subseteq Buf /\ accepted \in Nat
        /\ curr \in Holders /\ Holders \subseteq live
    BY <1>0, HoldersLive DEF TypeOK
  <1>2. /\ B \in Buf /\ accepted' = r /\ FrontCells' = FrontCells \cup {B}
        /\ \A c \in Buf \ {B} : data'[c] = data[c]
        /\ \/ B = curr /\ data'[B] = Append(data[B], r)
           \/ data'[B] = <<r>> /\ (B \in live => data[B] = <<>>)
    BY AppendData
  <1>3. Holders' = Holders \cup {B} BY <1>2 DEF Holders
  <1>4. /\ \A b \in live : CellsOf(data[b]) \subseteq 1..accepted
        /\ CellsOf(file) \cup dropped \subseteq 1..accepted
    BY <1>0, RecordsAre DEF Contents
  <1>5. /\ r \notin 1..accepted
        /\ \A i \in 1..r : i \in 1..accepted \/ i = r
    BY <1>1
  <1>6. /\ \A i \in 1..accepted :
             i \in CellsOf(file) \/ i \in dropped \/ \E b \in Holders : i \in CellsOf(data[b])
        /\ \A b \in Holders : CellsOf(data[b]) \cap (CellsOf(file) \cup dropped) = {}
        /\ \A b, c \in Holders : b # c => CellsOf(data[b]) \cap CellsOf(data[c]) = {}
        /\ CellsOf(file) \cap dropped = {}
        /\ \A i, j \in 1..Len(file) : file[i] = file[j] => i = j
    BY <1>0, RecordsAre DEF Divided
  <1>7. IF B \in Holders THEN CellsOf(data'[B]) = CellsOf(data[B]) \cup {r} ELSE CellsOf(data'[B]) = {r}
    <2>1. CASE B = curr /\ data'[B] = Append(data[B], r)
      BY <1>1, <2>1, ItemsOfAppend
    <2>2. CASE data'[B] = <<r>> /\ (B \in live => data[B] = <<>>)
      <3>1. CellsOf(<<r>>) = {r} /\ CellsOf(<<>>) = {} BY DEF CellsOf
      <3> QED BY <1>1, <2>2, <3>1
    <2> QED BY <1>2, <2>1, <2>2
  <1> HIDE DEF B
  <1>8. \A b \in Holders \ {B} : CellsOf(data'[b]) = CellsOf(data[b]) BY <1>1, <1>2
  <1>9. \A b : Records(b)' = CellsOf(data'[b]) BY DEF Records, CellsOf
  <1>10. CellsOf(file') = CellsOf(file) BY DEF CellsOf
  <1> HIDE DEF r
  <1>11. \A i \in 1..r : i \in CellsOf(file) \/ i \in dropped \/ \E b \in Holders' : i \in CellsOf(data'[b])
    <2> SUFFICES ASSUME NEW i \in 1..r, i \notin CellsOf(file), i \notin dropped
                 PROVE  \E b \in Holders' : i \in CellsOf(data'[b])
      OBVIOUS
    <2>1. CASE i = r BY <1>3, <1>7, <2>1
    <2>2. CASE i \in 1..accepted
      <3>1. PICK b \in Holders : i \in CellsOf(data[b]) BY <1>6, <2>2
      <3> QED BY <1>3, <1>7, <1>8, <3>1
    <2> QED BY <1>5, <2>1, <2>2
  <1>12. \A b \in Holders' : CellsOf(data'[b]) \cap (CellsOf(file) \cup dropped) = {}
    BY <1>3, <1>4, <1>5, <1>6, <1>7, <1>8
  <1>13. \A b, c \in Holders' : b # c => CellsOf(data'[b]) \cap CellsOf(data'[c]) = {}
    <2>1. \A b \in Holders : r \notin CellsOf(data[b]) BY <1>1, <1>4, <1>5
    <2>2. ASSUME NEW b \in Holders, b # B PROVE CellsOf(data'[b]) \cap CellsOf(data'[B]) = {}
      BY <1>6, <1>7, <1>8, <2>1, <2>2
    <2>3. ASSUME NEW b \in Holders, NEW c \in Holders, b # B, c # B, b # c
          PROVE  CellsOf(data'[b]) \cap CellsOf(data'[c]) = {}
      BY <1>6, <1>8, <2>3
    <2> QED BY <1>3, <2>2, <2>3
  <1> QED BY <1>2, <1>6, <1>9, <1>10, <1>11, <1>12, <1>13 DEF Divided

-----------------------------------------------------------------------------
(* One lemma for each other action.                                           *)

(* ldebug() and the like.                                                    *)
LEMMA LogOrder ==
  ASSUME IInv, CInv, NEW len \in Lens, Log(len)
  PROVE  CInv'
  <1>1. /\ append(len) /\ UNCHANGED <<batch, cut, file, dropped, notices, node>>
        /\ wpc' = wpc \/ (wpc = "waiting" /\ wpc' = "woken")
    BY DEF Log, Signal, listVars
  <1>2. (Cutting' <=> Cutting) /\ (Noticed' => Noticed)
    BY <1>1 DEF Cutting, Noticed
  <1>3. Unwritten' = Unwritten
    <2>1. wpc' = "write" <=> wpc = "write" BY <1>1
    <2> QED BY <1>1, <1>2, <2>1 DEF Unwritten, CellsOf
  <1>4. Contents' BY <1>1, <1>2, AppendContents
  <1>5. Ordered' BY <1>1, AppendOrdered
  <1>6. Divided' BY <1>1, <1>3, AppendDivided
  <1>7. NoticeAhead'
    <2>1. /\ \A c \in Buf \ {curr'} : data'[c] = data[c]
          /\ curr' \notin CellsOf(batch) \cup CellsOf(cut)
      BY <1>1, AppendData
    <2>2. CellsOf(batch) \subseteq Buf /\ CellsOf(cut) \subseteq Buf
      BY CellsOfSeq DEF IInv, TypeOK
    <2>3. CellsOf(batch') = CellsOf(batch) /\ CellsOf(cut') = CellsOf(cut) BY <1>1 DEF CellsOf
    <2> QED BY <1>1, <1>2, <2>1, <2>2, <2>3, NoticeKept DEF CInv
  <1> QED BY <1>4, <1>5, <1>6, <1>7 DEF CInv

(* The notice is newer than all the batch it announces the end of.            *)
LEMMA NoticeOrder ==
  ASSUME IInv, CInv, NEW len \in Lens, Notice(len)
  PROVE  CInv'
  <1>1. /\ append(len) /\ UNCHANGED <<batch, cut, file, dropped, node>>
        /\ wpc = "notice" /\ wpc' = "drop" /\ notices' = notices \cup {accepted + 1}
    BY DEF Notice, listVars
  <1>2. Cutting' /\ Cutting BY <1>1 DEF Cutting
  <1>3. Unwritten' = Unwritten BY <1>1, <1>2 DEF Unwritten, CellsOf
  <1>4. Contents' BY <1>1, <1>2, AppendContents
  <1>5. Ordered' BY <1>1, AppendOrdered
  <1>6. Divided' BY <1>1, <1>3, AppendDivided
  <1>7. NoticeAhead'
    <2> DEFINE W == CellsOf(batch) \cup CellsOf(cut)
    <2>1. /\ \A c \in Buf \ {curr'} : data'[c] = data[c]
          /\ curr' \notin W /\ accepted \in Nat
      BY <1>1, AppendData
    <2>2. W \subseteq live /\ W \subseteq Buf BY HoldersLive
    <2>3. /\ \A b \in live : CellsOf(data[b]) \subseteq 1..accepted
          /\ CellsOf(file) \cup dropped \subseteq 1..accepted
      BY RecordsAre DEF CInv, Contents
    <2>4. /\ \A x \in 1..accepted : x < accepted + 1
          /\ accepted + 1 \notin 1..accepted
      BY <2>1
    <2>5. \A b \in W : \A x \in Records(b)' : x < accepted + 1
      <3>1. \A b \in W : Records(b)' = CellsOf(data[b]) BY <2>1, <2>2 DEF Records, CellsOf
      <3> QED BY <2>2, <2>3, <2>4, <3>1
    <2>6. accepted + 1 \in notices' \ dropped' BY <1>1, <2>3, <2>4
    <2>7. CellsOf(batch') \cup CellsOf(cut') = W BY <1>1 DEF CellsOf
    <2> HIDE DEF W
    <2> QED BY <2>5, <2>6, <2>7 DEF NoticeAhead
  <1> QED BY <1>4, <1>5, <1>6, <1>7 DEF CInv

(* The worker's two buffers come empty.                                       *)
LEMMA StartOrder ==
  ASSUME IInv, CInv, Start
  PROVE  CInv'
  <1>0. TypeOK /\ NoLeak BY DEF IInv
  <1>1. /\ wpc = "start" /\ wpc' = "top"
        /\ UNCHANGED <<curr, next, queue, batch, cut, file, dropped, notices, accepted>>
    BY DEF Start, instVars, histVars
  <1>2. PICK a \in Calloc(live) : \E b \in Calloc(live \cup {a}) :
              /\ live' = live \cup {a, b}
              /\ size' = [size EXCEPT ![a] = 0, ![b] = 0]
              /\ data' = [data EXCEPT ![a] = <<>>, ![b] = <<>>]
    BY DEF Start
  <1>3. PICK b \in Calloc(live \cup {a}) :
              /\ live' = live \cup {a, b}
              /\ size' = [size EXCEPT ![a] = 0, ![b] = 0]
              /\ data' = [data EXCEPT ![a] = <<>>, ![b] = <<>>]
    BY <1>2
  <1>4. /\ live \subseteq Buf /\ queue \in Seq(Buf) /\ batch \in Seq(Buf) /\ cut \in Seq(Buf)
        /\ curr \in Buf /\ data \in [Buf -> Seq(Nat)] /\ size \in [Buf -> Nat]
    BY <1>0 DEF TypeOK
  <1>5. a \in Buf \ live BY <1>4, LogAssumption
  <1>6. b \in Buf \ live
    <2>1. live \cup {a} \in SUBSET Buf BY <1>4, <1>5
    <2> QED BY <2>1, LogAssumption
  <1>7. /\ \A c \in Buf \ {a, b} : data'[c] = data[c] /\ size'[c] = size[c]
        /\ data'[a] = <<>> /\ data'[b] = <<>> /\ size'[a] = 0 /\ size'[b] = 0
    BY <1>3, <1>4, <1>5, <1>6
  <1>8. /\ CellsOf(file') = CellsOf(file) /\ CellsOf(batch') = CellsOf(batch)
        /\ CellsOf(cut') = CellsOf(cut)
    BY <1>1 DEF CellsOf
  <1>9. \A c \in live : data'[c] = data[c] /\ size'[c] = size[c]
    BY <1>4, <1>5, <1>6, <1>7
  <1>10. ~Cutting' /\ ~Cutting /\ ~Noticed' BY <1>1 DEF Cutting, Noticed
  <1>11. Contents'
    <2>1. CellsOf(file) \cup dropped \cup notices \subseteq 1..accepted BY DEF CInv, Contents
    <2> QED BY <1>1, <1>3, <1>7, <1>8, <1>9, <1>10, <2>1, HoldersLive, ContentsKept DEF CInv
  <1>12. Ordered'
    <2>1. /\ InOrder(data, batch) /\ InOrder(data, cut)
          /\ \A x \in CellsOf(batch), y \in CellsOf(cut) : Older(data, x, y)
      BY DEF CInv, Ordered
    <2> QED BY <1>1, <1>4, <1>8, <1>9, <2>1, HoldersLive, OrderedKept DEF CInv
  <1>13. Divided'
    <2>1. Unwritten = {} /\ Unwritten' = {} BY <1>1, <1>10 DEF Unwritten
    <2>2. Holders' = Holders BY <1>1, <2>1 DEF Holders, FrontCells, CellsOf
    <2>3. \A c \in Holders : Records(c)' = Records(c) BY <1>9, HoldersLive DEF Records
    <2> QED BY <1>1, <2>2, <2>3, DividedKept DEF CInv
  <1>14. NoticeAhead' BY <1>10 DEF NoticeAhead
  <1> QED BY <1>11, <1>12, <1>13, <1>14 DEF CInv

(* The list becomes the batch; the buffers the front end gets are empty.       *)
LEMMA GrabOrder ==
  ASSUME IInv, CInv, Grab
  PROVE  CInv'
  <1>0. TypeOK /\ ListsLinked /\ NoLeak /\ ReserveFresh /\ WorkerAt BY DEF IInv
  <1>1. /\ wpc = "grab" /\ batch' = Append(queue, curr) /\ queue' = <<>> /\ curr' = new1
        /\ next' = IF next = Null THEN new2 ELSE next
        /\ UNCHANGED <<data, size, live, file, dropped, notices, accepted, cut>>
        /\ \/ wpc' = "notice" /\ count + 1 > DropLimit
           \/ wpc' = "write" /\ node' = IF head = Null THEN curr ELSE head
    BY DEF Grab, RefillSpare, heapVars
  <1>2. /\ queue \in Seq(Buf) /\ curr \in Buf /\ new1 \in Ptr /\ new2 \in Ptr /\ next \in Ptr
        /\ data \in [Buf -> Seq(Nat)]
    BY <1>0 DEF TypeOK
  <1>3. /\ cut = <<>> /\ new1 # Null /\ new2 # Null /\ data[new1] = <<>> /\ data[new2] = <<>>
        /\ next # Null => data[next] = <<>>
    BY <1>0, <1>1 DEF WorkerAt, Holding, ReserveFresh, Fresh
  <1>4. /\ batch' \in Seq(Buf) /\ batch' # <<>> /\ CellsOf(batch') = CellsOf(queue) \cup {curr}
        /\ batch'[1] = IF queue = <<>> THEN curr ELSE queue[1]
        /\ new1 \in Buf /\ new2 \in Buf
    BY <1>1, <1>2, <1>3, CellsOfAppend, AppendFacts DEF Ptr
  <1>5. CellsOf(queue') = {} /\ CellsOf(cut') = {} /\ CellsOf(cut) = {} /\ CellsOf(file') = CellsOf(file)
        /\ CellsOf(<<>>) = {}
    BY <1>1, <1>3 DEF CellsOf
  <1>6. ~Noticed' /\ (Cutting' => wpc' = "notice") /\ ~Cutting /\ wpc # "write"
    BY <1>1 DEF Cutting, Noticed
  <1>7. Contents'
    <2>1. /\ \A b \in live : Run(data[b]) /\ CellsOf(data[b]) \subseteq 1..accepted
                             /\ (size[b] # 0 => data[b] # <<>>)
          /\ CellsOf(file) \cup dropped \cup notices \subseteq 1..accepted
          /\ \A b \in CellsOf(queue) : data[b] # <<>>
      BY RecordsAre DEF CInv, Contents
    <2>2. ASSUME Cutting' PROVE data[batch'[1]] # <<>>
      <3>1. count + 1 > DropLimit BY <1>1, <1>6, <2>2
      <3>2. count = Len(queue) BY <1>0 DEF ListsLinked
      <3>3. Len(queue) # 0 BY <3>1, <3>2, LogAssumption
      <3>4. queue # <<>> BY <3>3, EmptySeq
      <3>5. queue[1] \in CellsOf(queue) BY <1>2, <3>4, FirstFacts
      <3> QED BY <1>4, <2>1, <3>4, <3>5
    <2>3. \A b : Records(b)' = CellsOf(data'[b]) BY DEF Records, CellsOf
    <2> QED BY <1>1, <1>3, <1>5, <2>1, <2>2, <2>3 DEF Contents
  <1>8. Ordered'
    <2>1. InOrder(data, batch') BY <1>1 DEF CInv, Ordered
    <2>2. InOrder(data, <<>>) BY DEF InOrder
    <2>3. InOrder(data, Append(<<>>, new1))
      <3>1. <<>> \in Seq(Buf) BY EmptySeq
      <3>2. \A c \in CellsOf(<<>>) : Older(data, c, new1) BY <1>5
      <3> QED BY <1>4, <2>2, <3>1, <3>2, OrderAppend
    <2>4. \A b \in CellsOf(batch') : Older(data, b, new1) BY <1>3, <1>5 DEF Older
    <2> QED BY <1>1, <1>3, <1>5, <2>1, <2>2, <2>3, <2>4 DEF Ordered
  <1>9. Divided'
    <2>1. Unwritten = {} BY <1>6 DEF Unwritten
    <2>2. Unwritten' = CellsOf(batch')
      <3>1. CASE wpc' = "notice"
        <4>1. Cutting' BY <3>1 DEF Cutting
        <4>2. Unwritten' = CellsOf(batch') \cup CellsOf(cut') BY <4>1, UnwrittenNext
        <4> QED BY <1>5, <4>2
      <3>2. CASE wpc' = "write" /\ node' = IF head = Null THEN curr ELSE head
        <4>1. ~Cutting' BY <3>2 DEF Cutting
        <4>2. node' = batch'[1] BY <1>0, <1>4, <3>2, HeadNull DEF ListsLinked
        <4>3. Unwritten' = {batch'[i] : i \in {j \in 1..Len(batch') : \E k \in 1..j : batch'[k] = node'}}
          BY <3>2, <4>1 DEF Unwritten
        <4> QED BY <1>4, <4>2, <4>3, FromFirst
      <3> QED BY <1>1, <3>1, <3>2
    <2>3. Holders = ({curr, next} \ {Null}) \cup CellsOf(queue)
      BY <2>1 DEF Holders, FrontCells
    <2>4. Holders' = ({new1, next'} \ {Null}) \cup CellsOf(queue) \cup {curr}
      BY <1>1, <1>4, <1>5, <2>2 DEF Holders, FrontCells
    <2>5. \A b : Records(b)' = Records(b) BY <1>1 DEF Records
    <2>6. /\ Records(new1) = {} /\ Records(new2) = {}
          /\ next # Null => Records(next) = {}
      BY <1>3, <1>5, RecordsAre
    <2>7. \A b \in Holders' : Records(b) # {} => b \in Holders
      BY <1>1, <2>3, <2>4, <2>6, LogAssumption, <1>2
    <2>8. \A b \in Holders : Records(b) # {} => b \in Holders'
      BY <1>2, <2>3, <2>4, <2>6, LogAssumption
    <2> QED BY <1>1, <2>5, <2>7, <2>8, DividedKept DEF CInv
  <1>10. NoticeAhead' BY <1>6 DEF NoticeAhead
  <1> QED BY <1>7, <1>8, <1>9, <1>10 DEF CInv

(* The batch is cut in two: its first two buffers are kept.                    *)
LEMMA DropOrder ==
  ASSUME IInv, CInv, Drop
  PROVE  CInv'
  <1>0. TypeOK /\ ListsLinked /\ WorkerAt BY DEF IInv
  <1>1. /\ wpc = "drop" /\ wpc' = "free dropped"
        /\ batch' = SubSeq(batch, 1, 2) /\ cut' = SubSeq(batch, 3, Len(batch))
        /\ UNCHANGED <<size, data, live, curr, next, queue, accepted, file, dropped, notices>>
    BY DEF Drop, heapVars, instVars
  <1>2. /\ batch \in Seq(Buf) /\ Len(batch) >= 2 /\ Chained(link, batch) /\ cut = <<>>
        /\ queue \in Seq(Buf) /\ curr \in Buf
    BY <1>0, <1>1 DEF TypeOK, WorkerAt, ListsLinked
  <1>3. /\ batch' \in Seq(Buf) /\ cut' \in Seq(Buf) /\ batch'[1] = batch[1]
        /\ CellsOf(batch) = CellsOf(batch') \cup CellsOf(cut')
    <2> DEFINE t == SubSeq(batch, 1, 2)
               u == SubSeq(batch, 3, Len(batch))
    <2>1. /\ t \in Seq(Buf) /\ Len(t) = 2 /\ t[1] = batch[1] /\ t[2] = batch[2]
          /\ u \in Seq(Buf) /\ Chained(link, u)
          /\ link[batch[1]] = batch[2] /\ batch[1] # batch[2] /\ link[batch[2]] = First(u)
          /\ CellsOf(batch) = CellsOf(t) \cup CellsOf(u)
          /\ CellsOf(t) \cap CellsOf(u) = {}
      BY <1>2, ChainCut
    <2>2. batch' = t /\ cut' = u BY <1>1
    <2> HIDE DEF t, u
    <2> QED BY <2>1, <2>2
  <1>4. /\ InOrder(data, batch') /\ InOrder(data, cut')
        /\ \A b \in CellsOf(batch'), c \in CellsOf(cut') : Older(data, b, c)
    <2> DEFINE t == SubSeq(batch, 1, 2)
               u == SubSeq(batch, 3, Len(batch))
    <2>1. InOrder(data, batch) BY DEF CInv, Ordered
    <2>2. /\ InOrder(data, t) /\ InOrder(data, u)
          /\ \A b \in CellsOf(t), c \in CellsOf(u) : Older(data, b, c)
      BY <1>2, <2>1, OrderCut
    <2>3. batch' = t /\ cut' = u BY <1>1
    <2> HIDE DEF t, u
    <2> QED BY <2>2, <2>3
  <1>5. Cutting /\ Cutting' /\ Noticed BY <1>1 DEF Cutting, Noticed
  <1>6. Contents'
    <2>1. /\ CellsOf(file) \cup dropped \cup notices \subseteq 1..accepted
          /\ data[batch[1]] # <<>>
      BY <1>5 DEF CInv, Contents
    <2>2. CellsOf(file') = CellsOf(file) BY <1>1 DEF CellsOf
    <2> QED BY <1>1, <1>3, <2>1, <2>2, ContentsKept DEF CInv
  <1>7. Ordered' BY <1>1, <1>2, <1>3, <1>4, OrderedKept DEF CInv
  <1>8. Divided'
    <2>1. CellsOf(cut) = {} BY <1>2 DEF CellsOf
    <2>2. Unwritten' = CellsOf(batch') \cup CellsOf(cut') BY <1>5, UnwrittenNext
    <2>3. Unwritten' = Unwritten BY <1>3, <1>5, <2>1, <2>2, UnwrittenElse
    <2>4. Holders' = Holders BY <1>1, <2>3 DEF Holders, FrontCells, CellsOf
    <2> QED BY <1>1, <2>4, DividedKept DEF CInv, Records
  <1>9. NoticeAhead' BY <1>1, <1>3, <1>5, NoticeKept DEF CInv
  <1> QED BY <1>6, <1>7, <1>8, <1>9 DEF CInv

(* The records of a freed buffer are dropped; the notice is not one of them.   *)
LEMMA FreeDroppedOrder ==
  ASSUME IInv, CInv, FreeDropped
  PROVE  CInv'
  <1>0. TypeOK /\ ListsLinked /\ WorkerAt /\ NoLeak BY DEF IInv
  <1>1. /\ wpc = "free dropped" /\ wpc' = wpc /\ node # Null
        /\ live' = live \ {node} /\ cut' = Tail(cut)
        /\ dropped' = dropped \cup {data[node][i] : i \in DOMAIN data[node]}
        /\ UNCHANGED <<size, data, curr, next, queue, accepted, file, batch, notices>>
    BY DEF FreeDropped, instVars
  <1>2. /\ cut \in Seq(Buf) /\ Chained(link, cut) /\ cut # <<>> /\ node = cut[1]
        /\ batch \in Seq(Buf) /\ queue \in Seq(Buf) /\ curr \in Buf /\ data \in [Buf -> Seq(Nat)]
    BY <1>0, <1>1 DEF TypeOK, WorkerAt, ListsLinked, First
  <1>3. /\ cut' \in Seq(Buf) /\ node \in Buf /\ node \notin CellsOf(cut')
        /\ CellsOf(cut) = {node} \cup CellsOf(cut')
    BY <1>1, <1>2, ChainTail
  <1>4. InOrder(data, cut') /\ InOrder(data, batch)
        /\ \A b \in CellsOf(batch), c \in CellsOf(cut') : Older(data, b, c)
    BY <1>1, <1>2, <1>3, OrderTail DEF CInv, Ordered
  <1>5. Cutting /\ Cutting' /\ Noticed /\ Noticed' BY <1>1 DEF Cutting, Noticed
  <1>6. node \notin FrontCells /\ node \notin CellsOf(batch) /\ node \in live
    BY <1>0, <1>3, HoldersLive DEF NoLeak
  <1>7. dropped' = dropped \cup Records(node)
    <2>1. data[node] \in Seq(Nat) BY <1>2, <1>3
    <2>2. DOMAIN data[node] = 1..Len(data[node]) BY <2>1
    <2> QED BY <1>1, <2>2 DEF Records
  <1>8. \A b : Records(b)' = Records(b) BY <1>1 DEF Records
  <1>9. CellsOf(file') = CellsOf(file) /\ CellsOf(batch') = CellsOf(batch) BY <1>1 DEF CellsOf
  <1>10. Contents'
    <2>1. /\ CellsOf(file) \cup dropped \cup notices \subseteq 1..accepted
          /\ data[batch[1]] # <<>> /\ Records(node) \subseteq 1..accepted
      BY <1>5, <1>6 DEF CInv, Contents
    <2> QED BY <1>1, <1>7, <1>9, <2>1, ContentsKept DEF CInv
  <1>11. Ordered' BY <1>1, <1>2, <1>3, <1>4, <1>9, OrderedKept DEF CInv
  <1>12. Divided'
    <2>1. Unwritten = CellsOf(batch) \cup CellsOf(cut) BY <1>5, UnwrittenElse
    <2>2. Unwritten' = CellsOf(batch') \cup CellsOf(cut') BY <1>5, UnwrittenNext
    <2>3. FrontCells' = FrontCells BY <1>1 DEF FrontCells, CellsOf
    <2>4. Holders' = Holders \ {node} /\ node \in Holders
      BY <1>3, <1>6, <1>9, <2>1, <2>2, <2>3 DEF Holders
    <2>5. /\ \A r \in 1..accepted :
               r \in CellsOf(file) \/ r \in dropped \/ \E b \in Holders : r \in Records(b)
          /\ \A b \in Holders : Records(b) \cap (CellsOf(file) \cup dropped) = {}
          /\ \A b, c \in Holders : b # c => Records(b) \cap Records(c) = {}
          /\ CellsOf(file) \cap dropped = {}
          /\ \A i, j \in 1..Len(file) : file[i] = file[j] => i = j
      BY DEF CInv, Divided
    <2>6. \A r \in 1..accepted :
             r \in CellsOf(file) \/ r \in dropped' \/ \E b \in Holders' : r \in Records(b)
      BY <1>7, <2>4, <2>5
    <2>7. \A b \in Holders' : Records(b) \cap (CellsOf(file) \cup dropped') = {}
      BY <1>7, <2>4, <2>5
    <2>8. CellsOf(file) \cap dropped' = {} BY <1>7, <2>4, <2>5
    <2>9. \A b, c \in Holders' : b # c => Records(b) \cap Records(c) = {}
      BY <2>4, <2>5
    <2> QED BY <1>1, <1>8, <1>9, <2>5, <2>6, <2>7, <2>8, <2>9 DEF Divided
  <1>13. NoticeAhead'
    <2>1. PICK n \in notices \ dropped :
                 \A b \in CellsOf(batch) \cup CellsOf(cut) : \A x \in Records(b) : x < n
      BY <1>5 DEF CInv, NoticeAhead
    <2>2. n \in Nat BY <1>0, <2>1 DEF TypeOK
    <2>3. \A x \in Records(node) : x < n BY <1>3, <2>1
    <2>4. n \notin Records(node) BY <2>2, <2>3
    <2>5. n \in notices' \ dropped' BY <1>1, <1>7, <2>1, <2>4
    <2> QED BY <1>3, <1>8, <1>9, <2>1, <2>5 DEF NoticeAhead
  <1> QED BY <1>10, <1>11, <1>12, <1>13 DEF CInv

(* The cut batch, two buffers long, is written from its first one on.          *)
LEMMA EndDropOrder ==
  ASSUME IInv, CInv, EndDrop
  PROVE  CInv'
  <1>0. TypeOK /\ WorkerAt BY DEF IInv
  <1>1. /\ wpc = "free dropped" /\ wpc' = "write" /\ node = Null /\ node' = whead /\ cut' = <<>>
        /\ UNCHANGED <<size, data, live, curr, next, queue, accepted, file, batch, dropped, notices>>
    BY DEF EndDrop, instVars
  <1>2. /\ batch \in Seq(Buf) /\ batch # <<>> /\ whead = batch[1] /\ cut \in Seq(Buf)
        /\ queue \in Seq(Buf) /\ curr \in Buf /\ node = First(cut)
    BY <1>0, <1>1, BatchKept DEF TypeOK, WorkerAt, Holding, First
  <1>3. cut = <<>> BY <1>1, <1>2, FirstFacts
  <1>4. /\ Cutting /\ ~Cutting' /\ ~Noticed'
        /\ CellsOf(cut) = {} /\ cut' = cut
        /\ CellsOf(file') = CellsOf(file) /\ CellsOf(batch') = CellsOf(batch)
    <2>1. Cutting /\ ~Cutting' /\ ~Noticed' BY <1>1 DEF Cutting, Noticed
    <2>2. CellsOf(file') = CellsOf(file) /\ CellsOf(batch') = CellsOf(batch) BY <1>1 DEF CellsOf
    <2> QED BY <1>1, <1>3, <2>1, <2>2, CellsOfEmpty
  <1>5. Contents'
    <2>1. CellsOf(file) \cup dropped \cup notices \subseteq 1..accepted BY DEF CInv, Contents
    <2> QED BY <1>1, <1>4, <2>1, ContentsKept DEF CInv
  <1>6. Ordered'
    <2>1. InOrder(data, batch) /\ InOrder(data, cut) BY DEF CInv, Ordered
    <2> QED BY <1>1, <1>2, <1>4, <2>1, OrderedKept DEF CInv
  <1>7. Divided'
    <2>1. Unwritten = CellsOf(batch) BY <1>4, UnwrittenElse
    <2>2. Unwritten' = {batch'[i] : i \in {j \in 1..Len(batch') : \E k \in 1..j : batch'[k] = node'}}
      BY <1>1, <1>4 DEF Unwritten
    <2>3. Unwritten' = Unwritten BY <1>1, <1>2, <2>1, <2>2, FromFirst
    <2>4. Holders' = Holders BY <1>1, <2>3 DEF Holders, FrontCells, CellsOf
    <2> QED BY <1>1, <2>4, DividedKept DEF CInv, Records
  <1>8. NoticeAhead' BY <1>4 DEF NoticeAhead
  <1> QED BY <1>5, <1>6, <1>7, <1>8 DEF CInv

(* One buffer goes to the file: it was the next one to be written.             *)
LEMMA WriteNodeOrder ==
  ASSUME IInv, CInv, WriteNode
  PROVE  CInv'
  <1>0. TypeOK /\ ListsLinked /\ WorkerAt /\ NoLeak BY DEF IInv
  <1>1. /\ wpc = "write" /\ wpc' = wpc /\ node # Null /\ node' = link[node]
        /\ file' = file \o data[node]
        /\ UNCHANGED <<size, data, live, curr, next, queue, accepted, batch, cut, dropped, notices>>
    BY DEF WriteNode, heapVars, instVars, histVars
  <1>2. /\ batch \in Seq(Buf) /\ cut \in Seq(Buf) /\ queue \in Seq(Buf) /\ curr \in Buf
        /\ data \in [Buf -> Seq(Nat)] /\ file \in Seq(Nat) /\ Chained(link, batch)
    BY <1>0, <1>1 DEF TypeOK, ListsLinked
  <1>3. PICK p \in 1..Len(batch) : /\ node = batch[p]
                                   /\ Unwritten = {batch[i] : i \in p..Len(batch)}
    BY <1>1, WritePosition
  <1>4. /\ Len(batch) \in Nat /\ node \in Buf /\ node \in CellsOf(batch)
        /\ p \in 1..Len(batch) /\ data[node] \in Seq(Nat)
    BY <1>2, <1>3, CellsOfSeq
  <1>5. Unwritten' = Unwritten \ {node}
    <2>1. Unwritten' = {batch[i] : i \in {j \in 1..Len(batch) : \E k \in 1..j : batch[k] = link[node]}}
      <3>1. ~Cutting' BY <1>1 DEF Cutting
      <3> QED BY <1>1, <3>1 DEF Unwritten
    <2>2. \A i, j \in 1..Len(batch) : batch[i] = batch[j] => i = j BY <1>2 DEF Chained
    <2>3. CASE p = Len(batch)
      <3>1. link[node] = Null BY <1>2, <1>3, <2>3 DEF Chained
      <3>2. Unwritten' = {} BY <1>2, <2>1, <3>1, FromNull
      <3>3. \A i \in p..Len(batch) : i = p BY <1>4, <2>3
      <3> QED BY <1>3, <3>2, <3>3
    <2>4. CASE p # Len(batch)
      <3>1. p + 1 \in 1..Len(batch) /\ link[node] = batch[p + 1] BY <1>2, <1>3, <2>4 DEF Chained
      <3>2. {batch[i] : i \in {j \in 1..Len(batch) : \E k \in 1..j : batch[k] = batch[p + 1]}}
              = {batch[i] : i \in (p + 1)..Len(batch)}
        BY <1>2, <2>2, <3>1, FromPosition
      <3>3. p..Len(batch) = {p} \cup ((p + 1)..Len(batch)) BY <1>4
      <3>4. \A i \in (p + 1)..Len(batch) : i \in 1..Len(batch) /\ i # p BY <1>4
      <3>5. \A i \in (p + 1)..Len(batch) : batch[i] # node BY <1>3, <2>2, <3>4
      <3>6. Unwritten' = {batch[i] : i \in (p + 1)..Len(batch)} BY <2>1, <3>1, <3>2
      <3>7. Unwritten = {node} \cup {batch[i] : i \in (p + 1)..Len(batch)} BY <1>3, <3>3
      <3> QED BY <3>5, <3>6, <3>7
    <2> QED BY <2>3, <2>4
  <1>6. node \in Unwritten /\ node \notin FrontCells /\ node \in live
    <2>1. p \in p..Len(batch) BY <1>4
    <2> QED BY <1>3, <1>4, <2>1, HoldersLive
  <1>7. Holders' = Holders \ {node} /\ node \in Holders
    <2>1. FrontCells' = FrontCells BY <1>1 DEF FrontCells, CellsOf
    <2> QED BY <1>5, <1>6, <2>1 DEF Holders
  <1>8. \A b : Records(b)' = Records(b) BY <1>1 DEF Records
  <1>9. /\ \A b \in live : Run(data[b]) /\ Records(b) \subseteq 1..accepted
        /\ CellsOf(file) \cup dropped \cup notices \subseteq 1..accepted
    BY DEF CInv, Contents
  <1>10. /\ Len(file') = Len(file) + Len(data[node]) /\ Len(file) \in Nat /\ Len(data[node]) \in Nat
         /\ \A i \in 1..Len(file) : file'[i] = file[i]
         /\ \A i \in 1..Len(data[node]) : file'[Len(file) + i] = data[node][i]
    BY <1>1, <1>2, <1>4, ConcatProperties
  <1>11. \A i \in 1..Len(file') : i \in 1..Len(file)
                                  \/ \E j \in 1..Len(data[node]) : i = Len(file) + j
    <2> SUFFICES ASSUME NEW i \in 1..Len(file'), i \notin 1..Len(file)
                 PROVE  \E j \in 1..Len(data[node]) : i = Len(file) + j
      OBVIOUS
    <2>1. i - Len(file) \in 1..Len(data[node]) /\ i = Len(file) + (i - Len(file)) BY <1>10
    <2> QED BY <2>1
  <1>12. CellsOf(file') = CellsOf(file) \cup Records(node)
    <2>1. \A i \in 1..Len(file) : i \in 1..Len(file') BY <1>10
    <2>2. \A i \in 1..Len(data[node]) : Len(file) + i \in 1..Len(file') BY <1>10
    <2>3. CellsOf(file) \cup Records(node) \subseteq CellsOf(file')
      BY <1>10, <2>1, <2>2 DEF CellsOf, Records
    <2>4. ASSUME NEW i \in 1..Len(file') PROVE file'[i] \in CellsOf(file) \cup Records(node)
      <3>1. CASE i \in 1..Len(file) BY <1>10, <3>1 DEF CellsOf
      <3>2. CASE \E j \in 1..Len(data[node]) : i = Len(file) + j BY <1>10, <3>2 DEF Records
      <3> QED BY <1>11, <3>1, <3>2
    <2> QED BY <2>3, <2>4 DEF CellsOf
  <1>13. ~Cutting' /\ ~Noticed' BY <1>1 DEF Cutting, Noticed
  <1>14. CellsOf(batch') = CellsOf(batch) /\ CellsOf(cut') = CellsOf(cut) BY <1>1 DEF CellsOf
  <1>15. Contents'
    <2>1. CellsOf(file') \cup dropped' \cup notices' \subseteq 1..accepted
      BY <1>1, <1>6, <1>9, <1>12
    <2> QED BY <1>1, <1>13, <2>1, ContentsKept DEF CInv
  <1>16. Ordered'
    <2>1. /\ InOrder(data, batch) /\ InOrder(data, cut)
          /\ \A b \in CellsOf(batch), c \in CellsOf(cut) : Older(data, b, c)
      BY DEF CInv, Ordered
    <2> QED BY <1>1, <1>2, <1>14, <2>1, OrderedKept DEF CInv
  <1>17. Divided'
    <2>1. /\ \A r \in 1..accepted :
               r \in CellsOf(file) \/ r \in dropped \/ \E b \in Holders : r \in Records(b)
          /\ \A b \in Holders : Records(b) \cap (CellsOf(file) \cup dropped) = {}
          /\ \A b, c \in Holders : b # c => Records(b) \cap Records(c) = {}
          /\ CellsOf(file) \cap dropped = {}
          /\ \A i, j \in 1..Len(file) : file[i] = file[j] => i = j
      BY DEF CInv, Divided
    <2>2. \A r \in 1..accepted :
             r \in CellsOf(file') \/ r \in dropped \/ \E b \in Holders' : r \in Records(b)
      BY <1>7, <1>12, <2>1
    <2>3. \A b \in Holders' : Records(b) \cap (CellsOf(file') \cup dropped) = {}
      BY <1>7, <1>12, <2>1
    <2>4. \A b, c \in Holders' : b # c => Records(b) \cap Records(c) = {}
      BY <1>7, <2>1
    <2>5. CellsOf(file') \cap dropped = {} BY <1>7, <1>12, <2>1
    <2>6. ASSUME NEW i \in 1..Len(file'), NEW j \in 1..Len(file'), file'[i] = file'[j]
          PROVE  i = j
      <3>1. \A k \in 1..Len(file) : file'[k] \in CellsOf(file) BY <1>10 DEF CellsOf
      <3>2. \A k \in 1..Len(data[node]) : file'[Len(file) + k] \in Records(node)
        BY <1>10 DEF Records
      <3>3. CellsOf(file) \cap Records(node) = {} BY <1>7, <2>1
      <3>4. \A k, l \in 1..Len(data[node]) : data[node][k] = data[node][l] => k = l
        BY <1>4, <1>6, <1>9, RunFacts
      <3>5. CASE i \in 1..Len(file) /\ j \in 1..Len(file) BY <1>10, <2>1, <2>6, <3>5
      <3>6. CASE i \in 1..Len(file) /\ \E l \in 1..Len(data[node]) : j = Len(file) + l
        BY <2>6, <3>1, <3>2, <3>3, <3>6
      <3>7. CASE j \in 1..Len(file) /\ \E k \in 1..Len(data[node]) : i = Len(file) + k
        BY <2>6, <3>1, <3>2, <3>3, <3>7
      <3>8. CASE /\ \E k \in 1..Len(data[node]) : i = Len(file) + k
                 /\ \E l \in 1..Len(data[node]) : j = Len(file) + l
        <4>1. PICK k \in 1..Len(data[node]) : i = Len(file) + k BY <3>8
        <4>2. PICK l \in 1..Len(data[node]) : j = Len(file) + l BY <3>8
        <4> QED BY <1>10, <2>6, <3>4, <4>1, <4>2
      <3> QED BY <1>11, <3>5, <3>6, <3>7, <3>8
    <2> QED BY <1>1, <1>8, <2>2, <2>3, <2>4, <2>5, <2>6 DEF Divided
  <1>18. NoticeAhead' BY <1>13 DEF NoticeAhead
  <1> QED BY <1>15, <1>16, <1>17, <1>18 DEF CInv

(* After the write loop no buffer of the batch counts: it may be emptied,       *)
(* taken out of the batch and freed.                                          *)
LEMMA AfterWrite ==
  ASSUME IInv, CInv,
         ~Cutting, wpc # "write", ~Cutting', wpc' # "write",
         UNCHANGED <<curr, next, queue, cut, file, dropped, notices, accepted>>,
         batch' \in Seq(Buf), CellsOf(batch') \subseteq CellsOf(batch), InOrder(data, batch'),
         live' \subseteq live,
         \A b \in live : \/ data'[b] = data[b] /\ size'[b] = size[b]
                         \/ /\ b \notin CellsOf(batch') \cup CellsOf(cut) \cup FrontCells
                            /\ data'[b] = <<>> /\ size'[b] = 0
  PROVE  CInv'
  <1>1. /\ queue \in Seq(Buf) /\ curr \in Buf /\ cut \in Seq(Buf) /\ live \subseteq Buf
        /\ CellsOf(file') = CellsOf(file) /\ CellsOf(cut') = CellsOf(cut)
    BY DEF IInv, TypeOK, CellsOf
  <1>2. /\ FrontCells \subseteq live /\ CellsOf(queue) \cup {curr} \subseteq FrontCells
        /\ CellsOf(batch) \cup CellsOf(cut) \subseteq live
    BY <1>1, LogAssumption, HoldersLive DEF IInv, NoLeak, FrontCells
  <1>3. \A b \in FrontCells \cup CellsOf(batch') \cup CellsOf(cut) : data'[b] = data[b]
    BY <1>2
  <1>4. Contents'
    <2>1. CellsOf(file) \cup dropped \cup notices \subseteq 1..accepted BY DEF CInv, Contents
    <2> QED BY <1>1, <1>2, <1>3, <2>1, ContentsKept DEF CInv
  <1>5. Ordered'
    <2>1. /\ InOrder(data, cut)
          /\ \A b \in CellsOf(batch'), c \in CellsOf(cut) : Older(data, b, c)
      BY DEF CInv, Ordered
    <2> QED BY <1>1, <1>2, <1>3, <2>1, OrderedKept DEF CInv
  <1>6. Divided'
    <2>1. Unwritten = {} /\ Unwritten' = {} BY UnwrittenElse, UnwrittenNext
    <2>2. Holders' = Holders /\ Holders = FrontCells
      BY <2>1 DEF Holders, FrontCells, CellsOf
    <2>3. \A b \in Holders : Records(b)' = Records(b) BY <1>3, <2>2 DEF Records
    <2> QED BY <2>2, <2>3, DividedKept DEF CInv
  <1>7. NoticeAhead'
    <2>1. ~Noticed' BY DEF Noticed, Cutting
    <2> QED BY <2>1 DEF NoticeAhead
  <1> QED BY <1>4, <1>5, <1>6, <1>7 DEF CInv

(* The first buffer of the batch leaves it, empty, to be new_buffer1 or 2.      *)
LEMMA TakeHeadOrder ==
  ASSUME IInv, CInv, TakeHead, wpc \in {"recycle1", "recycle2"}, batch # <<>>,
         ~Cutting', wpc' # "write",
         UNCHANGED <<live, curr, next, queue, cut, file, dropped, notices, accepted>>
  PROVE  CInv'
  <1>0. /\ TypeOK /\ batch \in Seq(Buf) /\ Chained(link, batch) /\ whead = First(batch)
        /\ wcount = Len(batch) /\ live \subseteq Buf
    BY DEF IInv, TypeOK, ListsLinked, WorkerAt, Holding
  <1>1. /\ batch' \in Seq(Buf) /\ CellsOf(batch) = {whead} \cup CellsOf(batch')
        /\ whead \notin CellsOf(batch')
        /\ \A c \in Buf \ {whead} : size'[c] = size[c] /\ data'[c] = data[c]
        /\ size'[whead] = 0 /\ data'[whead] = <<>>
    BY <1>0, TakeHeadFacts
  <1>2. InOrder(data, batch')
    <2>1. InOrder(data, batch) BY DEF CInv, Ordered
    <2>2. batch' = Tail(batch) BY DEF TakeHead
    <2> QED BY <1>0, <2>1, <2>2, OrderTail
  <1>3. whead \notin CellsOf(cut) \cup FrontCells
    BY <1>1, HoldersLive DEF IInv, NoLeak
  <1>4. ~Cutting BY DEF Cutting
  <1> QED BY <1>0, <1>1, <1>2, <1>3, <1>4, AfterWrite

(* new_buffer1 is refilled.                                                  *)
LEMMA Recycle1Order ==
  ASSUME IInv, CInv, Recycle1
  PROVE  CInv'
  <1>1. /\ wpc = "recycle1" /\ wpc' = "recycle2" /\ new1 = Null /\ TakeHead
        /\ UNCHANGED <<live, curr, next, queue, cut, file, dropped, notices, accepted>>
    <2>1. wpc = "recycle1" BY DEF Recycle1
    <2>2. new1 = Null BY <2>1 DEF IInv, WorkerAt, Holding
    <2> QED BY <2>2 DEF Recycle1, instVars
  <1>2. batch # <<>>
    <2>1. Len(batch) >= IF new2 = Null THEN 2 ELSE 1 BY <1>1 DEF IInv, WorkerAt
    <2>2. Len(batch) # 0 BY <2>1
    <2> QED BY <2>2
  <1>3. ~Cutting' BY <1>1 DEF Cutting
  <1> QED BY <1>1, <1>2, <1>3, TakeHeadOrder

(* new_buffer2 is refilled if the front end took it for its spare.             *)
LEMMA Recycle2Order ==
  ASSUME IInv, CInv, Recycle2
  PROVE  CInv'
  <1>1. /\ wpc = "recycle2" /\ wpc' = "clear"
        /\ UNCHANGED <<live, curr, next, queue, cut, file, dropped, notices, accepted>>
        /\ \/ new2 = Null /\ TakeHead
           \/ UNCHANGED <<size, data, batch>>
    BY DEF Recycle2, instVars
  <1>2. ~Cutting' /\ ~Cutting BY <1>1 DEF Cutting
  <1>3. CASE new2 = Null /\ TakeHead
    <2>1. batch # <<>> BY <1>1, <1>3 DEF IInv, WorkerAt
    <2> QED BY <1>1, <1>2, <1>3, <2>1, TakeHeadOrder
  <1>4. CASE UNCHANGED <<size, data, batch>>
    <2>1. batch \in Seq(Buf) BY DEF IInv, TypeOK
    <2>2. InOrder(data, batch) BY DEF CInv, Ordered
    <2>3. CellsOf(batch') = CellsOf(batch) BY <1>4 DEF CellsOf
    <2> QED BY <1>1, <1>2, <1>4, <2>1, <2>2, <2>3, AfterWrite
  <1> QED BY <1>1, <1>3, <1>4

(* Written buffers are freed.                                                *)
LEMMA FreeNodeOrder ==
  ASSUME IInv, CInv, FreeNode
  PROVE  CInv'
  <1>1. /\ wpc = "clear" /\ wpc' = wpc /\ node # Null
        /\ live' = live \ {node} /\ batch' = Tail(batch)
        /\ UNCHANGED <<size, data, curr, next, queue, cut, file, dropped, notices, accepted>>
    BY DEF FreeNode, instVars
  <1>2. batch \in Seq(Buf) /\ node = First(batch) BY <1>1 DEF IInv, TypeOK, WorkerAt
  <1>3. batch # <<>> BY <1>1, <1>2, FirstFacts
  <1>4. batch' \in Seq(Buf) BY <1>1, <1>2, <1>3, HeadTailProperties
  <1>5. InOrder(data, batch) BY DEF CInv, Ordered
  <1>6. InOrder(data, batch') /\ CellsOf(batch') \subseteq CellsOf(batch)
    BY <1>1, <1>2, <1>3, <1>5, OrderTail
  <1>7. ~Cutting' /\ ~Cutting BY <1>1 DEF Cutting
  <1> QED BY <1>1, <1>4, <1>6, <1>7, AfterWrite

(* All of the batch has been freed.                                          *)
LEMMA EndClearOrder ==
  ASSUME IInv, CInv, EndClear
  PROVE  CInv'
  <1>1. /\ wpc = "clear" /\ wpc' = "top" /\ batch' = <<>>
        /\ UNCHANGED <<size, data, live, curr, next, queue, cut, file, dropped, notices, accepted>>
    BY DEF EndClear, heapVars, instVars
  <1>2. batch' \in Seq(Buf) /\ CellsOf(batch') = {} /\ InOrder(data, batch')
    <2>1. <<>> \in Seq(Buf) BY EmptySeq
    <2> QED BY <1>1, <2>1 DEF CellsOf, InOrder
  <1>3. ~Cutting' /\ ~Cutting BY <1>1 DEF Cutting
  <1> QED BY <1>1, <1>2, <1>3, AfterWrite

-----------------------------------------------------------------------------
(* In every reachable state.                                                  *)

(* linit() leaves no records.                                                *)
LEMMA InitCInv == Init => CInv
  <1> SUFFICES ASSUME Init PROVE CInv OBVIOUS
  <1>1. /\ data = [b \in Buf |-> <<>>] /\ size = [b \in Buf |-> 0] /\ wpc = "start"
        /\ accepted = 0 /\ file = <<>> /\ queue = <<>> /\ batch = <<>> /\ cut = <<>>
        /\ dropped = {} /\ notices = {}
    BY DEF Init
  <1>2. TypeOK /\ IInv BY InitIInv DEF IInv
  <1>3. /\ \A b \in Buf : data[b] = <<>> /\ size[b] = 0 /\ Records(b) = {}
        /\ curr \in Buf /\ live \subseteq Buf
    BY <1>1, <1>2, RecordsAre, CellsOfEmpty DEF TypeOK
  <1>4. ~Cutting /\ ~Noticed BY <1>1 DEF Cutting, Noticed
  <1>5. Contents
    <2>1. Run(<<>>) BY DEF Run
    <2> QED BY <1>1, <1>3, <1>4, <2>1, CellsOfEmpty DEF Contents
  <1>6. Ordered
    <2>1. InOrder(data, <<>>) BY DEF InOrder
    <2>2. \A c : Older(data, c, curr) BY <1>3, CellsOfEmpty DEF Older
    <2>3. InOrder(data, Append(<<>>, curr))
      <3>1. <<>> \in Seq(Buf) BY EmptySeq
      <3> QED BY <1>3, <2>1, <2>2, <3>1, OrderAppend
    <2> QED BY <1>1, <2>1, <2>3, CellsOfEmpty DEF Ordered
  <1>7. Divided
    <2>1. Holders \subseteq Buf BY <1>2, HoldersLive
    <2>2. CellsOf(file) = {} /\ Len(file) = 0 BY <1>1, CellsOfEmpty
    <2> QED BY <1>1, <1>3, <2>1, <2>2 DEF Divided
  <1>8. NoticeAhead BY <1>4 DEF NoticeAhead
  <1> QED BY <1>5, <1>6, <1>7, <1>8 DEF CInv

(* Every step keeps what the invariant says of the records.                    *)
LEMMA NextCInv == IInv /\ CInv /\ [Next]_vars => CInv'
  <1> SUFFICES ASSUME IInv, CInv, [Next]_vars PROVE CInv' OBVIOUS
  <1>1. CASE \E len \in Lens : Log(len) BY <1>1, LogOrder
  <1>2. CASE \E len \in Lens : Notice(len) BY <1>2, NoticeOrder
  <1>3. CASE Start BY <1>3, StartOrder
  <1>4. CASE Grab BY <1>4, GrabOrder
  <1>5. CASE Drop BY <1>5, DropOrder
  <1>6. CASE FreeDropped BY <1>6, FreeDroppedOrder
  <1>7. CASE EndDrop BY <1>7, EndDropOrder
  <1>8. CASE WriteNode BY <1>8, WriteNodeOrder
  <1>9. CASE Recycle1 BY <1>9, Recycle1Order
  <1>10. CASE Recycle2 BY <1>10, Recycle2Order
  <1>11. CASE FreeNode BY <1>11, FreeNodeOrder
  <1>12. CASE EndClear BY <1>12, EndClearOrder
  <1>13. CASE Exit \/ Joined \/ Check \/ Lock \/ Timeout \/ Relock \/ EndWrite \/ UNCHANGED vars
    BY <1>13, QuietOrder
  <1> QED BY <1>1, <1>2, <1>3, <1>4, <1>5, <1>6, <1>7, <1>8, <1>9, <1>10, <1>11, <1>12, <1>13
          DEF Next, Front, Worker, Ended

(* The inductive invariant of the records: each buffer holds a run of them, the *)
(* lists hold the runs in order, and buffers, file and dropped records divide  *)
(* the records accepted among them, at all times.                             *)
THEOREM CInvHolds == Spec => []CInv
  BY IInvHolds, InitCInv, NextCInv, PTL DEF Spec

-----------------------------------------------------------------------------
(* What follows from it.                                                      *)

(* A record is found once: in the file, among the dropped ones, or in one       *)
(* buffer.                                                                    *)
LEMMA CInvVanishes == IInv /\ CInv => NothingVanishes
  <1> SUFFICES ASSUME IInv, CInv PROVE NothingVanishes OBVIOUS
  <1> USE DEF NothingVanishes
  <1> TAKE r \in 1..accepted
  <1> DEFINE holders == {b \in FrontCells \cup Unwritten : r \in Records(b)}
             written == {i \in 1..Len(file) : file[i] = r}
  <1> SUFFICES Cardinality(holders) + Cardinality(written) + (IF r \in dropped THEN 1 ELSE 0) = 1
    OBVIOUS
  <1>1. /\ r \in CellsOf(file) \/ r \in dropped \/ \E b \in Holders : r \in Records(b)
        /\ \A b \in Holders : Records(b) \cap (CellsOf(file) \cup dropped) = {}
        /\ \A b, c \in Holders : b # c => Records(b) \cap Records(c) = {}
        /\ CellsOf(file) \cap dropped = {}
        /\ \A i, j \in 1..Len(file) : file[i] = file[j] => i = j
    BY DEF CInv, Divided
  <1>2. /\ holders = {b \in Holders : r \in Records(b)}
        /\ r \notin CellsOf(file) => written = {}
    BY DEF Holders, CellsOf
  <1>3. Cardinality({}) = 0 /\ \A x : Cardinality({x}) = 1
    BY FS_EmptySet, FS_Singleton
  <1> HIDE DEF holders, written
  <1>4. CASE r \in CellsOf(file)
    <2>1. PICK i \in 1..Len(file) : file[i] = r BY <1>4 DEF CellsOf
    <2>2. written = {i} BY <1>1, <2>1 DEF written
    <2>3. holders = {} /\ r \notin dropped BY <1>1, <1>2, <1>4
    <2>4. Cardinality(holders) = 0 /\ Cardinality(written) = 1 BY <1>3, <2>2, <2>3
    <2> QED BY <2>3, <2>4
  <1>5. CASE r \in dropped
    <2>1. holders = {} /\ written = {} BY <1>1, <1>2, <1>5
    <2>2. Cardinality(holders) = 0 /\ Cardinality(written) = 0 BY <1>3, <2>1
    <2> QED BY <1>5, <2>2
  <1>6. CASE \E b \in Holders : r \in Records(b)
    <2>1. PICK b \in Holders : r \in Records(b) BY <1>6
    <2>2. holders = {b} BY <1>1, <1>2, <2>1
    <2>3. written = {} /\ r \notin dropped BY <1>1, <1>2, <2>1
    <2>4. Cardinality(holders) = 1 /\ Cardinality(written) = 0 BY <1>3, <2>2, <2>3
    <2> QED BY <2>3, <2>4
  <1> QED BY <1>1, <1>4, <1>5, <1>6

(* A record accepted is written, or dropped, or still in exactly one buffer    *)
(* that will be written: worker_func and append lose none and repeat none.      *)
THEOREM NothingLost == Spec => []NothingVanishes
  BY IInvHolds, CInvHolds, CInvVanishes, PTL

(* The only step that drops records leaves a newer notice behind.              *)
LEMMA NextAnnounced == IInv /\ CInv /\ DropsAnnounced /\ [Next]_vars => DropsAnnounced'
  <1> SUFFICES ASSUME IInv, CInv, DropsAnnounced, [Next]_vars PROVE DropsAnnounced'
    OBVIOUS
  <1>1. CASE FreeDropped
    <2>1. /\ wpc = "free dropped" /\ node # Null /\ notices' = notices
          /\ dropped' = dropped \cup {data[node][i] : i \in DOMAIN data[node]}
      BY <1>1 DEF FreeDropped
    <2>2. node = First(cut) /\ cut \in Seq(Buf) /\ data \in [Buf -> Seq(Nat)]
          /\ dropped \in SUBSET Nat /\ notices \in SUBSET Nat
      BY <2>1 DEF IInv, TypeOK, WorkerAt
    <2>3. node \in CellsOf(cut) /\ node \in Buf BY <2>1, <2>2, FirstFacts
    <2>4. PICK n \in notices \ dropped :
                 \A b \in CellsOf(batch) \cup CellsOf(cut) : \A x \in Records(b) : x < n
      BY <2>1 DEF CInv, NoticeAhead, Noticed
    <2>5. \A x \in Records(node) : x < n BY <2>3, <2>4
    <2>6. dropped' = dropped \cup Records(node) /\ Records(node) \subseteq Nat /\ n \in Nat
      <3>1. data[node] \in Seq(Nat) BY <2>2, <2>3
      <3>2. DOMAIN data[node] = 1..Len(data[node]) BY <3>1
      <3>3. dropped' = dropped \cup Records(node) BY <2>1, <3>2 DEF Records
      <3>4. Records(node) \subseteq Nat BY <3>1 DEF Records
      <3> QED BY <2>2, <2>4, <3>3, <3>4
    <2>7. n \in notices' \ dropped'
      <3>1. n \notin Records(node) BY <2>5, <2>6
      <3> QED BY <2>1, <2>4, <2>6, <3>1
    <2>8. ASSUME NEW d \in dropped PROVE \E m \in notices' \ dropped' : d < m
      <3>1. PICK m \in notices \ dropped : d < m BY DEF DropsAnnounced
      <3>2. CASE m \in Records(node)
        <4>1. d < m /\ m < n /\ d \in Nat /\ m \in Nat /\ n \in Nat BY <2>2, <2>5, <2>6, <3>1, <3>2
        <4>2. d < n BY <4>1
        <4> QED BY <2>7, <4>2
      <3>3. CASE m \notin Records(node) BY <2>1, <2>6, <3>1, <3>3
      <3> QED BY <3>2, <3>3
    <2> QED BY <2>5, <2>6, <2>7, <2>8 DEF DropsAnnounced
  <1>2. CASE ~FreeDropped
    <2>1. dropped' = dropped /\ notices \subseteq notices'
      BY <1>2 DEF Next, Front, Worker, Ended, vars, histVars, Log, Exit, Joined, Start, Check, Lock,
                  Timeout, Relock, Grab, Notice, Drop, EndDrop, WriteNode, EndWrite, Recycle1,
                  Recycle2, FreeNode, EndClear
    <2> QED BY <2>1 DEF DropsAnnounced
  <1> QED BY <1>1, <1>2

(* No silent loss: whatever worker_func drops, a notice written later in the    *)
(* log tells of it, and is not dropped itself.                                 *)
THEOREM LossAnnounced == Spec => []DropsAnnounced
  <1>1. Init => DropsAnnounced BY DEF Init, DropsAnnounced
  <1> QED BY <1>1, IInvHolds, CInvHolds, NextAnnounced, PTL DEF Spec

(* The numbers of a run are an interval.                                      *)
LEMMA RunInterval ==
  ASSUME NEW s, NEW n \in Nat, Len(s) \in Nat \ {0}, Run(s), CellsOf(s) \subseteq 1..n,
         s = [i \in 1..Len(s) |-> s[i]]
  PROVE  \E lo, hi \in 0..n :
           /\ lo < hi /\ lo + 1 = s[1]
           /\ (lo + 1)..hi = CellsOf(s)
           /\ s = [i \in 1..(hi - lo) |-> lo + i]
  <1> DEFINE l == Len(s)
  <1>1. l \in Nat \ {0} /\ 1 \in 1..l /\ l \in 1..l OBVIOUS
  <1>2. \A i \in 1..l : s[i] \in 1..n /\ s[i] + 1 = s[1] + i BY DEF CellsOf, Run
  <1>3. PICK a \in 1..n : a = s[1] BY <1>1, <1>2
  <1>4. PICK lo \in 0..n : lo + 1 = a
    <2>1. a - 1 \in 0..n /\ (a - 1) + 1 = a OBVIOUS
    <2> QED BY <2>1
  <1> HIDE DEF l
  <1>5. \A i \in 1..l : s[i] = lo + i BY <1>1, <1>2, <1>3, <1>4, SMTT(30)
  <1>6. PICK hi \in 0..n : hi = lo + l BY <1>1, <1>2, <1>5
  <1>7. lo < hi /\ hi - lo = l BY <1>1, <1>6
  <1>8. s = [i \in 1..(hi - lo) |-> lo + i]
    <2>1. s = [i \in 1..l |-> s[i]] BY DEF l
    <2> QED BY <1>5, <1>7, <2>1
  <1>9. (lo + 1)..hi = CellsOf(s)
    <2>1. \A r \in (lo + 1)..hi : r - lo \in 1..l /\ r = lo + (r - lo) BY <1>1, <1>6
    <2>2. \A i \in 1..l : lo + i \in (lo + 1)..hi BY <1>1, <1>6
    <2>3. CellsOf(s) = {s[i] : i \in 1..l} BY DEF CellsOf, l
    <2> QED BY <1>5, <2>1, <2>2, <2>3
  <1> QED BY <1>3, <1>4, <1>7, <1>8, <1>9

(* What is in a buffer that is not empty.                                     *)
LEMMA DataInterval ==
  ASSUME NEW s \in Seq(Nat), s # <<>>, NEW n \in Nat, Run(s), CellsOf(s) \subseteq 1..n
  PROVE  \E lo, hi \in 0..n :
           /\ lo < hi /\ lo + 1 = s[1]
           /\ (lo + 1)..hi = CellsOf(s)
           /\ s = [i \in 1..(hi - lo) |-> lo + i]
  <1>1. Len(s) \in Nat \ {0} /\ s = [i \in 1..Len(s) |-> s[i]] BY EmptySeq
  <1> QED BY <1>1, RunInterval

-----------------------------------------------------------------------------
(* The buffers implement the queue of AsyncLog.                               *)

(* The records pending are those of the holders.                              *)
LEMMA PendingHeld ==
  ASSUME IInv, CInv
  PROVE  /\ \A b \in Holders : Records(b) \subseteq Order!Pending
         /\ \A r \in Order!Pending : r \in Nat /\ \E b \in Holders : r \in Records(b)
  <1>1. /\ \A r \in 1..accepted :
             r \in CellsOf(file) \/ r \in dropped \/ \E b \in Holders : r \in Records(b)
        /\ \A b \in Holders : Records(b) \cap (CellsOf(file) \cup dropped) = {}
        /\ \A b \in live : Records(b) \subseteq 1..accepted
    BY DEF CInv, Divided, Contents
  <1>2. Order!Pending = (1..accepted) \ (CellsOf(file) \cup dropped)
    BY DEF Order!Pending, CellsOf
  <1>3. accepted \in Nat BY DEF IInv, TypeOK
  <1> QED BY <1>1, <1>2, <1>3, HoldersLive

(* A holder's records, if it has any, are an interval of pending ones.          *)
LEMMA HolderInterval ==
  ASSUME IInv, CInv, NEW b \in Holders, data[b] # <<>>
  PROVE  \E lo, hi \in 0..accepted :
           /\ lo < hi /\ lo + 1 = data[b][1] /\ data[b][1] \in Records(b)
           /\ (lo + 1)..hi = Records(b) /\ Records(b) \subseteq Order!Pending
           /\ data[b] = [i \in 1..(hi - lo) |-> lo + i]
  <1>1. /\ b \in live /\ b \in Buf /\ data[b] \in Seq(Nat) /\ accepted \in Nat
        /\ Run(data[b]) /\ Records(b) \subseteq 1..accepted
    BY HoldersLive DEF IInv, TypeOK, CInv, Contents
  <1>2. Records(b) = CellsOf(data[b]) BY RecordsAre
  <1>3. data[b][1] \in Records(b)
    <2>1. 1 \in 1..Len(data[b]) BY <1>1, EmptySeq
    <2> QED BY <2>1 DEF Records
  <1>4. \E lo, hi \in 0..accepted :
           /\ lo < hi /\ lo + 1 = data[b][1]
           /\ (lo + 1)..hi = CellsOf(data[b])
           /\ data[b] = [i \in 1..(hi - lo) |-> lo + i]
    <2> DEFINE s == data[b]
    <2>1. s \in Seq(Nat) /\ s # <<>> /\ Run(s) /\ CellsOf(s) \subseteq 1..accepted
      BY <1>1, <1>2
    <2> HIDE DEF s
    <2>2. \E lo, hi \in 0..accepted :
             /\ lo < hi /\ lo + 1 = s[1]
             /\ (lo + 1)..hi = CellsOf(s)
             /\ s = [i \in 1..(hi - lo) |-> lo + i]
      BY <1>1, <2>1, DataInterval
    <2> QED BY <2>2 DEF s
  <1>5. Records(b) \subseteq Order!Pending BY PendingHeld
  <1> QED BY <1>2, <1>3, <1>4, <1>5, Zenon

(* The buffer about to be written holds the oldest records pending.            *)
LEMMA NodeOldest ==
  ASSUME IInv, CInv, wpc = "write", node # Null
  PROVE  /\ node \in Holders
         /\ \A x \in Records(node) : (\A y \in Records(node) : x <= y)
                                       => \A r \in Order!Pending : x <= r
  <1>1. PICK p \in 1..Len(batch) : /\ node = batch[p]
                                   /\ Unwritten = {batch[i] : i \in p..Len(batch)}
    BY WritePosition
  <1>2. /\ batch \in Seq(Buf) /\ queue \in Seq(Buf) /\ Len(batch) \in Nat /\ next \in Ptr
        /\ data \in [Buf -> Seq(Nat)] /\ ReserveFresh
    BY DEF IInv, TypeOK
  <1>3. node \in Unwritten /\ node \in CellsOf(batch) /\ node \in Buf /\ data[node] \in Seq(Nat)
    <2>1. p \in p..Len(batch) BY <1>2
    <2> QED BY <1>1, <1>2, <2>1, CellsOfSeq
  <1>4. ASSUME NEW c \in Holders, Records(c) # {}, c # node
        PROVE  Older(data, node, c)
    <2>1. CASE c \in Unwritten
      <3>1. PICK i \in p..Len(batch) : c = batch[i] BY <1>1, <2>1
      <3>2. i \in 1..Len(batch) /\ p < i BY <1>1, <1>2, <1>4, <3>1
      <3>3. InOrder(data, batch) BY DEF CInv, Ordered
      <3> QED BY <1>1, <3>1, <3>2, <3>3 DEF InOrder
    <2>2. CASE c \in CellsOf(queue) \cup {curr} BY <1>3, <2>2 DEF CInv, Ordered
    <2>3. CASE c = next /\ next # Null
      <3>1. Records(c) = {} BY <1>2, <2>3, RecordsAre, CellsOfEmpty DEF ReserveFresh, Fresh
      <3> QED BY <1>4, <3>1
    <2> QED BY <2>1, <2>2, <2>3 DEF Holders, FrontCells
  <1>5. ASSUME NEW x \in Records(node), \A y \in Records(node) : x <= y, NEW r \in Order!Pending
        PROVE  x <= r
    <2>1. PICK c \in Holders : r \in Records(c) BY PendingHeld
    <2>2. CASE c = node BY <1>5, <2>1, <2>2
    <2>3. CASE c # node
      <3>1. Older(data, node, c) BY <1>4, <2>1, <2>3
      <3>2. x < r BY <2>1, <3>1, RecordsAre DEF Older
      <3>3. x \in Nat /\ r \in Nat BY <1>3, PendingHeld DEF Records
      <3> QED BY <3>2, <3>3
    <2> QED BY <2>2, <2>3
  <1> QED BY <1>3, <1>5 DEF Holders

(* A buffer written is a Write of AsyncLog, an empty one a stutter.             *)
LEMMA WriteImplements ==
  ASSUME IInv, CInv, WriteNode
  PROVE  [Order!Next]_(Order!logVars)
  <1>1. /\ wpc = "write" /\ node # Null /\ file' = file \o data[node]
        /\ UNCHANGED <<accepted, dropped>>
    BY DEF WriteNode, histVars
  <1>2. node \in Holders /\ data[node] \in Seq(Nat) /\ file \in Seq(Nat)
    BY <1>1, NodeOldest, HoldersLive DEF IInv, TypeOK
  <1>3. CASE data[node] = <<>>
    <2>1. file \o <<>> = file BY <1>2, ConcatEmptySeq
    <2> QED BY <1>1, <1>3, <2>1 DEF Order!logVars
  <1>4. CASE data[node] # <<>>
    <2>1. PICK lo \in 0..accepted, hi \in 0..accepted :
               /\ lo < hi /\ lo + 1 = data[node][1] /\ data[node][1] \in Records(node)
               /\ (lo + 1)..hi = Records(node) /\ Records(node) \subseteq Order!Pending
               /\ data[node] = [i \in 1..(hi - lo) |-> lo + i]
      BY <1>2, <1>4, HolderInterval
    <2>2. \A r \in Order!Pending : lo < r
      <3>1. \A y \in (lo + 1)..hi : lo + 1 <= y OBVIOUS
      <3>2. \A r \in Order!Pending : lo + 1 <= r /\ r \in Nat
        BY <1>1, <2>1, <3>1, NodeOldest, PendingHeld
      <3> QED BY <3>2
    <2>3. Order!Write(lo, hi) BY <1>1, <2>1, <2>2 DEF Order!Write
    <2> QED BY <2>3 DEF Order!Next
  <1> QED BY <1>3, <1>4

(* A buffer dropped is a Drop of AsyncLog: the batch keeps an older record.      *)
LEMMA DropImplements ==
  ASSUME IInv, CInv, FreeDropped
  PROVE  [Order!Next]_(Order!logVars)
  <1>1. /\ wpc = "free dropped" /\ node # Null
        /\ dropped' = dropped \cup {data[node][i] : i \in DOMAIN data[node]}
        /\ UNCHANGED <<accepted, file>>
    BY DEF FreeDropped
  <1>2. /\ cut \in Seq(Buf) /\ batch \in Seq(Buf) /\ node = First(cut) /\ batch # <<>>
        /\ data \in [Buf -> Seq(Nat)]
    BY <1>1, BatchKept DEF IInv, TypeOK, WorkerAt
  <1>3. /\ node \in CellsOf(cut) /\ batch[1] \in CellsOf(batch)
        /\ data[node] \in Seq(Nat) /\ data[batch[1]] \in Seq(Nat)
    BY <1>1, <1>2, FirstFacts
  <1>4. Cutting BY <1>1 DEF Cutting
  <1>5. node \in Holders /\ batch[1] \in Holders BY <1>3, <1>4, UnwrittenElse DEF Holders
  <1>6. dropped' = dropped \cup Records(node)
    <2>1. DOMAIN data[node] = 1..Len(data[node]) BY <1>3
    <2> QED BY <1>1, <2>1 DEF Records
  <1>7. CASE data[node] = <<>>
    <2>1. Records(node) = {} BY <1>7, RecordsAre, CellsOfEmpty
    <2> QED BY <1>1, <1>6, <2>1 DEF Order!logVars
  <1>8. CASE data[node] # <<>>
    <2>1. PICK lo \in 0..accepted, hi \in 0..accepted :
               /\ lo < hi /\ lo + 1 = data[node][1] /\ data[node][1] \in Records(node)
               /\ (lo + 1)..hi = Records(node) /\ Records(node) \subseteq Order!Pending
      BY <1>5, <1>8, HolderInterval
    <2>2. data[batch[1]] # <<>> BY <1>4 DEF CInv, Contents
    <2>3. PICK r \in Records(batch[1]) : TRUE
      <3>1. 1 \in 1..Len(data[batch[1]]) BY <1>3, <2>2, EmptySeq
      <3> QED BY <3>1 DEF Records
    <2>4. r \in Order!Pending /\ r \in Nat BY <1>5, PendingHeld
    <2>5. Older(data, batch[1], node) BY <1>3 DEF CInv, Ordered
    <2>6. r < lo + 1 BY <2>1, <2>5, RecordsAre DEF Older
    <2>7. r <= lo BY <2>4, <2>6
    <2>8. Order!Drop(lo, hi) BY <1>1, <1>6, <2>1, <2>4, <2>7 DEF Order!Drop
    <2> QED BY <2>8 DEF Order!Next
  <1> QED BY <1>7, <1>8

(* Every step of the buffers is one of AsyncLog, or changes nothing it sees.     *)
LEMMA StepImplements == IInv /\ CInv /\ [Next]_vars => [Order!Next]_(Order!logVars)
  <1> SUFFICES ASSUME IInv, CInv, [Next]_vars PROVE [Order!Next]_(Order!logVars) OBVIOUS
  <1>1. CASE \E len \in Lens : Log(len) \/ Notice(len)
    <2>1. Order!Accept BY <1>1 DEF Log, Notice, append, listVars, Order!Accept
    <2> QED BY <2>1 DEF Order!Next
  <1>2. CASE WriteNode BY <1>2, WriteImplements
  <1>3. CASE FreeDropped BY <1>3, DropImplements
  <1>4. CASE \/ Exit \/ Joined \/ Start \/ Check \/ Lock \/ Timeout \/ Relock \/ Grab \/ Drop \/ EndDrop
             \/ EndWrite \/ Recycle1 \/ Recycle2 \/ FreeNode \/ EndClear \/ UNCHANGED vars
    <2>1. UNCHANGED <<accepted, file, dropped>>
      BY <1>4 DEF vars, histVars, Exit, Joined, Start, Check, Lock, Timeout, Relock, Grab, Drop,
                  EndDrop, EndWrite, Recycle1, Recycle2, FreeNode, EndClear
    <2> QED BY <2>1 DEF Order!logVars
  <1> QED BY <1>1, <1>2, <1>3, <1>4 DEF Next, Front, Worker, Ended

(* The log is a queue: the buffers, lists and threads of lua-log.c implement     *)
(* AsyncLog, where records are written whole and in the order they were          *)
(* accepted, and a run of them is given up only behind an older one.             *)
THEOREM LogIsQueue == Spec => QueueOrder
  <1>1. Init => Order!Init BY DEF Init, Order!Init
  <1> QED BY <1>1, IInvHolds, CInvHolds, StepImplements, PTL DEF Spec, QueueOrder, Order!Spec

=============================================================================
