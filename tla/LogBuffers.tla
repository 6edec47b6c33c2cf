----------------------------- MODULE LogBuffers -----------------------------
(***************************************************************************)
(* The buffer engine of the asynchronous logger, lualib-src/lua-log.c: the  *)
(* front end (the Lua thread) appends records to the current buffer under   *)
(* the mutex; one worker thread collects the filled buffers, writes them to *)
(* the file, and recycles or frees them.                                    *)
(*                                                                          *)
(* The heap is explicit: a struct buffer is a cell of Buf, `link' is its    *)
(* next field, and every list is walked through `link' as the C code does.  *)
(* A record is the number it was accepted under and a length in units of    *)
(* which a buffer holds BufferCap.  Which file is open is LogRoll's matter; *)
(* here the file is the sequence of the records written.                    *)
(***************************************************************************)
EXTENDS Naturals, Sequences, FiniteSets

CONSTANTS
  Buf,         (* the heap cells a struct buffer may be allocated in       *)
  Null,        (* the null pointer                                         *)
  Calloc(_),   (* the cells calloc may return while those of its argument  *)
               (* are allocated: the choice is the allocator's             *)
  BufferCap,   (* LOG_BUFFER_SIZE                                          *)
  Lens,        (* the lengths of the records, each at most LOG_MAX         *)
  DropLimit,   (* the largest batch that is written whole: 25 in the code  *)
  MaxRecords   (* bound: the front end appends while fewer are accepted    *)

ASSUME LogAssumption ==
  /\ Null \notin Buf
  /\ \A L \in SUBSET Buf : Calloc(L) \subseteq Buf \ L
  /\ BufferCap \in Nat /\ BufferCap >= 1
  /\ Lens \subseteq {l \in Nat : l < BufferCap}
  /\ DropLimit \in Nat /\ DropLimit >= 1
  /\ MaxRecords \in Nat

VARIABLES
  link, size, data, live,          \* the heap: fields of each cell, cells allocated
  curr, next, head, tail, count,   \* inst.curr_buffer, inst.next_buffer, inst.buffers
  running, mutex,                  \* inst.running, the holder of inst.mutex
  front,                           \* where the front end is
  wpc, new1, new2,                 \* where the worker is, new_buffer1, new_buffer2
  whead, wtail, wcount, node,      \* buffers_to_write and the worker's list pointer
  accepted, file,                  \* number of records accepted; records written
  queue, batch, cut,               \* history, read by no guard: the list, the batch and
  dropped, notices                 \* what is cut off it as sequences of cells; the
                                   \* records dropped, and those that announce a drop

heapVars  == <<link, size, data, live>>
instVars  == <<curr, next, head, tail, count>>
listVars  == <<new1, new2, whead, wtail, wcount, node>>
histVars  == <<queue, batch, cut, dropped, notices>>
vars == <<heapVars, instVars, running, mutex, front, wpc, listVars, accepted, file, histVars>>

Ptr == Buf \cup {Null}

WorkerStates == {"start", "top", "lock", "waiting", "woken", "grab", "notice", "drop",
                 "free dropped", "write", "recycle1", "recycle2", "clear", "done"}

-----------------------------------------------------------------------------
(* After linit: two zeroed buffers, an empty list, the worker created.      *)
Init ==
  /\ \E c \in Calloc({}) : \E n \in Calloc({c}) :
       /\ curr = c /\ next = n
       /\ live = {c, n}
  /\ link = [b \in Buf |-> Null]
  /\ size = [b \in Buf |-> 0]
  /\ data = [b \in Buf |-> <<>>]
  /\ head = Null /\ tail = Null /\ count = 0
  /\ running = TRUE /\ mutex = "free" /\ front = "running"
  /\ wpc = "start" /\ new1 = Null /\ new2 = Null
  /\ whead = Null /\ wtail = Null /\ wcount = 0 /\ node = Null
  /\ accepted = 0 /\ file = <<>>
  /\ queue = <<>> /\ batch = <<>> /\ cut = <<>> /\ dropped = {} /\ notices = {}

-----------------------------------------------------------------------------
(* append(): the critical section is one step, taken when the mutex is free. *)

Fits(len) == size[curr] + len < BufferCap

(* The current buffer has room: the record is copied behind what it holds.  *)
AppendToCurrent(len) ==
  /\ Fits(len)
  /\ size' = [size EXCEPT ![curr] = @ + len]
  /\ data' = [data EXCEPT ![curr] = Append(@, accepted + 1)]
  /\ UNCHANGED <<link, live, instVars, queue>>

(* The next fields once the current buffer is on the list and b follows it. *)
LinkAfterPush(b) ==
  LET pushed == IF head = Null THEN link ELSE [link EXCEPT ![tail] = curr]
  IN  [pushed EXCEPT ![curr] = b]

(* The current buffer has no room: it goes to the end of the list, and b --   *)
(* the spare, or a cell that calloc zeroes -- becomes current and takes the    *)
(* record.                                                                     *)
PushCurrent(b, len) ==
  LET spare == b = next IN
  /\ head' = (IF head = Null THEN curr ELSE head)
  /\ tail' = curr
  /\ count' = count + 1
  /\ link' = [LinkAfterPush(b) EXCEPT ![b] = IF spare THEN @ ELSE Null]
  /\ size' = [size EXCEPT ![b] = (IF spare THEN @ ELSE 0) + len]
  /\ data' = [data EXCEPT ![b] = Append(IF spare THEN @ ELSE <<>>, accepted + 1)]
  /\ curr' = b
  /\ next' = Null
  /\ live' = live \cup {b}
  /\ queue' = Append(queue, curr)

SwitchToSpare(len) == ~Fits(len) /\ next # Null /\ PushCurrent(next, len)

(* No spare either: the buffer is allocated inside the critical section.       *)
SwitchToCalloc(len) ==
  ~Fits(len) /\ next = Null /\ \E b \in Calloc(live) : PushCurrent(b, len)

append(len) ==
  /\ mutex = "free"
  /\ AppendToCurrent(len) \/ SwitchToSpare(len) \/ SwitchToCalloc(len)
  /\ accepted' = accepted + 1

(* Mutant: the front end never signals.                                     *)
NoSignal(switched) == wpc

(* pthread_cond_signal at the end of a switch: it wakes the worker if it     *)
(* waits and is forgotten otherwise.                                         *)
Signal(switched) == IF switched /\ wpc = "waiting" THEN "woken" ELSE wpc

-----------------------------------------------------------------------------
(* The front end.                                                            *)

Log(len) ==
  /\ front = "running"
  /\ accepted < MaxRecords
  /\ append(len)
  /\ wpc' = Signal(~Fits(len))
  /\ UNCHANGED <<running, mutex, front, listVars, file, batch, cut, dropped, notices>>

(* log_exit(): clear running, without the mutex and without a signal, and    *)
(* join the worker.  lfatal() is Log followed by this and abort().           *)
Exit ==
  /\ front = "running"
  /\ running' = FALSE
  /\ front' = "joining"
  /\ UNCHANGED <<heapVars, instVars, mutex, wpc, listVars, accepted, file, histVars>>

Joined ==
  /\ front = "joining"
  /\ wpc = "done"
  /\ front' = "exited"
  /\ UNCHANGED <<heapVars, instVars, running, mutex, wpc, listVars, accepted, file, histVars>>

-----------------------------------------------------------------------------
(* The worker: worker_func().                                                *)

(* The thread opens the file and prepares its two empty buffers.             *)
Start ==
  /\ wpc = "start"
  /\ \E a \in Calloc(live) : \E b \in Calloc(live \cup {a}) :
       /\ new1' = a /\ new2' = b
       /\ live' = live \cup {a, b}
       /\ link' = [link EXCEPT ![a] = Null, ![b] = Null]
       /\ size' = [size EXCEPT ![a] = 0, ![b] = 0]
       /\ data' = [data EXCEPT ![a] = <<>>, ![b] = <<>>]
  /\ wpc' = "top"
  /\ UNCHANGED <<instVars, running, mutex, front, whead, wtail, wcount, node,
                 accepted, file, histVars>>

(* while (inst.running): running is read without the mutex.                  *)
Check ==
  /\ wpc = "top"
  /\ wpc' = IF running THEN "lock" ELSE "done"
  /\ UNCHANGED <<heapVars, instVars, running, mutex, front, listVars, accepted, file, histVars>>

(* Nothing on the list: wait, with the mutex released.  Otherwise keep it.   *)
MustWait == head = Null

Lock ==
  /\ wpc = "lock"
  /\ mutex = "free"
  /\ IF MustWait THEN wpc' = "waiting" /\ mutex' = mutex
                 ELSE wpc' = "grab" /\ mutex' = "worker"
  /\ UNCHANGED <<heapVars, instVars, running, front, listVars, accepted, file, histVars>>

(* Mutant: pthread_cond_wait, which only a signal ends.                      *)
UntimedWait ==
  /\ wpc = "waiting" /\ head # Null
  /\ wpc' = "woken"
  /\ UNCHANGED <<heapVars, instVars, running, mutex, front, listVars, accepted, file, histVars>>

(* The wait ends by itself after flush_interval seconds (or spuriously).     *)
Timeout ==
  /\ wpc = "waiting"
  /\ wpc' = "woken"
  /\ UNCHANGED <<heapVars, instVars, running, mutex, front, listVars, accepted, file, histVars>>

Relock ==
  /\ wpc = "woken"
  /\ mutex = "free"
  /\ wpc' = "grab" /\ mutex' = "worker"
  /\ UNCHANGED <<heapVars, instVars, running, front, listVars, accepted, file, histVars>>

(* Mutant: the spare is replaced even where there is one.                    *)
ReplaceSpare  == next' = new2 /\ new2' = Null

(* The spare the front end finds after a batch is collected.                 *)
RefillSpare ==
  IF next = Null THEN next' = new2 /\ new2' = Null
                 ELSE UNCHANGED <<next, new2>>

(* Collect: the current buffer ends the list, the list moves to              *)
(* buffers_to_write, new_buffer1 becomes current, the spare is refilled, the *)
(* mutex is released.  A batch beyond DropLimit is cut before it is written. *)
Grab ==
  /\ wpc = "grab"
  /\ whead' = (IF head = Null THEN curr ELSE head)
  /\ wtail' = curr
  /\ wcount' = count + 1
  /\ head' = Null /\ tail' = Null /\ count' = 0
  /\ curr' = new1 /\ new1' = Null
  /\ RefillSpare
  /\ mutex' = "free"
  /\ IF wcount' > DropLimit THEN wpc' = "notice" /\ node' = node
                            ELSE wpc' = "write" /\ node' = whead'
  /\ batch' = Append(queue, curr) /\ queue' = <<>>
  /\ UNCHANGED <<heapVars, running, front, accepted, file, cut, dropped, notices>>

(* Mutant: the drop is reported on stderr only.                             *)
NoticeOnStderr(len) ==
  /\ wpc = "notice"
  /\ wpc' = "drop"
  /\ UNCHANGED <<heapVars, instVars, running, mutex, front, listVars, accepted, file, histVars>>

(* The batch is too long: a record of the drop is appended like any other,   *)
(* so it may itself fill and switch the front end's current buffer.          *)
Notice(len) ==
  /\ wpc = "notice"
  /\ append(len)
  /\ wpc' = "drop"
  /\ notices' = notices \cup {accepted + 1}
  /\ UNCHANGED <<running, mutex, front, listVars, file, batch, cut, dropped>>

(* Mutants: the cut starts a buffer early, or a buffer late.                 *)
FirstDroppedEarly == link[whead]
FirstDroppedLate  == link[link[link[whead]]]

(* All buffers behind the first two are about to be freed.                   *)
FirstDropped == link[link[whead]]

Drop ==
  /\ wpc = "drop"
  /\ node' = FirstDropped
  /\ wpc' = "free dropped"
  /\ batch' = SubSeq(batch, 1, 2) /\ cut' = SubSeq(batch, 3, Len(batch))
  /\ UNCHANGED <<heapVars, instVars, running, mutex, front, new1, new2, whead, wtail, wcount,
                 accepted, file, queue, dropped, notices>>

FreeDropped ==
  /\ wpc = "free dropped"
  /\ node # Null
  /\ live' = live \ {node}
  /\ node' = link[node]
  /\ dropped' = dropped \cup {data[node][i] : i \in DOMAIN data[node]}
  /\ cut' = Tail(cut)
  /\ UNCHANGED <<link, size, data, instVars, running, mutex, front, wpc, new1, new2, whead,
                 wtail, wcount, accepted, file, queue, batch, notices>>

(* The second buffer ends the cut batch, two long.                           *)
EndDrop ==
  /\ wpc = "free dropped"
  /\ node = Null
  /\ wtail' = link[whead]
  /\ link' = [link EXCEPT ![link[whead]] = Null]
  /\ wcount' = 2
  /\ node' = whead
  /\ wpc' = "write"
  /\ cut' = <<>>
  /\ UNCHANGED <<size, data, live, instVars, running, mutex, front, new1, new2, whead,
                 accepted, file, queue, batch, dropped, notices>>

(* One buffer is written, whole.                                             *)
WriteNode ==
  /\ wpc = "write"
  /\ node # Null
  /\ file' = file \o data[node]
  /\ node' = link[node]
  /\ UNCHANGED <<heapVars, instVars, running, mutex, front, wpc, new1, new2, whead, wtail,
                 wcount, accepted, histVars>>

(* fflush, and the file is rolled if it is long enough (LogRoll).            *)
EndWrite ==
  /\ wpc = "write"
  /\ node = Null
  /\ wpc' = "recycle1"
  /\ UNCHANGED <<heapVars, instVars, running, mutex, front, listVars, accepted, file, histVars>>

(* Mutant: the recycled buffer is not zeroed.                                *)
TakeHeadUncleared ==
  /\ whead' = link[whead]
  /\ wcount' = wcount - 1
  /\ link' = [link EXCEPT ![whead] = Null]
  /\ UNCHANGED <<size, data>>
  /\ batch' = Tail(batch)

(* The first buffer of the batch leaves it, zeroed, to be new_buffer1 (or 2). *)
TakeHead ==
  /\ whead' = link[whead]
  /\ wcount' = wcount - 1
  /\ link' = [link EXCEPT ![whead] = Null]
  /\ size' = [size EXCEPT ![whead] = 0]
  /\ data' = [data EXCEPT ![whead] = <<>>]
  /\ batch' = Tail(batch)

Recycle1 ==
  /\ wpc = "recycle1"
  /\ IF new1 = Null THEN new1' = whead /\ TakeHead
                    ELSE UNCHANGED <<new1, whead, wcount, link, size, data, batch>>
  /\ wpc' = "recycle2"
  /\ UNCHANGED <<live, instVars, running, mutex, front, new2, wtail, node,
                 accepted, file, queue, cut, dropped, notices>>

Recycle2 ==
  /\ wpc = "recycle2"
  /\ IF new2 = Null THEN new2' = whead /\ TakeHead
                    ELSE UNCHANGED <<new2, whead, wcount, link, size, data, batch>>
  /\ node' = whead'
  /\ wpc' = "clear"
  /\ UNCHANGED <<live, instVars, running, mutex, front, new1, wtail,
                 accepted, file, queue, cut, dropped, notices>>

(* What is left of the batch is freed, and the loop starts again.            *)
FreeNode ==
  /\ wpc = "clear"
  /\ node # Null
  /\ live' = live \ {node}
  /\ node' = link[node]
  /\ batch' = Tail(batch)
  /\ UNCHANGED <<link, size, data, instVars, running, mutex, front, wpc, new1, new2, whead,
                 wtail, wcount, accepted, file, queue, cut, dropped, notices>>

EndClear ==
  /\ wpc = "clear"
  /\ node = Null
  /\ whead' = Null /\ wtail' = Null /\ wcount' = 0
  /\ wpc' = "top"
  /\ batch' = <<>>
  /\ UNCHANGED <<heapVars, instVars, running, mutex, front, new1, new2, node,
                 accepted, file, queue, cut, dropped, notices>>

-----------------------------------------------------------------------------
Worker ==
  \/ Start \/ Check \/ Lock \/ Timeout \/ Relock \/ Grab
  \/ \E len \in Lens : Notice(len)
  \/ Drop \/ FreeDropped \/ EndDrop
  \/ WriteNode \/ EndWrite \/ Recycle1 \/ Recycle2 \/ FreeNode \/ EndClear

Front == (\E len \in Lens : Log(len)) \/ Exit \/ Joined

(* The program is over when log_exit has returned.                           *)
Ended == front = "exited" /\ UNCHANGED vars

Next == Front \/ Worker \/ Ended

Spec == Init /\ [][Next]_vars

(* The operating system runs the worker, its timed wait ends, and the join   *)
(* returns; the front end owes nobody a record nor an exit.                  *)
FairSpec == Spec /\ WF_vars(Worker) /\ WF_vars(Joined)

-----------------------------------------------------------------------------
(* Properties.                                                                 *)

CellsOf(s) == {s[i] : i \in 1..Len(s)}

Records(b) == {data[b][i] : i \in 1..Len(data[b])}

(* Every variable holds a value of the C field or local it stands for.         *)
TypeOK ==
  /\ link \in [Buf -> Ptr] /\ size \in [Buf -> Nat] /\ data \in [Buf -> Seq(Nat)]
  /\ live \in SUBSET Buf
  /\ curr \in Buf /\ next \in Ptr /\ head \in Ptr /\ tail \in Ptr /\ count \in Nat
  /\ running \in BOOLEAN /\ mutex \in {"free", "worker"}
  /\ front \in {"running", "joining", "exited"} /\ wpc \in WorkerStates
  /\ new1 \in Ptr /\ new2 \in Ptr
  /\ whead \in Ptr /\ wtail \in Ptr /\ wcount \in Nat /\ node \in Ptr
  /\ accepted \in Nat /\ file \in Seq(Nat)
  /\ queue \in Seq(Buf) /\ batch \in Seq(Buf) /\ cut \in Seq(Buf)
  /\ dropped \in SUBSET Nat /\ notices \in SUBSET Nat

(* The assertions of the C code hold whenever it reaches them: an empty list   *)
(* has no tail and the buffer pushed has no successor (append), the worker     *)
(* starts a round with no batch and two empty buffers, and has buffers left    *)
(* whenever it refills new_buffer1 or new_buffer2.                             *)
AssertsHold ==
  /\ head = Null => tail = Null
  /\ link[curr] = Null
  /\ wpc = "top" => /\ whead = Null
                    /\ new1 # Null /\ size[new1] = 0
                    /\ new2 # Null /\ size[new2] = 0
  /\ wpc \in {"notice", "drop", "free dropped", "write", "recycle1"} => wcount > 0
  /\ wpc = "recycle2" /\ new2 = Null => wcount > 0

(* Every pointer about to be followed points to an allocated buffer: no        *)
(* null dereference, no use after free, in append, the cut, the write loop,    *)
(* the recycling and the clearing.                                             *)
PointersLive ==
  /\ curr \in live
  /\ {next, head, tail, new1, new2, node} \subseteq live \cup {Null}
  /\ wpc \in {"notice", "drop", "free dropped"} => whead \in live /\ link[whead] \in live
  /\ wpc = "recycle1" /\ new1 = Null => whead \in live
  /\ wpc = "recycle2" /\ new2 = Null => whead \in live

(* What the swap of the two lists is for (the comment in worker_func): the     *)
(* batch can be walked outside the critical section because no buffer of the   *)
(* worker is one the front end can reach.                                      *)
FrontCells  == ({curr, next} \ {Null}) \cup CellsOf(queue)
WorkerCells == ({new1, new2} \ {Null}) \cup CellsOf(batch) \cup CellsOf(cut)
Separation  == FrontCells \cap WorkerCells = {}

(* The linked lists are what the pointers and counters say: next leads from    *)
(* each buffer to the following one and ends in NULL, no buffer is met twice.  *)
(* The full list goes on to the current buffer -- which is why the worker may  *)
(* add that one by moving tail only.                                           *)
Chained(lk, s) ==
  /\ \A i \in 1..Len(s) : lk[s[i]] = IF i = Len(s) THEN Null ELSE s[i + 1]
  /\ \A i, j \in 1..Len(s) : s[i] = s[j] => i = j

ListsLinked ==
  /\ Chained(link, Append(queue, curr))
  /\ count = Len(queue)
  /\ IF queue = <<>> THEN head = Null /\ tail = Null
                     ELSE head = queue[1] /\ tail = queue[Len(queue)]
  /\ Chained(link, cut)
  /\ wpc # "free dropped" => Chained(link, batch)
  /\ wpc = "free dropped" => link[batch[1]] = batch[2] /\ batch[1] # batch[2]
  /\ wpc \in {"notice", "drop", "write", "recycle1", "recycle2"} => wcount = Len(batch)

(* No buffer is lost and none is freed twice: what is allocated is what the    *)
(* front end and the worker hold.                                              *)
NoLeak ==
  /\ live = FrontCells \cup WorkerCells
  /\ curr # next /\ (new1 # Null => new1 # new2)
  /\ {curr, next} \cap CellsOf(queue) = {}
  /\ {new1, new2} \cap (CellsOf(batch) \cup CellsOf(cut)) = {}
  /\ CellsOf(batch) \cap CellsOf(cut) = {}

(* Every buffer that is allocated is in one place of one owner: nothing is      *)
(* written twice, freed twice or leaked, whatever append() does while the       *)
(* worker walks its batch without the mutex.                                    *)
OneOwner == Separation /\ NoLeak

(* No record is copied past the end of a buffer.                               *)
BufferBound == \A b \in live : size[b] < BufferCap

(* The spare is missing only while a filled buffer waits to be collected.      *)
SpareReady == next = Null => queue # <<>>

(* No lost wake-up: the worker never sleeps over a filled buffer.              *)
NoLostWakeup == wpc = "waiting" => queue = <<>>

(* The inductive invariant the proofs use: besides the above, the buffers kept *)
(* in reserve are empty, and what the worker holds at each place of its loop.  *)
Fresh(b) == link[b] = Null /\ size[b] = 0 /\ data[b] = <<>>

ReserveFresh == \A b \in {next, new1, new2} \ {Null} : Fresh(b)

First(s) == IF s = <<>> THEN Null ELSE s[1]

Holding == {"notice", "drop", "free dropped", "write", "recycle1", "recycle2", "clear"}

WorkerAt ==
  /\ mutex = IF wpc = "grab" THEN "worker" ELSE "free"
  /\ wpc \notin Holding => batch = <<>> /\ whead = Null
  /\ wpc # "free dropped" => cut = <<>>
  /\ wpc = "start" => new1 = Null /\ new2 = Null
  /\ wpc \notin Holding \cup {"start"} => new1 # Null /\ new2 # Null
  /\ wpc \in Holding \ {"recycle2", "clear"} => new1 = Null
  /\ wpc \in Holding \ {"clear"} => whead = First(batch)
  /\ wpc \in {"notice", "drop"} => Len(batch) >= 2
  /\ wpc = "free dropped" => Len(batch) = 2 /\ wcount > 0 /\ node = First(cut)
  /\ wpc \in {"write", "recycle1"} => Len(batch) >= IF new2 = Null THEN 2 ELSE 1
  /\ wpc = "write" => node \in CellsOf(batch) \cup {Null}
  /\ wpc = "recycle2" => new1 # Null /\ (new2 = Null => batch # <<>>)
  /\ wpc = "clear" => new1 # Null /\ new2 # Null /\ node = First(batch)
  /\ wpc \notin {"free dropped", "write", "clear"} => node = Null

IInv == /\ TypeOK /\ ListsLinked /\ Separation /\ NoLeak /\ BufferBound /\ SpareReady
        /\ NoLostWakeup /\ ReserveFresh /\ WorkerAt

(* Nothing vanishes: a record accepted is written, or dropped, or still in     *)
(* exactly one buffer that will be written.                                    *)
Cutting == wpc \in {"notice", "drop", "free dropped"}

Unwritten ==
  CASE Cutting -> CellsOf(batch) \cup CellsOf(cut)
    [] wpc = "write" -> {batch[i] : i \in {j \in 1..Len(batch) :
                                           \E k \in 1..j : batch[k] = node}}
    [] OTHER -> {}

NothingVanishes ==
  \A r \in 1..accepted :
    LET holders == {b \in FrontCells \cup Unwritten : r \in Records(b)}
        written == {i \in 1..Len(file) : file[i] = r}
    IN  Cardinality(holders) + Cardinality(written) + (IF r \in dropped THEN 1 ELSE 0) = 1

(* No silent loss: records are dropped only after a notice that comes later in *)
(* the log, and that notice, or a newer one, is never dropped itself.          *)
DropsAnnounced == \A d \in dropped : \E n \in notices \ dropped : d < n

(* The inductive invariant behind NothingVanishes, DropsAnnounced and            *)
(* QueueOrder.  What is in a buffer is a run of records, that of the current     *)
(* one up to the last; a buffer pushed is not empty, as any record fits into     *)
(* an empty one.                                                              *)
Run(s) == \A i \in 1..Len(s) : s[i] + 1 = s[1] + i

Contents ==
  /\ \A b \in live : /\ Run(data[b]) /\ Records(b) \subseteq 1..accepted
                     /\ size[b] # 0 => data[b] # <<>>
  /\ data[curr] # <<>> => data[curr][1] + Len(data[curr]) = accepted + 1
  /\ CellsOf(file) \cup dropped \cup notices \subseteq 1..accepted
  /\ \A b \in CellsOf(queue) : data[b] # <<>>
  /\ Cutting => data[batch[1]] # <<>>

(* Along the lists, and from the worker's to the front end's, records get newer. *)
Older(d, b, c) == \A x \in CellsOf(d[b]), y \in CellsOf(d[c]) : x < y
InOrder(d, s) == \A i, j \in 1..Len(s) : i < j => Older(d, s[i], s[j])

Ordered ==
  /\ InOrder(data, Append(queue, curr)) /\ InOrder(data, batch) /\ InOrder(data, cut)
  /\ \A b \in CellsOf(batch), c \in CellsOf(cut) : Older(data, b, c)
  /\ \A b \in CellsOf(batch) \cup CellsOf(cut), c \in CellsOf(queue) \cup {curr} :
       Older(data, b, c)

(* The buffers whose records are not out yet, the file and what was dropped     *)
(* divide the records accepted among them.                                    *)
Holders == FrontCells \cup Unwritten

Divided ==
  /\ \A r \in 1..accepted :
       r \in CellsOf(file) \/ r \in dropped \/ \E b \in Holders : r \in Records(b)
  /\ \A b \in Holders : Records(b) \cap (CellsOf(file) \cup dropped) = {}
  /\ \A b, c \in Holders : b # c => Records(b) \cap Records(c) = {}
  /\ CellsOf(file) \cap dropped = {}
  /\ \A i, j \in 1..Len(file) : file[i] = file[j] => i = j

(* A batch is cut once a notice newer than all of it is in the log.             *)
Noticed == wpc \in {"drop", "free dropped"}

NoticeAhead ==
  Noticed =>
    \E n \in notices \ dropped :
      \A b \in CellsOf(batch) \cup CellsOf(cut) : \A x \in Records(b) : x < n

CInv == Contents /\ Ordered /\ Divided /\ NoticeAhead

(* The log is a queue: records leave in the order they were accepted, each run *)
(* of them complete but for the records dropped (AsyncLog).                    *)
Order == INSTANCE AsyncLog WITH accepted <- accepted, file <- file, dropped <- dropped
QueueOrder == Order!Spec

(* While the logger runs, every record accepted reaches the file or is dropped. *)
Out(r) == r \in CellsOf(file) \cup dropped

RecordsReachFile ==
  \A r \in 1..MaxRecords : (r <= accepted) ~> (Out(r) \/ ~running)

(* log_exit returns: the worker sees running cleared after at most one more    *)
(* wait, and ends.                                                             *)
ExitReturns == (front = "joining") ~> (front = "exited")

(* What the comments on flush_interval and DEFAULT_INTERVAL promise, the log   *)
(* is synced to disk every interval: every record accepted reaches the file or *)
(* is dropped, also when the logger is stopped.                                *)
EveryRecordSynced == \A r \in 1..MaxRecords : (r <= accepted) ~> Out(r)

=============================================================================
