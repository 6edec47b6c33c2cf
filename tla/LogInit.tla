------------------------------ MODULE LogInit ------------------------------
(***************************************************************************)
(* The life of the logger's workers, lualib-src/lua-log.c: linit() builds     *)
(* inst and creates a worker, log_exit() joins one and closes the stream.     *)
(* Requiring lualib/log.lua calls linit() once; a program that then calls      *)
(* log.init(), as the servers and clients of example/ do, calls it again,     *)
(* under the feet of the first worker.                                        *)
(*                                                                          *)
(* Buffers are LogBuffers' matter and the names of files LogRoll's: here       *)
(* `pending' is what inst's buffers hold, and a roll opens one more stream.    *)
(***************************************************************************)
EXTENDS Naturals, Sequences, FiniteSets

CONSTANTS
  Inits,        (* how often the program calls linit()                      *)
  MaxRecords,   (* bound: the program logs so many records                  *)
  MaxRolls      (* bound: rollfile() opens a stream so often                *)

Workers == 1..Inits
None == 0                      \* no worker, no stream, the mutex free

VARIABLES
  front, inits,                \* where the Lua thread is; linit() calls begun
  running, mutex, thread,      \* inst.running, the holder of inst.mutex, inst.thread
  curr, pending,               \* whether inst.curr_buffer is allocated; the records in
                               \* it and on the list
  handle, open, streams,       \* inst.handle, the streams not fclosed, those opened
  wpc, rolling, batch,         \* per worker: where it is, where its rollfile() returns
                               \* to, its buffers_to_write
  accepted, file

instVars   == <<running, mutex, thread, curr, pending>>
streamVars == <<handle, open, streams>>
workerVars == <<wpc, rolling, batch>>
vars == <<front, inits, instVars, streamVars, workerVars, accepted, file>>

Init ==
  /\ front = "clear" /\ inits = 1
  /\ running = FALSE /\ mutex = None /\ thread = None /\ curr = FALSE /\ pending = <<>>
  /\ handle = None /\ open = {} /\ streams = 0
  /\ wpc = [w \in Workers |-> "absent"]
  /\ rolling = [w \in Workers |-> "top"]
  /\ batch = [w \in Workers |-> <<>>]
  /\ accepted = 0 /\ file = <<>>

-----------------------------------------------------------------------------
(* linit(), a step for each part a running worker can tell apart.            *)

(* memset: whatever worker there is finds inst empty, its mutex free.         *)
Clear ==
  /\ front = "clear"
  /\ running' = FALSE /\ mutex' = None /\ thread' = None /\ curr' = FALSE /\ pending' = <<>>
  /\ handle' = None
  /\ front' = "fill"
  /\ UNCHANGED <<inits, open, streams, workerVars, accepted, file>>

(* The first two buffers, and the mutex.                                      *)
Fill ==
  /\ front = "fill"
  /\ curr' = TRUE /\ mutex' = None
  /\ front' = "create"
  /\ UNCHANGED <<inits, running, thread, pending, streamVars, workerVars, accepted, file>>

Create ==
  /\ front = "create"
  /\ running' = TRUE /\ thread' = inits
  /\ wpc' = [wpc EXCEPT ![inits] = "roll"]
  /\ IF inits < Inits THEN front' = "clear" /\ inits' = inits + 1
                      ELSE front' = "running" /\ inits' = inits
  /\ UNCHANGED <<mutex, curr, pending, streamVars, rolling, batch, accepted, file>>

(* ldebug() and the like; the programs log nothing before their log.init().   *)
Log ==
  /\ front = "running" /\ accepted < MaxRecords
  /\ mutex = None
  /\ accepted' = accepted + 1
  /\ pending' = Append(pending, accepted + 1)
  /\ UNCHANGED <<front, inits, running, mutex, thread, curr, streamVars, workerVars, file>>

Exit ==
  /\ front = "running"
  /\ running' = FALSE
  /\ front' = "joining"
  /\ UNCHANGED <<inits, mutex, thread, curr, pending, streamVars, workerVars, accepted, file>>

(* The thread in inst.thread has ended: the mutex is destroyed, the stream    *)
(* closed.                                                                   *)
Joined ==
  /\ front = "joining" /\ wpc[thread] = "done"
  /\ open' = open \ {handle}
  /\ front' = "exited"
  /\ UNCHANGED <<inits, instVars, handle, streams, workerVars, accepted, file>>

-----------------------------------------------------------------------------
(* worker_func(), of the worker w.                                            *)

Goto(w, where) == wpc' = [wpc EXCEPT ![w] = where]

(* rollfile(): the old stream is closed, or lost if no byte was counted.      *)
RollClose(w) ==
  /\ wpc[w] = "roll"
  /\ open' \in {open, open \ {handle}}
  /\ Goto(w, "name")
  /\ UNCHANGED <<front, inits, instVars, handle, streams, rolling, batch, accepted, file>>

(* At "name" the worker is in get_log_filename() or copies the name out of    *)
(* the static buffer that function fills; then it opens the stream.           *)
Open(w) ==
  /\ wpc[w] = "name"
  /\ streams' = streams + 1 /\ handle' = streams + 1 /\ open' = open \cup {streams + 1}
  /\ Goto(w, rolling[w])
  /\ UNCHANGED <<front, inits, instVars, rolling, batch, accepted, file>>

CanRoll == streams < MaxRolls

Check(w) ==
  /\ wpc[w] = "top"
  /\ Goto(w, IF running THEN "lock" ELSE "done")
  /\ UNCHANGED <<front, inits, instVars, streamVars, rolling, batch, accepted, file>>

(* The list may be empty (then the worker waits, without the mutex) or not.   *)
Wait(w) ==
  /\ wpc[w] = "lock" /\ mutex = None
  /\ Goto(w, "waiting")
  /\ UNCHANGED <<front, inits, instVars, streamVars, rolling, batch, accepted, file>>

(* The mutex is held; on a new day the file is rolled under it.               *)
Lock(w) ==
  /\ \/ wpc[w] = "lock" /\ pending # <<>>
     \/ wpc[w] = "waiting"
  /\ mutex = None
  /\ mutex' = w
  /\ \/ Goto(w, "grab") /\ rolling' = rolling
     \/ CanRoll /\ Goto(w, "roll") /\ rolling' = [rolling EXCEPT ![w] = "grab"]
  /\ UNCHANGED <<front, inits, running, thread, curr, pending, streamVars, batch, accepted, file>>

(* What is pending becomes w's batch, w's empty buffer the current one.  If    *)
(* linit() has just cleared curr_buffer the batch is NULL: the worker takes a  *)
(* new buffer from it all the same, and the process is killed.                *)
Grab(w) ==
  /\ wpc[w] = "grab"
  /\ batch' = [batch EXCEPT ![w] = pending]
  /\ pending' = <<>> /\ curr' = TRUE /\ mutex' = None
  /\ Goto(w, "write")
  /\ front' = (IF curr THEN front ELSE "dead")
  /\ UNCHANGED <<inits, running, thread, streamVars, rolling, accepted, file>>

(* The batch is written, if there is a stream; the file may be long enough to *)
(* be rolled.                                                                 *)
Write(w) ==
  /\ wpc[w] = "write"
  /\ file' = IF handle = None THEN file ELSE file \o batch[w]
  /\ batch' = [batch EXCEPT ![w] = <<>>]
  /\ \/ Goto(w, "top") /\ rolling' = rolling
     \/ CanRoll /\ Goto(w, "roll") /\ rolling' = [rolling EXCEPT ![w] = "top"]
  /\ UNCHANGED <<front, inits, instVars, streamVars, accepted>>

-----------------------------------------------------------------------------
Worker(w) ==
  front # "dead" /\ (RollClose(w) \/ Open(w) \/ Check(w) \/ Wait(w) \/ Lock(w) \/ Grab(w) \/ Write(w))

Next ==
  \/ Clear \/ Fill \/ Create \/ Log \/ Exit \/ Joined
  \/ \E w \in Workers : Worker(w)
  \/ front \in {"exited", "dead"} /\ UNCHANGED vars

Spec == Init /\ [][Next]_vars

-----------------------------------------------------------------------------
(* Properties.                                                               *)

(* What the comment on get_log_filename()'s static buffer says: only one      *)
(* thread is ever in it.                                                      *)
OneFilenameUser == Cardinality({w \in Workers : wpc[w] = "name"}) <= 1

=============================================================================
