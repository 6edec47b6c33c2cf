------------------------------ MODULE LogRoll ------------------------------
(***************************************************************************)
(* The files of the logger, lualib-src/lua-log.c: when the worker opens,     *)
(* closes and rolls the log file (rollfile and its three calls in            *)
(* worker_func), against a clock that may pass midnight between any two of   *)
(* its steps, an fopen that may fail, and a process that may stop anywhere   *)
(* and be started again over the files it left.                              *)
(*                                                                          *)
(* A file is named by the day and the index in its name, <<day, index>>; of   *)
(* its content only the length counts.  The buffers are LogBuffers' matter:   *)
(* here a batch is the number of bytes it holds.                              *)
(***************************************************************************)
EXTENDS Naturals

CONSTANTS
  RollSize,     (* inst.rollsize, in bytes                                  *)
  BatchMax,     (* a batch holds at most this many bytes                    *)
  LastDay,      (* bound: the clock stops after this day                    *)
  MaxRestarts,  (* bound: the process is started again this often           *)
  MaxBytes      (* bound: a process writes while it has written fewer       *)

ASSUME RollAssumption ==
  /\ RollSize \in Nat /\ RollSize >= 1
  /\ BatchMax \in Nat
  /\ LastDay \in Nat /\ MaxRestarts \in Nat /\ MaxBytes \in Nat

VARIABLES
  day,         \* the calendar day, what time() and localtime_r() tell
  handle,      \* inst.handle: a file, stdout or NULL
  isOpen,      \* whether the stream in inst.handle has not been fclosed
  written,     \* inst.written_bytes
  rollDay,     \* inst.roll_mday, 0 before the first roll
  pc, back,    \* where the worker is, and where rollfile() will return to
  index,       \* rollfile's local index
  disk,        \* the length of every file there is; survives the process
  \* bounds and history:
  restarts, total,   \* processes before this one; bytes this one has written
  startDay,          \* the day this one was started
  last,              \* the file this process last wrote to
  leaked             \* the streams it lost without fclose

ghost == <<restarts, total, startDay, last, leaked>>
vars  == <<day, handle, isOpen, written, rollDay, pc, back, index, disk, ghost>>

Files == (Nat \ {0}) \X Nat   \* days are counted from 1, so day 0 is free for
Null == <<0, 0>>
Stdout == <<0, 1>>

IsFile(h) == h[1] > 0

(* The order in which a day's files, and the days, are numbered.            *)
NotAfter(f, g) == f[1] < g[1] \/ (f[1] = g[1] /\ f[2] <= g[2])

(* linit() has cleared inst and created the worker, which calls rollfile().  *)
Init ==
  /\ day = 1 /\ disk = [f \in {} |-> 0]
  /\ handle = Null /\ isOpen = FALSE /\ written = 0 /\ rollDay = 0
  /\ pc = "roll" /\ back = "wait" /\ index = 0
  /\ restarts = 0 /\ total = 0 /\ startDay = 1 /\ last = Null /\ leaked = 0

-----------------------------------------------------------------------------
(* rollfile()                                                                *)

(* Nothing is rolled once the log goes to stdout.                            *)
RollOnStdout ==
  /\ pc = "roll" /\ handle = Stdout
  /\ pc' = back
  /\ UNCHANGED <<day, handle, isOpen, written, rollDay, back, index, disk, ghost>>

(* The old stream is closed only if bytes were counted since the counter was *)
(* last zero.  (A directory that cannot be opened or made ends the process.) *)
NeverClose == FALSE      \* mutant: rollfile() only opens
MustClose == handle # Null /\ written > 0

RollClose ==
  /\ pc = "roll" /\ handle # Stdout
  /\ isOpen' = (isOpen /\ ~MustClose)
  /\ index' = 0
  /\ pc' = "open"
  /\ UNCHANGED <<day, handle, written, rollDay, back, disk, ghost>>

(* fopen puts another stream into inst.handle: one that is open there is lost. *)
Overwrite == leaked' = leaked + (IF isOpen THEN 1 ELSE 0)

OpenFailsUnnoticed ==    \* mutant: no stdout in place of the file
  /\ pc = "open"
  /\ handle' = Null /\ isOpen' = FALSE
  /\ Overwrite
  /\ pc' = back
  /\ UNCHANGED <<day, written, rollDay, back, index, disk,
                 restarts, total, startDay, last>>

OpenFails ==
  /\ pc = "open"
  /\ handle' = Stdout /\ isOpen' = TRUE
  /\ Overwrite
  /\ pc' = back
  /\ UNCHANGED <<day, written, rollDay, back, index, disk,
                 restarts, total, startDay, last>>

(* The file named for this moment and the next index is opened in mode "a+". *)
OpenAppend(f) == disk' = [g \in DOMAIN disk \cup {f} |-> IF g \in DOMAIN disk THEN disk[g] ELSE 0]

(* With rollsize bytes counted the file is skipped, and the count cleared.   *)
SkipFile == written >= RollSize

OpenFile ==
  /\ pc = "open"
  /\ handle' = <<day, index>>
  /\ OpenAppend(<<day, index>>)
  /\ Overwrite
  /\ IF SkipFile THEN isOpen' = FALSE /\ written' = 0 /\ index' = index + 1 /\ pc' = pc
                 ELSE isOpen' = TRUE /\ pc' = "stamp" /\ UNCHANGED <<written, index>>
  /\ UNCHANGED <<day, rollDay, back, restarts, total, startDay, last>>

(* The clock is read again for the day the file is taken to be of.           *)
Stamp ==
  /\ pc = "stamp"
  /\ rollDay' = day
  /\ pc' = back
  /\ UNCHANGED <<day, handle, isOpen, written, back, index, disk, ghost>>

-----------------------------------------------------------------------------
(* worker_func()                                                             *)

(* After its wait the worker looks for a new day, and rolls.                 *)
AnyTime == TRUE          \* mutant: rolls every time round
NewDay == rollDay # day

Collect ==
  /\ pc = "wait"
  /\ IF NewDay THEN pc' = "roll" /\ back' = "write" ELSE pc' = "write" /\ back' = back
  /\ UNCHANGED <<day, handle, isOpen, written, rollDay, index, disk,
                 restarts, total, startDay, last, leaked>>

(* The batch is written and flushed, and counted whatever the handle is; the  *)
(* file is rolled when the count has passed rollsize.                         *)
NeverTooLong(n) == FALSE \* mutant: rollsize so large that no count passes it
TooLong(n) == n > RollSize

Write(bytes) ==
  /\ pc = "write"
  /\ total < MaxBytes \/ bytes = 0
  /\ written' = written + bytes
  /\ total' = total + bytes
  /\ IF IsFile(handle)
       THEN disk' = [disk EXCEPT ![handle] = @ + bytes] /\ last' = handle
       ELSE UNCHANGED <<disk, last>>
  /\ IF TooLong(written') THEN pc' = "roll" /\ back' = "wait" ELSE pc' = "wait" /\ back' = back
  /\ UNCHANGED <<day, handle, isOpen, rollDay, index, restarts, startDay, leaked>>

-----------------------------------------------------------------------------
(* Time, the end of the process -- log_exit(), exit() after an error or a     *)
(* crash -- and another start of the program.                                 *)

Tick ==
  /\ day < LastDay
  /\ day' = day + 1
  /\ UNCHANGED <<handle, isOpen, written, rollDay, pc, back, index, disk, ghost>>

Stop ==
  /\ pc # "down"
  /\ pc' = "down"
  /\ UNCHANGED <<day, handle, isOpen, written, rollDay, back, index, disk, ghost>>

(* memset(&inst, 0, ...) in linit(): nothing is remembered but the files.     *)
Restart ==
  /\ pc = "down" /\ restarts < MaxRestarts
  /\ restarts' = restarts + 1
  /\ handle' = Null /\ isOpen' = FALSE /\ written' = 0 /\ rollDay' = 0
  /\ pc' = "roll" /\ back' = "wait" /\ index' = 0
  /\ total' = 0 /\ startDay' = day /\ last' = Null /\ leaked' = 0
  /\ UNCHANGED <<day, disk>>

Ended == pc = "down" /\ UNCHANGED vars

Next ==
  \/ RollOnStdout \/ RollClose \/ OpenFails \/ OpenFile \/ Stamp
  \/ Collect \/ \E bytes \in 0..BatchMax : Write(bytes)
  \/ Tick \/ Stop \/ Restart \/ Ended

Spec == Init /\ [][Next]_vars

-----------------------------------------------------------------------------
(* Properties.                                                               *)

(* Every variable holds a value of the C variable it stands for.             *)
TypeOK ==
  /\ day \in Nat \ {0} /\ rollDay \in Nat
  /\ handle \in {Null, Stdout} \cup Files /\ isOpen \in BOOLEAN
  /\ written \in Nat /\ index \in Nat
  /\ pc \in {"roll", "open", "stamp", "wait", "write", "down"} /\ back \in {"wait", "write"}
  /\ DOMAIN disk \subseteq Files /\ disk \in [DOMAIN disk -> Nat]
  /\ restarts \in Nat /\ total \in Nat /\ startDay \in Nat \ {0}
  /\ last \in {Null} \cup Files /\ leaked \in Nat

(* fwrite_unlocked never gets NULL or a stream that was closed, whatever      *)
(* rollfile() met on its way: an old file closed, a full one skipped, an      *)
(* fopen that failed.                                                         *)
WritesToOpenStream == pc = "write" => handle # Null /\ isOpen

(* The log can be read in the order of the names of its files: a process      *)
(* never goes back to a file before the one it last wrote to, though the      *)
(* index is counted from 0 again at every roll.                               *)
InNameOrder == pc = "write" /\ IsFile(handle) => NotAfter(last, handle)

(* A stream is lost without fclose (rolled while written_bytes is 0) at most  *)
(* once for every midnight.                                                   *)
LeaksPerDay == leaked <= day - startDay

(* The first file of a day stays near rollsize: what is beyond is one batch,   *)
(* for every process that has written to it.                                  *)
Share(n) == n * (RollSize + BatchMax)   \* what n processes may put into it

FirstFileBounded ==
  \A f \in DOMAIN disk : f[2] = 0 => disk[f] <= Share(restarts + 1)

(* A log file is never truncated, by a roll or by a restart.                  *)
FilesOnlyGrow ==
  [][\A f \in DOMAIN disk : f \in DOMAIN disk' /\ disk[f] <= disk'[f]]_vars

(* What is inductive of all this.  The stream: closed or absent only while     *)
(* rollfile() is between fclose and fopen.                                    *)
Running == {"stamp", "wait", "write"}

StreamInv ==
  /\ pc = "roll" => isOpen = (handle # Null)
  /\ pc = "open" => handle # Stdout /\ (handle = Null => ~isOpen)
  /\ pc \in Running => handle # Null /\ isOpen
  /\ pc = "stamp" => IsFile(handle)

(* The day: the worker's idea of it is never ahead, and it rolls for a new    *)
(* day (to return to its writing) only when the old one is over.              *)
DayInv ==
  /\ last[1] <= rollDay /\ startDay <= day
  /\ rollDay <= day /\ (rollDay # 0 => startDay <= rollDay)
  /\ pc \in {"roll", "open"} /\ back = "write" => rollDay < day
  /\ pc \in {"wait", "write", "roll"} /\ IsFile(handle) => handle[1] <= rollDay
  /\ handle[1] <= day

(* The count: the worker rolls for the size only with more than rollsize      *)
(* counted, which skips index 0; so no other index than 0 and 1 is ever used.  *)
SizeInv ==
  /\ handle[2] <= 1 /\ last[2] <= 1 /\ index <= 1
  /\ pc \in {"wait", "write"} \/ (pc \in {"roll", "open"} /\ back = "write") =>
       handle = Stdout \/ written <= RollSize
  /\ pc = "stamp" => written < RollSize
  /\ pc = "roll" /\ back = "wait" => handle = Stdout \/ (last = Null /\ handle = Null) \/ TooLong(written)
  /\ pc = "open" /\ back = "wait" => last = Null \/ TooLong(written) \/ index = 1
  /\ pc = "open" /\ index = 1 => written = 0
  /\ pc = "open" /\ isOpen => written = 0 /\ rollDay # 0 /\ rollDay < day

OrderInv == pc \in Running /\ IsFile(handle) => NotAfter(last, handle)

LeakInv ==
  /\ leaked <= day - startDay
  /\ pc # "down" /\ pc # "stamp" /\ handle # Stdout =>
       leaked <= (IF rollDay = 0 THEN 0 ELSE rollDay - startDay)

(* The first file of a day: what this process has put into it is what it has  *)
(* counted, and into a later day's it has put nothing yet.                     *)
ShareInv ==
  /\ pc \in Running /\ IsFile(handle) => handle \in DOMAIN disk
  /\ pc = "stamp" /\ handle[2] = 0 => last[1] < handle[1]
  /\ \A f \in DOMAIN disk : f[2] = 0 =>
       /\ disk[f] <= Share(restarts + 1)
       /\ last[1] < f[1] => disk[f] <= Share(restarts)
       /\ pc \in {"wait", "write"} /\ f = last /\ f = handle => disk[f] <= Share(restarts) + written

RInv == TypeOK /\ StreamInv /\ DayInv /\ SizeInv /\ OrderInv /\ LeakInv /\ ShareInv

(* What the comment on DEFAULT_ROLL_SIZE says: when a log file has reached     *)
(* rollsize a new one is rolled, so a file beyond it grows no more.            *)
FullFileClosed ==
  [][\A f \in DOMAIN disk : disk[f] > RollSize => disk'[f] = disk[f]]_vars

=============================================================================
