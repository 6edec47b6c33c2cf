# A verification project for enet_sample

`enet_sample` is a small Lua game server: a main loop that serves TCP and ENet
clients with a sproto protocol, an asynchronous logger written in C, a C binding
for ENet, and the Lua and LPeg it carries along and runs on.  This directory
holds TLA+ models of these parts, TLC runs that check them on small instances, and
TLAPS proofs, for all instances, of what the logger, the server, the ENet binding,
Lua's tables and the functions on lists promise.

Libraries reached through empty submodules (enet, sproto, lsocket, levent, cjson, lfs)
are external: what the code does with them is modelled where it matters.

## 1. The system

| Part | Source | State | Operations | Modules |
|---|---|---|---|---|
| Log buffers | `lualib-src/lua-log.c` 165-368 | current and spare buffer, list of filled buffers, mutex, condition, `running`; the worker's two spares and its batch | `ldebug` .. `lerror` (append), `worker_func` (a round: wait, grab, cut, write, recycle, free), `log_exit` | `LogBuffers`, `AsyncLog` |
| Log files | `lua-log.c` 70-163, the calls of `rollfile` | stream, `written_bytes`, `roll_mday`; the files on disk | size roll, day roll, open, fall back to stdout, restart | `LogRoll` |
| Logger lifecycle | `lua-log.c` 360-421, `lualib/log.lua` | the one `inst`, its threads | `linit`, `lexit`, `log.init`, `log.exit` | `LogInit` |
| TCP servlet and client | `example/complex/tcp_servlet.lua`, `testclt_tcp.lua` | list of sockets, map of addresses, counter; session, what was typed | accept, receive and answer, release; connect, request, mistype, quit, receive, be killed | `TcpServlet` |
| ENet servlet and client | `enet_servlet.lua`, `testclt_enet.lua`, `example/simple/*` | host, peers, counter; session, turns | one event a turn: answer, broadcast on connect | `EnetServlet` |
| Server loop | `example/complex/main.lua` | count of events saved | a turn of each servlet, the save | `ComplexServer` |
| ENet binding | `lualib-src/lua-enet.c` | userdata of hosts and peers, the weak table | create, service, connect, get_peer, disconnect, reset, destroy, collection | `EnetBinding` |
| Lua: collector | `3rd/lua/lgc.c`, parts of `lapi.c`, `lstring.c`, `lstate.c` | colours, object lists, gray lists, sweep position | marking, atomic step, sweeping, barriers, finalizers, full collection | `LuaCollector`, `ManagedHeap` |
| Lua: tables | `3rd/lua/ltable.c` | array part, nodes and their links | get, new key, resize, next, length, dead keys | `LuaTable`, `Dictionary` |
| Lua: table and string libraries | `ltablib.c`, `lstrlib.c` 59-163, 200-790, 1086-1509, `lutf8lib.c` | the part being sorted and those waiting; position, captures, result; format, bytes, arguments | `sort`, `insert`, `remove`, `move`, `concat`, `unpack`; `find`, `match`, `gmatch`, `gsub`; `pack`, `packsize`, `unpack`, `sub`, `byte`, `rep` and the other short ones; `utf8`, `tonumber` | `LuaSort`, `LuaList`, `LuaMatch`, `LuaString`, `LuaText`, `LuaChars`; `LuaPattern` |
| Lua: scanner | `llex.c`, `lobject.c` 164-347, `lctype.c` | what is left of the text, line, buffer; the token looked at ahead | next token, lookahead, input, error | `LuaLex`, `LuaObject` |
| Lua: compiler, VM | `lparser.c`, `lcode.c`, `ldump.c`, `lundump.c`, `lvm.c`, `ldo.c`, `lfunc.c`, `ltm.c`, `lbaselib.c` | function states, registers, jump lists; stack, frames, upvalues | every statement and expression; every instruction but bitwise and float ones; precompiled code | `LuaCode`, `LuaParser`, `LuaChunk`, `LuaVM`; `LuaRun`, `LuaMeaning`, `LuaPrograms` |
| LPeg | `3rd/lpeg/lptree.c`, `lpcode.c`, `lpvm.c`, part of `lpcap.c` | trees, code, backtrack stack, captures | construction, analysis, code generation, matching | `LPegTree`, `LPegCode`, `LPegVM`; `Peg` |
| Chat service | `service/chat.lua` | none | two handlers that answer `{errcode = 0}` | folded into the servlets |
| Others | | | | not modelled, section 7 |

How they interact.  Every program requires `log.lua`, whose loading calls
`logger.init`; the programs then call `log.init`, which calls it a second time.
From then on the Lua thread appends records to the current buffer under the
mutex, and the worker collects what is filled, at the latest after
`flush_interval` seconds, and writes it to the file `rollfile` has open.  `main.lua`
calls `tcp_servlet.process()` and `enet_servlet.process()` in turn, for ever; each looks
for what is ready without waiting, decodes requests, calls the handler that
`service/` registered in `env.request_handlers`, and sends the answer back over the
same socket or peer.  After ten events it saves the data.  `enet_servlet` reaches
ENet through the binding, whose userdata live and die by Lua's collector; all
scripts are compiled and run by Lua's parser and VM, and the socket tables are its
tables.

Hard behaviours, and what makes the part correct:

- *Buffers*: two threads share lists of buffers that change owner without being
  copied.  No buffer is reachable from both sides, none leaks, no record vanishes
  or leaves out of order except those dropped, and a drop is announced; the worker
  never sleeps over a filled buffer; what is logged gets out.
- *Files*: the clock passes midnight between any two steps, `fopen` fails, the
  process dies and comes back.  The stream written to is open, nothing is
  truncated, files are filled in the order of their names, sizes stay bounded.
- *Lifecycle*: the order of `linit`, the workers and `log_exit`.
- *Servlets and loop*: one thread, but clients act between any two of its steps, the
  socket tables change while a list selected from them is walked, several ENet
  requests are under way at once, requests sent before a connection is up are lost.
  The tables agree, an answer is of the request asked and comes in order, everybody
  is served, dead connections are released, little is unsaved.
- *Binding*: addresses of peers are used again, by the next connection and by the
  next host; userdata are collected at any time.
- *Table and string libraries*: `sort` is led by a comparison function that may answer
  anything; elements are moved within a list over themselves; the pattern matcher keeps
  one array of captures for all the ways it tries.
- *Collector, tables, compiler, VM, LPeg*: invariants over long sequences of legal
  operations that no test reaches: barriers in the middle of marking, colliding keys
  that move while a traversal stands on one, one-pass code generation with jump lists
  and a register stack, optimizations of a pattern compiler.

The complete list of hazards, each at its line, is under `hazards` in
`PROJECT.json`.

## 2. The modules

### LogBuffers -- the buffer engine

The heap is explicit: a `struct buffer` is a cell, `link`, `size` and `data` are its
fields, `live` the cells allocated, and `Calloc` an allocator left open.  The
C code's list surgery is kept: the worker adds the current buffer by moving `tail`
only, the cut leaves the first two buffers, recycling takes heads.

| Actions | Code |
|---|---|
| `Log(len)` = `append` + `Signal` | `ldebug` .. `lerror`, `append` (165-213); the critical section is one step |
| `Exit`, `Joined` | `log_exit`: `running = 0`, then `pthread_join` |
| `Start`, `Check`, `Lock`, `Timeout`, `Relock`, `Grab` | the worker up to the unlock; the wait is left by signal or timeout, and a wait with the mutex taken stays a wait |
| `Notice`, `Drop`, `FreeDropped`, `EndDrop` | a batch of more than 25 buffers |
| `WriteNode`, `EndWrite` | the write loop, one buffer a step |
| `Recycle1`, `Recycle2`, `FreeNode`, `EndClear` | refilling the two spares, freeing the rest |

A record is the number under which it was accepted and a length.  `queue`, `batch`,
`cut` and `notices` are history, against which the pointers are compared.  Left out:
the level filter, formatting, `fatal()`.  `AsyncLog` is what the engine promises:
records are accepted, and leave in runs, each written behind the file or dropped,
but never the oldest pending one dropped.  `QueueOrder` is the refinement
`LogBuffers => AsyncLog!Spec`.  `MCLogBuffers` gives TLC an allocator that hands out
the lowest free cell, so that freed cells are reused at once.

### LogRoll -- the files

A file is `<<day, index>>`, its content a length.  `RollClose`, `OpenFile`, `OpenFails`,
`Stamp` and `RollOnStdout` are `rollfile`; `Collect` and `Write` the places of the
worker that call it; `Tick` is midnight, possible between any two steps; `Stop` ends
the process anywhere; `Restart` is a new `linit()` over the old files.  Days are whole
dates where the code compares `tm_mday`: the two differ only for a worker that is not
run for a whole month.

### LogInit -- the workers' life

`linit` is three steps (`Clear`: the memset; `Fill`: buffers and mutex; `Create`: the
thread), `log_exit` two.  A worker is its rolls, its lock, grab and write; the buffers
are one sequence `pending`.  Destroying or clearing a mutex somebody uses is
undefined; the model takes it as a free one.  Only the violation run uses it.

### TcpServlet, EnetServlet, ComplexServer -- the server and its clients

`ComplexServer` instantiates the two servlets and composes them under `main()`'s
loop: `SelectSockets`, then `ServeSocket` once for each ready socket in any order
(`Accept`, `Answer`, `ReceiveError`, `Disconnected`), then `ServePeer`: one ENet event
(`process`) and `SaveIfDue`.  TCP clients connect, type (`Request`, `Mistype`, `Quit`),
receive and are killed, ENet clients take their turns and end or die, and the network
delivers, all between any two steps of the server.

External: `recv` gives all bytes there are, then at most one error, then the end, and
`dispatch` decodes the first request of what it gets; an ENet connection carries what is
sent in order, refuses what is sent before it is up, and discards what was not told
when it ends; a host keeps a queue of peers with something to tell, one place each.
Handlers exist for every request of the schema, so the nil call in
`tcp_servlet.lua:73` cannot be reached by these clients.

### EnetBinding -- Lua objects for hosts and peers

Slots of a host are `<<place, index>>`, where a later host may be allocated in the same
place.  `push_peer` is the weak table's lookup; `host_gc` the common end of a host by
`destroy()` or collection; `CollectHost` and `CollectPeer` may happen whenever the script
holds no reference.  `PeersGivenUp`, the one assumption on scripts, is that a host is
destroyed or let go of only when none of its peers is held: the binding does not
check it, and the programs of the repository keep both to their end.

### LuaCollector, ManagedHeap -- the collector

An object refers to others by a key and a value; seven kinds (table, three weak
ones, closure, userdata, string).  `singlestep` is one increment in each of the phases,
`SetTable` and `SetReferent` the stores with their barriers, `Intern` the resurrection of
a dead string, `SetFinalizer` and `CallFinalizer` the moves between the object lists,
`FullGC` an emergency or explicit full cycle, atomic as it is in the code.  White is
named relative to the current white.  `barrierback` links only while the invariant is
kept: in the sweep the gray lists have no meaning (they are reset at the next start).
`ManagedHeap` is the promise: collection takes any part of what cannot be reached.
Left out: the registry, metatables, fixed strings, threads other than the main one,
open upvalues, prototypes, pacing.

### LuaTable, Dictionary -- tables

The node part with its relative links, the free pointer, main positions, `luaH_newkey`'s
move of a colliding node, `rehash`, `luaH_resize`, `luaH_next` over dead keys, and the
length search; `Dictionary` the map it should be.  A chain is followed by `Walk`, which
iterates the function from each node to the next; a search looks for the first hit on
it.  A resize is one step, a fold over the old slots and nodes; `Full` says when a new key
needs one, and that a resize never needs another is a result of the proofs.  Errors that
leave the table alone (nil and NaN keys, overflow) are left out.

### LPegTree, LPegCode, LPegVM, Peg -- patterns

Constructors with their folding, the analysis (nullable, fixed length, first sets,
head failure), the code generator with every optimization, the peephole pass, the
machine and the capture list; `Peg` is the semantics of parsing expression grammars.
Instructions are positions of a sequence (their sizes abstracted), character sets are
sets.  The evaluation of capture kinds in `lpcap.c`, nested grammars and the stack
limit are left out; `MCLPeg` leaves out patterns for which `hascaptures()` diverges.

### LuaSort, LuaList -- lists

`LuaSort` is `auxsort()` with a step for every comparison, the only way it looks at
elements: `Ends`, `Middle`, `Upper` for the three elements it orders first, `Up` and
`Down` for the loops of the partition, `Divide` for its end.  `frames` are the C
activations that wait for the smaller part to be sorted.  A comparison function is
"consistent" if it answers by `Order`, any strict weak order, and otherwise answers each
question as it likes.  `LuaList` adds `insert`, `remove` and `move`, which store one element
after the other.  The length is any border, as in `LuaTable`.  Comparison functions
that change the list or raise an error, metamethods, and moving to another table are
left out.

### LuaMatch, LuaString, LuaPattern -- patterns of strings

`LuaMatch` is `match()` and all it calls, over the characters of the pattern, with its one
array of captures (`ms` goes in and comes out of every function); `LuaString` the loops of
`find`, `match`, `gmatch` and `gsub`, a step for each position tried.  `LuaPattern` says what
they should do: a pattern is a list of items, an item gives for a position the ways to
go on in the order it prefers, and a match is the first way through all items;
`TextOf` spells the pattern the program writes.  Replacement functions and tables give
any reply each time.  Strings with embedded zeros are left out, and patterns so deep that
`MAXCCALLS` ends them.

`LuaText` has the functions without patterns.  `string.pack`, `packsize` and `unpack` take an
option of the format at each step: sizes, byte order, alignment and padding, strings by
their length or their final zero, sign extension, integers wider than a Lua integer, and
every error among them.  `sub`, `byte`, `rep`, `table.concat` and `table.unpack` are a step each.
A float is the bytes it is kept in: what the cast of `string.pack("f")` loses is not told apart.  `unpack`
starts at the first byte.  Of `lstrlib.c` `format` and `dump` are left out.  `TextsAsDefined` compares with definitions of their own: what is packed
lays the arguments out in order, aligned and in the byte order asked for; `packsize` is its
length and `unpack` gives the arguments back; a slice is what lies between two positions,
repetition and concatenation are copies with separators.  `LuaChars` extends it with the
functions of single characters and the `utf8` library, whose strings need not be valid:
`CharsAsDefined` finds the characters by their encodings and then asks of `len`, `codepoint`,
`offset` and `codes` what a list of characters would answer.  `PatternsAsDefined` is the property of
`LuaString`, `CharsAsDefined`, which includes `TextsAsDefined`, that of the other two modules.

### LuaLex, LuaObject -- the scanner

`LuaLex` is `llex()` over bytes, one token a step, and the two ways the parser asks for tokens,
`luaX_next` and `luaX_lookahead`, in every order.  A text is written as a list of items, each with
the token that it is and the line breaks in it; `ScannedAsWritten` says that the parser gets
these tokens, in order, with their lines, and the error of the first wrong one.  `LuaObject` has
what scanner and library share of `lobject.c`: numerals (`strtod` is external), UTF-8 encodings,
the classes of characters.  Strings that the scanner anchors against the collector, memory
limits, other locales' decimal points and zeros in a chunk are left out.

### LuaCode, LuaParser, LuaChunk, LuaVM, LuaRun, LuaMeaning, LuaPrograms -- Lua itself

From the scanner's tokens to code (one pass, expression descriptors, jump lists,
register stack, constants, upvalues, gotos), and from code to behaviour (frames, calls,
tail calls, varargs, closing upvalues, the closure cache, metamethods, errors and
`pcall`, the base library).  `LuaMeaning` gives a syntax tree its meaning, `LuaRun` the
specification "prints what it means and ends as it means", which the machine refines.
`LuaChunk` writes a function to a sequence of bytes and reads it back (`ldump.c`,
`lundump.c`); some of the programs are run from such a chunk, with and without debug
information.
Left out: floats, bitwise operators, coroutines, hooks, ordering and conversion of
strings, growth of the stack, error messages beyond their kind.  The programs
exclude what the two sides may legitimately order differently, or what Lua leaves
open: comparing or printing closures beyond their type, tables with holes under `#`,
operands read again after a later operand assigned them, a label right behind
`if c then goto`, for loops that overflow.

## 3. The runs

| Run | Checks | Bounds, and why they suffice |
|---|---|---|
| `buffers` | memory safety, each buffer owned once and none leaked (`OneOwner`), no lost wake-up, nothing vanishes, drops announced, `QueueOrder`; under fairness `RecordsReachFile`, `ExitReturns` | 6 records of length 1 or 2, buffers of 3 (so one or two records fit), drop limit 3 instead of 25: batches of 4 to 6 buffers occur and are cut to two, and a batch of 3 is written whole and one of its buffers freed after the recycling |
| `exit` | finds `EveryRecordSynced` violated | 2 records |
| `roll` | open stream, order of names, one leak a midnight, first file bounded | roll size 2, batches up to 3 (so one batch can overshoot), 6 bytes a process (two size rolls a day), 3 days, one restart |
| `roll_full` | finds `FullFileClosed` violated | one day, no restart |
| `init_twice` | finds `OneFilenameUser` violated | two `linit`, 2 rolls |
| `server` | tables agree, answers match and come in order, only early requests are lost, unsaved events bounded; everybody served, connections released | two clients of any mixture, 2 commands or 3 turns each, a save every 3 events: two sockets and a peer can be ready in a turn that makes a save due; an ENet client has two requests under way |
| `collector` | black never points to white and grays are listed (`MarkingKept`), `KeepsPromise`, `GarbageFreed`; all of them without the step of the next run | every two objects of the seven kinds, and an ephemeron with a userdata as key and a closure as value: if it is visited before its key is marked, the value takes a round of marking of its own, before and after the userdata to be finalized are marked.  A second such round takes two ephemerons, which is left to none of the runs.  Sweep steps of one object, so that a sweep can be interrupted anywhere |
| `finalizer_in_sweep` | finds `BlackNeverPointsToWhite` violated | two userdata, one of them visited by the sweep; every step of the collector and the program allowed |
| `tables` | finds what was stored, `#` is a border, a traversal visits all; one object per slot of the binding, one owner per host, no method on a peer of a dead host | a behaviour uses either a Lua table or the binding, which share nothing.  6 keys of four kinds, all of one or two hash values, sizes up to 2 and 4, and `MAX_INT` 3: collisions, moves, rehashes and the unbound search all occur.  2 places, 2 host and 3 peer userdata, 2 slots: a place is used again while userdata of its old slots are still about; places, and userdata of a kind, are alike and exchanged by the symmetry |
| `lpeg` | analysis conservative, matches and captures as specified, terminates | patterns of three layers over the pieces that bring each optimization about, grammars of two rules, all short subjects over two letters |
| `lua` | the compiler's assertions about registers, and about the parts of an expression or function that must fit (`AssertsHold` lists them and those not followed), open upvalues live and metamethods above registers (`StackKept`), `RunsAsWritten` | 1699 programs of eleven families; small limits on constants and arguments, so that the wide instructions are used |
| `library` | `KeepsElements`, `SortsInOrder`, `PatternsAsDefined`, `CharsAsDefined`, `ScannedAsWritten` | lists of up to 5 with holes, of two values and nil: a list of 4 is the first that is partitioned, of 5 the first with a part that waits; patterns of up to three items out of 41, and captures with what follows them, on 4 subjects; at most 2 captures instead of 32; formats of up to two options behind settings, with bytes of one bit and integers of 4 of them, so that every sign, overflow and size beyond an integer occurs; strings of up to two UTF-8 characters, cut short and overlong ones among them, with every position; texts of every token, symbols side by side, numerals and string pieces of every kind, and chunks of more lines than `MAXLINES` 6 |

Each property of a passing run has a mutant of the code (the operators marked
"mutant" beside the definitions they replace) that TLC finds to break it.

### Fairness

`LogBuffers!FairSpec` assumes `WF(Worker)`: the operating system runs the thread, the
mutex's holder leaves its critical section, and a timed wait ends; and `WF(Joined)`:
`pthread_join` returns once the thread has ended.  Nothing makes the program log or
exit.  `ComplexServer!FairSpec` assumes `WF(Server)`, as `main()` loops without waiting;
`WF(TcpReceives)`: a client whose `select` can return goes on; and `WF(EnetNetwork)`: what
was sent arrives and a peer that is gone is noticed (ENet's timeouts).  No user has to
type.  The server's fairness is of the whole loop, not of each socket or peer: that
each is served follows from the turn.  `LuaCollector!FairSpec`, and `MCLuaCollector!SteadySpec`
with it, assume that steps of the collector come for ever, as they do with allocation.
`SteadySpec` is `FairSpec` with `NotUnderSweep` as a further guard of `CallFinalizer`: the guard is not
in the code, and what its absence leads to is the run `finalizer_in_sweep`.  `LuaVM` and `LPegVM`
assume that the machine goes on.

## 4. What the runs show to be wrong

- `lua-log.c:362`: the worker may end without collecting what was appended last;
  these records are lost at every orderly exit (`exit`).
- `lua-log.c:134`: from the second size roll of a day on, the file with index 1 is
  opened again and grows without bound (`roll_full`).  That index 0 stays bounded,
  and that no other index is ever used, is proved (`FirstFileBound`, `SizeInv`).
- `lua-log.c:372` with `log.lua:2` and `log.lua:7`: two workers; the static name buffer
  "only one thread accesses" has two users (`init_twice`).
- `lgc.c:791`: `luaC_step` (line 1147) calls finalizers in every phase, also in a sweep, and
  `udata2finalize` puts the object back into `allgc` although the sweep may stand on it.
  The sweep then goes on in `allgc`, and what follows in `tobefnz` stays black for the next
  cycle, which does not traverse it: what only it refers to is white, against the "main
  invariant" of `lgc.h`, and may be freed under it (`finalizer_in_sweep`; `KeepsPromise`
  falls with it).  `luaC_checkfinalizer` does move `sweepgc` on (line 912).  The code sweeps up
  to 85 objects in a step and calls few finalizers at first, so that it takes more than 85
  userdata to finalize, and a sweep long enough for the doubling of `gcfinnum` to catch up.

Seen on the way, without a run of their own: after a day roll the old day's bytes are
counted against the new file (`lua-log.c:148`); midnight between the naming of a file and
its stamp logs a day to the file of the day before (`lua-log.c:157`); `quit` in
`testclt_tcp.lua` waits for an answer that does not come (line 89); `ndyncap` of the LPeg
machine is not corrected by `IBackCommit` and by a failing match-time function, against
the assertion at `lpvm.c:165`; `hascaptures()` does not end for some recursive grammars
(`lpcode.c:131`); `freesharedproto` leaves the `SharedProto` itself (`lfunc.c:131`).

## 5. The proofs

TLAPS proves the following for every value of the constants that the named
assumptions allow.  Every theorem is `Spec => []P`, an action property or a refinement;
each rests on an inductive invariant, which TLC has also been given to check on the
instance of the run.

| Module | Theorems | Invariant |
|---|---|---|
| `LogBuffersProofs` | `TypeCorrect`, `OwnedOnce` (OneOwner) with its parts `Exclusive` (Separation) and `Balanced` (NoLeak), `WellLinked` (ListsLinked), `NoOverrun`, `SpareKept`, `AlwaysWoken` (NoLostWakeup), `NoAssertFails`, `NoDangling` (PointersLive) | `IInv` |
| `LogOrderProofs` | `NothingLost` (NothingVanishes), `LossAnnounced` (DropsAnnounced), `LogIsQueue` (the refinement QueueOrder) | `IInv /\ CInv` |
| `LogRollProofs` | `StreamAlwaysOpen`, `NamesInOrder`, `OneLeakPerMidnight`, `FirstFileBound`, `NothingTruncated` (an action property, proved only: it says that files are opened to append) | `RInv` |
| `ServletProofs` (lemmas about the two servlets), `ComplexServerProofs` | `TablesKeptTogether`, `AnswersBelong`, `AnsweredInOrder`, `LostOnlyEarly`, `SavedInTime` | `IInv` of `ComplexServer` |
| `LuaTableProofs` | `Finds` (FindsWhatWasStored), `Bordered` (LengthIsBorder), `Traverses` (the refinement TraversesAll) | `IInv`, and `TInv` for the traversal |
| `LuaListProofs` | `ListPermutes` (KeepsElements), `SortSorts` (SortsInOrder) | `ListInv` |
| `EnetBindingProofs` | `PeersUnique`, `HostsHaveOneOwner`, `NoPeerWithoutHost` | `BInv` |

*Assumptions.*  `LogAssumption`: `Null` is no cell, `Calloc` returns free cells, records are
shorter than a buffer (LOG_MAX is below LOG_BUFFER_SIZE), the drop limit is at
least 1.  `RollAssumption`: a roll size of at least 1.  `ServerAssumption`: connections and
peers are numbered from 1, the listener is no connection, a select returns finitely
many sockets (`IsFiniteSet(Clients)`), a save is due after at least one event.
`BindingAssumption`: `Null` is no place, slot or peer object, and the mark of a userdata
that does not exist is no place.  `TableAssumption`: the kinds of keys are disjoint, hash
values are natural numbers, nil is neither a key nor a value, and a list has integer
keys; the hash function is any.  `SortAssumption`: `Order` is asymmetric and negatively
transitive, which is what the manual asks of a comparison function.

### The buffers

None of `LogBuffers`' properties is inductive alone.  That the worker's walk is safe
needs the lists to be the chains the history sequences say; that the chains survive
`append` needs every reserve buffer to be fresh (`ReserveFresh`); that the asserts and
the recycling hold needs to know what the worker owns at each place of its loop
(`WorkerAt`: for instance, that a batch has two buffers whenever both spares were given
away, because the spare was missing only if a filled buffer was listed).  The lemmas
on chains (`ChainPush`, `ChainCut`, `ChainTail`) say what each piece of list surgery does
to a chain; then there is one lemma per action.

What becomes of the *records* is the second half, `CInv`.  `Contents`: a filled buffer has
records, in rising order, and a fresh one none.  `Ordered`: of two buffers of the same
list, and of the batch and the queue, the older has the smaller records.  `Divided`: the
records accepted are those in the file, those dropped and those in the buffers still
to be written, and no record is in two of these.  `NoticeAhead`: while a cut is under
way a notice newer than all that is in the batch is in the log, and not dropped.  `NothingVanishes` and
`DropsAnnounced` follow, and so does the refinement: writing a buffer is `AsyncLog!Write`
of a run, since the buffer holds an interval of what is pending and the file ends
before it; freeing a dropped buffer is `AsyncLog!Drop`, since the head of the batch is
older and still pending.

### The files

`RInv`: the stream is closed only between `fclose` and `fopen`; the worker's day is never
ahead of the clock, and strictly behind it while it rolls for a new day; a roll for
size has more than the roll size counted, so index 0 is skipped exactly once and
index 1 is the last; what a process has put into a first file is what it counts.

### The server

The three parts of `IInv` are kept by different steps.  `TcpInv`: the tables agree and
list no socket twice; a connection waits once in the backlog and then is in no table;
a ready listener has somebody waiting; and each client (`ClientAt`) has at most its one
request or one answer under way, which is what makes the unframed `recv` harmless.
`TablesAgree` alone is not inductive: `Accept` needs the backlog to have no repetition and
to be disjoint from the tables, `Disconnected` needs the socket served to be listed.

`EnetInv`: for each peer, the first thing the server hears is the connect; the sessions in
the answers under way followed by the requests still to be told rise strictly
(`AnswersInOrder`), and are exactly the sessions asked that were neither sent too early
nor answered yet (`OnlyEarlyLost`); a peer is queued at most once, and
whoever is queued has something to tell.  The lemmas on lists (`Rising`, `InOrder`,
`Events`) are stated for any data, so that they apply to both the old and the new
state.

`UnsavedBounded` is inductive only together with the number of sockets still to be
served, which falls as the count rises: the bound is `SaveEvery` and one turn.

### The binding

`OneObjectPerPeer` needs the weak table and the userdata to agree in both directions
(`TableAgrees`): with one direction only, a slot could be entered under a second object
while the first is still held.  `PeersOfLiveHosts` is not inductive: the collector could
take a host whose peers are held.  `HoldsItsHost` says why it does not: whoever holds a
peer holds the host, in a userdata that still has the address.  `HostsOwnedOnce` makes
`destroy()` followed by collection harmless.

### The tables

`FindsWhatWasStored` says nothing of the nodes, and is far from inductive.  `Well(t)` is
the shape of a table that every operation keeps.  `Chained`: links lead to nodes, a node
is linked from one other at most, there are no cycles, a node without a key is in no chain,
every live key is on the chain of its main position, and a chain starts with a key that is
in its main position.  `HashOnly`: no key of the array part is in a node.  `Below`: nodes
from `lastfree` on have keys.  `Dummy`: the shared empty node is never used.  `Listed`: an
array slot with a value has an index that is a key.

A chain is described without recursion.  A set of nodes *leads to* `n` (`Leads`) if every
other node of it has a link, into the set, and another key than `n`; a key is on its chain
if a set with its main position leads to its node.  As there are no cycles, a walk from
there arrives within as many steps as there are nodes (`WalkArrives`), and the search finds
that node and nothing else first; so two live nodes never have the same key (`KeysUnique`).
With this the three ways of `luaH_newkey()` are three lemmas: a key put in its free main
position leaves all links alone (the node may still be part of a chain, whose dead or
cleared key it overwrites); a colliding node that moves away keeps its place in its
chain, and the chain that begins in the node it left begins anew; a key put behind its
main position lengthens that chain by one node.

`luaH_resize()` inserts what it moves one by one into the new parts.  That none of these
insertions finds the table full, which would start another resize in the middle of
this one, is counted: the keys with a value that are not among the array's are in a set
no larger than the new number of nodes, and as long as one of them is missing there is
a node below `lastfree` without a key (`NotFull`).  `rehash()` counts that set right
because each key that has a value is counted exactly once.

`luaH_getn()` bisects: between an index with a value and one without, halving keeps that
so, and the distance falls until the two are neighbours.  This is an induction over the
distance; `SetInduction`, which says that a set of numbers with 0 and with the successor
of each of its members has all, is stated for sets, because the library's rules of
induction take a predicate, which the provers cannot instantiate.

`TInv` is about the order of a traversal: what `next` gave lies at or before the cursor
and what is left lies behind it, in the positions `findindex()` computes.  A store to
an existing entry and the death of a key move no position, not even that of a key
that died, because `findindex()` takes dead keys too; and the cursor itself is found.
`MapStep` then takes each operation to the same operation of `Dictionary`, or a stutter.

### Lists

For `sort`, `ListPermutes` holds whatever the comparison function answers.  Every store of
`auxsort()` exchanges two elements, so what has to be shown is that the two are in
`1..n`: that the loops of the partition end inside the part being sorted or in an error,
because `Up` and `Down` are stopped by their tests against `u` and `l` and nothing else.
The lemma on exchanges gives a bijection between the places of each element before and
after.

`SortSorts` needs to know where the parts are.  `SortInv`: the part being sorted and the
parts that wait in `frames` are disjoint (`Disjoint`), and any two elements are in order
unless they are in one of these parts together (`InOrder`).  Within a partition: up to
`i` nothing is greater than the pivot, from `j` on nothing smaller, and the pivot waits
at `u - 1`.  That no "invalid order function" is reported needs the two ends as sentinels: the element at `u - 1` is the pivot and the one
at `l` is not greater, so both loops stop before their limits (`Partitioned`).

`insert`, `remove` and `move` store one element after the other into the list they read
from.  `MovedSteps`: the fold is a sequence of such stores, the one of the next element on what
the earlier ones left.  When the first element goes first if they move to lower places
(`MovedDown`), and the last if they move to higher ones (`MovedUp`), no store overwrites an
element still to be moved, so that in the end each is where it belongs and all else is as it
was.  This is the
choice `tmove()` makes, and the direction of the loops of `tinsert()` and `tremove()`.

### What is only model-checked

- *Liveness* (`RecordsReachFile`, `ExitReturns`, `EverybodyServed`, `ConnectionsReleased`,
  `GarbageFreed`, `Terminates`, and the progress part of
  `RunsAsWritten`): fairness and ENABLED are out of the prover's reach.
- *The collector* (`MarkingKept`, `KeepsPromise`): neither holds of every heap, as section 4
  says, and marking is recursive over the heap.
- *LPeg* (`AnalysisConservative`, `MatchesAsSpecified`), *Lua* (`AssertsHold`, `StackKept`, the safety
  part of `RunsAsWritten`), *string patterns and strings* (`PatternsAsDefined`, `CharsAsDefined`), *the scanner*
  (`ScannedAsWritten`): analysis, code generation, matching and semantics are recursive over
  trees and programs, in the code and in the models, in operators declared RECURSIVE, where the
  provers have no arithmetic; what such a definition computes for every input needs
  induction over trees.
- `LogInit`: its only property is the one found violated.

## 6. How to run

`tlc -config X.cfg M` for the module and configuration each entry of `runs` in
`PROJECT.json` names; `tlapm M.tla` for each of the proof modules.  The longest run takes
a few minutes; the proofs take about half an hour together.

In `PROJECT.json`, `map` gives the lines each definition translates.  In the modules of the
compiler, the VM, the scanner and the libraries a helper whose lines lie within those
of the definition that uses it has no row of its own.

## 7. Not modelled

Formatting, levels and truncation of records; the width of `rollsize` (a roll size of
2048 MB or more overflows); `fatal()`; a directory that cannot be made (the process
ends, which is `Stop`); start-up of the servers; accessors and limits of the ENet
binding; loading of the protocol (read once, no state); the shared environment (filled
at start-up, only read afterwards); `test/timer.lua` (a test's class that no program
uses, driven by an absent library); the clock binding and the build (stateless); of Lua
its API, the other libraries and `string.format`; LPeg's evaluation of captures; Penlight.  The
reasons are in `PROJECT.json`, component by component.
