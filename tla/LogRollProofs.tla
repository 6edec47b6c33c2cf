--------------------------- MODULE LogRollProofs ---------------------------
(***************************************************************************)
(* The inductive invariant of LogRoll and what follows from it, for every    *)
(* rollsize, batch, clock and number of restarts.                            *)
(*                                                                          *)
(* The invariant is taken apart into what it says of types, of the stream,    *)
(* of days, of sizes, of the order of files, of lost streams and of the       *)
(* first file's length; a lemma for each shows that every action keeps it.    *)
(***************************************************************************)
EXTENDS LogRoll, TLAPS

-----------------------------------------------------------------------------
(* The operators: names of files, and the bound on the first file.           *)

(* What inst.handle may be.                                                  *)
LEMMA HandleFacts ==
  ASSUME NEW h \in {Null, Stdout} \cup Files
  PROVE  /\ h[1] \in Nat /\ h[2] \in Nat
         /\ h = <<h[1], h[2]>>
         /\ IsFile(h) <=> h \in Files
         /\ IsFile(h) <=> h \notin {Null, Stdout}
  BY DEF Files, Null, Stdout, IsFile

(* NULL, stdout and the files are told apart.                                *)
LEMMA Distinct == Null # Stdout /\ ~IsFile(Null) /\ ~IsFile(Stdout) /\ Null[1] = 0
  BY DEF Null, Stdout, IsFile

(* A day and an index name a file.                                           *)
LEMMA FileOf ==
  ASSUME NEW d \in Nat \ {0}, NEW i \in Nat
  PROVE  /\ <<d, i>> \in Files /\ IsFile(<<d, i>>)
         /\ <<d, i>>[1] = d /\ <<d, i>>[2] = i
         /\ <<d, i>> # Null /\ <<d, i>> # Stdout
  BY DEF Files, Null, Stdout, IsFile

(* The share of n processes in a first file grows by rollsize and a batch    *)
(* with each.                                                                *)
LEMMA ShareFacts ==
  ASSUME NEW n \in Nat
  PROVE  /\ Share(n) \in Nat /\ Share(0) = 0
         /\ Share(n + 1) = Share(n) + RollSize + BatchMax
  <1> DEFINE K == RollSize + BatchMax
  <1>1. K \in Nat BY RollAssumption
  <1>2. n * K \in Nat /\ 0 * K = 0 BY <1>1
  <1>3. (n + 1) * K = n * K + K BY <1>1
  <1> QED BY <1>1, <1>2, <1>3, RollAssumption DEF Share

-----------------------------------------------------------------------------
(* One lemma for each part of the invariant.                                 *)

(* Every step keeps the types.                                               *)
LEMMA TypeStep ==
  ASSUME RInv, Next
  PROVE  TypeOK'
  <1> USE RollAssumption DEF RInv, TypeOK, StreamInv, ShareInv, Running, Files, Null, Stdout, IsFile
  <1>1. CASE RollOnStdout BY <1>1 DEF RollOnStdout, ghost, vars
  <1>2. CASE RollClose BY <1>2 DEF RollClose, MustClose, ghost, vars
  <1>3. CASE OpenFails BY <1>3 DEF OpenFails, Overwrite, ghost, vars
  <1>4. CASE OpenFile
    <2> DEFINE f == <<day, index>>
    <2>1. f \in Files BY FileOf
    <2>2. DOMAIN disk' = DOMAIN disk \cup {f} /\ disk' \in [DOMAIN disk' -> Nat]
      BY <1>4, <2>1 DEF OpenFile, OpenAppend
    <2>3. DOMAIN disk' \subseteq Files BY <2>1, <2>2
    <2> HIDE DEF Files, Null, Stdout, IsFile, f
    <2>4. handle' = f /\ last' = last BY <1>4 DEF OpenFile, f
    <2> HIDE DEF StreamInv, ShareInv
    <2>5. handle' \in {Null, Stdout} \cup Files /\ last' \in {Null} \cup Files
      BY <2>1, <2>4
    <2>6. /\ written' \in Nat /\ index' \in Nat
          /\ pc' \in {"open", "stamp"}
      BY <1>4 DEF OpenFile
    <2>7. leaked' \in Nat BY <1>4 DEF OpenFile, Overwrite
    <2>8. isOpen' \in BOOLEAN BY <1>4, Zenon DEF OpenFile
    <2>9. UNCHANGED <<day, rollDay, back, restarts, total, startDay>>
      BY <1>4 DEF OpenFile
    <2> QED BY <2>2, <2>3, <2>5, <2>6, <2>7, <2>8, <2>9
  <1>5. CASE Stamp BY <1>5 DEF Stamp, ghost, vars
  <1>6. CASE Collect BY <1>6 DEF Collect, NewDay, ghost, vars
  <1>7. ASSUME NEW bytes \in 0..BatchMax, Write(bytes) PROVE TypeOK'
    BY <1>7 DEF Write, TooLong, ghost, vars
  <1>8. CASE Tick BY <1>8 DEF Tick, ghost, vars
  <1>9. CASE Stop BY <1>9 DEF Stop, ghost, vars
  <1>10. CASE Restart
    <2> HIDE DEF Files, Null, Stdout, IsFile
    <2>1. handle' \in {Null, Stdout} \cup Files /\ last' \in {Null} \cup Files
      BY <1>10 DEF Restart
    <2>2. isOpen' \in BOOLEAN BY <1>10, Zenon DEF Restart
    <2>3. /\ written' \in Nat /\ index' \in Nat /\ rollDay' \in Nat
          /\ pc' = "roll" /\ back' = "wait" /\ leaked' \in Nat /\ day' = day
          /\ restarts' \in Nat /\ total' \in Nat /\ startDay' = day
      BY <1>10 DEF Restart
    <2>4. disk' = disk BY <1>10 DEF Restart
    <2> QED BY <2>1, <2>2, <2>3, <2>4
  <1>11. CASE Ended BY <1>11 DEF Ended, ghost, vars
  <1> QED BY <1>1, <1>2, <1>3, <1>4, <1>5, <1>6, <1>7, <1>8, <1>9, <1>10, <1>11 DEF Next

(* Every step keeps the stream open wherever the worker may write.           *)
LEMMA StreamStep ==
  ASSUME RInv, Next
  PROVE  StreamInv'
  <1> USE RollAssumption DEF RInv, TypeOK, StreamInv, Running, Files, Null, Stdout, IsFile
  <1>1. CASE RollOnStdout
    <2>1. pc' \in {"wait", "write"} /\ handle' = Stdout /\ isOpen'
      BY <1>1, Distinct DEF RollOnStdout
    <2> QED BY <2>1, Distinct DEF Stdout, Null
  <1>2. CASE RollClose BY <1>2 DEF RollClose, MustClose, ghost, vars
  <1>3. CASE OpenFails
    <2>1. pc' \in {"wait", "write"} /\ handle' = Stdout /\ isOpen'
      BY <1>3 DEF OpenFails
    <2> QED BY <2>1, Distinct
  <1>4. CASE OpenFile BY <1>4 DEF OpenFile, OpenAppend, Overwrite, SkipFile, ghost, vars
  <1>5. CASE Stamp BY <1>5 DEF Stamp, ghost, vars
  <1>6. CASE Collect BY <1>6 DEF Collect, NewDay, ghost, vars
  <1>7. ASSUME NEW bytes \in 0..BatchMax, Write(bytes) PROVE StreamInv'
    BY <1>7 DEF Write, TooLong, ghost, vars
  <1>8. CASE Tick BY <1>8 DEF Tick, ghost, vars
  <1>9. CASE Stop BY <1>9 DEF Stop, ghost, vars
  <1>10. CASE Restart BY <1>10 DEF Restart, ghost, vars
  <1>11. CASE Ended BY <1>11 DEF Ended, ghost, vars
  <1> QED BY <1>1, <1>2, <1>3, <1>4, <1>5, <1>6, <1>7, <1>8, <1>9, <1>10, <1>11 DEF Next

(* Every step keeps the worker's day between the start and the clock.        *)
LEMMA DayStep ==
  ASSUME RInv, Next
  PROVE  DayInv'
  <1> USE RollAssumption DEF RInv, TypeOK, DayInv, StreamInv, SizeInv, Running, Files, Null, Stdout, IsFile
  <1>1. CASE RollOnStdout BY <1>1 DEF RollOnStdout, ghost, vars
  <1>2. CASE RollClose BY <1>2 DEF RollClose, MustClose, ghost, vars
  <1>3. CASE OpenFails BY <1>3 DEF OpenFails, Overwrite, ghost, vars
  <1>4. CASE OpenFile BY <1>4 DEF OpenFile, OpenAppend, Overwrite, SkipFile, ghost, vars
  <1>5. CASE Stamp BY <1>5 DEF Stamp, ghost, vars
  <1>6. CASE Collect BY <1>6 DEF Collect, NewDay, ghost, vars
  <1>7. ASSUME NEW bytes \in 0..BatchMax, Write(bytes) PROVE DayInv'
    BY <1>7 DEF Write, TooLong, ghost, vars
  <1>8. CASE Tick BY <1>8 DEF Tick, ghost, vars
  <1>9. CASE Stop BY <1>9 DEF Stop, ghost, vars
  <1>10. CASE Restart BY <1>10 DEF Restart, ghost, vars
  <1>11. CASE Ended BY <1>11 DEF Ended, ghost, vars
  <1> QED BY <1>1, <1>2, <1>3, <1>4, <1>5, <1>6, <1>7, <1>8, <1>9, <1>10, <1>11 DEF Next

(* Every step keeps the count in step with the index of the file.            *)
LEMMA SizeStep ==
  ASSUME RInv, Next
  PROVE  SizeInv'
  <1> USE RollAssumption DEF RInv, TypeOK, DayInv, StreamInv, SizeInv, Running, Files, Null, Stdout, IsFile, TooLong
  <1>1. CASE RollOnStdout BY <1>1 DEF RollOnStdout, ghost, vars
  <1>2. CASE RollClose
    <2>1. /\ pc = "roll" /\ pc' = "open" /\ index' = 0 /\ handle # Stdout
          /\ isOpen' = (isOpen /\ ~(handle # Null /\ written > 0))
          /\ UNCHANGED <<handle, last, written, back, rollDay, day>>
      BY <1>2 DEF RollClose, MustClose, ghost
    <2>2. ASSUME isOpen' PROVE written = 0 /\ rollDay # 0 /\ rollDay < day
      <3>1. isOpen /\ handle # Null /\ written = 0
        <4> HIDE DEF Null, Stdout, IsFile, Files, TypeOK, DayInv, SizeInv
        <4>1. isOpen /\ ~(handle # Null /\ written > 0) BY <2>1, <2>2, Zenon
        <4>2. handle # Null BY <2>1, <4>1, Zenon
        <4>3. written = 0 BY <4>1, <4>2 DEF TypeOK
        <4> QED BY <4>1, <4>2, <4>3
      <3>2. IsFile(handle) BY <2>1, <3>1, HandleFacts
      <3>3. rollDay # 0 BY <2>1, <3>2
      <3>4. back = "write"
        <4> HIDE DEF Null, Stdout, IsFile, Files
        <4> QED BY <2>1, <3>1
      <3> QED BY <2>1, <3>1, <3>3, <3>4
    <2>3. back = "wait" => last = Null \/ TooLong(written)
      <3> HIDE DEF Null, Stdout, IsFile, Files, TooLong
      <3> QED BY <2>1
    <2> QED BY <2>1, <2>2, <2>3
  <1>3. CASE OpenFails BY <1>3 DEF OpenFails, Overwrite, ghost, vars
  <1>4. CASE OpenFile BY <1>4 DEF OpenFile, OpenAppend, Overwrite, SkipFile, ghost, vars
  <1>5. CASE Stamp BY <1>5 DEF Stamp, ghost, vars
  <1>6. CASE Collect BY <1>6 DEF Collect, NewDay, ghost, vars
  <1>7. ASSUME NEW bytes \in 0..BatchMax, Write(bytes) PROVE SizeInv'
    BY <1>7 DEF Write, TooLong, ghost, vars
  <1>8. CASE Tick BY <1>8 DEF Tick, ghost, vars
  <1>9. CASE Stop BY <1>9 DEF Stop, ghost, vars
  <1>10. CASE Restart BY <1>10 DEF Restart, ghost, vars
  <1>11. CASE Ended BY <1>11 DEF Ended, ghost, vars
  <1> QED BY <1>1, <1>2, <1>3, <1>4, <1>5, <1>6, <1>7, <1>8, <1>9, <1>10, <1>11 DEF Next

(* Every step keeps the files in the order of their names.                   *)
LEMMA OrderStep ==
  ASSUME RInv, Next
  PROVE  OrderInv'
  <1> USE RollAssumption DEF RInv, TypeOK, DayInv, StreamInv, SizeInv, OrderInv, Running, Files, Null, Stdout, IsFile, TooLong, NotAfter
  <1>1. CASE RollOnStdout BY <1>1 DEF RollOnStdout, ghost, vars
  <1>2. CASE RollClose BY <1>2 DEF RollClose, MustClose, ghost, vars
  <1>3. CASE OpenFails BY <1>3 DEF OpenFails, Overwrite, ghost, vars
  <1>4. CASE OpenFile BY <1>4 DEF OpenFile, OpenAppend, Overwrite, SkipFile, ghost, vars
  <1>5. CASE Stamp BY <1>5 DEF Stamp, ghost, vars
  <1>6. CASE Collect BY <1>6 DEF Collect, NewDay, ghost, vars
  <1>7. ASSUME NEW bytes \in 0..BatchMax, Write(bytes) PROVE OrderInv'
    BY <1>7 DEF Write, TooLong, ghost, vars
  <1>8. CASE Tick BY <1>8 DEF Tick, ghost, vars
  <1>9. CASE Stop BY <1>9 DEF Stop, ghost, vars
  <1>10. CASE Restart BY <1>10 DEF Restart, ghost, vars
  <1>11. CASE Ended BY <1>11 DEF Ended, ghost, vars
  <1> QED BY <1>1, <1>2, <1>3, <1>4, <1>5, <1>6, <1>7, <1>8, <1>9, <1>10, <1>11 DEF Next

(* Every step keeps the streams lost within the midnights passed.            *)
LEMMA LeakStep ==
  ASSUME RInv, Next
  PROVE  LeakInv'
  <1> USE RollAssumption DEF RInv, TypeOK, DayInv, StreamInv, SizeInv, LeakInv, Running, Files, Null, Stdout, IsFile, TooLong
  <1>1. CASE RollOnStdout BY <1>1 DEF RollOnStdout, ghost, vars
  <1>2. CASE RollClose BY <1>2 DEF RollClose, MustClose, ghost, vars
  <1>3. CASE OpenFails BY <1>3 DEF OpenFails, Overwrite, ghost, vars
  <1>4. CASE OpenFile BY <1>4 DEF OpenFile, OpenAppend, Overwrite, SkipFile, ghost, vars
  <1>5. CASE Stamp BY <1>5 DEF Stamp, ghost, vars
  <1>6. CASE Collect BY <1>6 DEF Collect, NewDay, ghost, vars
  <1>7. ASSUME NEW bytes \in 0..BatchMax, Write(bytes) PROVE LeakInv'
    BY <1>7 DEF Write, TooLong, ghost, vars
  <1>8. CASE Tick BY <1>8 DEF Tick, ghost, vars
  <1>9. CASE Stop BY <1>9 DEF Stop, ghost, vars
  <1>10. CASE Restart BY <1>10 DEF Restart, ghost, vars
  <1>11. CASE Ended BY <1>11 DEF Ended, ghost, vars
  <1> QED BY <1>1, <1>2, <1>3, <1>4, <1>5, <1>6, <1>7, <1>8, <1>9, <1>10, <1>11 DEF Next

(* Every step keeps the first files within the processes' shares.            *)
LEMMA ShareStep ==
  ASSUME RInv, Next
  PROVE  ShareInv'
  <1> USE RollAssumption DEF RInv, TypeOK, DayInv, StreamInv, SizeInv, OrderInv, ShareInv, Running, Files, Null, Stdout, IsFile, TooLong, NotAfter
  <1>1. CASE RollOnStdout BY <1>1 DEF RollOnStdout, ghost, vars
  <1>2. CASE RollClose BY <1>2 DEF RollClose, MustClose, ghost, vars
  <1>3. CASE OpenFails BY <1>3 DEF OpenFails, Overwrite, ghost, vars
  <1>4. CASE OpenFile
    <2> DEFINE f == <<day, index>>
    <2>1. f \in Files /\ f[1] = day /\ f[2] = index BY FileOf
    <2>2. DOMAIN disk' = DOMAIN disk \cup {f} /\ handle' = f
      BY <1>4 DEF OpenFile, OpenAppend
    <2>3. \A g \in DOMAIN disk' : disk'[g] = IF g \in DOMAIN disk THEN disk[g] ELSE 0
      BY <1>4, <2>2 DEF OpenFile, OpenAppend
    <2>4. /\ last' = last /\ restarts' = restarts /\ pc' \in {"open", "stamp"}
          /\ pc' = "stamp" => ~SkipFile
      BY <1>4 DEF OpenFile
    <2>5. pc' = "stamp" /\ index = 0 => last[1] < day
      BY <1>4, <2>4 DEF OpenFile, SkipFile
    <2>6. Share(restarts) \in Nat /\ Share(restarts + 1) \in Nat
      BY ShareFacts
    <2> QED BY <2>1, <2>2, <2>3, <2>4, <2>5, <2>6
  <1>5. CASE Stamp BY <1>5 DEF Stamp, ghost, vars
  <1>6. CASE Collect BY <1>6 DEF Collect, NewDay, ghost, vars
  <1>7. ASSUME NEW bytes \in 0..BatchMax, Write(bytes) PROVE ShareInv'
    <2>1. /\ pc = "write" /\ handle' = handle /\ restarts' = restarts
          /\ written' = written + bytes /\ pc' \in {"roll", "wait"}
      BY <1>7 DEF Write
    <2>2. /\ Share(restarts) \in Nat
          /\ Share(restarts + 1) = Share(restarts) + RollSize + BatchMax
      BY ShareFacts
    <2>3. CASE ~IsFile(handle)
      <3>1. disk' = disk /\ last' = last BY <1>7, <2>3 DEF Write
      <3>2. ~IsFile(handle') BY <2>1, <2>3
      <3>3. \A f \in DOMAIN disk : f # handle' BY <3>2, HandleFacts
      <3> QED BY <2>1, <2>2, <3>1, <3>2, <3>3
    <2>4. CASE IsFile(handle)
      <3>1. /\ handle \in DOMAIN disk /\ last' = handle
            /\ disk' = [disk EXCEPT ![handle] = disk[handle] + bytes]
        <4> HIDE DEF IsFile
        <4>1. handle \in DOMAIN disk BY <2>1, <2>4
        <4>2. last' = handle /\ disk' = [disk EXCEPT ![handle] = disk[handle] + bytes]
          BY <1>7, <2>4 DEF Write
        <4> QED BY <4>1, <4>2
      <3>2. /\ DOMAIN disk' = DOMAIN disk
            /\ disk'[handle] = disk[handle] + bytes
            /\ \A f \in DOMAIN disk : f # handle => disk'[f] = disk[f]
        <4> HIDE DEF IsFile, Files, Null, Stdout
        <4> QED BY <3>1
      <3>3. last[1] <= handle[1] /\ NotAfter(last, handle) BY <2>1, <2>4
      <3>4. written <= RollSize BY <2>1, <2>4, Distinct
      <3>5. handle[2] = 0 => disk[handle] <= Share(restarts) + written
        <4> SUFFICES ASSUME handle[2] = 0 PROVE disk[handle] <= Share(restarts) + written
          OBVIOUS
        <4>1. CASE last[1] < handle[1] BY <2>2, <3>1, <4>1
        <4>2. CASE last[1] = handle[1]
          <5>1. last[2] = 0 BY <3>3, <4>2
          <5>2. last = handle BY <4>2, <5>1, HandleFacts
          <5> QED BY <2>1, <3>1, <5>2
        <4> QED BY <3>3, <4>1, <4>2
      <3>6. ASSUME NEW f \in DOMAIN disk', f[2] = 0
            PROVE  /\ disk'[f] <= Share(restarts' + 1)
                   /\ last'[1] < f[1] => disk'[f] <= Share(restarts')
                   /\ f = last' => disk'[f] <= Share(restarts') + written'
        <4>1. CASE f = handle
          <5>1. disk'[f] <= Share(restarts) + written + bytes
            BY <2>2, <3>1, <3>2, <3>5, <3>6, <4>1
          <5> QED BY <2>1, <2>2, <3>1, <3>4, <4>1, <5>1
        <4>2. CASE f # handle
          <5>1. disk'[f] = disk[f] /\ f \in DOMAIN disk BY <3>2, <3>6, <4>2
          <5> QED BY <2>1, <2>2, <3>1, <3>3, <3>6, <4>2, <5>1
        <4> QED BY <4>1, <4>2
      <3> QED BY <2>1, <3>1, <3>2, <3>6
    <2> QED BY <2>3, <2>4
  <1>8. CASE Tick BY <1>8 DEF Tick, ghost, vars
  <1>9. CASE Stop BY <1>9 DEF Stop, ghost, vars
  <1>10. CASE Restart
    <2>1. /\ disk' = disk /\ restarts' = restarts + 1 /\ pc' = "roll"
          /\ handle' = Null /\ last' = Null /\ written' = 0
      BY <1>10 DEF Restart
    <2>2. Share(restarts + 1) \in Nat /\ Share(restarts + 1 + 1) = Share(restarts + 1) + RollSize + BatchMax
      BY ShareFacts
    <2> QED BY <2>1, <2>2
  <1>11. CASE Ended BY <1>11 DEF Ended, ghost, vars
  <1> QED BY <1>1, <1>2, <1>3, <1>4, <1>5, <1>6, <1>7, <1>8, <1>9, <1>10, <1>11 DEF Next

-----------------------------------------------------------------------------
(* The invariant, and the theorems.                                          *)

(* linit() establishes the invariant.                                        *)
LEMMA InitRInv ==
  ASSUME Init
  PROVE  RInv
  <1> USE RollAssumption DEF Init
  <1>1. TypeOK
    <2>1. disk = [f \in {} |-> 0] /\ DOMAIN disk = {} BY DEF TypeOK
    <2>2. disk \in [DOMAIN disk -> Nat] BY <2>1
    <2>3. isOpen \in BOOLEAN BY Zenon
    <2>4. pc \in {"roll", "open", "stamp", "wait", "write", "down"} /\ back \in {"wait", "write"}
      OBVIOUS
    <2> QED BY <2>1, <2>2, <2>3, <2>4 DEF TypeOK
  <1>2. StreamInv /\ OrderInv BY DEF StreamInv, OrderInv, Running
  <1>3. DayInv /\ LeakInv BY DEF DayInv, LeakInv, Null, IsFile
  <1>4. SizeInv BY DEF SizeInv, Null, Stdout
  <1>5. ShareInv BY DEF ShareInv, Running
  <1> QED BY <1>1, <1>2, <1>3, <1>4, <1>5 DEF RInv

(* A step that changes nothing keeps the invariant.                          *)
LEMMA StutterRInv ==
  ASSUME RInv, UNCHANGED vars
  PROVE  RInv'
  <1> USE DEF RInv, vars, ghost
  <1>1. TypeOK' BY DEF TypeOK
  <1>2. StreamInv' /\ OrderInv' BY DEF StreamInv, OrderInv
  <1>3. DayInv' /\ LeakInv' BY DEF DayInv, LeakInv
  <1>4. SizeInv' BY DEF SizeInv
  <1>5. ShareInv' BY DEF ShareInv
  <1> QED BY <1>1, <1>2, <1>3, <1>4, <1>5

(* The invariant of rollfile() and its callers, inductive: every action of    *)
(* the worker, the clock and the process keeps it.                            *)
THEOREM RInvHolds == Spec => []RInv
  <1>1. Init => RInv BY InitRInv
  <1>2. RInv /\ [Next]_vars => RInv'
    <2> SUFFICES ASSUME RInv, [Next]_vars PROVE RInv' OBVIOUS
    <2>1. CASE Next
      BY <2>1, TypeStep, StreamStep, DayStep, SizeStep, OrderStep, LeakStep, ShareStep DEF RInv
    <2>2. CASE UNCHANGED vars BY <2>2, StutterRInv
    <2> QED BY <2>1, <2>2
  <1> QED BY <1>1, <1>2, PTL DEF Spec

(* Type correctness of the roll's variables.                                  *)
THEOREM RollTypeCorrect == Spec => []TypeOK
  <1>1. RInv => TypeOK BY DEF RInv
  <1> QED BY <1>1, RInvHolds, PTL

(* The worker never hands fwrite_unlocked NULL or a closed stream, however    *)
(* the clock, fopen and the size rolls fall together.                         *)
THEOREM StreamAlwaysOpen == Spec => []WritesToOpenStream
  <1>1. RInv => WritesToOpenStream BY DEF RInv, StreamInv, Running, WritesToOpenStream
  <1> QED BY <1>1, RInvHolds, PTL

(* A process never goes back to a file whose name comes before the last one   *)
(* it wrote to.                                                               *)
THEOREM NamesInOrder == Spec => []InNameOrder
  <1>1. RInv => InNameOrder BY DEF RInv, OrderInv, Running, InNameOrder
  <1> QED BY <1>1, RInvHolds, PTL

(* Not more streams are lost than midnights have passed.                      *)
THEOREM OneLeakPerMidnight == Spec => []LeaksPerDay
  <1>1. RInv => LeaksPerDay BY DEF RInv, LeakInv, LeaksPerDay
  <1> QED BY <1>1, RInvHolds, PTL

(* A day's first file never holds more than rollsize and a batch for each     *)
(* process that ran.                                                          *)
THEOREM FirstFileBound == Spec => []FirstFileBounded
  <1>1. RInv => FirstFileBounded BY DEF RInv, ShareInv, FirstFileBounded
  <1> QED BY <1>1, RInvHolds, PTL

(* No step shortens or removes a log file.                                    *)
THEOREM NothingTruncated == Spec => FilesOnlyGrow
  <1> DEFINE A == \A f \in DOMAIN disk : f \in DOMAIN disk' /\ disk[f] <= disk'[f]
  <1>1. RInv /\ [Next]_vars => [A]_vars
    <2> SUFFICES ASSUME RInv, Next PROVE A OBVIOUS
    <2> USE DEF ghost, vars
    <2>1. \A f \in DOMAIN disk : disk[f] \in Nat BY DEF RInv, TypeOK
    <2>2. ASSUME UNCHANGED disk PROVE A BY <2>1, <2>2
    <2>3. CASE OpenFile
      <3>1. /\ DOMAIN disk' = DOMAIN disk \cup {<<day, index>>}
            /\ \A f \in DOMAIN disk : disk'[f] = disk[f]
        BY <2>3 DEF OpenFile, OpenAppend
      <3> QED BY <2>1, <3>1
    <2>4. ASSUME NEW bytes \in 0..BatchMax, Write(bytes) PROVE A
      <3>1. CASE ~IsFile(handle) BY <2>2, <2>4, <3>1 DEF Write
      <3>2. CASE IsFile(handle)
        <4>1. disk' = [disk EXCEPT ![handle] = disk[handle] + bytes]
          BY <2>4, <3>2 DEF Write
        <4>2. handle \in DOMAIN disk
          BY <2>4, <3>2 DEF RInv, ShareInv, Running, Write
        <4> QED BY <2>1, <4>1, <4>2
      <3> QED BY <3>1, <3>2
    <2>5. CASE RollOnStdout \/ RollClose \/ OpenFails \/ Stamp \/ Collect
      BY <2>2, <2>5 DEF RollOnStdout, RollClose, OpenFails, Stamp, Collect
    <2>6. CASE Tick \/ Stop \/ Restart \/ Ended
      BY <2>2, <2>6 DEF Tick, Stop, Restart, Ended
    <2> QED BY <2>3, <2>4, <2>5, <2>6 DEF Next
  <1> QED BY <1>1, RInvHolds, PTL DEF Spec, FilesOnlyGrow

=============================================================================
