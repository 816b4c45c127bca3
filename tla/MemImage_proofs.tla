-------------------------- MODULE MemImage_proofs --------------------------
(***************************************************************************)
(* Theorems about SIM_MemReset, for image files of any length and arrays   *)
(* of any size.                                                            *)
(***************************************************************************)
EXTENDS MemImageProperties, TLAPS

USE DEF Blank, Opens, Reads, Current, AtEnd

Positions == 0 .. Len(file)

\* Put writes one instruction, into the first slot that is free or before it.
LEMMA PutType ==
  ASSUME NEW array \in Seq(Inst), NEW x \in Inst, next \in Nat, next <= Len(array)
  PROVE  Put(array, x) \in Seq(Inst) /\ next + 1 <= Len(Put(array, x))
BY DEF Put

\* A line of the file.
LEMMA CurrentLine ==
  ASSUME TypeOK, pos < Len(file)
  PROVE  /\ Current \in Line
         /\ Current.num \in Int
         /\ Current.inst # NoInst => Current.inst \in Inst
  <1>1. file \in Seq(Line) /\ pos + 1 \in 1 .. Len(file)
    BY MemImageAssumption DEF TypeOK
  <1>. QED BY <1>1 DEF Line

LEMMA InitTypeOK == Init => TypeOK
BY MemImageAssumption DEF Init, TypeOK, Threads

\* One step keeps the types.
LEMMA NextTypeOK == TypeOK /\ [Next]_vars => TypeOK'
  <1>. SUFFICES ASSUME TypeOK, [Next]_vars PROVE TypeOK'
    OBVIOUS
  <1>. USE DEF TypeOK, Threads
  <1>1. CASE HeaderLine
    <2>1. Current.num \in Int /\ Current.inst # NoInst => Current.inst \in Inst
      BY <1>1, CurrentLine DEF HeaderLine
    <2>2. /\ loadLat' \in Int /\ storeLat' \in Int /\ switchCyc' \in Int
          /\ nThreads' \in Int
      BY <1>1, CurrentLine DEF HeaderLine, Parameter
    <2>3. prog' \in [0 .. nThreads' - 1 -> Seq(Inst)]
      <3>1. CASE Current.first = "N"
        <4>1. nThreads' = Current.num /\ prog' = [t \in 0 .. Current.num - 1 |-> <<>>]
          BY <1>1, <3>1 DEF HeaderLine, Parameter
        <4>. QED BY <4>1, MemImageAssumption
      <3>2. CASE Current.first # "N"
        <4>1. UNCHANGED <<nThreads, prog>>
          BY <1>1, <3>2 DEF HeaderLine, Parameter
        <4>. QED BY <4>1
      <3>. QED BY <3>1, <3>2
    <2>4. mode' \in {"header", "segments"}
      BY <1>1 DEF HeaderLine
    <2>5. /\ pos < Len(file) /\ pos' = pos + 1
          /\ UNCHANGED <<file, tid, next, dataStart, data>>
      BY <1>1 DEF HeaderLine
    <2>6. /\ file' \in Files /\ pos' \in 0 .. Len(file')
          /\ tid' \in Int /\ next' \in Nat /\ dataStart' \in Int
          /\ data' \in [0 .. MaxWords - 1 -> Int]
      BY <2>5, MemImageAssumption
    <2>. QED BY <2>2, <2>3, <2>4, <2>6
  <1>2. CASE CodeLine
    <2>1. Current.inst \in Inst /\ tid \in 0 .. nThreads - 1
      BY <1>2, CurrentLine DEF CodeLine, CanStore
    <2>2. prog[tid] \in Seq(Inst) /\ next <= Len(prog[tid])
      BY <1>2, <2>1 DEF CodeLine
    <2>3. /\ Put(prog[tid], Current.inst) \in Seq(Inst)
          /\ next + 1 <= Len(Put(prog[tid], Current.inst))
      BY <2>1, <2>2, PutType
    <2>4. /\ prog' = [prog EXCEPT ![tid] = Put(prog[tid], Current.inst)]
          /\ next' = next + 1 /\ UNCHANGED <<tid, nThreads>>
      BY <1>2 DEF CodeLine, params
    <2>5. /\ prog' \in [0 .. nThreads - 1 -> Seq(Inst)]
          /\ next' <= Len(prog'[tid'])
      BY <2>1, <2>3, <2>4
    <2>. QED BY <1>2, <2>1, <2>4, <2>5 DEF CodeLine, params
  <1>3. CASE DataLine
    <2>1. Value(Current) \in Int
      BY <1>3, CurrentLine DEF DataLine, Value
    <2>2. data' \in [0 .. MaxWords - 1 -> Int]
      BY <1>3, <2>1 DEF DataLine
    <2>. QED BY <1>3, <2>2 DEF DataLine, params
  <1>4. CASE SetThread
    BY <1>4, CurrentLine DEF SetThread, params, memory
  <1>5. CASE StartCode
    BY <1>5 DEF StartCode, params, memory
  <1>6. CASE StartData
    BY <1>6, CurrentLine DEF StartData, params
  <1>7. CASE CannotOpen \/ SkipLine
    <2>1. /\ pos' \in 0 .. Len(file)
          /\ mode' \in {"failed", "segments"}
      BY <1>7 DEF CannotOpen, SkipLine
    <2>2. UNCHANGED <<file, tid, next, params, memory>>
      BY <1>7 DEF CannotOpen, SkipLine
    <2>. QED BY <2>1, <2>2 DEF params, memory
  <1>8. CASE EndBlock
    <2>1. pos < Len(file) /\ pos' = pos + 1 /\ mode' = "segments"
      BY <1>8 DEF EndBlock
    <2>2. UNCHANGED <<file, tid, next, params, memory>>
      BY <1>8 DEF EndBlock
    <2>. QED BY <2>1, <2>2 DEF params, memory
  <1>10. CASE Stray
    BY <1>10 DEF Stray, params, memory
  <1>11. CASE NoFirstInst \/ EndOfFile \/ Done \/ UNCHANGED vars
    BY <1>11 DEF NoFirstInst, EndOfFile, Done, vars, params, memory
  <1>9. CASE NoFirstWord
    BY <1>9, MemImageAssumption DEF NoFirstWord, params
  <1>. QED
    BY <1>1, <1>2, <1>3, <1>4, <1>5, <1>6, <1>7, <1>8, <1>9,
       <1>10, <1>11 DEF Next

(***************************************************************************)
(* TypeOK: whatever the image file holds, each block of code is stored     *)
(* from slot 0 on without a gap, for as long as what the code does is      *)
(* defined.                                                                *)
(***************************************************************************)
THEOREM TypeCorrect == Spec => []TypeOK
  <1>. QED BY InitTypeOK, NextTypeOK, PTL DEF Spec

-----------------------------------------------------------------------------
(***************************************************************************)
(* Where the reader is in a file that is well formed with header end h:    *)
(* the head of the block it reads is next lines back, all lines since      *)
(* belong to the block, and tid is a thread as soon as a T line was read.  *)
(***************************************************************************)
InBlock(h, c, OfBlock(_)) ==
  /\ pos - next >= h + 1
  /\ Opens(file[pos - next], c)
  /\ \A j \in pos - next + 1 .. pos : OfBlock(file[j])

Beyond(h) ==
  /\ pos >= h
  /\ nThreads = file[h].num
  /\ tid \in Threads \/ \A q \in h + 1 .. pos : ~IsThread(file[q])

Reading(h) ==
  /\ mode \in {"header", "segments", "code", "data", "returned", "failed"}
  /\ mode = "header" => pos < h
  /\ mode \in {"segments", "code", "data"} => Beyond(h)
  /\ mode = "code" => tid \in Threads /\ InBlock(h, "I", IsInst)
  /\ mode = "data" => InBlock(h, "D", IsWord)

\* The lines behind the header, one by one.
LEMMA LineKinds ==
  ASSUME NEW f \in Seq(Line), NEW p \in 1 .. Len(f)
  PROVE  /\ f[p] \in Line
         /\ IsInst(f[p]) => ~Blank(f[p]) /\ ~IsThread(f[p]) /\ ~IsWord(f[p])
                              /\ f[p].first \notin {"I", "D"}
         /\ IsWord(f[p]) => ~Blank(f[p]) /\ ~IsThread(f[p]) /\ ~IsInst(f[p])
                              /\ f[p].first \notin {"I", "D"}
BY DEF Line, CommandChar, IsInst, IsWord, IsThread

\* A block that fits has room for a line that follows n of its lines.
LEMMA RoomInBlock ==
  ASSUME NEW f \in Seq(Line), NEW p \in 1 .. Len(f), NEW n \in Nat, NEW room \in Nat,
         p + n < Len(f), Fits(f, p, room),
         \A j \in p + 1 .. p + n + 1 : ~Blank(f[j])
  PROVE  n < room
  <1>1. PICK k \in 0 .. room :
          p + k = Len(f) \/ (p + k < Len(f) /\ Blank(f[p + k + 1]))
    BY DEF Fits
  <1>2. CASE k > n
    BY <1>1, <1>2
  <1>3. CASE k <= n
    <2>1. p + k < Len(f) /\ Blank(f[p + k + 1])
      BY <1>1, <1>3
    <2>2. p + k + 1 \in p + 1 .. p + n + 1
      BY <1>3
    <2>. QED BY <2>1, <2>2
  <1>. QED BY <1>1, <1>2, <1>3

LEMMA FileKept == [Next]_vars => UNCHANGED file
  BY DEF Next, CannotOpen, HeaderLine, SetThread, StartCode, StartData,
         SkipLine, CodeLine, DataLine, EndBlock, Stray, NoFirstInst,
         NoFirstWord, EndOfFile, Done, vars

\* What can follow the lines of a code block, and the room for it.
LEMMA CodeNext ==
  ASSUME TypeOK, NEW h \in DOMAIN file, WellFormed(file, h), Reading(h),
         mode = "code", pos < Len(file)
  PROVE  /\ IsInst(file[pos + 1]) => next < MaxInsts
         /\ IsInst(file[pos + 1]) \/ Blank(file[pos + 1])
  <1>. file \in Seq(Line) /\ pos \in 0 .. Len(file) /\ next \in Nat
    BY MemImageAssumption DEF TypeOK
  <1>. h \in 1 .. Len(file)
    OBVIOUS
  <1>. USE DEF Reading
  <1>1. InBlock(h, "I", IsInst) /\ pos >= h + 1
    BY DEF InBlock
  <1>2. InCode(file[pos])
    <2>1. CASE next = 0
      BY <1>1, <2>1 DEF InBlock, InCode
    <2>2. CASE next # 0
      BY <1>1, <2>2 DEF InBlock, InCode
    <2>. QED BY <2>1, <2>2
  <1>3. IsInst(file[pos + 1]) \/ Blank(file[pos + 1])
    <2>1. pos \in h + 1 .. Len(file) - 1
      BY <1>1
    <2>2. Separated(file, h, Blank)
      BY DEF WellFormed
    <2>. QED BY <1>2, <2>1, <2>2 DEF Separated
  <1>4. ASSUME IsInst(file[pos + 1]) PROVE next < MaxInsts
    <2>. DEFINE p == pos - next
    <2>1. p \in h + 1 .. Len(file) /\ p + next < Len(file) /\ p \in 1 .. Len(file)
      BY <1>1 DEF InBlock
    <2>2. Fits(file, p, MaxInsts)
      BY <1>1, <2>1 DEF InBlock, WellFormed, Fitting
    <2>3. \A j \in p + 1 .. p + next + 1 : ~Blank(file[j])
      BY <1>1, <1>4, <2>1, LineKinds DEF InBlock
    <2>. QED BY <2>1, <2>2, <2>3, RoomInBlock, MemImageAssumption
  <1>. QED BY <1>3, <1>4

\* The same of a data block.
LEMMA DataNext ==
  ASSUME TypeOK, NEW h \in DOMAIN file, WellFormed(file, h), Reading(h),
         mode = "data", pos < Len(file)
  PROVE  /\ IsWord(file[pos + 1]) => next < MaxWords
         /\ IsWord(file[pos + 1]) \/ Blank(file[pos + 1])
  <1>. file \in Seq(Line) /\ pos \in 0 .. Len(file) /\ next \in Nat
    BY MemImageAssumption DEF TypeOK
  <1>. h \in 1 .. Len(file)
    OBVIOUS
  <1>. USE DEF Reading
  <1>1. InBlock(h, "D", IsWord) /\ pos >= h + 1
    BY DEF InBlock
  <1>2. InData(file[pos])
    <2>1. CASE next = 0
      BY <1>1, <2>1 DEF InBlock, InData
    <2>2. CASE next # 0
      BY <1>1, <2>2 DEF InBlock, InData
    <2>. QED BY <2>1, <2>2
  <1>3. IsWord(file[pos + 1]) \/ Blank(file[pos + 1])
    <2>1. pos \in h + 1 .. Len(file) - 1
      BY <1>1
    <2>2. Separated(file, h, Blank)
      BY DEF WellFormed
    <2>. QED BY <1>2, <2>1, <2>2 DEF Separated
  <1>4. ASSUME IsWord(file[pos + 1]) PROVE next < MaxWords
    <2>. DEFINE p == pos - next
    <2>1. p \in h + 1 .. Len(file) /\ p + next < Len(file) /\ p \in 1 .. Len(file)
      BY <1>1 DEF InBlock
    <2>2. Fits(file, p, MaxWords)
      BY <1>1, <2>1 DEF InBlock, WellFormed, Fitting
    <2>3. \A j \in p + 1 .. p + next + 1 : ~Blank(file[j])
      BY <1>1, <1>4, <2>1, LineKinds DEF InBlock
    <2>. QED BY <2>1, <2>2, <2>3, RoomInBlock, MemImageAssumption
  <1>. QED BY <1>3, <1>4

\* One step of reading a well-formed file.
LEMMA NextReading ==
  ASSUME TypeOK, TypeOK', NEW h \in DOMAIN file, WellFormed(file, h),
         Reading(h), [Next]_vars
  PROVE  Reading(h)'
  <1>. file \in Seq(Line) /\ pos \in 0 .. Len(file) /\ next \in Nat
    BY MemImageAssumption DEF TypeOK
  <1>. file' = file /\ h \in 1 .. Len(file)
    BY FileKept
  <1>. USE DEF Reading
  <1>1. CASE HeaderLine
    <2>1. pos < h /\ pos' = pos + 1
      BY <1>1 DEF HeaderLine
    <2>2. CASE Current.first = "N"
      <3>1. pos + 1 = h
        BY <2>1, <2>2 DEF WellFormed, EndsHeader
      <3>2. nThreads' = Current.num /\ mode' = "segments" /\ UNCHANGED tid
        BY <1>1, <2>2 DEF HeaderLine, Parameter
      <3>. QED BY <2>1, <3>1, <3>2 DEF Beyond
    <2>3. CASE Current.first # "N"
      <3>1. pos + 1 # h
        BY <2>3 DEF WellFormed, EndsHeader
      <3>2. mode' = "header"
        BY <1>1, <2>3 DEF HeaderLine
      <3>. QED BY <2>1, <3>1, <3>2
    <2>. QED BY <2>2, <2>3
  <1>2. CASE SetThread
    <2>1. /\ pos' = pos + 1 /\ pos + 1 \in h + 1 .. Len(file)
          /\ mode' = "segments" /\ nThreads' = nThreads /\ nThreads = file[h].num
          /\ IsThread(file[pos + 1]) /\ tid' = file[pos + 1].num
      BY <1>2 DEF SetThread, params, Beyond, IsThread
    <2>2. tid' \in Threads'
      BY <2>1 DEF WellFormed, ThreadsNamed, Threads
    <2>. QED BY <2>1, <2>2 DEF Beyond
  <1>3. CASE StartCode
    <2>1. /\ pos' = pos + 1 /\ pos + 1 \in h + 1 .. Len(file)
          /\ mode' = "code" /\ next' = 0 /\ UNCHANGED <<tid, nThreads>>
          /\ Opens(file[pos + 1], "I") /\ Beyond(h)
      BY <1>3 DEF StartCode, params, Beyond
    <2>2. PICK q \in h + 1 .. pos : IsThread(file[q])
      BY <2>1 DEF WellFormed, ThreadsNamed
    <2>3. tid \in Threads
      BY <2>1, <2>2 DEF Beyond
    <2>. QED BY <2>1, <2>3 DEF Beyond, InBlock, Threads
  <1>4. CASE StartData
    <2>1. /\ pos' = pos + 1 /\ pos + 1 \in h + 1 .. Len(file)
          /\ mode' = "data" /\ next' = 0 /\ UNCHANGED <<tid, nThreads>>
          /\ Opens(file[pos + 1], "D") /\ Beyond(h)
      BY <1>4 DEF StartData, params, Beyond
    <2>2. ~IsThread(file[pos + 1])
      BY <2>1 DEF IsThread
    <2>. QED BY <2>1, <2>2 DEF Beyond, InBlock, Threads
  <1>5. CASE SkipLine
    <2>1. /\ pos' = pos + 1 /\ mode' = "segments" /\ UNCHANGED <<tid, nThreads>>
          /\ ~IsThread(file[pos + 1]) /\ Beyond(h)
      BY <1>5 DEF SkipLine, params, IsThread
    <2>. QED BY <2>1 DEF Beyond, Threads
  <1>6. CASE CodeLine
    <2>1. /\ mode = "code" /\ mode' = "code" /\ pos < Len(file) /\ pos' = pos + 1
          /\ next' = next + 1 /\ UNCHANGED <<tid, nThreads>>
          /\ ~Blank(file[pos + 1])
      BY <1>6 DEF CodeLine, params, EndsCode
    <2>2. IsInst(file[pos + 1]) /\ ~IsThread(file[pos + 1])
      <3>1. IsInst(file[pos + 1])
        BY <2>1, CodeNext
      <3>2. pos + 1 \in 1 .. Len(file)
        BY <2>1
      <3>. QED BY <3>1, <3>2, LineKinds
    <2>3. Beyond(h)'
      BY <2>1, <2>2 DEF Beyond, Threads
    <2>4. InBlock(h, "I", IsInst)'
      BY <2>1, <2>2 DEF InBlock
    <2>. QED BY <2>1, <2>3, <2>4 DEF Threads
  <1>7. CASE DataLine
    <2>1. /\ mode = "data" /\ mode' = "data" /\ pos < Len(file) /\ pos' = pos + 1
          /\ next' = next + 1 /\ UNCHANGED <<tid, nThreads>>
          /\ ~Blank(file[pos + 1])
      BY <1>7 DEF DataLine, params, EndsData
    <2>2. IsWord(file[pos + 1]) /\ ~IsThread(file[pos + 1])
      <3>1. IsWord(file[pos + 1])
        BY <2>1, DataNext
      <3>2. pos + 1 \in 1 .. Len(file)
        BY <2>1
      <3>. QED BY <3>1, <3>2, LineKinds
    <2>3. Beyond(h)'
      BY <2>1, <2>2 DEF Beyond, Threads
    <2>4. InBlock(h, "D", IsWord)'
      BY <2>1, <2>2 DEF InBlock
    <2>. QED BY <2>1, <2>3, <2>4
  <1>8. CASE EndBlock
    <2>1. /\ mode \in {"code", "data"} /\ pos < Len(file) /\ pos' = pos + 1
          /\ mode' = "segments" /\ UNCHANGED <<tid, nThreads>>
          /\ Ends(mode, file[pos + 1])
      BY <1>8 DEF EndBlock, params
    <2>2. ~IsThread(file[pos + 1])
      BY <2>1 DEF Ends, EndsCode, EndsData, IsThread
    <2>. QED BY <2>1, <2>2 DEF Beyond, Threads
  <1>9. CASE Stray
    <2>1. CASE Reads("code") /\ ~EndsCode(Current) /\ ~CanStore(Current)
      <3>1. IsInst(file[pos + 1]) /\ next < MaxInsts
        BY <2>1, CodeNext DEF EndsCode
      <3>. QED BY <2>1, <3>1 DEF CanStore, IsInst
    <2>2. CASE Reads("data") /\ ~EndsData(Current) /\ next >= MaxWords
      <3>1. IsWord(file[pos + 1]) /\ next < MaxWords
        BY <2>2, DataNext DEF EndsData
      <3>. QED BY <2>2, <3>1, MemImageAssumption
    <2>. QED BY <1>9, <2>1, <2>2 DEF Stray
  <1>10. CASE NoFirstInst
    <2>1. Opens(file[Len(file)], "I") /\ Len(file) \in h + 1 .. Len(file)
      BY <1>10 DEF NoFirstInst, FirstMissing, InBlock
    <2>. QED BY <2>1 DEF WellFormed, Fitting
  <1>11. CASE NoFirstWord \/ EndOfFile \/ CannotOpen
    BY <1>11 DEF NoFirstWord, EndOfFile, CannotOpen
  <1>12. CASE Done \/ UNCHANGED vars
    BY <1>12 DEF Done, vars, params, Beyond, InBlock, Threads
  <1>. QED
    BY <1>1, <1>2, <1>3, <1>4, <1>5, <1>6, <1>7, <1>8, <1>9, <1>10,
       <1>11, <1>12 DEF Next

SafeReading == \A h \in DOMAIN file : WellFormed(file, h) => Reading(h)

LEMMA ReadsSafely == Spec => []SafeReading
  <1>1. Init => SafeReading
    <2>. SUFFICES ASSUME Init, NEW h \in DOMAIN file PROVE Reading(h)
      BY DEF SafeReading
    <2>1. file \in Seq(Line)
      BY MemImageAssumption DEF Init
    <2>. QED BY <2>1 DEF Init, Reading
  <1>2. TypeOK /\ TypeOK' /\ SafeReading /\ [Next]_vars => SafeReading'
    <2>. SUFFICES ASSUME TypeOK, TypeOK', SafeReading, [Next]_vars,
                         NEW h \in DOMAIN file', WellFormed(file, h)'
                  PROVE  Reading(h)'
      BY DEF SafeReading
    <2>1. file' = file
      BY FileKept
    <2>2. h \in DOMAIN file /\ WellFormed(file, h)
      BY <2>1
    <2>3. Reading(h)
      BY <2>2 DEF SafeReading
    <2>. QED BY <2>2, <2>3, NextReading
  <1>. QED BY <1>1, <1>2, TypeCorrect, PTL DEF Spec

(***************************************************************************)
(* NeverUndefined: a file of any length in which blocks are separated, fit *)
(* and name existing threads is read to its end.  Without separators this  *)
(* fails: the line that ends a block is lost.                              *)
(***************************************************************************)
THEOREM ReadsWellFormedFiles == Spec => []NeverUndefined
  <1>1. SafeReading => NeverUndefined
    BY DEF SafeReading, Reading, NeverUndefined
  <1>. QED BY <1>1, ReadsSafely, PTL

-----------------------------------------------------------------------------
(***************************************************************************)
(* The last line of a kind between lo and hi, and its number.              *)
(***************************************************************************)
NoLine(f, lo, hi, c) == \A q \in lo .. hi : f[q].first # c
LastLine(f, lo, hi, c, v) ==
  \E q \in lo .. hi : /\ f[q].first = c /\ f[q].num = v
                      /\ \A r \in q + 1 .. hi : f[r].first # c

LEMMA LastLineNext ==
  ASSUME NEW f, NEW lo \in Nat, NEW hi \in Nat, lo <= hi + 1, NEW c, NEW v
  PROVE  /\ f[hi + 1].first = c => LastLine(f, lo, hi + 1, c, f[hi + 1].num)
         /\ f[hi + 1].first # c /\ LastLine(f, lo, hi, c, v)
              => LastLine(f, lo, hi + 1, c, v)
         /\ f[hi + 1].first # c /\ NoLine(f, lo, hi, c)
              => NoLine(f, lo, hi + 1, c)
  <1>1. ASSUME f[hi + 1].first = c PROVE LastLine(f, lo, hi + 1, c, f[hi + 1].num)
    BY <1>1 DEF LastLine
  <1>2. ASSUME f[hi + 1].first # c, LastLine(f, lo, hi, c, v)
        PROVE  LastLine(f, lo, hi + 1, c, v)
    <2>1. PICK q \in lo .. hi : /\ f[q].first = c /\ f[q].num = v
                                /\ \A r \in q + 1 .. hi : f[r].first # c
      BY <1>2 DEF LastLine
    <2>2. \A r \in q + 1 .. hi + 1 : f[r].first # c
      BY <1>2, <2>1
    <2>. QED BY <2>1, <2>2 DEF LastLine
  <1>3. ASSUME f[hi + 1].first # c, NoLine(f, lo, hi, c)
        PROVE  NoLine(f, lo, hi + 1, c)
    BY <1>3 DEF NoLine
  <1>. QED BY <1>1, <1>2, <1>3

LEMMA MaxIs ==
  ASSUME NEW S, S \subseteq Int, NEW n \in S, \A m \in S : m <= n
  PROVE  Max(S) = n
  <1>1. n \in S /\ \A m \in S : n >= m
    OBVIOUS
  <1>2. Max(S) \in S /\ \A m \in S : Max(S) >= m
    BY <1>1 DEF Max
  <1>3. Max(S) \in Int /\ n \in Int /\ Max(S) <= n /\ Max(S) >= n
    BY <1>2
  <1>. QED BY <1>3

LEMMA LastLineIsMax ==
  ASSUME NEW f, NEW lo \in Nat, NEW hi \in Nat, NEW c, NEW v,
         LastLine(f, lo, hi, c, v)
  PROVE  /\ {q \in lo .. hi : f[q].first = c} # {}
         /\ f[Max({q \in lo .. hi : f[q].first = c})].num = v
  <1>1. PICK q \in lo .. hi : /\ f[q].first = c /\ f[q].num = v
                              /\ \A r \in q + 1 .. hi : f[r].first # c
    BY DEF LastLine
  <1>. DEFINE S == {p \in lo .. hi : f[p].first = c}
  <1>2. q \in S /\ S \subseteq Int /\ \A m \in S : m <= q
    BY <1>1
  <1>3. Max(S) = q
    BY <1>2, MaxIs
  <1>. QED BY <1>1, <1>2, <1>3

\* The parameter c after n lines of the header.
Holds(f, n, c, v) == (NoLine(f, 1, n, c) /\ v = 0) \/ LastLine(f, 1, n, c, v)

LEMMA HoldsGiven ==
  ASSUME NEW f, NEW h \in Nat, NEW c, NEW v, Holds(f, h, c, v)
  PROVE  Given(f, h, c) = v
  <1>1. CASE NoLine(f, 1, h, c) /\ v = 0
    <2>1. {p \in 1 .. h : f[p].first = c} = {}
      BY <1>1 DEF NoLine
    <2>. QED BY <1>1, <2>1 DEF Given
  <1>2. CASE LastLine(f, 1, h, c, v)
    BY <1>2, LastLineIsMax DEF Given
  <1>. QED BY <1>1, <1>2 DEF Holds

LEMMA HoldsNext ==
  ASSUME NEW f, NEW n \in Nat, NEW c, NEW v, Holds(f, n, c, v)
  PROVE  Holds(f, n + 1, c, IF f[n + 1].first = c THEN f[n + 1].num ELSE v)
  <1>. 1 \in Nat /\ 1 <= n + 1
    OBVIOUS
  <1>1. CASE f[n + 1].first = c
    BY <1>1, LastLineNext DEF Holds
  <1>2. CASE f[n + 1].first # c
    BY <1>2, LastLineNext DEF Holds
  <1>. QED BY <1>1, <1>2

LEMMA ThreadIs ==
  ASSUME NEW f, NEW h \in Nat, NEW p \in Nat, NEW v, LastLine(f, h + 1, p, "T", v)
  PROVE  ThreadOf(f, h, p) = v
BY LastLineIsMax DEF ThreadOf, IsThread

(***************************************************************************)
(* The body of a block that is over after n lines.                         *)
(***************************************************************************)
LEMMA InstBody ==
  ASSUME NEW f \in Seq(Line), NEW p \in 1 .. Len(f), NEW n \in Nat, p + n <= Len(f),
         \A j \in p + 1 .. p + n : IsInst(f[j]),
         p + n = Len(f) \/ ~IsInst(f[p + n + 1])
  PROVE  Body(f, p, IsInst) = SubSeq(f, p + 1, p + n)
  <1>. DEFINE S == {q \in p .. Len(f) : \A r \in p + 1 .. q : IsInst(f[r])}
  <1>1. p + n \in S /\ S \subseteq Int
    OBVIOUS
  <1>2. \A m \in S : m <= p + n
    <2>. SUFFICES ASSUME NEW m \in S, m > p + n PROVE FALSE
      OBVIOUS
    <2>1. m \in p .. Len(f) /\ \A r \in p + 1 .. m : IsInst(f[r])
      OBVIOUS
    <2>2. p + n + 1 \in p + 1 .. m
      BY <2>1
    <2>. QED BY <2>1, <2>2
  <1>3. Max(S) = p + n
    BY <1>1, <1>2, MaxIs
  <1>. QED BY <1>3 DEF Body

LEMMA WordBody ==
  ASSUME NEW f \in Seq(Line), NEW p \in 1 .. Len(f), NEW n \in Nat, p + n <= Len(f),
         \A j \in p + 1 .. p + n : IsWord(f[j]),
         p + n = Len(f) \/ ~IsWord(f[p + n + 1])
  PROVE  Body(f, p, IsWord) = SubSeq(f, p + 1, p + n)
  <1>. DEFINE S == {q \in p .. Len(f) : \A r \in p + 1 .. q : IsWord(f[r])}
  <1>1. p + n \in S /\ S \subseteq Int
    OBVIOUS
  <1>2. \A m \in S : m <= p + n
    <2>. SUFFICES ASSUME NEW m \in S, m > p + n PROVE FALSE
      OBVIOUS
    <2>1. m \in p .. Len(f) /\ \A r \in p + 1 .. m : IsWord(f[r])
      OBVIOUS
    <2>2. p + n + 1 \in p + 1 .. m
      BY <2>1
    <2>. QED BY <2>1, <2>2
  <1>3. Max(S) = p + n
    BY <1>1, <1>2, MaxIs
  <1>. QED BY <1>3 DEF Body

\* What the first n lines of a block make of the memory, and what all do.
FirstInsts(f, p, n) == [k \in 1 .. n |-> f[p + k].inst]
AllInsts(f, p) ==
  LET lines == Body(f, p, IsInst) IN [k \in DOMAIN lines |-> lines[k].inst]
FirstWords(f, p, n) ==
  [w \in 0 .. MaxWords - 1 |-> IF w < n THEN f[p + w + 1].num ELSE 0]
AllWords(f, p) ==
  LET words == Body(f, p, IsWord)
  IN  [w \in 0 .. MaxWords - 1 |-> IF w < Len(words) THEN words[w + 1].num ELSE 0]

LEMMA BlockOver ==
  ASSUME NEW f \in Seq(Line), NEW p \in 1 .. Len(f), NEW n \in Nat, p + n <= Len(f)
  PROVE  /\ /\ \A j \in p + 1 .. p + n : IsInst(f[j])
            /\ p + n = Len(f) \/ ~IsInst(f[p + n + 1])
            => AllInsts(f, p) = FirstInsts(f, p, n)
         /\ /\ \A j \in p + 1 .. p + n : IsWord(f[j])
            /\ p + n = Len(f) \/ ~IsWord(f[p + n + 1])
            => AllWords(f, p) = FirstWords(f, p, n)
  <1>. DEFINE b == SubSeq(f, p + 1, p + n)
  <1>1. Len(b) = n /\ DOMAIN b = 1 .. n /\ \A k \in 1 .. n : b[k] = f[p + k]
    OBVIOUS
  <1>2. \A w \in 0 .. MaxWords - 1 : w < n => b[w + 1] = f[p + w + 1]
    BY <1>1, MemImageAssumption
  <1>. HIDE DEF b
  <1>3. ASSUME \A j \in p + 1 .. p + n : IsInst(f[j]),
               p + n = Len(f) \/ ~IsInst(f[p + n + 1])
        PROVE  AllInsts(f, p) = FirstInsts(f, p, n)
    <2>1. Body(f, p, IsInst) = b
      BY <1>3, InstBody DEF b
    <2>. QED BY <1>1, <2>1 DEF AllInsts, FirstInsts
  <1>4. ASSUME \A j \in p + 1 .. p + n : IsWord(f[j]),
               p + n = Len(f) \/ ~IsWord(f[p + n + 1])
        PROVE  AllWords(f, p) = FirstWords(f, p, n)
    <2>1. Body(f, p, IsWord) = b
      BY <1>4, WordBody DEF b
    <2>. QED BY <1>1, <1>2, <2>1 DEF AllWords, FirstWords
  <1>. QED BY <1>3, <1>4

-----------------------------------------------------------------------------
(***************************************************************************)
(* What has been loaded when pos lines have been read: of a block that is  *)
(* being read its first next lines, of the others all.                     *)
(***************************************************************************)
ParamsRead(n) ==
  /\ Holds(file, n, "L", loadLat)
  /\ Holds(file, n, "S", storeLat)
  /\ Holds(file, n, "O", switchCyc)

ThreadSet(h) ==
  NoLine(file, h + 1, pos, "T") \/ LastLine(file, h + 1, pos, "T", tid)

InstsSoFar(p) ==
  IF mode = "code" /\ p = pos - next
  THEN FirstInsts(file, p, next) ELSE AllInsts(file, p)

HeadOf(h, t, p) == Opens(file[p], "I") /\ ThreadOf(file, h, p) = t

CodeLoaded(h) ==
  \A t \in Threads :
    \/ prog[t] = <<>> /\ \A p \in h + 1 .. pos : ~HeadOf(h, t, p)
    \/ \E p \in h + 1 .. pos : HeadOf(h, t, p) /\ prog[t] = InstsSoFar(p)

NoWords == [w \in 0 .. MaxWords - 1 |-> 0]

WordsSoFar(p) ==
  IF mode = "data" /\ p = pos - next
  THEN FirstWords(file, p, next) ELSE AllWords(file, p)

DataLoaded(h) ==
  \/ /\ dataStart = 0 /\ data = NoWords
     /\ \A p \in h + 1 .. pos : ~Opens(file[p], "D")
  \/ \E p \in h + 1 .. pos :
       /\ Opens(file[p], "D")
       /\ dataStart = file[p].num /\ data = WordsSoFar(p)

Behind(h) ==
  /\ pos >= h
  /\ nThreads = file[h].num
  /\ ParamsRead(h)
  /\ ThreadSet(h)
  /\ mode = "code" => ThreadOf(file, h, pos - next) = tid
  /\ CodeLoaded(h)
  /\ DataLoaded(h)

Loading(h) ==
  /\ mode = "header" => pos < h /\ ParamsRead(pos) /\ dataStart = 0 /\ data = NoWords
  /\ mode \in {"segments", "code", "data", "returned"} => Behind(h)
  /\ mode = "returned" => pos = Len(file)

\* All that is known of the file and the reader before a step.
Ready(h) ==
  /\ TypeOK /\ h \in DOMAIN file
  /\ WellFormed(file, h) /\ OneBlockEach(file, h)
  /\ Reading(h) /\ Loading(h)

LEMMA Basics ==
  ASSUME NEW h, Ready(h)
  PROVE  /\ file \in Seq(Line) /\ h \in 1 .. Len(file) /\ h \in Nat
         /\ pos \in 0 .. Len(file) /\ next \in Nat /\ MaxWords \in Nat \ {0}
BY MemImageAssumption DEF Ready, TypeOK

\* A line that opens no code block, read outside of one, leaves the programs.
LEMMA CodeUntouched ==
  ASSUME NEW h, Ready(h), Behind(h), UNCHANGED <<file, prog, nThreads>>,
         mode # "code", mode' # "code", pos' = pos + 1, pos < Len(file),
         ~Opens(file[pos + 1], "I")
  PROVE  CodeLoaded(h)'
  <1>. h \in Nat /\ pos \in Nat
    BY Basics
  <1>1. \A p : InstsSoFar(p)' = InstsSoFar(p)
    BY DEF InstsSoFar
  <1>2. \A t, p : HeadOf(h, t, p)' = HeadOf(h, t, p)
    BY DEF HeadOf
  <1>3. \A t : ~HeadOf(h, t, pos + 1)
    BY DEF HeadOf
  <1>. SUFFICES ASSUME NEW t \in Threads
       PROVE  \/ prog[t] = <<>> /\ \A p \in h + 1 .. pos + 1 : ~HeadOf(h, t, p)
              \/ \E p \in h + 1 .. pos + 1 :
                   HeadOf(h, t, p) /\ prog[t] = InstsSoFar(p)
    BY <1>1, <1>2 DEF CodeLoaded, Threads
  <1>4. CASE prog[t] = <<>> /\ \A p \in h + 1 .. pos : ~HeadOf(h, t, p)
    BY <1>3, <1>4
  <1>5. CASE \E p \in h + 1 .. pos : HeadOf(h, t, p) /\ prog[t] = InstsSoFar(p)
    BY <1>5
  <1>. QED BY <1>4, <1>5 DEF Behind, CodeLoaded

LEMMA DataUntouched ==
  ASSUME NEW h, Ready(h), Behind(h), UNCHANGED <<file, data, dataStart>>,
         mode # "data", mode' # "data", pos' = pos + 1, pos < Len(file),
         ~Opens(file[pos + 1], "D")
  PROVE  DataLoaded(h)'
  <1>. h \in Nat /\ pos \in Nat
    BY Basics
  <1>1. \A p : WordsSoFar(p)' = WordsSoFar(p)
    BY DEF WordsSoFar
  <1>2. CASE /\ dataStart = 0 /\ data = NoWords
             /\ \A p \in h + 1 .. pos : ~Opens(file[p], "D")
    <2>1. \A p \in h + 1 .. pos + 1 : ~Opens(file[p], "D")
      BY <1>2
    <2>. QED BY <1>2, <2>1 DEF DataLoaded, NoWords
  <1>3. CASE \E p \in h + 1 .. pos :
               /\ Opens(file[p], "D")
               /\ dataStart = file[p].num /\ data = WordsSoFar(p)
    BY <1>1, <1>3 DEF DataLoaded
  <1>. QED BY <1>2, <1>3 DEF Behind, DataLoaded

\* A line that is no T line leaves tid.
LEMMA ThreadUntouched ==
  ASSUME NEW h, Ready(h), Behind(h), UNCHANGED <<file, tid>>,
         pos' = pos + 1, pos < Len(file), file[pos + 1].first # "T"
  PROVE  ThreadSet(h)'
  <1>. h + 1 \in Nat /\ pos \in Nat /\ h + 1 <= pos + 1
    BY Basics DEF Behind
  <1>1. CASE NoLine(file, h + 1, pos, "T")
    BY <1>1, LastLineNext DEF ThreadSet
  <1>2. CASE LastLine(file, h + 1, pos, "T", tid)
    BY <1>2, LastLineNext DEF ThreadSet
  <1>. QED BY <1>1, <1>2 DEF Behind, ThreadSet

\* When a code block is over, the first next instructions of it are all.
LEMMA CodeOver ==
  ASSUME NEW h, Ready(h), mode = "code", mode' # "code",
         UNCHANGED <<file, prog, nThreads>>,
         \/ pos' = pos /\ pos = Len(file)
         \/ pos' = pos + 1 /\ pos < Len(file) /\ Blank(file[pos + 1])
  PROVE  CodeLoaded(h)'
  <1>. DEFINE q == pos - next
  <1>1. /\ h \in Nat /\ pos \in Nat /\ q \in h + 1 .. pos /\ q \in 1 .. Len(file)
        /\ next \in Nat /\ q + next = pos /\ pos <= Len(file)
        /\ \A j \in q + 1 .. q + next : IsInst(file[j])
    BY Basics DEF Ready, Reading, InBlock
  <1>2. pos = Len(file) \/ ~IsInst(file[pos + 1])
    <2>1. CASE pos < Len(file)
      <3>1. pos + 1 \in 1 .. Len(file) /\ Blank(file[pos + 1])
        BY <1>1, <2>1
      <3>. QED BY <3>1, LineKinds, Basics
    <2>. QED BY <1>1, <2>1
  <1>3. AllInsts(file, q) = FirstInsts(file, q, next)
    BY <1>1, <1>2, BlockOver, Basics
  <1>4. \A p : InstsSoFar(p)' = AllInsts(file, p) /\ InstsSoFar(p)' = InstsSoFar(p)
    BY <1>3 DEF InstsSoFar
  <1>5. \A t, p : HeadOf(h, t, p)' = HeadOf(h, t, p)
    BY DEF HeadOf
  <1>6. \A t : pos' = pos + 1 => ~HeadOf(h, t, pos + 1)
    BY DEF HeadOf
  <1>7. CodeLoaded(h)
    BY DEF Ready, Loading, Behind
  <1>. SUFFICES ASSUME NEW t \in Threads
       PROVE  \/ prog[t] = <<>> /\ \A p \in h + 1 .. pos' : ~HeadOf(h, t, p)
              \/ \E p \in h + 1 .. pos' :
                   HeadOf(h, t, p) /\ prog[t] = InstsSoFar(p)
    BY <1>4, <1>5 DEF CodeLoaded, Threads
  <1>8. CASE prog[t] = <<>> /\ \A p \in h + 1 .. pos : ~HeadOf(h, t, p)
    BY <1>1, <1>6, <1>8
  <1>9. CASE \E p \in h + 1 .. pos : HeadOf(h, t, p) /\ prog[t] = InstsSoFar(p)
    BY <1>1, <1>9
  <1>. QED BY <1>7, <1>8, <1>9 DEF CodeLoaded

LEMMA DataOver ==
  ASSUME NEW h, Ready(h), mode = "data", mode' # "data",
         UNCHANGED <<file, data, dataStart>>,
         \/ pos' = pos /\ pos = Len(file)
         \/ pos' = pos + 1 /\ pos < Len(file) /\ Blank(file[pos + 1])
  PROVE  DataLoaded(h)'
  <1>. DEFINE q == pos - next
  <1>1. /\ h \in Nat /\ pos \in Nat /\ q \in h + 1 .. pos /\ q \in 1 .. Len(file)
        /\ next \in Nat /\ q + next = pos /\ pos <= Len(file)
        /\ \A j \in q + 1 .. q + next : IsWord(file[j])
        /\ Opens(file[q], "D")
    BY Basics DEF Ready, Reading, InBlock
  <1>2. pos = Len(file) \/ ~IsWord(file[pos + 1])
    <2>1. CASE pos < Len(file)
      <3>1. pos + 1 \in 1 .. Len(file) /\ Blank(file[pos + 1])
        BY <1>1, <2>1
      <3>. QED BY <3>1, LineKinds, Basics
    <2>. QED BY <1>1, <2>1
  <1>3. AllWords(file, q) = FirstWords(file, q, next)
    BY <1>1, <1>2, BlockOver, Basics
  <1>4. \A p : WordsSoFar(p)' = WordsSoFar(p)
    BY <1>3 DEF WordsSoFar
  <1>5. PICK p \in h + 1 .. pos :
          /\ Opens(file[p], "D")
          /\ dataStart = file[p].num /\ data = WordsSoFar(p)
    BY <1>1 DEF Ready, Loading, Behind, DataLoaded
  <1>6. p \in h + 1 .. pos'
    BY <1>1
  <1>. QED BY <1>4, <1>5, <1>6 DEF DataLoaded

-----------------------------------------------------------------------------
\* The heads of the blocks of one thread are one head, as are those of data.
LEMMA OneHead ==
  ASSUME NEW h, Ready(h), NEW p \in h + 1 .. Len(file), NEW q \in h + 1 .. Len(file)
  PROVE  /\ Opens(file[p], "D") /\ Opens(file[q], "D") => p = q
         /\ \A t : HeadOf(h, t, p) /\ HeadOf(h, t, q) => p = q
BY DEF Ready, OneBlockEach, Heads, HeadOf

\* No instruction, and one instruction more, of a block.
LEMMA FirstInstsNext ==
  ASSUME NEW f, NEW p \in Nat, NEW n \in Nat
  PROVE  /\ FirstInsts(f, p, 0) = <<>>
         /\ Len(FirstInsts(f, p, n)) = n
         /\ Append(FirstInsts(f, p, n), f[p + n + 1].inst) = FirstInsts(f, p, n + 1)
  <1>1. FirstInsts(f, p, 0) = <<>>
    BY DEF FirstInsts
  <1>2. Len(FirstInsts(f, p, n)) = n
    BY DEF FirstInsts
  <1>3. Append(FirstInsts(f, p, n), f[p + n + 1].inst) = FirstInsts(f, p, n + 1)
    BY DEF FirstInsts
  <1>. QED BY <1>1, <1>2, <1>3

LEMMA StartCodeLoads ==
  ASSUME NEW h, Ready(h), Behind(h), StartCode
  PROVE  CodeLoaded(h)' /\ ThreadOf(file, h, pos + 1) = tid
  <1>. file' = file /\ prog' = prog /\ nThreads' = nThreads
    BY DEF StartCode, params, memory
  <1>1. /\ mode = "segments" /\ mode' = "code" /\ pos' = pos + 1 /\ next' = 0
        /\ Opens(file[pos + 1], "I") /\ pos < Len(file)
    BY DEF StartCode
  <1>2. /\ h \in Nat /\ pos \in Nat /\ pos >= h
        /\ pos + 1 \in h + 1 .. Len(file)
    BY <1>1, Basics DEF Behind
  <1>3. ThreadOf(file, h, pos + 1) = tid
    <2>1. \E q \in h + 1 .. pos : IsThread(file[q])
      BY <1>1, <1>2 DEF Ready, WellFormed, ThreadsNamed
    <2>2. LastLine(file, h + 1, pos, "T", tid)
      BY <2>1 DEF Behind, ThreadSet, NoLine, IsThread
    <2>3. LastLine(file, h + 1, pos + 1, "T", tid)
      <3>1. file[pos + 1].first # "T" /\ h + 1 \in Nat /\ h + 1 <= pos + 1
        BY <1>1, <1>2
      <3>. QED BY <1>2, <2>2, <3>1, LastLineNext
    <2>. QED BY <1>2, <2>3, ThreadIs
  <1>4. \A p \in h + 1 .. pos : InstsSoFar(p)' = InstsSoFar(p)
    BY <1>1, <1>2 DEF InstsSoFar
  <1>5. \A p : p = pos + 1 => InstsSoFar(p)' = <<>>
    <2>1. \A p : p = pos + 1 => InstsSoFar(p)' = FirstInsts(file, p, 0)
      BY <1>1, <1>2 DEF InstsSoFar
    <2>. QED BY <1>2, <2>1, FirstInstsNext
  <1>6. \A t, p : HeadOf(h, t, p)' = HeadOf(h, t, p)
    BY DEF HeadOf
  <1>. SUFFICES ASSUME NEW t \in Threads
       PROVE  \/ prog[t] = <<>> /\ \A p \in h + 1 .. pos + 1 : ~HeadOf(h, t, p)
              \/ \E p \in h + 1 .. pos + 1 :
                   HeadOf(h, t, p) /\ prog[t] = InstsSoFar(p)'
    BY <1>1, <1>3, <1>6 DEF CodeLoaded, Threads
  <1>7. \/ prog[t] = <<>> /\ \A p \in h + 1 .. pos : ~HeadOf(h, t, p)
        \/ \E p \in h + 1 .. pos : HeadOf(h, t, p) /\ prog[t] = InstsSoFar(p)
    BY DEF Behind, CodeLoaded
  <1>8. CASE t = tid
    <2>1. HeadOf(h, t, pos + 1)
      BY <1>1, <1>3, <1>8 DEF HeadOf
    <2>2. \A p \in h + 1 .. pos : p \in h + 1 .. Len(file) /\ p # pos + 1
      BY <1>2
    <2>3. \A p \in h + 1 .. pos : ~HeadOf(h, t, p)
      BY <1>2, <2>1, <2>2, OneHead
    <2>4. prog[t] = <<>>
      BY <1>7, <2>3
    <2>. QED BY <1>2, <1>5, <2>1, <2>4
  <1>9. CASE t # tid
    <2>1. ~HeadOf(h, t, pos + 1)
      BY <1>3, <1>9 DEF HeadOf
    <2>. QED BY <1>2, <1>4, <1>7, <2>1
  <1>. QED BY <1>8, <1>9

LEMMA CodeLineLoads ==
  ASSUME NEW h, Ready(h), CodeLine
  PROVE  CodeLoaded(h)'
  <1>. DEFINE q == pos - next
  <1>. file' = file /\ nThreads' = nThreads /\ tid' = tid
    BY DEF CodeLine, params
  <1>1. /\ mode = "code" /\ mode' = "code" /\ pos' = pos + 1 /\ next' = next + 1
        /\ IsInst(file[pos + 1]) /\ pos < Len(file) /\ tid \in Threads
        /\ prog' = [prog EXCEPT ![tid] = Put(prog[tid], file[pos + 1].inst)]
    BY DEF CodeLine, CanStore, IsInst
  <1>2. /\ h \in Nat /\ pos \in Nat /\ next \in Nat /\ q \in h + 1 .. pos
        /\ q + next = pos /\ pos' - next' = q
        /\ pos + 1 \in 1 .. Len(file) /\ Opens(file[q], "I")
        /\ q \in h + 1 .. Len(file) /\ q \in Nat
    <2>1. InBlock(h, "I", IsInst)
      BY <1>1 DEF Ready, Reading
    <2>2. h \in Nat /\ pos \in Nat /\ next \in Nat /\ Len(file) \in Nat
      BY Basics
    <2>3. q \in h + 1 .. pos /\ Opens(file[q], "I")
      <3>1. pos - next >= h + 1 /\ Opens(file[pos - next], "I")
        BY <2>1 DEF InBlock
      <3>. QED BY <2>2, <3>1
    <2>4. q + next = pos /\ pos' - next' = q
      BY <1>1, <2>2
    <2>5. /\ pos + 1 \in 1 .. Len(file)
          /\ q \in h + 1 .. Len(file) /\ q \in Nat
      BY <1>1, <2>2, <2>3
    <2>. QED BY <2>2, <2>3, <2>4, <2>5
  <1>3. Behind(h) /\ HeadOf(h, tid, q)
    BY <1>1, <1>2 DEF Ready, Loading, Behind, HeadOf
  <1>10. InstsSoFar(q) = FirstInsts(file, q, next)
    BY <1>1 DEF InstsSoFar
  <1>11. \A p : IF p = q THEN InstsSoFar(p)' = FirstInsts(file, p, next + 1)
                         ELSE InstsSoFar(p)' = InstsSoFar(p)
    BY <1>1, <1>2 DEF InstsSoFar
  <1>. HIDE DEF q
  <1>4. file[pos + 1].first # "I"
    BY <1>1, <1>2, LineKinds, Basics
  <1>5. \A t, p : HeadOf(h, t, p)' = HeadOf(h, t, p)
    BY DEF HeadOf
  <1>6. prog \in [Threads -> Seq(Inst)]
    BY DEF Ready, TypeOK
  <1>. SUFFICES ASSUME NEW t \in Threads
       PROVE  \/ prog'[t] = <<>> /\ \A p \in h + 1 .. pos + 1 : ~HeadOf(h, t, p)
              \/ \E p \in h + 1 .. pos + 1 :
                   HeadOf(h, t, p) /\ prog'[t] = InstsSoFar(p)'
    BY <1>1, <1>5 DEF CodeLoaded, Threads
  <1>7. \/ prog[t] = <<>> /\ \A p \in h + 1 .. pos : ~HeadOf(h, t, p)
        \/ \E p \in h + 1 .. pos : HeadOf(h, t, p) /\ prog[t] = InstsSoFar(p)
    BY <1>3 DEF Behind, CodeLoaded
  <1>8. CASE t = tid
    <2>1. PICK p \in h + 1 .. pos : HeadOf(h, t, p) /\ prog[t] = InstsSoFar(p)
      BY <1>2, <1>3, <1>7, <1>8
    <2>2. p = q
      <3>1. p \in h + 1 .. Len(file)
        BY <1>1, <1>2
      <3>. QED BY <1>2, <1>3, <1>8, <2>1, <3>1, OneHead
    <2>3. prog[t] = FirstInsts(file, q, next)
      BY <1>10, <2>1, <2>2
    <2>4. Put(prog[t], file[pos + 1].inst) = FirstInsts(file, q, next + 1)
      <3>1. file[pos + 1].inst = file[q + next + 1].inst
        BY <1>2
      <3>. q \in Nat /\ next \in Nat
        BY <1>2
      <3>4. /\ Len(FirstInsts(file, q, next)) = next
            /\ Append(FirstInsts(file, q, next), file[q + next + 1].inst)
                 = FirstInsts(file, q, next + 1)
        BY FirstInstsNext
      <3>2. Len(prog[t]) = next
        BY <2>3, <3>4
      <3>3. Put(prog[t], file[pos + 1].inst) = Append(prog[t], file[pos + 1].inst)
        BY <1>2, <3>2 DEF Put
      <3>. QED BY <2>3, <3>1, <3>3, <3>4
    <2>5. prog'[t] = FirstInsts(file, q, next + 1)
      BY <1>1, <1>6, <1>8, <2>4
    <2>. QED BY <1>2, <1>3, <1>8, <1>11, <2>5
  <1>9. CASE t # tid
    <2>1. prog'[t] = prog[t]
      BY <1>1, <1>6, <1>9
    <2>2. ~HeadOf(h, t, pos + 1)
      BY <1>4 DEF HeadOf
    <2>3. \A p \in h + 1 .. pos : HeadOf(h, t, p) => InstsSoFar(p)' = InstsSoFar(p)
      <3>1. ~HeadOf(h, t, q)
        BY <1>3, <1>9 DEF HeadOf
      <3>. QED BY <1>11, <3>1
    <2>. QED BY <1>2, <1>7, <2>1, <2>2, <2>3
  <1>. QED BY <1>8, <1>9

\* No word, and one word more, of a block.
LEMMA FirstWordsNext ==
  ASSUME NEW f, NEW p \in Nat, NEW n \in Nat, n < MaxWords
  PROVE  /\ FirstWords(f, p, 0) = NoWords
         /\ [FirstWords(f, p, n) EXCEPT ![n] = f[p + n + 1].num]
              = FirstWords(f, p, n + 1)
  <1>1. FirstWords(f, p, 0) = NoWords
    BY MemImageAssumption DEF FirstWords, NoWords
  <1>2. [FirstWords(f, p, n) EXCEPT ![n] = f[p + n + 1].num] = FirstWords(f, p, n + 1)
    <2>. DEFINE Word(w) == IF w < n THEN f[p + w + 1].num ELSE 0
    <2>1. \A w \in 0 .. MaxWords - 1 :
            (IF w = n THEN f[p + n + 1].num ELSE Word(w))
              = IF w < n + 1 THEN f[p + w + 1].num ELSE 0
      BY MemImageAssumption
    <2>2. FirstWords(f, p, n) = [w \in 0 .. MaxWords - 1 |-> Word(w)]
      BY DEF FirstWords
    <2>. HIDE DEF Word
    <2>3. [FirstWords(f, p, n) EXCEPT ![n] = f[p + n + 1].num]
            = [w \in 0 .. MaxWords - 1 |->
                 IF w = n THEN f[p + n + 1].num ELSE Word(w)]
      BY <2>2
    <2>. QED BY <2>1, <2>3 DEF FirstWords
  <1>. QED BY <1>1, <1>2

LEMMA StartDataLoads ==
  ASSUME NEW h, Ready(h), Behind(h), StartData
  PROVE  DataLoaded(h)'
  <1>1. /\ file' = file /\ data' = data /\ dataStart' = file[pos + 1].num
        /\ mode' = "data" /\ pos' = pos + 1 /\ next' = 0
        /\ Opens(file[pos + 1], "D") /\ pos < Len(file)
    BY DEF StartData
  <1>2. h \in Nat /\ pos \in Nat /\ pos + 1 \in h + 1 .. Len(file)
    BY <1>1, Basics DEF Behind
  <1>3. \A p \in h + 1 .. pos : ~Opens(file[p], "D")
    <2>1. \A p \in h + 1 .. pos : p \in h + 1 .. Len(file) /\ p # pos + 1
      BY <1>2
    <2>. QED BY <1>1, <1>2, <2>1, OneHead
  <1>4. data = NoWords
    BY <1>3 DEF Behind, DataLoaded
  <1>5. \A p : p = pos + 1 => WordsSoFar(p)' = NoWords
    <2>1. \A p : p = pos + 1 => WordsSoFar(p)' = FirstWords(file, p, 0)
      BY <1>1, <1>2 DEF WordsSoFar
    <2>2. FirstWords(file, pos + 1, 0) = NoWords
      <3>. pos + 1 \in Nat /\ 0 \in Nat /\ 0 < MaxWords
        BY <1>2, MemImageAssumption
      <3>. QED BY FirstWordsNext
    <2>. QED BY <2>1, <2>2
  <1>. QED BY <1>1, <1>2, <1>4, <1>5 DEF DataLoaded

\* The block of data that is being read.
LEMMA DataOpen ==
  ASSUME NEW h, Ready(h), mode = "data"
  PROVE  LET q == pos - next
         IN  /\ q \in Nat /\ q \in h + 1 .. pos /\ q + next = pos
             /\ Opens(file[q], "D") /\ dataStart = file[q].num
             /\ data = FirstWords(file, q, next)
  <1>. DEFINE q == pos - next
  <1>1. /\ h \in Nat /\ pos \in 0 .. Len(file) /\ next \in Nat
        /\ InBlock(h, "D", IsWord) /\ Behind(h)
    BY Basics DEF Ready, Reading, Loading
  <1>2. /\ q \in Nat /\ q \in h + 1 .. pos /\ q + next = pos
        /\ q \in h + 1 .. Len(file) /\ Opens(file[q], "D")
    BY <1>1 DEF InBlock
  <1>3. WordsSoFar(q) = FirstWords(file, q, next)
    BY DEF WordsSoFar
  <1>. HIDE DEF q
  <1>4. PICK p \in h + 1 .. pos :
          /\ Opens(file[p], "D")
          /\ dataStart = file[p].num /\ data = WordsSoFar(p)
    BY <1>1, <1>2 DEF Behind, DataLoaded
  <1>5. p \in h + 1 .. Len(file)
    BY <1>1
  <1>6. p = q
    BY <1>2, <1>4, <1>5, OneHead
  <1>. QED BY <1>2, <1>3, <1>4, <1>6 DEF q

LEMMA DataLineLoads ==
  ASSUME NEW h, Ready(h), DataLine
  PROVE  DataLoaded(h)'
  <1>. DEFINE q == pos - next
  <1>1. /\ mode = "data" /\ mode' = "data" /\ pos' = pos + 1 /\ next' = next + 1
        /\ next < MaxWords /\ file' = file /\ dataStart' = dataStart
        /\ data' = [data EXCEPT ![next] = Value(file[pos + 1])]
        /\ pos < Len(file) /\ ~EndsData(file[pos + 1])
    BY DEF DataLine
  <1>2. Value(file[pos + 1]) = file[pos + 1].num
    <2>1. TypeOK /\ h \in DOMAIN file /\ WellFormed(file, h) /\ Reading(h)
      BY DEF Ready
    <2>2. IsWord(file[pos + 1])
      BY <1>1, <2>1, DataNext DEF EndsData
    <2>. QED BY <2>2 DEF Value, IsWord
  <1>3. /\ q \in Nat /\ q \in h + 1 .. pos /\ q + next = pos
        /\ Opens(file[q], "D") /\ dataStart = file[q].num
        /\ data = FirstWords(file, q, next)
    BY <1>1, DataOpen
  <1>4. h \in Nat /\ pos \in Nat /\ next \in Nat
    BY Basics
  <1>5. \A p : p = q => WordsSoFar(p)' = FirstWords(file, p, next + 1)
    BY <1>1, <1>4 DEF WordsSoFar
  <1>. HIDE DEF q
  <1>6. [FirstWords(file, q, next) EXCEPT ![next] = file[q + next + 1].num]
          = FirstWords(file, q, next + 1)
    <2>. q \in Nat /\ next \in Nat /\ next < MaxWords
      BY <1>1, <1>3, <1>4
    <2>. QED BY FirstWordsNext
  <1>7. q \in h + 1 .. pos'
    BY <1>1, <1>3, <1>4
  <1>8. data' = FirstWords(file, q, next + 1)
    BY <1>1, <1>2, <1>3, <1>6
  <1>. QED BY <1>1, <1>3, <1>5, <1>7, <1>8 DEF DataLoaded

-----------------------------------------------------------------------------
\* A step between blocks that reads no line leaves what is loaded.
LEMMA NothingRead ==
  ASSUME NEW h, Behind(h), UNCHANGED <<file, pos, tid, params, memory>>,
         mode = "segments", mode' # "code", mode' # "data"
  PROVE  Behind(h)'
  <1>. USE DEF params, memory
  <1>1. \A p : InstsSoFar(p)' = InstsSoFar(p) /\ WordsSoFar(p)' = WordsSoFar(p)
    BY DEF InstsSoFar, WordsSoFar
  <1>2. CodeLoaded(h)'
    BY <1>1 DEF Behind, CodeLoaded, HeadOf, Threads
  <1>3. DataLoaded(h)'
    BY <1>1 DEF Behind, DataLoaded, NoWords
  <1>. QED BY <1>2, <1>3 DEF Behind, ParamsRead, ThreadSet

\* The line that ends the header leaves the programs and the data empty.
LEMMA HeaderLoads ==
  ASSUME NEW h, Ready(h), HeaderLine
  PROVE  Loading(h)'
  <1>1. /\ mode = "header" /\ pos < Len(file) /\ pos' = pos + 1
        /\ file' = file /\ tid' = tid /\ dataStart' = dataStart /\ data' = data
        /\ dataStart = 0 /\ data = NoWords /\ pos < h /\ ParamsRead(pos)
    BY DEF Ready, Loading, HeaderLine
  <1>2. h \in 1 .. Len(file) /\ pos \in Nat
    BY Basics
  <1>3. \A n : n = pos + 1 => ParamsRead(n)'
    <2>1. /\ Holds(file, pos + 1, "S", storeLat')
          /\ Holds(file, pos + 1, "L", loadLat')
          /\ Holds(file, pos + 1, "O", switchCyc')
      BY <1>1, <1>2, HoldsNext DEF HeaderLine, Parameter, ParamsRead
    <2>. QED BY <1>1, <2>1 DEF ParamsRead
  <1>4. EndsHeader(file, h)
    BY DEF Ready, WellFormed
  <1>5. CASE Current.first = "N"
    <2>1. pos + 1 = h
      BY <1>1, <1>2, <1>4, <1>5 DEF EndsHeader
    <2>2. /\ mode' = "segments" /\ nThreads' = file[h].num
          /\ prog' = [t \in 0 .. nThreads' - 1 |-> <<>>]
      BY <1>5, <2>1 DEF HeaderLine, Parameter
    <2>3. ThreadSet(h)'
      BY <1>1, <1>2, <2>1 DEF ThreadSet, NoLine
    <2>4. CodeLoaded(h)'
      BY <1>1, <1>2, <2>1, <2>2 DEF CodeLoaded, Threads
    <2>5. DataLoaded(h)'
      BY <1>1, <1>2, <2>1 DEF DataLoaded, NoWords
    <2>6. Behind(h)'
      BY <1>1, <1>2, <1>3, <2>1, <2>2, <2>3, <2>4, <2>5 DEF Behind
    <2>. QED BY <2>2, <2>6 DEF Loading
  <1>6. CASE Current.first # "N"
    <2>1. pos + 1 # h
      BY <1>4, <1>6 DEF EndsHeader
    <2>2. mode' = "header"
      BY <1>1, <1>6 DEF HeaderLine
    <2>3. ParamsRead(pos)'
      BY <1>1, <1>3
    <2>. QED BY <1>1, <1>2, <2>1, <2>2, <2>3 DEF Loading, NoWords
  <1>. QED BY <1>5, <1>6

\* A line between blocks.
LEMMA SegmentLoads ==
  ASSUME NEW h, Ready(h), SetThread \/ StartCode \/ StartData \/ SkipLine
  PROVE  Loading(h)'
  <1>1. /\ Reads("segments") /\ mode' \in {"segments", "code", "data"}
        /\ file' = file /\ params' = params /\ prog' = prog /\ data' = data
    BY DEF SetThread, StartCode, StartData, SkipLine, memory
  <1>2. /\ Behind(h) /\ h \in Nat /\ pos \in Nat /\ pos < Len(file) /\ pos >= h
        /\ nThreads' = nThreads
    BY <1>1, Basics DEF Ready, Loading, Behind, params
  <1>3. /\ (pos >= h)' /\ (nThreads = file[h].num)' /\ ParamsRead(h)'
    BY <1>1, <1>2 DEF Behind, ParamsRead, params
  <1>4. ThreadSet(h)'
    <2>1. CASE file[pos + 1].first = "T"
      <3>1. tid' = file[pos + 1].num
        BY <2>1 DEF SetThread, StartCode, StartData, SkipLine
      <3>2. LastLine(file, h + 1, pos + 1, "T", tid')
        <4>. h + 1 \in Nat /\ h + 1 <= pos + 1 /\ pos \in Nat
          BY <1>2
        <4>. QED BY <2>1, <3>1, LastLineNext
      <3>. QED BY <1>1, <3>2 DEF ThreadSet
    <2>2. CASE file[pos + 1].first # "T"
      <3>1. tid' = tid
        BY <2>2 DEF SetThread, StartCode, StartData, SkipLine
      <3>. QED BY <1>1, <1>2, <2>2, <3>1, ThreadUntouched
    <2>. QED BY <2>1, <2>2
  <1>5. CASE StartCode
    <2>1. CodeLoaded(h)' /\ ThreadOf(file, h, pos + 1) = tid
      BY <1>2, <1>5, StartCodeLoads
    <2>2. DataLoaded(h)'
      <3>1. /\ UNCHANGED <<file, data, dataStart>> /\ mode # "data"
            /\ mode' # "data" /\ pos' = pos + 1 /\ ~Opens(file[pos + 1], "D")
        BY <1>5 DEF StartCode, memory
      <3>. QED BY <1>2, <3>1, DataUntouched
    <2>3. (mode = "code" => ThreadOf(file, h, pos - next) = tid)'
      <3>1. pos' - next' = pos + 1 /\ tid' = tid /\ file' = file
        BY <1>2, <1>5 DEF StartCode
      <3>. QED BY <2>1, <3>1
    <2>. QED BY <1>1, <1>3, <1>4, <2>1, <2>2, <2>3 DEF Loading, Behind
  <1>6. CASE StartData
    <2>1. DataLoaded(h)'
      BY <1>2, <1>6, StartDataLoads
    <2>2. CodeLoaded(h)'
      <3>1. /\ mode # "code" /\ mode' # "code" /\ pos' = pos + 1
            /\ ~Opens(file[pos + 1], "I")
        BY <1>6 DEF StartData
      <3>. QED BY <1>1, <1>2, <3>1, CodeUntouched
    <2>3. mode' = "data"
      BY <1>6 DEF StartData
    <2>. QED BY <1>3, <1>4, <2>1, <2>2, <2>3 DEF Loading, Behind
  <1>7. CASE SetThread \/ SkipLine
    <2>1. /\ mode = "segments" /\ mode' = "segments" /\ pos' = pos + 1
          /\ dataStart' = dataStart
          /\ ~Opens(file[pos + 1], "I") /\ ~Opens(file[pos + 1], "D")
      BY <1>7 DEF SetThread, SkipLine, memory
    <2>2. CodeLoaded(h)'
      BY <1>1, <1>2, <2>1, CodeUntouched
    <2>3. DataLoaded(h)'
      BY <1>1, <1>2, <2>1, DataUntouched
    <2>. QED BY <1>3, <1>4, <2>1, <2>2, <2>3 DEF Loading, Behind
  <1>. QED BY <1>5, <1>6, <1>7

\* A line of a block, or the line that ends it.
LEMMA BlockLoads ==
  ASSUME NEW h, Ready(h), CodeLine \/ DataLine \/ EndBlock
  PROVE  Loading(h)'
  <1>1. /\ mode \in {"code", "data"} /\ mode' \in {"segments", "code", "data"}
        /\ pos < Len(file) /\ pos' = pos + 1
        /\ file' = file /\ params' = params /\ tid' = tid /\ dataStart' = dataStart
    BY DEF CodeLine, DataLine, EndBlock, memory
  <1>2. /\ Behind(h) /\ h \in Nat /\ pos \in Nat /\ pos >= h /\ next \in Nat
        /\ nThreads' = nThreads
    BY <1>1, Basics DEF Ready, Loading, Behind, params
  <1>3. /\ (pos >= h)' /\ (nThreads = file[h].num)' /\ ParamsRead(h)'
    BY <1>1, <1>2 DEF Behind, ParamsRead, params
  <1>. TypeOK /\ h \in DOMAIN file /\ WellFormed(file, h) /\ Reading(h)
    BY DEF Ready
  <1>4. pos + 1 \in 1 .. Len(file) /\ file \in Seq(Line)
    BY <1>1, <1>2, Basics
  <1>5. file[pos + 1].first # "T"
    <2>1. \/ IsInst(file[pos + 1]) \/ IsWord(file[pos + 1])
          \/ Blank(file[pos + 1])
      BY <1>1, CodeNext, DataNext
    <2>2. Blank(file[pos + 1]) => file[pos + 1].first # "T"
      OBVIOUS
    <2>. QED BY <1>4, <2>1, <2>2, LineKinds DEF IsThread
  <1>6. ThreadSet(h)'
    BY <1>1, <1>2, <1>5, ThreadUntouched
  <1>7. CASE CodeLine
    <2>1. CodeLoaded(h)'
      BY <1>7, CodeLineLoads
    <2>2. /\ mode = "code" /\ mode' = "code" /\ data' = data /\ next' = next + 1
          /\ ~Opens(file[pos + 1], "D")
      BY <1>7 DEF CodeLine, EndsCode
    <2>3. DataLoaded(h)'
      BY <1>1, <1>2, <2>2, DataUntouched
    <2>4. (mode = "code" => ThreadOf(file, h, pos - next) = tid)'
      <3>1. pos' - next' = pos - next
        BY <1>1, <1>2, <2>2
      <3>. QED BY <1>1, <1>2, <2>2, <3>1 DEF Behind
    <2>. QED BY <1>3, <1>6, <2>1, <2>2, <2>3, <2>4 DEF Loading, Behind
  <1>8. CASE DataLine
    <2>1. DataLoaded(h)'
      BY <1>8, DataLineLoads
    <2>2. /\ mode = "data" /\ mode' = "data" /\ prog' = prog
          /\ ~Opens(file[pos + 1], "I")
      BY <1>8 DEF DataLine, EndsData
    <2>3. CodeLoaded(h)'
      BY <1>1, <1>2, <2>2, CodeUntouched
    <2>. QED BY <1>3, <1>6, <2>1, <2>2, <2>3 DEF Loading, Behind
  <1>9. CASE EndBlock
    <2>1. /\ mode' = "segments" /\ prog' = prog /\ data' = data
          /\ Ends(mode, file[pos + 1])
      BY <1>9 DEF EndBlock, memory
    <2>2. Blank(file[pos + 1])
      <3>1. CASE mode = "code"
        <4>1. IsInst(file[pos + 1]) \/ Blank(file[pos + 1])
          BY <1>1, <3>1, CodeNext
        <4>2. Blank(file[pos + 1]) \/ file[pos + 1].first = "D"
          BY <2>1, <3>1 DEF Ends, EndsCode
        <4>. QED BY <1>4, <4>1, <4>2, LineKinds
      <3>2. CASE mode = "data"
        <4>1. IsWord(file[pos + 1]) \/ Blank(file[pos + 1])
          BY <1>1, <3>2, DataNext
        <4>2. Blank(file[pos + 1]) \/ file[pos + 1].first = "I"
          BY <2>1, <3>2 DEF Ends, EndsData
        <4>. QED BY <1>4, <4>1, <4>2, LineKinds
      <3>. QED BY <1>1, <3>1, <3>2
    <2>3. ~Opens(file[pos + 1], "I") /\ ~Opens(file[pos + 1], "D")
      BY <2>2
    <2>4. CodeLoaded(h)' /\ DataLoaded(h)'
      <3>1. CASE mode = "code"
        BY <1>1, <1>2, <2>1, <2>2, <2>3, <3>1, CodeOver, DataUntouched
      <3>2. CASE mode = "data"
        BY <1>1, <1>2, <2>1, <2>2, <2>3, <3>2, CodeUntouched, DataOver
      <3>. QED BY <1>1, <3>1, <3>2
    <2>. QED BY <1>3, <1>6, <2>1, <2>4 DEF Loading, Behind
  <1>. QED BY <1>7, <1>8, <1>9

\* The end of the file between blocks, or within one.
LEMMA EndLoads ==
  ASSUME NEW h, Ready(h), EndOfFile \/ NoFirstWord
  PROVE  Loading(h)'
  <1>1. /\ pos = Len(file) /\ pos' = pos /\ mode' = "returned"
        /\ file' = file /\ params' = params /\ tid' = tid
        /\ dataStart' = dataStart /\ prog' = prog
        /\ mode \in {"header", "segments", "code", "data"}
    BY DEF EndOfFile, NoFirstWord, FirstMissing, memory
  <1>2. mode # "header"
    BY <1>1, Basics DEF Ready, Loading
  <1>3. /\ Behind(h) /\ h \in Nat /\ pos \in Nat /\ nThreads' = nThreads
    BY <1>1, <1>2, Basics DEF Ready, Loading, params
  <1>4. data' = data
    <2>1. CASE EndOfFile
      BY <2>1 DEF EndOfFile, memory
    <2>2. CASE NoFirstWord
      <3>1. mode = "data" /\ next = 0 /\ data' = [data EXCEPT ![0] = 0]
        BY <2>2 DEF NoFirstWord, FirstMissing
      <3>2. data = FirstWords(file, pos - next, 0)
        BY <3>1, DataOpen
      <3>. QED BY <3>1, <3>2, MemImageAssumption DEF FirstWords
    <2>. QED BY <2>1, <2>2
  <1>5. CASE mode = "segments"
    <2>1. UNCHANGED <<file, pos, tid, params, memory>>
      BY <1>1, <1>4 DEF memory
    <2>2. Behind(h)'
      BY <1>1, <1>3, <1>5, <2>1, NothingRead
    <2>. QED BY <1>1, <2>2 DEF Loading
  <1>6. CASE mode \in {"code", "data"}
    <2>1. CodeLoaded(h)'
      <3>1. CASE mode = "code"
        BY <1>1, <1>3, <3>1, CodeOver
      <3>2. CASE mode = "data"
        <4>1. \A p : InstsSoFar(p)' = InstsSoFar(p)
          BY <1>1, <3>2 DEF InstsSoFar
        <4>. QED BY <1>1, <1>3, <4>1 DEF Behind, CodeLoaded, HeadOf, Threads
      <3>. QED BY <1>6, <3>1, <3>2
    <2>2. DataLoaded(h)'
      <3>1. CASE mode = "data"
        BY <1>1, <1>3, <1>4, <3>1, DataOver
      <3>2. CASE mode = "code"
        <4>1. \A p : WordsSoFar(p)' = WordsSoFar(p)
          BY <1>1, <3>2 DEF WordsSoFar
        <4>. QED BY <1>1, <1>3, <1>4, <4>1 DEF Behind, DataLoaded, NoWords
      <3>. QED BY <1>6, <3>1, <3>2
    <2>3. (pos >= h)' /\ (nThreads = file[h].num)' /\ ParamsRead(h)' /\ ThreadSet(h)'
      BY <1>1, <1>3 DEF Behind, ParamsRead, ThreadSet, params
    <2>. QED BY <1>1, <2>1, <2>2, <2>3 DEF Loading, Behind
  <1>. QED BY <1>1, <1>2, <1>5, <1>6

\* One step of reading a well-formed file loads what it should.
LEMMA NextLoading ==
  ASSUME NEW h, Ready(h), Reading(h)', [Next]_vars
  PROVE  Loading(h)'
  <1>1. CASE HeaderLine
    BY <1>1, HeaderLoads
  <1>2. CASE SetThread \/ StartCode \/ StartData \/ SkipLine
    BY <1>2, SegmentLoads
  <1>3. CASE CodeLine \/ DataLine \/ EndBlock
    BY <1>3, BlockLoads
  <1>4. CASE EndOfFile \/ NoFirstWord
    BY <1>4, EndLoads
  <1>5. CASE Stray \/ NoFirstInst
    BY <1>5 DEF Stray, NoFirstInst, Reading
  <1>6. CASE CannotOpen
    BY <1>6 DEF CannotOpen, Loading
  <1>7. CASE Done \/ UNCHANGED vars
    <2>1. UNCHANGED <<file, pos, mode, tid, next, params, memory>>
      BY <1>7 DEF Done, vars
    <2>2. \A p : InstsSoFar(p)' = InstsSoFar(p) /\ WordsSoFar(p)' = WordsSoFar(p)
      BY <2>1 DEF InstsSoFar, WordsSoFar
    <2>3. CodeLoaded(h)' = CodeLoaded(h)
      BY <2>1, <2>2 DEF CodeLoaded, HeadOf, Threads, params, memory
    <2>4. DataLoaded(h)' = DataLoaded(h)
      BY <2>1, <2>2 DEF DataLoaded, NoWords, memory
    <2>. QED
      BY <2>1, <2>3, <2>4
         DEF Ready, Loading, Behind, ParamsRead, ThreadSet, NoWords, params, memory
  <1>. QED BY <1>1, <1>2, <1>3, <1>4, <1>5, <1>6, <1>7 DEF Next

-----------------------------------------------------------------------------
\* The program of a thread with one code block, or with none.
LEMMA ProgramIs ==
  ASSUME NEW h, Ready(h), NEW t
  PROVE  /\ (\A p \in h + 1 .. Len(file) : ~HeadOf(h, t, p))
              => Program(file, h, t) = <<>>
         /\ \A p \in h + 1 .. Len(file) :
              HeadOf(h, t, p) => Program(file, h, t) = AllInsts(file, p)
  <1>. DEFINE heads == {p \in Heads(file, h, "I") : ThreadOf(file, h, p) = t}
  <1>1. \A p : p \in heads <=> p \in h + 1 .. Len(file) /\ HeadOf(h, t, p)
    BY DEF Heads, HeadOf
  <1>2. ASSUME \A p \in h + 1 .. Len(file) : ~HeadOf(h, t, p)
        PROVE  Program(file, h, t) = <<>>
    <2>1. heads = {}
      BY <1>1, <1>2
    <2>. HIDE DEF heads
    <2>2. Program(file, h, t) = [k \in DOMAIN <<>> |-> <<>>[k].inst]
      BY <2>1 DEF Program, heads
    <2>. QED BY <2>2
  <1>3. ASSUME NEW p \in h + 1 .. Len(file), HeadOf(h, t, p)
        PROVE  Program(file, h, t) = AllInsts(file, p)
    <2>1. p \in heads /\ \A q \in heads : q \in h + 1 .. Len(file) /\ q = p
      BY <1>1, <1>3, OneHead
    <2>2. heads \subseteq Int /\ \A q \in heads : q <= p
      <3>. p \in Int
        BY Basics
      <3>. HIDE DEF heads
      <3>. QED BY <2>1
    <2>3. heads # {} /\ Max(heads) = p
      <3>. HIDE DEF heads
      <3>. QED BY <2>1, <2>2, MaxIs
    <2>. QED BY <2>3 DEF Program, AllInsts
  <1>. QED BY <1>2, <1>3

\* The words of data, and where they start, with one data block or none.
LEMMA WordsAre ==
  ASSUME NEW h, Ready(h)
  PROVE  LET described == Described(file, h)
         IN  /\ (\A p \in h + 1 .. Len(file) : ~Opens(file[p], "D"))
                  => described.dataStart = 0 /\ described.data = NoWords
             /\ \A p \in h + 1 .. Len(file) :
                  Opens(file[p], "D") => /\ described.dataStart = file[p].num
                                         /\ described.data = AllWords(file, p)
  <1>. DEFINE heads == Heads(file, h, "D")
  <1>1. \A p : p \in heads <=> p \in h + 1 .. Len(file) /\ Opens(file[p], "D")
    BY DEF Heads
  <1>2. ASSUME \A p \in h + 1 .. Len(file) : ~Opens(file[p], "D")
        PROVE  /\ Described(file, h).dataStart = 0
               /\ Described(file, h).data = NoWords
    <2>1. heads = {}
      BY <1>1, <1>2
    <2>2. Words(file, h) = <<>>
      BY <2>1 DEF Words
    <2>3. \A w \in 0 .. MaxWords - 1 : ~(w < Len(<<>>))
      BY MemImageAssumption
    <2>. QED BY <2>1, <2>2, <2>3 DEF Described, NoWords
  <1>3. ASSUME NEW p \in h + 1 .. Len(file), Opens(file[p], "D")
        PROVE  /\ Described(file, h).dataStart = file[p].num
               /\ Described(file, h).data = AllWords(file, p)
    <2>1. p \in heads /\ \A q \in heads : q \in h + 1 .. Len(file) /\ q = p
      BY <1>1, <1>3, OneHead
    <2>2. heads \subseteq Int /\ \A q \in heads : q <= p
      <3>. p \in Int
        BY Basics
      <3>. HIDE DEF heads
      <3>. QED BY <2>1
    <2>3. heads # {} /\ Max(heads) = p
      <3>. HIDE DEF heads
      <3>. QED BY <2>1, <2>2, MaxIs
    <2>. QED BY <2>3 DEF Described, Words, AllWords
  <1>. QED BY <1>2, <1>3

\* At the end all has been loaded.
LEMMA AllLoaded ==
  ASSUME NEW h, Ready(h), mode = "returned"
  PROVE  Loaded = Described(file, h)
  <1>1. /\ Behind(h) /\ pos = Len(file) /\ h \in Nat
        /\ nThreads = file[h].num
    BY Basics DEF Ready, Loading, Behind
  <1>2. /\ loadLat = Given(file, h, "L") /\ storeLat = Given(file, h, "S")
        /\ switchCyc = Given(file, h, "O")
    BY <1>1, HoldsGiven DEF Behind, ParamsRead
  <1>3. \A t \in Threads : prog[t] = Program(file, h, t)
    <2>. SUFFICES ASSUME NEW t \in Threads PROVE prog[t] = Program(file, h, t)
      OBVIOUS
    <2>1. \/ prog[t] = <<>> /\ \A p \in h + 1 .. Len(file) : ~HeadOf(h, t, p)
          \/ \E p \in h + 1 .. Len(file) :
               HeadOf(h, t, p) /\ prog[t] = AllInsts(file, p)
      BY <1>1 DEF Behind, CodeLoaded, InstsSoFar
    <2>. QED BY <2>1, ProgramIs
  <1>4. prog = [t \in 0 .. file[h].num - 1 |-> Program(file, h, t)]
    BY <1>1, <1>3 DEF Ready, TypeOK, Threads
  <1>5. /\ dataStart = Described(file, h).dataStart
        /\ data = Described(file, h).data
    <2>1. \/ /\ dataStart = 0 /\ data = NoWords
             /\ \A p \in h + 1 .. Len(file) : ~Opens(file[p], "D")
          \/ \E p \in h + 1 .. Len(file) :
               /\ Opens(file[p], "D")
               /\ dataStart = file[p].num /\ data = AllWords(file, p)
      BY <1>1 DEF Behind, DataLoaded, WordsSoFar
    <2>. QED BY <2>1, WordsAre
  <1>. QED BY <1>2, <1>4, <1>5 DEF Loaded, Described

SafeLoading ==
  \A h \in DOMAIN file :
    WellFormed(file, h) /\ OneBlockEach(file, h) => Loading(h)

(***************************************************************************)
(* LoadsDescribedImage: whatever the length of the file and its blocks,    *)
(* each thread gets exactly its own instructions in their order, the data  *)
(* gets its words, and the parameters are those of the header.             *)
(***************************************************************************)
THEOREM LoadsWhatIsDescribed == Spec => []LoadsDescribedImage
  <1>1. Init => SafeLoading
    BY MemImageAssumption
       DEF Init, SafeLoading, Loading, ParamsRead, Holds, NoLine, NoWords
  <1>2. /\ TypeOK /\ TypeOK' /\ SafeReading /\ SafeReading' /\ SafeLoading
        /\ [Next]_vars
        => SafeLoading'
    <2>. SUFFICES ASSUME TypeOK, TypeOK', SafeReading, SafeReading', SafeLoading,
                         [Next]_vars, NEW h \in DOMAIN file',
                         WellFormed(file, h)', OneBlockEach(file, h)'
                  PROVE  Loading(h)'
      BY DEF SafeLoading
    <2>1. file' = file
      BY FileKept
    <2>2. h \in DOMAIN file /\ WellFormed(file, h) /\ OneBlockEach(file, h)
      BY <2>1
    <2>3. Reading(h) /\ Loading(h)
      BY <2>2 DEF SafeReading, SafeLoading
    <2>4. Ready(h)
      BY <2>2, <2>3 DEF Ready
    <2>5. Reading(h)'
      BY <2>2, <2>3, NextReading
    <2>. QED BY <2>4, <2>5, NextLoading
  <1>3. TypeOK /\ SafeReading /\ SafeLoading => LoadsDescribedImage
    BY AllLoaded DEF SafeReading, SafeLoading, Ready, LoadsDescribedImage
  <1>. QED
    BY <1>1, <1>2, <1>3, TypeCorrect, ReadsSafely, PTL DEF Spec
=============================================================================
