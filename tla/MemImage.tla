------------------------------ MODULE MemImage ------------------------------
(***************************************************************************)
(* The memory simulator of HW4 (sim_api.c): SIM_MemReset reads an image    *)
(* file line by line.  One step is one turn of one of its four loops: the  *)
(* header up to the N line, the segments, and within a segment the         *)
(* instructions of a code block or the words of a data block.              *)
(*                                                                         *)
(* A line is kept as what the code tells lines apart by: its first         *)
(* character, whether an @ follows, the number it holds, and the           *)
(* instruction it is, if its first word is in cmdStr.                      *)
(***************************************************************************)
EXTENDS Integers, Sequences

CONSTANTS
  Inst,          \* instructions
  NoInst,        \* stands for a line whose first word is not in cmdStr
  MaxInsts,      \* instructions that fit into an array of instructions
  MaxWords,      \* words of data, 100 in the code
  Files,         \* image files
  GarbageTids    \* what tid may hold before a T line sets it

FirstChar == {"\n", "#", "S", "L", "O", "N", "T", "I", "D", "A", "H", "digit"}
CommandChar == {"A", "S", "L", "N", "H"}    \* the letters commands start with
Line ==
  {l \in [first : FirstChar, at : BOOLEAN, num : Int, inst : Inst \cup {NoInst}] :
     l.inst # NoInst => l.first \in CommandChar /\ ~l.at}

ASSUME MemImageAssumption ==
  /\ NoInst \notin Inst
  /\ MaxInsts \in Nat \ {0} /\ MaxWords \in Nat \ {0}
  /\ Files \subseteq Seq(Line)
  /\ GarbageTids \subseteq Int

VARIABLES
  file,         \* the image file; it never changes
  pos,          \* how many of its lines have been read
  mode,         \* the loop that reads, or how SIM_MemReset ended
  tid,
  next,         \* inst or data_i: the slot of the block that is next
  loadLat, storeLat, switchCyc, nThreads,
  prog,         \* instructions[t], as far as it has been written
  dataStart,
  data

params == <<loadLat, storeLat, switchCyc, nThreads>>
memory == <<prog, dataStart, data>>
vars == <<file, pos, mode, tid, next, params, memory>>

Threads == 0 .. nThreads - 1

\* The globals of a process start as zeros.
Init ==
  /\ file \in Files
  /\ pos = 0
  /\ mode = "header"
  /\ tid \in GarbageTids
  /\ next = 0
  /\ loadLat = 0 /\ storeLat = 0 /\ switchCyc = 0 /\ nThreads = 0
  /\ prog = [t \in Threads |-> <<>>]
  /\ dataStart = 0
  /\ data = [w \in 0 .. MaxWords - 1 |-> 0]

Blank(l) == l.first \in {"#", "\n"}
Opens(l, c) == l.first = c /\ l.at

\* fgets hands out the next line.
Reads(m) == mode = m /\ pos < Len(file) /\ pos' = pos + 1
Current == file[pos + 1]

-----------------------------------------------------------------------------
CannotOpen ==
  /\ mode = "header" /\ pos = 0
  /\ mode' = "failed"
  /\ UNCHANGED <<file, pos, tid, next, params, memory>>

\* atoi(&line[1]) of a parameter line; other lines are passed over.
Parameter(c, old) == IF Current.first = c THEN Current.num ELSE old

HeaderLine ==
  /\ Reads("header")
  /\ storeLat' = Parameter("S", storeLat)
  /\ loadLat' = Parameter("L", loadLat)
  /\ switchCyc' = Parameter("O", switchCyc)
  /\ nThreads' = Parameter("N", nThreads)
  /\ IF Current.first = "N"
     THEN /\ prog' = [t \in 0 .. Current.num - 1 |-> <<>>]
          /\ mode' = "segments"
     ELSE UNCHANGED <<prog, mode>>
  /\ UNCHANGED <<file, tid, next, dataStart, data>>

-----------------------------------------------------------------------------
SetThread ==
  /\ Reads("segments")
  /\ Current.first = "T"
  /\ tid' = Current.num
  /\ UNCHANGED <<file, mode, next, params, memory>>

\* The address of the instructions, prog_start, is never used.  Faulty
\* variant: a block goes on at the slot where the last one ended.
StartCodeGoingOn ==
  /\ Reads("segments")
  /\ Opens(Current, "I")
  /\ mode' = "code"
  /\ UNCHANGED <<file, tid, next, params, memory>>
StartCode ==
  /\ Reads("segments")
  /\ Opens(Current, "I")
  /\ next' = 0
  /\ mode' = "code"
  /\ UNCHANGED <<file, tid, params, memory>>

StartData ==
  /\ Reads("segments")
  /\ Opens(Current, "D")
  /\ dataStart' = Current.num
  /\ next' = 0
  /\ mode' = "data"
  /\ UNCHANGED <<file, tid, params, prog, data>>

SkipLine ==
  /\ Reads("segments")
  /\ Current.first # "T" /\ ~Opens(Current, "I") /\ ~Opens(Current, "D")
  /\ UNCHANGED <<file, mode, tid, next, params, memory>>

-----------------------------------------------------------------------------
\* The line that ends a block has been read and is not looked at again.
\* Faulty variant: a comment does not end a code block.
EndsCodeButComment(l) == l.first \in {"\n", "D"}
EndsCode(l) == Blank(l) \/ l.first = "D"
EndsData(l) == Blank(l) \/ l.first = "I"

Ends(m, l) == IF m = "code" THEN EndsCode(l) ELSE EndsData(l)

\* Faulty variant: one line more is read before the loop of the segments.
EndBlockReadingOn ==
  \E m \in {"code", "data"} :
    /\ mode = m /\ pos < Len(file)
    /\ Ends(m, Current)
    /\ pos' = IF pos + 1 < Len(file) THEN pos + 2 ELSE pos + 1
    /\ mode' = "segments"
    /\ UNCHANGED <<file, tid, next, params, memory>>

EndBlock ==
  \E m \in {"code", "data"} :
    /\ Reads(m)
    /\ Ends(m, Current)
    /\ mode' = "segments"
    /\ UNCHANGED <<file, tid, next, params, memory>>

\* What get_inst does with a line is defined: its first word is in cmdStr and
\* the slot exists.  The code checks neither; where this does not hold it runs
\* past the end of cmdStr or writes outside the array, and the model stops.
CanStore(l) == l.inst # NoInst /\ tid \in Threads /\ next < MaxInsts

\* Slot next of an array that has been written up to its length.
Put(array, x) ==
  IF next < Len(array) THEN [array EXCEPT ![next + 1] = x] ELSE Append(array, x)

CodeLine ==
  /\ Reads("code")
  /\ ~EndsCode(Current)
  /\ CanStore(Current)
  /\ prog' = [prog EXCEPT ![tid] = Put(@, Current.inst)]
  /\ next' = next + 1
  /\ UNCHANGED <<file, mode, tid, params, dataStart, data>>

\* strtol gives 0 for a line that does not start with a number.
Value(l) == IF l.first = "digit" THEN l.num ELSE 0

DataLine ==
  /\ Reads("data")
  /\ ~EndsData(Current)
  /\ next < MaxWords
  /\ data' = [data EXCEPT ![next] = Value(Current)]
  /\ next' = next + 1
  /\ UNCHANGED <<file, mode, tid, params, dataStart, prog>>

\* Nothing is known once get_inst runs past the end of cmdStr, or an
\* instruction or a word is written outside its array.
Stray ==
  /\ \/ Reads("code") /\ ~EndsCode(Current) /\ ~CanStore(Current)
     \/ Reads("data") /\ ~EndsData(Current) /\ next >= MaxWords
  /\ mode' = "undefined"
  /\ UNCHANGED <<file, tid, next, params, memory>>

\* The first fgets of a block is not checked.  At the end of the file the
\* line still holds the letter of the head of the block.
AtEnd == pos = Len(file)
FirstMissing == AtEnd /\ mode \in {"code", "data"} /\ next = 0

NoFirstInst ==
  /\ FirstMissing /\ mode = "code"
  /\ mode' = "undefined"
  /\ UNCHANGED <<file, pos, tid, next, params, memory>>

NoFirstWord ==
  /\ FirstMissing /\ mode = "data"
  /\ data' = [data EXCEPT ![0] = 0]
  /\ mode' = "returned"
  /\ UNCHANGED <<file, pos, tid, next, params, prog, dataStart>>

EndOfFile ==
  /\ AtEnd /\ ~FirstMissing
  /\ mode \in {"header", "segments", "code", "data"}
  /\ mode' = "returned"
  /\ UNCHANGED <<file, pos, tid, next, params, memory>>

Done == mode \in {"returned", "failed", "undefined"} /\ UNCHANGED vars

Next ==
  \/ CannotOpen \/ HeaderLine
  \/ SetThread \/ StartCode \/ StartData \/ SkipLine
  \/ CodeLine \/ DataLine \/ EndBlock \/ Stray
  \/ NoFirstInst \/ NoFirstWord \/ EndOfFile
  \/ Done

Spec == Init /\ [][Next]_vars
=============================================================================
