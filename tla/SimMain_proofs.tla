--------------------------- MODULE SimMain_proofs ---------------------------
(***************************************************************************)
(* The whole simulator, for any number of threads and any image: the core  *)
(* is as safe in the second simulation as in the first, each of them       *)
(* prints the registers that its own threads ended with, both execute the  *)
(* same instructions, and where the threads do not load what others store  *)
(* both print the same.                                                    *)
(***************************************************************************)
EXTENDS SimMainHistory, CoreMT_proofs, FiniteSets, FiniteSetTheorems

-----------------------------------------------------------------------------
\* The core in both simulations.

\* A new handler fulfils the invariant of the core on any memory that the
\* simulation before has left.
LEMMA FreshCore ==
  ASSUME IInv, StartFinegrained
  PROVE  IInv'
<1>1. /\ img' \in Images /\ data' \in Memory /\ 0 \in Word
      /\ pc' = [t \in Threads |-> 0] /\ halted' = [t \in Threads |-> FALSE]
      /\ reg' = [t \in Threads |-> [r \in Reg |-> 0]]
      /\ isBlocked' = FALSE /\ cycle' = 0 /\ nInst' = 0 /\ cur' = 0 /\ idle' = FALSE
      /\ startCycle' = [t \in Threads |-> 0]
      /\ curOp' = [t \in Threads |-> "NOP"]
  BY ISAAssumption DEF IInv, TypeOK, StartFinegrained, ConstructFinegrained,
     FreshRegs, FreshCounters, ZeroRegs, Word
<1>2. TypeOK'
  BY <1>1, ThreadsFacts DEF TypeOK, RegFile, Opcode
<1>3. NoHaltBehind'
  BY <1>1 DEF NoHaltBehind
<1>4. IssueSafe' /\ IdleMeansNoneFree'
  BY <1>1, ThreadsFacts DEF IssueSafe, IdleMeansNoneFree, Free, Latency
<1> QED BY <1>2, <1>3, <1>4 DEF IInv

LEMMA CoreStep == IInv /\ [HMainNext]_allVars => IInv'
<1> SUFFICES ASSUME IInv, [HMainNext]_allVars PROVE IInv'
  OBVIOUS
<1>1. CASE RunCore
  BY <1>1, NextIInv DEF RunCore
<1>2. CASE StartFinegrained
  BY <1>2, FreshCore
<1>3. CASE UNCHANGED vars
  BY <1>3, NextIInv
<1> QED BY <1>1, <1>2, <1>3 DEF HMainNext, MainNext, FinishRun, Collect, Exit,
           Done, mvars, allVars

(***************************************************************************)
(* In both simulations of main the core issues only from a thread that may *)
(* run, idles only when none may, and stays inside the programs: nothing   *)
(* of this depends on the memory the first simulation leaves behind.       *)
(***************************************************************************)
THEOREM BothRunsAreSafe ==
  HMainSpec => [](TypeOK /\ IssueSafe /\ IdleMeansNoneFree)
<1>1. HMainInit => IInv
  BY InitIInv DEF HMainInit, MainInit
<1>2. IInv => TypeOK /\ IssueSafe /\ IdleMeansNoneFree
  BY DEF IInv
<1> QED BY <1>1, <1>2, CoreStep, PTL DEF HMainSpec

-----------------------------------------------------------------------------
\* What has been printed.

RegFiles == [Threads -> RegFile]

PrintTypes ==
  /\ reg \in RegFiles /\ isBlocked \in BOOLEAN
  /\ phase \in {"run", "collect", "done"}
  /\ k \in Nat
  /\ context \in [BOOLEAN -> RegFiles]
  /\ printed \in [BOOLEAN -> RegFiles]
  /\ final \in [BOOLEAN -> RegFiles]

(***************************************************************************)
(* While main collects, final holds the registers of the current core and  *)
(* the threads before k have theirs printed; what the blocked core printed *)
(* is not touched any more.                                                *)
(***************************************************************************)
PrintedSoFar ==
  /\ ~isBlocked => printed[TRUE] = final[TRUE]
  /\ phase = "collect" =>
       /\ final[isBlocked] = reg
       /\ \A t \in Threads : t < k => printed[isBlocked][t] = reg[t]
  /\ phase = "done" => ~isBlocked /\ printed[FALSE] = final[FALSE]

PInv == IInv /\ PrintTypes /\ PrintedSoFar

LEMMA InitPInv == HMainInit => PInv
<1> SUFFICES ASSUME HMainInit PROVE PInv
  OBVIOUS
<1>1. IInv
  BY InitIInv DEF HMainInit, MainInit
<1>2. ZeroRegs \in RegFile
  BY ISAAssumption DEF ZeroRegs, RegFile, Word
<1>3. PrintTypes
  BY <1>1, <1>2 DEF HMainInit, MainInit, PrintTypes, RegFiles, IInv, TypeOK
<1>4. PrintedSoFar
  BY DEF HMainInit, MainInit, PrintedSoFar
<1> QED BY <1>1, <1>3, <1>4 DEF PInv

LEMMA RunCorePrints ==
  ASSUME PInv, IInv', RunCore, NoteUse
  PROVE  PInv'
<1>1. /\ phase = "run" /\ UNCHANGED <<phase, k, context, printed, final>>
  BY DEF RunCore, NoteUse, mainVars
<1>2. isBlocked' = isBlocked
  BY DEF RunCore, Next, FinegrainedIssue, FinegrainedIdle, BlockedIssueEvent,
     BlockedIssueOther, BlockedIdle, Issue, Bubble, Terminated, vars, schedVars
<1>3. reg' \in RegFiles
  BY DEF IInv, TypeOK, RegFiles
<1> QED BY <1>1, <1>2, <1>3 DEF PInv, PrintTypes, PrintedSoFar

LEMMA FinishRunPrints ==
  ASSUME PInv, IInv', FinishRun, NoteUse
  PROVE  PInv'
<1>1. /\ phase' = "collect" /\ k' = 0
      /\ UNCHANGED <<reg, isBlocked, context, printed>>
      /\ final' = [final EXCEPT ![isBlocked] = reg]
  BY DEF FinishRun, NoteUse, vars, archVars, schedVars
<1>2. /\ final' \in [BOOLEAN -> RegFiles] /\ final'[isBlocked] = reg
      /\ ~isBlocked => final'[TRUE] = final[TRUE]
  BY <1>1 DEF PInv, PrintTypes
<1>3. \A t \in Threads : ~(t < 0)
  BY ThreadsFacts
<1> QED BY <1>1, <1>2, <1>3 DEF PInv, PrintTypes, PrintedSoFar

LEMMA CollectPrints ==
  ASSUME PInv, IInv', Collect, NoteUse
  PROVE  PInv'
<1> DEFINE b == isBlocked
<1>1. /\ phase = "collect" /\ k' = k + 1 /\ k < NThreads
      /\ UNCHANGED <<reg, isBlocked, phase, final>>
      /\ context' = [context EXCEPT ![b] = CTX(context[b], k)]
      /\ printed' = [printed EXCEPT ![b][k] = context'[b][k]]
  BY DEF Collect, NoteUse, vars, archVars, schedVars
<1>2. k \in Threads /\ b \in BOOLEAN
  BY <1>1, ImageAssumption DEF PInv, PrintTypes, Threads
<1>3. CTX(context[b], k) \in RegFiles /\ CTX(context[b], k)[k] = reg[k]
  BY <1>2 DEF CTX, PInv, PrintTypes, RegFiles
<1>4. context' \in [BOOLEAN -> RegFiles] /\ context'[b][k] = reg[k]
  BY <1>1, <1>2, <1>3 DEF PInv, PrintTypes
<1>5. printed' = [printed EXCEPT ![b] = [printed[b] EXCEPT ![k] = reg[k]]]
  BY <1>1, <1>4
<1>6. printed[b] \in RegFiles /\ reg[k] \in RegFile
  BY <1>2 DEF PInv, PrintTypes, RegFiles
<1>7. /\ [printed[b] EXCEPT ![k] = reg[k]] \in RegFiles
      /\ \A t \in Threads :
           [printed[b] EXCEPT ![k] = reg[k]][t] = IF t = k THEN reg[k] ELSE printed[b][t]
  BY <1>2, <1>6 DEF RegFiles
<1>8. /\ printed' \in [BOOLEAN -> RegFiles]
      /\ ~b => printed'[TRUE] = printed[TRUE]
      /\ \A t \in Threads : printed'[b][t] = IF t = k THEN reg[k] ELSE printed[b][t]
  BY <1>2, <1>5, <1>7 DEF PInv, PrintTypes
<1>9. PrintTypes'
  BY <1>1, <1>4, <1>8 DEF PInv, PrintTypes
<1>10. \A t \in Threads : t < k + 1 => t < k \/ t = k
  BY ThreadsFacts DEF PInv, PrintTypes
<1>11. PrintedSoFar'
  BY <1>1, <1>8, <1>10 DEF PInv, PrintedSoFar
<1> QED BY <1>9, <1>11 DEF PInv

\* All threads have been collected: what is printed is what they ended with.
LEMMA AllPrinted ==
  ASSUME PInv, phase = "collect", k = NThreads
  PROVE  printed[isBlocked] = final[isBlocked]
<1>1. \A t \in Threads : t < k
  BY ImageAssumption DEF Threads
<1>2. printed[isBlocked] \in RegFiles /\ reg \in RegFiles
  BY DEF PInv, PrintTypes
<1>3. \A t \in Threads : printed[isBlocked][t] = reg[t]
  BY <1>1 DEF PInv, PrintedSoFar
<1>4. printed[isBlocked] = reg
  BY <1>2, <1>3 DEF RegFiles
<1> QED BY <1>4 DEF PInv, PrintedSoFar

LEMMA StartPrints ==
  ASSUME PInv, IInv', StartFinegrained, NoteUse
  PROVE  PInv'
<1>1. /\ isBlocked /\ ~isBlocked' /\ phase' = "run"
      /\ UNCHANGED <<k, context, printed, final>>
  BY DEF StartFinegrained, ConstructFinegrained, NoteUse
<1>2. isBlocked = TRUE /\ isBlocked' = FALSE
  BY <1>1 DEF StartFinegrained, ConstructFinegrained, PInv, PrintTypes
<1>3. printed[TRUE] = final[TRUE]
  BY <1>2, AllPrinted DEF StartFinegrained
<1>4. reg' \in RegFiles
  BY DEF IInv, TypeOK, RegFiles
<1> QED BY <1>1, <1>2, <1>3, <1>4 DEF PInv, PrintTypes, PrintedSoFar

LEMMA ExitPrints ==
  ASSUME PInv, IInv', Exit, NoteUse
  PROVE  PInv'
<1>1. /\ ~isBlocked /\ phase' = "done"
      /\ UNCHANGED <<reg, isBlocked, k, context, printed, final>>
  BY DEF Exit, NoteUse, vars, archVars, schedVars
<1>2. isBlocked = FALSE
  BY <1>1 DEF PInv, PrintTypes
<1>3. printed[FALSE] = final[FALSE]
  BY <1>2, AllPrinted DEF Exit
<1> QED BY <1>1, <1>2, <1>3 DEF PInv, PrintTypes, PrintedSoFar

LEMMA StepPInv == PInv /\ [HMainNext]_allVars => PInv'
<1> SUFFICES ASSUME PInv, [HMainNext]_allVars PROVE PInv'
  OBVIOUS
<1>1. IInv'
  BY CoreStep DEF PInv
<1>2. CASE HMainNext /\ RunCore
  BY <1>1, <1>2, RunCorePrints DEF HMainNext
<1>3. CASE HMainNext /\ FinishRun
  BY <1>1, <1>3, FinishRunPrints DEF HMainNext
<1>4. CASE HMainNext /\ Collect
  BY <1>1, <1>4, CollectPrints DEF HMainNext
<1>5. CASE HMainNext /\ StartFinegrained
  BY <1>1, <1>5, StartPrints DEF HMainNext
<1>6. CASE HMainNext /\ Exit
  BY <1>1, <1>6, ExitPrints DEF HMainNext
<1>7. CASE (HMainNext /\ Done) \/ UNCHANGED allVars
  <2>1. UNCHANGED <<reg, isBlocked, phase, k, context, printed, final>>
    BY <1>7 DEF HMainNext, NoteUse, Done, allVars, useVars, mvars, mainVars,
       vars, archVars, schedVars
  <2> QED BY <1>1, <2>1 DEF PInv, PrintTypes, PrintedSoFar
<1> QED BY <1>2, <1>3, <1>4, <1>5, <1>6, <1>7 DEF HMainNext, MainNext

(***************************************************************************)
(* Under the heading of each thread main prints the registers that thread  *)
(* ended this simulation with, although CORE_BlockedMT_CTX and             *)
(* CORE_FinegrainedMT_CTX overwrite the contexts of all threads each time. *)
(***************************************************************************)
THEOREM PrintsWhatThreadsEndWith == HMainSpec => []PrintsOwnRegisters
<1>1. PInv => PrintsOwnRegisters
  <2> SUFFICES ASSUME PInv, phase = "done" PROVE printed = final
    BY DEF PrintsOwnRegisters
  <2>1. \A b \in BOOLEAN : printed[b] = final[b]
    BY DEF PInv, PrintedSoFar
  <2> QED BY <2>1 DEF PInv, PrintTypes
<1> QED BY <1>1, InitPInv, StepPInv, PTL DEF HMainSpec

-----------------------------------------------------------------------------
\* How many instructions a simulation executes.  They are counted as a set:
\* <<t, p>> stands for the instruction of thread t that p others precede.

Executed == {x \in Threads \X Nat : x[2] < pc[x[1]]}

\* The instructions of an image up to the first HALT of each program.
WholeRun == {x \in Threads \X Nat : \A j \in 1 .. x[2] : img.prog[x[1]][j].op # "HALT"}

StopsAtFirstHalt ==
  \A t \in Threads : halted[t] =>
    /\ pc[t] >= 1 /\ img.prog[t][pc[t]].op = "HALT"
    /\ \A j \in 1 .. pc[t] - 1 : img.prog[t][j].op # "HALT"

Counted ==
  /\ StopsAtFirstHalt
  /\ IsFiniteSet(Executed) /\ nInst = Cardinality(Executed)
  /\ cycle >= nInst

NothingExecuted ==
  /\ pc = [t \in Threads |-> 0] /\ halted = [t \in Threads |-> FALSE]
  /\ cycle = 0 /\ nInst = 0

LEMMA CountedFresh == NothingExecuted => Counted
<1> SUFFICES ASSUME NothingExecuted PROVE Counted
  OBVIOUS
<1>1. Executed = {}
  BY DEF NothingExecuted, Executed
<1>2. StopsAtFirstHalt
  BY DEF NothingExecuted, StopsAtFirstHalt
<1> QED BY <1>1, <1>2, FS_EmptySet DEF NothingExecuted, Counted

LEMMA CountedAfresh == NothingExecuted' => Counted'
  BY CountedFresh, PTL

LEMMA IssueStops ==
  ASSUME IInv, StopsAtFirstHalt, Issue
  PROVE  StopsAtFirstHalt'
<1>1. /\ cur \in Threads /\ ~halted[cur] /\ img' = img
      /\ pc' = [pc EXCEPT ![cur] = pc[cur] + 1]
      /\ halted' = [halted EXCEPT ![cur] = (Fetch(cur).op = "HALT") \/ halted[cur]]
  BY DEF Issue, Execute, IInv, TypeOK, IssueSafe, Free
<1>2. pc \in [Threads -> Nat] /\ halted \in [Threads -> BOOLEAN]
  BY DEF IInv, TypeOK
<1>3. pc[cur] + 1 \in DOMAIN img.prog[cur]
  BY <1>1, InProgram DEF IInv
<1>4. img.prog[cur] \in Seq(Instruction)
  BY <1>1, ImageFields DEF IInv, TypeOK
<1>5. \A j \in 1 .. pc[cur] : img.prog[cur][j].op # "HALT"
  <2>1. \A j \in 1 .. pc[cur] : j \in DOMAIN img.prog[cur]
    BY <1>1, <1>2, <1>3, <1>4
  <2> QED BY <1>1, <2>1 DEF IInv, NoHaltBehind
<1>6. ASSUME NEW t \in Threads, halted'[t]
      PROVE  /\ pc'[t] >= 1 /\ img.prog[t][pc'[t]].op = "HALT"
             /\ \A j \in 1 .. pc'[t] - 1 : img.prog[t][j].op # "HALT"
  <2>1. CASE t # cur
    BY <1>1, <1>2, <1>6, <2>1 DEF StopsAtFirstHalt
  <2>2. CASE t = cur
    <3>1. Fetch(cur).op = "HALT" /\ pc'[cur] = pc[cur] + 1
      BY <1>1, <1>2, <1>6, <2>2
    <3>2. img.prog[cur][pc[cur] + 1].op = "HALT"
      BY <3>1 DEF Fetch
    <3>3. pc[cur] \in Nat
      BY <1>1, <1>2
    <3> QED BY <1>5, <2>2, <3>1, <3>2, <3>3
  <2> QED BY <2>1, <2>2
<1> QED BY <1>1, <1>6 DEF StopsAtFirstHalt

LEMMA IssueCounts ==
  ASSUME IInv, Counted, Issue
  PROVE  IsFiniteSet(Executed)' /\ nInst' = Cardinality(Executed)' /\ nInst' = nInst + 1
<1>1. /\ cur \in Threads /\ nInst' = nInst + 1
      /\ pc' = [pc EXCEPT ![cur] = pc[cur] + 1]
  BY DEF Issue, Execute, IInv, TypeOK
<1>2. pc \in [Threads -> Nat]
  BY DEF IInv, TypeOK
<1> DEFINE x == <<cur, pc[cur]>>
<1>3. x \notin Executed
  BY <1>1, <1>2 DEF Executed
<1>4. Executed' = Executed \cup {x}
  <2>1. ASSUME NEW t \in Threads, NEW p \in Nat
        PROVE  p < pc'[t] <=> p < pc[t] \/ (t = cur /\ p = pc[cur])
    BY <1>1, <1>2
  <2> QED BY <1>1, <1>2, <2>1 DEF Executed
<1> HIDE DEF x
<1>5. IsFiniteSet(Executed \cup {x}) /\ Cardinality(Executed \cup {x}) = Cardinality(Executed) + 1
  BY <1>3, FS_AddElement DEF Counted
<1> QED BY <1>1, <1>4, <1>5 DEF Counted

LEMMA CoreCounts ==
  ASSUME IInv, Counted, Next, ~AllHalted
  PROVE  Counted'
<1>1. cycle \in Nat /\ nInst \in Nat /\ SwitchPenalty \in Nat
  BY PenaltyFacts DEF IInv, TypeOK
<1>2. CASE Issue
  <2>1. cycle' >= cycle + 1
    BY <1>1, <1>2 DEF Next, FinegrainedIssue, FinegrainedIdle, BlockedIssueEvent,
       BlockedIssueOther, BlockedIdle, FinegrainedTick, BlockedSwitch, Terminated
  <2>2. cycle' \in Nat
    BY <1>1, <1>2 DEF Next, FinegrainedIssue, FinegrainedIdle, BlockedIssueEvent,
       BlockedIssueOther, BlockedIdle, FinegrainedTick, BlockedSwitch, Terminated
  <2>3. cycle' >= nInst'
    BY <1>1, <1>2, <2>1, <2>2, IssueCounts DEF Counted
  <2> QED BY <1>2, <2>3, IssueStops, IssueCounts DEF Counted
<1>3. CASE Bubble
  <2>1. cycle' \in Nat /\ cycle' >= cycle
    BY <1>1, <1>3 DEF Next, FinegrainedIssue, FinegrainedIdle, BlockedIssueEvent,
       BlockedIssueOther, BlockedIdle, FinegrainedTick, BlockedSwitch, Terminated
  <2>2. UNCHANGED <<img, pc, halted, nInst>>
    BY <1>3 DEF Bubble, archVars
  <2>3. Executed' = Executed /\ StopsAtFirstHalt'
    BY <2>2 DEF Executed, StopsAtFirstHalt, Counted
  <2> QED BY <1>1, <2>1, <2>2, <2>3 DEF Counted
<1> QED BY <1>2, <1>3 DEF Next, FinegrainedIssue, FinegrainedIdle,
       BlockedIssueEvent, BlockedIssueOther, BlockedIdle, Terminated

\* At the end of a simulation the executed instructions are the same ones
\* whatever the schedule was.
LEMMA AllExecuted ==
  ASSUME TypeOK, Counted, AllHalted
  PROVE  /\ Executed = WholeRun /\ IsFiniteSet(WholeRun)
         /\ nInst = Cardinality(WholeRun) /\ nInst > 0
<1>1. pc \in [Threads -> Nat]
  BY DEF TypeOK
<1>2. ASSUME NEW t \in Threads, NEW p \in Nat
      PROVE  p < pc[t] <=> \A j \in 1 .. p : img.prog[t][j].op # "HALT"
  <2>1. /\ pc[t] >= 1 /\ img.prog[t][pc[t]].op = "HALT"
        /\ \A j \in 1 .. pc[t] - 1 : img.prog[t][j].op # "HALT"
    BY DEF AllHalted, Counted, StopsAtFirstHalt
  <2>2. pc[t] \in Nat
    BY <1>1
  <2> QED BY <2>1, <2>2
<1>3. Executed = WholeRun
  BY <1>2 DEF Executed, WholeRun
<1>4. <<0, 0>> \in Executed
  BY <1>1, ThreadsFacts DEF Executed, AllHalted, Counted, StopsAtFirstHalt
<1>5. nInst # 0 /\ nInst \in Nat
  BY <1>4, FS_EmptySet DEF Counted, TypeOK
<1> QED BY <1>3, <1>5 DEF Counted

\* The CPIs reported so far.
Reported(b) ==
  /\ cpi[b].insts = Cardinality(WholeRun) /\ cpi[b].insts > 0
  /\ cpi[b].cycles >= cpi[b].insts

CInv ==
  /\ IInv /\ Counted
  /\ DOMAIN cpi = BOOLEAN
  /\ phase \in {"run", "collect", "done"}
  /\ phase = "collect" => AllHalted
  /\ ~isBlocked => Reported(TRUE)
  /\ phase = "done" => ~isBlocked /\ Reported(FALSE)

LEMMA StepCInv == CInv /\ [HMainNext]_allVars => CInv'
<1> SUFFICES ASSUME CInv, [HMainNext]_allVars PROVE CInv'
  OBVIOUS
<1>1. IInv' /\ IInv /\ TypeOK
  BY CoreStep DEF CInv, IInv
<1>2. CASE RunCore
  <2>1. Counted'
    BY <1>1, <1>2, CoreCounts DEF RunCore, CInv
  <2>2. UNCHANGED <<phase, cpi>> /\ phase = "run"
    BY <1>2 DEF RunCore, mainVars
  <2>3. isBlocked' = isBlocked /\ img' = img
    BY <1>2 DEF RunCore, Next, FinegrainedIssue, FinegrainedIdle, BlockedIssueEvent,
       BlockedIssueOther, BlockedIdle, Issue, Bubble, Terminated, vars, archVars,
       schedVars
  <2> QED BY <1>1, <2>1, <2>2, <2>3 DEF CInv, Reported, WholeRun
<1>3. CASE FinishRun \/ Collect \/ Done \/ UNCHANGED allVars
  <2>1. UNCHANGED <<img, pc, halted, isBlocked, nInst, cycle, cpi>>
    BY <1>3 DEF FinishRun, Collect, Done, allVars, mvars, mainVars, vars, archVars,
       schedVars
  <2>2. Counted' /\ AllHalted' = AllHalted
    BY <2>1 DEF CInv, Counted, StopsAtFirstHalt, Executed, AllHalted
  <2>3. \/ phase' = "collect" /\ AllHalted
        \/ phase' = phase
    BY <1>3 DEF FinishRun, Collect, Done, allVars, mvars, mainVars
  <2> QED BY <1>1, <2>1, <2>2, <2>3 DEF CInv, Reported, WholeRun
<1>4. CASE StartFinegrained
  <2>1. /\ phase = "collect" /\ phase' = "run" /\ img' = img
        /\ isBlocked /\ ~isBlocked'
        /\ pc' = [t \in Threads |-> 0] /\ halted' = [t \in Threads |-> FALSE]
        /\ cycle' = 0 /\ nInst' = 0
        /\ cpi' = [cpi EXCEPT ![isBlocked] = [cycles |-> cycle, insts |-> nInst]]
    BY <1>4 DEF StartFinegrained, ConstructFinegrained, FreshCounters, ReportCPI
  <2>2. isBlocked = TRUE
    BY <1>1, <2>1 DEF TypeOK
  <2>3. cpi'[TRUE] = [cycles |-> cycle, insts |-> nInst] /\ DOMAIN cpi' = BOOLEAN
    BY <2>1, <2>2 DEF CInv
  <2>4. nInst = Cardinality(WholeRun) /\ nInst > 0 /\ cycle >= nInst
    BY <1>1, <2>1, AllExecuted DEF CInv, Counted
  <2>5. Reported(TRUE)'
    BY <2>1, <2>3, <2>4 DEF Reported, WholeRun
  <2>6. Counted'
    BY <2>1, CountedAfresh DEF NothingExecuted
  <2> QED BY <1>1, <2>1, <2>3, <2>5, <2>6 DEF CInv
<1>5. CASE Exit
  <2>1. /\ phase = "collect" /\ phase' = "done" /\ ~isBlocked
        /\ UNCHANGED <<img, pc, halted, isBlocked, nInst, cycle>>
        /\ cpi' = [cpi EXCEPT ![isBlocked] = [cycles |-> cycle, insts |-> nInst]]
    BY <1>5 DEF Exit, ReportCPI, vars, archVars, schedVars
  <2>2. isBlocked = FALSE
    BY <1>1, <2>1 DEF TypeOK
  <2>3. /\ cpi'[FALSE] = [cycles |-> cycle, insts |-> nInst] /\ cpi'[TRUE] = cpi[TRUE]
        /\ DOMAIN cpi' = BOOLEAN
    BY <2>1, <2>2 DEF CInv
  <2>4. nInst = Cardinality(WholeRun) /\ nInst > 0 /\ cycle >= nInst
    BY <1>1, <2>1, AllExecuted DEF CInv, Counted
  <2>5. Reported(FALSE)'
    <3>1. WholeRun' = WholeRun
      BY <2>1 DEF WholeRun
    <3>2. cpi'[FALSE].insts = nInst /\ cpi'[FALSE].cycles = cycle
      BY <2>3
    <3> QED BY <2>4, <3>1, <3>2 DEF Reported
  <2>6. Reported(TRUE)'
    <3>1. Reported(TRUE)
      BY <2>2 DEF CInv
    <3> QED BY <2>1, <2>3, <3>1 DEF Reported, WholeRun
  <2>7. Counted'
    BY <2>1 DEF CInv, Counted, StopsAtFirstHalt, Executed
  <2> QED BY <1>1, <2>1, <2>3, <2>5, <2>6, <2>7 DEF CInv
<1> QED BY <1>2, <1>3, <1>4, <1>5 DEF HMainNext, MainNext

(***************************************************************************)
(* Both simulations execute the same number of instructions, at least one  *)
(* and at most one in a cycle, although they take the threads in different *)
(* orders and the second starts from other data.                           *)
(***************************************************************************)
THEOREM BothRunsCountTheSame == HMainSpec => []CPIsComparable
<1>1. HMainInit => CInv
  <2> SUFFICES ASSUME HMainInit PROVE CInv
    OBVIOUS
  <2>1. IInv
    BY InitIInv DEF HMainInit, MainInit
  <2>2. Counted
    BY CountedFresh DEF NothingExecuted, HMainInit, MainInit, Init, ArchInit
  <2> QED BY <2>1, <2>2 DEF HMainInit, MainInit, CInv
<1>2. CInv => CPIsComparable
  BY DEF CInv, Reported, CPIsComparable
<1> QED BY <1>1, <1>2, StepCInv, PTL DEF HMainSpec

-----------------------------------------------------------------------------
\* Both simulations against each thread on its own.  Instruction p of a thread
\* is the one that p others precede.

OpAt(t, p) == img.prog[t][p + 1].op

\* The word that instruction p of t would use if t were alone.
WordAt(t, p) ==
  WordIndex(Address(img.prog[t][p + 1], AloneIn(img, t, p).reg), img.dataStart)

\* The words stored by the first n instructions of t.
StoredBy(t, n) == {WordAt(t, p) : p \in {q \in 0..(n-1) : OpAt(t, q) = "STORE"}}

\* The instructions whose use of the memory has been noted: what the blocked
\* core has executed so far, and all that it has executed once it is done.
Noted(t) == IF isBlocked THEN 0..(pc[t] - 1) ELSE {p \in Nat : <<t, p>> \in WholeRun}

Words == 0..NWords-1
NoteTypes ==
  /\ loaded \in [Threads -> SUBSET Words]
  /\ exposed \in [Threads -> SUBSET Words]
  /\ stored \in [Threads -> SUBSET Words]

\* The notes are those of the threads on their own ...
NotesOf(t) ==
  /\ \A p \in Noted(t) :
       /\ OpAt(t, p) = "STORE" => WordAt(t, p) \in stored[t]
       /\ OpAt(t, p) = "LOAD" =>
            WordAt(t, p) \in loaded[t] /\ WordAt(t, p) \in exposed[t] \cup StoredBy(t, p)
  /\ isBlocked => stored[t] \subseteq StoredBy(t, pc[t])

\* ... and so are the registers, and the words that no other thread stores.
MemoryAlone(t, n) ==
  LET alone == AloneIn(img, t, n)
  IN  /\ alone.mem \in Memory
      /\ StoredBy(t, n) \subseteq Words
      /\ \A w \in Words : w \notin StoredBy(t, n) => alone.mem[w] = img.data[w]

Replayed(t) ==
  LET alone == AloneIn(img, t, pc[t])
  IN  /\ reg[t] = alone.reg
      /\ MemoryAlone(t, pc[t])
      /\ \A w \in StoredBy(t, pc[t]) :
           (\A u \in Threads : u # t => w \notin stored[u]) => data[w] = alone.mem[w]

\* A word that nobody stores is as the image has it, in both simulations.
Untouched ==
  \A w \in Words : (\A t \in Threads : w \notin stored[t]) => data[w] = img.data[w]

ReplayInv ==
  /\ NoteTypes
  /\ Confined => (\A t \in Threads : NotesOf(t) /\ Replayed(t)) /\ Untouched

LEMMA InitReplay == HMainInit => ReplayInv
<1> SUFFICES ASSUME HMainInit PROVE ReplayInv
  OBVIOUS
<1>1. /\ img \in Images /\ data = img.data /\ pc = [t \in Threads |-> 0] /\ isBlocked
      /\ reg = [t \in Threads |-> [r \in Reg |-> 0]]
      /\ loaded = [t \in Threads |-> {}] /\ exposed = [t \in Threads |-> {}]
      /\ stored = [t \in Threads |-> {}] /\ img.data \in Memory
  BY InitIInv DEF HMainInit, MainInit, Init, ArchInit, IInv, TypeOK
<1>2. ASSUME NEW t \in Threads
      PROVE  NotesOf(t) /\ Replayed(t)
  <2>1. AloneIn(img, t, 0) = FirstOf(img)
    <3>1. 0 < Len(img.prog[t])
      BY <1>1, ImageFields
    <3> QED BY <1>1, <3>1, AloneNext
  <2>2. StoredBy(t, 0) = {} /\ Noted(t) = {}
    BY <1>1 DEF StoredBy, Noted
  <2>3. pc[t] = 0 /\ reg[t] = [r \in Reg |-> 0] /\ stored[t] = {}
    BY <1>1
  <2>4. NotesOf(t)
    BY <2>2, <2>3 DEF NotesOf
  <2>5. Replayed(t)
    BY <1>1, <2>1, <2>2, <2>3 DEF Replayed, MemoryAlone, FirstOf
  <2> QED BY <2>4, <2>5
<1>3. NoteTypes /\ Untouched
  BY <1>1 DEF NoteTypes, Untouched
<1> QED BY <1>2, <1>3 DEF ReplayInv

\* A second simulation starts where each thread starts on its own.
LEMMA StartReplay ==
  ASSUME IInv, IInv', Counted, AllHalted, ReplayInv, StartFinegrained, NoteUse
  PROVE  ReplayInv'
<1>1. /\ img' = img /\ data' = data /\ pc' = [t \in Threads |-> 0] /\ ~isBlocked'
      /\ isBlocked /\ reg' = [t \in Threads |-> ZeroRegs] /\ img \in Images
      /\ img.data \in Memory /\ pc \in [Threads -> Nat]
  BY ImageFields, ThreadsFacts
     DEF StartFinegrained, ConstructFinegrained, FreshRegs, IInv, TypeOK
<1>2. UNCHANGED <<loaded, exposed, stored>>
  BY DEF StartFinegrained, NoteUse, Used, ReplayInv, NoteTypes
<1> SUFFICES ASSUME Confined PROVE ((\A t \in Threads : NotesOf(t) /\ Replayed(t)) /\ Untouched)'
  BY <1>2 DEF ReplayInv, NoteTypes, Confined
<1>3. \A t \in Threads : NotesOf(t) /\ Untouched
  BY DEF ReplayInv
<1>4. Untouched'
  BY <1>1, <1>2, ThreadsFacts, <1>3 DEF Untouched
<1>5. ASSUME NEW t \in Threads
      PROVE  NotesOf(t)' /\ Replayed(t)'
  <2>1. AloneIn(img, t, 0) = FirstOf(img)
    <3>1. 0 < Len(img.prog[t])
      BY <1>1, ImageFields
    <3> QED BY <1>1, <3>1, AloneNext
  <2>2. StoredBy(t, 0) = {}
    BY DEF StoredBy
  <2>3. /\ pc'[t] = 0 /\ reg'[t] = [r \in Reg |-> 0]
        /\ StoredBy(t, 0)' = StoredBy(t, 0)
        /\ \A p : /\ OpAt(t, p)' = OpAt(t, p) /\ WordAt(t, p)' = WordAt(t, p)
                  /\ StoredBy(t, p)' = StoredBy(t, p)
    BY <1>1 DEF ZeroRegs, StoredBy, OpAt, WordAt
  <2>4. Noted(t)' = Noted(t)
    <3>1. Executed = WholeRun
      BY AllExecuted DEF IInv
    <3>2. WholeRun' = WholeRun
      BY <1>1 DEF WholeRun
    <3>3. \A p \in Nat : <<t, p>> \in Executed <=> p < pc[t]
      BY DEF Executed
    <3>4. pc[t] \in Nat
      BY <1>1
    <3>5. {p \in Nat : <<t, p>> \in WholeRun} = 0..(pc[t] - 1)
      BY <3>1, <3>3, <3>4
    <3> QED BY <1>1, <3>2, <3>5 DEF Noted
  <2>5. NotesOf(t)'
    BY <1>1, <1>2, <1>3, <2>3, <2>4 DEF NotesOf
  <2>6. Replayed(t)'
    BY <1>1, <2>1, <2>2, <2>3 DEF Replayed, MemoryAlone, FirstOf
  <2> QED BY <2>5, <2>6
<1> QED BY <1>4, <1>5

\* Nothing is noted and nothing changes while the core idles or main prints.
LEMMA QuietReplay ==
  ASSUME ReplayInv, UNCHANGED <<img, data, pc, reg, isBlocked, loaded, exposed, stored>>
  PROVE  ReplayInv'
BY DEF ReplayInv, NoteTypes, Confined, NotesOf, Replayed, MemoryAlone, Untouched, Noted,
   WholeRun, StoredBy, OpAt, WordAt

\* What is noted of the instruction that thread c executes: i, which uses word
\* x if it uses any.
Notes(c, i, x) ==
  IF isBlocked
  THEN /\ loaded' = [loaded EXCEPT ![c] = loaded[c] \cup (IF i.op = "LOAD" THEN {x} ELSE {})]
       /\ exposed' = [exposed EXCEPT ![c] =
                        exposed[c] \cup ((IF i.op = "LOAD" THEN {x} ELSE {}) \ stored[c])]
       /\ stored' = [stored EXCEPT ![c] = stored[c] \cup (IF i.op = "STORE" THEN {x} ELSE {})]
  ELSE UNCHANGED <<loaded, exposed, stored>>

\* Thread c executes i, its instruction p.
Executes(c, p, i, x) ==
  /\ c \in Threads /\ p \in Nat /\ pc \in [Threads -> Nat] /\ p = pc[c] /\ p < Len(img.prog[c])
  /\ i = img.prog[c][p + 1] /\ i \in Instruction
  /\ img \in Images /\ img' = img /\ isBlocked \in BOOLEAN /\ isBlocked' = isBlocked
  /\ reg \in [Threads -> RegFile] /\ data \in Memory
  /\ x = WordIndex(Address(i, reg[c]), img.dataStart)
  /\ i.op \in MemoryOpcode => x \in Words
  /\ pc' = [pc EXCEPT ![c] = p + 1]
  /\ reg' = [reg EXCEPT ![c] = RegsAfter(i, reg[c], data, img.dataStart)]
  /\ data' = MemAfter(i, reg[c], data, img.dataStart)
  /\ <<c, p>> \in WholeRun

LEMMA IssueExecutes ==
  ASSUME IInv, ReplayInv, RunCore, Issue, NoteUse
  PROVE  \E c, p, i, x : Executes(c, p, i, x) /\ Notes(c, i, x)
<1> DEFINE p == pc[cur]
           i == Fetch(cur)
           x == WordIndex(Address(i, reg[cur]), img.dataStart)
<1>1. /\ cur \in Threads /\ ~halted[cur] /\ TypeOK /\ NoHaltBehind /\ img \in Images
  BY IssueType DEF IInv, TypeOK
<1>2. p + 1 \in DOMAIN img.prog[cur] /\ p \in Nat /\ img.prog[cur] \in Seq(Instruction)
  BY <1>1, InProgram, ImageFields DEF TypeOK
<1>3. p < Len(img.prog[cur]) /\ i = img.prog[cur][p + 1] /\ i \in Instruction
  BY <1>1, <1>2, FetchType DEF Fetch
<1>4. <<cur, p>> \in WholeRun
  <2>1. \A j \in 1..p : j \in DOMAIN img.prog[cur]
    BY <1>2
  <2> QED BY <1>1, <1>2, <2>1 DEF NoHaltBehind, WholeRun
<1>5. i.op \in MemoryOpcode => x \in Words
  BY DEF Issue, Execute, Defined, Words
<1>6. /\ img' = img /\ isBlocked' = isBlocked
      /\ pc' = [pc EXCEPT ![cur] = p + 1]
      /\ reg' = [reg EXCEPT ![cur] = RegsAfter(i, reg[cur], data, img.dataStart)]
      /\ data' = MemAfter(i, reg[cur], data, img.dataStart)
      /\ nInst' # nInst
  BY <1>1 DEF Issue, Execute, TypeOK
<1>7. Executes(cur, p, i, x)
  <2> HIDE DEF p, i, x
  <2>1. pc \in [Threads -> Nat] /\ isBlocked \in BOOLEAN /\ reg \in [Threads -> RegFile]
        /\ data \in Memory
    BY <1>1 DEF TypeOK
  <2>2. p = pc[cur] /\ x = WordIndex(Address(i, reg[cur]), img.dataStart)
    BY DEF p, x
  <2> QED BY <1>1, <1>2, <1>3, <1>4, <1>5, <1>6, <2>1, <2>2 DEF Executes
<1>8. Notes(cur, i, x)
  <2>1. phase = "run"
    BY DEF RunCore
  <2>2. /\ Used("LOAD") = IF isBlocked /\ i.op = "LOAD" THEN {x} ELSE {}
        /\ Used("STORE") = IF isBlocked /\ i.op = "STORE" THEN {x} ELSE {}
    BY <1>6, <2>1 DEF Used
  <2> HIDE DEF i, x
  <2>3. CASE isBlocked
    BY <2>2, <2>3 DEF Notes, NoteUse
  <2>4. CASE ~isBlocked
    <3>1. Used("LOAD") = {} /\ Used("STORE") = {}
      BY <2>2, <2>4
    <3> QED BY <2>4, <3>1 DEF Notes, NoteUse, ReplayInv, NoteTypes
  <2> QED BY <2>3, <2>4
<1> QED BY <1>7, <1>8

\* The notes only grow, and other threads' do not change.
LEMMA NotesGrow ==
  ASSUME NEW c, NEW p, NEW i, NEW x, Executes(c, p, i, x), Notes(c, i, x), NoteTypes
  PROVE  /\ NoteTypes'
         /\ \A t \in Threads : /\ loaded[t] \subseteq loaded'[t]
                               /\ exposed[t] \subseteq exposed'[t]
                               /\ stored[t] \subseteq stored'[t]
                               /\ t # c => stored'[t] = stored[t]
                               /\ i.op # "STORE" => stored'[t] = stored[t]
         /\ Confined' => Confined
<1>1. c \in Threads /\ (i.op = "LOAD" \/ i.op = "STORE" => x \in Words)
  BY DEF Executes, MemoryOpcode
<1>2. CASE isBlocked
  <2> DEFINE L == IF i.op = "LOAD" THEN {x} ELSE {}
             S == IF i.op = "STORE" THEN {x} ELSE {}
             E == L \ stored[c]
  <2>1. /\ loaded' = [loaded EXCEPT ![c] = loaded[c] \cup L]
        /\ exposed' = [exposed EXCEPT ![c] = exposed[c] \cup E]
        /\ stored' = [stored EXCEPT ![c] = stored[c] \cup S]
    BY <1>2 DEF Notes
  <2>2. L \subseteq Words /\ S \subseteq Words /\ E \subseteq Words /\ (i.op # "STORE" => S = {})
    BY <1>1
  <2> HIDE DEF L, S, E
  <2>3. NoteTypes'
    BY <1>1, <2>1, <2>2 DEF NoteTypes
  <2>4. \A t \in Threads : /\ loaded[t] \subseteq loaded'[t]
                           /\ exposed[t] \subseteq exposed'[t]
                           /\ stored[t] \subseteq stored'[t]
                           /\ t # c => stored'[t] = stored[t]
                           /\ i.op # "STORE" => stored'[t] = stored[t]
    BY <1>1, <2>1, <2>2 DEF NoteTypes
  <2> QED BY <2>3, <2>4 DEF Confined
<1>3. CASE ~isBlocked
  BY <1>3 DEF Notes, NoteTypes, Confined
<1> QED BY <1>2, <1>3

\* One instruction more of a thread on its own.
LEMMA StoredNext ==
  ASSUME NEW t, NEW p \in Nat
  PROVE  StoredBy(t, p + 1) = StoredBy(t, p) \cup
                              (IF OpAt(t, p) = "STORE" THEN {WordAt(t, p)} ELSE {})
<1>1. 0..((p + 1) - 1) = (0..(p - 1)) \cup {p}
  OBVIOUS
<1> DEFINE S == 0..(p - 1)
<1> HIDE DEF S
<1>2. {q \in S \cup {p} : OpAt(t, q) = "STORE"}
      = {q \in S : OpAt(t, q) = "STORE"} \cup (IF OpAt(t, p) = "STORE" THEN {p} ELSE {})
  OBVIOUS
<1>3. StoredBy(t, p + 1) = {WordAt(t, q) : q \in {r \in S \cup {p} : OpAt(t, r) = "STORE"}}
  BY <1>1 DEF StoredBy, S
<1>4. StoredBy(t, p) = {WordAt(t, q) : q \in {r \in S : OpAt(t, r) = "STORE"}}
  BY DEF StoredBy, S
<1> QED BY <1>2, <1>3, <1>4

\* The image does not change, nor what is said of the threads on their own.
LEMMA SameAlone ==
  ASSUME img' = img
  PROVE  /\ \A t, p : /\ AloneIn(img, t, p)' = AloneIn(img, t, p)
                      /\ OpAt(t, p)' = OpAt(t, p) /\ WordAt(t, p)' = WordAt(t, p)
                      /\ StoredBy(t, p)' = StoredBy(t, p)
                      /\ MemoryAlone(t, p)' <=> MemoryAlone(t, p)
         /\ WholeRun' = WholeRun
BY DEF OpAt, WordAt, StoredBy, MemoryAlone, WholeRun

\* What is noted stays as it is with the threads on their own.
LEMMA NotesStay ==
  ASSUME NEW c, NEW p, NEW i, NEW x, Executes(c, p, i, x), Notes(c, i, x), NoteTypes,
         \A t \in Threads : NotesOf(t),
         Replayed(c)
  PROVE  /\ \A t \in Threads : NotesOf(t)'
         /\ OpAt(c, p) = i.op /\ WordAt(c, p) = x
         /\ i.op = "LOAD" => x \in loaded'[c] /\ x \in exposed'[c] \cup StoredBy(c, p)
         /\ i.op = "STORE" => x \in stored'[c]
<1>1. OpAt(c, p) = i.op /\ WordAt(c, p) = x
  BY DEF Executes, OpAt, WordAt, Replayed
<1>2. /\ c \in Threads /\ p \in Nat /\ p = pc[c] /\ isBlocked' = isBlocked /\ isBlocked \in BOOLEAN
      /\ pc'[c] = p + 1 /\ \A t \in Threads : t # c => pc'[t] = pc[t]
      /\ img' = img /\ <<c, p>> \in WholeRun
  BY DEF Executes
<1>3. /\ \A t \in Threads : /\ loaded[t] \subseteq loaded'[t]
                            /\ exposed[t] \subseteq exposed'[t]
                            /\ stored[t] \subseteq stored'[t]
                            /\ t # c => stored'[t] = stored[t]
                            /\ i.op # "STORE" => stored'[t] = stored[t]
  BY NotesGrow
<1>4. /\ i.op = "LOAD" => x \in loaded'[c] /\ x \in exposed'[c] \cup StoredBy(c, p)
      /\ i.op = "STORE" => x \in stored'[c]
  <2>1. CASE isBlocked
    <3>1. stored[c] \subseteq StoredBy(c, p)
      BY <1>2, <2>1 DEF NotesOf
    <3>2. i.op = "LOAD" => x \in loaded'[c] /\ (x \in exposed'[c] \/ x \in stored[c])
      BY <1>2, <2>1 DEF Notes, NoteTypes
    <3>3. i.op = "STORE" => x \in stored'[c]
      BY <1>2, <2>1 DEF Notes, NoteTypes
    <3> QED BY <3>1, <3>2, <3>3
  <2>2. CASE ~isBlocked
    <3>1. p \in Noted(c)
      BY <1>2, <2>2 DEF Noted
    <3> QED BY <1>1, <1>2, <1>3, <3>1 DEF NotesOf
  <2> QED BY <2>1, <2>2
<1>5. \A t, q : /\ OpAt(t, q)' = OpAt(t, q) /\ WordAt(t, q)' = WordAt(t, q)
                /\ StoredBy(t, q)' = StoredBy(t, q)
  BY <1>2, SameAlone
<1>6. ASSUME NEW t \in Threads PROVE NotesOf(t)'
  <2>1. ASSUME NEW q \in Noted(t)'
        PROVE  q \in Noted(t) \/ (t = c /\ q = p)
    <3>1. CASE isBlocked
      <4>1. Noted(t) = 0..(pc[t] - 1) /\ Noted(t)' = 0..(pc'[t] - 1)
        BY <1>2, <3>1 DEF Noted
      <4> QED BY <1>2, <2>1, <4>1
    <3>2. CASE ~isBlocked
      BY <1>2, <2>1, <3>2, SameAlone DEF Noted
    <3> QED BY <3>1, <3>2
  <2>2. ASSUME NEW q \in Noted(t)'
        PROVE  /\ OpAt(t, q) = "STORE" => WordAt(t, q) \in stored'[t]
               /\ OpAt(t, q) = "LOAD" =>
                    /\ WordAt(t, q) \in loaded'[t]
                    /\ WordAt(t, q) \in exposed'[t] \cup StoredBy(t, q)
    <3>1. CASE q \in Noted(t)
      BY <1>3, <3>1 DEF NotesOf
    <3>2. CASE t = c /\ q = p
      BY <1>1, <1>4, <3>2
    <3> QED BY <2>1, <2>2, <3>1, <3>2
  <2>3. ASSUME isBlocked
        PROVE  stored'[t] \subseteq StoredBy(t, pc'[t])
    <3>1. stored[t] \subseteq StoredBy(t, pc[t])
      BY <2>3 DEF NotesOf
    <3>2. CASE t # c
      BY <1>2, <1>3, <3>1, <3>2
    <3>3. CASE t = c
      <4>1. StoredBy(c, p + 1) = StoredBy(c, p) \cup (IF i.op = "STORE" THEN {x} ELSE {})
        BY <1>1, <1>2, StoredNext
      <4>2. stored'[c] = stored[c] \cup (IF i.op = "STORE" THEN {x} ELSE {})
        BY <1>2, <2>3 DEF Notes, NoteTypes
      <4> QED BY <1>2, <3>1, <3>3, <4>1, <4>2
    <3> QED BY <3>2, <3>3
  <2> HIDE DEF Noted
  <2> QED BY <1>2, <1>5, <2>2, <2>3 DEF NotesOf
<1> QED BY <1>1, <1>4, <1>6

\* A thread sees what it sees on its own: what it loads nobody else stores, and
\* what it has not stored before nobody has.
LEMMA SeesAlone ==
  ASSUME NEW c, NEW p, NEW i, NEW x, Executes(c, p, i, x), Notes(c, i, x), NoteTypes, Confined',
         \A t \in Threads : NotesOf(t), Replayed(c), Untouched, i.op = "LOAD"
  PROVE  data[x] = AloneIn(img, c, p).mem[x]
<1>1. /\ c \in Threads /\ p = pc[c] /\ x \in Words
  BY DEF Executes, MemoryOpcode
<1>2. \A t \in Threads : stored'[t] = stored[t]
  BY NotesGrow
<1>3. x \in loaded'[c] /\ x \in exposed'[c] \cup StoredBy(c, p)
  BY NotesStay
<1>4. \A u \in Threads : u # c => x \notin stored[u]
  BY <1>1, <1>2, <1>3 DEF Confined
<1>5. CASE x \in StoredBy(c, p)
  BY <1>1, <1>4, <1>5 DEF Replayed
<1>6. CASE x \notin StoredBy(c, p)
  <2>1. \A u \in Threads : x \notin stored[u]
    BY <1>1, <1>2, <1>3, <1>6 DEF Confined
  <2>2. data[x] = img.data[x]
    BY <1>1, <2>1 DEF Untouched
  <2>3. AloneIn(img, c, p).mem[x] = img.data[x]
    BY <1>1, <1>6 DEF Replayed, MemoryAlone
  <2> QED BY <2>2, <2>3
<1> QED BY <1>5, <1>6

\* So it gets the same registers and stores the same.
LEMMA ActsAlone ==
  ASSUME NEW c, NEW p, NEW i, NEW x, Executes(c, p, i, x), Replayed(c),
         i.op = "LOAD" => data[x] = AloneIn(img, c, p).mem[x]
  PROVE  LET old == AloneIn(img, c, p)
             new == AloneIn(img, c, p + 1)
         IN  /\ reg'[c] = new.reg
             /\ \A w \in Words : i.op # "STORE" \/ w # x =>
                                   data'[w] = data[w] /\ new.mem[w] = old.mem[w]
             /\ i.op = "STORE" => data'[x] = new.mem[x]
             /\ new.mem \in Memory /\ old.mem \in Memory
<1> DEFINE old == AloneIn(img, c, p)
           new == AloneIn(img, c, p + 1)
           first == img.dataStart
           r == reg[c]
<1>1. /\ new = Effect(img, old, i) /\ old.reg = r /\ old.mem \in Memory /\ data \in Memory
      /\ r \in RegFile /\ i.op \in Opcode /\ i.src1 \in Reg
      /\ reg'[c] = RegsAfter(i, r, data, first) /\ data' = MemAfter(i, r, data, first)
      /\ x = WordIndex(Address(i, r), first)
      /\ i.op = "STORE" => x \in Words
  <2>1. new = Effect(img, old, i)
    BY AloneNext DEF Executes
  <2> HIDE DEF old, new
  <2>2. /\ reg'[c] = RegsAfter(i, r, data, first) /\ data' = MemAfter(i, r, data, first)
        /\ r \in RegFile
    BY DEF Executes
  <2>3. i.op \in Opcode /\ i.src1 \in Reg
    BY FieldsOfInstruction DEF Executes
  <2>4. old.reg = r /\ old.mem \in Memory
    BY DEF Executes, Replayed, MemoryAlone, old
  <2> QED BY <2>1, <2>2, <2>3, <2>4 DEF Executes, MemoryOpcode
<1> HIDE DEF old, new, first, r
<1>2. new.reg = RegsAfter(i, r, old.mem, first) /\ new.mem = MemAfter(i, r, old.mem, first)
  BY <1>1 DEF Effect, first
<1>3. reg'[c] = new.reg
  <2>1. CASE i.op \in {"NOP", "STORE", "HALT"}
    BY <1>1, <1>2, <2>1 DEF RegsAfter
  <2>2. CASE i.op \in {"LOAD", "ADD", "ADDI", "SUB", "SUBI"}
    <3>1. Result(i, r, old.mem, first) = Result(i, r, data, first)
      <4>1. CASE i.op = "LOAD"
        <5>1. data[x] = old.mem[x]
          BY <4>1 DEF old
        <5>2. Result(i, r, old.mem, first) = old.mem[x] /\ Result(i, r, data, first) = data[x]
          BY <1>1, <4>1 DEF Result
        <5> QED BY <5>1, <5>2
      <4>2. CASE i.op # "LOAD"
        BY <2>2, <4>2 DEF Result
      <4> QED BY <4>1, <4>2
    <3> QED BY <1>1, <1>2, <2>2, <3>1 DEF RegsAfter
  <2> QED BY <1>1, <2>1, <2>2 DEF Opcode
<1>4. CASE i.op = "STORE"
  <2>1. data' = [data EXCEPT ![x] = r[i.src1]] /\ new.mem = [old.mem EXCEPT ![x] = r[i.src1]]
    BY <1>1, <1>2, <1>4 DEF MemAfter
  <2>2. r[i.src1] \in Word
    BY <1>1 DEF RegFile
  <2>3. /\ \A w \in Words : w # x => data'[w] = data[w] /\ new.mem[w] = old.mem[w]
        /\ data'[x] = new.mem[x] /\ new.mem \in Memory
    BY <1>1, <1>4, <2>1, <2>2 DEF Memory, Words
  <2> QED BY <1>1, <1>3, <1>4, <2>3 DEF old, new
<1>5. CASE i.op # "STORE"
  <2>1. data' = data /\ new.mem = old.mem
    BY <1>1, <1>2, <1>5 DEF MemAfter
  <2> QED BY <1>1, <1>3, <1>5, <2>1 DEF old, new
<1> QED BY <1>4, <1>5

LEMMA IssueReplay ==
  ASSUME IInv, ReplayInv, RunCore, Issue, NoteUse
  PROVE  ReplayInv'
<1>1. PICK c, p, i, x : Executes(c, p, i, x) /\ Notes(c, i, x)
  BY IssueExecutes
<1>2. NoteTypes /\ NoteTypes' /\ (Confined' => Confined)
  BY <1>1, NotesGrow DEF ReplayInv
<1> SUFFICES ASSUME Confined'
             PROVE  (\A t \in Threads : NotesOf(t)' /\ Replayed(t)') /\ Untouched'
  BY <1>2 DEF ReplayInv
<1>3. /\ \A t \in Threads : NotesOf(t)
      /\ \A t \in Threads : Replayed(t)
      /\ Untouched
  BY <1>2 DEF ReplayInv
<1>4. /\ c \in Threads /\ p \in Nat /\ p = pc[c] /\ pc'[c] = p + 1 /\ img' = img
      /\ \A t \in Threads : t # c => pc'[t] = pc[t] /\ reg'[t] = reg[t]
      /\ i.op = "STORE" => x \in Words
  BY <1>1 DEF Executes, MemoryOpcode
<1>5. Replayed(c)
  BY <1>3, <1>4
<1>6. /\ \A t \in Threads : NotesOf(t)'
      /\ OpAt(c, p) = i.op /\ WordAt(c, p) = x
      /\ i.op = "STORE" => x \in stored'[c]
  BY <1>1, <1>2, <1>3, <1>5, NotesStay
<1>7. /\ \A t \in Threads : stored[t] \subseteq stored'[t]
      /\ \A t \in Threads : t # c => stored'[t] = stored[t]
  BY <1>1, <1>2, NotesGrow
<1> DEFINE old == AloneIn(img, c, p)
           new == AloneIn(img, c, p + 1)
<1>8. /\ reg'[c] = new.reg
      /\ \A w \in Words : i.op # "STORE" \/ w # x =>
                            data'[w] = data[w] /\ new.mem[w] = old.mem[w]
      /\ i.op = "STORE" => data'[x] = new.mem[x]
      /\ new.mem \in Memory
  <2>1. i.op = "LOAD" => data[x] = AloneIn(img, c, p).mem[x]
    BY <1>1, <1>2, <1>3, <1>5, SeesAlone
  <2> QED BY <1>1, <1>5, <2>1, ActsAlone
<1>9. /\ \A t, q : /\ AloneIn(img, t, q)' = AloneIn(img, t, q)
                   /\ StoredBy(t, q)' = StoredBy(t, q)
                   /\ MemoryAlone(t, q)' <=> MemoryAlone(t, q)
  BY <1>4, SameAlone
<1>10. StoredBy(c, p + 1) = StoredBy(c, p) \cup (IF i.op = "STORE" THEN {x} ELSE {})
  BY <1>4, <1>6, StoredNext
<1>11. /\ MemoryAlone(c, p)
       /\ \A w \in StoredBy(c, p) :
            (\A u \in Threads : u # c => w \notin stored[u]) => data[w] = old.mem[w]
  BY <1>4, <1>5 DEF Replayed
<1>12. MemoryAlone(c, p + 1)
  <2> HIDE DEF old, new
  <2>1. StoredBy(c, p + 1) \subseteq Words
    BY <1>4, <1>10, <1>11 DEF MemoryAlone
  <2>2. \A w \in Words : w \notin StoredBy(c, p + 1) => new.mem[w] = img.data[w]
    BY <1>8, <1>10, <1>11 DEF MemoryAlone, old
  <2> QED BY <1>8, <2>1, <2>2 DEF MemoryAlone, new
<1>13. ASSUME NEW t \in Threads
       PROVE  Replayed(t)'
  <2>1. CASE t # c
    <3> DEFINE alone == AloneIn(img, t, pc[t])
    <3>1. /\ reg[t] = alone.reg /\ MemoryAlone(t, pc[t])
          /\ \A w \in StoredBy(t, pc[t]) :
               (\A u \in Threads : u # t => w \notin stored[u]) => data[w] = alone.mem[w]
      BY <1>3 DEF Replayed
    <3>2. \A w \in StoredBy(t, pc[t]) :
            (\A u \in Threads : u # t => w \notin stored'[u]) => data'[w] = alone.mem[w]
      <4> SUFFICES ASSUME NEW w \in StoredBy(t, pc[t]),
                          \A u \in Threads : u # t => w \notin stored'[u]
                   PROVE  data'[w] = alone.mem[w]
        OBVIOUS
      <4>1. \A u \in Threads : u # t => w \notin stored[u]
        BY <1>7
      <4>2. w \notin stored'[c] /\ w \in Words
        BY <1>4, <2>1, <3>1 DEF MemoryAlone
      <4>3. data'[w] = data[w]
        BY <1>6, <1>8, <4>2
      <4> QED BY <3>1, <4>1, <4>3
    <3>3. pc'[t] = pc[t] /\ reg'[t] = reg[t]
      BY <1>4, <2>1
    <3> QED BY <1>9, <3>1, <3>2, <3>3 DEF Replayed
  <2>2. CASE t = c
    <3>1. \A w \in StoredBy(c, p + 1) :
            (\A u \in Threads : u # c => w \notin stored'[u]) => data'[w] = new.mem[w]
      <4> SUFFICES ASSUME NEW w \in StoredBy(c, p + 1),
                          \A u \in Threads : u # c => w \notin stored'[u]
                   PROVE  data'[w] = new.mem[w]
        OBVIOUS
      <4> HIDE DEF old, new
      <4>1. \A u \in Threads : u # c => w \notin stored[u]
        BY <1>7
      <4>2. w \in Words
        BY <1>12 DEF MemoryAlone
      <4>3. CASE i.op = "STORE" /\ w = x
        BY <1>8, <4>3
      <4>4. CASE i.op # "STORE" \/ w # x
        BY <1>8, <1>10, <1>11, <4>1, <4>2, <4>4
      <4> QED BY <4>3, <4>4
    <3> QED BY <1>4, <1>8, <1>9, <1>12, <2>2, <3>1 DEF Replayed
  <2> QED BY <2>1, <2>2
<1>14. Untouched'
  <2> SUFFICES ASSUME NEW w \in Words, \A t \in Threads : w \notin stored'[t]
               PROVE  data'[w] = img.data[w]
    BY <1>4 DEF Untouched, Words
  <2>1. \A t \in Threads : w \notin stored[t]
    BY <1>7
  <2>2. w \notin stored'[c]
    BY <1>4
  <2> QED BY <1>3, <1>6, <1>8, <2>1, <2>2 DEF Untouched
<1> QED BY <1>6, <1>13, <1>14

\* Where a thread stops is a matter of its program.
EndsAt(t, n) ==
  /\ n \in Nat /\ n >= 1 /\ img.prog[t][n].op = "HALT"
  /\ \A j \in 1..(n-1) : img.prog[t][j].op # "HALT"

LEMMA EndIsUnique ==
  ASSUME NEW t, NEW n, NEW m, EndsAt(t, n), EndsAt(t, m)
  PROVE  n = m
<1>1. /\ n \in Nat /\ m \in Nat /\ n >= 1 /\ m >= 1
      /\ n \notin 1..(m-1) /\ m \notin 1..(n-1)
  BY DEF EndsAt
<1> QED BY <1>1

\* The registers at the end of a simulation are those of a run alone.
EndedAlone(b) ==
  \A t \in Threads : \E n : EndsAt(t, n) /\ final[b][t] = AloneIn(img, t, n).reg

SInv ==
  /\ CInv /\ PInv /\ ReplayInv
  /\ Confined /\ ~isBlocked => EndedAlone(TRUE)
  /\ Confined /\ phase = "done" => EndedAlone(FALSE)

\* When main collects, a run has just ended.
LEMMA EndsAlone ==
  ASSUME CInv, PInv, ReplayInv, Confined, phase = "collect"
  PROVE  EndedAlone(isBlocked)
<1> SUFFICES ASSUME NEW t \in Threads
             PROVE  EndsAt(t, pc[t]) /\ final[isBlocked][t] = AloneIn(img, t, pc[t]).reg
  BY DEF EndedAlone
<1>1. EndsAt(t, pc[t])
  <2>1. halted[t] /\ pc[t] \in Nat
    BY DEF CInv, AllHalted, IInv, TypeOK
  <2> QED BY <2>1 DEF CInv, Counted, StopsAtFirstHalt, EndsAt
<1>2. final[isBlocked] = reg
  BY DEF PInv, PrintedSoFar
<1>3. reg[t] = AloneIn(img, t, pc[t]).reg
  BY DEF ReplayInv, Replayed
<1> QED BY <1>1, <1>2, <1>3

LEMMA EndedStays ==
  ASSUME img' = img, NEW b, final'[b] = final[b], EndedAlone(b)
  PROVE  EndedAlone(b)'
BY DEF EndedAlone, EndsAt

LEMMA StepReplay == CInv /\ ReplayInv /\ [HMainNext]_allVars => ReplayInv'
<1> SUFFICES ASSUME CInv, ReplayInv, [HMainNext]_allVars PROVE ReplayInv'
  OBVIOUS
<1>0. IInv /\ Counted /\ IInv'
  BY CoreStep DEF CInv
<1>1. CASE HMainNext /\ RunCore /\ Issue
  BY <1>0, <1>1, IssueReplay DEF HMainNext
<1>2. CASE HMainNext /\ StartFinegrained
  <2>1. AllHalted
    BY <1>2 DEF CInv, StartFinegrained
  <2> QED BY <1>0, <1>2, <2>1, StartReplay DEF HMainNext
<1>3. CASE HMainNext /\ RunCore /\ Bubble
  <2>1. UNCHANGED <<img, data, pc, reg, isBlocked, nInst>>
    BY <1>3 DEF Bubble, archVars
  <2>2. UNCHANGED <<loaded, exposed, stored>>
    BY <1>3, <2>1 DEF HMainNext, NoteUse, Used, ReplayInv, NoteTypes
  <2> QED BY <2>1, <2>2, QuietReplay
<1>4. CASE HMainNext /\ (FinishRun \/ Collect \/ Exit \/ Done)
  <2>1. UNCHANGED <<img, data, pc, reg, isBlocked, nInst>>
    BY <1>4 DEF FinishRun, Collect, Exit, Done, mvars, vars, archVars, schedVars
  <2>2. UNCHANGED <<loaded, exposed, stored>>
    BY <1>4, <2>1 DEF HMainNext, NoteUse, Used, ReplayInv, NoteTypes
  <2> QED BY <2>1, <2>2, QuietReplay
<1>5. CASE UNCHANGED allVars
  <2>1. UNCHANGED <<img, data, pc, reg, isBlocked, loaded, exposed, stored>>
    BY <1>5 DEF allVars, mvars, vars, archVars, schedVars, useVars
  <2> QED BY <2>1, QuietReplay
<1>6. RunCore => Issue \/ Bubble
  BY DEF RunCore, Next, FinegrainedIssue, FinegrainedIdle,
     BlockedIssueEvent, BlockedIssueOther, BlockedIdle, Terminated
<1> QED BY <1>1, <1>2, <1>3, <1>4, <1>5, <1>6 DEF HMainNext, MainNext

LEMMA NotesOnlyGrow ==
  ASSUME ReplayInv, HMainNext
  PROVE  Confined' => Confined
<1> DEFINE L == Used("LOAD")
           S == Used("STORE")
           E == L \ stored[cur]
<1>1. /\ loaded' = [loaded EXCEPT ![cur] = loaded[cur] \cup L]
      /\ exposed' = [exposed EXCEPT ![cur] = exposed[cur] \cup E]
      /\ stored' = [stored EXCEPT ![cur] = stored[cur] \cup S]
  BY DEF HMainNext, NoteUse
<1> HIDE DEF L, S, E
<1>2. \A t \in Threads : /\ loaded[t] \subseteq loaded'[t]
                         /\ exposed[t] \subseteq exposed'[t]
                         /\ stored[t] \subseteq stored'[t]
  BY <1>1 DEF ReplayInv, NoteTypes
<1> QED BY <1>2 DEF Confined

LEMMA StepSInv == SInv /\ [HMainNext]_allVars => SInv'
<1> SUFFICES ASSUME SInv, [HMainNext]_allVars PROVE SInv'
  OBVIOUS
<1>1. CInv' /\ PInv' /\ ReplayInv' /\ CInv /\ PInv /\ ReplayInv
  BY StepCInv, StepPInv, StepReplay DEF SInv
<1>2. /\ Confined' => Confined
      /\ img' = img
  <2>1. CASE UNCHANGED allVars
    BY <2>1 DEF allVars, mvars, vars, archVars, useVars, Confined
  <2>2. CASE HMainNext
    <3>1. img' = img
      BY <2>2 DEF HMainNext, MainNext, RunCore, FinishRun, Collect, StartFinegrained,
         ConstructFinegrained, Exit, Done, mvars, vars, archVars, Next, FinegrainedIssue,
         FinegrainedIdle, BlockedIssueEvent, BlockedIssueOther, BlockedIdle, Terminated,
         Issue, Bubble
    <3> QED BY <1>1, <2>2, <3>1, NotesOnlyGrow
  <2> QED BY <2>1, <2>2
<1>3. /\ isBlocked \in BOOLEAN /\ isBlocked' \in BOOLEAN
      /\ phase' = "collect" \/ final' = final
  <2>1. CASE UNCHANGED allVars
    BY <1>1, <2>1 DEF allVars, useVars, PInv, PrintTypes
  <2>2. CASE HMainNext
    BY <1>1, <2>2 DEF HMainNext, NoteUse, PInv, PrintTypes
  <2> QED BY <2>1, <2>2
<1>4. ASSUME Confined', ~isBlocked' PROVE EndedAlone(TRUE)'
  <2>1. CASE isBlocked
    <3>1. phase = "collect" /\ UNCHANGED final
      BY <1>4, <2>1 DEF HMainNext, MainNext, RunCore, FinishRun, Collect, StartFinegrained,
         Exit, Done, mvars, allVars, vars, archVars, schedVars, Next, FinegrainedIssue,
         FinegrainedIdle, BlockedIssueEvent, BlockedIssueOther, BlockedIdle, Terminated,
         Issue, Bubble, NoteUse
    <3>2. EndedAlone(isBlocked) /\ isBlocked = TRUE
      BY <1>1, <1>2, <1>3, <1>4, <2>1, <3>1, EndsAlone
    <3> QED BY <1>2, <3>1, <3>2, EndedStays
  <2>2. CASE ~isBlocked
    <3>1. EndedAlone(TRUE)
      BY <1>2, <1>4, <2>2 DEF SInv
    <3>2. final'[TRUE] = final[TRUE]
      <4>1. CASE UNCHANGED allVars
        BY <4>1 DEF allVars, useVars
      <4>2. CASE HMainNext
        <5>1. isBlocked = FALSE
          BY <1>3, <2>2
        <5> QED BY <1>1, <4>2, <5>1 DEF HMainNext, NoteUse, PInv, PrintTypes
      <4> QED BY <4>1, <4>2
    <3> QED BY <1>2, <3>1, <3>2, EndedStays
  <2> QED BY <2>1, <2>2
<1>5. ASSUME Confined', phase' = "done" PROVE EndedAlone(FALSE)'
  <2>1. CASE phase = "done"
    <3>1. EndedAlone(FALSE)
      BY <1>2, <1>5, <2>1 DEF SInv
    <3> QED BY <1>2, <1>3, <1>5, <3>1, EndedStays
  <2>2. CASE phase # "done"
    <3>1. phase = "collect" /\ ~isBlocked
      BY <1>5, <2>2 DEF HMainNext, MainNext, RunCore, FinishRun, Collect, StartFinegrained,
         Exit, Done, mvars, mainVars, allVars
    <3>2. EndedAlone(isBlocked) /\ isBlocked = FALSE
      BY <1>1, <1>2, <1>3, <1>5, <3>1, EndsAlone
    <3> QED BY <1>2, <1>3, <1>5, <3>2, EndedStays
  <2> QED BY <2>1, <2>2
<1> QED BY <1>1, <1>4, <1>5 DEF SInv

(***************************************************************************)
(* Where no thread loads what another one stores, nor a word before the    *)
(* run overwrites it, both simulations print the same registers, although  *)
(* they interleave the threads differently and main does not reset the     *)
(* memory between them: for any images, latencies and number of threads.   *)
(***************************************************************************)
THEOREM BothRunsPrintTheSame == HMainSpec => []SameResults
<1>1. HMainInit => SInv
  <2> SUFFICES ASSUME HMainInit PROVE SInv
    OBVIOUS
  <2>1. CInv
    <3>1. IInv
      BY InitIInv DEF HMainInit, MainInit
    <3>2. Counted
      BY CountedFresh DEF NothingExecuted, HMainInit, MainInit, Init, ArchInit
    <3> QED BY <3>1, <3>2 DEF HMainInit, MainInit, CInv
  <2>2. isBlocked /\ phase = "run"
    BY DEF HMainInit, MainInit
  <2> QED BY <2>1, <2>2, InitPInv, InitReplay DEF SInv
<1>2. SInv => SameResults
  <2> SUFFICES ASSUME SInv, phase = "done", Confined
               PROVE  printed[TRUE] = printed[FALSE]
    BY DEF SameResults
  <2>1. /\ printed[TRUE] = final[TRUE] /\ printed[FALSE] = final[FALSE]
        /\ final[TRUE] \in RegFiles /\ final[FALSE] \in RegFiles
    BY DEF SInv, PInv, PrintedSoFar, PrintTypes
  <2>2. EndedAlone(TRUE) /\ EndedAlone(FALSE)
    BY DEF SInv, PInv, PrintedSoFar
  <2>3. ASSUME NEW t \in Threads PROVE final[TRUE][t] = final[FALSE][t]
    <3>1. PICK n : EndsAt(t, n) /\ final[TRUE][t] = AloneIn(img, t, n).reg
      BY <2>2 DEF EndedAlone
    <3>2. PICK m : EndsAt(t, m) /\ final[FALSE][t] = AloneIn(img, t, m).reg
      BY <2>2 DEF EndedAlone
    <3>3. n = m
      BY <3>1, <3>2, EndIsUnique
    <3> QED BY <3>1, <3>2, <3>3
  <2> DEFINE a == final[TRUE]
             b == final[FALSE]
  <2>4. /\ a \in [Threads -> RegFile] /\ b \in [Threads -> RegFile]
        /\ \A t \in Threads : a[t] = b[t]
    BY <2>1, <2>3 DEF RegFiles
  <2>5. printed[TRUE] = a /\ printed[FALSE] = b
    BY <2>1
  <2> HIDE DEF a, b
  <2>6. a = b
    BY <2>4
  <2> QED BY <2>5, <2>6
<1> QED BY <1>1, <1>2, StepSInv, PTL DEF HMainSpec
=============================================================================
