--------------------------- MODULE CoreMT_proofs ---------------------------
(***************************************************************************)
(* Proofs about the core, for any number of threads, any images and any    *)
(* latencies: the scheduler never issues to a thread that may not run, it  *)
(* is never idle for nothing, no program is left through its end, and the  *)
(* core implements InterleavedThreads.  At the end, what is known of the   *)
(* run of a thread on its own, for the modules that compare with it.       *)
(***************************************************************************)
EXTENDS CoreMT, SequencesExt, RecursionTheorems

-----------------------------------------------------------------------------
\* Facts about the instruction set, for every size of the register file, the
\* memory and the machine word.

\* Wrapping around yields a word, and leaves a word as it is.
LEMMA WrapInWord ==
  ASSUME NEW x \in Int
  PROVE  Wrap(x) \in Word
  BY ISAAssumption DEF Wrap, Word

LEMMA ModSmall ==
  ASSUME NEW n \in Nat \ {0}, NEW x \in 0 .. n - 1
  PROVE  x % n = x /\ (x + n) % n = x
  OBVIOUS

LEMMA WrapOfWord ==
  ASSUME NEW x \in Word
  PROVE  Wrap(x) = x
<1>1. /\ 2 * HalfWord \in Nat \ {0}
      /\ x + HalfWord \in 0 .. 2 * HalfWord - 1
      /\ x \in Int /\ HalfWord \in Int
  BY ISAAssumption DEF Word
<1>2. (x + HalfWord) % (2 * HalfWord) = x + HalfWord
  BY <1>1, ModSmall
<1> QED BY <1>1, <1>2 DEF Wrap

\* The second operand of an instruction is a word.
LEMMA Src2InWord ==
  ASSUME NEW i \in Instruction, NEW r \in RegFile
  PROVE  Src2(i, r) \in Word
  BY DEF Src2, Instruction, RegFile

LEMMA FieldsOfInstruction ==
  ASSUME NEW i \in Instruction
  PROVE  i.op \in Opcode /\ i.dst \in Reg /\ i.src1 \in Reg
  BY DEF Instruction

\* A register file stays one whatever instruction is executed.
LEMMA RegsAfterType ==
  ASSUME NEW i \in Instruction, NEW r \in RegFile, NEW m \in Memory,
         NEW base \in Word, Defined(i, r, base)
  PROVE  RegsAfter(i, r, m, base) \in RegFile
<1>1. i.op \in Opcode /\ i.dst \in Reg /\ i.src1 \in Reg
  BY FieldsOfInstruction
<1>2. r[i.src1] \in Int /\ Src2(i, r) \in Int
  BY <1>1, Src2InWord, ISAAssumption DEF RegFile, Word
<1>3. CASE i.op \in {"NOP", "STORE", "HALT"}
  BY <1>3 DEF RegsAfter
<1>4. CASE i.op \in {"ADD", "ADDI", "SUB", "SUBI", "LOAD"}
  <2>1. Result(i, r, m, base) \in Word
    <3>1. CASE i.op \in {"ADD", "ADDI"}
      <4>1. Result(i, r, m, base) = Wrap(r[i.src1] + Src2(i, r))
        BY <3>1 DEF Result
      <4> QED BY <4>1, <1>2, WrapInWord
    <3>2. CASE i.op \in {"SUB", "SUBI"}
      <4>1. Result(i, r, m, base) = Wrap(r[i.src1] - Src2(i, r))
        BY <3>2 DEF Result
      <4> QED BY <4>1, <1>2, WrapInWord
    <3>3. CASE i.op = "LOAD"
      <4>1. Result(i, r, m, base) = m[WordIndex(Address(i, r), base)]
        BY <3>3 DEF Result
      <4>2. WordIndex(Address(i, r), base) \in 0 .. NWords - 1
        BY <3>3 DEF Defined, MemoryOpcode
      <4> QED BY <4>1, <4>2 DEF Memory
    <3> QED BY <1>4, <3>1, <3>2, <3>3
  <2>2. RegsAfter(i, r, m, base) = [r EXCEPT ![i.dst] = Result(i, r, m, base)]
    BY <1>4 DEF RegsAfter
  <2> QED BY <2>1, <2>2, <1>1 DEF RegFile
<1> QED BY <1>1, <1>3, <1>4 DEF Opcode

\* So does the memory.
LEMMA MemAfterType ==
  ASSUME NEW i \in Instruction, NEW r \in RegFile, NEW m \in Memory,
         NEW base \in Word
  PROVE  MemAfter(i, r, m, base) \in Memory
<1>1. r[i.src1] \in Word
  BY FieldsOfInstruction DEF RegFile
<1> QED BY <1>1 DEF MemAfter, Memory

-----------------------------------------------------------------------------
\* No thread that runs has a HALT among the instructions it has executed.
NoHaltBehind ==
  \A t \in Threads : ~halted[t] =>
    \A j \in 1 .. pc[t] : j \in DOMAIN img.prog[t] =>
                             img.prog[t][j].op # "HALT"

\* The inductive invariant.
IInv == TypeOK /\ NoHaltBehind /\ IssueSafe /\ IdleMeansNoneFree

-----------------------------------------------------------------------------
LEMMA ImageFields ==
  ASSUME NEW m \in Images, NEW t \in Threads
  PROVE  /\ m.loadLat \in Nat /\ m.storeLat \in Nat /\ m.switchCyc \in Nat
         /\ m.dataStart \in Word /\ m.data \in Memory
         /\ m.prog[t] \in Seq(Instruction)
         /\ \E j \in DOMAIN m.prog[t] : m.prog[t][j].op = "HALT"
  BY ImageAssumption DEF ImageType

LEMMA ThreadsFacts == 0 \in Threads /\ Threads \subseteq Nat
  BY ImageAssumption DEF Threads

\* The search of switch_thread stays among the threads and reaches them all.
LEMMA AfterInThreads ==
  ASSUME cur \in Threads, NEW d \in Nat
  PROVE  After(d) \in Threads
  BY ImageAssumption DEF After, Threads

LEMMA AfterCovers ==
  ASSUME cur \in Threads, NEW t \in Threads
  PROVE  \E d \in SearchOrder : After(d) = t
<1>1. NThreads \in Nat \ {0} /\ cur \in 0 .. NThreads - 1
                             /\ t \in 0 .. NThreads - 1
  BY ImageAssumption DEF Threads
<1>2. CASE t > cur
  <2>1. t - cur \in SearchOrder /\ cur + (t - cur) = t
    BY <1>1, <1>2 DEF SearchOrder
  <2>2. t % NThreads = t
    BY <1>1, ModSmall
  <2> QED BY <2>1, <2>2 DEF After
<1>3. CASE t <= cur
  <2>1. /\ t - cur + NThreads \in SearchOrder
        /\ cur + (t - cur + NThreads) = t + NThreads
    BY <1>1, <1>3 DEF SearchOrder
  <2>2. (t + NThreads) % NThreads = t
    BY <1>1, ModSmall
  <2> QED BY <2>1, <2>2 DEF After
<1> QED BY <1>1, <1>2, <1>3

\* What a call of switch_thread establishes: it finds a free thread, or it
\* stays where it is because there is none.
LEMMA SwitchFinds ==
  ASSUME cur \in Threads, NEW now \in Nat, SwitchThread(now)
  PROVE  /\ cur' \in Threads
         /\ idle' \in BOOLEAN
         /\ ~idle' => FreeNext(cur', now)
         /\ idle' => \A t \in Threads : ~FreeNext(t, now)
<1>1. CASE KeepCurrent(now) /\ cur' = cur /\ idle' = FALSE
  BY <1>1 DEF KeepCurrent, FreeNext
<1>2. CASE ~KeepCurrent(now) /\ TakeNextFree(now) /\ idle' = FALSE
  <2>1. PICK d \in SearchOrder : FreeNext(After(d), now) /\ cur' = After(d)
    BY <1>2 DEF TakeNextFree
  <2>2. After(d) \in Threads
    BY AfterInThreads, ImageAssumption DEF SearchOrder
  <2>3. FreeNext(cur', now)
    BY <2>1 DEF FreeNext
  <2> QED BY <1>2, <2>1, <2>2, <2>3
<1>3. CASE /\ \A d \in SearchOrder : ~FreeNext(After(d), now)
           /\ cur' = cur
           /\ idle' = TRUE
  <2> SUFFICES ASSUME NEW t \in Threads
               PROVE  ~FreeNext(t, now)
    BY <1>3
  <2>1. PICK d \in SearchOrder : After(d) = t
    BY AfterCovers
  <2>2. ~FreeNext(After(d), now)
    BY <1>3
  <2> QED BY <2>1, <2>2
<1> QED BY <1>1, <1>2, <1>3 DEF SwitchThread

-----------------------------------------------------------------------------
\* A running thread is inside its program.
LEMMA InProgram ==
  ASSUME TypeOK, NoHaltBehind, NEW t \in Threads, ~halted[t]
  PROVE  pc[t] + 1 \in DOMAIN img.prog[t]
<1>1. img.prog[t] \in Seq(Instruction) /\ pc[t] \in Nat
  BY ImageFields DEF TypeOK
<1>2. PICK j \in DOMAIN img.prog[t] : img.prog[t][j].op = "HALT"
  BY ImageFields DEF TypeOK
<1>3. j \notin 1 .. pc[t]
  BY <1>2 DEF NoHaltBehind
<1> QED BY <1>1, <1>2, <1>3

LEMMA FetchType ==
  ASSUME TypeOK, NoHaltBehind, NEW t \in Threads, ~halted[t]
  PROVE  Fetch(t) \in Instruction
<1>1. img.prog[t] \in Seq(Instruction)
  BY ImageFields DEF TypeOK
<1> QED BY <1>1, InProgram DEF Fetch

\* The architectural state keeps its type when a running thread executes.
LEMMA ExecuteType ==
  ASSUME TypeOK, NoHaltBehind, NEW t \in Threads, ~halted[t], Execute(t)
  PROVE  /\ reg' \in [Threads -> RegFile]
         /\ data' \in Memory
         /\ halted' \in [Threads -> BOOLEAN]
         /\ pc' \in [Threads -> Nat]
<1> DEFINE i == Fetch(t)
<1>1. i \in Instruction
  BY FetchType
<1>2. reg[t] \in RegFile /\ data \in Memory /\ img.dataStart \in Word
  BY ImageFields DEF TypeOK
<1>3. RegsAfter(i, reg[t], data, img.dataStart) \in RegFile
  BY <1>1, <1>2, RegsAfterType DEF Execute
<1>4. MemAfter(i, reg[t], data, img.dataStart) \in Memory
  BY <1>1, <1>2, MemAfterType
<1> QED BY <1>3, <1>4 DEF Execute, TypeOK

\* Executing a HALT marks the thread as halted, so none is left behind.
LEMMA ExecuteNoHaltBehind ==
  ASSUME TypeOK, NoHaltBehind, NEW t \in Threads, ~halted[t], Execute(t),
         UNCHANGED img
  PROVE  NoHaltBehind'
<1> SUFFICES ASSUME NEW u \in Threads, ~halted'[u],
                    NEW j \in 1 .. pc'[u], j \in DOMAIN img.prog[u]
             PROVE  img.prog[u][j].op # "HALT"
  BY DEF NoHaltBehind
<1>1. CASE u # t
  BY <1>1 DEF Execute, TypeOK, NoHaltBehind
<1>2. CASE u = t
  <2>1. pc'[t] = pc[t] + 1 /\ Fetch(t).op # "HALT"
    BY <1>2 DEF Execute, TypeOK
  <2>2. j \in 1 .. pc[t] \/ j = pc[t] + 1
    BY <1>2, <2>1 DEF TypeOK
  <2> QED BY <1>2, <2>1, <2>2 DEF Fetch, NoHaltBehind
<1> QED BY <1>1, <1>2

-----------------------------------------------------------------------------
LEMMA LatencyInNat ==
  ASSUME TypeOK, NEW op
  PROVE  Latency(op) \in Nat
  BY ImageFields, ThreadsFacts DEF TypeOK, Latency

\* What an issue leaves of the scheduler's data on the threads.
LEMMA IssueType ==
  ASSUME TypeOK, NoHaltBehind, IssueSafe, Issue
  PROVE  /\ ~halted[cur]
         /\ img' = img /\ isBlocked' = isBlocked
         /\ startCycle' \in [Threads -> Nat]
         /\ startCycle'[cur] = cycle + 1
         /\ curOp' \in [Threads -> Opcode]
         /\ curOp'[cur] = Fetch(cur).op
         /\ nInst' \in Nat
<1>1. ~halted[cur]
  BY DEF Issue, IssueSafe, Free
<1>2. Fetch(cur).op \in Opcode
  BY <1>1, FetchType, FieldsOfInstruction DEF TypeOK
<1> QED BY <1>1, <1>2 DEF Issue, TypeOK

\* The scheduler's promise carries over to a later cycle.
LEMMA FreeLater ==
  ASSUME TypeOK, NEW t \in Threads, NEW now \in Nat, NEW later \in Nat,
         startCycle' \in [Threads -> Nat],
         later >= now, FreeNext(t, now)
  PROVE  FreeNext(t, later)
<1>1. Latency(curOp'[t]) \in Nat
  BY LatencyInNat
<1> QED BY <1>1 DEF FreeNext

LEMMA NotFreeNow ==
  ASSUME img' = img, NEW t \in Threads, cycle' = cycle + 1,
         ~FreeNext(t, cycle + 1)
  PROVE  ~Free(t, cycle)'
  BY DEF FreeNext, Free, Latency

\* A step whose cycle ends with a call of switch_thread.
LEMMA AfterSwitch ==
  ASSUME TypeOK, img' = img, NEW penalty \in Nat,
         img' \in Images, data' \in Memory, pc' \in [Threads -> Nat],
         halted' \in [Threads -> BOOLEAN], reg' \in [Threads -> RegFile],
         isBlocked' \in BOOLEAN, nInst' \in Nat,
         startCycle' \in [Threads -> Nat], curOp' \in [Threads -> Opcode],
         SwitchThread(cycle + 1), cycle' = cycle + 1 + penalty,
         idle' => penalty = 0
  PROVE  TypeOK' /\ IssueSafe' /\ IdleMeansNoneFree'
<1>1. cycle + 1 \in Nat /\ cur \in Threads /\ cycle' \in Nat
  BY DEF TypeOK
<1>2. /\ cur' \in Threads
      /\ idle' \in BOOLEAN
      /\ ~idle' => FreeNext(cur', cycle + 1)
      /\ idle' => \A t \in Threads : ~FreeNext(t, cycle + 1)
  BY <1>1, SwitchFinds
<1>3. TypeOK'
  BY <1>1, <1>2 DEF TypeOK
<1>4. IssueSafe'
  <2>1. ~idle' => FreeNext(cur', cycle')
    BY <1>1, <1>2, FreeLater
  <2> QED BY <2>1 DEF IssueSafe, Free, FreeNext, Latency
<1>5. IdleMeansNoneFree'
  <2> SUFFICES ASSUME idle', NEW t \in Threads
               PROVE  ~Free(t, cycle)'
    BY DEF IdleMeansNoneFree
  <2>1. cycle' = cycle + 1 /\ ~FreeNext(t, cycle + 1)
    BY <1>1, <1>2
  <2> QED BY <2>1, NotFreeNow
<1> QED BY <1>3, <1>4, <1>5

-----------------------------------------------------------------------------
LEMMA InitIInv == Init => IInv
<1> SUFFICES ASSUME Init
             PROVE  IInv
  OBVIOUS
<1> USE DEF Init, ArchInit
<1>1. img \in Images /\ data \in Memory /\ 0 \in Word
  BY ImageFields, ThreadsFacts, ISAAssumption DEF Word
<1>2. TypeOK
  BY <1>1, ThreadsFacts DEF TypeOK, RegFile, Opcode
<1>3. NoHaltBehind
  BY DEF NoHaltBehind
<1>4. IssueSafe /\ IdleMeansNoneFree
  BY <1>2, ThreadsFacts DEF IssueSafe, IdleMeansNoneFree, Free, Latency
<1> QED BY <1>2, <1>3, <1>4 DEF IInv

\* The steps in which an instruction is issued and the scheduler called.
LEMMA IssueAndSwitch ==
  ASSUME IInv, Issue, SwitchThread(cycle + 1), NEW penalty \in Nat,
         cycle' = cycle + 1 + penalty, idle' => penalty = 0
  PROVE  IInv'
<1>1. ~halted[cur] /\ cur \in Threads
  BY IssueType DEF IInv, TypeOK
<1>2. NoHaltBehind'
  BY <1>1, ExecuteNoHaltBehind DEF IInv, Issue
<1>3. TypeOK' /\ IssueSafe' /\ IdleMeansNoneFree'
  BY <1>1, IssueType, ExecuteType, AfterSwitch DEF IInv, Issue, TypeOK
<1> QED BY <1>2, <1>3 DEF IInv

\* The steps in which nothing is issued and the scheduler is called.
LEMMA BubbleAndSwitch ==
  ASSUME IInv, Bubble, SwitchThread(cycle + 1), NEW penalty \in Nat,
         cycle' = cycle + 1 + penalty, idle' => penalty = 0
  PROVE  IInv'
<1>1. NoHaltBehind'
  BY DEF IInv, Bubble, NoHaltBehind, archVars
<1>2. TypeOK' /\ IssueSafe' /\ IdleMeansNoneFree'
  BY AfterSwitch DEF IInv, Bubble, TypeOK, archVars
<1> QED BY <1>1, <1>2 DEF IInv

\* A blocked core that stays with its thread after a NOP or an arithmetic
\* instruction: the thread has not halted and has nothing to wait for.
LEMMA StayWithThread ==
  ASSUME IInv, BlockedIssueOther
  PROVE  IInv'
<1> USE DEF BlockedIssueOther
<1>1. /\ ~halted[cur] /\ cur \in Threads /\ cycle \in Nat
      /\ IF Fetch(cur).op = "HALT" THEN FALSE ELSE TRUE
      /\ Latency(Fetch(cur).op) = 0
  BY IssueType DEF IInv, TypeOK, IsEvent, Latency
<1>2. NoHaltBehind'
  BY <1>1, ExecuteNoHaltBehind DEF IInv, Issue
<1>3. TypeOK'
  BY <1>1, IssueType, ExecuteType DEF IInv, Issue, TypeOK
<1>4. ~halted'[cur] /\ cycle' - startCycle'[cur] >= Latency(curOp'[cur])
  BY <1>1, IssueType DEF IInv, Issue, Execute, TypeOK
<1>5. IssueSafe' /\ IdleMeansNoneFree'
  BY <1>4, IssueType DEF IInv, Issue, IssueSafe, IdleMeansNoneFree, Free,
                          Latency
<1> QED BY <1>2, <1>3, <1>5 DEF IInv

LEMMA PenaltyFacts ==
  ASSUME TypeOK
  PROVE  SwitchPenalty \in Nat /\ (idle' => SwitchPenalty = 0)
  BY ImageFields, ThreadsFacts DEF SwitchPenalty, TypeOK

LEMMA NextIInv == IInv /\ [Next]_vars => IInv'
<1> SUFFICES ASSUME IInv, [Next]_vars
             PROVE  IInv'
  OBVIOUS
<1>1. CASE FinegrainedIssue
  BY <1>1, IssueAndSwitch DEF FinegrainedIssue, FinegrainedTick, IInv, TypeOK
<1>2. CASE FinegrainedIdle
  BY <1>2, BubbleAndSwitch DEF FinegrainedIdle, FinegrainedTick, IInv, TypeOK
<1>3. CASE BlockedIssueEvent
  BY <1>3, IssueAndSwitch, PenaltyFacts
  DEF BlockedIssueEvent, BlockedSwitch, IInv
<1>4. CASE BlockedIssueOther
  BY <1>4, StayWithThread
<1>5. CASE BlockedIdle
  BY <1>5, BubbleAndSwitch, PenaltyFacts DEF BlockedIdle, BlockedSwitch, IInv
<1>6. CASE UNCHANGED vars
  <2>1. TypeOK'
    BY <1>6 DEF IInv, TypeOK, vars, archVars, schedVars
  <2>2. NoHaltBehind'
    BY <1>6 DEF IInv, NoHaltBehind, vars, archVars, schedVars
  <2>3. IssueSafe' /\ IdleMeansNoneFree'
    BY <1>6 DEF IInv, IssueSafe, IdleMeansNoneFree, Free, Latency, AllHalted,
                vars, archVars, schedVars
  <2> QED BY <2>1, <2>2, <2>3 DEF IInv
<1> QED BY <1>1, <1>2, <1>3, <1>4, <1>5, <1>6 DEF Next, Terminated

(***************************************************************************)
(* The invariant that carries all the others: types, programs that are not *)
(* run past their HALT, and the two promises of switch_thread.             *)
(***************************************************************************)
THEOREM InductiveInvariant == Spec => []IInv
  BY InitIInv, NextIInv, PTL DEF Spec

(***************************************************************************)
(* The variables of the core keep their types.                             *)
(***************************************************************************)
THEOREM TypeCorrect == Spec => []TypeOK
<1>1. IInv => TypeOK
  BY DEF IInv
<1> QED BY <1>1, InductiveInvariant, PTL

(***************************************************************************)
(* The loops of run_program only issue from a thread that has not halted   *)
(* and whose last instruction is over, in both modes, whatever latencies   *)
(* and penalties the image asks for.                                       *)
(***************************************************************************)
THEOREM NeverIssuesBusyThread == Spec => []IssueSafe
<1>1. IInv => IssueSafe
  BY DEF IInv
<1> QED BY <1>1, InductiveInvariant, PTL

(***************************************************************************)
(* The core is idle only when no thread could issue: once around from the  *)
(* current thread, switch_thread has seen every thread.                    *)
(***************************************************************************)
THEOREM NeverIdleInVain == Spec => []IdleMeansNoneFree
<1>1. IInv => IdleMeansNoneFree
  BY DEF IInv
<1> QED BY <1>1, InductiveInvariant, PTL

(***************************************************************************)
(* SIM_MemInstRead is never asked for an instruction beyond a program that *)
(* holds a HALT.                                                           *)
(***************************************************************************)
THEOREM StaysInProgram == Spec => []FetchInProgram
<1>1. IInv => FetchInProgram
  <2> SUFFICES ASSUME IInv, NEW t \in Threads, ~halted[t]
               PROVE  pc[t] < Len(img.prog[t])
    BY DEF FetchInProgram
  <2>1. img.prog[t] \in Seq(Instruction) /\ pc[t] \in Nat
    BY ImageFields DEF IInv, TypeOK
  <2> QED BY <2>1, InProgram DEF IInv
<1> QED BY <1>1, InductiveInvariant, PTL

(***************************************************************************)
(* Scheduling is invisible to the programs: whatever the mode, the core    *)
(* only ever executes the next instruction of a thread that has not        *)
(* halted, one at a time.                                                  *)
(***************************************************************************)
THEOREM CoreImplementsThreads == Spec => ArchSpec
<1>1. Init => ArchInit
  BY DEF Init
<1>2. IInv /\ [Next]_vars => [ArchNext]_archVars
  <2> SUFFICES ASSUME IInv, [Next]_vars
               PROVE  [ArchNext]_archVars
    OBVIOUS
  <2>1. ASSUME Issue PROVE ArchNext
    BY <2>1, IssueType DEF IInv, TypeOK, Issue, ArchNext, Step
  <2>2. ASSUME Bubble PROVE UNCHANGED archVars
    BY <2>2 DEF Bubble
  <2> QED
    BY <2>1, <2>2 DEF Next, FinegrainedIssue, FinegrainedIdle,
       BlockedIssueEvent, BlockedIssueOther, BlockedIdle, Terminated, vars
<1> QED BY <1>1, <1>2, InductiveInvariant, PTL DEF Spec, ArchSpec

-----------------------------------------------------------------------------
\* A run of a thread on its own, one instruction after the other.

FirstOf(m) == [reg |-> [r \in Reg |-> 0], mem |-> m.data, uses |-> {}]
Effect(m, s, i) ==
  [reg  |-> RegsAfter(i, s.reg, s.mem, m.dataStart),
   mem  |-> MemAfter(i, s.reg, s.mem, m.dataStart),
   uses |-> IF i.op \in MemoryOpcode
            THEN s.uses \cup {WordIndex(Address(i, s.reg), m.dataStart)}
            ELSE s.uses]

RunOf(m, seq) == FoldLeft(LAMBDA s, i : Effect(m, s, i), FirstOf(m), seq)
AloneIn(m, t, k) == RunOf(m, SubSeq(m.prog[t], 1, k))

RunIs(f, m, seq) ==
  f = [s \in SUBSET DOMAIN seq |->
         IF s = {} THEN FirstOf(m) ELSE Effect(m, f[s \ {Max(s)}], seq[Max(s)])]

RunsBy(f, m, seq) ==
  /\ RunOf(m, seq) = f[1..Len(seq)]
  /\ f[1..0] = FirstOf(m)
  /\ \A j \in 1..Len(seq) : f[1..j] = Effect(m, f[1..(j-1)], seq[j])

\* The states of a run are put together from its beginning.
LEMMA RunExists ==
  ASSUME NEW N \in Nat, NEW seq, DOMAIN seq = 1..N, NEW m
  PROVE  \E f : RunIs(f, m, seq)
<1> DEFINE IsRun(f, n) ==
             f = [s \in SUBSET (1..n) |->
                    IF s = {} THEN FirstOf(m) ELSE Effect(m, f[s \ {Max(s)}], seq[Max(s)])]
           T == {n \in Nat : \E f : IsRun(f, n)}
<1>1. 0 \in T
  <2> DEFINE f == [s \in SUBSET (1..0) |-> FirstOf(m)]
  <2>1. \A s \in SUBSET (1..0) : s = {}
    OBVIOUS
  <2>2. IsRun(f, 0)
    BY <2>1
  <2> QED BY <2>2
<1>2. ASSUME NEW n \in Nat, n \in T PROVE n + 1 \in T
  <2>1. PICK f : IsRun(f, n)
    BY <1>2
  <2> DEFINE g == [s \in SUBSET (1..(n+1)) |->
                     IF n + 1 \in s THEN Effect(m, f[s \ {n + 1}], seq[n + 1]) ELSE f[s]]
  <2>2. ASSUME NEW s \in SUBSET (1..(n+1)), n + 1 \in s
        PROVE  /\ Max(s) = n + 1 /\ s \ {n + 1} \in SUBSET (1..n)
               /\ n + 1 \notin s \ {n + 1} /\ s \ {n + 1} \in SUBSET (1..(n+1))
    <3>1. s \subseteq Nat /\ \A y \in s : n + 1 >= y
      OBVIOUS
    <3>2. Max(s) = n + 1
      BY <2>2, <3>1, MaxIs
    <3>3. s \ {n + 1} \in SUBSET (1..n)
      OBVIOUS
    <3> QED BY <3>2, <3>3
  <2>3. ASSUME NEW s \in SUBSET (1..(n+1)), n + 1 \notin s
        PROVE  /\ s \in SUBSET (1..n)
               /\ s # {} => /\ Max(s) \in 1..n /\ s \ {Max(s)} \in SUBSET (1..n)
                            /\ s \ {Max(s)} \in SUBSET (1..(n+1))
                            /\ n + 1 \notin s \ {Max(s)}
    <3>1. s \in SUBSET (1..n)
      BY <2>3
    <3> QED BY <2>3, <3>1, MaxOfSubset
  <2>4. \A s \in SUBSET (1..n) : n + 1 \notin s /\ s \in SUBSET (1..(n+1))
    OBVIOUS
  <2>5. \A s \in SUBSET (1..n) :
          f[s] = IF s = {} THEN FirstOf(m) ELSE Effect(m, f[s \ {Max(s)}], seq[Max(s)])
    BY <2>1
  <2>6. \A s \in SUBSET (1..n) : g[s] = f[s]
    BY <2>4
  <2>7. ASSUME NEW s \in SUBSET (1..(n+1))
        PROVE  g[s] = IF s = {} THEN FirstOf(m) ELSE Effect(m, g[s \ {Max(s)}], seq[Max(s)])
    <3>1. CASE n + 1 \in s
      <4>1. g[s] = Effect(m, f[s \ {n + 1}], seq[n + 1])
        BY <3>1
      <4> HIDE DEF g
      <4> QED BY <2>2, <2>6, <3>1, <4>1
    <3>2. CASE n + 1 \notin s
      <4> HIDE DEF g
      <4>1. g[s] = f[s] /\ s \in SUBSET (1..n)
        BY <2>3, <2>6, <3>2
      <4>2. s # {} => g[s \ {Max(s)}] = f[s \ {Max(s)}]
        BY <2>3, <2>6, <3>2
      <4> QED BY <2>5, <4>1, <4>2
    <3> QED BY <3>1, <3>2
  <2>8. g = [s \in SUBSET (1..(n+1)) |-> g[s]]
    OBVIOUS
  <2> HIDE DEF g
  <2>9. IsRun(g, n + 1)
    BY <2>7, <2>8
  <2>10. \E h : IsRun(h, n + 1)
    <3> HIDE DEF IsRun
    <3> QED BY <2>9
  <2> HIDE DEF IsRun
  <2> QED BY <2>10
<1>3. N \in T
  <2> HIDE DEF T
  <2>1. Nat \subseteq T
    BY <1>1, <1>2, Induction
  <2> QED BY <2>1
<1>4. PICK f : IsRun(f, N)
  BY <1>3
<1> QED BY <1>4 DEF RunIs

LEMMA RunUnfolds ==
  ASSUME NEW N \in Nat, NEW seq, DOMAIN seq = 1..N, Len(seq) = N, NEW m
  PROVE  \E f : RunsBy(f, m, seq)
<1>1. RunOf(m, seq) = (CHOOSE f : RunIs(f, m, seq))[DOMAIN seq]
  BY DEF RunOf, RunIs, FoldLeft, MapThenFoldSet
<1>2. \E f : RunIs(f, m, seq)
  BY RunExists
<1>3. PICK f : RunIs(f, m, seq) /\ RunOf(m, seq) = f[1..N]
  BY <1>1, <1>2
<1>4. \A s \in SUBSET (1..N) :
        f[s] = IF s = {} THEN FirstOf(m) ELSE Effect(m, f[s \ {Max(s)}], seq[Max(s)])
  BY <1>3 DEF RunIs
<1>5. f[1..0] = FirstOf(m)
  BY <1>4, Segments
<1>6. ASSUME NEW j \in 1..N
      PROVE  f[1..j] = Effect(m, f[1..(j-1)], seq[j])
  <2>1. 1..j \in SUBSET (1..N) /\ 1..j # {} /\ Max(1..j) = j /\ (1..j) \ {j} = 1..(j-1)
    BY Segments
  <2> QED BY <1>4, <2>1
<1>7. RunsBy(f, m, seq)
  BY <1>3, <1>5, <1>6 DEF RunsBy
<1> QED BY <1>7

\* One instruction more.
LEMMA AloneNext ==
  ASSUME NEW m \in Images, NEW t \in Threads, NEW k \in Nat, k < Len(m.prog[t])
  PROVE  /\ AloneIn(m, t, 0) = FirstOf(m)
         /\ AloneIn(m, t, k + 1) = Effect(m, AloneIn(m, t, k), m.prog[t][k + 1])
<1> DEFINE p == m.prog[t]
           short == SubSeq(p, 1, k)
           long == SubSeq(p, 1, k + 1)
           none == SubSeq(p, 1, 0)
<1>1. p \in Seq(Instruction) /\ Len(p) \in Nat
  BY ImageFields
<1>2. /\ DOMAIN short = 1..k /\ Len(short) = k
      /\ DOMAIN long = 1..(k+1) /\ Len(long) = k + 1
      /\ DOMAIN none = 1..0 /\ Len(none) = 0
      /\ \A j \in 1..k : short[j] = p[j]
      /\ \A j \in 1..(k+1) : long[j] = p[j]
  <2> HIDE DEF p
  <2> QED BY <1>1
<1> HIDE DEF p, short, long, none
<1>a. PICK f : RunsBy(f, m, short)
  BY <1>2, RunUnfolds
<1>b. PICK g : RunsBy(g, m, long)
  <2>1. k + 1 \in Nat
    OBVIOUS
  <2> QED BY <1>2, <2>1, RunUnfolds
<1>c. PICK h : RunsBy(h, m, none)
  <2>1. 0 \in Nat
    OBVIOUS
  <2> QED BY <1>2, <2>1, RunUnfolds
<1>3. /\ RunOf(m, short) = f[1..k] /\ f[1..0] = FirstOf(m)
      /\ \A j \in 1..k : f[1..j] = Effect(m, f[1..(j-1)], p[j])
  BY <1>2, <1>a DEF RunsBy
<1>4. /\ RunOf(m, long) = g[1..(k+1)] /\ g[1..0] = FirstOf(m)
      /\ \A j \in 1..(k+1) : g[1..j] = Effect(m, g[1..(j-1)], p[j])
  BY <1>2, <1>b DEF RunsBy
<1>5. RunOf(m, none) = FirstOf(m)
  BY <1>2, <1>c DEF RunsBy
<1> DEFINE T == {j \in Nat : j <= k => f[1..j] = g[1..j]}
<1>6. 0 \in T
  BY <1>3, <1>4
<1>7. ASSUME NEW j \in Nat, j \in T PROVE j + 1 \in T
  <2> SUFFICES ASSUME j + 1 <= k PROVE f[1..(j+1)] = g[1..(j+1)]
    OBVIOUS
  <2>1. j + 1 \in 1..k /\ j + 1 \in 1..(k+1) /\ (j + 1) - 1 = j /\ j <= k
    OBVIOUS
  <2>2. f[1..j] = g[1..j]
    BY <1>7, <2>1
  <2>3. f[1..(j+1)] = Effect(m, f[1..j], p[j+1])
    BY <1>3, <2>1
  <2>4. g[1..(j+1)] = Effect(m, g[1..j], p[j+1])
    BY <1>4, <2>1
  <2> QED BY <2>2, <2>3, <2>4
<1>8. f[1..k] = g[1..k]
  <2>1. Nat \subseteq T
    <3> HIDE DEF T
    <3> QED BY <1>6, <1>7, Induction
  <2>2. k \in T /\ k <= k
    BY <2>1
  <2> QED BY <2>2
<1>9. g[1..(k+1)] = Effect(m, g[1..k], p[k+1])
  <2>1. k + 1 \in 1..(k+1) /\ (k + 1) - 1 = k
    OBVIOUS
  <2> QED BY <1>4, <2>1
<1> QED BY <1>3, <1>4, <1>5, <1>8, <1>9 DEF AloneIn, p, short, long, none
=============================================================================
