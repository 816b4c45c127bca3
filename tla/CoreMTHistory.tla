--------------------------- MODULE CoreMTHistory ---------------------------
(***************************************************************************)
(* The core of CoreMT with history variables that remember which thread    *)
(* was served when.  They let the fairness and the cost of the two         *)
(* scheduling policies be stated; the core neither reads nor changes them. *)
(***************************************************************************)
EXTENDS CoreMT, FiniteSetsExt, SequencesExt

VARIABLES
  lastIssued,   \* the thread that issued last (thread 0 before any issue)
  switches,     \* how many times another thread than the last one issued
  overtaken     \* overtaken[t][u]: the turns that u took and t, free, did not

historyVars == <<lastIssued, switches, overtaken>>
hvars == <<vars, historyVars>>

\* What a thread remembers of the others when it has just been served.
NoTurns == [u \in Threads |-> 0]

HInit ==
  /\ Init
  /\ lastIssued = 0
  /\ switches = 0
  /\ overtaken = [t \in Threads |-> NoTurns]

Issues == nInst' # nInst

\* A turn: one instruction of the fine-grained core, and of the blocked core
\* a whole run of instructions of one thread.
NewTurn == Issues /\ (isBlocked => cur # lastIssued)

Remember ==
  /\ lastIssued' = IF Issues THEN cur ELSE lastIssued
  /\ switches' = IF Issues /\ cur # lastIssued THEN switches + 1 ELSE switches
  /\ overtaken' = [t \in Threads |->
        CASE Issues /\ t = cur -> NoTurns
          [] NewTurn /\ t # cur /\ Free(t, cycle) ->
               [overtaken[t] EXCEPT ![cur] = @ + 1]
          [] OTHER -> overtaken[t]]

HNext == Next /\ Remember

HSpec == HInit /\ [][HNext]_hvars

\* run_program_* is one thread of control that nothing stops.
HFairSpec == HSpec /\ WF_hvars(HNext)

-----------------------------------------------------------------------------
(***************************************************************************)
(* Nobody starves: a thread that could issue sees each of the others take  *)
(* at most one turn before its own comes, even one that is quick to be     *)
(* free again while a third one waits for its memory access.               *)
(***************************************************************************)
BoundedOvertaking == \A t, u \in Threads : overtaken[t][u] <= 1

(***************************************************************************)
(* The blocked core leaves a thread only for a reason: the thread it left  *)
(* has halted, or had to wait after its last instruction.                  *)
(***************************************************************************)
LeavesOnlyWaiting ==
  isBlocked /\ ~idle /\ ~AllHalted /\ cur # lastIssued =>
    \/ nInst = 0
    \/ halted[lastIssued]
    \/ Latency(curOp[lastIssued]) > 0

-----------------------------------------------------------------------------
\* The cycles the first k instructions of thread t take when each is issued
\* as soon as the one before it is over.
SerialTime(t, k) ==
  MapThenSumSet(LAMBDA j : 1 + Latency(img.prog[t][j].op), 1 .. k)

\* Penalties paid so far: one per switch, the one just begun included.
Penalties ==
  (switches + (IF ~idle /\ cur # lastIssued THEN 1 ELSE 0))
  * (IF isBlocked THEN img.switchCyc ELSE 0)

(***************************************************************************)
(* No instruction is issued before the ones it follows in its own thread   *)
(* are over: neither policy gains time by cutting a latency short.         *)
(***************************************************************************)
CriticalPath ==
  \A t \in Threads :
    pc[t] > 0 => startCycle[t] >= SerialTime(t, pc[t] - 1) + 1

(***************************************************************************)
(* Multithreading never loses time but for its penalties: running the      *)
(* programs one after the other, instruction by instruction, would have    *)
(* taken at least as long.  The core issues at most once in a cycle.       *)
(***************************************************************************)
NeverSlowerThanSerial ==
  /\ nInst <= cycle
  /\ ~AllHalted =>
       cycle <= MapThenSumSet(LAMBDA t : SerialTime(t, pc[t]), Threads)
                  + Penalties

-----------------------------------------------------------------------------
\* What thread t alone makes of its first k instructions: the reference that
\* an interleaved execution is compared with.
Alone(t, k) ==
  FoldLeft(LAMBDA s, i :
             [reg  |-> RegsAfter(i, s.reg, s.mem, img.dataStart),
              mem  |-> MemAfter(i, s.reg, s.mem, img.dataStart),
              uses |-> IF i.op \in MemoryOpcode
                       THEN s.uses \cup
                         {WordIndex(Address(i, s.reg), img.dataStart)}
                       ELSE s.uses],
           [reg |-> [r \in Reg |-> 0], mem |-> img.data, uses |-> {}],
           SubSeq(img.prog[t], 1, k))

\* No word of memory is used by two threads.
Private ==
  \A t, u \in Threads :
    t # u => Alone(t, pc[t]).uses \cap Alone(u, pc[u]).uses = {}

(***************************************************************************)
(* Interleaving is invisible to a thread that shares no word with another: *)
(* its registers are at each moment those of a run on its own, and so is   *)
(* its part of the memory.                                                 *)
(***************************************************************************)
PrivateThreadsAreIsolated ==
  Private =>
    \A t \in Threads :
      LET alone == Alone(t, pc[t]) IN
      /\ reg[t] = alone.reg
      /\ \A w \in alone.uses : data[w] = alone.mem[w]
=============================================================================
