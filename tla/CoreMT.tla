------------------------------- MODULE CoreMT -------------------------------
(***************************************************************************)
(* The multithreaded core of HW4 (core_api.cpp): one Thread_Handler runs   *)
(* all the threads of a memory image in one of two modes.                  *)
(*                                                                         *)
(*   - fine-grained: after every cycle the core goes on to the next thread *)
(*     in cyclic order that is free;                                       *)
(*   - blocked: the core stays with its thread until that thread executes  *)
(*     a LOAD, a STORE or a HALT, and pays switchCyc cycles when it leaves *)
(*     for another one.                                                    *)
(*                                                                         *)
(* One step of the specification is one iteration of the while loop of     *)
(* run_program_finegrained or run_program_blocked: a cycle, with the       *)
(* instruction issued in it (if any) and the choice of the thread that     *)
(* comes next.  A thread that waits for its memory access is busy until    *)
(* the latency has passed; when every thread is busy the core is idle.     *)
(***************************************************************************)
EXTENDS InterleavedThreads

VARIABLES
  isBlocked,    \* the mode, fixed when the handler is constructed
  cycle,        \* current_cycle
  nInst,        \* N_instructions
  cur,          \* current_thread_id (and current_thread, which follows it)
  idle,         \* is_idle, the local variable of both loops
  startCycle,   \* start_cycle of each thread's current instruction
  curOp         \* opcode of each thread's current instruction

schedVars == <<isBlocked, cycle, nInst, cur, idle, startCycle, curOp>>
vars == <<archVars, schedVars>>

\* The state the constructors of Thread_Handler and Thread leave.
Init ==
  /\ ArchInit
  /\ isBlocked \in BOOLEAN
  /\ cycle = 0
  /\ nInst = 0
  /\ cur = 0
  /\ idle = FALSE
  /\ startCycle = [t \in Threads |-> 0]
  /\ curOp = [t \in Threads |-> "NOP"]

\* all_halted.  Faulty variant: one halted thread is enough.
SomeHalted == \E t \in Threads : halted[t]

AllHalted == \A t \in Threads : halted[t]

\* The cycles a thread waits after an instruction before it may issue again.
Latency(op) == IF op = "LOAD" THEN img.loadLat
               ELSE IF op = "STORE" THEN img.storeLat ELSE 0

\* Thread t may issue in cycle now.
Free(t, now) == ~halted[t] /\ now - startCycle[t] >= Latency(curOp[t])

(***************************************************************************)
(* The same test made by switch_thread, after the issue of the cycle has   *)
(* changed the state of the current thread.  Faulty variants: without the  *)
(* test of is_halted; without the wait for the latency.                    *)
(***************************************************************************)
FreeNextEvenHalted(t, now) == now - startCycle'[t] >= Latency(curOp'[t])
FreeNextAtOnce(t, now) == ~halted'[t] /\ now >= startCycle'[t]

FreeNext(t, now) == ~halted'[t] /\ now - startCycle'[t] >= Latency(curOp'[t])

\* The thread that comes d places after the current one.
After(d) == (cur + d) % NThreads

\* How far switch_thread looks: once around, the current thread coming last.
\* Faulty variant: the current thread is never looked at.
SearchOthers == 1 .. NThreads - 1

SearchOrder == 1 .. NThreads

-----------------------------------------------------------------------------
(***************************************************************************)
(* switch_thread, called when current_cycle is now.  Faulty variants: the  *)
(* blocked core does not stay with its thread; the search starts at thread *)
(* 0 instead of the thread after the current one.                          *)
(***************************************************************************)
KeepNever(now) == FALSE
KeepCurrent(now) == isBlocked /\ FreeNext(cur, now)

TakeLowest(now) ==
  \E t \in Threads : /\ FreeNext(t, now)
                     /\ \A u \in 0 .. t - 1 : ~FreeNext(u, now)
                     /\ cur' = t

TakeNextFree(now) ==
  \E d \in SearchOrder : /\ FreeNext(After(d), now)
                         /\ \A e \in 1 .. d - 1 : ~FreeNext(After(e), now)
                         /\ cur' = After(d)

SwitchThread(now) ==
  \/ KeepCurrent(now) /\ cur' = cur /\ idle' = FALSE
  \/ ~KeepCurrent(now) /\ TakeNextFree(now) /\ idle' = FALSE
  \/ /\ ~KeepCurrent(now)
     /\ \A d \in SearchOrder : ~FreeNext(After(d), now)
     /\ cur' = cur
     /\ idle' = TRUE

-----------------------------------------------------------------------------
\* The current thread executes one instruction (Thread::execute_inst).
Issue ==
  /\ ~AllHalted
  /\ ~idle
  /\ Execute(cur)
  /\ startCycle' = [startCycle EXCEPT ![cur] = cycle + 1]
  /\ curOp' = [curOp EXCEPT ![cur] = Fetch(cur).op]
  /\ nInst' = nInst + 1
  /\ UNCHANGED <<img, isBlocked>>

\* A cycle in which every thread was found busy.
Bubble ==
  /\ ~AllHalted
  /\ idle
  /\ UNCHANGED <<archVars, isBlocked, startCycle, curOp, nInst>>

FinegrainedTick ==
  /\ ~isBlocked
  /\ cycle' = cycle + 1
  /\ SwitchThread(cycle + 1)

FinegrainedIssue == Issue /\ FinegrainedTick

FinegrainedIdle == Bubble /\ FinegrainedTick

\* The penalty is paid when the scheduler leaves for a different thread.
\* Faulty variant: it is paid whoever comes next.
PenaltyAlways == IF ~idle' THEN img.switchCyc ELSE 0

SwitchPenalty == IF ~idle' /\ cur' # cur THEN img.switchCyc ELSE 0

BlockedSwitch ==
  /\ isBlocked
  /\ SwitchThread(cycle + 1)
  /\ cycle' = cycle + 1 + SwitchPenalty

\* An event: the instructions after which the blocked core looks around.
IsEvent(op) == op \in {"LOAD", "STORE", "HALT"}

BlockedIssueEvent == Issue /\ IsEvent(Fetch(cur).op) /\ BlockedSwitch

BlockedIssueOther ==
  /\ isBlocked
  /\ Issue
  /\ ~IsEvent(Fetch(cur).op)
  /\ cycle' = cycle + 1
  /\ UNCHANGED <<cur, idle>>

BlockedIdle == Bubble /\ BlockedSwitch

\* run_program has returned; the handler keeps its last state.
Terminated == AllHalted /\ UNCHANGED vars

Next ==
  \/ FinegrainedIssue
  \/ FinegrainedIdle
  \/ BlockedIssueEvent
  \/ BlockedIssueOther
  \/ BlockedIdle
  \/ Terminated

Spec == Init /\ [][Next]_vars

\* The loops of run_program go on until every thread has halted.
FairSpec == Spec /\ WF_vars(Next)
-----------------------------------------------------------------------------
(***************************************************************************)
(* Types.  cycle, nInst and the program counters grow with the programs,   *)
(* which are finite.                                                       *)
(***************************************************************************)
TypeOK ==
  /\ img \in Images
  /\ data \in Memory
  /\ pc \in [Threads -> Nat]
  /\ halted \in [Threads -> BOOLEAN]
  /\ reg \in [Threads -> RegFile]
  /\ isBlocked \in BOOLEAN
  /\ cycle \in Nat
  /\ nInst \in Nat
  /\ cur \in Threads
  /\ idle \in BOOLEAN
  /\ startCycle \in [Threads -> Nat]
  /\ curOp \in [Threads -> Opcode]

(***************************************************************************)
(* The loops issue whatever current_thread is when is_idle is FALSE: then  *)
(* it must be a thread that has not halted and whose last memory access is *)
(* over, however many cycles a penalty or an idle period added meanwhile.  *)
(***************************************************************************)
IssueSafe == ~AllHalted /\ ~idle => Free(cur, cycle)

(***************************************************************************)
(* The core is idle only while no thread at all could issue: the search of *)
(* switch_thread overlooks nobody, the current thread included.            *)
(***************************************************************************)
IdleMeansNoneFree == idle => \A t \in Threads : ~Free(t, cycle)

(***************************************************************************)
(* A thread that has not halted is still inside its program: run_program   *)
(* never fetches an instruction the image does not define.                 *)
(***************************************************************************)
FetchInProgram == \A t \in Threads : ~halted[t] => pc[t] < Len(img.prog[t])

(***************************************************************************)
(* Every thread halts, so the loops of run_program end in both modes.      *)
(***************************************************************************)
Termination == <>[](\A t \in Threads : halted[t])
=============================================================================
