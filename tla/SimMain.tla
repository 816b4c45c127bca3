------------------------------ MODULE SimMain ------------------------------
(***************************************************************************)
(* The whole simulator of HW4 (main.c): the image is loaded once, then the *)
(* programs run on the blocked core and, after that, on the fine-grained   *)
(* one.  After each run the register files are fetched thread by thread    *)
(* through CORE_BlockedMT_CTX or CORE_FinegrainedMT_CTX and printed, and   *)
(* the CPI of the run is printed last.                                     *)
(*                                                                         *)
(* The two runs share the data memory of sim_api.c.  SIM_MemReset is not   *)
(* called between them: the fine-grained run starts from the memory that   *)
(* the blocked run has left behind.                                        *)
(***************************************************************************)
EXTENDS CoreMT

VARIABLES
  phase,      \* "run", "collect" or "done"
  k,          \* the thread whose registers are fetched and printed next
  context,    \* context[b]: the array blocked (b = TRUE) or finegrained
  printed,    \* printed[b][t]: the registers printed for thread t, or Blank
  cpi         \* cpi[b]: numerator and denominator of the CPI printed

Blank == [cycles |-> 0, insts |-> 0]

mainVars == <<phase, k, context, printed, cpi>>
mvars == <<vars, mainVars>>

ZeroRegs == [r \in Reg |-> 0]

\* CORE_BlockedMT has just constructed its handler.
MainInit ==
  /\ Init
  /\ isBlocked = TRUE
  /\ phase = "run"
  /\ k = 0
  /\ context = [b \in BOOLEAN |-> [t \in Threads |-> ZeroRegs]]
  /\ printed = [b \in BOOLEAN |-> [t \in Threads |-> ZeroRegs]]
  /\ cpi = [b \in BOOLEAN |-> Blank]

\* One cycle of the core.
RunCore ==
  /\ phase = "run"
  /\ ~AllHalted
  /\ Next
  /\ UNCHANGED mainVars

\* run_program returns to main.
FinishRun ==
  /\ phase = "run"
  /\ AllHalted
  /\ phase' = "collect"
  /\ k' = 0
  /\ UNCHANGED <<vars, context, printed, cpi>>

(***************************************************************************)
(* The CTX functions copy the registers of the thread they are asked for   *)
(* into every element of the array they are given; main then prints the    *)
(* element of that thread.  Faulty variant: only the first element of the  *)
(* array is written.                                                       *)
(***************************************************************************)
CTXFirst(array, t) == [array EXCEPT ![0] = reg[t]]

CTX(array, t) == [u \in Threads |-> reg[t]]

\* Faulty variant: the loop does not go on to the next thread.
CollectSame ==
  /\ phase = "collect"
  /\ k < NThreads
  /\ context' = [context EXCEPT ![isBlocked] = CTX(context[isBlocked], k)]
  /\ printed' = [printed EXCEPT ![isBlocked][k] = context'[isBlocked][k]]
  /\ UNCHANGED <<vars, phase, k, cpi>>

Collect ==
  /\ phase = "collect"
  /\ k < NThreads
  /\ context' = [context EXCEPT ![isBlocked] = CTX(context[isBlocked], k)]
  /\ printed' = [printed EXCEPT ![isBlocked][k] = context'[isBlocked][k]]
  /\ k' = k + 1
  /\ UNCHANGED <<vars, phase, cpi>>

ReportCPI ==
  cpi' = [cpi EXCEPT ![isBlocked] = [cycles |-> cycle, insts |-> nInst]]

(***************************************************************************)
(* CORE_FinegrainedMT constructs a new handler with new threads; data[] is *)
(* left as it is.  Faulty variants: the registers of the blocked run are   *)
(* kept; its counters are.                                                 *)
(***************************************************************************)
KeptRegs == UNCHANGED reg
FreshRegs == reg' = [t \in Threads |-> ZeroRegs]

KeptCounters == UNCHANGED <<cycle, nInst>>
FreshCounters == cycle' = 0 /\ nInst' = 0

ConstructFinegrained ==
  /\ isBlocked' = FALSE
  /\ pc' = [t \in Threads |-> 0]
  /\ halted' = [t \in Threads |-> FALSE]
  /\ FreshRegs
  /\ FreshCounters
  /\ cur' = 0
  /\ idle' = FALSE
  /\ startCycle' = [t \in Threads |-> 0]
  /\ curOp' = [t \in Threads |-> "NOP"]
  /\ UNCHANGED <<img, data>>

StartFinegrained ==
  /\ phase = "collect"
  /\ k = NThreads
  /\ isBlocked
  /\ ReportCPI
  /\ ConstructFinegrained
  /\ phase' = "run"
  /\ UNCHANGED <<k, context, printed>>

Exit ==
  /\ phase = "collect"
  /\ k = NThreads
  /\ ~isBlocked
  /\ ReportCPI
  /\ phase' = "done"
  /\ UNCHANGED <<vars, k, context, printed>>

Done == phase = "done" /\ UNCHANGED mvars

MainNext ==
  RunCore \/ FinishRun \/ Collect \/ StartFinegrained \/ Exit \/ Done

MainSpec == MainInit /\ [][MainNext]_mvars

-----------------------------------------------------------------------------
(***************************************************************************)
(* The simulator ends with the results of both runs printed: main gets     *)
(* from one run to the next and past the last one.                         *)
(***************************************************************************)
Completes == <>(phase = "done" /\ \A b \in BOOLEAN : cpi[b] # Blank)

(***************************************************************************)
(* Both cores execute the same instructions, so that the two CPIs printed  *)
(* divide by the same number; a CPI below one is never printed.            *)
(***************************************************************************)
CPIsComparable ==
  phase = "done" =>
    /\ cpi[TRUE].insts = cpi[FALSE].insts
    /\ \A b \in BOOLEAN : cpi[b].cycles >= cpi[b].insts /\ cpi[b].insts > 0
=============================================================================
