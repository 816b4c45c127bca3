------------------------- MODULE InterleavedThreads -------------------------
(***************************************************************************)
(* What a multithreaded core promises to the programs, whatever its way of *)
(* scheduling: every thread executes its own program in order, up to and   *)
(* including its HALT and no further, and the instructions of the threads  *)
(* take effect one at a time on the memory they share.  There is no time   *)
(* and no scheduler here: any thread that has not halted may go next.      *)
(***************************************************************************)
EXTENDS ThreadISA, Sequences

CONSTANTS
  NThreads,   \* number of hardware threads
  Images      \* the memory images the simulator may be started with

Threads == 0 .. NThreads - 1

(***************************************************************************)
(* A memory image (sim_api.c, SIM_MemReset): the latencies of LOAD and     *)
(* STORE, the cost of a context switch of the blocked core, one program    *)
(* for each thread, the address and the contents of the data segment.  A   *)
(* program must hold a HALT, or the core would fetch what lies beyond it.  *)
(***************************************************************************)
ImageType ==
  [loadLat : Nat, storeLat : Nat, switchCyc : Nat,
   prog : [Threads -> Seq(Instruction)],
   dataStart : Word, data : Memory]

ASSUME ImageAssumption ==
  /\ NThreads \in Nat \ {0}
  /\ Images \subseteq ImageType
  /\ \A m \in Images, t \in Threads :
        \E k \in DOMAIN m.prog[t] : m.prog[t][k].op = "HALT"

VARIABLES
  img,      \* the memory image; it never changes
  data,     \* the data memory
  pc,       \* pc[t] instructions of t have been executed
  halted,   \* halted[t] is TRUE once t has executed HALT
  reg       \* the register file of each thread

archVars == <<img, data, pc, halted, reg>>

ArchInit ==
  /\ img \in Images
  /\ data = img.data
  /\ pc = [t \in Threads |-> 0]
  /\ halted = [t \in Threads |-> FALSE]
  /\ reg = [t \in Threads |-> [r \in Reg |-> 0]]

\* The instruction thread t executes next (SIM_MemInstRead).  Faulty variant:
\* its first one, wherever it is.
FetchFirst(t) == img.prog[t][1]

Fetch(t) == img.prog[t][pc[t] + 1]

(***************************************************************************)
(* Thread t executes its next instruction: the effect of Thread::execute   *)
(* on the state a program can see.                                         *)
(***************************************************************************)
Execute(t) ==
  LET i == Fetch(t) IN
  /\ Defined(i, reg[t], img.dataStart)
  /\ reg' = [reg EXCEPT ![t] = RegsAfter(i, reg[t], data, img.dataStart)]
  /\ data' = MemAfter(i, reg[t], data, img.dataStart)
  /\ halted' = [halted EXCEPT ![t] = (i.op = "HALT") \/ halted[t]]
  /\ pc' = [pc EXCEPT ![t] = pc[t] + 1]

Step(t) == ~halted[t] /\ Execute(t) /\ UNCHANGED img

ArchNext == \E t \in Threads : Step(t)

ArchSpec == ArchInit /\ [][ArchNext]_archVars
=============================================================================
