------------------------------ MODULE ThreadISA ------------------------------
(***************************************************************************)
(* The instruction set of the multithreaded core of HW4: what one          *)
(* instruction does to the register file of the thread that executes it    *)
(* and to the data memory all the threads share (Thread::execute in        *)
(* core_api.cpp, SIM_MemDataRead and SIM_MemDataWrite in sim_api.c).       *)
(*                                                                         *)
(* A machine word is a signed integer of width 2*HalfWord that wraps       *)
(* around, as the int of the builds does (HalfWord is 2^31 there).         *)
(***************************************************************************)
EXTENDS Integers

CONSTANTS
  NRegs,      \* registers of a thread (REGS_COUNT)
  NWords,     \* words of the data memory (the length of data[])
  HalfWord    \* half the number of values of a word

ASSUME ISAAssumption ==
  /\ NRegs \in Nat \ {0}
  /\ NWords \in Nat \ {0}
  /\ HalfWord \in Nat \ {0}

Reg  == 0 .. NRegs - 1
Word == (-HalfWord) .. (HalfWord - 1)

\* The word that an integer wraps around to.  Faulty variant: none does.
NoWrap(x) == x

Wrap(x) == ((x + HalfWord) % (2 * HalfWord)) - HalfWord

RegFile == [Reg -> Word]
Memory  == [0 .. NWords - 1 -> Word]

Opcode == {"NOP", "ADD", "SUB", "ADDI", "SUBI", "LOAD", "STORE", "HALT"}
MemoryOpcode == {"LOAD", "STORE"}

-----------------------------------------------------------------------------
(***************************************************************************)
(* An instruction as the parser leaves it.  src2 is a register number or   *)
(* an immediate: ADD and SUB always read it as a register number, ADDI and *)
(* SUBI always as an immediate, LOAD and STORE as isImm says.              *)
(***************************************************************************)
ReadsSrc2(i) ==
  \/ i.op \in {"ADD", "SUB"}
  \/ i.op \in MemoryOpcode /\ ~i.isImm

Instruction ==
  {i \in [op : Opcode, dst : Reg, src1 : Reg, src2 : Word, isImm : BOOLEAN] :
      ReadsSrc2(i) => i.src2 \in Reg}

\* The second operand, given the register file r.
Src2(i, r) == IF ReadsSrc2(i) THEN r[i.src2] ELSE i.src2

\* The byte address a LOAD (from src1) or a STORE (from dst) computes.
Address(i, r) ==
  Wrap(r[IF i.op = "LOAD" THEN i.src1 ELSE i.dst] + Src2(i, r))

(***************************************************************************)
(* The word of data[] that an address selects.  The distance from the      *)
(* start of the data segment is turned into an int and divided by four     *)
(* with truncation towards zero, so the three bytes before the segment     *)
(* select its first word.                                                  *)
(***************************************************************************)
WordIndex(addr, dataStart) ==
  LET distance == Wrap(addr - dataStart)
  IN  IF distance >= 0 THEN distance \div 4 ELSE -((-distance) \div 4)

\* The C code has a defined meaning only inside the bounds of data[].
Defined(i, r, dataStart) ==
  i.op \in MemoryOpcode =>
    WordIndex(Address(i, r), dataStart) \in 0 .. NWords - 1

-----------------------------------------------------------------------------
\* What the instruction writes to its destination register, if it has one.
Result(i, r, m, dataStart) ==
  CASE i.op \in {"ADD", "ADDI"} -> Wrap(r[i.src1] + Src2(i, r))
    [] i.op \in {"SUB", "SUBI"} -> Wrap(r[i.src1] - Src2(i, r))
    [] i.op = "LOAD"            -> m[WordIndex(Address(i, r), dataStart)]

RegsAfter(i, r, m, dataStart) ==
  IF i.op \in {"NOP", "STORE", "HALT"}
  THEN r
  ELSE [r EXCEPT ![i.dst] = Result(i, r, m, dataStart)]

MemAfter(i, r, m, dataStart) ==
  IF i.op = "STORE"
  THEN [m EXCEPT ![WordIndex(Address(i, r), dataStart)] = r[i.src1]]
  ELSE m
=============================================================================
