------------------------------ MODULE MCCoreMT ------------------------------
(***************************************************************************)
(* Memory images for model checking the core.  A program is any sequence   *)
(* of at most BodyLength instructions of Bodies followed by HALT and by    *)
(* Leftover, which the image may hold but no thread should reach.  R0 is   *)
(* the base register of every memory access and stays 0.  The two words of *)
(* the data segment are at addresses -4 and 0, so that the segment         *)
(* straddles the point where unsigned addresses wrap around; no access is  *)
(* outside it.                                                             *)
(***************************************************************************)
EXTENDS CoreMT

CONSTANTS
  BodyLength,     \* instructions of a program before its HALT, at most
  LoadLats,       \* latencies tried for LOAD ...
  StoreLats,      \* ... and for STORE
  SwitchCycs,     \* costs of a context switch tried
  Bodies,         \* the instructions programs are made of
  Leftover        \* what the image holds after the HALT of a program

Inst(op, dst, src1, src2, isImm) ==
  [op |-> op, dst |-> dst, src1 |-> src1, src2 |-> src2, isImm |-> isImm]

Base == -4

Nop    == Inst("NOP", 0, 0, 0, FALSE)
Halt   == Inst("HALT", 0, 0, 0, FALSE)
Addi   == Inst("ADDI", 1, 1, 5, TRUE)       \* R1 <- R1 + 5
Subi   == Inst("SUBI", 1, 1, 3, TRUE)       \* R1 <- R1 - 3
Add    == Inst("ADD", 1, 1, 1, FALSE)       \* R1 <- R1 + R1
Load0  == Inst("LOAD", 1, 0, -4, TRUE)      \* R1 <- Mem[R0 - 4]
Load1  == Inst("LOAD", 1, 0, 0, FALSE)      \* R1 <- Mem[R0 + R0]
Store0 == Inst("STORE", 0, 1, -4, TRUE)     \* Mem[R0 - 4] <- R1
Store1 == Inst("STORE", 0, 1, 0, FALSE)     \* Mem[R0 + R0] <- R1

NopOrLoad == {Nop, Load0}
Sharing == {Addi, Load0, Store0, Store1}
Computing == {Addi, Subi, Add, Load0, Load1, Store0, Store1}

Nothing == << >>
MoreCode == <<Addi>>

Programs ==
  UNION {{b \o <<Halt>> \o Leftover : b \in [1 .. n -> Bodies]} :
            n \in 0 .. BodyLength}

MCImages ==
  [loadLat : LoadLats, storeLat : StoreLats, switchCyc : SwitchCycs,
   prog : [Threads -> Programs],
   dataStart : {Base}, data : {[w \in 0 .. 1 |-> w]}]
=============================================================================
