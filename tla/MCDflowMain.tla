---------------------------- MODULE MCDflowMain ----------------------------
(***************************************************************************)
(* Small files.  Two registers and an exit array of two slots are enough   *)
(* for a third instruction to read the results of both leaves of a full    *)
(* array.                                                                  *)
(***************************************************************************)
EXTENDS DflowMainProperties

Opcodes == 0 .. MaxOps - 1
NoTables == {}

\* One opcode for each register written.
Insts ==
  {inst \in [op : Opcodes, dst : Reg, src1 : Reg, src2 : Reg] : inst.op = inst.dst}
=============================================================================
