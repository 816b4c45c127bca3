----------------------------- MODULE MCDepTree -----------------------------
(***************************************************************************)
(* Small programs.  An exit array that starts with two slots is full, and  *)
(* doubles, within four instructions.                                      *)
(***************************************************************************)
EXTENDS DepTreeProperties, TLC

CONSTANTS r1, r2, r3

OneCycle == {[op \in Opcode |-> 1]}
OneAndThree == {[op \in Opcode |-> IF op = "add" THEN 1 ELSE 3]}

RegSymmetry == Permutations(Reg)
=============================================================================
