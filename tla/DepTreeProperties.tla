------------------------- MODULE DepTreeProperties -------------------------
(***************************************************************************)
(* What the dataflow calculator promises (dflow_calc.h), stated on the     *)
(* trace alone.                                                            *)
(***************************************************************************)
EXTENDS DepTree, FiniteSets

(***************************************************************************)
(* The graph has no cycles and the exit array never holds more than fits.  *)
(***************************************************************************)
TypeOK ==
  /\ opsLatency \in [Opcode -> Nat]
  /\ insts \in Seq(Instruction) /\ NumInsts <= MaxInsts
  /\ Len(dep1) = NumInsts /\ Len(dep2) = NumInsts /\ Len(depth) = NumInsts
  /\ \A n \in 1..NumInsts : dep1[n] \in 0..n-1 /\ dep2[n] \in 0..n-1 /\ depth[n] \in Nat
  /\ deps \in Seq(Node) /\ size \in Nat /\ Len(deps) <= size
  /\ maxDepth \in Nat
  /\ i \in 1..size+1
  /\ pc \in {"add", "disconnect", "connect", "returned", "freed"}
  /\ freed \in Seq(Node)

-----------------------------------------------------------------------------
\* The instruction whose result n reads in r, or Entry.
LastWriter(n, r) == Max({m \in 1..n-1 : insts[m].dst = r} \cup {Entry})
Producers(n) == {LastWriter(n, insts[n].src1), LastWriter(n, insts[n].src2)}

\* The sets of instructions each of which reads the result of the one before.
Chains ==
  {S \in SUBSET (1..NumInsts) :
     \A n \in S : (\E m \in S : m < n) => Max({m \in S : m < n}) \in Producers(n)}

Duration(S) == FoldSet(LAMBDA n, sum : sum + opsLatency[insts[n].op], 0, S)

\* The longest chain that n has to wait for.
CriticalPath(n) == Max({Duration(S \ {n}) : S \in {C \in Chains : n \in C /\ Max(C) = n}})

Idle == pc \in {"add", "returned"}

(***************************************************************************)
(* getInstDeps gives, for every instruction of the trace, the last writers *)
(* of its two source registers: no instruction is lost when the exit node  *)
(* lets go of it.                                                          *)
(***************************************************************************)
AnswersLastWriters ==
  Idle => \A n \in 1..NumInsts :
    GetInstDeps(n) = <<LastWriter(n, insts[n].src1), LastWriter(n, insts[n].src2)>>

(***************************************************************************)
(* getInstDepth gives the duration of the longest chain of dependencies    *)
(* that ends before the instruction.                                       *)
(***************************************************************************)
DepthIsCriticalPath ==
  Idle => \A n \in 1..NumInsts : GetInstDepth(n) = CriticalPath(n)

(***************************************************************************)
(* getProgDepth gives the longest execution path from Entry to Exit.       *)
(***************************************************************************)
ProgDepthIsLongestPath == Idle => GetProgDepth = Max({Duration(S) : S \in Chains})

(***************************************************************************)
(* Between instructions the exit node points to the leaves, the            *)
(* instructions whose result nobody read, and to nothing else.             *)
(***************************************************************************)
ExitDepsAreLeaves ==
  Idle /\ NumInsts > 0 =>
    Range(deps) = {n \in 1..NumInsts : \A m \in 1..NumInsts : n \notin Producers(m)}

(***************************************************************************)
(* freeProgCtx frees every instruction once.                               *)
(***************************************************************************)
FreesEveryNodeOnce ==
  pc = "freed" => IsInjective(freed) /\ Range(freed) = 1..NumInsts

-----------------------------------------------------------------------------
(***************************************************************************)
(* dflow_calc.h, line 36: analyzeProg returns.                             *)
(***************************************************************************)
AlwaysReturns == <>(pc = "returned")

\* The one case in which it does not: the exit array is full, the new
\* instruction reads the result of the leaf in its last slot, and it takes
\* another slot out of the array too.
LastSlotShared ==
  /\ pc = "disconnect" /\ i = 1 /\ Len(deps) = size
  /\ LET producers == {dep1[NumInsts], dep2[NumInsts]}
     IN  Last(deps) \in producers /\ \E s \in 1..size-1 : deps[s] \in producers
=============================================================================
