------------------------------ MODULE DepTree ------------------------------
(***************************************************************************)
(* The dataflow calculator of HW3 (dflow_calc.cpp).  analyzeProg adds the  *)
(* instructions of a trace one by one to a graph: each points to the last  *)
(* writers of the two registers it reads, and the exit node points to the  *)
(* leaves, through an array that doubles when it is full.                  *)
(*                                                                         *)
(* Instructions and array slots count from 1, and Entry stands for the     *)
(* entry node (the code counts from 0 and gives the entry node index -1).  *)
(* The loop that takes the dependencies of a new instruction out of the    *)
(* exit array is modelled one iteration per step: whether it ends is a     *)
(* question of its own.                                                    *)
(***************************************************************************)
EXTENDS Integers, SequencesExt

CONSTANTS
  Reg,
  Opcode,
  Latencies,    \* the tables of latencies tried for opsLatency
  ExitStart,    \* EXIT_START_SIZE, 100 in the code
  MaxInsts      \* bound: instructions of the trace

ASSUME DepTreeAssumption ==
  /\ Latencies \subseteq [Opcode -> Nat]
  /\ ExitStart \in Nat \ {0}
  /\ MaxInsts \in Nat

Entry == 0
Instruction == [op : Opcode, dst : Reg, src1 : Reg, src2 : Reg]

VARIABLES
  opsLatency, \* ops_latency; analyzeProg does not change it
  insts,      \* the instructions added
  dep1,       \* dep1[n], dep2[n]: the nodes that instruction n points to
  dep2,
  depth,      \* inst_depth
  deps,       \* the slots of the exit array before the first NULL
  size,       \* num_deps, the slots of the exit array
  maxDepth,
  i,          \* the slot the loop is at
  pc,         \* where the program is
  freed       \* the nodes freed, in order

vars == <<opsLatency, insts, dep1, dep2, depth, deps, size, maxDepth, i, pc, freed>>

NumInsts == Len(insts)
Node == 0..NumInsts
Cycles(n) == IF n = Entry THEN 0 ELSE opsLatency[insts[n].op]
DepthOf(n) == IF n = Entry THEN 0 ELSE depth[n]
Writes(n, r) == n # Entry /\ insts[n].dst = r
Later(m, n) == IF m > n THEN m ELSE n

Start ==
  /\ insts = <<>> /\ dep1 = <<>> /\ dep2 = <<>> /\ depth = <<>>
  /\ deps = <<Entry>>
  /\ size = ExitStart
  /\ maxDepth = 0
  /\ i = 1
  /\ pc = "add"
  /\ freed = <<>>

Init == opsLatency \in Latencies /\ Start

-----------------------------------------------------------------------------
\* find_node: the last writer of r among n and what it depends on, or Entry.
\* Faulty variant: the second dependency is not searched.
FindFirst(r) ==
  LET find[n \in Node] ==
        IF n = Entry \/ Writes(n, r) THEN n ELSE find[dep1[n]]
  IN  find
Find(r) ==
  LET find[n \in Node] ==
        IF n = Entry \/ Writes(n, r) THEN n
        ELSE Later(find[dep1[n]], find[dep2[n]])
  IN  find

\* The last writer of r that the exit node reaches, or Entry.
MostRecent(r) == LET find == Find(r) IN FoldLeft(Later, Entry, [s \in DOMAIN deps |-> find[deps[s]]])

\* When an instruction that depends on first and second can start.  Faulty
\* variant: it waits for the first only.
StartAfterFirst(first, second) == DepthOf(first) + Cycles(first)
StartAfter(first, second) ==
  Later(DepthOf(first) + Cycles(first), DepthOf(second) + Cycles(second))

\* The maximum depth with an instruction that ends then.  Faulty variant: the
\* last instruction counts.
DeepestLast(end) == end
Deepest(end) == Later(maxDepth, end)

\* The start of add_inst: where the instruction goes and how deep it is.
\* With one dependency both pointers lead to it.
AddInst(inst) ==
  LET writer1 == MostRecent(inst.src1)
      writer2 == MostRecent(inst.src2)
      first   == IF writer1 = Entry THEN writer2 ELSE writer1
      second  == IF writer2 = Entry THEN writer1 ELSE writer2
      start   == StartAfter(first, second)
  IN  /\ pc = "add" /\ NumInsts < MaxInsts
      /\ insts' = Append(insts, inst)
      /\ dep1' = Append(dep1, first)
      /\ dep2' = Append(dep2, second)
      /\ depth' = Append(depth, start)
      /\ maxDepth' = Deepest(start + opsLatency[inst.op])
      /\ i' = 1
      /\ pc' = "disconnect"
      /\ UNCHANGED <<opsLatency, deps, size, freed>>

\* Slot s is set to NULL and the slots after it move up.  The last slot has
\* none after it: in a full array it keeps what it held.  Faulty variant: the
\* last slot of a full array is not set to NULL when it is the one.
ShiftedKept(d, s) ==
  IF Len(d) < size THEN RemoveAt(d, s) ELSE Append(RemoveAt(d, s), Last(d))
Shifted(d, s) ==
  IF Len(d) < size \/ s = Len(d) THEN RemoveAt(d, s)
  ELSE Append(RemoveAt(d, s), Last(d))

Without(d, s, n) == IF s <= Len(d) /\ d[s] = n THEN Shifted(d, s) ELSE d

\* One iteration of the loop that disconnects the dependencies from the exit
\* node.  It looks at the same slot again if it emptied it.  Faulty variant:
\* it goes on to the next slot in any case.
DisconnectPassing ==
  LET once  == Without(deps, i, dep1[NumInsts])
      twice == Without(once, i, dep2[NumInsts])
  IN  /\ pc = "disconnect" /\ i <= Len(deps)
      /\ deps' = twice
      /\ IF i > Len(once) THEN pc' = "connect" /\ UNCHANGED i
         ELSE i' = i + 1 /\ UNCHANGED pc
      /\ UNCHANGED <<opsLatency, insts, dep1, dep2, depth, size, maxDepth, freed>>
Disconnect ==
  LET new     == NumInsts
      once    == Without(deps, i, dep1[new])
      twice   == Without(once, i, dep2[new])
      matched == deps[i] = dep1[new] \/ once[i] = dep2[new]
  IN  /\ pc = "disconnect" /\ i <= Len(deps)
      /\ deps' = twice
      /\ IF i > Len(once) THEN pc' = "connect" /\ UNCHANGED i
         ELSE i' = (IF matched THEN i ELSE i + 1) /\ UNCHANGED pc
      /\ UNCHANGED <<opsLatency, insts, dep1, dep2, depth, size, maxDepth, freed>>

LeaveLoop ==
  /\ pc = "disconnect" /\ i > Len(deps)
  /\ pc' = "connect"
  /\ UNCHANGED <<opsLatency, insts, dep1, dep2, depth, deps, size, maxDepth, i, freed>>

\* The end of add_inst: the exit node points to the new instruction.  Faulty
\* variant: a full array is not doubled.
NotGrown == size
Grown == IF Len(deps) = size THEN 2 * size ELSE size
Connect ==
  /\ pc = "connect"
  /\ deps' = Append(deps, NumInsts)
  /\ size' = Grown
  /\ pc' = "add"
  /\ UNCHANGED <<opsLatency, insts, dep1, dep2, depth, maxDepth, i, freed>>

\* analyzeProg has read the whole trace.
Return ==
  /\ pc = "add"
  /\ pc' = "returned"
  /\ UNCHANGED <<opsLatency, insts, dep1, dep2, depth, deps, size, maxDepth, i, freed>>

\* add_to_node_set meets the nodes in this order, some several times.
\* Faulty variant: it does not follow the second dependency.
WalkFirst ==
  LET walk[n \in Node] ==
        IF n = Entry THEN <<>> ELSE <<n>> \o walk[dep1[n]]
  IN  walk
Walk ==
  LET walk[n \in Node] ==
        IF n = Entry THEN <<>>
        ELSE <<n>> \o walk[dep1[n]] \o (IF dep1[n] = dep2[n] THEN <<>> ELSE walk[dep2[n]])
  IN  walk

AddToSet(set, n) == IF Contains(set, n) THEN set ELSE Append(set, n)

FreeProgCtx ==
  /\ pc = "returned"
  /\ LET walk == Walk
     IN  freed' = FoldLeft(AddToSet, <<>>, FlattenSeq([s \in DOMAIN deps |-> walk[deps[s]]]))
  /\ pc' = "freed"
  /\ UNCHANGED <<opsLatency, insts, dep1, dep2, depth, deps, size, maxDepth, i>>

Next ==
  \/ \E inst \in Instruction : AddInst(inst)
  \/ Disconnect \/ LeaveLoop \/ Connect \/ Return \/ FreeProgCtx

Spec == Init /\ [][Next]_vars

\* A sequential program keeps running.
FairSpec == Spec /\ WF_vars(Next)

-----------------------------------------------------------------------------
\* The queries.  find_by_idx looks for the instruction below the exit node.
Found(n) ==
  LET has[m \in Node] == m # Entry /\ (m = n \/ has[dep1[m]] \/ has[dep2[m]])
  IN  \E s \in DOMAIN deps : has[deps[s]]

GetInstDepth(n) == IF Found(n) THEN depth[n] ELSE -1

\* When both pointers lead to one instruction, that is the writer of only one
\* of the registers, unless they are the same.
DepsOf(n) ==
  LET d == dep1[n]
  IN  IF d # dep2[n] \/ insts[n].src1 = insts[n].src2 THEN <<d, dep2[n]>>
      ELSE <<IF Writes(d, insts[n].src1) THEN d ELSE Entry,
             IF ~Writes(d, insts[n].src1) /\ Writes(d, insts[n].src2) THEN d ELSE Entry>>
GetInstDeps(n) == IF Found(n) THEN DepsOf(n) ELSE <<-1, -1>>

GetProgDepth == maxDepth
=============================================================================
