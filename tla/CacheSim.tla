------------------------------ MODULE CacheSim ------------------------------
(***************************************************************************)
(* The cache simulator of HW2 (cacheSim.cpp): main reads a trace of reads  *)
(* and writes, line by line, and handle_line plays each of them on a first *)
(* and a second level cache and returns the time the access takes.         *)
(*                                                                         *)
(* The second level includes the first: a block the second level drops is  *)
(* removed from the first, and a dirty block the first level drops is      *)
(* written back to the second.  The memory itself is not simulated.  One   *)
(* action is one call of handle_line that takes one of its return paths.   *)
(***************************************************************************)
EXTENDS LRUCache

CONSTANTS
  Block,              \* the memory blocks the trace accesses
  Geometry1,          \* [sets, ways] of the first level cache ...
  Geometry2,          \* ... and of the second
  L1Cyc, L2Cyc,       \* access times of the two caches
  MemCyc,             \* access time of the memory
  MaxLines            \* length of the longest trace

GeometryType == [sets : Nat \ {0}, ways : Nat \ {0}]

ASSUME CacheAssumption ==
  /\ Block \subseteq Nat
  /\ Geometry1 \in GeometryType /\ Geometry2 \in GeometryType
  /\ L1Cyc \in Nat /\ L2Cyc \in Nat /\ MemCyc \in Nat
  /\ MaxLines \in Nat

VARIABLES
  wrAlloc,    \* write allocate (--wr-alloc); fixed by the command line
  l1, l2,     \* the two caches
  counter,    \* lines of the trace handled
  sumCycles   \* sum_cycles

vars == <<wrAlloc, l1, l2, counter, sumCycles>>

Init ==
  /\ wrAlloc \in BOOLEAN
  /\ l1 = EmptyCache(Geometry1)
  /\ l2 = EmptyCache(Geometry2)
  /\ counter = 0
  /\ sumCycles = 0

In1(b) == Holds(Geometry1, l1, b)
In2(b) == Holds(Geometry2, l2, b)

-----------------------------------------------------------------------------
\* What every path starts with: the look-up in the first level.
Looked1(b, op) == Seek(Geometry1, l1, b, op, FALSE)
Looked2(b, op) == Seek(Geometry2, l2, b, op, FALSE)

(***************************************************************************)
(* Write back the entries that the first level has dropped (none or one),  *)
(* given the state c2 of the second level.  Faulty variants: dirty entries *)
(* are forgotten; the look-up is counted as one of the trace.              *)
(***************************************************************************)
WriteBackNothing(c2, removed) == c2

WriteBackCounted(c2, removed) ==
  IF \E e \in removed : e.dirty
  THEN Seek(Geometry2, c2, (CHOOSE e \in removed : TRUE).blk, "w", FALSE)
  ELSE c2

WriteBack(c2, removed) ==
  IF \E e \in removed : e.dirty
  THEN Seek(Geometry2, c2, (CHOOSE e \in removed : TRUE).blk, "w", TRUE)
  ELSE c2

(***************************************************************************)
(* Bring block b into the first level, whose state is c1, while the second *)
(* is in state c2.  A written block is marked dirty there.                 *)
(***************************************************************************)
Fill1(c1, c2, b, op) ==
  LET added == AddAddress(Geometry1, c1, b) IN
  /\ l1' = IF op = "w" THEN MarkDirty(Geometry1, added.cache, b, TRUE)
                       ELSE added.cache
  /\ l2' = WriteBack(c2, added.removed)

(***************************************************************************)
(* What is left of the first level when the second has dropped an entry.   *)
(* Faulty variant: the first level keeps the block.                        *)
(***************************************************************************)
NotRemoved(c1, removed) == c1

RemovedToo(c1, removed) ==
  IF removed = {} THEN c1
  ELSE Evict(Geometry1, c1, (CHOOSE e \in removed : TRUE).blk)

\* Bring block b into both levels.
FillBoth(c1, c2, b, op) ==
  LET added == AddAddress(Geometry2, c2, b)
  IN  Fill1(RemovedToo(c1, added.removed), added.cache, b, op)

\* main counts the line and adds the time of its access.
Account(time) ==
  /\ counter < MaxLines
  /\ counter' = counter + 1
  /\ sumCycles' = sumCycles + time
  /\ UNCHANGED wrAlloc

-----------------------------------------------------------------------------
\* The block is in the first level.
Hit1(b, op) ==
  /\ In1(b)
  /\ l1' = Looked1(b, op)
  /\ UNCHANGED l2
  /\ Account(L1Cyc)

\* It is in the second level only, and is read.
ReadHit2(b) ==
  /\ ~In1(b)
  /\ In2(b)
  /\ Fill1(Looked1(b, "r"), Looked2(b, "r"), b, "r")
  /\ Account(L1Cyc + L2Cyc)

(***************************************************************************)
(* It is in the second level only, and is written: with write allocate it  *)
(* moves up, and the dirty mark with it.                                   *)
(***************************************************************************)
WriteHit2Alloc(b) ==
  /\ ~In1(b)
  /\ In2(b)
  /\ wrAlloc
  /\ Fill1(Looked1(b, "w"),
           MarkDirty(Geometry2, Looked2(b, "w"), b, FALSE), b, "w")
  /\ Account(L1Cyc + L2Cyc)

\* Without write allocate it is written where it is.
WriteHit2NoAlloc(b) ==
  /\ ~In1(b)
  /\ In2(b)
  /\ ~wrAlloc
  /\ l1' = Looked1(b, "w")
  /\ l2' = Looked2(b, "w")
  /\ Account(L1Cyc + L2Cyc)

\* It is in neither level, and both are filled.
MissAlloc(b, op) ==
  /\ ~In1(b)
  /\ ~In2(b)
  /\ op = "w" => wrAlloc
  /\ FillBoth(Looked1(b, op), Looked2(b, op), b, op)
  /\ Account(L1Cyc + L2Cyc + MemCyc)

\* It is in neither level and is written to the memory only.
WriteMissNoAlloc(b) ==
  /\ ~In1(b)
  /\ ~In2(b)
  /\ ~wrAlloc
  /\ l1' = Looked1(b, "w")
  /\ l2' = Looked2(b, "w")
  /\ Account(L1Cyc + L2Cyc + MemCyc)

Read(b) == Hit1(b, "r") \/ ReadHit2(b) \/ MissAlloc(b, "r")

Write(b) ==
  \/ Hit1(b, "w")
  \/ WriteHit2Alloc(b)
  \/ WriteHit2NoAlloc(b)
  \/ MissAlloc(b, "w")
  \/ WriteMissNoAlloc(b)

\* The trace may be any, and may end anywhere.
Next == \E b \in Block : Read(b) \/ Write(b)

Spec == Init /\ [][Next]_vars

-----------------------------------------------------------------------------
TypeOK ==
  /\ wrAlloc \in BOOLEAN
  /\ l1 \in CacheType(Geometry1, Block)
  /\ l2 \in CacheType(Geometry2, Block)
  /\ counter \in 0 .. MaxLines
  /\ sumCycles \in Nat

(***************************************************************************)
(* add_address never looks whether the block is there already, and remove  *)
(* and mark_dirty stop at the first entry they find: both levels must stay *)
(* free of duplicates.                                                     *)
(***************************************************************************)
CachesWellPlaced == WellPlaced(Geometry1, l1) /\ WellPlaced(Geometry2, l2)

(***************************************************************************)
(* Every block of the first level is in the second, so that a write-back   *)
(* always finds its block (a write-back that misses would lose the data).  *)
(***************************************************************************)
Inclusion == Blocks(l1) \subseteq Blocks(l2)

(***************************************************************************)
(* The counts the averages are computed from: every line looks up the      *)
(* first level once, every first level miss the second level once, and the *)
(* time is made of these look-ups and one memory access per second level   *)
(* miss.  Write-backs and removals leave no trace in them.                 *)
(***************************************************************************)
Accounting ==
  /\ l1.hits + l1.misses = counter
  /\ l2.hits + l2.misses = l1.misses
  /\ sumCycles = counter * L1Cyc + l1.misses * L2Cyc + l2.misses * MemCyc
=============================================================================
