-------------------------- MODULE BranchPredictor --------------------------
(***************************************************************************)
(* The branch predictor of HW1 (bp.cpp): a direct mapped BTB whose entries *)
(* hold a tag, a target, a local history and a table of two-bit state      *)
(* machines; histories and tables may be global instead.  The main program *)
(* (bp_main.c) asks for a prediction and reports the outcome of one branch *)
(* after the other.                                                        *)
(*                                                                         *)
(* A history is the vector of its bits, bit 0 the newest, so that the      *)
(* exclusive or of gshare is taken bit by bit.  The addresses are far from *)
(* 2^32, where pc + 4 would wrap.                                          *)
(***************************************************************************)
EXTENDS Integers

CONSTANTS
  PC,           \* addresses of branches
  Target,       \* targets of branches
  BTBSize,
  HistSize,
  TagSize,
  InitialState, \* the values of fsmState
  MaxLines      \* bound: lines of the trace

SNT == 0
WNT == 1
WT == 2
ST == 3

GetBits(number, start, n) == (number \div 2^start) % 2^n

\* log2(BTB_size), truncated to an integer.  Faulty variant: rounded up.
IndexBitsUp == CHOOSE n \in 0..BTBSize : BTBSize <= 2^n /\ \A k \in 0..n-1 : 2^k < BTBSize
IndexBits == CHOOSE n \in 0..BTBSize : 2^n <= BTBSize /\ BTBSize < 2^(n + 1)
Index(pc) == GetBits(pc, 2, IndexBits)
TagOf(pc) == GetBits(pc, 2 + IndexBits, TagSize)

ASSUME PredictorAssumption ==
  /\ PC \subseteq Nat
  /\ Target \subseteq Nat
  /\ {BTBSize, HistSize, MaxLines} \subseteq Nat \ {0}
  /\ TagSize \in Nat
  /\ InitialState \subseteq SNT..ST

Bit == 0..HistSize-1
HistIndex == [Bit -> BOOLEAN]
NoHistory == [b \in Bit |-> FALSE]

VARIABLES
  conf,         \* the configuration line of the trace; never changes
  btb,
  globalMachines,
  globalHistory,
  branches,     \* num_branches
  flushes,      \* num_flushes
  dst           \* the prediction printed last

vars == <<conf, btb, globalMachines, globalHistory, branches, flushes, dst>>

Config == [globalHist : BOOLEAN, globalTable : BOOLEAN,
           shared : {"no", "lsb", "mid"}, fsm : InitialState]

Machines == [HistIndex -> SNT..ST]
FreshMachines == [h \in HistIndex |-> conf.fsm]

\* With global tables the machines of an entry are an empty vector that the
\* code never reads: here they keep their first value.
Entry == [valid : BOOLEAN, tag : Nat, target : Nat,
          history : HistIndex, machines : Machines]
DefEntry == [valid |-> FALSE, tag |-> 0, target |-> 0,
             history |-> NoHistory, machines |-> FreshMachines]

Init ==
  /\ conf \in Config
  /\ btb = [i \in 0..BTBSize-1 |-> DefEntry]
  /\ globalMachines = FreshMachines
  /\ globalHistory = NoHistory
  /\ branches = 0
  /\ flushes = 0
  /\ dst = 0

-----------------------------------------------------------------------------
\* The index into the table of machines: the history, for lshare and gshare
\* combined with bits of the address.
PcBits(pc, start) == [b \in Bit |-> GetBits(pc, start + b, 1) = 1]
Xor(h, g) == [b \in Bit |-> h[b] # g[b]]
Shared(h, pc) ==
  IF conf.shared = "no" THEN h
  ELSE Xor(h, PcBits(pc, IF conf.shared = "lsb" THEN 2 ELSE 16))

HistoryOf(entry) == IF conf.globalHist THEN globalHistory ELSE entry.history
MachinesOf(entry) == IF conf.globalTable THEN globalMachines ELSE entry.machines
MachineFor(entry, pc) == Shared(HistoryOf(entry), pc)

PredictsTaken(entry, pc) ==
  TagOf(pc) = entry.tag /\ MachinesOf(entry)[MachineFor(entry, pc)] \in {WT, ST}

Predict(pc) ==
  LET entry == btb[Index(pc)]
  IN  IF PredictsTaken(entry, pc) THEN entry.target ELSE pc + 4

\* A new branch in an entry starts with its own history and machines.
\* Faulty variants: the tag is only set in an entry that was never used; the
\* history is kept; the machines are kept.
ClaimedOnce(entry, tag) ==
  IF entry.valid THEN entry ELSE [entry EXCEPT !.valid = TRUE, !.tag = tag]
ClaimedWithHistory(entry, tag) ==
  [entry EXCEPT !.valid = TRUE, !.tag = tag,
     !.machines = IF conf.globalTable \/ tag = entry.tag THEN @ ELSE FreshMachines]
ClaimedWithMachines(entry, tag) ==
  [entry EXCEPT !.valid = TRUE, !.tag = tag,
     !.history = IF conf.globalHist \/ tag = entry.tag THEN @ ELSE NoHistory]
Claimed(entry, tag) ==
  IF tag = entry.tag THEN [entry EXCEPT !.valid = TRUE]
  ELSE [entry EXCEPT
          !.valid = TRUE, !.tag = tag,
          !.history = IF conf.globalHist THEN @ ELSE NoHistory,
          !.machines = IF conf.globalTable THEN @ ELSE FreshMachines]

\* A machine saturates at both ends.  Faulty variants: it does not; it wraps.
StepUnclamped(state, taken) == IF taken THEN state + 1 ELSE state - 1
StepWrap(state, taken) == IF taken THEN (state + 1) % 4 ELSE (state + 3) % 4
Step(state, taken) ==
  LET next == IF taken THEN state + 1 ELSE state - 1
  IN  IF next \in SNT..ST THEN next ELSE state

Trained(machines, h, taken) == [machines EXCEPT ![h] = Step(@, taken)]

Push(history, taken) ==
  [b \in Bit |-> IF b = 0 THEN taken ELSE history[b - 1]]

\* A prediction is wrong when the program continues elsewhere.  Faulty
\* variant: only the direction is compared.
IsFlushDirection(pc, target, taken, predicted) == taken = (predicted = pc + 4)
IsFlush(pc, target, taken, predicted) ==
  predicted # (IF taken THEN target ELSE pc + 4)

\* BP_predict and BP_update for one line of the trace.
Line(pc, target, taken) ==
  LET entry == Claimed(btb[Index(pc)], TagOf(pc))
      h     == MachineFor(entry, pc)
  IN  /\ branches < MaxLines
      /\ dst' = Predict(pc)
      /\ branches' = branches + 1
      /\ flushes' = IF IsFlush(pc, target, taken, dst') THEN flushes + 1 ELSE flushes
      /\ btb' = [btb EXCEPT ![Index(pc)] =
           [entry EXCEPT
              !.target = target,
              !.machines = IF conf.globalTable THEN @ ELSE Trained(@, h, taken),
              !.history = IF conf.globalHist THEN @ ELSE Push(@, taken)]]
      /\ globalMachines' = IF conf.globalTable THEN Trained(globalMachines, h, taken)
                           ELSE globalMachines
      /\ globalHistory' = IF conf.globalHist THEN Push(globalHistory, taken)
                          ELSE globalHistory
      /\ UNCHANGED conf

Next == \E pc \in PC, target \in Target, taken \in BOOLEAN : Line(pc, target, taken)

Spec == Init /\ [][Next]_vars

-----------------------------------------------------------------------------
(***************************************************************************)
(* Every machine stays a two-bit machine, there are no more flushes than   *)
(* branches, and the bits of an address that predict and update take for   *)
(* an index never lead outside the BTB, also when its size is no power of  *)
(* two.                                                                    *)
(***************************************************************************)
TypeOK ==
  /\ conf \in Config
  /\ btb \in [0..BTBSize-1 -> Entry]
  /\ \A pc \in PC : Index(pc) \in DOMAIN btb
  /\ globalMachines \in Machines
  /\ globalHistory \in HistIndex
  /\ branches \in 0..MaxLines
  /\ flushes \in 0..branches
  /\ dst \in Nat

=============================================================================
