----------------------- MODULE BranchPredictorHistory -----------------------
(***************************************************************************)
(* BranchPredictor with the lines it has read and the predictions it has   *)
(* printed.  What the tables must hold is worked out from the whole trace, *)
(* without replaying the updates.                                          *)
(***************************************************************************)
EXTENDS BranchPredictor, Sequences, FiniteSets, SequencesExt

VARIABLES
  lines,      \* the lines read, the oldest first
  printed     \* the prediction printed for each

hvars == <<conf, btb, globalMachines, globalHistory, branches, flushes, dst,
           lines, printed>>

HInit == Init /\ lines = <<>> /\ printed = <<>>

HNext ==
  \E pc \in PC, target \in Target, taken \in BOOLEAN :
    /\ Line(pc, target, taken)
    /\ lines' = Append(lines, [pc |-> pc, target |-> target, taken |-> taken])
    /\ printed' = Append(printed, dst')

HSpec == HInit /\ [][HNext]_hvars

-----------------------------------------------------------------------------
AllLines == DOMAIN lines
LastOf(S) == CHOOSE n \in S : \A m \in S : m <= n

InEntry(i) == {n \in AllLines : Index(lines[n].pc) = i}

\* The lines of the branch that held entry i before line n, since it last
\* took the entry over: those after which no other tag used the entry.
Stay(i, tag, n) ==
  LET earlier == {m \in InEntry(i) : m < n}
  IN  {m \in earlier : \A k \in earlier : k >= m => TagOf(lines[k].pc) = tag}

CurrentStay(i) ==
  IF InEntry(i) = {} THEN {}
  ELSE Stay(i, TagOf(lines[LastOf(InEntry(i))].pc), Len(lines) + 1)

\* Bit b is the outcome of the line of S that b lines of S follow.
OutcomesOf(S) ==
  [b \in Bit |-> \E n \in S : lines[n].taken /\ Cardinality({m \in S : m > n}) = b]

\* The machine that line n used, by the lines before it.
Used(n) ==
  LET pc == lines[n].pc
  IN  Shared(OutcomesOf(IF conf.globalHist THEN 1..(n - 1)
                        ELSE Stay(Index(pc), TagOf(pc), n)), pc)

\* A saturating counter that counted the outcomes of the lines of S.
CounterOf(S) ==
  FoldLeft(LAMBDA s, n : IF n \notin S THEN s
                         ELSE IF lines[n].taken THEN Min({s + 1, ST}) ELSE Max({s - 1, SNT}),
           conf.fsm, [n \in AllLines |-> n])

(***************************************************************************)
(* An entry holds the tag and the target of the last branch that maps to   *)
(* it, and is marked valid from its first branch on.                       *)
(***************************************************************************)
EntriesAreLastBranches ==
  \A i \in DOMAIN btb :
    /\ btb[i].valid = (InEntry(i) # {})
    /\ InEntry(i) # {} =>
         LET last == lines[LastOf(InEntry(i))]
         IN  btb[i].tag = TagOf(last.pc) /\ btb[i].target = last.target

(***************************************************************************)
(* The global history holds the outcomes of the last branches; a local one *)
(* those of the last branches since the tag of its entry changed, whatever *)
(* other entries did in between.                                           *)
(***************************************************************************)
HistoriesAreOutcomes ==
  IF conf.globalHist THEN globalHistory = OutcomesOf(AllLines)
  ELSE \A i \in DOMAIN btb : btb[i].history = OutcomesOf(CurrentStay(i))

(***************************************************************************)
(* Each machine has counted the outcomes of exactly the branches that      *)
(* selected it: with global tables all of those, from whatever entry; with *)
(* local tables those of its entry since the tag changed.                  *)
(***************************************************************************)
MachinesAreCounters ==
  \A h \in HistIndex :
    IF conf.globalTable
    THEN globalMachines[h] = CounterOf({n \in AllLines : Used(n) = h})
    ELSE \A i \in DOMAIN btb :
           btb[i].machines[h] = CounterOf({n \in CurrentStay(i) : Used(n) = h})

(***************************************************************************)
(* The flushes counted are the lines whose printed prediction is not where *)
(* the program went, be it for the direction or for a stale target.        *)
(***************************************************************************)
FlushesAreWrongPaths ==
  flushes = Cardinality({n \in AllLines :
    printed[n] # (IF lines[n].taken THEN lines[n].target ELSE lines[n].pc + 4)})

Steady == \A n \in AllLines : lines[n] = lines[1]

(***************************************************************************)
(* A branch that always does the same, alone in the trace, is learned: it  *)
(* flushes at most while its history fills and two machine steps more.     *)
(***************************************************************************)
LearnsSteadyBranch == Steady => flushes <= HistSize + 2

(***************************************************************************)
(* bp_api.h, line 37: the prediction is the target address, or pc + 4.     *)
(* A target is one that the trace has given.                               *)
(***************************************************************************)
PredictsTargets ==
  \A n \in AllLines :
    \/ printed[n] = lines[n].pc + 4
    \/ \E m \in 1..(n - 1) : printed[n] = lines[m].target
=============================================================================
