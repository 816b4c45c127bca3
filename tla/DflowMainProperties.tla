------------------------ MODULE DflowMainProperties ------------------------
(***************************************************************************)
(* What a user of the program of HW3 relies on, stated on the lines of the *)
(* two files and the arguments alone.                                      *)
(***************************************************************************)
EXTENDS DflowMain, DepTreeProperties

\* The elements of a sequence that are in P, in their order.
Keep(P, seq) ==
  FoldLeft(LAMBDA kept, x : IF x \in P THEN Append(kept, x) ELSE kept, <<>>, seq)

\* The instructions of the program file and the latencies of the other.
Program == Keep(InstLine \cup {Bad}, lines)
CyclesOf(inst) ==
  IF inst.op < Len(opLines) /\ opLines[inst.op + 1] # Blank
  THEN opLines[inst.op + 1] ELSE 0

\* The last writer of r before the n-th instruction; 0 stands for the entry.
WriterBefore(n, r) == Max({m \in 1 .. n - 1 : Program[m].dst = r} \cup {0})

Starts ==
  LET start[n \in 0 .. Len(Program)] ==
        IF n = 0 THEN 0
        ELSE LET End(m) == IF m = 0 THEN 0 ELSE start[m] + CyclesOf(Program[m])
             IN  Max({End(WriterBefore(n, Program[n].src1)),
                      End(WriterBefore(n, Program[n].src2))})
  IN  start

LongestPath == Max({Starts[n] + CyclesOf(Program[n]) : n \in DOMAIN Program})

\* An instruction has the number of instruction lines before its own.
Expected(q) ==
  LET n == q.num + 1
  IN  IF n \notin DOMAIN Program THEN Error
      ELSE IF q.type = "p" THEN <<Starts[n]>>
      ELSE <<WriterBefore(n, Program[n].src1) - 1, WriterBefore(n, Program[n].src2) - 1>>

Understood == {q \in Query : q.num # Bad /\ q.type # "other"}

(***************************************************************************)
(* What is printed is what the two files say: blank lines and comments do  *)
(* not shift the numbers of the instructions, each opcode takes the cycles *)
(* of its line, every argument up to the first that cannot be understood   *)
(* is answered, and the exit status is 0 only when all are.                *)
(***************************************************************************)
AnswersAboutFiles ==
  LET asked == Keep(Understood, queries)
  IN  /\ printed # <<>> =>
           /\ Bad \notin Range(lines) /\ Bad \notin Range(opLines)
           /\ Len(opLines) <= MaxOps
           /\ printed = << <<LongestPath>> >> \o [k \in DOMAIN asked |-> Expected(asked[k])]
      /\ status = 0 => printed # <<>> /\ asked = queries

(***************************************************************************)
(* Nothing is written beyond the program buffer, the table of latencies    *)
(* and the exit array, however many lines the files have.                  *)
(***************************************************************************)
BuffersSuffice == Len(progBuf) <= maxInsts /\ numOps <= MaxOps /\ Len(deps) <= size

(***************************************************************************)
(* main exits, but for the one case in which the analysis does not return. *)
(***************************************************************************)
ExitsUnlessLastSlotShared == []~LastSlotShared => <>(stage = "exit")
=============================================================================
