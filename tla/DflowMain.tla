------------------------------ MODULE DflowMain ------------------------------
(***************************************************************************)
(* The main program of HW3 (dflow_main.c): it reads the latencies of the   *)
(* opcodes and the program, has the program analysed (DepTree), and prints *)
(* an answer to each query of the command line.                            *)
(*                                                                         *)
(* A line is what fgets hands out, 80 characters at most.  Files and       *)
(* queries are not given beforehand: each line and each query is chosen    *)
(* when it is looked at, and kept.                                         *)
(***************************************************************************)
EXTENDS DepTree

CONSTANTS
  MaxOps,       \* MAX_OPS, 32 in the code
  Quota,        \* PROG_SIZE_QUOTA, 64 in the code
  Cycle,        \* the latencies that an opcode line can hold
  InstLine,     \* the instructions that a program line can hold
  MaxLines,     \* bound: lines of the program file
  MaxQueries,   \* bound: queries of the command line
  Blank,        \* a line of white space or, in the program file, a comment
  Bad           \* a line that cannot be parsed, or the number of such a query

ASSUME DflowMainAssumption ==
  /\ MaxOps \in Nat \ {0} /\ Quota \in Nat \ {0}
  /\ Opcode = 0 .. MaxOps - 1
  /\ Cycle \subseteq Nat
  /\ InstLine \subseteq Instruction
  /\ Blank \notin InstLine \cup Nat /\ Bad \notin InstLine \cup Nat
  /\ MaxLines \in 0 .. MaxInsts /\ MaxQueries \in Nat

\* -1 is (unsigned) ENTRY_IDX.
Query == [type : {"p", "d", "other"}, num : {-1} \cup 0 .. MaxInsts \cup {Bad}]

VARIABLES
  stage,        \* the function main is in
  opLines,      \* the lines of the opcode file that have been read ...
  lines,        \* ... and those of the program file
  numOps,
  progBuf,      \* the instructions in the program buffer
  maxInsts,     \* the slots of the program buffer
  queries,      \* the arguments main has looked at
  printed,      \* the depth of the program and an answer to each query
  status        \* the exit status

files == <<opLines, lines>>
buffers == <<numOps, progBuf, maxInsts>>
talk == <<queries, printed, status>>
mainVars == <<stage, files, buffers, talk, vars>>

\* readOpsLatency first sets all entries to 0.
MainInit ==
  /\ Start
  /\ opsLatency = [op \in Opcode |-> 0]
  /\ stage = "readOpsLatency"
  /\ opLines = <<>> /\ lines = <<>>
  /\ numOps = 0
  /\ progBuf = <<>> /\ maxInsts = 0
  /\ queries = <<>> /\ printed = <<>>
  /\ status = -1

Exit(code) == stage' = "exit" /\ status' = code /\ UNCHANGED <<queries, printed>>

-----------------------------------------------------------------------------
\* fopen fails.
CannotOpen ==
  /\ \/ stage = "readOpsLatency" /\ opLines = <<>>
     \/ stage = "readProgram" /\ lines = <<>>
  /\ Exit(1)
  /\ UNCHANGED <<files, buffers, vars>>

\* A line of the opcode file: a number, white space (read as 0), or neither.
OpsFull == numOps >= MaxOps

OpLine ==
  /\ stage = "readOpsLatency"
  /\ \E l \in Cycle \cup {Blank, Bad} :
       /\ opLines' = Append(opLines, l)
       /\ IF OpsFull THEN Exit(1) /\ UNCHANGED <<numOps, opsLatency>>
          ELSE /\ numOps' = numOps + 1
               /\ opsLatency' =
                    [opsLatency EXCEPT ![numOps] = IF l \in Cycle THEN l ELSE 0]
               /\ IF l = Bad THEN Exit(1) ELSE UNCHANGED <<stage, talk>>
  /\ UNCHANGED <<lines, progBuf, maxInsts,
                 insts, dep1, dep2, depth, deps, size, maxDepth, i, pc, freed>>

OpsRead ==
  /\ stage = "readOpsLatency"
  /\ stage' = "readProgram"
  /\ UNCHANGED <<files, buffers, talk, vars>>

-----------------------------------------------------------------------------
\* The buffer grows before the line is looked at.  Faulty variant: it grows
\* when it has been exceeded.
RoomLate == IF Len(progBuf) > maxInsts THEN maxInsts + Quota ELSE maxInsts
Room == IF Len(progBuf) = maxInsts THEN maxInsts + Quota ELSE maxInsts

ProgLine ==
  /\ stage = "readProgram" /\ Len(lines) < MaxLines
  /\ maxInsts' = Room
  /\ \E l \in InstLine \cup {Blank, Bad} :
       /\ lines' = Append(lines, l)
       /\ progBuf' = IF l \in InstLine THEN Append(progBuf, l) ELSE progBuf
       /\ IF l = Bad THEN Exit(1) ELSE UNCHANGED <<stage, talk>>
  /\ UNCHANGED <<opLines, numOps, vars>>

\* realloc fails.
NoMemory ==
  /\ stage = "readProgram" /\ Len(lines) < MaxLines
  /\ Room # maxInsts
  /\ Exit(1)
  /\ UNCHANGED <<files, buffers, vars>>

ProgRead ==
  /\ stage = "readProgram"
  /\ IF progBuf = <<>> THEN Exit(1) ELSE stage' = "analyzeProg" /\ UNCHANGED talk
  /\ UNCHANGED <<files, buffers, vars>>

-----------------------------------------------------------------------------
Analyze ==
  /\ stage = "analyzeProg"
  /\ \/ NumInsts < Len(progBuf) /\ AddInst(progBuf[NumInsts + 1])
     \/ Disconnect \/ LeaveLoop \/ Connect
  /\ UNCHANGED <<stage, files, buffers, talk>>

Analyzed ==
  /\ stage = "analyzeProg" /\ NumInsts = Len(progBuf)
  /\ Return
  /\ stage' = "queries"
  /\ printed' = << <<GetProgDepth>> >>
  /\ UNCHANGED <<files, buffers, queries, status>>

-----------------------------------------------------------------------------
\* The instructions of the code count from 0, those of DepTree from 1.
\* Faulty variant: the number of the query is taken as it is.
NodeSame(num) == num
NodeOf(num) == num + 1

Answer(q) ==
  IF q.type = "p" THEN <<GetInstDepth(NodeOf(q.num))>>
  ELSE LET d == GetInstDeps(NodeOf(q.num)) IN <<d[1] - 1, d[2] - 1>>

\* Both functions give an error for a node they do not find.
Error == <<>>
Result(q) == IF Found(NodeOf(q.num)) THEN Answer(q) ELSE Error

AskQuery ==
  /\ stage = "queries" /\ Len(queries) < MaxQueries
  /\ \E q \in Query :
       /\ queries' = Append(queries, q)
       /\ IF q.num = Bad \/ q.type = "other"
          THEN stage' = "exit" /\ status' = 3 /\ UNCHANGED printed
          ELSE printed' = Append(printed, Result(q)) /\ UNCHANGED <<stage, status>>
  /\ UNCHANGED <<files, buffers, vars>>

Finish ==
  /\ stage = "queries"
  /\ FreeProgCtx
  /\ Exit(0)
  /\ UNCHANGED <<files, buffers>>

Exited == stage = "exit" /\ UNCHANGED mainVars

MainNext ==
  \/ CannotOpen \/ OpLine \/ OpsRead
  \/ ProgLine \/ NoMemory \/ ProgRead
  \/ Analyze \/ Analyzed
  \/ AskQuery \/ Finish \/ Exited

MainSpec == MainInit /\ [][MainNext]_mainVars
FairMainSpec == MainSpec /\ WF_mainVars(MainNext)
=============================================================================
