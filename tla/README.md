# A verification of the four simulators of Comp_Arch_Winter

The repository holds four small programs, one per homework of a course in
computer architecture. They share no code. Each has a driver in C that was
given with the exercise and a core in C++ that is the author's:

| | program | core | driver |
|---|---|---|---|
| HW1 | branch predictor | `HW1/CompArch-hw1/bp.cpp` | `bp_main.c` |
| HW2 | two-level cache | `HW2/Cache.cpp`, `HW2/cacheSim.cpp` | (`main` in `cacheSim.cpp`) |
| HW3 | dataflow calculator | `HW3/dflow_calc.cpp` | `dflow_main.c` |
| HW4 | multithreaded core | `HW4/core_api.cpp` | `main.c`, memory in `sim_api.c` |

The rest of the tree, more than 8400 files, is test inputs, expected outputs
and recorded outputs. Paths below are relative to `src/`.

The programs are sequential, but what they simulate is not: HW4 interleaves
threads that share a memory. Their risks are long sequences of legal operations
(any trace, any program), boundaries (a set, an array or a counter that is
full), state left over from an earlier step, and loops that must end.

## Inventory

### HW4: the multithreaded core (`HW4/core_api.cpp`)

*Threads and instruction set.* `Thread` keeps a program counter, registers, a
halted flag, the current instruction and the cycle it started in.
`execute_inst` fetches (`SIM_MemInstRead`), executes one of NOP, ADD, SUB, ADDI,
SUBI, LOAD, STORE, HALT and advances. Registers are 32-bit integers that wrap.

*Core.* `Thread_Handler` keeps the cycle, the number of instructions, the
current thread and the mode. `run_program_finegrained` and
`run_program_blocked` loop until all threads have halted: issue, or idle a
cycle, then `switch_thread`. The blocked mode looks for another thread only
after a LOAD, a STORE or a HALT, and pays a penalty when it changes thread.
Correct means: a thread is served only when it may run; the core idles only
when nobody can be served; nobody starves; the threads compute what an
interleaving of their programs computes; and the loops end.

*Main program.* `main.c` runs the blocked and then the fine-grained core on one
memory, which it does not reset in between, and prints registers and CPI. The
`CTX` functions write the registers of one thread into the contexts of all.

*Memory simulator.* `sim_api.c` keeps 100 words of data, the programs and the
latencies. `SIM_MemReset` reads the image file with four loops that share one
line buffer: the header, the segments, and within a segment the instructions of
a code block or the words of a data block. Accesses outside the data are
undefined. Correct means: what is in the memory after a well-formed file has been
read is what the file describes.

### HW2: the cache simulator

`Cache` keeps for each set the entries, the most recent first, and counts hits
and misses; `seek`, `add_address`, `remove`, `mark_dirty` change it.
`handle_line` plays a read or a write on two inclusive write-back levels, with
or without write allocate; `main` sums the times. Correct means: no block twice
in a level, and each in its set; the second level includes the first; no write
is forgotten; the blocks that make room are the least recently used; and the
counts behind the printed rates add up.

### HW1: the branch predictor

`BranchPredictor` keeps the BTB (valid, tag, target, local history, local table
of two-bit machines), or a global history and a global table, in twelve
combinations with the three ways of sharing. The driver calls `BP_predict` and
`BP_update` for each line of a trace. Correct means: the entries, histories and
machines are what the trace says and nothing else (branches share exactly what
they should), the flushes are the wrong predictions, and a steady branch is
learned.

### HW3: the dataflow calculator

`analyzeProg` builds a graph: each instruction points to the last writers of
its two source registers, and an exit node points to the leaves through an array
that doubles when it is full. Three queries and `freeProgCtx` walk the graph from
the exit node. `dflow_main.c` reads the latencies and the program into a buffer
that grows by a quota, calls the analysis, and answers the arguments. Correct
means: no instruction is ever lost from the graph, the dependencies and depths
are those of the files, every node is freed once, nothing is written beyond a
buffer, and the program exits.

### Not modelled

* The parsing of the arguments of HW2 and of the trace files of HW1 and HW2, and
  the printing. The files of HW3 and HW4 are modelled line by line, but a line
  is what the code tells lines apart by: its characters are not modelled.
* The arithmetic of `get_bits` in `Cache.cpp`: set and tag stand for the number
  of the block.
* The test scripts and `Nadav_Tests`, which keep no state of the programs.
* `Thread_Handler::thread_free`, never called, and `get_valid_entries`, never
  defined; the second call of `SIM_MemReset`, which `main.c` does not make.
* The size that `BP_GetStats` computes, a formula of the parameters.
* Failures of `malloc` in the calculator, which it does not check.

Undefined behaviour is excluded by a guard or by an assumption (data addresses
outside the memory, opcodes outside the table, a null set) or ends the model in a
state of its own (`mode = "undefined"` of `MemImage`). These guards are not in
the code: `get_inst` checks neither the slot nor `tid` and writes outside its
array, where the model stops (`CanStore`, `Stray`). So no property says that the
code writes only inside its arrays for any file; `NeverUndefined` says it for
well-formed files that fit. Each case is listed with its line under `hazards` in
`PROJECT.json`.

## Modules

### HW4

| module | models |
|---|---|
| `ThreadISA` | the opcodes: `RegsAfter`, `MemAfter`, addresses, wrapping words |
| `InterleavedThreads` | the architecture: one `Execute` of any live thread per step. `ArchSpec` is the abstract specification |
| `CoreMT` | `Thread_Handler`. One step is one iteration of a loop of `run_program_*`: `FinegrainedIssue`, `FinegrainedIdle`, `BlockedIssueEvent`, `BlockedIssueOther`, `BlockedIdle` |
| `CoreMTHistory` | who was served last, which turns of each other thread a ready thread has seen |
| `SimMain`, `SimMainHistory` | `main`: run, collect contexts, construct the second core, run again |
| `MemImage` | `SIM_MemReset`: one step is one line read by one of its four loops, or the end of the file |
| `MemImageProperties` | what an image file describes, read off the positions of its lines |
| `CoreMT_proofs`, `CoreMTHistory_proofs`, `SimMain_proofs`, `MemImage_proofs` | theorems |
| `RecursionTheorems` | lemmas about induction, folds and sums, for the proofs of all parts |
| `MCCoreMT`, `MCCoreMTHistory`, `MCSimMain`, `MCMemImage` | small images and files |

`CoreMT` keeps the names of the code: `cycle` is `current_cycle`, `cur`
`current_thread_id`, `idle` `is_idle`, `nInst` `N_instructions`. Its variables
extend those of `InterleavedThreads`, so the refinement mapping of `ArchSpec` is
the identity on the registers, the memory, the program counters and the halted
flags. Images are chosen in `Init` and never change, so that one run covers a
whole set of programs and latencies.

A line of `MemImage` has a first character, a mark for an `@`, a number, and the
instruction it is if its first word is in `cmdStr`. Everything else about it
(spaces, hexadecimal digits, operands) is part of which instruction or number it
is. `tid` is an uninitialized local variable and starts with any value of
`GarbageTids`. A line whose first word is no command makes `get_inst` run off
`cmdStr`; so does a bare `NOP` without a space behind it, which is such a line.
The address of a code block is read by nobody and left out.

### HW2

| module | models |
|---|---|
| `LRUCache` | class `Cache`, as operators on one level |
| `CacheSim` | `handle_line` and `main`: one action per return path |
| `WriteBackHierarchy` | the promise: three sets of blocks, near, cached, modified |
| `CacheSimRefinement` | `CacheSim` implements it: modified means dirty in a level |
| `CacheSimHistory` | the order of last use, a set of pairs kept apart from the tables |
| `CacheReplay` | one trace of the tests, with its expected output |
| `CacheSim_proofs` | theorems, those about the refinement and the order of use included |
| `MCCacheSim`, `MCCacheSimHistory` | small hierarchies |

An address is modelled by the number of its block. The set is the block modulo
the number of sets, and within a set the tag identifies the block.

### HW1

| module | models |
|---|---|
| `BranchPredictor` | `bp.cpp`; the step `Line` is one turn of the loop of `bp_main.c`, a prediction and an update |
| `BranchPredictorHistory` | the trace and the printed predictions; what the tables must hold, computed from the trace |
| `BranchPredictor_proofs` | theorems |
| `MCBranchPredictor` | small predictors |

Histories are bit vectors, so that the exclusive or is taken bit by bit.
Addresses are numbers, from which `GetBits` takes index, tag and shared bits as
`get_bits` does. Addresses near 2^32 are excluded.

### HW3

| module | models |
|---|---|
| `DepTree` | `dflow_calc.cpp`: `AddInst`, `Disconnect` (one iteration of the loop), `LeaveLoop`, `Connect`, `Return`, `FreeProgCtx`, and the queries as operators |
| `DepTreeProperties` | what the API promises, stated on the trace alone |
| `DflowMain` | `main`: `readOpsLatency` and `readProgram` line by line, the analysis (`DepTree`, whose actions it composes with its own), the queries, every exit |
| `DflowMainProperties` | what the program must print, from the lines of its files alone |
| `DflowMain_proofs` | theorems about `DepTree` and about `DflowMain` |
| `MCDepTree`, `MCDflowMain` | small programs and files |

Nodes are numbers and pointers are indices (the entry node is 0; instructions
count from 1, in the code from 0). `deps` is the part of the exit array before
its first NULL: the shifts keep the NULLs at the end, but in a full array the
shift leaves the last slot with what it held, which is modelled. `opsLatency` is
the table the caller passes; it is chosen in `Init`, or filled by `DflowMain`.

`DflowMain` chooses each line and each argument when it is looked at, and keeps
it, so that one run covers all files. A line is blank, an instruction or a
latency, or cannot be parsed; a line of more than 80 characters is several
lines to `fgets`.

## Runs

### HW4

* `core_three_threads`: three threads that compute or load, latencies 0, 1 and
  4, penalties 0 and 3, both modes. `IssueSafe`: the current thread of a core
  that is not idle may run. `IdleMeansNoneFree`: an idle core overlooks nobody.
  `BoundedOvertaking`: a thread that is ready sees each other thread take at
  most one turn before its own; the turns are counted for each pair of threads.
  `LeavesOnlyWaiting`: the blocked core does not leave a thread
  that computes. `Termination`: all threads halt. Three threads are the least
  with which one can be skipped.
* `core_programs`: two threads, every opcode on words of four bits, so that sums
  and addresses wrap, and code behind the HALT; latencies shorter and longer than
  a program. `TypeOK`; `FetchInProgram`; `ArchSpec` is implemented;
  `CriticalPath`: no latency is cut short; `NeverSlowerThanSerial`: apart from
  penalties the core is never slower than running the programs one by one;
  `PrivateThreadsAreIsolated`: a thread that shares no word computes what it
  computes alone.
* `main_results`: the whole program. `SameResults`: programs that share no
  memory print the same registers in both runs where they read only what they
  have written; `PrintsOwnRegisters`; `CPIsComparable`; `Completes`.
* `image_loads`: files for two threads with code and data segments in three
  orders, with and without separators, blocks that fit exactly, leave room or
  are too long (two instructions and two words fit, `MaxInsts`, `MaxWords`), a
  thread without a program, parameters given twice; and all files of up to four
  lines of any kind (`ShortLength`) behind a header. `TypeOK`, for all these
  files: a block of code is stored from slot 0 on without a gap, whatever was
  stored before. `NeverUndefined` and
  `LoadsDescribedImage`: a file whose blocks fit and end with an empty line, a
  comment or the end of the file is read without leaving an array, and the
  memory then holds what the positions of its lines say.
* `image_adjacent` (violation): see Findings.

In the runs of the core words are narrow (`HalfWord`), with two registers and two
words of memory at addresses -4 and 0: every wrap happens within a program of two instructions.

### HW2

* `cache_hierarchy`: four blocks, one set of two ways above two sets of two
  ways. Three of the blocks compete for one set of the second level, so that it
  drops blocks from either place of the first. The view `TablesAndUses` leaves
  out the counts and the time, which nothing depends on and which grow with each
  line: the run visits every content of the tables, in every order of last use,
  that any trace reaches (`MaxLines`, 40, is beyond the depth at which nothing
  new appears). `TypeOK`, `CachesWellPlaced`, `Inclusion`; `LosesNoWrite` (the
  refinement of `WriteBackHierarchy`); `L1DropsLeastRecent`,
  `L2DropsLeastRecent`: the least recently used block makes room, where a
  write-back counts as a use in the second level; `Accounting`: every line looks
  up the first level once, every miss the second once, write-backs are not
  counted. Under the view `Accounting` is evaluated once for each content of
  the tables; the theorem `CountsAddUp` covers every trace.
* `cache_test284` (violation): see Findings.

### HW1

* `predictor_traces`: all twelve kinds of predictor with each first state of the
  machines, a history of two bits, and a BTB of three entries of which `log2`
  leaves two in use. The branches 4 and 65548 take one entry from each other,
  65540 aliases 4 in entry and tag but not in the bits shared by "mid", 8 uses
  the other entry, and targets change. Three lines of any kind are enough for a
  branch to lose its entry and regain it and for a history to overflow; `MCSpec`
  lets only traces of one steady branch go on, to eight lines, in which a
  machine passes through all its states and would wrap.
  `TypeOK`: the machines stay within two bits, and the index taken from an
  address is inside a BTB of three entries because the logarithm is truncated; `EntriesAreLastBranches`; `HistoriesAreOutcomes` and
  `MachinesAreCounters`: each history and machine has seen exactly the branches
  it should; `FlushesAreWrongPaths`; `LearnsSteadyBranch`: at most
  `HistSize + 2` flushes.
* `predictor_targets` (violation): see Findings.

### HW3

* `deps_graph`: all programs of four instructions over two registers and two
  latencies, an exit array of two slots that fills and doubles on the way (100
  in the code; the code depends on the number only by comparing with it).
  `TypeOK` (no cycles, no overflow), `AnswersLastWriters`, `ExitDepsAreLeaves`,
  `FreesEveryNodeOnce`; `DepthIsCriticalPath` and `ProgDepthIsLongestPath`,
  against the longest chain of dependencies of the trace. The registers are
  symmetric. With four instructions a graph has two paths to one node, and a
  leaf is replaced while others remain.
* `dflow_main`: the whole program on files of up to three program lines and any
  number of opcode lines over a table of two (`MaxOps`), a program buffer that
  grows by two (`Quota`), one argument (`MaxQueries`), blank and faulty lines
  anywhere, files that do not open and a `realloc` that fails. One opcode for
  each register written and one latency keep the number of files small.
  `AnswersAboutFiles`: numbers, latencies, depths and the exit status are those
  of the files; `BuffersSuffice`; `ExitsUnlessLastSlotShared`: the program exits
  unless it meets the one case below. A full exit array alone does no harm.
* `deps_full` (violation): see Findings.

### Deadlock and fairness

`CHECK_DEADLOCK FALSE` stands where the environment decides when to stop: a
trace may end after any line, and a freed context is the end. The runs of HW4
check for deadlock, and so does `dflow_main`; their programs stop in a state of
their own (`Terminated`, `Done`, `Exited`).

Liveness is checked under weak fairness of the whole next-state relation,
`WF_vars(Next)`: a sequential program keeps running. `FairMainSpec` says the same
of `dflow_main.c`; that its files and arguments end is the work of the bounds
`MaxLines` and `MaxQueries`. Nothing is assumed of the
scheduler of HW4 (that is what is checked), nor of which instruction comes next
in HW3, where `MaxInsts` ends the program.

## Findings

* `cache_test284`: a read that hits a dirty block of the second level fills the
  first level with a clean entry, so that dropping that entry does not refresh
  the block in the second level. `test284` then ends with 20 second level misses
  of 34 (0.588) where the expected output says 0.559.
* `predictor_targets`: `predict` never looks at the valid bit. With machines
  that start at WT or ST, a branch with tag 0 hits an entry that was never
  filled and is predicted to go to address 0.
* `image_adjacent`: the loop of a block ends when it has read the line that
  ends it, and the loop of the segments then reads the next one (`sim_api.c:220`,
  `233`). A `D@` line directly behind a code block is lost, and the words after
  it; `sim_api.h:29` and `33` say that a block goes on up to the next `@` line.
  The images of the repository put an empty line or a comment in between.
* `deps_full`: when the exit array is full and an instruction depends on the
  leaf in the last slot and takes another slot out too, the loop that
  disconnects them never ends. 100 instructions without dependencies followed by
  one that reads the results of the first and the last are such a program.

## Proofs

All theorems hold for every value of the constants under the named assumptions.
Every property of a passing run that is an invariant, an action property or a
refinement is a theorem.

*Recursion* (`RecursionTheorems`). Several properties say what a fold, a sum or a
recursive function over a trace, a program or a graph computes. The provers
cannot use an induction theorem that takes a predicate as a parameter, so this
module states induction for sets of numbers (`Induction`, `CompleteInduction`:
the set is the predicate) and derives from it what the other modules need: a
function defined by recursion along a rank exists and unfolds (`FunctionByRank`),
so do the folds of the community modules (`FoldExists`), a maximum is the
maximum (`MaxOfBounded`, `MaxIs`), and a sum over a set is the number of
elements of a disjoint union, its weight (`SumIsWeight`), which grows, shrinks
and compares summand by summand (`WeightAdd`, `WeightChange`, `WeightMonotone`).
Powers of two are positive and exceed their exponents (`PowerOfTwo`,
`PowerExceeds`), and every positive number has a truncated logarithm
(`LogExists`).

*Core* (`CoreMT_proofs`). Assumed: `ISAAssumption` and
`ImageAssumption`: at least one thread, latencies are natural numbers, each
program has a HALT. Addresses stay inside the data because `Execute` is guarded
by `Defined`. The inductive invariant is
`TypeOK /\ NoHaltBehind /\ IssueSafe /\ IdleMeansNoneFree`. `NoHaltBehind` (a
running thread has no HALT among the instructions it has executed) is what keeps
the fetch inside the program. `IssueSafe` needs that the search of
`switch_thread` covers all threads (`AfterCovers`, `SwitchFinds`) and that a
penalty only makes threads freer. Proved: `TypeCorrect`, `NeverIssuesBusyThread`,
`NeverIdleInVain`, `StaysInProgram`, `CoreImplementsThreads` (`Spec => ArchSpec`).

*Scheduling and time* (`CoreMTHistory_proofs`). The inductive invariant `HInv`
adds four parts to that of the core.
`OvertakenInv`, for `NobodyStarves`: a thread that has already overtaken one that
is ready (`HasPassed`) does not come before it again in the cyclic order that
starts behind the current thread; each switch moves along that order.
`LeavesForAReason` is the action property of the blocked mode.
`ClockInv`, for `NoLatencyIsCutShort`: the last issue of a thread is no earlier
than the time of serial execution of what it has executed before, where that
time (`Serial`) is unfolded from the fold that defines it.
`CostInv`, for `MultithreadingCostsOnlyPenalties`: the cycles spent *plus what the
threads still have to wait for* are at most the work done plus the penalties.
Without that summand the bound is not inductive: an idle cycle does no work, and
it is paid for because it shortens the wait of every thread that is still busy.
`ApartInv`, for `PrivateThreadsNeverInterfere`: as long as no word is used by two
threads, each has the registers of a run on its own and its words are as that
run has them, *and a word nobody has used yet is as the image has it*, which is
what the first access to a word needs. That words have been private up to now is
no history variable: the words a run alone has used only become more.

*Main program* (`SimMain_proofs`). `BothRunsAreSafe`: the invariant of the core
asks nothing of the contents of the memory, so that it holds again when the
second core starts. `PrintsWhatThreadsEndWith`: while main collects, the threads
before `k` have their final registers printed. `BothRunsCountTheSame`
(`CPIsComparable`): the instructions executed are counted as a set of pairs of a
thread and a position, which at the end of either simulation is the set of all
positions up to the first HALT of each program; the cycle count is never behind.
`BothRunsPrintTheSame` (`SameResults`) compares two complete runs, and does so
through a third one, of each thread on its own (`AloneIn`). `ReplayInv` is one
invariant for both simulations: each thread has the registers of its run alone,
a word that no other thread stores is as that run has it once the thread has
stored it, and a word that nobody ever stores is as in the image, in the memory
that the second simulation inherits too. What a step of the second simulation
needs to know of the future, that it will load nothing another thread stores, it
finds in the notes of the first one: they are those of the runs alone up to their
HALT (`NotesOf`), which both simulations reach.

*Image files* (`MemImage_proofs`). Assumed: `MemImageAssumption`: files are
sequences of lines, the arrays are not empty. `TypeCorrect` holds for any file,
but only as long as what the code does is defined: it says that each block of
code is stored without a gap, not that all of it fits.
For `ReadsWellFormedFiles` and `LoadsWhatIsDescribed` the invariant says of each
position in a well-formed file which loop reads there, which thread `tid` names,
and what the blocks read so far have left in the memory.

*Caches* (`CacheSim_proofs`). Assumed: `CacheAssumption`: at least one set and one way per level. The inductive invariant is
`Counters /\ Levels(l1, l2) /\ Accounting`, where `Levels` says that the entries
of both levels are well placed and the second level includes the first. These
need each other: a write-back leaves the blocks of the second level as they are
only because it finds its block, and a removal empties the first level of a
block only because the block was there once. The first half of the module states
what each operation of `Cache` does to the blocks, the places, the dirty marks and the
order, once for any geometry. Proved: `TypeCorrect`, `NoDuplicates`,
`L2IncludesL1`, `CountsAddUp`. `CachesLoseNoWrite`: each
return path of `handle_line` is a step of `WriteBackHierarchy` under the mapping
of `CacheSimRefinement`, from `Levels` and the lemmas on dirty marks.
`SecondLevelIsLRU` and `FirstLevelIsLRU`: the invariant `TablesInOrder` says that
each set holds its entries in the order of last use that `CacheSimHistory` keeps
(`InOrder`); the last of a full set is then the least recently used.

*Predictor* (`BranchPredictor_proofs`). Assumed: `PredictorAssumption`, of which
the part that matters is that the machines start at SNT to ST. That the index
taken from any address is inside the BTB is proved (`IndexInside`): the truncated
logarithm exists for every size (`LogExists`), the index is a number of that many
bits (`GetBitsType`), and two to that power is at most the size. `TypeOK` is
inductive as it stands.
`EntriesFollowTrace`, `HistoriesFollowTrace`, `MachinesCountOutcomes` and
`FlushesFollowTrace` are about the whole trace: the lemmas say how the last line
of an entry, the stay of a branch and the outcomes of a set of lines change when
a line is appended. A machine is the fold of a saturating counter over the lines
that selected it (`MachinesFollow`); the line appended selects one machine of the
table in use, and a fresh table starts the fold again.
`SteadyBranchIsLearned` needs to know when a flush is still possible: on a trace
of one branch with one outcome (`SteadyFollow`) the history is full of that
outcome after `HistSize` lines, after which all lines select the same machine,
which flushes at most twice.

*Dataflow calculator* (`DflowMain_proofs`, first part). Assumed: the assumptions of
`DepTree`. The inductive invariant is `GraphInv`, in five parts that hold between
two instructions and whenever `add_inst` is half done. `Shape`: pointers lead to
earlier instructions. `Writers`: they lead to the last writers of the trace.
`Connected`: the exit array holds exactly the leaves, or, in the loop, all old
leaves but those the new instruction depends on, of which the slots already
passed hold none. `Timed`: the depths and the greatest of them. `Freed`: the walk
of `freeProgCtx`. `Writers` and `Connected` need each other: the searches start
at the exit array and find every writer only because every instruction is
reached from a leaf (`HandedDown`), and a leaf is disconnected only when it is
one of the two pointers. What the recursive searches return is shown by
induction on the number of a node, which goes down with each dependency. From
the invariant: `TreeTyped`, `LastWritersAnswered`, `ExitNodesAreLeaves`,
`EveryNodeFreedOnce`, and, by induction over chains of dependencies,
`DepthsAreCriticalPaths` and `ProgDepthIsLongest`.

*Driver of HW3* (`DflowMain_proofs`, second part). Assumed: `DflowMainAssumption`
and the assumptions of `DepTree`; that a blank line is neither an instruction nor
a number is one of them. `BuffersNeverOverflow`: the program buffer, the table of
latencies and the exit array, for files of any length. `MainAnswersAboutFiles`
carries `GraphInv` along with the lines read so far: the program buffer is the
instructions among them, the table the latencies among them, the trace of the
graph the first part of the buffer.

*Only model-checked*: liveness (`Termination`, `Completes`,
`ExitsUnlessLastSlotShared`), which is out of the prover's reach, as is
`ENABLED`.
The four runs that end in a violation show a counterexample, of which nothing is
left to prove.

## Plan

Done, in this order: the core of HW4 with its abstract specification and its
main program; the caches of HW2; their theorems; the predictor of HW1; the
dataflow calculator of HW3; the reader of image files of HW4 and its theorems;
the main program of HW3; the refinement of the caches, their order of use, the
bound on overtaking, the tables of the predictor and the main program of HW4 as
theorems; induction over traces, programs and graphs, and with it the machines
of the predictor, the clock, the cost and the isolation of threads in HW4, the
results of both its simulations, and everything HW3 promises.

Left, in order of value:

1. `CacheBits`: `get_bits` and the split of an address, against the block and
   set numbers that `LRUCache` uses, with 32-bit shifts.
2. The characters of a line: which of them are the first word, the `@` and the
   number that `MemImage` starts from.
