------------------------- MODULE MemImageProperties -------------------------
(***************************************************************************)
(* What an image file says, read off the positions of its lines (sim_api.h *)
(* and the comments in HW4/tests/example1.img), and what SIM_MemReset      *)
(* makes of it.                                                            *)
(***************************************************************************)
EXTENDS MemImage, FiniteSetsExt

(***************************************************************************)
(* Types; and a program has no gaps: while a code block is read, each slot *)
(* of its thread in front of the next one holds an instruction, whatever   *)
(* blocks came before.  This is about what the model stores.  What does    *)
(* not fit the code stores too, outside its arrays: there the model stops, *)
(* and NeverUndefined says which files never come to that.                 *)
(***************************************************************************)
TypeOK ==
  /\ file \in Files
  /\ pos \in 0 .. Len(file)
  /\ mode \in {"header", "segments", "code", "data",
               "returned", "failed", "undefined"}
  /\ tid \in Int /\ next \in Nat
  /\ loadLat \in Int /\ storeLat \in Int /\ switchCyc \in Int
  /\ nThreads \in Int /\ dataStart \in Int
  /\ prog \in [Threads -> Seq(Inst)]
  /\ data \in [0 .. MaxWords - 1 -> Int]
  /\ mode = "code" /\ next > 0 => tid \in Threads /\ next <= Len(prog[tid])

-----------------------------------------------------------------------------
IsInst(l) == l.inst # NoInst
IsWord(l) == l.first = "digit"
IsThread(l) == l.first = "T"
InCode(l) == IsInst(l) \/ Opens(l, "I")
InData(l) == IsWord(l) \/ Opens(l, "D")
IsSegment(l) == Opens(l, "I") \/ Opens(l, "D")

\* Line h of f ends the header.
EndsHeader(f, h) ==
  f[h].first = "N" /\ \A q \in 1 .. h - 1 : f[q].first # "N"

\* The lines of a block are followed by lines of the block or a separator.
Separated(f, h, Separator(_)) ==
  \A p \in h + 1 .. Len(f) - 1 :
    /\ InCode(f[p]) => IsInst(f[p + 1]) \/ Separator(f[p + 1])
    /\ InData(f[p]) => IsWord(f[p + 1]) \/ Separator(f[p + 1])

\* After the head at p come at most n lines before the block is over.
Fits(f, p, n) ==
  \E k \in 0 .. n : p + k = Len(f) \/ (p + k < Len(f) /\ Blank(f[p + k + 1]))

\* The threads named exist, and each code block comes after a T line.
ThreadsNamed(f, h) ==
  /\ f[h].num \in Nat
  /\ \A p \in h + 1 .. Len(f) : IsThread(f[p]) => f[p].num \in 0 .. f[h].num - 1
  /\ \A p \in h + 1 .. Len(f) :
       Opens(f[p], "I") => \E q \in h + 1 .. p - 1 : IsThread(f[q])

Fitting(f, h) ==
  \A p \in h + 1 .. Len(f) :
    /\ Opens(f[p], "I") => p < Len(f) /\ Fits(f, p, MaxInsts)
    /\ Opens(f[p], "D") => Fits(f, p, MaxWords)

WellFormed(f, h) ==
  /\ EndsHeader(f, h)
  /\ ThreadsNamed(f, h)
  /\ Separated(f, h, Blank)
  /\ Fitting(f, h)

(***************************************************************************)
(* A file whose blocks end with an empty line, a comment or the file       *)
(* itself, and fit, is read without leaving cmdStr or an array: each line  *)
(* reaches the loop that understands it.                                   *)
(***************************************************************************)
NeverUndefined ==
  mode = "undefined" => \A h \in DOMAIN file : ~WellFormed(file, h)

-----------------------------------------------------------------------------
\* The parameter c: the last line of the header that gives it, or zero.
Given(f, h, c) ==
  LET lines == {p \in 1 .. h : f[p].first = c}
  IN  IF lines = {} THEN 0 ELSE f[Max(lines)].num

Heads(f, h, c) == {p \in h + 1 .. Len(f) : Opens(f[p], c)}
ThreadOf(f, h, p) == f[Max({q \in h + 1 .. p : IsThread(f[q])})].num

\* The lines of a kind that follow line p without a gap.
Body(f, p, Kind(_)) ==
  SubSeq(f, p + 1,
         Max({q \in p .. Len(f) : \A r \in p + 1 .. q : Kind(f[r])}))

Program(f, h, t) ==
  LET heads == {p \in Heads(f, h, "I") : ThreadOf(f, h, p) = t}
      lines == IF heads = {} THEN <<>> ELSE Body(f, Max(heads), IsInst)
  IN  [k \in DOMAIN lines |-> lines[k].inst]

Words(f, h) ==
  LET heads == Heads(f, h, "D")
  IN  IF heads = {} THEN <<>> ELSE Body(f, Max(heads), IsWord)

Described(f, h) ==
  LET words == Words(f, h)
  IN  [loadLat |-> Given(f, h, "L"), storeLat |-> Given(f, h, "S"),
       switchCyc |-> Given(f, h, "O"),
       prog |-> [t \in 0 .. f[h].num - 1 |-> Program(f, h, t)],
       dataStart |-> IF Heads(f, h, "D") = {} THEN 0 ELSE f[Max(Heads(f, h, "D"))].num,
       data |-> [w \in 0 .. MaxWords - 1 |->
                   IF w < Len(words) THEN words[w + 1].num ELSE 0]]

Loaded ==
  [loadLat |-> loadLat, storeLat |-> storeLat, switchCyc |-> switchCyc,
   prog |-> prog, dataStart |-> dataStart, data |-> data]

\* One program for a thread, one block of data.
OneBlockEach(f, h) ==
  /\ \A p, q \in Heads(f, h, "I") : ThreadOf(f, h, p) = ThreadOf(f, h, q) => p = q
  /\ \A p, q \in Heads(f, h, "D") : p = q

(***************************************************************************)
(* What SIM_MemReset leaves in the memory is what such a file describes:   *)
(* each thread has exactly its own instructions in their order, the words  *)
(* of data are where they belong and all others are zero, and the          *)
(* parameters are those of the header.                                     *)
(***************************************************************************)
LoadsDescribedImage ==
  mode = "returned" =>
    \A h \in DOMAIN file :
      WellFormed(file, h) /\ OneBlockEach(file, h) => Loaded = Described(file, h)

(***************************************************************************)
(* sim_api.h, lines 29 and 33: a block goes on up to the next @ line.      *)
(***************************************************************************)
BlockOrSegment(l) == Blank(l) \/ IsSegment(l)

BlocksEndAtNextSegment ==
  mode = "returned" =>
    \A h \in DOMAIN file :
      /\ EndsHeader(file, h)
      /\ ThreadsNamed(file, h)
      /\ Separated(file, h, BlockOrSegment)
      /\ OneBlockEach(file, h)
      => Loaded = Described(file, h)
=============================================================================
