----------------------- MODULE BranchPredictor_proofs -----------------------
(***************************************************************************)
(* The tables of the branch predictor keep their type and hold what the    *)
(* trace says, down to each two-bit machine, for every size of the BTB, of *)
(* the histories and of the tags and for traces of any length.             *)
(***************************************************************************)
EXTENDS BranchPredictorHistory, RecursionTheorems

\* The configuration never changes: FreshMachines is a table of machines.
LEMMA FreshMachinesType ==
  ASSUME conf \in Config
  PROVE  FreshMachines \in Machines
BY PredictorAssumption DEF FreshMachines, Machines, Config

\* Combining a history with bits of the address gives an index of the table.
LEMMA SharedType ==
  ASSUME NEW h \in HistIndex, NEW pc
  PROVE  Shared(h, pc) \in HistIndex
<1> DEFINE g == PcBits(pc, IF conf.shared = "lsb" THEN 2 ELSE 16)
<1>1. Xor(h, g) \in HistIndex
  BY DEF Xor, HistIndex
<1> QED BY <1>1 DEF Shared

\* A machine that saturates stays a two-bit machine.
LEMMA StepType ==
  ASSUME NEW state \in SNT..ST, NEW taken \in BOOLEAN
  PROVE  Step(state, taken) \in SNT..ST
BY DEF Step, SNT, ST

LEMMA TrainedType ==
  ASSUME NEW machines \in Machines, NEW h \in HistIndex, NEW taken \in BOOLEAN
  PROVE  Trained(machines, h, taken) \in Machines
<1> machines[h] \in SNT..ST
  BY DEF Machines
<1> QED BY StepType DEF Trained, Machines

LEMMA PushType ==
  ASSUME NEW history \in HistIndex, NEW taken \in BOOLEAN
  PROVE  Push(history, taken) \in HistIndex
<1> SUFFICES ASSUME NEW b \in Bit
             PROVE  (IF b = 0 THEN taken ELSE history[b - 1]) \in BOOLEAN
  BY DEF Push, HistIndex
<1> b # 0 => b - 1 \in Bit
  BY PredictorAssumption DEF Bit
<1> QED BY DEF HistIndex

LEMMA NoHistoryType == NoHistory \in HistIndex
BY DEF NoHistory, HistIndex

\* An entry stays an entry when a branch claims it.
LEMMA ClaimedType ==
  ASSUME conf \in Config, NEW entry \in Entry, NEW tag \in Nat
  PROVE  Claimed(entry, tag) \in Entry
BY FreshMachinesType, NoHistoryType DEF Claimed, Entry

\* What get_bits takes is below two to the number of its bits.
LEMMA GetBitsType ==
  ASSUME NEW number \in Nat, NEW start \in Nat, NEW n \in Nat
  PROVE  GetBits(number, start, n) \in 0 .. 2^n - 1
<1> DEFINE p == 2^start
           q == 2^n
<1>1. p \in Nat /\ p >= 1 /\ q \in Nat /\ q >= 1
  BY PowerOfTwo
<1> HIDE DEF p, q
<1>2. number \div p \in Nat
  BY <1>1
<1>3. (number \div p) % q \in 0 .. q - 1
  BY <1>1, <1>2
<1> QED BY <1>3 DEF GetBits, p, q

\* The truncated logarithm gives indices inside the BTB.
LEMMA IndexInside ==
  ASSUME NEW pc \in PC
  PROVE  Index(pc) \in 0..BTBSize-1 /\ TagOf(pc) \in Nat
<1>1. /\ pc \in Nat /\ BTBSize \in Nat \ {0} /\ TagSize \in Nat
  BY PredictorAssumption
<1>2. IndexBits \in 0..BTBSize /\ 2^IndexBits <= BTBSize
  <2>1. \E n \in 0..BTBSize : 2^n <= BTBSize /\ BTBSize < 2^(n + 1)
    BY <1>1, LogExists
  <2> QED BY <2>1, Zenon DEF IndexBits
<1> DEFINE n == IndexBits
<1>3. n \in Nat /\ 2 + n \in Nat
  BY <1>1, <1>2
<1> HIDE DEF n
<1>4. GetBits(pc, 2, n) \in 0 .. 2^n - 1 /\ GetBits(pc, 2 + n, TagSize) \in 0 .. 2^TagSize - 1
  <2>1. GetBits(pc, 2, n) \in 0 .. 2^n - 1
    BY <1>1, <1>3, GetBitsType
  <2>2. GetBits(pc, 2 + n, TagSize) \in 0 .. 2^TagSize - 1
    BY <1>1, <1>3, GetBitsType
  <2> QED BY <2>1, <2>2
<1> DEFINE q == 2^n
           i == GetBits(pc, 2, n)
<1>5. q \in Nat /\ q <= BTBSize /\ i \in 0 .. q - 1
  BY <1>2, <1>3, <1>4, PowerOfTwo DEF n
<1> HIDE DEF q, i
<1>6. i \in 0..BTBSize-1
  BY <1>1, <1>5
<1>7. GetBits(pc, 2 + n, TagSize) \in Nat
  BY <1>4
<1> QED BY <1>6, <1>7 DEF Index, TagOf, i, n

LEMMA InitTypeOK == Init => TypeOK
<1> SUFFICES ASSUME Init PROVE TypeOK
  OBVIOUS
<1>1. DefEntry \in Entry
  BY FreshMachinesType, NoHistoryType DEF DefEntry, Entry, Init
<1>2. \A pc \in PC : Index(pc) \in DOMAIN btb
  BY IndexInside DEF Init
<1> QED BY <1>1, <1>2, FreshMachinesType, NoHistoryType, PredictorAssumption DEF Init, TypeOK

LEMMA LineKeepsType ==
  ASSUME TypeOK, NEW pc \in PC, NEW target \in Target, NEW taken \in BOOLEAN,
         Line(pc, target, taken)
  PROVE  TypeOK'
<1> DEFINE old   == btb[Index(pc)]
           entry == Claimed(old, TagOf(pc))
           h     == MachineFor(entry, pc)
           new   == [entry EXCEPT
                       !.target = target,
                       !.machines = IF conf.globalTable THEN @ ELSE Trained(@, h, taken),
                       !.history = IF conf.globalHist THEN @ ELSE Push(@, taken)]
<1>1. Index(pc) \in 0..BTBSize-1 /\ TagOf(pc) \in Nat /\ pc \in Nat /\ target \in Nat
  BY PredictorAssumption, IndexInside
<1>2. old \in Entry
  BY <1>1 DEF TypeOK
<1>3. entry \in Entry
  BY <1>1, <1>2, ClaimedType DEF TypeOK
<1>4. h \in HistIndex
  <2>1. HistoryOf(entry) \in HistIndex
    BY <1>3 DEF HistoryOf, Entry, TypeOK
  <2> QED BY <2>1, SharedType DEF MachineFor
<1>5. new \in Entry
  <2>1. Trained(entry.machines, h, taken) \in Machines /\ Push(entry.history, taken) \in HistIndex
    BY <1>3, <1>4, TrainedType, PushType DEF Entry
  <2> HIDE DEF entry, h
  <2> QED BY <1>1, <1>3, <2>1 DEF Entry
<1>6. btb' \in [0..BTBSize-1 -> Entry]
  <2>1. btb' = [btb EXCEPT ![Index(pc)] = new]
    BY DEF Line
  <2> HIDE DEF new
  <2> QED BY <2>1, <1>5 DEF TypeOK
<1>7. globalMachines' \in Machines
  <2>1. globalMachines' = IF conf.globalTable THEN Trained(globalMachines, h, taken)
                          ELSE globalMachines
    BY DEF Line
  <2> HIDE DEF h
  <2> QED BY <2>1, <1>4, TrainedType DEF TypeOK
<1>8. globalHistory' \in HistIndex
  BY PushType DEF Line, TypeOK
<1>9. dst' \in Nat
  <2>1. dst' = IF PredictsTaken(old, pc) THEN old.target ELSE pc + 4
    BY DEF Line, Predict
  <2> QED BY <1>1, <1>2, <2>1 DEF Entry
<1>10. branches' \in 0..MaxLines /\ flushes' \in 0..branches'
  <2>1. /\ branches < MaxLines /\ branches' = branches + 1
        /\ flushes' = flushes \/ flushes' = flushes + 1
    BY DEF Line
  <2> QED BY <2>1, PredictorAssumption DEF TypeOK
<1>11. conf' \in Config
  BY DEF Line, TypeOK
<1>12. \A k \in PC : Index(k) \in DOMAIN btb'
  BY <1>6, IndexInside
<1> QED BY <1>6, <1>7, <1>8, <1>9, <1>10, <1>11, <1>12 DEF TypeOK, Machines, Entry

-----------------------------------------------------------------------------
(***************************************************************************)
(* Every machine stays a two-bit machine, no branch is counted as two      *)
(* flushes, and every index taken from an address is inside the BTB,       *)
(* whatever its size.                                                      *)
(***************************************************************************)
THEOREM TypeCorrect == Spec => []TypeOK
<1>1. TypeOK /\ [Next]_vars => TypeOK'
  <2> SUFFICES ASSUME TypeOK, [Next]_vars PROVE TypeOK'
    OBVIOUS
  <2>1. CASE Next
    BY <2>1, LineKeepsType DEF Next
  <2>2. CASE UNCHANGED vars
    BY <2>2 DEF vars, TypeOK, Machines, Entry
  <2> QED BY <2>1, <2>2
<1> QED BY <1>1, InitTypeOK, PTL DEF Spec

-----------------------------------------------------------------------------
\* A trace that goes on by one line.  The definitions of BranchPredictorHistory
\* are taken here for any sequence ls of lines.

TraceLine == [pc : PC, target : Target, taken : BOOLEAN]

EntryLines(ls, i) == {n \in DOMAIN ls : Index(ls[n].pc) = i}

IsLast(S, n) == n \in S /\ \A m \in S : m <= n

\* The lines of entry i behind which only branches with tag use it.
TagLines(ls, i, tag) ==
  {m \in EntryLines(ls, i) :
     \A k \in EntryLines(ls, i) : k >= m => TagOf(ls[k].pc) = tag}

StayLines(ls, i) ==
  IF EntryLines(ls, i) = {} THEN {}
  ELSE TagLines(ls, i, TagOf(ls[LastOf(EntryLines(ls, i))].pc))

OutcomesIn(ls, S) ==
  [b \in Bit |-> \E n \in S : ls[n].taken /\ Cardinality({m \in S : m > n}) = b]

GoesOn(ls, l, ls2) ==
  /\ ls \in Seq(TraceLine) /\ l \in TraceLine
  /\ ls2 \in Seq(TraceLine)
  /\ Len(ls2) = Len(ls) + 1
  /\ \A n \in DOMAIN ls : ls2[n] = ls[n]
  /\ ls2[Len(ls) + 1] = l

LEMMA LastOfMax ==
  ASSUME NEW S \in SUBSET Nat, NEW n, IsLast(S, n)
  PROVE  LastOf(S) = n
<1>1. n \in S /\ \A m \in S : m <= n
  BY DEF IsLast
<1>2. LastOf(S) \in S /\ \A m \in S : m <= LastOf(S)
  BY <1>1, Zenon DEF LastOf
<1>3. LastOf(S) <= n /\ n <= LastOf(S) /\ n \in Nat /\ LastOf(S) \in Nat
  BY <1>1, <1>2
<1> QED BY <1>3

LEMMA EntryLinesNext ==
  ASSUME NEW ls, NEW l, NEW ls2, GoesOn(ls, l, ls2), NEW i
  PROVE  /\ Index(l.pc) = i => EntryLines(ls2, i) = EntryLines(ls, i) \cup {Len(ls) + 1}
         /\ Index(l.pc) # i => EntryLines(ls2, i) = EntryLines(ls, i)
<1>1. /\ DOMAIN ls = 1 .. Len(ls) /\ Len(ls) \in Nat
      /\ DOMAIN ls2 = DOMAIN ls \cup {Len(ls) + 1}
  BY DEF GoesOn
<1> QED BY <1>1 DEF GoesOn, EntryLines

LEMMA EntryLinesAre ==
  ASSUME NEW ls \in Seq(TraceLine), NEW i
  PROVE  /\ EntryLines(ls, i) \subseteq 1 .. Len(ls)
         /\ EntryLines(ls, i) \in SUBSET Nat
         /\ Len(ls) \in Nat
BY DEF EntryLines

\* The new line is the last of its entry.
LEMMA NewIsLast ==
  ASSUME NEW ls, NEW l, NEW ls2, GoesOn(ls, l, ls2)
  PROVE  /\ IsLast(EntryLines(ls2, Index(l.pc)), Len(ls) + 1)
         /\ LastOf(EntryLines(ls2, Index(l.pc))) = Len(ls) + 1
<1> DEFINE i == Index(l.pc)
           E == EntryLines(ls2, i)
<1>1. E = EntryLines(ls, i) \cup {Len(ls) + 1}
  BY EntryLinesNext
<1>2. /\ EntryLines(ls, i) \subseteq 1 .. Len(ls) /\ Len(ls) \in Nat
  BY EntryLinesAre DEF GoesOn
<1> HIDE DEF E, i
<1>3. IsLast(E, Len(ls) + 1) /\ E \in SUBSET Nat
  BY <1>1, <1>2 DEF IsLast
<1>4. LastOf(E) = Len(ls) + 1
  BY <1>3, LastOfMax
<1> QED BY <1>3, <1>4 DEF E, i

\* Entries that the line does not use are as they were.
LEMMA OtherEntry ==
  ASSUME NEW ls, NEW l, NEW ls2, GoesOn(ls, l, ls2), NEW i, i # Index(l.pc),
         EntryLines(ls, i) # {} => IsLast(EntryLines(ls, i), LastOf(EntryLines(ls, i)))
  PROVE  /\ EntryLines(ls2, i) = EntryLines(ls, i)
         /\ StayLines(ls2, i) = StayLines(ls, i)
         /\ EntryLines(ls, i) # {} =>
              ls2[LastOf(EntryLines(ls, i))] = ls[LastOf(EntryLines(ls, i))]
<1> DEFINE E == EntryLines(ls, i)
<1>1. EntryLines(ls2, i) = E
  BY EntryLinesNext
<1>2. \A n \in E : ls2[n] = ls[n]
  BY DEF EntryLines, GoesOn
<1>3. E # {} => LastOf(E) \in E
  BY DEF IsLast
<1>4. \A tag : TagLines(ls2, i, tag) = TagLines(ls, i, tag)
  BY <1>1, <1>2 DEF TagLines
<1> HIDE DEF E
<1> QED BY <1>1, <1>2, <1>3, <1>4 DEF StayLines, E

\* The entry the line uses: its stay goes on if the tag is the same, and
\* starts anew if it is not.
LEMMA OwnEntry ==
  ASSUME NEW ls, NEW l, NEW ls2, GoesOn(ls, l, ls2), NEW tag,
         LET E == EntryLines(ls, Index(l.pc))
         IN  E # {} => IsLast(E, LastOf(E)) /\ tag = TagOf(ls[LastOf(E)].pc)
  PROVE  /\ tag = TagOf(l.pc) =>
              StayLines(ls2, Index(l.pc)) = StayLines(ls, Index(l.pc)) \cup {Len(ls) + 1}
         /\ tag # TagOf(l.pc) => StayLines(ls2, Index(l.pc)) = {Len(ls) + 1}
<1> DEFINE i  == Index(l.pc)
           E  == EntryLines(ls, i)
           E2 == EntryLines(ls2, i)
           N  == Len(ls) + 1
           t  == TagOf(l.pc)
<1>1. E2 = E \cup {N} /\ LastOf(E2) = N /\ ls2[N] = l
  <2>1. ls2[N] = l
    BY DEF GoesOn
  <2>2. LastOf(E2) = N
    BY NewIsLast
  <2>3. E2 = E \cup {N}
    BY EntryLinesNext
  <2> QED BY <2>1, <2>2, <2>3
<1>2. /\ \A n \in E : ls2[n] = ls[n]
      /\ \A n \in E : n \in Nat /\ n < N
      /\ N \in Nat
  <2>1. E \subseteq 1 .. Len(ls) /\ Len(ls) \in Nat
    BY EntryLinesAre DEF GoesOn
  <2> QED BY <2>1 DEF EntryLines, GoesOn
<1>3. E # {} => LastOf(E) \in E /\ (\A m \in E : m <= LastOf(E))
                /\ tag = TagOf(ls[LastOf(E)].pc)
  BY DEF IsLast
<1>4. StayLines(ls2, i) = {m \in E2 : \A k \in E2 : k >= m => TagOf(ls2[k].pc) = t}
  BY <1>1 DEF StayLines, TagLines
<1>5. E # {} => StayLines(ls, i) = {m \in E : \A k \in E : k >= m => TagOf(ls[k].pc) = tag}
  BY <1>3 DEF StayLines, TagLines
<1>6. E = {} => StayLines(ls, i) = {}
  BY DEF StayLines
<1> HIDE DEF i, E, E2, N, t
<1>7. N \in StayLines(ls2, i)
  <2>1. \A k \in E2 : k >= N => k = N
    BY <1>1, <1>2
  <2> QED BY <1>1, <1>4, <2>1 DEF t
<1>8. ASSUME NEW m \in E
      PROVE  m \in StayLines(ls2, i) <=>
               \A k \in E : k >= m => TagOf(ls[k].pc) = t
  BY <1>1, <1>2, <1>4 DEF t
<1>9. StayLines(ls2, i) \subseteq E \cup {N}
  BY <1>1, <1>4
<1>10. ASSUME tag = t
       PROVE  StayLines(ls2, i) = StayLines(ls, i) \cup {N}
  BY <1>5, <1>6, <1>7, <1>8, <1>9, <1>10
<1>11. ASSUME tag # t, NEW m \in E
       PROVE  m \notin StayLines(ls2, i)
  BY <1>2, <1>3, <1>8, <1>11
<1>12. ASSUME tag # t
       PROVE  StayLines(ls2, i) = {N}
  BY <1>7, <1>9, <1>11, <1>12
<1> QED BY <1>10, <1>12 DEF i, N, t

\* The lines of a stay are lines.
LEMMA StayLinesAre ==
  ASSUME NEW ls, NEW i
  PROVE  StayLines(ls, i) \subseteq DOMAIN ls
BY DEF StayLines, TagLines, EntryLines

-----------------------------------------------------------------------------
\* Outcomes of a set of lines.

LEMMA NoOutcomes ==
  ASSUME NEW ls
  PROVE  OutcomesIn(ls, {}) = NoHistory
BY DEF OutcomesIn, NoHistory

\* Lines that are read later change nothing of a set of earlier ones.
LEMMA SameOutcomes ==
  ASSUME NEW ls, NEW l, NEW ls2, GoesOn(ls, l, ls2), NEW S, S \subseteq DOMAIN ls
  PROVE  OutcomesIn(ls2, S) = OutcomesIn(ls, S)
<1>1. \A n \in S : ls2[n] = ls[n]
  BY DEF GoesOn
<1> QED BY <1>1 DEF OutcomesIn

\* How many lines of a set follow line n, when the set grows.
LEMMA OneFollowsMore ==
  ASSUME NEW K \in Nat, NEW S, S \subseteq 1 .. K, NEW n \in S
  PROVE  /\ Cardinality({m \in S \cup {K + 1} : m > n}) \in Nat \ {0}
         /\ Cardinality({m \in S : m > n}) =
              Cardinality({m \in S \cup {K + 1} : m > n}) - 1
         /\ Cardinality({m \in S : m > n}) \in Nat
<1> DEFINE T == {m \in S : m > n}
<1>1. {m \in S \cup {K + 1} : m > n} = T \cup {K + 1} /\ K + 1 \notin T
  OBVIOUS
<1>2. IsFiniteSet(T)
  <2>1. IsFiniteSet(1 .. K)
    BY FS_Interval
  <2>2. T \subseteq 1 .. K
    OBVIOUS
  <2> QED BY <2>1, <2>2, FS_Subset
<1> HIDE DEF T
<1>3. Cardinality(T) \in Nat /\ Cardinality(T \cup {K + 1}) = Cardinality(T) + 1
  BY <1>1, <1>2, FS_CardinalityType, FS_AddElement
<1> QED BY <1>1, <1>3 DEF T

\* The line that comes next is pushed into the outcomes.
LEMMA PushedOutcomes ==
  ASSUME NEW ls, NEW l, NEW ls2, GoesOn(ls, l, ls2), NEW S, S \subseteq DOMAIN ls
  PROVE  OutcomesIn(ls2, S \cup {Len(ls) + 1}) = Push(OutcomesIn(ls, S), l.taken)
<1> DEFINE K == Len(ls)
           R == S \cup {K + 1}
           Behind(n) == Cardinality({m \in R : m > n})
           Before(n) == Cardinality({m \in S : m > n})
<1>1. K \in Nat /\ S \subseteq 1 .. K
  BY DEF GoesOn
<1>2. \A n \in S : Behind(n) \in Nat \ {0} /\ Before(n) = Behind(n) - 1
  <2> HIDE DEF K
  <2> TAKE n \in S
  <2>1. /\ Cardinality({m \in S \cup {K + 1} : m > n}) \in Nat \ {0}
        /\ Cardinality({m \in S : m > n}) =
             Cardinality({m \in S \cup {K + 1} : m > n}) - 1
    BY <1>1, OneFollowsMore
  <2> QED BY <2>1
<1>3. Behind(K + 1) = 0
  <2>1. {m \in R : m > K + 1} = {}
    BY <1>1
  <2> QED BY <2>1, FS_EmptySet
<1>4. /\ ls2[K + 1].taken = l.taken /\ l.taken \in BOOLEAN
      /\ \A n \in S : ls2[n] = ls[n]
  BY DEF GoesOn, TraceLine
<1>5. OutcomesIn(ls2, R) = [b \in Bit |-> \E n \in R : ls2[n].taken /\ Behind(n) = b]
  BY DEF OutcomesIn
<1>6. OutcomesIn(ls, S) = [b \in Bit |-> \E n \in S : ls[n].taken /\ Before(n) = b]
  BY DEF OutcomesIn
<1>7. \A n : n \in R <=> n \in S \/ n = K + 1
  OBVIOUS
<1> HIDE DEF K, R, Behind, Before
<1>8. ASSUME NEW b \in Bit
      PROVE  (\E n \in R : ls2[n].taken /\ Behind(n) = b)
               = (IF b = 0 THEN l.taken ELSE OutcomesIn(ls, S)[b - 1])
  <2>1. b \in Nat
    BY PredictorAssumption DEF Bit
  <2>2. CASE b = 0
    <3>1. (\E n \in R : ls2[n].taken /\ Behind(n) = b) <=> l.taken
      BY <1>2, <1>3, <1>4, <1>7, <2>2
    <3> QED BY <1>4, <2>2, <3>1
  <2>3. CASE b # 0
    <3>1. b - 1 \in Bit
      BY <2>1, <2>3, PredictorAssumption DEF Bit
    <3>2. (\E n \in R : ls2[n].taken /\ Behind(n) = b)
            <=> (\E n \in S : ls[n].taken /\ Before(n) = b - 1)
      BY <1>2, <1>3, <1>4, <1>7, <2>1, <2>3
    <3>3. OutcomesIn(ls, S)[b - 1] = (\E n \in S : ls[n].taken /\ Before(n) = b - 1)
      BY <1>6, <3>1
    <3> QED BY <2>3, <3>2, <3>3
  <2> QED BY <2>2, <2>3
<1>9. OutcomesIn(ls2, R) = Push(OutcomesIn(ls, S), l.taken)
  BY <1>5, <1>8 DEF Push
<1> QED BY <1>9 DEF R, K

-----------------------------------------------------------------------------
\* Counters over a sequence of lines.

Raised(s) == Min({s + 1, ST})
Lowered(s) == Max({s - 1, SNT})
Counted(ls, S, s, n) ==
  IF n \notin S THEN s ELSE IF ls[n].taken THEN Raised(s) ELSE Lowered(s)

CountIn(ls, first, S) ==
  FoldLeft(LAMBDA s, n : Counted(ls, S, s, n), first, [n \in DOMAIN ls |-> n])

CountIs(f, ls, first, S) ==
  f = [s \in SUBSET DOMAIN [n \in DOMAIN ls |-> n] |->
         IF s = {} THEN first
         ELSE Counted(ls, S, f[s \ {Max(s)}], [n \in DOMAIN ls |-> n][Max(s)])]

\* The counter after the first lines, one line after the other.
CountsBy(f, ls, first, S) ==
  /\ CountIn(ls, first, S) = f[1..Len(ls)]
  /\ f[1..0] = first
  /\ \A j \in 1..Len(ls) :
       f[1..j] = IF j \in S THEN Step(f[1..(j-1)], ls[j].taken) ELSE f[1..(j-1)]

\* A counter that saturates is a machine.
LEMMA CountedStep ==
  ASSUME NEW s \in SNT..ST
  PROVE  Raised(s) = Step(s, TRUE) /\ Lowered(s) = Step(s, FALSE)
<1>1. s \in 0..3 /\ SNT = 0 /\ ST = 3
  BY DEF SNT, ST
<1>2. Raised(s) \in {s + 1, 3} /\ Raised(s) <= s + 1 /\ Raised(s) <= 3
  <2> DEFINE T == {s + 1, 3}
             m == IF s + 1 <= 3 THEN s + 1 ELSE 3
  <2>1. m \in T /\ \A y \in T : m <= y
    BY <1>1
  <2>2. Raised(s) = Min(T)
    BY <1>1 DEF Raised
  <2>3. s + 1 \in T /\ 3 \in T
    OBVIOUS
  <2> HIDE DEF T, m
  <2>4. Min(T) \in T /\ \A y \in T : Min(T) <= y
    BY <2>1, Zenon DEF Min
  <2> QED BY <2>2, <2>3, <2>4 DEF T
<1>3. Lowered(s) \in {s - 1, 0} /\ Lowered(s) >= s - 1 /\ Lowered(s) >= 0
  <2> DEFINE T == {s - 1, 0}
             m == IF s - 1 >= 0 THEN s - 1 ELSE 0
  <2>1. m \in T /\ \A y \in T : m >= y
    BY <1>1
  <2>2. Lowered(s) = Max(T)
    BY <1>1 DEF Lowered
  <2>3. s - 1 \in T /\ 0 \in T
    OBVIOUS
  <2> HIDE DEF T, m
  <2>4. Max(T) \in T /\ \A y \in T : Max(T) >= y
    BY <2>1, Zenon DEF Max
  <2> QED BY <2>2, <2>3, <2>4 DEF T
<1> QED BY <1>1, <1>2, <1>3 DEF Step, SNT, ST

LEMMA CountUnfolds ==
  ASSUME NEW ls \in Seq(TraceLine), NEW first \in SNT..ST, NEW S
  PROVE  \E f : CountsBy(f, ls, first, S)
<1> DEFINE n == Len(ls)
           V == SNT..ST
           F == [j \in 1..n |-> [v \in V |-> Counted(ls, S, v, j)]]
<1>0. n \in Nat /\ DOMAIN ls = 1..n /\ \A j \in 1..n : ls[j].taken \in BOOLEAN
  <2>1. \A r \in TraceLine : r.taken \in BOOLEAN
    BY DEF TraceLine
  <2>2. n \in Nat /\ DOMAIN ls = 1..n /\ \A j \in 1..n : ls[j] \in TraceLine
    OBVIOUS
  <2> QED BY <2>1, <2>2
<1>1. CountIn(ls, first, S) = (CHOOSE f : CountIs(f, ls, first, S))[DOMAIN ls]
  BY DEF CountIn, CountIs, FoldLeft, MapThenFoldSet
<1>a. ASSUME NEW v \in V, NEW j \in 1..n
      PROVE  Counted(ls, S, v, j) \in V
             /\ Counted(ls, S, v, j) = IF j \in S THEN Step(v, ls[j].taken) ELSE v
  <2>1. ls[j].taken \in BOOLEAN
    BY <1>0
  <2>2. Raised(v) = Step(v, TRUE) /\ Lowered(v) = Step(v, FALSE)
    BY CountedStep
  <2>3. Step(v, ls[j].taken) \in V
    BY <2>1, StepType
  <2> HIDE DEF V, n
  <2> QED BY <2>1, <2>2, <2>3 DEF Counted
<1>2. \E f : CountIs(f, ls, first, S) /\ f \in [SUBSET (1..n) -> V]
  <2>1. F \in [1..n -> [V -> V]]
    <3> HIDE DEF V
    <3> QED BY <1>a
  <2>2. PICK f \in [SUBSET (1..n) -> V] : IsFold(f, n, first, F)
    <3>1. first \in V
      OBVIOUS
    <3> HIDE DEF F, V
    <3> QED BY <2>1, <3>1, <1>0, FoldExists
  <2> HIDE DEF V
  <2>4. ASSUME NEW s \in SUBSET (1..n)
        PROVE  /\ f[s] = IF s = {} THEN first ELSE Counted(ls, S, f[s \ {Max(s)}], Max(s))
               /\ s # {} => Max(s) \in 1..n
    <3>1. s # {} => Max(s) \in 1..n /\ f[s \ {Max(s)}] \in V
      BY <1>0, MaxOfSubset
    <3>2. f[s] = IF s = {} THEN first ELSE F[Max(s)][f[s \ {Max(s)}]]
      <4> HIDE DEF F
      <4> QED BY <2>2 DEF IsFold
    <3>3. s # {} => F[Max(s)][f[s \ {Max(s)}]] = Counted(ls, S, f[s \ {Max(s)}], Max(s))
      BY <3>1
    <3> HIDE DEF F
    <3> QED BY <3>1, <3>2, <3>3
  <2>5. f = [s \in SUBSET (1..n) |->
               IF s = {} THEN first ELSE Counted(ls, S, f[s \ {Max(s)}], Max(s))]
    BY <2>4
  <2>6. \A s \in SUBSET (1..n) : s # {} => [m \in DOMAIN ls |-> m][Max(s)] = Max(s)
    BY <1>0, <2>4
  <2>7. DOMAIN [m \in DOMAIN ls |-> m] = 1..n
    BY <1>0
  <2>8. CountIs(f, ls, first, S)
    BY <2>5, <2>6, <2>7 DEF CountIs
  <2> QED BY <2>8
<1>3. PICK f : CountIs(f, ls, first, S) /\ CountIn(ls, first, S) = f[1..n]
  <2> HIDE DEF V
  <2> QED BY <1>0, <1>1, <1>2
<1>4. \A s \in SUBSET (1..n) :
        f[s] = IF s = {} THEN first
               ELSE Counted(ls, S, f[s \ {Max(s)}], [m \in DOMAIN ls |-> m][Max(s)])
  BY <1>0, <1>3 DEF CountIs
<1>5. f[1..0] = first
  <2> HIDE DEF n
  <2> QED BY <1>0, <1>4, Segments
<1>6. ASSUME NEW j \in 1..n
      PROVE  f[1..j] = Counted(ls, S, f[1..(j-1)], j)
  <2> HIDE DEF n
  <2>1. 1..j \in SUBSET (1..n) /\ 1..j # {} /\ Max(1..j) = j /\ (1..j) \ {j} = 1..(j-1)
    BY <1>0, Segments
  <2>2. [m \in DOMAIN ls |-> m][j] = j
    BY <1>0
  <2> QED BY <1>4, <2>1, <2>2
<1>7. \A j \in 0..n : f[1..j] \in V
  <2> DEFINE T == {j \in Nat : j <= n => f[1..j] \in V}
  <2>1. 0 \in T
    BY <1>5
  <2>2. ASSUME NEW j \in Nat, j \in T PROVE j + 1 \in T
    <3> HIDE DEF V
    <3> SUFFICES ASSUME j + 1 <= n PROVE f[1..(j+1)] \in V
      OBVIOUS
    <3>1. j + 1 \in 1..n /\ (j + 1) - 1 = j /\ j <= n
      BY <1>0
    <3>2. f[1..(j+1)] = Counted(ls, S, f[1..j], j+1)
      BY <1>6, <3>1
    <3> QED BY <1>a, <2>2, <3>1, <3>2
  <2>3. Nat \subseteq T
    <3> HIDE DEF T
    <3> QED BY <2>1, <2>2, Induction
  <2> HIDE DEF V
  <2> QED BY <2>3, <1>0
<1>8. \A j \in 1..n :
        f[1..j] = IF j \in S THEN Step(f[1..(j-1)], ls[j].taken) ELSE f[1..(j-1)]
  <2> TAKE j \in 1..n
  <2>1. j - 1 \in 0..n
    BY <1>0
  <2> HIDE DEF V
  <2>2. f[1..(j-1)] \in V
    BY <1>7, <2>1
  <2> HIDE DEF n
  <2> QED BY <1>6, <1>a, <2>2
<1> QED BY <1>3, <1>5, <1>8 DEF CountsBy

\* When the trace goes on, the counter steps if the new line is counted.
LEMMA CountGoesOn ==
  ASSUME NEW ls, NEW l, NEW ls2, GoesOn(ls, l, ls2), NEW first \in SNT..ST,
         NEW S, NEW S2, \A n \in DOMAIN ls : n \in S2 <=> n \in S
  PROVE  CountIn(ls2, first, S2) = IF Len(ls) + 1 \in S2 THEN Step(CountIn(ls, first, S), l.taken)
                                   ELSE CountIn(ls, first, S)
<1> DEFINE n == Len(ls)
<1>0. /\ n \in Nat /\ Len(ls2) = n + 1
      /\ \A j \in 1..n : ls2[j] = ls[j] /\ (j \in S2 <=> j \in S)
      /\ ls2[n + 1] = l /\ ls \in Seq(TraceLine) /\ ls2 \in Seq(TraceLine)
  BY DEF GoesOn
<1>a. PICK f : CountsBy(f, ls, first, S)
  BY <1>0, CountUnfolds
<1>b. PICK g : CountsBy(g, ls2, first, S2)
  BY <1>0, CountUnfolds
<1>1. /\ CountIn(ls, first, S) = f[1..n]
      /\ f[1..0] = first
      /\ \A j \in 1..n :
           f[1..j] = IF j \in S THEN Step(f[1..(j-1)], ls[j].taken) ELSE f[1..(j-1)]
  BY <1>a DEF CountsBy
<1>2. /\ CountIn(ls2, first, S2) = g[1..Len(ls2)]
      /\ g[1..0] = first
      /\ \A j \in 1..Len(ls2) :
           g[1..j] = IF j \in S2 THEN Step(g[1..(j-1)], ls2[j].taken) ELSE g[1..(j-1)]
  BY <1>b DEF CountsBy
<1> DEFINE T == {j \in Nat : j <= n => f[1..j] = g[1..j]}
<1>3. 0 \in T
  BY <1>1, <1>2
<1>4. ASSUME NEW j \in Nat, j \in T PROVE j + 1 \in T
  <2> SUFFICES ASSUME j + 1 <= n PROVE f[1..(j+1)] = g[1..(j+1)]
    OBVIOUS
  <2>1. j + 1 \in 1..n /\ j + 1 \in 1..Len(ls2) /\ (j + 1) - 1 = j /\ j <= n
    BY <1>0
  <2>2. f[1..j] = g[1..j]
    BY <1>4, <2>1
  <2>3. ls2[j+1] = ls[j+1] /\ (j + 1 \in S2 <=> j + 1 \in S)
    BY <1>0, <2>1
  <2>4. f[1..(j+1)] = IF j + 1 \in S THEN Step(f[1..j], ls[j+1].taken) ELSE f[1..j]
    BY <1>1, <2>1
  <2>5. g[1..(j+1)] = IF j + 1 \in S2 THEN Step(g[1..j], ls2[j+1].taken) ELSE g[1..j]
    BY <1>2, <2>1
  <2> QED BY <2>2, <2>3, <2>4, <2>5
<1>5. f[1..n] = g[1..n]
  <2>1. Nat \subseteq T
    <3> HIDE DEF T
    <3> QED BY <1>3, <1>4, Induction
  <2>2. n \in T /\ n <= n
    BY <1>0, <2>1
  <2> QED BY <2>2
<1>6. g[1..(n+1)] = IF n + 1 \in S2 THEN Step(g[1..n], ls2[n+1].taken) ELSE g[1..n]
  <2>1. n + 1 \in 1..Len(ls2) /\ (n + 1) - 1 = n
    BY <1>0
  <2> QED BY <1>2, <2>1
<1> QED BY <1>0, <1>1, <1>2, <1>5, <1>6

\* No line counted: the counter is what it was first.
LEMMA CountNone ==
  ASSUME NEW ls \in Seq(TraceLine), NEW first \in SNT..ST
  PROVE  CountIn(ls, first, {}) = first
<1> DEFINE n == Len(ls)
<1>0. n \in Nat
  OBVIOUS
<1>1. PICK f : CountsBy(f, ls, first, {})
  BY CountUnfolds
<1>2. /\ CountIn(ls, first, {}) = f[1..n] /\ f[1..0] = first
      /\ \A j \in 1..n : f[1..j] = f[1..(j-1)]
  BY <1>1 DEF CountsBy
<1> DEFINE T == {j \in Nat : j <= n => f[1..j] = first}
<1>3. 0 \in T
  BY <1>2
<1>4. ASSUME NEW j \in Nat, j \in T PROVE j + 1 \in T
  <2>1. j + 1 <= n => j + 1 \in 1..n /\ (j + 1) - 1 = j /\ j <= n
    BY <1>0
  <2> QED BY <1>2, <1>4, <2>1
<1>5. Nat \subseteq T
  <2> HIDE DEF T
  <2> QED BY <1>3, <1>4, Induction
<1>6. n \in T /\ n <= n
  BY <1>0, <1>5
<1> QED BY <1>2, <1>6

-----------------------------------------------------------------------------
\* What the tables hold of the lines read so far.

Recorded ==
  /\ lines \in Seq(TraceLine)
  /\ printed \in Seq(Nat) /\ Len(printed) = Len(lines)

EntriesFollow ==
  \A i \in 0..BTBSize-1 :
    /\ btb[i].valid = (EntryLines(lines, i) # {})
    /\ EntryLines(lines, i) # {} =>
         /\ IsLast(EntryLines(lines, i), LastOf(EntryLines(lines, i)))
         /\ btb[i].tag = TagOf(lines[LastOf(EntryLines(lines, i))].pc)
         /\ btb[i].target = lines[LastOf(EntryLines(lines, i))].target

HistoriesFollow ==
  /\ conf.globalHist => globalHistory = OutcomesIn(lines, DOMAIN lines)
  /\ ~conf.globalHist =>
       \A i \in 0..BTBSize-1 : btb[i].history = OutcomesIn(lines, StayLines(lines, i))

WrongLines(ls, ps) ==
  {n \in DOMAIN ls : ps[n] # (IF ls[n].taken THEN ls[n].target ELSE ls[n].pc + 4)}

FlushesFollow ==
  /\ IsFiniteSet(WrongLines(lines, printed))
  /\ flushes = Cardinality(WrongLines(lines, printed))

\* The machine that line n used, worked out from the lines before it.
StayBefore(ls, i, tag, n) ==
  {m \in {k \in EntryLines(ls, i) : k < n} :
     \A k \in {j \in EntryLines(ls, i) : j < n} : k >= m => TagOf(ls[k].pc) = tag}

UsedIn(ls, n) ==
  Shared(OutcomesIn(ls, IF conf.globalHist THEN 1..(n-1)
                        ELSE StayBefore(ls, Index(ls[n].pc), TagOf(ls[n].pc), n)), ls[n].pc)

UsersOf(ls, S, h) == {n \in S : UsedIn(ls, n) = h}

MachinesFollow ==
  \A h \in HistIndex :
    /\ conf.globalTable =>
         globalMachines[h] = CountIn(lines, conf.fsm, UsersOf(lines, DOMAIN lines, h))
    /\ ~conf.globalTable =>
         \A i \in 0..BTBSize-1 :
           btb[i].machines[h] = CountIn(lines, conf.fsm, UsersOf(lines, StayLines(lines, i), h))

\* A trace of one branch that always does the same: its history fills with the
\* outcome, and from then on the same machine is stepped by every line.
Same(ls, l) == \A n \in DOMAIN ls : ls[n] = l
SteadyHistory(taken, n) == [b \in Bit |-> taken /\ b < n]
Learned(m, taken, n) ==
  /\ n >= HistSize + 1 => (IF taken THEN m >= WNT ELSE m <= WT)
  /\ n >= HistSize + 2 => (IF taken THEN m >= WT ELSE m <= WNT)

SteadyFollow ==
  \A l \in TraceLine : Same(lines, l) =>
    /\ HistoryOf(btb[Index(l.pc)]) = SteadyHistory(l.taken, Len(lines))
    /\ Learned(MachinesOf(btb[Index(l.pc)])[Shared(SteadyHistory(l.taken, HistSize), l.pc)],
               l.taken, Len(lines))
    /\ WrongLines(lines, printed) \subseteq 1..(HistSize + 2)

HInv ==
  /\ TypeOK /\ Recorded /\ EntriesFollow
  /\ HistoriesFollow /\ MachinesFollow /\ FlushesFollow /\ SteadyFollow

\* What a line of the trace does, with the entry it uses and its new value.
Reads(l, old, new) ==
  /\ Line(l.pc, l.target, l.taken)
  /\ GoesOn(lines, l, lines')
  /\ printed' = Append(printed, dst')
  /\ old = btb[Index(l.pc)] /\ old \in Entry
  /\ Index(l.pc) \in 0..BTBSize-1
  /\ \A i \in 0..BTBSize-1 : btb'[i] = IF i = Index(l.pc) THEN new ELSE btb[i]
  /\ new.valid /\ new.tag = TagOf(l.pc) /\ new.target = l.target
  /\ ~conf.globalHist =>
       new.history = Push(IF TagOf(l.pc) = old.tag THEN old.history ELSE NoHistory, l.taken)
  /\ ~conf.globalTable =>
       new.machines = Trained(IF TagOf(l.pc) = old.tag THEN old.machines ELSE FreshMachines,
                              MachineFor(Claimed(old, TagOf(l.pc)), l.pc), l.taken)

LEMMA ClaimedFields ==
  ASSUME NEW entry \in Entry, NEW tag \in Nat
  PROVE  /\ Claimed(entry, tag).valid
         /\ Claimed(entry, tag).tag = tag
         /\ ~conf.globalHist => Claimed(entry, tag).history
                                  = IF tag = entry.tag THEN entry.history ELSE NoHistory
         /\ ~conf.globalTable => Claimed(entry, tag).machines
                                   = IF tag = entry.tag THEN entry.machines ELSE FreshMachines
BY DEF Claimed, Entry

LEMMA LineReads ==
  ASSUME TypeOK, Recorded,
         NEW pc \in PC, NEW target \in Target, NEW taken \in BOOLEAN,
         Line(pc, target, taken),
         lines' = Append(lines, [pc |-> pc, target |-> target, taken |-> taken]),
         printed' = Append(printed, dst')
  PROVE  /\ Recorded'
         /\ \E l, old, new : l \in TraceLine /\ Reads(l, old, new)
<1> DEFINE l     == [pc |-> pc, target |-> target, taken |-> taken]
           old   == btb[Index(pc)]
           entry == Claimed(old, TagOf(pc))
           h     == MachineFor(entry, pc)
           ms(f) == IF conf.globalTable THEN f ELSE Trained(f, h, taken)
           hs(f) == IF conf.globalHist THEN f ELSE Push(f, taken)
           new   == [entry EXCEPT !.target = target, !.machines = ms(@), !.history = hs(@)]
<1>1. l \in TraceLine /\ l.pc = pc /\ l.target = target /\ l.taken = taken
  BY DEF TraceLine
<1>2. Index(pc) \in 0..BTBSize-1 /\ TagOf(pc) \in Nat
  BY IndexInside
<1>3. old \in Entry
  BY <1>2 DEF TypeOK
<1>4. dst' \in Nat
  BY LineKeepsType DEF TypeOK
<1>5. Recorded' /\ GoesOn(lines, l, lines')
  <2>1. lines \in Seq(TraceLine) /\ lines' = Append(lines, l)
    BY DEF Recorded
  <2>2. printed \in Seq(Nat) /\ Len(printed) = Len(lines) /\ printed' = Append(printed, dst')
    BY DEF Recorded
  <2> HIDE DEF l
  <2>3. /\ lines' \in Seq(TraceLine) /\ Len(lines') = Len(lines) + 1
        /\ lines'[Len(lines) + 1] = l
        /\ \A n \in DOMAIN lines : lines'[n] = lines[n]
    BY <1>1, <2>1
  <2>4. printed' \in Seq(Nat) /\ Len(printed') = Len(printed) + 1
    BY <1>4, <2>2
  <2> QED BY <1>1, <2>1, <2>2, <2>3, <2>4 DEF Recorded, GoesOn
<1>6. btb' = [btb EXCEPT ![Index(pc)] = new]
  BY DEF Line
<1>7. /\ entry.valid /\ entry.tag = TagOf(pc)
      /\ ~conf.globalHist => entry.history = IF TagOf(pc) = old.tag THEN old.history ELSE NoHistory
      /\ ~conf.globalTable =>
           entry.machines = IF TagOf(pc) = old.tag THEN old.machines ELSE FreshMachines
  <2> HIDE DEF old
  <2> QED BY <1>2, <1>3, ClaimedFields
<1>8. /\ new.valid /\ new.tag = TagOf(pc) /\ new.target = target
      /\ ~conf.globalHist =>
           new.history = Push(IF TagOf(pc) = old.tag THEN old.history ELSE NoHistory, taken)
      /\ ~conf.globalTable =>
           new.machines = Trained(IF TagOf(pc) = old.tag THEN old.machines ELSE FreshMachines,
                                  h, taken)
  <2> HIDE DEF old, entry, h
  <2> HIDE DEF ms, hs
  <2>1. entry \in Entry
    BY <1>2, <1>3, ClaimedType DEF entry, TypeOK
  <2>2. /\ new.valid = entry.valid /\ new.tag = entry.tag /\ new.target = target
        /\ new.history = hs(entry.history) /\ new.machines = ms(entry.machines)
    BY <2>1 DEF Entry
  <2>3. ~conf.globalHist => hs(entry.history) = Push(entry.history, taken)
    BY DEF hs
  <2>4. ~conf.globalTable => ms(entry.machines) = Trained(entry.machines, h, taken)
    BY DEF ms
  <2> QED BY <1>7, <2>2, <2>3, <2>4
<1>9. \A i \in 0..BTBSize-1 : btb'[i] = IF i = Index(pc) THEN new ELSE btb[i]
  <2> HIDE DEF new
  <2> QED BY <1>2, <1>6 DEF TypeOK
<1> HIDE DEF l, old, new, h, entry
<1>10. Reads(l, old, new)
  BY <1>1, <1>2, <1>3, <1>5, <1>8, <1>9 DEF Reads, old, h, entry
<1> QED BY <1>1, <1>5, <1>10

LEMMA EntriesStep ==
  ASSUME EntriesFollow, NEW l, NEW old, NEW new, Reads(l, old, new)
  PROVE  EntriesFollow'
<1> SUFFICES ASSUME NEW i \in 0..BTBSize-1
             PROVE  /\ btb'[i].valid = (EntryLines(lines', i) # {})
                    /\ EntryLines(lines', i) # {} =>
                         /\ IsLast(EntryLines(lines', i), LastOf(EntryLines(lines', i)))
                         /\ btb'[i].tag = TagOf(lines'[LastOf(EntryLines(lines', i))].pc)
                         /\ btb'[i].target = lines'[LastOf(EntryLines(lines', i))].target
  BY DEF EntriesFollow
<1>1. GoesOn(lines, l, lines')
  BY DEF Reads
<1>2. CASE i = Index(l.pc)
  <2>1. /\ IsLast(EntryLines(lines', i), Len(lines) + 1)
        /\ LastOf(EntryLines(lines', i)) = Len(lines) + 1
    BY <1>1, <1>2, NewIsLast
  <2>2. lines'[Len(lines) + 1] = l
    BY <1>1 DEF GoesOn
  <2>3. EntryLines(lines', i) # {}
    BY <2>1 DEF IsLast
  <2>4. btb'[i].valid /\ btb'[i].tag = TagOf(l.pc) /\ btb'[i].target = l.target
        /\ btb'[i] = new
    BY <1>2 DEF Reads
  <2>5. btb'[i].valid = TRUE
    BY <2>4 DEF Reads
  <2> QED BY <2>1, <2>2, <2>3, <2>4, <2>5
<1>3. CASE i # Index(l.pc)
  <2>1. btb'[i] = btb[i]
    BY <1>3 DEF Reads
  <2>2. EntryLines(lines, i) # {} =>
          IsLast(EntryLines(lines, i), LastOf(EntryLines(lines, i)))
    BY DEF EntriesFollow
  <2>3. /\ EntryLines(lines', i) = EntryLines(lines, i)
        /\ EntryLines(lines, i) # {} =>
             lines'[LastOf(EntryLines(lines, i))] = lines[LastOf(EntryLines(lines, i))]
    BY <1>1, <1>3, <2>2, OtherEntry
  <2> QED BY <2>1, <2>2, <2>3 DEF EntriesFollow
<1> QED BY <1>2, <1>3

LEMMA HistoriesStep ==
  ASSUME EntriesFollow, HistoriesFollow,
         NEW l, NEW old, NEW new, Reads(l, old, new)
  PROVE  HistoriesFollow'
<1>1. /\ GoesOn(lines, l, lines') /\ conf' = conf
      /\ globalHistory' = IF conf.globalHist THEN Push(globalHistory, l.taken)
                          ELSE globalHistory
  BY DEF Reads, Line
<1>2. ASSUME conf.globalHist
      PROVE  globalHistory' = OutcomesIn(lines', DOMAIN lines')
  <2>1. DOMAIN lines' = DOMAIN lines \cup {Len(lines) + 1}
    BY <1>1 DEF GoesOn
  <2>2. OutcomesIn(lines', DOMAIN lines \cup {Len(lines) + 1})
          = Push(OutcomesIn(lines, DOMAIN lines), l.taken)
    BY <1>1, PushedOutcomes
  <2> QED BY <1>1, <1>2, <2>1, <2>2 DEF HistoriesFollow
<1>3. ASSUME ~conf.globalHist, NEW i \in 0..BTBSize-1, i # Index(l.pc)
      PROVE  btb'[i].history = OutcomesIn(lines', StayLines(lines', i))
  <2>1. btb'[i] = btb[i]
    BY <1>3 DEF Reads
  <2>2. StayLines(lines', i) = StayLines(lines, i)
    BY <1>1, <1>3, OtherEntry DEF EntriesFollow
  <2>3. OutcomesIn(lines', StayLines(lines, i)) = OutcomesIn(lines, StayLines(lines, i))
    BY <1>1, StayLinesAre, SameOutcomes
  <2> QED BY <1>3, <2>1, <2>2, <2>3 DEF HistoriesFollow
<1>4. ASSUME ~conf.globalHist, NEW i \in 0..BTBSize-1, i = Index(l.pc)
      PROVE  btb'[i].history = OutcomesIn(lines', StayLines(lines', i))
  <2>1. btb'[i] = new /\ old = btb[i]
        /\ new.history = Push(IF TagOf(l.pc) = old.tag THEN old.history ELSE NoHistory, l.taken)
    BY <1>4 DEF Reads
  <2>2. old.history = OutcomesIn(lines, StayLines(lines, i))
    BY <1>4, <2>1 DEF HistoriesFollow
  <2>3. EntryLines(lines, Index(l.pc)) # {} =>
          /\ IsLast(EntryLines(lines, Index(l.pc)), LastOf(EntryLines(lines, Index(l.pc))))
          /\ old.tag = TagOf(lines[LastOf(EntryLines(lines, Index(l.pc)))].pc)
    BY <1>4, <2>1 DEF EntriesFollow
  <2>4. /\ old.tag = TagOf(l.pc) =>
             StayLines(lines', i) = StayLines(lines, i) \cup {Len(lines) + 1}
        /\ old.tag # TagOf(l.pc) => StayLines(lines', i) = {} \cup {Len(lines) + 1}
    BY <1>1, <1>4, <2>3, OwnEntry
  <2>5. OutcomesIn(lines', StayLines(lines, i) \cup {Len(lines) + 1})
          = Push(OutcomesIn(lines, StayLines(lines, i)), l.taken)
    BY <1>1, StayLinesAre, PushedOutcomes
  <2>6. OutcomesIn(lines', {} \cup {Len(lines) + 1}) = Push(NoHistory, l.taken)
    <3>1. {} \subseteq DOMAIN lines
      OBVIOUS
    <3>2. OutcomesIn(lines', {} \cup {Len(lines) + 1})
            = Push(OutcomesIn(lines, {}), l.taken)
      BY <1>1, <3>1, PushedOutcomes
    <3> QED BY <3>2, NoOutcomes
  <2> QED BY <2>1, <2>2, <2>4, <2>5, <2>6
<1> QED BY <1>1, <1>2, <1>3, <1>4 DEF HistoriesFollow

\* The machine that each line used does not depend on the lines after it.
LEMMA UsedBefore ==
  ASSUME NEW ls, NEW l, NEW ls2, GoesOn(ls, l, ls2), NEW n \in DOMAIN ls
  PROVE  UsedIn(ls2, n) = UsedIn(ls, n)
<1> DEFINE i == Index(ls[n].pc)
           t == TagOf(ls[n].pc)
<1>1. /\ n \in Nat /\ n # 0 /\ Len(ls) \in Nat /\ n <= Len(ls)
      /\ DOMAIN ls = 1..Len(ls) /\ DOMAIN ls2 = 1..(Len(ls) + 1)
      /\ \A m \in DOMAIN ls : ls2[m] = ls[m]
  BY DEF GoesOn
<1>2. ls2[n] = ls[n]
  BY <1>1
<1>3. {m \in EntryLines(ls2, i) : m < n} = {m \in EntryLines(ls, i) : m < n}
  BY <1>1 DEF EntryLines
<1>4. StayBefore(ls2, i, t, n) = StayBefore(ls, i, t, n)
  <2>1. \A m \in {k \in EntryLines(ls, i) : k < n} : ls2[m] = ls[m]
    BY <1>1 DEF EntryLines
  <2> HIDE DEF i, t
  <2> QED BY <1>3, <2>1 DEF StayBefore
<1>5. StayBefore(ls, i, t, n) \subseteq DOMAIN ls /\ 1..(n-1) \subseteq DOMAIN ls
  BY <1>1 DEF StayBefore, EntryLines
<1>6. /\ OutcomesIn(ls2, StayBefore(ls, i, t, n)) = OutcomesIn(ls, StayBefore(ls, i, t, n))
      /\ OutcomesIn(ls2, 1..(n-1)) = OutcomesIn(ls, 1..(n-1))
  <2>1. \A S : S \subseteq DOMAIN ls => OutcomesIn(ls2, S) = OutcomesIn(ls, S)
    BY SameOutcomes
  <2> HIDE DEF i, t
  <2> QED BY <1>5, <2>1
<1> QED BY <1>2, <1>4, <1>6 DEF UsedIn

\* The new line uses the machine that the tables select.
LEMMA UsedNow ==
  ASSUME EntriesFollow, HistoriesFollow, NEW l, NEW old, NEW new, Reads(l, old, new)
  PROVE  UsedIn(lines', Len(lines) + 1) = MachineFor(Claimed(old, TagOf(l.pc)), l.pc)
<1> DEFINE i == Index(l.pc)
           t == TagOf(l.pc)
           N == Len(lines) + 1
           entry == Claimed(old, t)
<1>0. GoesOn(lines, l, lines') /\ l \in TraceLine /\ i \in 0..BTBSize-1
      /\ old = btb[i] /\ old \in Entry
  BY DEF Reads, GoesOn
<1>1. /\ lines'[N] = l /\ Len(lines) \in Nat /\ N - 1 = Len(lines)
      /\ DOMAIN lines = 1..Len(lines)
      /\ DOMAIN lines' = DOMAIN lines \cup {N}
      /\ \A m \in DOMAIN lines : lines'[m] = lines[m]
  BY <1>0 DEF GoesOn
<1>2. StayBefore(lines', i, t, N) = TagLines(lines, i, t)
  <2>1. {m \in EntryLines(lines', i) : m < N} = EntryLines(lines, i)
    BY <1>1 DEF EntryLines
  <2>2. \A m \in EntryLines(lines, i) : lines'[m] = lines[m]
    BY <1>1 DEF EntryLines
  <2> HIDE DEF i, t, N
  <2> QED BY <2>1, <2>2 DEF StayBefore, TagLines
<1>3. TagLines(lines, i, t) = IF t = old.tag THEN StayLines(lines, i) ELSE {}
  <2> DEFINE E == EntryLines(lines, i)
  <2>1. CASE E = {}
    <3>1. TagLines(lines, i, t) = {} /\ StayLines(lines, i) = {}
      BY <2>1 DEF TagLines, StayLines
    <3> QED BY <3>1
  <2>2. CASE E # {}
    <3>1. /\ LastOf(E) \in E /\ \A m \in E : m <= LastOf(E)
          /\ old.tag = TagOf(lines[LastOf(E)].pc)
      BY <1>0, <2>2 DEF EntriesFollow, IsLast
    <3>2. \A m \in E : m \in Nat
      BY <1>1 DEF EntryLines
    <3>3. StayLines(lines, i) = TagLines(lines, i, old.tag)
      BY <2>2, <3>1 DEF StayLines
    <3>4. t # old.tag => TagLines(lines, i, t) = {}
      <4> HIDE DEF E, i, t
      <4>1. \A m \in E : LastOf(E) >= m
        BY <3>1, <3>2
      <4> QED BY <3>1, <4>1 DEF TagLines, E
    <3> QED BY <3>3, <3>4
  <2> QED BY <2>1, <2>2
<1>4. ~conf.globalHist => OutcomesIn(lines', TagLines(lines, i, t)) = entry.history
  <2> SUFFICES ASSUME ~conf.globalHist
               PROVE  OutcomesIn(lines', TagLines(lines, i, t)) = entry.history
    OBVIOUS
  <2>1. entry.history = IF t = old.tag THEN old.history ELSE NoHistory
    <3>1. t \in Nat
      BY <1>0, PredictorAssumption, IndexInside DEF TraceLine
    <3> HIDE DEF t
    <3> QED BY <1>0, <3>1, ClaimedFields
  <2>2. old.history = OutcomesIn(lines, StayLines(lines, i))
    BY <1>0 DEF HistoriesFollow
  <2>3. OutcomesIn(lines', StayLines(lines, i)) = OutcomesIn(lines, StayLines(lines, i))
    BY <1>0, StayLinesAre, SameOutcomes
  <2> QED BY <1>3, <2>1, <2>2, <2>3, NoOutcomes
<1>5. conf.globalHist => OutcomesIn(lines', 1..(N-1)) = globalHistory
  <2>1. OutcomesIn(lines', DOMAIN lines) = OutcomesIn(lines, DOMAIN lines)
    BY <1>0, SameOutcomes
  <2> QED BY <1>1, <2>1 DEF HistoriesFollow
<1>6. UsedIn(lines', N) =
        Shared(OutcomesIn(lines', IF conf.globalHist THEN 1..(N-1)
                                  ELSE StayBefore(lines', i, t, N)), l.pc)
  BY <1>1 DEF UsedIn
<1> HIDE DEF entry, i, t, N
<1>7. UsedIn(lines', N) = Shared(HistoryOf(entry), l.pc)
  BY <1>2, <1>4, <1>5, <1>6 DEF HistoryOf
<1> QED BY <1>7 DEF MachineFor, entry, i, t, N

\* A machine of a table that counted the lines of S, after the new line.
LEMMA TrainedCounts ==
  ASSUME TypeOK, EntriesFollow, HistoriesFollow,
         NEW l, NEW old, NEW new, Reads(l, old, new),
         NEW machines \in Machines, NEW S, S \subseteq DOMAIN lines, NEW h \in HistIndex,
         machines[h] = CountIn(lines, conf.fsm, UsersOf(lines, S, h))
  PROVE  Trained(machines, MachineFor(Claimed(old, TagOf(l.pc)), l.pc), l.taken)[h]
           = CountIn(lines', conf.fsm, UsersOf(lines', S \cup {Len(lines) + 1}, h))
<1> DEFINE g  == MachineFor(Claimed(old, TagOf(l.pc)), l.pc)
           U  == UsersOf(lines, S, h)
           U2 == UsersOf(lines', S \cup {Len(lines) + 1}, h)
<1>1. GoesOn(lines, l, lines') /\ Len(lines) + 1 \notin DOMAIN lines
  BY DEF Reads, GoesOn
<1>2. UsedIn(lines', Len(lines) + 1) = g
  BY UsedNow
<1>3. \A n \in DOMAIN lines : UsedIn(lines', n) = UsedIn(lines, n)
  BY <1>1, UsedBefore
<1> HIDE DEF g
<1>4. /\ \A n \in DOMAIN lines : n \in U2 <=> n \in U
      /\ Len(lines) + 1 \in U2 <=> g = h
  BY <1>1, <1>2, <1>3 DEF UsersOf
<1> HIDE DEF U, U2
<1>5. conf.fsm \in SNT..ST
  BY PredictorAssumption DEF TypeOK, Config
<1>6. CountIn(lines', conf.fsm, U2) = IF Len(lines) + 1 \in U2
                                      THEN Step(CountIn(lines, conf.fsm, U), l.taken)
                                      ELSE CountIn(lines, conf.fsm, U)
  BY <1>1, <1>4, <1>5, CountGoesOn
<1>7. Trained(machines, g, l.taken)[h] = IF g = h THEN Step(machines[h], l.taken) ELSE machines[h]
  BY DEF Trained, Machines
<1> QED BY <1>4, <1>6, <1>7 DEF g, U, U2

\* Lines that do not count among the users of S change nothing.
LEMMA UntouchedCounts ==
  ASSUME TypeOK, NEW l, NEW old, NEW new, Reads(l, old, new),
         NEW S, S \subseteq DOMAIN lines, NEW h
  PROVE  CountIn(lines', conf.fsm, UsersOf(lines', S, h))
           = CountIn(lines, conf.fsm, UsersOf(lines, S, h))
<1> DEFINE U  == UsersOf(lines, S, h)
           U2 == UsersOf(lines', S, h)
<1>1. GoesOn(lines, l, lines') /\ Len(lines) + 1 \notin DOMAIN lines
  BY DEF Reads, GoesOn
<1>3. \A n \in DOMAIN lines : UsedIn(lines', n) = UsedIn(lines, n)
  BY <1>1, UsedBefore
<1>4. /\ \A n \in DOMAIN lines : n \in U2 <=> n \in U
      /\ Len(lines) + 1 \notin U2
  BY <1>1, <1>3 DEF UsersOf
<1> HIDE DEF U, U2
<1>5. conf.fsm \in SNT..ST
  BY PredictorAssumption DEF TypeOK, Config
<1>6. CountIn(lines', conf.fsm, U2) = CountIn(lines, conf.fsm, U)
  BY <1>1, <1>4, <1>5, CountGoesOn
<1> QED BY <1>6 DEF U, U2

LEMMA MachinesStep ==
  ASSUME TypeOK, Recorded, EntriesFollow, HistoriesFollow, MachinesFollow,
         NEW l, NEW old, NEW new, Reads(l, old, new)
  PROVE  MachinesFollow'
<1> DEFINE g == MachineFor(Claimed(old, TagOf(l.pc)), l.pc)
           N == Len(lines) + 1
<1>1. /\ GoesOn(lines, l, lines') /\ conf' = conf
      /\ globalMachines' = IF conf.globalTable THEN Trained(globalMachines, g, l.taken)
                           ELSE globalMachines
      /\ Index(l.pc) \in 0..BTBSize-1 /\ old = btb[Index(l.pc)] /\ old \in Entry
  BY DEF Reads, Line
<1>2. SUFFICES ASSUME NEW h \in HistIndex
      PROVE  /\ conf.globalTable =>
                  globalMachines'[h] = CountIn(lines', conf.fsm, UsersOf(lines', DOMAIN lines', h))
             /\ ~conf.globalTable =>
                  \A i \in 0..BTBSize-1 :
                    btb'[i].machines[h]
                      = CountIn(lines', conf.fsm, UsersOf(lines', StayLines(lines', i), h))
  <2>1. \A ls, S, h : UsersOf(ls, S, h)' = UsersOf(ls', S', h')
    BY <1>1 DEF UsersOf, UsedIn, Shared
  <2> QED BY <1>1, <2>1 DEF MachinesFollow
<1> HIDE DEF g
<1>3. ASSUME conf.globalTable
      PROVE  globalMachines'[h] = CountIn(lines', conf.fsm, UsersOf(lines', DOMAIN lines', h))
  <2>1. DOMAIN lines' = DOMAIN lines \cup {N}
    BY <1>1 DEF GoesOn
  <2>2. globalMachines[h] = CountIn(lines, conf.fsm, UsersOf(lines, DOMAIN lines, h))
    BY <1>3 DEF MachinesFollow
  <2>3. globalMachines \in Machines
    BY DEF TypeOK
  <2>4. Trained(globalMachines, g, l.taken)[h]
          = CountIn(lines', conf.fsm, UsersOf(lines', DOMAIN lines \cup {N}, h))
    BY <2>2, <2>3, TrainedCounts DEF g
  <2> QED BY <1>1, <1>3, <2>1, <2>4
<1>4. ASSUME ~conf.globalTable, NEW i \in 0..BTBSize-1, i # Index(l.pc)
      PROVE  btb'[i].machines[h]
               = CountIn(lines', conf.fsm, UsersOf(lines', StayLines(lines', i), h))
  <2>1. btb'[i] = btb[i]
    BY <1>4 DEF Reads
  <2>2. StayLines(lines', i) = StayLines(lines, i)
    BY <1>1, <1>4, OtherEntry DEF EntriesFollow
  <2>3. CountIn(lines', conf.fsm, UsersOf(lines', StayLines(lines, i), h))
          = CountIn(lines, conf.fsm, UsersOf(lines, StayLines(lines, i), h))
    BY StayLinesAre, UntouchedCounts
  <2> QED BY <1>4, <2>1, <2>2, <2>3 DEF MachinesFollow
<1>5. ASSUME ~conf.globalTable, NEW i \in 0..BTBSize-1, i = Index(l.pc)
      PROVE  btb'[i].machines[h]
               = CountIn(lines', conf.fsm, UsersOf(lines', StayLines(lines', i), h))
  <2> DEFINE same == TagOf(l.pc) = old.tag
             ms   == IF same THEN old.machines ELSE FreshMachines
             S    == IF same THEN StayLines(lines, i) ELSE {}
  <2>1. btb'[i].machines = Trained(ms, g, l.taken)
    BY <1>5 DEF Reads, g
  <2>2. StayLines(lines', i) = S \cup {N}
    <3>1. EntryLines(lines, Index(l.pc)) # {} =>
            /\ IsLast(EntryLines(lines, Index(l.pc)), LastOf(EntryLines(lines, Index(l.pc))))
            /\ old.tag = TagOf(lines[LastOf(EntryLines(lines, Index(l.pc)))].pc)
      BY <1>1, <1>5 DEF EntriesFollow
    <3>2. /\ same => StayLines(lines', i) = StayLines(lines, i) \cup {N}
          /\ ~same => StayLines(lines', i) = {N}
      BY <1>1, <1>5, <3>1, OwnEntry
    <3> QED BY <3>2
  <2>3. conf \in Config /\ conf.fsm \in SNT..ST
    BY PredictorAssumption DEF TypeOK, Config
  <2>4. ms \in Machines
    BY <1>1, <2>3, FreshMachinesType DEF Entry
  <2>5. ms[h] = CountIn(lines, conf.fsm, UsersOf(lines, S, h))
    <3>1. CASE same
      BY <1>1, <1>5, <3>1 DEF MachinesFollow
    <3>2. CASE ~same
      <4>1. UsersOf(lines, {}, h) = {}
        BY DEF UsersOf
      <4>2. CountIn(lines, conf.fsm, {}) = conf.fsm
        BY <2>3, CountNone DEF Recorded
      <4> QED BY <3>2, <4>1, <4>2 DEF FreshMachines
    <3> QED BY <3>1, <3>2
  <2>6. S \subseteq DOMAIN lines
    BY StayLinesAre
  <2> HIDE DEF ms, S, same
  <2>7. Trained(ms, g, l.taken)[h] = CountIn(lines', conf.fsm, UsersOf(lines', S \cup {N}, h))
    BY <2>4, <2>5, <2>6, TrainedCounts DEF g
  <2> QED BY <2>1, <2>2, <2>7
<1> QED BY <1>3, <1>4, <1>5

LEMMA FlushesStep ==
  ASSUME TypeOK, Recorded, FlushesFollow,
         NEW l, NEW old, NEW new, Reads(l, old, new)
  PROVE  FlushesFollow'
<1> DEFINE W  == WrongLines(lines, printed)
           W2 == WrongLines(lines', printed')
           N  == Len(lines) + 1
           wrong == dst' # (IF l.taken THEN l.target ELSE l.pc + 4)
<1>1. /\ N \in Nat /\ N \notin DOMAIN lines
      /\ DOMAIN lines' = DOMAIN lines \cup {N}
      /\ lines'[N] = l /\ \A n \in DOMAIN lines : lines'[n] = lines[n]
  BY DEF Reads, GoesOn
<1>2. printed'[N] = dst' /\ \A n \in DOMAIN lines : printed'[n] = printed[n]
  BY DEF Reads, Recorded
<1>3. W \subseteq DOMAIN lines
  BY DEF WrongLines
<1>4. \A n : n \in W2 <=> n \in W \/ (n = N /\ wrong)
  BY <1>1, <1>2 DEF WrongLines
<1>5. flushes' = IF wrong THEN flushes + 1 ELSE flushes
  BY DEF Reads, Line, IsFlush
<1>6. IsFiniteSet(W) /\ flushes = Cardinality(W)
  BY DEF FlushesFollow
<1> HIDE DEF W, W2, N, wrong
<1>7. CASE wrong
  <2>1. W2 = W \cup {N} /\ N \notin W
    BY <1>1, <1>3, <1>4, <1>7
  <2>2. IsFiniteSet(W \cup {N}) /\ Cardinality(W \cup {N}) = Cardinality(W) + 1
    BY <1>6, <2>1, FS_AddElement
  <2>3. IsFiniteSet(W2) /\ flushes' = Cardinality(W2)
    BY <1>5, <1>6, <1>7, <2>1, <2>2
  <2> QED BY <2>3 DEF FlushesFollow, W2
<1>8. CASE ~wrong
  <2>1. W2 = W
    BY <1>4, <1>8
  <2>2. IsFiniteSet(W2) /\ flushes' = Cardinality(W2)
    BY <1>5, <1>6, <1>8, <2>1
  <2> QED BY <2>2 DEF FlushesFollow, W2
<1> QED BY <1>7, <1>8

LEMMA SteadyPush ==
  ASSUME NEW taken \in BOOLEAN, NEW n \in Nat
  PROVE  /\ Push(SteadyHistory(taken, n), taken) = SteadyHistory(taken, n + 1)
         /\ n >= HistSize => SteadyHistory(taken, n) = SteadyHistory(taken, HistSize)
         /\ SteadyHistory(taken, 0) = NoHistory
         /\ SteadyHistory(taken, n) \in HistIndex
<1>1. HistSize \in Nat
  BY PredictorAssumption
<1>2. ASSUME NEW b \in Bit
      PROVE  /\ b \in Nat /\ b < HistSize
             /\ (IF b = 0 THEN taken ELSE SteadyHistory(taken, n)[b - 1]) = (taken /\ b < n + 1)
             /\ n >= HistSize => (b < n <=> b < HistSize)
             /\ ~(b < 0)
  <2>1. b \in Nat /\ b < HistSize /\ (b # 0 => b - 1 \in Bit)
    BY <1>1 DEF Bit
  <2>2. b # 0 => SteadyHistory(taken, n)[b - 1] = (taken /\ b - 1 < n)
    BY <2>1 DEF SteadyHistory
  <2>3. b # 0 => (b - 1 < n <=> b < n + 1)
    BY <2>1
  <2>4. b = 0 => b < n + 1
    OBVIOUS
  <2>5. ~(b < 0) /\ (n >= HistSize => (b < n <=> b < HistSize))
    BY <1>1, <2>1
  <2>6. (IF b = 0 THEN taken ELSE SteadyHistory(taken, n)[b - 1]) = (taken /\ b < n + 1)
    BY <2>2, <2>3, <2>4, Zenon
  <2> QED BY <2>1, <2>5, <2>6
<1>3. Push(SteadyHistory(taken, n), taken) = SteadyHistory(taken, n + 1)
  <2>1. Push(SteadyHistory(taken, n), taken)
          = [b \in Bit |-> IF b = 0 THEN taken ELSE SteadyHistory(taken, n)[b - 1]]
    BY DEF Push
  <2>2. SteadyHistory(taken, n + 1) = [b \in Bit |-> taken /\ b < n + 1]
    BY DEF SteadyHistory
  <2> QED BY <1>2, <2>1, <2>2, Zenon
<1>4. n >= HistSize => SteadyHistory(taken, n) = SteadyHistory(taken, HistSize)
  BY <1>2 DEF SteadyHistory
<1>5. SteadyHistory(taken, 0) = NoHistory
  BY <1>2 DEF SteadyHistory, NoHistory
<1> QED BY <1>3, <1>4, <1>5 DEF SteadyHistory, HistIndex

\* What the entry that a line uses has learned from lines like it.
LEMMA SteadyEntry ==
  ASSUME TypeOK, Recorded, EntriesFollow, HistoriesFollow, SteadyFollow,
         NEW l, NEW old, NEW new, Reads(l, old, new), Same(lines, l)
  PROVE  LET entry == Claimed(old, TagOf(l.pc))
         IN  /\ HistoryOf(entry) = SteadyHistory(l.taken, Len(lines))
             /\ Len(lines) # 0 =>
                  /\ MachinesOf(entry) = MachinesOf(old)
                  /\ HistoryOf(old) = HistoryOf(entry)
                  /\ old.tag = TagOf(l.pc) /\ old.target = l.target
<1> DEFINE i == Index(l.pc)
           t == TagOf(l.pc)
           entry == Claimed(old, t)
<1>0. /\ l \in TraceLine /\ l.taken \in BOOLEAN /\ t \in Nat
      /\ i \in 0..BTBSize-1 /\ old = btb[i] /\ old \in Entry /\ Len(lines) \in Nat
  <2>1. \A r \in TraceLine : r.taken \in BOOLEAN /\ TagOf(r.pc) \in Nat
    BY PredictorAssumption, IndexInside DEF TraceLine
  <2>2. l \in TraceLine /\ Len(lines) \in Nat
    BY DEF Reads, GoesOn
  <2> QED BY <2>1, <2>2 DEF Reads
<1>1. HistoryOf(old) = SteadyHistory(l.taken, Len(lines))
  BY <1>0 DEF SteadyFollow
<1>2. /\ ~conf.globalHist => entry.history = IF t = old.tag THEN old.history ELSE NoHistory
      /\ ~conf.globalTable => entry.machines = IF t = old.tag THEN old.machines ELSE FreshMachines
  <2> HIDE DEF t, i
  <2> QED BY <1>0, ClaimedFields
<1> HIDE DEF entry
<1>3. ASSUME Len(lines) # 0 PROVE old.tag = t /\ old.target = l.target
  <2>1. DOMAIN lines = 1..Len(lines) /\ 1 \in DOMAIN lines
    BY <1>0, <1>3 DEF Recorded
  <2>2. EntryLines(lines, i) # {}
    BY <2>1 DEF EntryLines, Same
  <2>3. LastOf(EntryLines(lines, i)) \in DOMAIN lines
    BY <1>0, <2>2 DEF EntriesFollow, IsLast, EntryLines
  <2>4. lines[LastOf(EntryLines(lines, i))] = l
    BY <2>3 DEF Same
  <2> QED BY <1>0, <2>2, <2>4 DEF EntriesFollow
<1>4. ASSUME Len(lines) = 0, ~conf.globalHist PROVE old.history = NoHistory
  <2>1. SteadyHistory(l.taken, 0) = NoHistory
    BY <1>0, SteadyPush
  <2> QED BY <1>1, <1>4, <2>1 DEF HistoryOf
<1>5. ~conf.globalHist => entry.history = old.history
  BY <1>2, <1>3, <1>4
<1>6. HistoryOf(entry) = HistoryOf(old)
  BY <1>5 DEF HistoryOf
<1>7. Len(lines) # 0 => MachinesOf(entry) = MachinesOf(old)
  BY <1>2, <1>3 DEF MachinesOf
<1> QED BY <1>1, <1>3, <1>6, <1>7 DEF entry, t

\* A step towards the outcome.
LEMMA SteadyLearns ==
  ASSUME NEW m \in SNT..ST, NEW taken \in BOOLEAN, NEW n \in Nat, n >= HistSize,
         Learned(m, taken, n)
  PROVE  /\ Learned(Step(m, taken), taken, n + 1)
         /\ n >= HistSize + 2 => (m \in {WT, ST} <=> taken)
<1>1. HistSize \in Nat /\ m \in 0..3
  BY PredictorAssumption DEF SNT, ST
<1>2. CASE taken
  BY <1>1, <1>2 DEF Learned, Step, SNT, WNT, WT, ST
<1>3. CASE ~taken
  BY <1>1, <1>3 DEF Learned, Step, SNT, WNT, WT, ST
<1> QED BY <1>2, <1>3

\* The prediction of a line like the ones before, once they are enough.
LEMMA SteadyPredicts ==
  ASSUME TypeOK, Recorded, EntriesFollow, HistoriesFollow, SteadyFollow,
         NEW l, NEW old, NEW new, Reads(l, old, new), Same(lines, l),
         Len(lines) >= HistSize + 2
  PROVE  dst' = IF l.taken THEN l.target ELSE l.pc + 4
<1> DEFINE N == Len(lines)
           g == Shared(SteadyHistory(l.taken, HistSize), l.pc)
           m == MachinesOf(old)[g]
<1>0. /\ N \in Nat /\ HistSize \in Nat /\ N # 0 /\ N >= HistSize
      /\ l \in TraceLine /\ l.taken \in BOOLEAN
      /\ old = btb[Index(l.pc)] /\ old \in Entry /\ dst' = Predict(l.pc)
  <2>1. \A r \in TraceLine : r.taken \in BOOLEAN
    BY DEF TraceLine
  <2>2. l \in TraceLine /\ Len(lines) \in Nat
    BY DEF Reads, GoesOn
  <2>3. HistSize \in Nat
    BY PredictorAssumption
  <2>4. old = btb[Index(l.pc)] /\ old \in Entry /\ dst' = Predict(l.pc)
    BY DEF Reads, Line
  <2>5. N # 0 /\ N >= HistSize
    BY <2>2, <2>3
  <2> QED BY <2>1, <2>2, <2>3, <2>4, <2>5
<1>1. /\ HistoryOf(old) = SteadyHistory(l.taken, N)
      /\ old.tag = TagOf(l.pc) /\ old.target = l.target
  BY <1>0, SteadyEntry
<1>2. SteadyHistory(l.taken, N) = SteadyHistory(l.taken, HistSize)
      /\ SteadyHistory(l.taken, HistSize) \in HistIndex
  BY <1>0, SteadyPush
<1>3. g \in HistIndex
  BY <1>2, SharedType
<1>4. m \in SNT..ST
  <2>1. MachinesOf(old) \in Machines
    BY <1>0 DEF MachinesOf, TypeOK, Entry
  <2> HIDE DEF g
  <2> QED BY <1>3, <2>1 DEF Machines
<1>5. Learned(m, l.taken, N)
  BY <1>0 DEF SteadyFollow
<1>6. MachineFor(old, l.pc) = g
  BY <1>1, <1>2 DEF MachineFor
<1> HIDE DEF m, g
<1>7. m \in {WT, ST} <=> l.taken
  BY <1>0, <1>4, <1>5, SteadyLearns
<1>8. PredictsTaken(old, l.pc) <=> l.taken
  BY <1>1, <1>6, <1>7 DEF PredictsTaken, m
<1> QED BY <1>0, <1>1, <1>8 DEF Predict

LEMMA SteadyStep ==
  ASSUME TypeOK, Recorded, EntriesFollow, HistoriesFollow, SteadyFollow,
         NEW l, NEW old, NEW new, Reads(l, old, new)
  PROVE  SteadyFollow'
<1> DEFINE N == Len(lines)
           h == MachineFor(Claimed(old, TagOf(l.pc)), l.pc)
           entry == Claimed(old, TagOf(l.pc))
           g == Shared(SteadyHistory(l.taken, HistSize), l.pc)
           history2 == IF conf.globalHist THEN globalHistory' ELSE new.history
           machines2 == IF conf.globalTable THEN globalMachines' ELSE new.machines
<1>0. /\ N \in Nat /\ HistSize \in Nat /\ HistSize # 0 /\ Len(lines') = N + 1
      /\ l \in TraceLine /\ l.taken \in BOOLEAN /\ conf' = conf
      /\ DOMAIN lines = 1..N /\ DOMAIN lines' = 1..(N+1)
      /\ lines'[N+1] = l /\ \A n \in DOMAIN lines : lines'[n] = lines[n]
  <2>1. \A r \in TraceLine : r.taken \in BOOLEAN
    BY DEF TraceLine
  <2>2. GoesOn(lines, l, lines') /\ conf' = conf
    BY DEF Reads, Line
  <2>3. /\ l \in TraceLine /\ N \in Nat /\ Len(lines') = N + 1
        /\ DOMAIN lines = 1..N /\ DOMAIN lines' = 1..(N+1)
        /\ lines'[N+1] = l /\ \A n \in DOMAIN lines : lines'[n] = lines[n]
    BY <2>2 DEF GoesOn
  <2>4. HistSize \in Nat /\ HistSize # 0
    BY PredictorAssumption
  <2> QED BY <2>1, <2>2, <2>3, <2>4
<1>1. /\ globalHistory' = IF conf.globalHist THEN Push(globalHistory, l.taken) ELSE globalHistory
      /\ globalMachines' = IF conf.globalTable THEN Trained(globalMachines, h, l.taken)
                           ELSE globalMachines
      /\ Index(l.pc) \in 0..BTBSize-1 /\ old = btb[Index(l.pc)] /\ old \in Entry
      /\ btb'[Index(l.pc)] = new
  BY DEF Reads, Line
<1>2. /\ ~conf.globalHist => new.history = Push(entry.history, l.taken)
      /\ ~conf.globalTable => new.machines = Trained(entry.machines, h, l.taken)
  <2>1. TagOf(l.pc) \in Nat
    BY <1>0, PredictorAssumption, IndexInside DEF TraceLine
  <2>2. /\ ~conf.globalHist => Claimed(old, TagOf(l.pc)).history
                                 = IF TagOf(l.pc) = old.tag THEN old.history ELSE NoHistory
        /\ ~conf.globalTable => Claimed(old, TagOf(l.pc)).machines
                                 = IF TagOf(l.pc) = old.tag THEN old.machines ELSE FreshMachines
    BY <1>1, <2>1, ClaimedFields
  <2> QED BY <2>2 DEF Reads
<1> HIDE DEF entry, h
<1>3. /\ history2 = Push(HistoryOf(entry), l.taken)
      /\ machines2 = Trained(MachinesOf(entry), h, l.taken)
  BY <1>1, <1>2 DEF HistoryOf, MachinesOf
<1>4. SUFFICES ASSUME Same(lines', l)
      PROVE  /\ history2 = SteadyHistory(l.taken, N + 1)
             /\ Learned(machines2[g], l.taken, N + 1)
             /\ WrongLines(lines', printed') \subseteq 1..(HistSize + 2)
  <2>1. \A k : Same(lines', k) => k = l
    BY <1>0 DEF Same
  <2>2. \A k : Same(lines, k)' <=> Same(lines', k')
    BY DEF Same
  <2> HIDE DEF history2, machines2
  <2> SUFFICES ASSUME NEW k \in TraceLine, Same(lines', k)
               PROVE /\ HistoryOf(btb[Index(k.pc)])' = SteadyHistory(k.taken, Len(lines'))
                     /\ Learned(MachinesOf(btb[Index(k.pc)])'[Shared(SteadyHistory(k.taken, HistSize), k.pc)],
                                k.taken, Len(lines'))
                     /\ WrongLines(lines', printed') \subseteq 1..(HistSize + 2)
    BY <1>0 DEF SteadyFollow, Shared
  <2>3. k = l
    BY <2>1
  <2>4. HistoryOf(btb[Index(k.pc)])' = history2
    BY <1>0, <1>1, <2>3 DEF HistoryOf, history2
  <2>5. MachinesOf(btb[Index(k.pc)])' = machines2
    BY <1>0, <1>1, <2>3 DEF MachinesOf, machines2
  <2> QED BY <1>0, <2>3, <2>4, <2>5
<1> HIDE DEF history2, machines2
<1>5. Same(lines, l)
  BY <1>0, <1>4 DEF Same
<1>6. /\ HistoryOf(entry) = SteadyHistory(l.taken, N)
      /\ N # 0 => MachinesOf(entry) = MachinesOf(old)
  BY <1>5, SteadyEntry DEF entry
<1>7. history2 = SteadyHistory(l.taken, N + 1)
  BY <1>0, <1>3, <1>6, SteadyPush
<1>8. Learned(machines2[g], l.taken, N + 1)
  <2>1. CASE ~(N >= HistSize)
    <3>1. ~(N + 1 >= HistSize + 1) /\ ~(N + 1 >= HistSize + 2)
      BY <1>0, <2>1
    <3> QED BY <3>1 DEF Learned
  <2>2. CASE N >= HistSize
    <3>1. N # 0
      BY <1>0, <2>2
    <3>2. SteadyHistory(l.taken, N) = SteadyHistory(l.taken, HistSize)
          /\ SteadyHistory(l.taken, HistSize) \in HistIndex
      BY <1>0, <2>2, SteadyPush
    <3>3. h = g
      BY <1>6, <3>2 DEF h, entry, MachineFor
    <3>4. g \in HistIndex
      BY <3>2, SharedType
    <3>5. Learned(MachinesOf(old)[g], l.taken, N)
      BY <1>0, <1>1, <1>5 DEF SteadyFollow
    <3>6. MachinesOf(old) \in Machines
      BY <1>1 DEF MachinesOf, TypeOK, Entry
    <3> HIDE DEF g
    <3>7. MachinesOf(old)[g] \in SNT..ST
      BY <3>4, <3>6 DEF Machines
    <3>8. machines2[g] = Step(MachinesOf(old)[g], l.taken)
      BY <1>3, <1>6, <3>1, <3>3, <3>4, <3>6 DEF Trained, Machines
    <3> QED BY <1>0, <2>2, <3>5, <3>7, <3>8, SteadyLearns
  <2> QED BY <2>1, <2>2
<1>9. WrongLines(lines', printed') \subseteq 1..(HistSize + 2)
  <2> SUFFICES ASSUME NEW n \in WrongLines(lines', printed')
               PROVE  n \in 1..(HistSize + 2)
    OBVIOUS
  <2>1. /\ n \in 1..(N+1)
        /\ printed'[n] # (IF lines'[n].taken THEN lines'[n].target ELSE lines'[n].pc + 4)
    BY <1>0 DEF WrongLines
  <2>2. printed'[N + 1] = dst' /\ \A m \in DOMAIN lines : printed'[m] = printed[m]
    BY <1>0 DEF Reads, Recorded
  <2>3. CASE n = N + 1
    <3>1. ~(N >= HistSize + 2)
      BY <1>0, <1>5, <2>1, <2>2, <2>3, SteadyPredicts
    <3> QED BY <1>0, <2>3, <3>1
  <2>4. CASE n # N + 1
    <3>1. n \in DOMAIN lines
      BY <1>0, <2>1, <2>4
    <3>2. n \in WrongLines(lines, printed)
      BY <1>0, <2>1, <2>2, <3>1 DEF WrongLines
    <3>3. WrongLines(lines, printed) \subseteq 1..(HistSize + 2)
      BY <1>0, <1>5 DEF SteadyFollow
    <3> QED BY <3>2, <3>3
  <2> QED BY <2>3, <2>4
<1> QED BY <1>7, <1>8, <1>9

LEMMA InitHInv == HInit => HInv
<1> SUFFICES ASSUME HInit PROVE HInv
  OBVIOUS
<1>1. TypeOK
  BY InitTypeOK DEF HInit
<1>2. Recorded /\ DOMAIN lines = {}
  BY DEF HInit, Recorded
<1>3. \A i : EntryLines(lines, i) = {} /\ StayLines(lines, i) = {}
  BY <1>2 DEF EntryLines, StayLines
<1>4. EntriesFollow
  BY <1>3 DEF EntriesFollow, HInit, Init, DefEntry
<1>5. HistoriesFollow
  BY <1>2, <1>3, NoOutcomes DEF HistoriesFollow, HInit, Init, DefEntry
<1>6. FlushesFollow
  <2>1. WrongLines(lines, printed) = {}
    BY <1>2 DEF WrongLines
  <2> QED BY <2>1, FS_EmptySet DEF FlushesFollow, HInit, Init
<1>7. MachinesFollow
  <2>1. \A h : UsersOf(lines, {}, h) = {}
    BY DEF UsersOf
  <2>2. CountIn(lines, conf.fsm, {}) = conf.fsm
    <3>1. conf.fsm \in SNT..ST
      BY <1>1, PredictorAssumption DEF TypeOK, Config
    <3> QED BY <1>2, <3>1, CountNone DEF Recorded
  <2>3. \A h \in HistIndex : /\ globalMachines[h] = conf.fsm
                             /\ \A i \in 0..BTBSize-1 : btb[i].machines[h] = conf.fsm
    BY DEF HInit, Init, DefEntry, FreshMachines
  <2> QED BY <1>2, <1>3, <2>1, <2>2, <2>3 DEF MachinesFollow
<1>8. SteadyFollow
  <2> SUFFICES ASSUME NEW l \in TraceLine
               PROVE  /\ HistoryOf(btb[Index(l.pc)]) = SteadyHistory(l.taken, 0)
                      /\ ~(0 >= HistSize + 1) /\ ~(0 >= HistSize + 2)
                      /\ WrongLines(lines, printed) = {}
    BY <1>2 DEF SteadyFollow, Learned, HInit
  <2>1. l.taken \in BOOLEAN /\ Index(l.pc) \in 0..BTBSize-1 /\ HistSize \in Nat
    BY PredictorAssumption, IndexInside DEF TraceLine
  <2>2. SteadyHistory(l.taken, 0) = NoHistory
    BY <2>1, SteadyPush
  <2>3. HistoryOf(btb[Index(l.pc)]) = NoHistory
    BY <2>1 DEF HistoryOf, HInit, Init, DefEntry
  <2> QED BY <1>2, <2>1, <2>2, <2>3 DEF WrongLines
<1> QED BY <1>1, <1>2, <1>4, <1>5, <1>6, <1>7, <1>8 DEF HInv

LEMMA StepHInv == HInv /\ [HNext]_hvars => HInv'
<1> SUFFICES ASSUME HInv, [HNext]_hvars PROVE HInv'
  OBVIOUS
<1>1. CASE HNext
  <2>1. PICK pc \in PC, target \in Target, taken \in BOOLEAN :
          /\ Line(pc, target, taken)
          /\ lines' = Append(lines, [pc |-> pc, target |-> target, taken |-> taken])
          /\ printed' = Append(printed, dst')
    BY <1>1 DEF HNext
  <2>2. Recorded' /\ \E l, old, new : l \in TraceLine /\ Reads(l, old, new)
    BY <2>1, LineReads DEF HInv
  <2>3. PICK l, old, new : l \in TraceLine /\ Reads(l, old, new)
    BY <2>2
  <2>4. TypeOK'
    BY <2>1, LineKeepsType DEF HInv
  <2>5. EntriesFollow'
    BY <2>3, EntriesStep DEF HInv
  <2>6. HistoriesFollow'
    BY <2>3, HistoriesStep DEF HInv
  <2>7. FlushesFollow'
    BY <2>3, FlushesStep DEF HInv
  <2>8. MachinesFollow'
    BY <2>3, MachinesStep DEF HInv
  <2>9. SteadyFollow'
    BY <2>3, SteadyStep DEF HInv
  <2> QED BY <2>2, <2>4, <2>5, <2>6, <2>7, <2>8, <2>9 DEF HInv
<1>2. CASE UNCHANGED hvars
  <2>1. TypeOK' /\ Recorded' /\ EntriesFollow' /\ HistoriesFollow' /\ FlushesFollow'
    BY <1>2 DEF hvars, HInv, TypeOK, Machines, Entry, Recorded, EntriesFollow,
                HistoriesFollow, FlushesFollow
  <2>2. MachinesFollow'
    BY <1>2 DEF hvars, HInv, MachinesFollow, UsersOf, UsedIn, Shared
  <2>3. SteadyFollow'
    BY <1>2 DEF hvars, HInv, SteadyFollow, HistoryOf, MachinesOf, Shared
  <2> QED BY <2>1, <2>2, <2>3 DEF HInv
<1> QED BY <1>1, <1>2

-----------------------------------------------------------------------------
\* The invariant in the words of BranchPredictorHistory.

LEMMA InEntryLines ==
  ASSUME NEW i
  PROVE  InEntry(i) = EntryLines(lines, i)
BY DEF InEntry, EntryLines, AllLines

LEMMA CurrentStayLines ==
  ASSUME Recorded, NEW i
  PROVE  CurrentStay(i) = StayLines(lines, i)
<1> DEFINE E == EntryLines(lines, i)
<1>1. \A n \in E : n \in Nat /\ n < Len(lines) + 1
  BY EntryLinesAre DEF Recorded
<1>2. \A tag : Stay(i, tag, Len(lines) + 1) = TagLines(lines, i, tag)
  <2>1. {m \in E : m < Len(lines) + 1} = E
    BY <1>1
  <2> HIDE DEF E
  <2> QED BY <2>1, InEntryLines DEF Stay, TagLines, E
<1> QED BY <1>2, InEntryLines DEF CurrentStay, StayLines

LEMMA OutcomesOfLines ==
  ASSUME NEW S
  PROVE  OutcomesOf(S) = OutcomesIn(lines, S)
BY DEF OutcomesOf, OutcomesIn

LEMMA TablesOfTrace ==
  HInv => EntriesAreLastBranches /\ HistoriesAreOutcomes /\ FlushesAreWrongPaths
<1> SUFFICES ASSUME HInv
             PROVE  EntriesAreLastBranches /\ HistoriesAreOutcomes /\ FlushesAreWrongPaths
  OBVIOUS
<1>1. DOMAIN btb = 0..BTBSize-1
  BY DEF HInv, TypeOK
<1>2. EntriesAreLastBranches
  BY <1>1, InEntryLines DEF EntriesAreLastBranches, HInv, EntriesFollow
<1>3. HistoriesAreOutcomes
  <2>1. \A i : CurrentStay(i) = StayLines(lines, i)
    BY CurrentStayLines DEF HInv
  <2>2. \A S : OutcomesOf(S) = OutcomesIn(lines, S)
    BY OutcomesOfLines
  <2> QED BY <1>1, <2>1, <2>2 DEF HistoriesAreOutcomes, AllLines, HInv, HistoriesFollow
<1>4. FlushesAreWrongPaths
  BY DEF FlushesAreWrongPaths, AllLines, WrongLines, HInv, FlushesFollow
<1> QED BY <1>2, <1>3, <1>4

LEMMA UsedByLines ==
  ASSUME Recorded, NEW S, S \subseteq AllLines, NEW h
  PROVE  {n \in S : Used(n) = h} = UsersOf(lines, S, h)
<1>1. \A T : OutcomesOf(T) = OutcomesIn(lines, T)
  BY OutcomesOfLines
<1>2. \A i, tag, n : Stay(i, tag, n) = StayBefore(lines, i, tag, n)
  BY InEntryLines DEF Stay, StayBefore
<1>3. \A n : Used(n) = UsedIn(lines, n)
  BY <1>1, <1>2 DEF Used, UsedIn
<1> QED BY <1>3 DEF UsersOf

LEMMA CounterOfLines ==
  ASSUME NEW S
  PROVE  CounterOf(S) = CountIn(lines, conf.fsm, S)
BY DEF CounterOf, CountIn, Counted, Raised, Lowered, AllLines

LEMMA MachinesOfTrace ==
  HInv => MachinesAreCounters
<1> SUFFICES ASSUME HInv PROVE MachinesAreCounters
  OBVIOUS
<1>0. Recorded /\ DOMAIN btb = 0..BTBSize-1
  BY DEF HInv, TypeOK
<1>1. \A i : CurrentStay(i) = StayLines(lines, i) /\ StayLines(lines, i) \subseteq AllLines
  BY <1>0, CurrentStayLines, StayLinesAre DEF AllLines
<1>2. \A S, h : S \subseteq AllLines => {n \in S : Used(n) = h} = UsersOf(lines, S, h)
  BY <1>0, UsedByLines
<1>3. \A S : CounterOf(S) = CountIn(lines, conf.fsm, S)
  BY CounterOfLines
<1>4. ASSUME NEW h \in HistIndex, conf.globalTable
      PROVE  globalMachines[h] = CounterOf({n \in AllLines : Used(n) = h})
  <2>1. {n \in AllLines : Used(n) = h} = UsersOf(lines, AllLines, h)
    BY <1>2
  <2>2. globalMachines[h] = CountIn(lines, conf.fsm, UsersOf(lines, AllLines, h))
    BY <1>4 DEF HInv, MachinesFollow, AllLines
  <2> QED BY <1>3, <2>1, <2>2
<1>5. ASSUME NEW h \in HistIndex, ~conf.globalTable, NEW i \in DOMAIN btb
      PROVE  btb[i].machines[h] = CounterOf({n \in CurrentStay(i) : Used(n) = h})
  <2>1. {n \in CurrentStay(i) : Used(n) = h} = UsersOf(lines, StayLines(lines, i), h)
    BY <1>1, <1>2
  <2>2. btb[i].machines[h] = CountIn(lines, conf.fsm, UsersOf(lines, StayLines(lines, i), h))
    BY <1>0, <1>5 DEF HInv, MachinesFollow
  <2> QED BY <1>3, <2>1, <2>2
<1> QED BY <1>4, <1>5 DEF MachinesAreCounters

LEMMA SteadyIsLearned ==
  HInv => LearnsSteadyBranch
<1> SUFFICES ASSUME HInv, Steady PROVE flushes <= HistSize + 2
  BY DEF LearnsSteadyBranch
<1> DEFINE W == WrongLines(lines, printed)
           B == 1..(HistSize + 2)
<1>0. /\ lines \in Seq(TraceLine) /\ HistSize + 2 \in Nat
      /\ IsFiniteSet(W) /\ flushes = Cardinality(W)
  BY PredictorAssumption DEF HInv, Recorded, FlushesFollow
<1>1. W \subseteq B
  <2>1. CASE lines = <<>>
    BY <2>1 DEF WrongLines
  <2>2. CASE lines # <<>>
    <3>1. 1 \in DOMAIN lines /\ lines[1] \in TraceLine
      BY <1>0, <2>2
    <3>2. Same(lines, lines[1])
      BY DEF Steady, Same, AllLines
    <3> QED BY <3>1, <3>2 DEF HInv, SteadyFollow
  <2> QED BY <2>1, <2>2
<1>2. IsFiniteSet(B) /\ Cardinality(B) = HistSize + 2
  <2> DEFINE k == HistSize + 2
  <2>1. k \in Nat /\ k - 1 + 1 = k
    BY <1>0
  <2> HIDE DEF k
  <2>2. IsFiniteSet(1..k) /\ Cardinality(1..k) = k
    BY <2>1, FS_Interval
  <2> QED BY <2>2 DEF k
<1> HIDE DEF W, B
<1>3. Cardinality(W) <= Cardinality(B)
  BY <1>1, <1>2, FS_Subset
<1> QED BY <1>0, <1>2, <1>3

(***************************************************************************)
(* An entry of the BTB holds the last branch that maps to it, for every    *)
(* trace.                                                                  *)
(***************************************************************************)
THEOREM EntriesFollowTrace == HSpec => []EntriesAreLastBranches
BY InitHInv, StepHInv, TablesOfTrace, PTL DEF HSpec

(***************************************************************************)
(* A history holds the outcomes of the last branches that it belongs to,   *)
(* and a local one is forgotten as a whole when another branch takes the   *)
(* entry over.                                                             *)
(***************************************************************************)
THEOREM HistoriesFollowTrace == HSpec => []HistoriesAreOutcomes
BY InitHInv, StepHInv, TablesOfTrace, PTL DEF HSpec

(***************************************************************************)
(* A machine has counted, saturating at both ends, the outcomes of exactly *)
(* the branches that selected it since the table was fresh, for every      *)
(* choice of histories and tables, and a new branch in an entry starts a   *)
(* table of its own.                                                       *)
(***************************************************************************)
THEOREM MachinesCountOutcomes == HSpec => []MachinesAreCounters
BY InitHInv, StepHInv, MachinesOfTrace, PTL DEF HSpec

(***************************************************************************)
(* A branch that always does the same, alone in the trace, flushes at most *)
(* HistSize + 2 times, however long the trace and whatever the machines    *)
(* start with.                                                             *)
(***************************************************************************)
THEOREM SteadyBranchIsLearned == HSpec => []LearnsSteadyBranch
BY InitHInv, StepHInv, SteadyIsLearned, PTL DEF HSpec

(***************************************************************************)
(* The flushes that the main program reports are the lines of the trace    *)
(* for which it printed another address than the program went to.          *)
(***************************************************************************)
THEOREM FlushesFollowTrace == HSpec => []FlushesAreWrongPaths
BY InitHInv, StepHInv, TablesOfTrace, PTL DEF HSpec
=============================================================================
