-------------------------- MODULE DflowMain_proofs --------------------------
(***************************************************************************)
(* The dataflow calculator of HW3 gives the answers it promises, for       *)
(* traces of any length, every table of latencies and every size of the    *)
(* exit array; and its main program prints what its two files say and      *)
(* never exceeds a buffer.                                                 *)
(***************************************************************************)
EXTENDS DflowMainProperties, RecursionTheorems

\* The instructions point to earlier ones.
Graph ==
  /\ NumInsts \in Nat
  /\ \A n \in 1..NumInsts : dep1[n] \in 0..(n-1) /\ dep2[n] \in 0..(n-1)

LEMMA NodeFacts ==
  /\ Graph => Entry \in Node /\ Node \subseteq Nat
  /\ Graph => \A n \in Node : n # Entry =>
       /\ n \in 1..NumInsts
       /\ dep1[n] \in Node /\ dep2[n] \in Node
       /\ dep1[n] < n /\ dep2[n] < n
  BY DEF Graph, Node, Entry

(***************************************************************************)
(* The searches that follow both dependencies are well defined: there is a *)
(* function with the given value at the entry node and, at an instruction, *)
(* what step makes of the values at its two dependencies.                  *)
(***************************************************************************)
Follows(F, base, step) ==
  \A n \in Node : F[n] = IF n = Entry THEN base ELSE step[n][F[dep1[n]]][F[dep2[n]]]

LEMMA SearchExists ==
  ASSUME Graph, NEW V, NEW base \in V, NEW step \in [Node -> [V -> [V -> V]]]
  PROVE  \E F \in [Node -> V] : Follows(F, base, step)
<1> DEFINE D == Node
           rank == [n \in D |-> n]
           G == [n \in D |-> [f \in [D -> V] |->
                  IF n = Entry THEN base ELSE step[n][f[dep1[n]]][f[dep2[n]]]]]
<1>0. /\ NumInsts \in Nat
      /\ \A n \in D : n \in 0..NumInsts
      /\ \A n \in D : n # Entry =>
           /\ dep1[n] \in D /\ dep2[n] \in D
           /\ rank[dep1[n]] < rank[n] /\ rank[dep2[n]] < rank[n]
  <2>1. NumInsts \in Nat /\ \A n \in D : n \in 0..NumInsts
    BY DEF Graph, Node
  <2> QED BY <2>1, NodeFacts
<1>1. rank \in [D -> 0..NumInsts]
  BY <1>0
<1>2. G \in [D -> [[D -> V] -> V]]
  <2> HIDE DEF D, rank
  <2> SUFFICES ASSUME NEW n \in D, NEW f \in [D -> V], n # Entry
               PROVE  step[n][f[dep1[n]]][f[dep2[n]]] \in V
    OBVIOUS
  <2>1. f[dep1[n]] \in V /\ f[dep2[n]] \in V
    BY <1>0
  <2>2. step[n] \in [V -> [V -> V]]
    BY DEF D
  <2> QED BY <2>1, <2>2
<1>3. ASSUME NEW n \in D, NEW f \in [D -> V], NEW g \in [D -> V],
             \A m \in D : rank[m] < rank[n] => f[m] = g[m]
      PROVE  G[n][f] = G[n][g]
  <2> HIDE DEF D, rank
  <2>1. n # Entry => f[dep1[n]] = g[dep1[n]] /\ f[dep2[n]] = g[dep2[n]]
    BY <1>0, <1>3
  <2> QED BY <2>1
<1>4. ByRank(D, V, NumInsts, rank, G)
  <2>1. V # {}
    OBVIOUS
  <2> HIDE DEF D, rank, G
  <2> QED BY <1>0, <1>1, <1>2, <1>3, <2>1 DEF ByRank
<1>5. \E f \in [D -> V] : \A n \in D : f[n] = G[n][f]
  <2> HIDE DEF D, rank, G
  <2> QED BY <1>4, FunctionByRank
<1>6. PICK f \in [D -> V] : \A n \in D : f[n] = G[n][f]
  <2> HIDE DEF D, rank, G
  <2> QED BY <1>5
<1>7. Follows(f, base, step)
  BY <1>6 DEF Follows
<1> QED BY <1>7

-----------------------------------------------------------------------------
\* find_node.

FindIs(F, r) ==
  F = [n \in Node |-> IF n = Entry \/ Writes(n, r) THEN n
                      ELSE Later(F[dep1[n]], F[dep2[n]])]

LEMMA FindUnfolds ==
  ASSUME Graph, NEW r
  PROVE  FindIs(Find(r), r)
<1> DEFINE step == [n \in Node |-> [a \in Nat |-> [b \in Nat |->
                      IF Writes(n, r) THEN n ELSE Later(a, b)]]]
<1>1. step \in [Node -> [Nat -> [Nat -> Nat]]]
  BY NodeFacts DEF Later
<1>2. Entry \in Nat
  BY DEF Entry
<1>3. PICK F \in [Node -> Nat] : Follows(F, Entry, step)
  <2> HIDE DEF step
  <2> QED BY <1>1, <1>2, SearchExists
<1>4. ASSUME NEW n \in Node
      PROVE  F[n] = IF n = Entry \/ Writes(n, r) THEN n
                    ELSE Later(F[dep1[n]], F[dep2[n]])
  <2>1. CASE n = Entry
    BY <1>3, <2>1 DEF Follows
  <2>2. CASE n # Entry
    <3>1. F[dep1[n]] \in Nat /\ F[dep2[n]] \in Nat
      BY <2>2, NodeFacts
    <3>2. F[n] = step[n][F[dep1[n]]][F[dep2[n]]]
      BY <1>3, <2>2 DEF Follows
    <3> QED BY <2>2, <3>1, <3>2
  <2> QED BY <2>1, <2>2
<1>5. F = [n \in Node |-> F[n]]
  OBVIOUS
<1>6. \E f : FindIs(f, r)
  <2> WITNESS F
  <2> QED BY <1>4, <1>5 DEF FindIs
<1>7. Find(r) = CHOOSE f : FindIs(f, r)
  BY DEF Find, FindIs
<1> QED BY <1>6, <1>7

(***************************************************************************)
(* What find_node returns for a node: a writer of the register, or Entry;  *)
(* never one before what it returns for a dependency of the node.          *)
(***************************************************************************)
LEMMA FindFacts ==
  ASSUME Graph, NEW r
  PROVE  /\ \A n \in Node : /\ Find(r)[n] \in Node
                            /\ Find(r)[n] = Entry \/ Writes(Find(r)[n], r)
         /\ \A n \in Node : Writes(n, r) => Find(r)[n] = n
         /\ \A n \in Node \ {Entry} :
              Find(r)[dep1[n]] <= Find(r)[n] /\ Find(r)[dep2[n]] <= Find(r)[n]
<1> DEFINE F == Find(r)
           T == {n \in Nat : n \in Node => F[n] \in 0..n /\ (F[n] = Entry \/ Writes(F[n], r))}
<1>1. \A n \in Node : F[n] = IF n = Entry \/ Writes(n, r) THEN n
                             ELSE Later(F[dep1[n]], F[dep2[n]])
  <2>1. FindIs(F, r)
    BY FindUnfolds
  <2> HIDE DEF F
  <2> QED BY <2>1 DEF FindIs
<1> HIDE DEF F
<1>2. ASSUME NEW n \in Nat, \A m \in 0..(n-1) : m \in T
      PROVE  n \in T
  <2> SUFFICES ASSUME n \in Node
               PROVE  F[n] \in 0..n /\ (F[n] = Entry \/ Writes(F[n], r))
    OBVIOUS
  <2>1. CASE n = Entry \/ Writes(n, r)
    BY <1>1, <2>1
  <2>2. CASE ~(n = Entry \/ Writes(n, r))
    <3>1. /\ dep1[n] \in Node /\ dep1[n] \in 0..(n-1)
          /\ dep2[n] \in Node /\ dep2[n] \in 0..(n-1)
      <4>1. /\ dep1[n] \in Node /\ dep1[n] \in Nat /\ dep1[n] < n
            /\ dep2[n] \in Node /\ dep2[n] \in Nat /\ dep2[n] < n
        BY <2>2, NodeFacts
      <4> QED BY <4>1
    <3>2. /\ F[dep1[n]] \in 0..dep1[n] /\ F[dep2[n]] \in 0..dep2[n]
          /\ F[dep1[n]] = Entry \/ Writes(F[dep1[n]], r)
          /\ F[dep2[n]] = Entry \/ Writes(F[dep2[n]], r)
      BY <1>2, <3>1
    <3>3. F[n] = Later(F[dep1[n]], F[dep2[n]])
      BY <1>1, <2>2
    <3>4. F[n] \in {F[dep1[n]], F[dep2[n]]}
      BY <3>3 DEF Later
    <3> QED BY <3>1, <3>2, <3>4
  <2> QED BY <2>1, <2>2
<1>3. Nat \subseteq T
  <2> HIDE DEF T
  <2> QED BY <1>2, CompleteInduction
<1>4. \A n \in Node : F[n] \in 0..n /\ (F[n] = Entry \/ Writes(F[n], r))
  BY <1>3, NodeFacts
<1>5. \A n \in Node : F[n] \in Node
  BY <1>4 DEF Graph, Node
<1>6. \A n \in Node : Writes(n, r) => F[n] = n
  BY <1>1
<1>7. ASSUME NEW n \in Node \ {Entry}
      PROVE  F[dep1[n]] <= F[n] /\ F[dep2[n]] <= F[n]
  <2>1. /\ dep1[n] \in Node /\ dep1[n] \in Nat /\ dep1[n] < n
        /\ dep2[n] \in Node /\ dep2[n] \in Nat /\ dep2[n] < n
    BY NodeFacts
  <2>2. F[dep1[n]] \in 0..dep1[n] /\ F[dep2[n]] \in 0..dep2[n]
    BY <1>4, <2>1
  <2>3. CASE Writes(n, r)
    BY <1>6, <2>1, <2>2, <2>3, NodeFacts
  <2>4. CASE ~Writes(n, r)
    <3>1. F[n] = Later(F[dep1[n]], F[dep2[n]])
      BY <1>1, <2>4
    <3> QED BY <3>1, <2>1, <2>2 DEF Later
  <2> QED BY <2>3, <2>4
<1> QED BY <1>4, <1>5, <1>6, <1>7 DEF F

-----------------------------------------------------------------------------
(***************************************************************************)
(* The exit array is complete when every instruction is in it or has an    *)
(* instruction that depends on it.  Then whatever holds for the nodes in   *)
(* it and is handed on to dependencies holds for all instructions.         *)
(***************************************************************************)
Depends(m, n) == dep1[m] = n \/ dep2[m] = n

Complete ==
  \A n \in 1..NumInsts :
    n \in Range(deps) \/ \E m \in 1..NumInsts : Depends(m, n)

LEMMA HandedDown ==
  ASSUME Graph, Complete,
         NEW S, Range(deps) \subseteq S,
         \A m \in S : m \in Node \ {Entry} => dep1[m] \in S /\ dep2[m] \in S
  PROVE  1..NumInsts \subseteq S
<1> DEFINE T == {d \in Nat : NumInsts - d \in 1..NumInsts => NumInsts - d \in S}
<1>0. NumInsts \in Nat
  BY DEF Graph
<1>1. ASSUME NEW d \in Nat, \A e \in 0..(d-1) : e \in T
      PROVE  d \in T
  <2> SUFFICES ASSUME NumInsts - d \in 1..NumInsts
               PROVE  NumInsts - d \in S
    OBVIOUS
  <2> DEFINE n == NumInsts - d
  <2>1. CASE n \in Range(deps)
    BY <2>1
  <2>2. CASE \E m \in 1..NumInsts : Depends(m, n)
    <3>1. PICK m \in 1..NumInsts : Depends(m, n)
      BY <2>2
    <3>2. m \in Node \ {Entry} /\ m > n
      BY <3>1, <1>0 DEF Graph, Depends, Node, Entry
    <3>3. NumInsts - m \in 0..(d-1) /\ NumInsts - (NumInsts - m) = m
      BY <3>2, <1>0
    <3>4. m \in S
      BY <1>1, <3>3
    <3> QED BY <3>1, <3>2, <3>4 DEF Depends
  <2> QED BY <2>1, <2>2 DEF Complete
<1>2. Nat \subseteq T
  <2> HIDE DEF T
  <2> QED BY <1>1, CompleteInduction
<1>3. ASSUME NEW n \in 1..NumInsts
      PROVE  n \in S
  <2>1. NumInsts - n \in Nat /\ NumInsts - (NumInsts - n) = n
    BY <1>0
  <2>2. NumInsts - n \in T
    BY <1>2, <2>1
  <2> QED BY <2>1, <2>2
<1> QED BY <1>3

(***************************************************************************)
(* Folding a sequence of numbers with Later gives the greatest of them.    *)
(***************************************************************************)
LEMMA FoldLater ==
  ASSUME NEW seq \in Seq(Nat)
  PROVE  LET m == FoldLeft(Later, Entry, seq)
         IN  /\ m \in Nat
             /\ \A s \in DOMAIN seq : seq[s] <= m
             /\ m = Entry \/ \E s \in DOMAIN seq : m = seq[s]
<1> DEFINE n == Len(seq)
           F == [j \in 1..n |-> [v \in Nat |-> Later(v, seq[j])]]
           P(m, j) == /\ m \in Nat
                      /\ \A s \in 1..j : seq[s] <= m
                      /\ m = Entry \/ \E s \in 1..j : m = seq[s]
           IsIter(f) == f = [s \in SUBSET (DOMAIN seq) |->
              IF s = {} THEN Entry ELSE Later(f[s \ {Max(s)}], seq[Max(s)])]
<1>0. n \in Nat /\ DOMAIN seq = 1..n /\ \A s \in 1..n : seq[s] \in Nat
  OBVIOUS
<1>1. FoldLeft(Later, Entry, seq) = (CHOOSE f : IsIter(f))[DOMAIN seq]
  BY DEF FoldLeft, MapThenFoldSet
<1>2. \E f : IsIter(f)
  <2>1. F \in [1..n -> [Nat -> Nat]]
    BY <1>0 DEF Later
  <2>2. PICK f \in [SUBSET (1..n) -> Nat] : IsFold(f, n, Entry, F)
    <3> HIDE DEF F
    <3> QED BY <2>1, <1>0, FoldExists DEF Entry
  <2>3. ASSUME NEW s \in SUBSET (1..n)
        PROVE  f[s] = IF s = {} THEN Entry ELSE Later(f[s \ {Max(s)}], seq[Max(s)])
    <3>1. s # {} => Max(s) \in 1..n /\ f[s \ {Max(s)}] \in Nat
      BY <1>0, MaxOfSubset
    <3>2. f[s] = IF s = {} THEN Entry ELSE F[Max(s)][f[s \ {Max(s)}]]
      <4> HIDE DEF F
      <4> QED BY <2>2 DEF IsFold
    <3> QED BY <3>1, <3>2
  <2>4. f = [s \in SUBSET (1..n) |-> f[s]]
    OBVIOUS
  <2>5. IsIter(f)
    BY <2>3, <2>4, <1>0
  <2> QED BY <2>5
<1>3. PICK f : IsIter(f) /\ FoldLeft(Later, Entry, seq) = f[1..n]
  <2> HIDE DEF IsIter
  <2> QED BY <1>0, <1>1, <1>2
<1>4. /\ f[1..0] = Entry
      /\ \A j \in 1..n : f[1..j] = Later(f[1..(j-1)], seq[j])
  <2>1. \A s \in SUBSET (1..n) :
          f[s] = IF s = {} THEN Entry ELSE Later(f[s \ {Max(s)}], seq[Max(s)])
    BY <1>0, <1>3
  <2> HIDE DEF IsIter, n
  <2>2. f[1..0] = Entry
    BY <1>0, <2>1, Segments
  <2>3. ASSUME NEW j \in 1..n
        PROVE  f[1..j] = Later(f[1..(j-1)], seq[j])
    <3>1. 1..j \in SUBSET (1..n) /\ 1..j # {} /\ Max(1..j) = j /\ (1..j) \ {j} = 1..(j-1)
      BY <1>0, Segments
    <3> QED BY <2>1, <3>1
  <2> QED BY <2>2, <2>3
<1> HIDE DEF IsIter
<1> DEFINE T == {j \in Nat : j <= n => P(f[1..j], j)}
<1>5. 0 \in T
  BY <1>4 DEF Entry
<1>6. ASSUME NEW j \in Nat, j \in T PROVE j + 1 \in T
  <2> SUFFICES ASSUME j + 1 <= n PROVE P(f[1..(j+1)], j + 1)
    OBVIOUS
  <2>1. P(f[1..j], j) /\ j + 1 \in 1..n /\ j <= n /\ (j + 1) - 1 = j
    BY <1>6, <1>0
  <2>2. f[1..(j+1)] = Later(f[1..j], seq[j+1]) /\ seq[j+1] \in Nat
    BY <1>0, <1>4, <2>1
  <2> QED BY <1>0, <2>1, <2>2 DEF Later
<1>7. P(f[1..n], n)
  <2> HIDE DEF T, P
  <2>1. n \in T
    BY <1>0, <1>5, <1>6, Induction
  <2> QED BY <2>1, <1>0 DEF T
<1> QED BY <1>0, <1>3, <1>7

(***************************************************************************)
(* When the exit array is complete, the search from the exit node finds    *)
(* the last writer of a register among all the instructions.               *)
(***************************************************************************)
LastWriterOfAll(r) == Max({m \in 1..NumInsts : insts[m].dst = r} \cup {Entry})

LEMMA MostRecentIsLast ==
  ASSUME Graph, Complete, deps \in Seq(Node), NEW r
  PROVE  /\ MostRecent(r) = LastWriterOfAll(r)
         /\ MostRecent(r) \in Node
<1> DEFINE F == Find(r)
           seq == [s \in DOMAIN deps |-> F[deps[s]]]
           M == FoldLeft(Later, Entry, seq)
           W == {m \in 1..NumInsts : insts[m].dst = r} \cup {Entry}
<1>1. MostRecent(r) = M
  BY DEF MostRecent
<1>2. /\ \A n \in Node : F[n] \in Node /\ (F[n] = Entry \/ Writes(F[n], r))
      /\ \A n \in Node : Writes(n, r) => F[n] = n
      /\ \A n \in Node \ {Entry} : F[dep1[n]] <= F[n] /\ F[dep2[n]] <= F[n]
  BY FindFacts
<1> HIDE DEF F
<1>3. /\ DOMAIN deps = 1..Len(deps) /\ Len(deps) \in Nat
      /\ \A s \in DOMAIN deps : deps[s] \in Node /\ F[deps[s]] \in Node
  BY <1>2
<1>4. seq \in Seq(Nat)
  <2>1. \A s \in 1..Len(deps) : F[deps[s]] \in Nat
    BY <1>3, NodeFacts
  <2>2. seq = [s \in 1..Len(deps) |-> F[deps[s]]]
    BY <1>3
  <2> QED BY <1>3, <2>1, <2>2
<1>5. /\ M \in Nat
      /\ \A s \in DOMAIN deps : F[deps[s]] <= M
      /\ M = Entry \/ \E s \in DOMAIN deps : M = F[deps[s]]
  <2>1. DOMAIN seq = DOMAIN deps /\ \A s \in DOMAIN deps : seq[s] = F[deps[s]]
    OBVIOUS
  <2> HIDE DEF seq
  <2> QED BY <1>4, <2>1, FoldLater
<1> HIDE DEF M
<1>6. \A n \in Node : Writes(n, r) <=> n \in W \ {Entry}
  BY NodeFacts DEF Writes, Node, Entry
<1>7. M \in W
  BY <1>2, <1>3, <1>5, <1>6
<1>8. ASSUME NEW n \in W PROVE n <= M
  <2> DEFINE S == {m \in Node : F[m] <= M}
  <2>1. Range(deps) \subseteq S
    BY <1>3, <1>5 DEF Range
  <2>2. ASSUME NEW m \in S, m \in Node \ {Entry}
        PROVE  dep1[m] \in S /\ dep2[m] \in S
    <3>1. dep1[m] \in Node /\ dep2[m] \in Node
      BY <2>2, NodeFacts
    <3>2. F[m] \in Nat /\ F[dep1[m]] \in Nat /\ F[dep2[m]] \in Nat
      BY <3>1, <2>2, <1>2, NodeFacts
    <3>3. F[m] <= M /\ F[dep1[m]] <= F[m] /\ F[dep2[m]] <= F[m]
      BY <2>2, <1>2
    <3> QED BY <3>1, <3>2, <3>3, <1>5
  <2>3. 1..NumInsts \subseteq S
    <3> HIDE DEF S
    <3> QED BY <2>1, <2>2, HandedDown
  <2>4. CASE n = Entry
    BY <2>4, <1>5 DEF Entry
  <2>5. CASE n \in 1..NumInsts /\ insts[n].dst = r
    <3>1. n \in Node /\ Writes(n, r)
      BY <2>5 DEF Writes, Node, Entry
    <3>2. F[n] = n /\ F[n] <= M
      BY <3>1, <1>2, <2>3, <2>5
    <3> QED BY <3>2
  <2> QED BY <2>4, <2>5
<1>9. Max(W) = M
  <2>1. W \subseteq Nat /\ \A y \in W : y \in Nat /\ M >= y
    BY <1>5, <1>8 DEF Entry
  <2> HIDE DEF W
  <2> QED BY <1>7, <2>1, MaxIs
<1>10. M \in Node
  BY <1>7, NodeFacts DEF Node, Entry, Graph
<1> QED BY <1>1, <1>9, <1>10 DEF LastWriterOfAll

-----------------------------------------------------------------------------
(***************************************************************************)
(* The invariant.  First the shape of the graph and of the exit array ...  *)
(***************************************************************************)
InLoop == pc \in {"disconnect", "connect"}

Shape ==
  /\ opsLatency \in [Opcode -> Nat]
  /\ insts \in Seq(Instruction) /\ NumInsts <= MaxInsts
  /\ dep1 \in Seq(Nat) /\ dep2 \in Seq(Nat) /\ depth \in Seq(Nat)
  /\ Len(dep1) = NumInsts /\ Len(dep2) = NumInsts /\ Len(depth) = NumInsts
  /\ Graph
  /\ deps \in Seq(Node) /\ size \in Nat \ {0} /\ Len(deps) <= size
  /\ maxDepth \in Nat
  /\ i \in 1..size+1
  /\ pc \in {"add", "disconnect", "connect", "returned", "freed"}
  /\ InLoop => NumInsts # 0

\* ... the writers that an instruction points to ...
Writers ==
  \A n \in 1..NumInsts :
    LET writer1 == LastWriter(n, insts[n].src1)
        writer2 == LastWriter(n, insts[n].src2)
    IN  /\ dep1[n] = IF writer1 = Entry THEN writer2 ELSE writer1
        /\ dep2[n] = IF writer2 = Entry THEN writer1 ELSE writer2

\* ... the nodes the exit node has to point to when there are k instructions,
\* and what is left to do for that while the last one is being connected ...
Leaves(k) == {n \in 1..k : \A m \in 1..k : ~Depends(m, n)}
ExitNodes(k) == IF k = 0 THEN {Entry} ELSE Leaves(k)

Connected ==
  /\ ~InLoop => Range(deps) = ExitNodes(NumInsts)
  /\ InLoop =>
       LET old  == ExitNodes(NumInsts - 1)
           gone == {dep1[NumInsts], dep2[NumInsts]}
       IN  /\ Range(deps) \subseteq old /\ old \ gone \subseteq Range(deps)
           /\ \A s \in DOMAIN deps : s < i \/ pc = "connect" => deps[s] \notin gone

\* ... and the depths.
Timed ==
  /\ \A n \in 1..NumInsts : depth[n] = StartAfter(dep1[n], dep2[n])
  /\ \A n \in 1..NumInsts : depth[n] + Cycles(n) <= maxDepth
  /\ maxDepth = 0 \/ \E n \in 1..NumInsts : maxDepth = depth[n] + Cycles(n)

TreeInv == Shape /\ Writers /\ Connected /\ Timed

LEMMA ConnectedIsComplete ==
  Shape /\ Connected /\ ~InLoop => Complete
<1> SUFFICES ASSUME Shape, Connected, ~InLoop, NEW n \in 1..NumInsts
             PROVE  n \in Range(deps) \/ \E m \in 1..NumInsts : Depends(m, n)
  BY DEF Complete
<1>1. Range(deps) = Leaves(NumInsts)
  BY DEF Connected, ExitNodes, Shape, Graph
<1> QED BY <1>1 DEF Leaves

-----------------------------------------------------------------------------
\* Taking a node out of the exit array.

LEMMA RemoveAtElements ==
  ASSUME NEW V, NEW d \in Seq(V), NEW s \in 1 .. Len(d)
  PROVE  /\ RemoveAt(d, s) \in Seq(V)
         /\ Len(RemoveAt(d, s)) = Len(d) - 1
         /\ \A j \in 1 .. Len(d) - 1 :
              RemoveAt(d, s)[j] = IF j < s THEN d[j] ELSE d[j + 1]
<1> DEFINE a == SubSeq(d, 1, s - 1)
           b == SubSeq(d, s + 1, Len(d))
<1>1. Len(d) \in Nat /\ s \in Nat /\ 1 <= s /\ s <= Len(d)
  OBVIOUS
<1>2. /\ a \in Seq(V) /\ Len(a) = s - 1
      /\ \A j \in 1..(s-1) : a[j] = d[j]
  OBVIOUS
<1>3. /\ b \in Seq(V) /\ Len(b) = Len(d) - s
      /\ \A j \in 1..(Len(d) - s) : b[j] = d[j + s]
  OBVIOUS
<1> HIDE DEF a, b
<1>4. /\ a \o b \in Seq(V) /\ Len(a \o b) = Len(d) - 1
      /\ \A j \in 1..(Len(d) - 1) : (a \o b)[j] = IF j < s THEN a[j] ELSE b[j - (s - 1)]
  <2>1. a \in Seq(V) /\ b \in Seq(V)
    BY <1>2, <1>3
  <2>2. /\ a \o b \in Seq(V) /\ Len(a \o b) = Len(a) + Len(b)
        /\ \A j \in 1..(Len(a) + Len(b)) :
             (a \o b)[j] = IF j <= Len(a) THEN a[j] ELSE b[j - Len(a)]
    BY <2>1
  <2>3. Len(a) + Len(b) = Len(d) - 1 /\ \A j \in Nat : j <= Len(a) <=> j < s
    BY <1>1, <1>2, <1>3
  <2> QED BY <1>2, <2>2, <2>3
<1>5. ASSUME NEW j \in 1..(Len(d) - 1)
      PROVE  (a \o b)[j] = IF j < s THEN d[j] ELSE d[j + 1]
  <2>1. CASE j < s
    BY <2>1, <1>1, <1>2, <1>4
  <2>2. CASE ~(j < s)
    <3>1. j - (s - 1) \in 1..(Len(d) - s) /\ (j - (s - 1)) + s = j + 1
      BY <2>2, <1>1
    <3> QED BY <2>2, <3>1, <1>3, <1>4
  <2> QED BY <2>1, <2>2
<1>6. RemoveAt(d, s) = a \o b
  BY DEF RemoveAt, a, b
<1> QED BY <1>4, <1>5, <1>6

LEMMA ShiftedFacts ==
  ASSUME NEW V, NEW d \in Seq(V), NEW s \in 1..Len(d), size \in Nat
  PROVE  /\ Shifted(d, s) \in Seq(V)
         /\ Len(Shifted(d, s)) <= Len(d) /\ Len(d) - 1 <= Len(Shifted(d, s))
         /\ \A j \in 1..(s-1) : Shifted(d, s)[j] = d[j]
         /\ Range(Shifted(d, s)) \subseteq Range(d)
         /\ Range(d) \ {d[s]} \subseteq Range(Shifted(d, s))
<1> DEFINE r == RemoveAt(d, s)
           w == Shifted(d, s)
<1>1. /\ r \in Seq(V) /\ Len(r) = Len(d) - 1
      /\ \A j \in 1 .. Len(d) - 1 : r[j] = IF j < s THEN d[j] ELSE d[j + 1]
  BY RemoveAtElements
<1>2. Len(d) \in Nat /\ s \in Nat /\ 1 <= s /\ s <= Len(d) /\ d[Len(d)] \in V
  OBVIOUS
<1>3. w = r \/ w = Append(r, d[Len(d)])
  BY DEF Shifted, Last
<1> HIDE DEF r, w
<1>4. /\ w \in Seq(V) /\ Len(w) <= Len(d) /\ Len(d) - 1 <= Len(w) /\ Len(w) \in Nat
      /\ \A j \in 1..(Len(d) - 1) : w[j] = r[j]
      /\ \A j \in 1..Len(w) : (w[j] = r[j] /\ j <= Len(d) - 1) \/ w[j] = d[Len(d)]
  <2>1. CASE w = r
    BY <2>1, <1>1, <1>2
  <2>2. CASE w = Append(r, d[Len(d)])
    <3>1. r \in Seq(V) /\ Len(r) = Len(d) - 1 /\ d[Len(d)] \in V
      BY <1>1, <1>2
    <3>2. w \in Seq(V) /\ Len(w) = Len(d)
      BY <2>2, <3>1, <1>2
    <3>3. /\ \A j \in 1..(Len(d) - 1) : w[j] = r[j]
          /\ w[Len(d)] = d[Len(d)]
      BY <2>2, <3>1, <1>2
    <3> QED BY <3>2, <3>3, <1>2
  <2> QED BY <2>1, <2>2, <1>3
<1>5. \A j \in 1..(s-1) : w[j] = d[j]
  BY <1>1, <1>2, <1>4
<1>6. \A j \in 1..Len(w) : \E k \in 1..Len(d) : w[j] = d[k]
  BY <1>1, <1>2, <1>4
<1>7. ASSUME NEW k \in 1..Len(d), d[k] # d[s]
      PROVE  \E j \in 1..Len(w) : w[j] = d[k]
  <2>1. CASE k < s
    <3>1. k \in 1..Len(w) /\ w[k] = d[k]
      BY <2>1, <1>2, <1>4, <1>5
    <3> QED BY <3>1
  <2>2. CASE k > s
    <3>1. k - 1 \in 1..(Len(d) - 1) /\ ~(k - 1 < s) /\ (k - 1) + 1 = k
      BY <2>2, <1>2
    <3>2. r[k - 1] = d[k]
      BY <3>1, <1>1
    <3>3. w[k - 1] = d[k] /\ k - 1 \in 1..Len(w)
      BY <3>1, <3>2, <1>2, <1>4
    <3> QED BY <3>3
  <2>3. k # s
    BY <1>7
  <2> QED BY <2>1, <2>2, <2>3, <1>2
<1>8. DOMAIN w = 1..Len(w) /\ DOMAIN d = 1..Len(d)
  BY <1>4
<1>9. /\ Range(w) = {w[j] : j \in 1..Len(w)}
      /\ Range(d) = {d[k] : k \in 1..Len(d)}
  BY <1>8 DEF Range
<1>10. Range(w) \subseteq Range(d)
  BY <1>6, <1>9
<1>11. Range(d) \ {d[s]} \subseteq Range(w)
  <2> SUFFICES ASSUME NEW k \in 1..Len(d), d[k] # d[s] PROVE d[k] \in Range(w)
    BY <1>9
  <2> QED BY <1>7, <1>9
<1> QED BY <1>4, <1>5, <1>10, <1>11 DEF w

LEMMA WithoutFacts ==
  ASSUME NEW V, NEW d \in Seq(V), NEW s \in Nat \ {0}, NEW n, size \in Nat
  PROVE  /\ Without(d, s, n) \in Seq(V)
         /\ Len(Without(d, s, n)) <= Len(d)
         /\ Len(d) <= Len(Without(d, s, n)) \/ Len(Without(d, s, n)) >= s - 1
         /\ \A j \in 1..Len(Without(d, s, n)) : j < s => Without(d, s, n)[j] = d[j]
         /\ Range(Without(d, s, n)) \subseteq Range(d)
         /\ Range(d) \ {n} \subseteq Range(Without(d, s, n))
         /\ ~(s <= Len(d) /\ d[s] = n) => Without(d, s, n) = d
<1>1. CASE s <= Len(d) /\ d[s] = n
  <2>1. Without(d, s, n) = Shifted(d, s) /\ s \in 1..Len(d) /\ Len(d) \in Nat
    BY <1>1 DEF Without
  <2> DEFINE w == Shifted(d, s)
  <2>2. /\ w \in Seq(V) /\ Len(w) \in Nat
        /\ Len(w) <= Len(d) /\ Len(d) - 1 <= Len(w)
        /\ \A j \in 1..(s-1) : w[j] = d[j]
        /\ Range(w) \subseteq Range(d)
        /\ Range(d) \ {n} \subseteq Range(w)
    BY <2>1, <1>1, ShiftedFacts
  <2> HIDE DEF w
  <2>3. \A j \in 1..Len(w) : j < s => w[j] = d[j]
    BY <2>2
  <2>4. Len(w) >= s - 1
    BY <2>1, <2>2
  <2>5. Without(d, s, n) = w
    BY <2>1 DEF w
  <2> QED BY <2>2, <2>3, <2>4, <2>5, <1>1
<1>2. CASE ~(s <= Len(d) /\ d[s] = n)
  <2>1. Without(d, s, n) = d /\ Len(d) \in Nat
    BY <1>2 DEF Without
  <2> QED BY <2>1
<1> QED BY <1>1, <1>2

-----------------------------------------------------------------------------
\* The steps that leave the graph alone.

GraphKept == UNCHANGED <<opsLatency, insts, dep1, dep2, depth, maxDepth>>

LEMMA KeptShape ==
  Shape /\ GraphKept =>
    /\ opsLatency' \in [Opcode -> Nat]
    /\ (insts \in Seq(Instruction))' /\ (NumInsts <= MaxInsts)'
    /\ (dep1 \in Seq(Nat) /\ dep2 \in Seq(Nat) /\ depth \in Seq(Nat))'
    /\ (Len(dep1) = NumInsts /\ Len(dep2) = NumInsts /\ Len(depth) = NumInsts)'
    /\ Graph' /\ maxDepth' \in Nat
    /\ NumInsts' = NumInsts /\ Node' = Node
    /\ ExitNodes(NumInsts)' = ExitNodes(NumInsts)
    /\ ExitNodes(NumInsts - 1)' = ExitNodes(NumInsts - 1)
  BY DEF Shape, GraphKept, Graph, NumInsts, Node, ExitNodes, Leaves, Depends

LEMMA KeptWriters == Writers /\ GraphKept => Writers'
  BY DEF Writers, GraphKept, LastWriter, NumInsts

LEMMA KeptTimed == Timed /\ GraphKept => Timed'
  BY DEF Timed, GraphKept, NumInsts, StartAfter, DepthOf, Cycles

LEMMA DisconnectInv ==
  Shape /\ Connected /\ Disconnect => Shape' /\ Connected'
<1> SUFFICES ASSUME Shape, Connected, Disconnect
             PROVE  Shape' /\ Connected'
  OBVIOUS
<1> DEFINE N == NumInsts
           first == dep1[N]
           second == dep2[N]
           once == Without(deps, i, first)
           twice == Without(once, i, second)
           old == ExitNodes(N - 1)
<1>0. GraphKept /\ UNCHANGED size
  BY DEF Disconnect, GraphKept
<1>1. /\ pc = "disconnect" /\ i <= Len(deps) /\ deps' = twice
      /\ \/ i > Len(once) /\ pc' = "connect" /\ i' = i
         \/ /\ i <= Len(once) /\ pc' = pc
            /\ \/ i' = i
               \/ i' = i + 1 /\ deps[i] # first /\ once[i] # second
  <2>1. Len(once) \in Int /\ i \in Int
    BY WithoutFacts DEF Shape
  <2> HIDE DEF once
  <2> QED BY <2>1 DEF Disconnect, once
<1>2. /\ deps \in Seq(Node) /\ Len(deps) \in Nat /\ i \in Nat \ {0} /\ size \in Nat
      /\ Len(deps) <= size /\ DOMAIN deps = 1..Len(deps)
  BY DEF Shape
<1>3. /\ once \in Seq(Node) /\ Len(once) \in Nat /\ Len(once) <= Len(deps)
      /\ Len(deps) <= Len(once) \/ Len(once) >= i - 1
      /\ \A j \in 1..Len(once) : j < i => once[j] = deps[j]
      /\ Range(once) \subseteq Range(deps)
      /\ Range(deps) \ {first} \subseteq Range(once)
      /\ deps[i] # first => once = deps
  <2>1. once \in Seq(Node)
    BY <1>2, WithoutFacts
  <2> QED BY <1>2, <2>1, WithoutFacts
<1> HIDE DEF once
<1>4. /\ twice \in Seq(Node) /\ Len(twice) \in Nat /\ Len(twice) <= Len(once)
      /\ \A j \in 1..Len(twice) : j < i => twice[j] = once[j]
      /\ Range(twice) \subseteq Range(once)
      /\ Range(once) \ {second} \subseteq Range(twice)
      /\ ~(i <= Len(once) /\ once[i] = second) => twice = once
  <2>1. twice \in Seq(Node)
    BY <1>2, <1>3, WithoutFacts
  <2> QED BY <1>2, <1>3, <2>1, WithoutFacts
<1> HIDE DEF twice
<1>5. Shape'
  <2>1. i' \in 1..size+1
    BY <1>1, <1>2, <1>3
  <2>2. Len(twice) <= size
    BY <1>2, <1>3, <1>4
  <2>3. pc' \in {"disconnect", "connect"} /\ NumInsts # 0
    BY <1>1 DEF Shape, InLoop
  <2>4. (size \in Nat \ {0})' /\ (i \in 1..size+1)' /\ (Len(deps) <= size)'
    BY <1>0, <1>1, <2>1, <2>2 DEF Shape
  <2>5. (deps \in Seq(Node))'
    BY <1>0, <1>1, <1>4, KeptShape
  <2> QED BY <1>0, <2>3, <2>4, <2>5, KeptShape DEF Shape
<1>6. Connected'
  <2>1. /\ InLoop /\ InLoop' /\ pc # "connect"
        /\ N' = N /\ first' = first /\ second' = second
        /\ (ExitNodes(NumInsts - 1))' = old
    BY <1>0, <1>1, KeptShape DEF InLoop, GraphKept
  <2>2. /\ Range(deps) \subseteq old /\ old \ {first, second} \subseteq Range(deps)
        /\ \A s \in DOMAIN deps : s < i => deps[s] \notin {first, second}
    BY <2>1 DEF Connected
  <2>3. Range(deps') \subseteq old /\ old \ {first, second} \subseteq Range(deps')
    BY <1>1, <1>3, <1>4, <2>2
  <2>4. ASSUME NEW s \in 1..Len(twice), s < i
        PROVE  twice[s] \notin {first, second}
    BY <2>2, <2>4, <1>2, <1>3, <1>4
  <2>5. ASSUME NEW s \in DOMAIN deps', s < i' \/ pc' = "connect"
        PROVE  deps'[s] \notin {first, second}
    <3>1. s \in 1..Len(twice) /\ deps'[s] = twice[s]
      BY <1>1, <1>4
    <3>2. CASE s < i
      BY <3>1, <3>2, <2>4
    <3>3. CASE ~(s < i) /\ i > Len(once)
      BY <3>1, <3>3, <1>2, <1>3, <1>4
    <3>4. CASE ~(s < i) /\ i <= Len(once)
      <4>1. i' = i + 1 /\ deps[i] # first /\ once[i] # second /\ s = i
        BY <3>1, <3>4, <1>1, <1>2, <2>1, <2>5
      <4>2. twice = deps /\ twice[s] = once[i] /\ twice[s] = deps[i]
        BY <4>1, <1>3, <1>4
      <4> QED BY <3>1, <4>1, <4>2
    <3> QED BY <3>2, <3>3, <3>4, <1>2, <1>3
  <2> QED BY <2>1, <2>3, <2>5 DEF Connected
<1> QED BY <1>5, <1>6

LEMMA LeaveLoopInv ==
  Shape /\ Connected /\ LeaveLoop => Shape' /\ Connected'
<1> SUFFICES ASSUME Shape, Connected, LeaveLoop
             PROVE  Shape' /\ Connected'
  OBVIOUS
<1>1. /\ GraphKept /\ deps' = deps /\ size' = size /\ i' = i
      /\ pc = "disconnect" /\ pc' = "connect" /\ i > Len(deps)
  BY DEF LeaveLoop, GraphKept
<1>2. Shape'
  BY <1>1, KeptShape DEF Shape, InLoop
<1>3. /\ InLoop /\ InLoop' /\ pc # "connect"
      /\ NumInsts' = NumInsts /\ dep1' = dep1 /\ dep2' = dep2
      /\ (ExitNodes(NumInsts - 1))' = ExitNodes(NumInsts - 1)
  BY <1>1, KeptShape DEF InLoop, GraphKept
<1>4. \A s \in DOMAIN deps : s < i
  BY <1>1 DEF Shape
<1>5. Connected'
  BY <1>1, <1>3, <1>4 DEF Connected
<1> QED BY <1>2, <1>5

LEMMA ConnectInv ==
  Shape /\ Connected /\ Connect => Shape' /\ Connected'
<1> SUFFICES ASSUME Shape, Connected, Connect
             PROVE  Shape' /\ Connected'
  OBVIOUS
<1> DEFINE N == NumInsts
<1>1. /\ GraphKept /\ deps' = Append(deps, N) /\ size' = Grown /\ i' = i
      /\ pc = "connect" /\ pc' = "add"
  BY DEF Connect, GraphKept
<1>2. /\ deps \in Seq(Node) /\ Len(deps) \in Nat /\ size \in Nat \ {0} /\ Len(deps) <= size
      /\ DOMAIN deps = 1..Len(deps) /\ N \in Nat /\ N # 0 /\ N \in Node
      /\ i \in 1..size+1
  BY <1>1 DEF Shape, InLoop, Graph, Node
<1>3. size' \in Nat \ {0} /\ size' >= size /\ Len(deps) + 1 <= size'
  <2>1. CASE Len(deps) = size
    <3>1. size' = 2 * size
      BY <1>1, <2>1 DEF Grown
    <3>2. 2 * size \in Nat \ {0} /\ 2 * size >= size /\ size + 1 <= 2 * size
      BY <1>2
    <3> QED BY <2>1, <3>1, <3>2
  <2>2. CASE Len(deps) # size
    <3>1. size' = size
      BY <1>1, <2>2 DEF Grown
    <3>2. Len(deps) \in Nat /\ size \in Nat \ {0} /\ Len(deps) <= size
      BY <1>2
    <3>3. size >= size /\ Len(deps) + 1 <= size
      BY <2>2, <3>2
    <3> QED BY <3>1, <3>2, <3>3
  <2> QED BY <2>1, <2>2
<1>4. Shape'
  <2>1. deps' \in Seq(Node) /\ Len(deps') = Len(deps) + 1
    BY <1>1, <1>2
  <2>2. i' \in 1..size'+1
    BY <1>1, <1>2, <1>3
  <2>3. /\ (size \in Nat \ {0})' /\ (i \in 1..size+1)' /\ (Len(deps) <= size)'
        /\ (deps \in Seq(Node))'
    BY <1>1, <1>3, <2>1, <2>2, KeptShape
  <2> QED BY <1>1, <2>3, KeptShape DEF Shape, InLoop
<1>5. Range(deps') = Range(deps) \cup {N}
  <2>1. DOMAIN deps' = 1..(Len(deps) + 1)
    BY <1>1, <1>2
  <2>2. (\A s \in 1..Len(deps) : deps'[s] = deps[s]) /\ deps'[Len(deps) + 1] = N
    BY <1>1, <1>2
  <2>3. 1..(Len(deps) + 1) = (1..Len(deps)) \cup {Len(deps) + 1}
    BY <1>2
  <2> QED BY <1>2, <2>1, <2>2, <2>3 DEF Range
<1>6. Range(deps) = ExitNodes(N - 1) \ {dep1[N], dep2[N]}
  <2>1. \A s \in DOMAIN deps : deps[s] \notin {dep1[N], dep2[N]}
    BY <1>1 DEF Connected, InLoop
  <2>2. Range(deps) \subseteq ExitNodes(N - 1)
        /\ ExitNodes(N - 1) \ {dep1[N], dep2[N]} \subseteq Range(deps)
    BY <1>1 DEF Connected, InLoop
  <2> QED BY <2>1, <2>2 DEF Range
<1>7. ExitNodes(N) = (ExitNodes(N - 1) \ {dep1[N], dep2[N]}) \cup {N}
  <2>1. /\ \A m \in 1..N : dep1[m] \in 0..(m-1) /\ dep2[m] \in 0..(m-1)
        /\ 1..N = (1..(N-1)) \cup {N} /\ N - 1 \in Nat
    BY <1>2 DEF Shape, Graph
  <2>2. \A m \in 1..N : ~Depends(m, N)
    BY <2>1, <1>2 DEF Depends
  <2>3. ExitNodes(N) = Leaves(N)
    BY <1>2 DEF ExitNodes
  <2>4. Leaves(N) = (Leaves(N - 1) \ {dep1[N], dep2[N]}) \cup {N}
    BY <2>1, <2>2 DEF Leaves, Depends
  <2>5. CASE N = 1
    <3>1. dep1[N] = Entry /\ dep2[N] = Entry /\ Leaves(N - 1) = {}
      BY <2>1, <2>5 DEF Leaves, Entry
    <3>2. ExitNodes(N - 1) = {Entry}
      BY <2>5 DEF ExitNodes
    <3> QED BY <2>3, <2>4, <3>1, <3>2
  <2>6. CASE N # 1
    <3>1. ExitNodes(N - 1) = Leaves(N - 1)
      BY <2>1, <2>6, <1>2 DEF ExitNodes
    <3> QED BY <2>3, <2>4, <3>1
  <2> QED BY <2>5, <2>6
<1>8. Connected'
  <2>1. ~InLoop' /\ ExitNodes(NumInsts)' = ExitNodes(N)
    BY <1>1, KeptShape DEF InLoop
  <2> QED BY <1>5, <1>6, <1>7, <2>1 DEF Connected
<1> QED BY <1>4, <1>8

LEMMA RestInv ==
  /\ Shape /\ Connected
  /\ GraphKept /\ UNCHANGED <<deps, size, i>>
  /\ ~InLoop /\ pc' \in {"add", "returned", "freed"}
  => Shape' /\ Connected'
<1> SUFFICES ASSUME Shape, Connected, GraphKept, deps' = deps, size' = size, i' = i,
                    ~InLoop, pc' \in {"add", "returned", "freed"}
             PROVE  Shape' /\ Connected'
  OBVIOUS
<1>1. ~InLoop'
  BY DEF InLoop
<1>2. Shape'
  BY <1>1, KeptShape DEF Shape
<1>3. Connected'
  BY <1>1, KeptShape DEF Connected
<1> QED BY <1>2, <1>3

-----------------------------------------------------------------------------
\* Adding an instruction.

LEMMA Added ==
  ASSUME Shape, Connected, NEW inst \in Instruction, AddInst(inst)
  PROVE  LET w1    == LastWriterOfAll(inst.src1)
             w2    == LastWriterOfAll(inst.src2)
             first  == IF w1 = Entry THEN w2 ELSE w1
             second == IF w2 = Entry THEN w1 ELSE w2
             start  == StartAfter(first, second)
         IN  /\ first \in Node /\ second \in Node
             /\ insts' = Append(insts, inst)
             /\ dep1' = Append(dep1, first)
             /\ dep2' = Append(dep2, second)
             /\ depth' = Append(depth, start)
             /\ maxDepth' = Later(maxDepth, start + opsLatency[inst.op])
<1>1. pc = "add" /\ ~InLoop
  BY DEF AddInst, InLoop
<1>2. Complete /\ Graph /\ deps \in Seq(Node)
  BY <1>1, ConnectedIsComplete DEF Shape
<1>3. /\ MostRecent(inst.src1) = LastWriterOfAll(inst.src1)
      /\ MostRecent(inst.src1) \in Node
      /\ MostRecent(inst.src2) = LastWriterOfAll(inst.src2)
      /\ MostRecent(inst.src2) \in Node
  BY <1>2, MostRecentIsLast
<1> QED BY <1>3 DEF AddInst, Deepest

(***************************************************************************)
(* The graph behind the new instruction stays as it is.                    *)
(***************************************************************************)
LEMMA AddedGraph ==
  ASSUME Shape, NEW inst \in Instruction,
         NEW first \in Node, NEW second \in Node, NEW start \in Nat,
         insts' = Append(insts, inst), dep1' = Append(dep1, first),
         dep2' = Append(dep2, second), depth' = Append(depth, start)
  PROVE  /\ NumInsts' = NumInsts + 1 /\ NumInsts \in Nat
         /\ (insts \in Seq(Instruction))'
         /\ (dep1 \in Seq(Nat) /\ dep2 \in Seq(Nat) /\ depth \in Seq(Nat))'
         /\ (Len(dep1) = NumInsts /\ Len(dep2) = NumInsts /\ Len(depth) = NumInsts)'
         /\ \A n \in 1..NumInsts : /\ insts'[n] = insts[n] /\ depth'[n] = depth[n]
                                   /\ dep1'[n] = dep1[n] /\ dep2'[n] = dep2[n]
         /\ insts'[NumInsts + 1] = inst /\ depth'[NumInsts + 1] = start
         /\ dep1'[NumInsts + 1] = first /\ dep2'[NumInsts + 1] = second
         /\ 1..(NumInsts + 1) = (1..NumInsts) \cup {NumInsts + 1}
<1>1. first \in Nat /\ second \in Nat /\ NumInsts \in Nat
  BY NodeFacts DEF Shape, Graph
<1>2. ASSUME NEW V, NEW s \in Seq(V), NEW v \in V, Len(s) = NumInsts
      PROVE  /\ Append(s, v) \in Seq(V) /\ Len(Append(s, v)) = NumInsts + 1
             /\ \A n \in 1..NumInsts : Append(s, v)[n] = s[n]
             /\ Append(s, v)[NumInsts + 1] = v
  BY <1>1, <1>2
<1>3. insts \in Seq(Instruction) /\ Len(insts) = NumInsts
  BY DEF Shape, NumInsts
<1>4. /\ dep1 \in Seq(Nat) /\ dep2 \in Seq(Nat) /\ depth \in Seq(Nat)
      /\ Len(dep1) = NumInsts /\ Len(dep2) = NumInsts /\ Len(depth) = NumInsts
  BY DEF Shape
<1>5. /\ insts' \in Seq(Instruction) /\ Len(insts') = NumInsts + 1
      /\ \A n \in 1..NumInsts : insts'[n] = insts[n]
      /\ insts'[NumInsts + 1] = inst
  BY <1>2, <1>3
<1>6. /\ dep1' \in Seq(Nat) /\ Len(dep1') = NumInsts + 1
      /\ \A n \in 1..NumInsts : dep1'[n] = dep1[n]
      /\ dep1'[NumInsts + 1] = first
  <2>1. dep1 \in Seq(Nat) /\ Len(dep1) = NumInsts /\ first \in Nat
    BY <1>1, <1>4
  <2> QED BY <1>2, <2>1
<1>7. /\ dep2' \in Seq(Nat) /\ Len(dep2') = NumInsts + 1
      /\ \A n \in 1..NumInsts : dep2'[n] = dep2[n]
      /\ dep2'[NumInsts + 1] = second
  <2>1. dep2 \in Seq(Nat) /\ Len(dep2) = NumInsts /\ second \in Nat
    BY <1>1, <1>4
  <2> QED BY <1>2, <2>1
<1>8. /\ depth' \in Seq(Nat) /\ Len(depth') = NumInsts + 1
      /\ \A n \in 1..NumInsts : depth'[n] = depth[n]
      /\ depth'[NumInsts + 1] = start
  BY <1>2, <1>4
<1>9. NumInsts' = NumInsts + 1
  BY <1>5 DEF NumInsts
<1>10. 1..(NumInsts + 1) = (1..NumInsts) \cup {NumInsts + 1}
  BY <1>1
<1> QED BY <1>1, <1>5, <1>6, <1>7, <1>8, <1>9, <1>10

LEMMA LaterFacts ==
  \A a, b \in Nat : /\ Later(a, b) \in Nat
                    /\ a <= Later(a, b) /\ b <= Later(a, b)
                    /\ Later(a, b) = a \/ Later(a, b) = b
  BY DEF Later

LEMMA AddInv ==
  ASSUME Shape, Writers, Connected, Timed, NEW inst \in Instruction, AddInst(inst)
  PROVE  Shape' /\ Writers' /\ Connected' /\ Timed'
<1> DEFINE N == NumInsts
           w1 == LastWriterOfAll(inst.src1)
           w2 == LastWriterOfAll(inst.src2)
           first == IF w1 = Entry THEN w2 ELSE w1
           second == IF w2 = Entry THEN w1 ELSE w2
           start == StartAfter(first, second)
<1>1. /\ first \in Node /\ second \in Node
      /\ insts' = Append(insts, inst)
      /\ dep1' = Append(dep1, first) /\ dep2' = Append(dep2, second)
      /\ depth' = Append(depth, start)
      /\ maxDepth' = Later(maxDepth, start + opsLatency[inst.op])
  BY Added
<1>2. /\ pc = "add" /\ pc' = "disconnect" /\ i' = 1 /\ NumInsts < MaxInsts
      /\ opsLatency' = opsLatency /\ deps' = deps /\ size' = size
  BY DEF AddInst
<1> HIDE DEF first, second
<1>3. /\ opsLatency \in [Opcode -> Nat] /\ opsLatency[inst.op] \in Nat
      /\ \A n \in Node : DepthOf(n) \in Nat /\ Cycles(n) \in Nat
  <2>1. opsLatency \in [Opcode -> Nat] /\ inst.op \in Opcode
    BY DEF Shape, Instruction
  <2>2. ASSUME NEW n \in Node, n # Entry
        PROVE  depth[n] \in Nat /\ opsLatency[insts[n].op] \in Nat
    <3>1. n \in 1..NumInsts
      BY <2>2, NodeFacts DEF Shape
    <3>2. insts[n] \in Instruction /\ depth[n] \in Nat
      BY <3>1 DEF Shape, NumInsts
    <3> QED BY <2>1, <3>2 DEF Instruction
  <2> QED BY <2>1, <2>2 DEF DepthOf, Cycles
<1>4. start \in Nat
  BY <1>1, <1>3 DEF StartAfter, Later
<1> HIDE DEF start
<1>5. /\ N' = N + 1 /\ N \in Nat
      /\ (insts \in Seq(Instruction))'
      /\ (dep1 \in Seq(Nat) /\ dep2 \in Seq(Nat) /\ depth \in Seq(Nat))'
      /\ (Len(dep1) = NumInsts /\ Len(dep2) = NumInsts /\ Len(depth) = NumInsts)'
      /\ \A n \in 1..N : /\ insts'[n] = insts[n] /\ depth'[n] = depth[n]
                         /\ dep1'[n] = dep1[n] /\ dep2'[n] = dep2[n]
      /\ insts'[N + 1] = inst /\ depth'[N + 1] = start
      /\ dep1'[N + 1] = first /\ dep2'[N + 1] = second
      /\ 1..(N + 1) = (1..N) \cup {N + 1}
  BY <1>1, <1>4, AddedGraph
<1> PICK new : new = N + 1
  OBVIOUS
<1>6. Shape'
  <2>1. Graph'
    <3>1. \A n \in 1..N : dep1[n] \in 0..(n-1) /\ dep2[n] \in 0..(n-1)
      BY DEF Shape, Graph
    <3>2. first \in 0..((N + 1) - 1) /\ second \in 0..((N + 1) - 1)
      BY <1>1, <1>5 DEF Node
    <3>3. \A n \in 1..(N + 1) : dep1'[n] \in 0..(n-1) /\ dep2'[n] \in 0..(n-1)
      BY <1>5, <3>1, <3>2
    <3> QED BY <1>5, <3>3 DEF Graph
  <2>2. (deps \in Seq(Node))'
    <3>1. Node \subseteq Node'
      BY <1>5 DEF Node
    <3>2. deps \in Seq(Node)
      BY DEF Shape
    <3> QED BY <1>2, <3>1, <3>2
  <2>3. /\ (size \in Nat \ {0})' /\ (Len(deps) <= size)'
        /\ (i \in 1..size+1)'
    BY <1>2 DEF Shape
  <2>4. maxDepth' \in Nat
    <3>1. maxDepth \in Nat /\ start + opsLatency[inst.op] \in Nat
      BY <1>3, <1>4 DEF Shape
    <3> QED BY <1>1, <3>1, LaterFacts
  <2>5. N' <= MaxInsts /\ N' # 0 /\ InLoop'
    BY <1>2, <1>5, DepTreeAssumption DEF InLoop
  <2> QED BY <1>2, <1>3, <1>5, <2>1, <2>2, <2>3, <2>4, <2>5 DEF Shape
<1>7. Writers'
  <2>1. ASSUME NEW n \in 1..(N + 1), NEW r
        PROVE  LastWriter(n, r)' = LastWriter(n, r)
    <3>1. \A m \in 1..(n-1) : insts'[m] = insts[m]
      <4>1. \A m \in 1..(n-1) : m \in 1..N
        BY <1>5
      <4> QED BY <1>5, <4>1
    <3>2. {m \in 1..(n-1) : insts'[m].dst = r} = {m \in 1..(n-1) : insts[m].dst = r}
      BY <3>1
    <3> QED BY <3>2 DEF LastWriter
  <2>2. LastWriter(N + 1, inst.src1) = w1 /\ LastWriter(N + 1, inst.src2) = w2
    <3>1. (N + 1) - 1 = N
      BY <1>5
    <3> QED BY <3>1 DEF LastWriter, LastWriterOfAll
  <2>3. ASSUME NEW n \in 1..(N + 1)
        PROVE  LET v1 == LastWriter(n, insts[n].src1)'
                   v2 == LastWriter(n, insts[n].src2)'
               IN  /\ dep1'[n] = IF v1 = Entry THEN v2 ELSE v1
                   /\ dep2'[n] = IF v2 = Entry THEN v1 ELSE v2
    <3>1. CASE n = N + 1
      <4>1. /\ LastWriter(n, insts[n].src1)' = w1
            /\ LastWriter(n, insts[n].src2)' = w2
        BY <1>5, <2>1, <2>2, <3>1
      <4> QED BY <1>5, <3>1, <4>1 DEF first, second
    <3>2. CASE n \in 1..N
      <4>1. /\ LastWriter(n, insts[n].src1)' = LastWriter(n, insts[n].src1)
            /\ LastWriter(n, insts[n].src2)' = LastWriter(n, insts[n].src2)
        BY <1>5, <2>1, <3>2
      <4> QED BY <1>5, <3>2, <4>1 DEF Writers
    <3> QED BY <1>5, <3>1, <3>2
  <2> QED BY <1>5, <2>3 DEF Writers
<1>8. Connected'
  <2>1. ~InLoop /\ InLoop' /\ pc' # "connect"
    BY <1>2 DEF InLoop
  <2>2. ExitNodes(NumInsts - 1)' = ExitNodes(N)
    <3>1. N' - 1 = N
      BY <1>5
    <3>2. {n \in 1..N : \A m \in 1..N : ~(dep1'[m] = n \/ dep2'[m] = n)} = Leaves(N)
      BY <1>5 DEF Leaves, Depends
    <3>3. Leaves(NumInsts - 1)' = Leaves(N)
      BY <3>1, <3>2 DEF Leaves, Depends
    <3> QED BY <3>1, <3>3 DEF ExitNodes
  <2>3. Range(deps') = ExitNodes(N)
    BY <1>2, <2>1 DEF Connected
  <2>4. \A s \in DOMAIN deps : ~(s < 1)
    BY DEF Shape
  <2> QED BY <1>2, <2>1, <2>2, <2>3, <2>4 DEF Connected
<1>9. Timed'
  <2>1. ASSUME NEW n \in Node PROVE DepthOf(n)' = DepthOf(n) /\ Cycles(n)' = Cycles(n)
    <3>1. n # Entry => n \in 1..N
      BY NodeFacts DEF Shape
    <3> QED BY <1>2, <1>5, <3>1 DEF DepthOf, Cycles
  <2>2. \A m, n \in Node : StartAfter(m, n)' = StartAfter(m, n)
    BY <2>1 DEF StartAfter
  <2>3. \A n \in 1..N : n \in Node /\ dep1[n] \in Node /\ dep2[n] \in Node
    BY NodeFacts DEF Shape, Node, Graph
  <2>4. /\ Cycles(new)' = opsLatency[inst.op] /\ new \in 1..(N + 1) /\ new # Entry
        /\ depth'[new] = start /\ dep1'[new] = first /\ dep2'[new] = second
    BY <1>2, <1>5 DEF Cycles, Entry
  <2>5. maxDepth \in Nat /\ \A n \in 1..N : depth[n] \in Nat /\ Cycles(n) \in Nat
    <3>1. \A n \in 1..N : depth[n] \in Nat
      BY DEF Shape
    <3> QED BY <1>3, <2>3, <3>1 DEF Shape
  <2>6. \A n \in 1..(N + 1) : depth'[n] = StartAfter(dep1[n], dep2[n])'
    <3>1. \A n \in 1..N : depth'[n] = StartAfter(dep1[n], dep2[n])'
      BY <1>5, <2>2, <2>3 DEF Timed
    <3>2. depth'[new] = StartAfter(dep1[new], dep2[new])'
      BY <1>1, <2>4, <2>2 DEF start
    <3> QED BY <1>5, <3>1, <3>2
  <2>7. maxDepth' \in Nat /\ maxDepth <= maxDepth' /\ start + opsLatency[inst.op] <= maxDepth'
    <3>1. start + opsLatency[inst.op] \in Nat
      BY <1>3, <1>4
    <3> QED BY <1>1, <2>5, <3>1, LaterFacts
  <2>8. \A n \in 1..(N + 1) : depth'[n] + Cycles(n)' <= maxDepth'
    <3>1. ASSUME NEW n \in 1..N PROVE depth'[n] + Cycles(n)' <= maxDepth'
      <4>1. depth[n] + Cycles(n) <= maxDepth
        BY DEF Timed
      <4>2. depth'[n] = depth[n] /\ Cycles(n)' = Cycles(n)
        BY <1>5, <2>1, <2>3
      <4>3. depth[n] \in Nat /\ Cycles(n) \in Nat /\ maxDepth \in Nat
        BY <2>5
      <4> QED BY <4>1, <4>2, <4>3, <2>7
    <3>2. depth'[new] + Cycles(new)' <= maxDepth'
      BY <2>4, <2>7
    <3> QED BY <1>5, <3>1, <3>2
  <2>9. maxDepth' = 0 \/ \E n \in 1..(N + 1) : maxDepth' = depth'[n] + Cycles(n)'
    <3>1. CASE maxDepth' = start + opsLatency[inst.op]
      BY <2>4, <3>1
    <3>2. CASE maxDepth' = maxDepth
      <4>1. CASE maxDepth = 0
        BY <3>2, <4>1
      <4>2. CASE \E n \in 1..N : maxDepth = depth[n] + Cycles(n)
        <5>1. PICK n \in 1..N : maxDepth = depth[n] + Cycles(n)
          BY <4>2
        <5>2. depth'[n] = depth[n] /\ Cycles(n)' = Cycles(n) /\ n \in 1..(N + 1)
          BY <1>5, <2>1, <2>3
        <5> QED BY <3>2, <5>1, <5>2
      <4> QED BY <4>1, <4>2 DEF Timed
    <3> QED BY <1>1, <3>1, <3>2 DEF Later
  <2> QED BY <1>5, <2>6, <2>8, <2>9 DEF Timed
<1> QED BY <1>6, <1>7, <1>8, <1>9

-----------------------------------------------------------------------------
(***************************************************************************)
(* find_by_idx finds every instruction when the exit array is complete.    *)
(***************************************************************************)
HasIs(H, n) ==
  H = [m \in Node |-> m # Entry /\ (m = n \/ H[dep1[m]] \/ H[dep2[m]])]

LEMMA HasExists ==
  ASSUME Graph, NEW n
  PROVE  \E H : HasIs(H, n)
<1> PICK none \in BOOLEAN : ~none
  OBVIOUS
<1> DEFINE step == [m \in Node |-> [a \in BOOLEAN |-> [b \in BOOLEAN |-> m = n \/ a \/ b]]]
<1>1. step \in [Node -> [BOOLEAN -> [BOOLEAN -> BOOLEAN]]]
  OBVIOUS
<1>2. PICK H \in [Node -> BOOLEAN] : Follows(H, none, step)
  <2> HIDE DEF step
  <2> QED BY <1>1, SearchExists
<1>3. ASSUME NEW m \in Node
      PROVE  H[m] = (m # Entry /\ (m = n \/ H[dep1[m]] \/ H[dep2[m]]))
  <2>1. CASE m = Entry
    BY <1>2, <2>1 DEF Follows
  <2>2. CASE m # Entry
    <3>1. H[dep1[m]] \in BOOLEAN /\ H[dep2[m]] \in BOOLEAN
      BY <2>2, NodeFacts
    <3>2. H[m] = step[m][H[dep1[m]]][H[dep2[m]]]
      BY <1>2, <2>2 DEF Follows
    <3> QED BY <2>2, <3>1, <3>2
  <2> QED BY <2>1, <2>2
<1>4. H = [m \in Node |-> H[m]]
  OBVIOUS
<1>5. HasIs(H, n)
  BY <1>3, <1>4 DEF HasIs
<1> QED BY <1>5

LEMMA AllFound ==
  Shape /\ Complete => \A n \in 1..NumInsts : Found(n)
<1> SUFFICES ASSUME Shape, Complete, NEW n \in 1..NumInsts
             PROVE  Found(n)
  OBVIOUS
<1>0. Graph /\ deps \in Seq(Node)
  BY DEF Shape
<1> DEFINE H == CHOOSE h : HasIs(h, n)
           S == {m \in Node : H[m] => Found(n)}
<1>1. Found(n) <=> \E s \in DOMAIN deps : H[deps[s]]
  BY DEF Found, HasIs
<1>2. HasIs(H, n)
  BY <1>0, HasExists
<1> HIDE DEF H
<1>3. \A m \in Node : H[m] = (m # Entry /\ (m = n \/ H[dep1[m]] \/ H[dep2[m]]))
  BY <1>2 DEF HasIs
<1>4. n \in Node /\ H[n]
  <2>1. n \in Node /\ n # Entry
    BY <1>0 DEF Node, Entry, Graph
  <2>2. H[n] = (n # Entry /\ (n = n \/ H[dep1[n]] \/ H[dep2[n]]))
    BY <1>3, <2>1
  <2> QED BY <2>1, <2>2, Zenon
<1>5. 1..NumInsts \subseteq S
  <2>1. ASSUME NEW x \in Range(deps) PROVE x \in S
    <3>1. PICK s \in DOMAIN deps : x = deps[s]
      BY DEF Range
    <3>2. x \in Node
      BY <1>0, <3>1
    <3> QED BY <1>1, <3>1, <3>2
  <2>2. ASSUME NEW m \in S, m \in Node \ {Entry}
        PROVE  dep1[m] \in S /\ dep2[m] \in S
    <3>1. dep1[m] \in Node /\ dep2[m] \in Node
      BY <1>0, <2>2, NodeFacts
    <3>2. H[m] = (m # Entry /\ (m = n \/ H[dep1[m]] \/ H[dep2[m]]))
      BY <1>3, <2>2
    <3>3. (H[dep1[m]] => H[m]) /\ (H[dep2[m]] => H[m])
      BY <3>2, <2>2, Zenon
    <3>4. H[m] => Found(n)
      BY <2>2
    <3> QED BY <3>1, <3>3, <3>4
  <2>3. Range(deps) \subseteq S
    BY <2>1
  <2> HIDE DEF S
  <2> QED BY <1>0, <2>2, <2>3, HandedDown
<1>6. n \in S
  BY <1>5
<1> QED BY <1>4, <1>6

-----------------------------------------------------------------------------
(***************************************************************************)
(* The two pointers of an instruction tell which instruction wrote which   *)
(* register.                                                               *)
(***************************************************************************)
LEMMA LastWriterWrites ==
  Shape => \A n \in 1..NumInsts : \A r :
             /\ LastWriter(n, r) \in 0..(n-1)
             /\ LastWriter(n, r) = Entry \/ Writes(LastWriter(n, r), r)
<1> SUFFICES ASSUME Shape, NEW n \in 1..NumInsts, NEW r
             PROVE  /\ LastWriter(n, r) \in 0..(n-1)
                    /\ LastWriter(n, r) = Entry \/ Writes(LastWriter(n, r), r)
  OBVIOUS
<1> DEFINE W == {m \in 1..(n-1) : insts[m].dst = r} \cup {Entry}
<1>1. n \in Nat /\ n - 1 \in Nat
  BY DEF Shape, Graph
<1>2. W \subseteq 0..(n-1) /\ W # {}
  BY <1>1 DEF Entry
<1>3. Max(W) \in W
  <2> HIDE DEF W
  <2> QED BY <1>1, <1>2, MaxOfBounded
<1>4. Max(W) = LastWriter(n, r)
  BY DEF LastWriter
<1>5. \A m \in W : m = Entry \/ Writes(m, r)
  BY DEF Writes
<1> HIDE DEF W
<1> QED BY <1>2, <1>3, <1>4, <1>5

LEMMA DepsAreLastWriters ==
  Shape /\ Writers =>
    \A n \in 1..NumInsts :
      DepsOf(n) = <<LastWriter(n, insts[n].src1), LastWriter(n, insts[n].src2)>>
<1> SUFFICES ASSUME Shape, Writers, NEW n \in 1..NumInsts
             PROVE  DepsOf(n) = <<LastWriter(n, insts[n].src1), LastWriter(n, insts[n].src2)>>
  OBVIOUS
<1> DEFINE r1 == insts[n].src1
           r2 == insts[n].src2
           w1 == LastWriter(n, r1)
           w2 == LastWriter(n, r2)
           d == dep1[n]
           e == dep2[n]
<1>1. /\ d = IF w1 = Entry THEN w2 ELSE w1
      /\ e = IF w2 = Entry THEN w1 ELSE w2
  BY DEF Writers
<1>2. /\ w1 = Entry \/ Writes(w1, r1)
      /\ w2 = Entry \/ Writes(w2, r2)
      /\ r1 = r2 => w1 = w2
  BY LastWriterWrites
<1>3. \A m : Writes(m, r1) /\ Writes(m, r2) => r1 = r2
  BY DEF Writes
<1>4. \A m, r : Writes(m, r) => m # Entry
  BY DEF Writes
<1>5. DepsOf(n) = IF d # e \/ r1 = r2 THEN <<d, e>>
                  ELSE <<IF Writes(d, r1) THEN d ELSE Entry,
                         IF ~Writes(d, r1) /\ Writes(d, r2) THEN d ELSE Entry>>
  BY DEF DepsOf
<1> HIDE DEF r1, r2, w1, w2, d, e
<1>6. DepsOf(n) = <<w1, w2>>
  BY <1>1, <1>2, <1>3, <1>4, <1>5
<1> QED BY <1>6 DEF w1, w2, r1, r2

LEMMA AnswersInv == TreeInv => AnswersLastWriters
<1> SUFFICES ASSUME TreeInv, Idle, NEW n \in 1..NumInsts
             PROVE  GetInstDeps(n) = <<LastWriter(n, insts[n].src1), LastWriter(n, insts[n].src2)>>
  BY DEF AnswersLastWriters
<1>1. ~InLoop
  BY DEF Idle, InLoop
<1>2. Found(n)
  BY <1>1, ConnectedIsComplete, AllFound DEF TreeInv
<1> QED BY <1>2, DepsAreLastWriters DEF GetInstDeps, TreeInv

LEMMA LeavesInv == TreeInv => ExitDepsAreLeaves
<1> SUFFICES ASSUME TreeInv, Idle, NumInsts > 0
             PROVE  Range(deps) = {n \in 1..NumInsts : \A m \in 1..NumInsts : n \notin Producers(m)}
  BY DEF ExitDepsAreLeaves
<1>1. Range(deps) = Leaves(NumInsts)
  BY DEF TreeInv, Connected, Idle, InLoop, ExitNodes
<1>2. ASSUME NEW m \in 1..NumInsts, NEW n \in 1..NumInsts
      PROVE  Depends(m, n) <=> n \in Producers(m)
  <2>1. n # Entry
    BY DEF Entry
  <2>2. LET w1 == LastWriter(m, insts[m].src1)
            w2 == LastWriter(m, insts[m].src2)
        IN  /\ dep1[m] = IF w1 = Entry THEN w2 ELSE w1
            /\ dep2[m] = IF w2 = Entry THEN w1 ELSE w2
    BY DEF TreeInv, Writers
  <2> QED BY <2>1, <2>2 DEF Depends, Producers
<1> QED BY <1>1, <1>2 DEF Leaves

-----------------------------------------------------------------------------
(***************************************************************************)
(* The walk of add_to_node_set from a node meets the node and everything   *)
(* that the walks from its dependencies meet.                              *)
(***************************************************************************)
LEMMA RangeOfConcat ==
  ASSUME NEW V, NEW a \in Seq(V), NEW b \in Seq(V)
  PROVE  a \o b \in Seq(V) /\ Range(a \o b) = Range(a) \cup Range(b)
<1>1. /\ a \o b \in Seq(V) /\ Len(a \o b) = Len(a) + Len(b)
      /\ \A j \in 1..(Len(a) + Len(b)) :
           (a \o b)[j] = IF j <= Len(a) THEN a[j] ELSE b[j - Len(a)]
  OBVIOUS
<1>2. /\ Len(a) \in Nat /\ Len(b) \in Nat
      /\ DOMAIN a = 1..Len(a) /\ DOMAIN b = 1..Len(b)
      /\ DOMAIN (a \o b) = 1..(Len(a) + Len(b))
  BY <1>1
<1> DEFINE c == a \o b
<1> HIDE DEF c
<1>3. ASSUME NEW j \in DOMAIN a PROVE a[j] \in Range(c)
  <2>1. j \in DOMAIN c /\ c[j] = a[j]
    BY <1>1, <1>2 DEF c
  <2> QED BY <2>1 DEF Range
<1>4. ASSUME NEW j \in DOMAIN b PROVE b[j] \in Range(c)
  <2>1. j + Len(a) \in DOMAIN c /\ ~(j + Len(a) <= Len(a)) /\ (j + Len(a)) - Len(a) = j
    BY <1>2 DEF c
  <2>2. c[j + Len(a)] = b[j]
    BY <1>1, <1>2, <2>1 DEF c
  <2> QED BY <2>1, <2>2 DEF Range
<1>5. ASSUME NEW j \in DOMAIN c PROVE c[j] \in Range(a) \cup Range(b)
  <2>1. CASE j <= Len(a)
    <3>1. j \in DOMAIN a /\ c[j] = a[j]
      BY <1>1, <1>2, <2>1 DEF c
    <3> QED BY <3>1 DEF Range
  <2>2. CASE ~(j <= Len(a))
    <3>1. j - Len(a) \in DOMAIN b /\ c[j] = b[j - Len(a)]
      BY <1>1, <1>2, <2>2 DEF c
    <3> QED BY <3>1 DEF Range
  <2> QED BY <2>1, <2>2
<1>6. Range(c) = Range(a) \cup Range(b)
  BY <1>3, <1>4, <1>5 DEF Range
<1> QED BY <1>1, <1>6 DEF c

WalkIs(W) ==
  W = [n \in Node |-> IF n = Entry THEN <<>>
                      ELSE <<n>> \o W[dep1[n]] \o
                             (IF dep1[n] = dep2[n] THEN <<>> ELSE W[dep2[n]])]

LEMMA WalkUnfolds ==
  ASSUME Graph
  PROVE  WalkIs(Walk)
<1> DEFINE V == Seq(Nat)
           step == [n \in Node |-> [a \in V |-> [b \in V |->
                      <<n>> \o a \o (IF dep1[n] = dep2[n] THEN <<>> ELSE b)]]]
<1>0. <<>> \in V
  OBVIOUS
<1>1. step \in [Node -> [V -> [V -> V]]]
  <2>1. ASSUME NEW n \in Node, NEW a \in V, NEW b \in V
        PROVE  <<n>> \o a \o (IF dep1[n] = dep2[n] THEN <<>> ELSE b) \in V
    <3>1. <<n>> \in Seq(Nat) /\ (IF dep1[n] = dep2[n] THEN <<>> ELSE b) \in Seq(Nat)
      BY NodeFacts
    <3>2. <<n>> \o a \in Seq(Nat)
      BY <3>1
    <3> QED BY <3>1, <3>2
  <2> HIDE DEF V
  <2> QED BY <2>1
<1>2. PICK W \in [Node -> V] : Follows(W, <<>>, step)
  <2> HIDE DEF V, step
  <2> QED BY <1>0, <1>1, SearchExists
<1>3. ASSUME NEW n \in Node
      PROVE  W[n] = IF n = Entry THEN <<>>
                    ELSE <<n>> \o W[dep1[n]] \o
                           (IF dep1[n] = dep2[n] THEN <<>> ELSE W[dep2[n]])
  <2> HIDE DEF V
  <2>1. CASE n = Entry
    BY <1>2, <2>1 DEF Follows
  <2>2. CASE n # Entry
    <3>1. W[dep1[n]] \in V /\ W[dep2[n]] \in V
      BY <2>2, NodeFacts
    <3>2. W[n] = step[n][W[dep1[n]]][W[dep2[n]]]
      BY <1>2, <2>2 DEF Follows
    <3> QED BY <2>2, <3>1, <3>2
  <2> QED BY <2>1, <2>2
<1>4. W = [n \in Node |-> W[n]]
  OBVIOUS
<1>5. \E w : WalkIs(w)
  <2>1. WalkIs(W)
    BY <1>3, <1>4 DEF WalkIs
  <2> QED BY <2>1
<1>6. Walk = CHOOSE w : WalkIs(w)
  BY DEF Walk, WalkIs
<1> QED BY <1>5, <1>6

LEMMA WalkFacts ==
  ASSUME Graph
  PROVE  /\ \A n \in Node : Walk[n] \in Seq(Node) /\ Range(Walk[n]) \subseteq 1..NumInsts
         /\ \A n \in Node \ {Entry} :
              /\ n \in Range(Walk[n])
              /\ Range(Walk[dep1[n]]) \subseteq Range(Walk[n])
              /\ Range(Walk[dep2[n]]) \subseteq Range(Walk[n])
<1> DEFINE W == Walk
           V == 1..NumInsts
           T == {n \in Nat : n \in Node => W[n] \in Seq(V)}
           More(n) == IF dep1[n] = dep2[n] THEN <<>> ELSE W[dep2[n]]
<1>1. \A n \in Node : W[n] = IF n = Entry THEN <<>>
                             ELSE <<n>> \o W[dep1[n]] \o More(n)
  <2>1. WalkIs(W)
    BY WalkUnfolds
  <2> HIDE DEF W
  <2> QED BY <2>1 DEF WalkIs
<1>v. ASSUME NEW n \in Node \ {Entry} PROVE n \in V
  BY NodeFacts
<1>u. V \subseteq Node
  BY DEF Graph, Node
<1> HIDE DEF W, V
<1>2. ASSUME NEW n \in Nat, \A m \in 0..(n-1) : m \in T
      PROVE  n \in T
  <2> SUFFICES ASSUME n \in Node PROVE W[n] \in Seq(V)
    OBVIOUS
  <2>1. CASE n = Entry
    <3>1. W[n] = <<>>
      BY <1>1, <2>1
    <3> QED BY <3>1
  <2>2. CASE n # Entry
    <3>1. /\ dep1[n] \in Node /\ dep1[n] \in Nat /\ dep1[n] < n
          /\ dep2[n] \in Node /\ dep2[n] \in Nat /\ dep2[n] < n
      BY <2>2, NodeFacts
    <3>2. W[dep1[n]] \in Seq(V) /\ W[dep2[n]] \in Seq(V)
      BY <1>2, <3>1
    <3>3. n \in V
      BY <1>v, <2>2
    <3>4. <<n>> \in Seq(V)
      BY <3>3
    <3>5. More(n) \in Seq(V)
      BY <3>2
    <3>6. <<n>> \o W[dep1[n]] \in Seq(V)
      BY <3>2, <3>4
    <3>7. <<n>> \o W[dep1[n]] \o More(n) \in Seq(V)
      <4> HIDE DEF More
      <4> QED BY <3>5, <3>6
    <3> QED BY <1>1, <2>2, <3>7
  <2> QED BY <2>1, <2>2
<1>3. Nat \subseteq T
  <2> HIDE DEF T
  <2> QED BY <1>2, CompleteInduction
<1>4. ASSUME NEW n \in Node PROVE W[n] \in Seq(V)
  BY <1>3, NodeFacts
<1>5. ASSUME NEW n \in Node
      PROVE  W[n] \in Seq(Node) /\ Range(W[n]) \subseteq V
  <2>1. W[n] \in Seq(V)
    BY <1>4
  <2>2. \A j \in DOMAIN W[n] : W[n][j] \in V
    BY <2>1
  <2>3. W[n] \in Seq(Node)
    <3> HIDE DEF Node
    <3> QED BY <1>u, <2>1
  <2> QED BY <2>2, <2>3 DEF Range
<1>6. ASSUME NEW n \in Node \ {Entry}
      PROVE  /\ n \in Range(W[n])
             /\ Range(W[dep1[n]]) \subseteq Range(W[n])
             /\ Range(W[dep2[n]]) \subseteq Range(W[n])
  <2>1. dep1[n] \in Node /\ dep2[n] \in Node /\ n \in V /\ n # Entry
    BY <1>v, NodeFacts
  <2>2. W[dep1[n]] \in Seq(V) /\ W[dep2[n]] \in Seq(V)
    BY <1>4, <2>1
  <2>3. <<n>> \in Seq(V)
    BY <2>1
  <2>h. More(n) \in Seq(V)
    BY <2>2
  <2>4. Range(<<n>>) = {n}
    BY DEF Range
  <2> DEFINE front == <<n>> \o W[dep1[n]]
  <2>5. front \in Seq(V) /\ Range(front) = {n} \cup Range(W[dep1[n]])
    <3> DEFINE a == <<n>>
    <3> HIDE DEF a
    <3>1. a \o W[dep1[n]] \in Seq(V) /\ Range(a \o W[dep1[n]]) = Range(a) \cup Range(W[dep1[n]])
      <4>1. a \in Seq(V)
        BY <2>3 DEF a
      <4> QED BY <2>2, <4>1, RangeOfConcat
    <3> QED BY <3>1, <2>4 DEF a
  <2>6. W[n] = front \o More(n)
    BY <1>1, <2>1
  <2> HIDE DEF front, More
  <2>7. Range(W[n]) = Range(front) \cup Range(More(n))
    BY <2>h, <2>5, <2>6, RangeOfConcat
  <2>8. dep1[n] # dep2[n] => More(n) = W[dep2[n]]
    BY DEF More
  <2> QED BY <2>5, <2>7, <2>8
<1> QED BY <1>5, <1>6 DEF W, V

(***************************************************************************)
(* Flattening a sequence of sequences keeps their elements and adds none.  *)
(***************************************************************************)
LEMMA FlattenFacts ==
  ASSUME NEW V, NEW seqs \in Seq(Seq(V))
  PROVE  /\ FlattenSeq(seqs) \in Seq(V)
         /\ \A x : x \in Range(FlattenSeq(seqs)) <=> \E s \in DOMAIN seqs : x \in Range(seqs[s])
<1> DEFINE n == Len(seqs)
           IsFlat(f) == f = [j \in 1..n |-> IF j = 1 THEN seqs[j] ELSE f[j-1] \o seqs[j]]
<1>0. n \in Nat /\ DOMAIN seqs = 1..n /\ \A j \in 1..n : seqs[j] \in Seq(V)
  OBVIOUS
<1>1. CASE n = 0
  <2>1. FlattenSeq(seqs) = seqs
    BY <1>1 DEF FlattenSeq
  <2>2. seqs = <<>>
    BY <1>1
  <2>3. seqs \in Seq(V) /\ DOMAIN seqs = {}
    BY <2>2
  <2> QED BY <2>1, <2>3 DEF Range
<1>2. CASE n # 0
  <2>1. FlattenSeq(seqs) = (CHOOSE f : IsFlat(f))[n]
    BY <1>2 DEF FlattenSeq
  <2>2. \E f : IsFlat(f)
    <3> DEFINE D == 1..n
               S == Seq(V)
               rank == [j \in D |-> j]
               G == [j \in D |-> [f \in [D -> S] |-> IF j = 1 THEN seqs[j] ELSE f[j-1] \o seqs[j]]]
    <3>0. \A j \in D : j # 1 => j - 1 \in D /\ j - 1 < j
      BY <1>0
    <3>1. G \in [D -> [[D -> S] -> S]]
      <4> SUFFICES ASSUME NEW j \in D, NEW f \in [D -> S], j # 1
                   PROVE  f[j-1] \o seqs[j] \in S
        BY <1>0
      <4>1. f[j-1] \in Seq(V) /\ seqs[j] \in Seq(V)
        BY <1>0, <3>0
      <4> QED BY <4>1
    <3>2. ASSUME NEW j \in D, NEW f \in [D -> S], NEW g \in [D -> S],
                 \A m \in D : rank[m] < rank[j] => f[m] = g[m]
          PROVE  G[j][f] = G[j][g]
      <4>1. j # 1 => f[j-1] = g[j-1]
        BY <3>0, <3>2
      <4> HIDE DEF D, S
      <4> QED BY <4>1
    <3>3. rank \in [D -> 0..n]
      BY <1>0
    <3>4. S # {}
      <4>1. <<>> \in Seq(V)
        OBVIOUS
      <4> QED BY <4>1
    <3>5. ByRank(D, S, n, rank, G)
      <4> HIDE DEF D, S, rank, G
      <4> QED BY <1>0, <3>1, <3>2, <3>3, <3>4 DEF ByRank
    <3>6. \E f \in [D -> S] : \A j \in D : f[j] = G[j][f]
      <4> HIDE DEF D, S, rank, G
      <4> QED BY <3>5, FunctionByRank
    <3>7. PICK f \in [D -> S] : \A j \in D : f[j] = G[j][f]
      <4> HIDE DEF D, S, rank, G
      <4> QED BY <3>6
    <3>8. \A j \in D : f[j] = IF j = 1 THEN seqs[j] ELSE f[j-1] \o seqs[j]
      <4> HIDE DEF S
      <4> QED BY <3>7
    <3>9. f = [j \in D |-> f[j]]
      <4> HIDE DEF D, S
      <4> QED OBVIOUS
    <3>10. IsFlat(f)
      <4> HIDE DEF S
      <4> QED BY <3>8, <3>9
    <3> QED BY <3>10
  <2>3. PICK f : IsFlat(f) /\ FlattenSeq(seqs) = f[n]
    <3> HIDE DEF IsFlat
    <3> QED BY <2>1, <2>2
  <2>4. \A j \in 1..n : f[j] = IF j = 1 THEN seqs[j] ELSE f[j-1] \o seqs[j]
    BY <2>3
  <2> HIDE DEF IsFlat
  <2> DEFINE P(c, j) == /\ c \in Seq(V)
                        /\ \A x : x \in Range(c) <=> \E s \in 1..j : x \in Range(seqs[s])
             T == {j \in Nat : j + 1 <= n => P(f[j+1], j + 1)}
  <2>5. 0 \in T
    <3>1. 1 \in 1..n /\ f[1] = seqs[1] /\ seqs[1] \in Seq(V)
      BY <1>0, <1>2, <2>4
    <3>2. \A s \in 1..1 : s = 1
      OBVIOUS
    <3> QED BY <3>1, <3>2
  <2>6. ASSUME NEW j \in Nat, j \in T PROVE j + 1 \in T
    <3> SUFFICES ASSUME j + 2 <= n PROVE P(f[j+2], j + 2)
      <4>1. (j + 1) + 1 = j + 2
        OBVIOUS
      <4> HIDE DEF P
      <4> QED BY <4>1
    <3>1. j + 1 \in 1..n /\ j + 2 \in 1..n /\ j + 2 # 1 /\ (j + 2) - 1 = j + 1 /\ j + 1 <= n
      BY <1>0
    <3>2. P(f[j+1], j + 1)
      <4> HIDE DEF P
      <4> QED BY <2>6, <3>1
    <3>3. f[j+2] = f[j+1] \o seqs[j+2] /\ seqs[j+2] \in Seq(V)
      BY <1>0, <2>4, <3>1
    <3>4. f[j+2] \in Seq(V) /\ Range(f[j+2]) = Range(f[j+1]) \cup Range(seqs[j+2])
      BY <3>2, <3>3, RangeOfConcat
    <3>5. \A s : s \in 1..(j+2) <=> s \in 1..(j+1) \/ s = j + 2
      OBVIOUS
    <3>6. ASSUME NEW x
          PROVE  x \in Range(f[j+2]) <=> \E s \in 1..(j+2) : x \in Range(seqs[s])
      BY <3>2, <3>4, <3>5
    <3> QED BY <3>4, <3>6
  <2>7. P(f[n], n)
    <3> HIDE DEF P, T
    <3>1. n - 1 \in Nat /\ (n - 1) + 1 = n /\ n <= n
      BY <1>0, <1>2
    <3>2. n - 1 \in T
      BY <2>5, <2>6, <3>1, Induction
    <3>3. (n - 1) + 1 <= n => P(f[(n-1)+1], (n - 1) + 1)
      BY <3>2 DEF T
    <3> QED BY <3>1, <3>3
  <2> QED BY <1>0, <2>3, <2>7
<1> QED BY <1>1, <1>2

(***************************************************************************)
(* Folding a sequence with AddToSet gives its elements, each once.         *)
(***************************************************************************)
LEMMA AddToSetFacts ==
  ASSUME NEW V, NEW set \in Seq(V), NEW x \in V, IsInjective(set)
  PROVE  /\ AddToSet(set, x) \in Seq(V) /\ IsInjective(AddToSet(set, x))
         /\ Range(AddToSet(set, x)) = Range(set) \cup {x}
<1>0. Len(set) \in Nat /\ DOMAIN set = 1..Len(set)
  OBVIOUS
<1>1. Contains(set, x) <=> x \in Range(set)
  BY <1>0 DEF Contains, Range
<1>2. CASE Contains(set, x)
  BY <1>1, <1>2 DEF AddToSet
<1>3. CASE ~Contains(set, x)
  <2> DEFINE a == Append(set, x)
  <2>1. AddToSet(set, x) = a
    BY <1>3 DEF AddToSet
  <2>2. /\ a \in Seq(V) /\ DOMAIN a = 1..(Len(set) + 1)
        /\ \A j \in 1..Len(set) : a[j] = set[j]
        /\ a[Len(set) + 1] = x
    OBVIOUS
  <2> HIDE DEF a
  <2>3. \A j : j \in DOMAIN a <=> j \in DOMAIN set \/ j = Len(set) + 1
    BY <1>0, <2>2
  <2>4. Range(a) = Range(set) \cup {x}
    BY <1>0, <2>2, <2>3 DEF Range
  <2>5. \A j \in DOMAIN set : set[j] # x
    BY <1>1, <1>3 DEF Range
  <2>6. IsInjective(a)
    BY <1>0, <2>2, <2>3, <2>5 DEF IsInjective
  <2> QED BY <2>1, <2>2, <2>4, <2>6
<1> QED BY <1>2, <1>3

LEMMA FoldAddToSet ==
  ASSUME NEW V, NEW seq \in Seq(V)
  PROVE  LET set == FoldLeft(AddToSet, <<>>, seq)
         IN  set \in Seq(V) /\ IsInjective(set) /\ Range(set) = Range(seq)
<1> DEFINE n == Len(seq)
           S == Seq(V)
           F == [j \in 1..n |-> [v \in S |-> AddToSet(v, seq[j])]]
           P(c, j) == /\ c \in Seq(V) /\ IsInjective(c)
                      /\ \A x : x \in Range(c) <=> \E s \in 1..j : x = seq[s]
           IsIter(f) == f = [s \in SUBSET (DOMAIN seq) |->
              IF s = {} THEN <<>> ELSE AddToSet(f[s \ {Max(s)}], seq[Max(s)])]
<1>0. n \in Nat /\ DOMAIN seq = 1..n /\ \A s \in 1..n : seq[s] \in V
  OBVIOUS
<1>1. FoldLeft(AddToSet, <<>>, seq) = (CHOOSE f : IsIter(f))[DOMAIN seq]
  BY DEF FoldLeft, MapThenFoldSet
<1>2. \E f : IsIter(f)
  <2>0. \A v \in S, x \in V : AddToSet(v, x) \in S
    BY DEF AddToSet
  <2>1. F \in [1..n -> [S -> S]]
    <3> HIDE DEF S
    <3> QED BY <1>0, <2>0
  <2>2. \E f \in [SUBSET (1..n) -> S] : IsFold(f, n, <<>>, F)
    <3>1. <<>> \in S
      OBVIOUS
    <3> HIDE DEF F, S
    <3> QED BY <2>1, <3>1, <1>0, FoldExists
  <2>3. PICK f \in [SUBSET (1..n) -> S] : IsFold(f, n, <<>>, F)
    <3> HIDE DEF F, S
    <3> QED BY <2>2
  <2> HIDE DEF S
  <2>4. ASSUME NEW s \in SUBSET (1..n)
        PROVE  f[s] = IF s = {} THEN <<>> ELSE AddToSet(f[s \ {Max(s)}], seq[Max(s)])
    <3>1. s # {} => Max(s) \in 1..n /\ f[s \ {Max(s)}] \in S
      BY <1>0, MaxOfSubset
    <3>2. f[s] = IF s = {} THEN <<>> ELSE F[Max(s)][f[s \ {Max(s)}]]
      <4> HIDE DEF F
      <4> QED BY <2>3 DEF IsFold
    <3> QED BY <3>1, <3>2
  <2>5. f = [s \in SUBSET (1..n) |-> f[s]]
    OBVIOUS
  <2>6. IsIter(f)
    BY <2>4, <2>5, <1>0
  <2> QED BY <2>6
<1>3. PICK f : IsIter(f) /\ FoldLeft(AddToSet, <<>>, seq) = f[1..n]
  <2> HIDE DEF IsIter
  <2> QED BY <1>0, <1>1, <1>2
<1>4. /\ f[1..0] = <<>>
      /\ \A j \in 1..n : f[1..j] = AddToSet(f[1..(j-1)], seq[j])
  <2>1. \A s \in SUBSET (1..n) :
          f[s] = IF s = {} THEN <<>> ELSE AddToSet(f[s \ {Max(s)}], seq[Max(s)])
    BY <1>0, <1>3
  <2> HIDE DEF IsIter, n
  <2>2. f[1..0] = <<>>
    BY <1>0, <2>1, Segments
  <2>3. ASSUME NEW j \in 1..n
        PROVE  f[1..j] = AddToSet(f[1..(j-1)], seq[j])
    <3>1. 1..j \in SUBSET (1..n) /\ 1..j # {} /\ Max(1..j) = j /\ (1..j) \ {j} = 1..(j-1)
      BY <1>0, Segments
    <3> QED BY <2>1, <3>1
  <2> QED BY <2>2, <2>3
<1> HIDE DEF IsIter
<1> DEFINE T == {j \in Nat : j <= n => P(f[1..j], j)}
<1>5. 0 \in T
  <2>1. <<>> \in Seq(V) /\ DOMAIN <<>> = {}
    OBVIOUS
  <2>2. IsInjective(<<>>) /\ Range(<<>>) = {}
    BY <2>1 DEF IsInjective, Range
  <2>3. \A s \in 1..0 : FALSE
    OBVIOUS
  <2> QED BY <1>4, <2>1, <2>2, <2>3
<1>6. ASSUME NEW j \in Nat, j \in T PROVE j + 1 \in T
  <2> SUFFICES ASSUME j + 1 <= n PROVE P(f[1..(j+1)], j + 1)
    OBVIOUS
  <2>1. P(f[1..j], j) /\ j + 1 \in 1..n /\ j <= n /\ (j + 1) - 1 = j
    <3>1. j + 1 \in 1..n /\ j <= n /\ (j + 1) - 1 = j
      BY <1>0
    <3> HIDE DEF P
    <3> QED BY <1>6, <3>1
  <2>2. f[1..(j+1)] = AddToSet(f[1..j], seq[j+1]) /\ seq[j+1] \in V
    BY <1>0, <1>4, <2>1
  <2>3. /\ f[1..(j+1)] \in Seq(V) /\ IsInjective(f[1..(j+1)])
        /\ Range(f[1..(j+1)]) = Range(f[1..j]) \cup {seq[j+1]}
    <3> DEFINE c == f[1..j]
               x == seq[j+1]
    <3>1. c \in Seq(V) /\ IsInjective(c) /\ x \in V
      BY <2>1, <2>2
    <3> HIDE DEF c, x
    <3>2. /\ AddToSet(c, x) \in Seq(V) /\ IsInjective(AddToSet(c, x))
          /\ Range(AddToSet(c, x)) = Range(c) \cup {x}
      BY <3>1, AddToSetFacts
    <3> QED BY <2>2, <3>2 DEF c, x
  <2>4. \A s : s \in 1..(j+1) <=> s \in 1..j \/ s = j + 1
    OBVIOUS
  <2>5. \A x : x \in Range(f[1..(j+1)]) <=> \E s \in 1..(j+1) : x = seq[s]
    BY <2>1, <2>3, <2>4
  <2> QED BY <2>3, <2>5
<1>7. P(f[1..n], n)
  <2> HIDE DEF T, P
  <2>1. n \in T
    BY <1>0, <1>5, <1>6, Induction
  <2> QED BY <2>1, <1>0 DEF T
<1>8. \A x : x \in Range(seq) <=> \E s \in 1..n : x = seq[s]
  BY <1>0 DEF Range
<1>9. Range(f[1..n]) = Range(seq)
  BY <1>7, <1>8
<1> QED BY <1>3, <1>7, <1>9

-----------------------------------------------------------------------------
(***************************************************************************)
(* freeProgCtx: the walk from the exit node meets every instruction, and   *)
(* the set that it fills holds each of them once.                          *)
(***************************************************************************)
Freed ==
  /\ pc # "freed" => freed = <<>>
  /\ freed \in Seq(Node)
  /\ FreesEveryNodeOnce

LEMMA FreeInv ==
  Shape /\ Connected /\ FreeProgCtx => Freed'
<1> SUFFICES ASSUME Shape, Connected, FreeProgCtx PROVE Freed'
  OBVIOUS
<1> DEFINE N == NumInsts
           V == Node
           walks == [s \in DOMAIN deps |-> Walk[deps[s]]]
           all == FlattenSeq(walks)
           set == FoldLeft(AddToSet, <<>>, all)
<1>1. Graph /\ ~InLoop /\ Complete /\ deps \in Seq(Node)
  <2>1. ~InLoop
    BY DEF FreeProgCtx, InLoop
  <2> QED BY <2>1, ConnectedIsComplete DEF Shape
<1>2. freed' = set /\ pc' = "freed" /\ insts' = insts
  BY DEF FreeProgCtx
<1>3. /\ DOMAIN deps = 1..Len(deps) /\ Len(deps) \in Nat
      /\ \A s \in DOMAIN deps : deps[s] \in V
  BY <1>1
<1>4. /\ \A n \in V : Walk[n] \in Seq(V) /\ Range(Walk[n]) \subseteq 1..N
      /\ \A n \in V \ {Entry} :
           /\ n \in Range(Walk[n])
           /\ Range(Walk[dep1[n]]) \subseteq Range(Walk[n])
           /\ Range(Walk[dep2[n]]) \subseteq Range(Walk[n])
  BY <1>1, WalkFacts
<1>v. 1..N \subseteq V /\ \A n \in 1..N : n # Entry
  BY <1>1 DEF Graph, Node, Entry
<1>5. walks \in Seq(Seq(V)) /\ DOMAIN walks = DOMAIN deps
  <2> HIDE DEF V
  <2>1. \A s \in 1..Len(deps) : Walk[deps[s]] \in Seq(V)
    BY <1>3, <1>4
  <2>2. walks \in [1..Len(deps) -> Seq(V)]
    BY <1>3, <2>1
  <2> QED BY <1>3, <2>2
<1>6. /\ all \in Seq(V)
      /\ \A x : x \in Range(all) <=> \E s \in DOMAIN walks : x \in Range(walks[s])
  <2> HIDE DEF V, walks
  <2> QED BY <1>5, FlattenFacts
<1>7. set \in Seq(V) /\ IsInjective(set) /\ Range(set) = Range(all)
  <2> HIDE DEF V, all
  <2> QED BY <1>6, FoldAddToSet
<1> HIDE DEF V, all, set
<1>8. Range(all) \subseteq 1..N
  <2> SUFFICES ASSUME NEW x \in Range(all) PROVE x \in 1..N
    OBVIOUS
  <2>1. PICK s \in DOMAIN deps : x \in Range(walks[s])
    BY <1>5, <1>6
  <2>2. walks[s] = Walk[deps[s]] /\ deps[s] \in V
    BY <1>3, <2>1
  <2> QED BY <1>4, <2>1, <2>2
<1>9. 1..N \subseteq Range(all)
  <2> DEFINE S == {n \in V : Range(Walk[n]) \subseteq Range(all)}
  <2>1. Range(deps) \subseteq S
    <3> SUFFICES ASSUME NEW s \in DOMAIN deps PROVE deps[s] \in S
      BY DEF Range
    <3>1. walks[s] = Walk[deps[s]] /\ deps[s] \in V /\ s \in DOMAIN walks
      BY <1>3
    <3>2. Range(walks[s]) \subseteq Range(all)
      BY <1>6, <3>1
    <3> QED BY <3>1, <3>2
  <2>2. ASSUME NEW m \in S, m \in Node \ {Entry} PROVE dep1[m] \in S /\ dep2[m] \in S
    <3>1. dep1[m] \in V /\ dep2[m] \in V
      BY <1>1, <2>2, NodeFacts DEF V
    <3> QED BY <1>4, <2>2, <3>1 DEF V
  <2>3. 1..N \subseteq S
    <3> HIDE DEF S
    <3> QED BY <1>1, <2>1, <2>2, HandedDown
  <2> QED BY <1>4, <1>v, <2>3
<1>10. Range(set) = 1..N
  BY <1>7, <1>8, <1>9
<1>11. Node' = V /\ NumInsts' = N
  BY <1>2 DEF V, Node, NumInsts
<1> QED BY <1>2, <1>7, <1>10, <1>11 DEF Freed, FreesEveryNodeOnce

\* The other steps free nothing.
LEMMA KeptFreed ==
  ASSUME Freed, Shape, freed' = freed, NumInsts' \in Nat, NumInsts <= NumInsts',
         pc = "freed" => NumInsts' = NumInsts, pc' = "freed" <=> pc = "freed"
  PROVE  Freed'
<1>1. CASE pc = "freed"
  <2>1. NumInsts' = NumInsts /\ Node' = Node
    BY <1>1 DEF Node
  <2> QED BY <1>1, <2>1 DEF Freed, FreesEveryNodeOnce
<1>2. CASE pc # "freed"
  <2>1. freed' = <<>> /\ pc' # "freed"
    BY <1>2 DEF Freed
  <2>2. <<>> \in Seq(Node')
    OBVIOUS
  <2> QED BY <2>1, <2>2 DEF Freed, FreesEveryNodeOnce
<1> QED BY <1>1, <1>2

-----------------------------------------------------------------------------
(***************************************************************************)
(* Every step keeps the invariant.                                         *)
(***************************************************************************)
GraphInv == TreeInv /\ Freed

LEMMA StartInv == Start /\ opsLatency \in [Opcode -> Nat] => GraphInv
<1> SUFFICES ASSUME Start, opsLatency \in [Opcode -> Nat] PROVE GraphInv
  OBVIOUS
<1>1. NumInsts = 0 /\ 1..NumInsts = {} /\ Node = {0}
  BY DEF Start, NumInsts, Node
<1>2. ~InLoop /\ pc = "add" /\ freed = <<>>
  BY DEF Start, InLoop
<1>3. Graph
  BY <1>1 DEF Graph
<1>4. deps \in Seq(Node) /\ Len(deps) = 1 /\ Range(deps) = {Entry}
  <2>1. deps = <<0>> /\ 0 \in Node
    BY <1>1 DEF Start, Entry
  <2> QED BY <2>1 DEF Range, Entry
<1>5. size \in Nat \ {0} /\ maxDepth \in Nat /\ i \in 1..size+1
  BY DepTreeAssumption DEF Start
<1>6. /\ insts \in Seq(Instruction) /\ NumInsts <= MaxInsts
      /\ dep1 \in Seq(Nat) /\ dep2 \in Seq(Nat) /\ depth \in Seq(Nat)
      /\ Len(dep1) = NumInsts /\ Len(dep2) = NumInsts /\ Len(depth) = NumInsts
  <2>1. \A V : <<>> \in Seq(V) /\ Len(<<>>) = 0
    OBVIOUS
  <2> QED BY <1>1, <2>1, DepTreeAssumption DEF Start
<1>7. Shape
  BY <1>2, <1>3, <1>4, <1>5, <1>6 DEF Shape
<1>8. Writers /\ Timed
  BY <1>1 DEF Writers, Timed, Start
<1>9. Connected
  BY <1>1, <1>2, <1>4 DEF Connected, ExitNodes
<1>10. Freed
  BY <1>2 DEF Freed, FreesEveryNodeOnce
<1> QED BY <1>7, <1>8, <1>9, <1>10 DEF GraphInv, TreeInv

LEMMA StepInv == GraphInv /\ [Next]_vars => GraphInv'
<1> SUFFICES ASSUME GraphInv, [Next]_vars PROVE GraphInv'
  OBVIOUS
<1>0. Shape /\ Writers /\ Connected /\ Timed /\ Freed /\ NumInsts \in Nat
  BY DEF GraphInv, TreeInv, Shape, Graph
<1>1. ASSUME NEW inst \in Instruction, AddInst(inst) PROVE GraphInv'
  <2>1. Shape' /\ Writers' /\ Connected' /\ Timed'
    BY <1>0, <1>1, AddInv
  <2>2. /\ freed' = freed /\ pc # "freed" /\ pc' # "freed"
        /\ NumInsts' = NumInsts + 1
    BY <1>0, <1>1 DEF AddInst, NumInsts, Shape
  <2>3. Freed'
    BY <1>0, <2>2, KeptFreed
  <2> QED BY <2>1, <2>3 DEF GraphInv, TreeInv
<1>2. ASSUME Shape', Connected', GraphKept,
             freed' = freed, pc' = "freed" <=> pc = "freed"
      PROVE  GraphInv'
  <2>1. Writers' /\ Timed' /\ NumInsts' = NumInsts
    BY <1>0, <1>2, KeptWriters, KeptTimed DEF GraphKept, NumInsts
  <2>2. Freed'
    BY <1>0, <1>2, <2>1, KeptFreed
  <2> QED BY <1>2, <2>1, <2>2 DEF GraphInv, TreeInv
<1>3. CASE Disconnect
  <2>1. Shape' /\ Connected'
    BY <1>0, <1>3, DisconnectInv
  <2> QED BY <1>2, <1>3, <2>1 DEF Disconnect, GraphKept
<1>4. CASE LeaveLoop
  <2>1. Shape' /\ Connected'
    BY <1>0, <1>4, LeaveLoopInv
  <2> QED BY <1>2, <1>4, <2>1 DEF LeaveLoop, GraphKept
<1>5. CASE Connect
  <2>1. Shape' /\ Connected'
    BY <1>0, <1>5, ConnectInv
  <2> QED BY <1>2, <1>5, <2>1 DEF Connect, GraphKept
<1>6. CASE Return
  <2>1. Shape' /\ Connected'
    BY <1>0, <1>6, RestInv DEF Return, GraphKept, InLoop
  <2> QED BY <1>2, <1>6, <2>1 DEF Return, GraphKept
<1>7. CASE FreeProgCtx
  <2>1. Shape' /\ Connected' /\ GraphKept
    BY <1>0, <1>7, RestInv DEF FreeProgCtx, GraphKept, InLoop
  <2>2. Writers' /\ Timed' /\ Freed'
    BY <1>0, <1>7, <2>1, KeptWriters, KeptTimed, FreeInv
  <2> QED BY <2>1, <2>2 DEF GraphInv, TreeInv
<1>8. CASE UNCHANGED vars
  <2>1. GraphKept /\ deps' = deps /\ size' = size /\ i' = i /\ pc' = pc /\ freed' = freed
    BY <1>8 DEF vars, GraphKept
  <2>2. InLoop' <=> InLoop
    BY <2>1 DEF InLoop
  <2>3. Shape'
    BY <1>0, <2>1, <2>2, KeptShape DEF Shape
  <2>4. Connected'
    <3>1. /\ NumInsts' = NumInsts /\ dep1' = dep1 /\ dep2' = dep2
          /\ ExitNodes(NumInsts)' = ExitNodes(NumInsts)
          /\ ExitNodes(NumInsts - 1)' = ExitNodes(NumInsts - 1)
      BY <1>0, <2>1, KeptShape DEF GraphKept
    <3> QED BY <1>0, <2>1, <2>2, <3>1 DEF Connected
  <2> QED BY <1>2, <2>1, <2>3, <2>4
<1> QED BY <1>1, <1>3, <1>4, <1>5, <1>6, <1>7, <1>8 DEF Next

LEMMA TypeInv == GraphInv => TypeOK
<1> SUFFICES ASSUME GraphInv PROVE TypeOK
  OBVIOUS
<1>1. Shape /\ freed \in Seq(Node)
  BY DEF GraphInv, TreeInv, Freed
<1>2. \A n \in 1..NumInsts : depth[n] \in Nat
  BY <1>1 DEF Shape
<1> QED BY <1>1, <1>2 DEF Shape, Graph, TypeOK

LEMMA GraphAlways == Spec => []GraphInv
<1>1. Init => GraphInv
  <2> SUFFICES ASSUME Init PROVE GraphInv
    OBVIOUS
  <2>1. Start /\ opsLatency \in [Opcode -> Nat]
    BY DepTreeAssumption DEF Init
  <2> QED BY <2>1, StartInv
<1> QED BY <1>1, StepInv, PTL DEF Spec

-----------------------------------------------------------------------------
(***************************************************************************)
(* The duration of a set of instructions is its weight, in whatever order  *)
(* they are added up.                                                      *)
(***************************************************************************)
Costs == [n \in 1..NumInsts |-> opsLatency[insts[n].op]]

LEMMA CostsType ==
  Shape => /\ Costs \in [1..NumInsts -> Nat]
           /\ \A n \in 1..NumInsts : Costs[n] = opsLatency[insts[n].op] /\ Costs[n] = Cycles(n)
<1> SUFFICES ASSUME Shape
             PROVE  /\ Costs \in [1..NumInsts -> Nat]
                    /\ \A n \in 1..NumInsts : Costs[n] = opsLatency[insts[n].op] /\ Costs[n] = Cycles(n)
  OBVIOUS
<1>1. ASSUME NEW n \in 1..NumInsts
      PROVE  opsLatency[insts[n].op] \in Nat /\ n # Entry
  <2>1. insts[n] \in Instruction
    BY DEF Shape, NumInsts
  <2>2. insts[n].op \in Opcode
    BY <2>1 DEF Instruction
  <2> QED BY <2>2 DEF Shape, Entry
<1> QED BY <1>1 DEF Costs, Cycles

LEMMA DurationIsWeight ==
  ASSUME Shape, NEW S \in SUBSET (1..NumInsts)
  PROVE  IsFiniteSet(S) /\ Duration(S) = Weight(Costs, S)
<1> DEFINE Cost(x) == opsLatency[insts[x].op]
           IsIter(f) == f = [s \in SUBSET S |->
              IF s = {} THEN 0 ELSE LET x == CHOOSE x \in s : TRUE
                                    IN  f[s \ {x}] + Cost(x)]
           c == [x \in S |-> Cost(x)]
<1>1. Duration(S) = (CHOOSE f : IsIter(f))[S]
  BY DEF Duration, FoldSet, MapThenFoldSet
<1>2. /\ Costs \in [1..NumInsts -> Nat]
      /\ \A x \in S : Cost(x) = Costs[x]
  BY CostsType
<1>3. IsFiniteSet(S)
  <2> DEFINE V == 1..NumInsts
  <2>1. IsFiniteSet(V)
    BY FS_Interval DEF Shape, Graph
  <2> HIDE DEF V
  <2>2. S \in SUBSET V
    BY DEF V
  <2> QED BY <2>1, <2>2, FS_Subset
<1>4. c \in [S -> Nat] /\ \A x \in S : c[x] = Cost(x)
  BY <1>2
<1> HIDE DEF Cost, c
<1>5. \E f : IsIter(f)
  <2>1. PICK f \in [SUBSET S -> Nat] : InChosenOrder(f, S, c)
    BY <1>3, <1>4, SumExists
  <2>2. ASSUME NEW s \in SUBSET S
        PROVE  f[s] = IF s = {} THEN 0 ELSE LET x == CHOOSE x \in s : TRUE
                                            IN  f[s \ {x}] + Cost(x)
    <3> DEFINE x == CHOOSE x \in s : TRUE
    <3>1. s # {} => x \in s /\ x \in S
      OBVIOUS
    <3>2. f[s] = IF s = {} THEN 0 ELSE f[s \ {x}] + c[x]
      BY <2>1 DEF InChosenOrder
    <3> HIDE DEF x
    <3>3. f[s] = IF s = {} THEN 0 ELSE f[s \ {x}] + Cost(x)
      BY <3>1, <3>2, <1>4
    <3> QED BY <3>3 DEF x
  <2>3. f = [s \in SUBSET S |-> f[s]]
    OBVIOUS
  <2> QED BY <2>2, <2>3
<1>6. PICK f : IsIter(f) /\ Duration(S) = f[S]
  <2> HIDE DEF IsIter
  <2> QED BY <1>1, <1>5
<1>7. AddsUp(f, S, Costs)
  <2>1. \A s \in SUBSET S : f[s] = IF s = {} THEN 0 ELSE LET x == CHOOSE x \in s : TRUE
                                                         IN  f[s \ {x}] + Cost(x)
    BY <1>6
  <2> HIDE DEF IsIter
  <2>2. f[{}] = 0
    BY <2>1
  <2>3. ASSUME NEW s \in SUBSET S, s # {}
        PROVE  \E x \in s : f[s \ {x}] \in Nat => f[s] = f[s \ {x}] + Costs[x]
    <3> DEFINE x == CHOOSE x \in s : TRUE
    <3>1. x \in s /\ x \in S
      BY <2>3
    <3>2. f[s] = f[s \ {x}] + Cost(x)
      BY <2>1, <2>3
    <3> HIDE DEF x
    <3>3. f[s] = f[s \ {x}] + Costs[x]
      BY <3>1, <3>2, <1>2
    <3> QED BY <3>1, <3>3
  <2> QED BY <2>2, <2>3 DEF AddsUp
<1>8. f[S] = Weight(Costs, S)
  <2> HIDE DEF IsIter
  <2> QED BY <1>2, <1>3, <1>7, SumIsWeight
<1> QED BY <1>3, <1>6, <1>8

-----------------------------------------------------------------------------
(***************************************************************************)
(* Chains: without its last instruction a chain is a chain, and with an    *)
(* instruction that reads the result of the last one as well.              *)
(***************************************************************************)
LastOf(S, n) == n \in S /\ \A m \in S : m <= n

LEMMA ChainShorter ==
  ASSUME Graph, NEW S \in Chains, NEW n, LastOf(S, n)
  PROVE  S \ {n} \in Chains
<1> SUFFICES ASSUME NEW k \in S \ {n}, \E m \in S \ {n} : m < k
             PROVE  Max({m \in S \ {n} : m < k}) \in Producers(k)
  BY DEF Chains
<1>1. S \subseteq Nat
  BY DEF Chains
<1>2. {m \in S \ {n} : m < k} = {m \in S : m < k}
  BY <1>1 DEF LastOf
<1> QED BY <1>2 DEF Chains

LEMMA ChainLonger ==
  ASSUME Graph, NEW C \in Chains, NEW m, LastOf(C, m),
         NEW n \in 1..NumInsts, m < n, m \in Producers(n)
  PROVE  C \cup {n} \in Chains
<1> DEFINE S == C \cup {n}
<1>1. C \subseteq Nat /\ S \in SUBSET (1..NumInsts) /\ n \in Nat /\ m \in C
  BY DEF Chains, LastOf
<1>2. \A j \in C : j < n
  BY <1>1 DEF LastOf
<1>3. ASSUME NEW k \in S, \E j \in S : j < k
      PROVE  Max({j \in S : j < k}) \in Producers(k)
  <2>1. CASE k = n
    <3>0. ~(n < n)
      BY <1>1
    <3>1. {j \in S : j < k} = C
      BY <1>2, <2>1, <3>0
    <3>2. Max(C) = m
      BY <1>1, MaxIs DEF LastOf
    <3> QED BY <2>1, <3>1, <3>2
  <2>2. CASE k # n
    <3>1. k \in C /\ {j \in S : j < k} = {j \in C : j < k}
      BY <1>1, <1>2, <2>2
    <3>2. \E j \in C : j < k
      BY <1>1, <1>2, <1>3, <3>1
    <3> QED BY <3>1, <3>2 DEF Chains
  <2> QED BY <2>1, <2>2
<1> HIDE DEF S
<1>4. S \in Chains
  BY <1>1, <1>3 DEF Chains
<1> QED BY <1>4 DEF S

LEMMA ChainOfOne ==
  ASSUME Graph, NEW n \in 1..NumInsts
  PROVE  {n} \in Chains /\ LastOf({n}, n) /\ {} \in Chains
<1>1. n \in Nat
  OBVIOUS
<1>2. ~ \E m \in {n} : m < n
  BY <1>1
<1> QED BY <1>1, <1>2 DEF Chains, LastOf

LEMMA LastOfChain ==
  ASSUME Graph, NEW S \in Chains, S # {}
  PROVE  Max(S) \in 1..NumInsts /\ LastOf(S, Max(S))
<1>1. S \subseteq 0..NumInsts /\ NumInsts \in Nat /\ S \subseteq 1..NumInsts
  BY DEF Chains, Graph
<1>2. Max(S) \in S /\ \A m \in S : Max(S) >= m
  BY <1>1, MaxOfBounded
<1>3. \A m \in S : m <= Max(S)
  BY <1>1, <1>2
<1> QED BY <1>1, <1>2, <1>3 DEF LastOf

(***************************************************************************)
(* The instructions whose results n reads are those it points to.          *)
(***************************************************************************)
LEMMA ProducerFacts ==
  ASSUME Shape, Writers, NEW n \in 1..NumInsts
  PROVE  /\ dep1[n] \in Producers(n) /\ dep2[n] \in Producers(n)
         /\ \A m \in Producers(n) : m # Entry => m = dep1[n] \/ m = dep2[n]
<1>1. LET w1 == LastWriter(n, insts[n].src1)
          w2 == LastWriter(n, insts[n].src2)
      IN  /\ dep1[n] = IF w1 = Entry THEN w2 ELSE w1
          /\ dep2[n] = IF w2 = Entry THEN w1 ELSE w2
  BY DEF Writers
<1> QED BY <1>1 DEF Producers

(***************************************************************************)
(* No chain that ends in n is longer before n than n's depth, and one is   *)
(* as long.                                                                *)
(***************************************************************************)
NoChainLonger(n) ==
  \A S \in Chains : LastOf(S, n) => Weight(Costs, S \ {n}) <= depth[n]
SomeChainAsLong(n) ==
  \E S \in Chains : LastOf(S, n) /\ Weight(Costs, S \ {n}) = depth[n]

LEMMA ChainWeight ==
  ASSUME Shape, NEW S \in Chains, NEW m, LastOf(S, m)
  PROVE  /\ m \in 1..NumInsts
         /\ Weight(Costs, S) \in Nat /\ Weight(Costs, S \ {m}) \in Nat
         /\ Weight(Costs, S) = Weight(Costs, S \ {m}) + Cycles(m)
<1> DEFINE V == 1..NumInsts
<1>1. S \in SUBSET V /\ m \in S /\ m \in V
  BY DEF Chains, LastOf
<1>2. IsFiniteSet(S) /\ Costs \in [V -> Nat] /\ Costs[m] = Cycles(m)
  BY <1>1, DurationIsWeight, CostsType
<1> HIDE DEF V
<1>3. /\ Weight(Costs, S) \in Nat /\ Weight(Costs, S \ {m}) \in Nat
      /\ Weight(Costs, S) = Weight(Costs, S \ {m}) + Costs[m]
  BY <1>1, <1>2, WeightRemove
<1> QED BY <1>1, <1>2, <1>3 DEF V

LEMMA DepthFacts ==
  ASSUME Shape, Timed, NEW n \in 1..NumInsts
  PROVE  /\ depth[n] \in Nat /\ Cycles(n) \in Nat /\ DepthOf(n) = depth[n]
         /\ dep1[n] \in Node => DepthOf(dep1[n]) + Cycles(dep1[n]) <= depth[n]
         /\ dep2[n] \in Node => DepthOf(dep2[n]) + Cycles(dep2[n]) <= depth[n]
         /\ \/ depth[n] = DepthOf(dep1[n]) + Cycles(dep1[n])
            \/ depth[n] = DepthOf(dep2[n]) + Cycles(dep2[n])
<1>1. ASSUME NEW m \in Node
      PROVE  DepthOf(m) \in Nat /\ Cycles(m) \in Nat
  <2>1. CASE m = Entry
    BY <2>1 DEF DepthOf, Cycles
  <2>2. CASE m # Entry
    <3>1. m \in 1..NumInsts
      BY <2>2, NodeFacts DEF Shape
    <3>2. depth[m] \in Nat
      BY <3>1 DEF Shape
    <3>3. Costs[m] = Cycles(m) /\ Costs \in [1..NumInsts -> Nat]
      BY <3>1, CostsType
    <3>4. Costs[m] \in Nat
      BY <3>1, <3>3
    <3> QED BY <2>2, <3>2, <3>3, <3>4 DEF DepthOf
  <2> QED BY <2>1, <2>2
<1>2. n \in Node /\ n # Entry /\ dep1[n] \in Node /\ dep2[n] \in Node
  BY DEF Shape, Graph, Node, Entry
<1>3. depth[n] = Later(DepthOf(dep1[n]) + Cycles(dep1[n]), DepthOf(dep2[n]) + Cycles(dep2[n]))
  BY DEF Timed, StartAfter
<1>4. /\ DepthOf(dep1[n]) + Cycles(dep1[n]) \in Nat
      /\ DepthOf(dep2[n]) + Cycles(dep2[n]) \in Nat
  <2>1. DepthOf(dep1[n]) \in Nat /\ Cycles(dep1[n]) \in Nat
    BY <1>1, <1>2
  <2>2. DepthOf(dep2[n]) \in Nat /\ Cycles(dep2[n]) \in Nat
    BY <1>1, <1>2
  <2> QED BY <2>1, <2>2
<1>5. DepthOf(n) = depth[n] /\ DepthOf(n) \in Nat /\ Cycles(n) \in Nat
  BY <1>1, <1>2 DEF DepthOf
<1> QED BY <1>3, <1>4, <1>5, LaterFacts

LEMMA ChainsAndDepths ==
  ASSUME Shape, Writers, Timed
  PROVE  \A n \in 1..NumInsts : NoChainLonger(n) /\ SomeChainAsLong(n)
<1> DEFINE T == {n \in Nat : n \in 1..NumInsts => NoChainLonger(n) /\ SomeChainAsLong(n)}
<1>0. Graph
  BY DEF Shape
<1>1. ASSUME NEW n \in Nat, \A m \in 0..(n-1) : m \in T
      PROVE  n \in T
  <2> SUFFICES ASSUME n \in 1..NumInsts
               PROVE  NoChainLonger(n) /\ SomeChainAsLong(n)
    OBVIOUS
  <2>1. ASSUME NEW m \in 1..NumInsts, m < n
        PROVE  NoChainLonger(m) /\ SomeChainAsLong(m)
    <3>1. m \in 0..(n-1)
      BY <2>1
    <3> QED BY <1>1, <2>1, <3>1
  <2>2. /\ dep1[n] \in Node /\ dep2[n] \in Node
        /\ dep1[n] # Entry => dep1[n] \in 1..NumInsts /\ dep1[n] < n
        /\ dep2[n] # Entry => dep2[n] \in 1..NumInsts /\ dep2[n] < n
        /\ depth[n] \in Nat
    <3>1. dep1[n] \in 0..(n-1) /\ dep2[n] \in 0..(n-1) /\ NumInsts \in Nat
      BY <1>0 DEF Graph
    <3> QED BY <3>1, DepthFacts DEF Node, Entry
  <2> HIDE DEF T
  <2>3. ASSUME NEW S \in Chains, LastOf(S, n)
        PROVE  Weight(Costs, S \ {n}) <= depth[n]
    <3> DEFINE R == S \ {n}
    <3>1. R \in Chains
      BY <1>0, <2>3, ChainShorter
    <3>2. CASE R = {}
      <4>1. Weight(Costs, R) = 0
        BY <3>2, WeightEmpty
      <4> QED BY <2>2, <4>1
    <3>3. CASE R # {}
      <4> DEFINE m == Max(R)
      <4>1. m \in 1..NumInsts /\ LastOf(R, m)
        BY <1>0, <3>1, <3>3, LastOfChain
      <4>2. m = Max({j \in S : j < n})
        <5>1. ASSUME NEW j \in S PROVE j # n <=> j < n
          <6>1. j \in Nat /\ n \in Nat /\ j <= n
            BY <2>3 DEF LastOf, Chains
          <6> QED BY <6>1
        <5>2. R = {j \in S : j < n}
          BY <5>1
        <5> QED BY <5>2
      <4>3. m \in R
        BY <4>1 DEF LastOf
      <4> HIDE DEF R, m
      <4>4. m \in S /\ m # n
        BY <4>3 DEF R
      <4>5. m < n
        BY <2>3, <4>1, <4>4 DEF LastOf
      <4>6. m \in Producers(n)
        <5>1. n \in S
          BY <2>3 DEF LastOf
        <5> QED BY <4>2, <4>4, <4>5, <5>1 DEF Chains
      <4>7. m = dep1[n] \/ m = dep2[n]
        <5>1. m # Entry
          BY <4>1 DEF Entry
        <5> QED BY <4>6, <5>1, ProducerFacts
      <4>8. depth[m] + Cycles(m) <= depth[n]
        BY <2>2, <4>1, <4>7, DepthFacts
      <4>9. Weight(Costs, R \ {m}) <= depth[m]
        BY <2>1, <3>1, <4>1, <4>5 DEF NoChainLonger
      <4>10. /\ Weight(Costs, R) = Weight(Costs, R \ {m}) + Cycles(m)
             /\ Weight(Costs, R \ {m}) \in Nat
        BY <3>1, <4>1, ChainWeight
      <4>11. depth[m] \in Nat /\ Cycles(m) \in Nat
        BY <4>1, DepthFacts
      <4>12. Weight(Costs, R) <= depth[n]
        BY <2>2, <4>8, <4>9, <4>10, <4>11
      <4> QED BY <4>12 DEF R
    <3> QED BY <3>2, <3>3
  <2>4. \E S \in Chains : LastOf(S, n) /\ Weight(Costs, S \ {n}) = depth[n]
    <3>1. CASE depth[n] = 0
      <4>1. {n} \in Chains /\ LastOf({n}, n) /\ {n} \ {n} = {}
        BY <1>0, ChainOfOne
      <4>2. Weight(Costs, {n} \ {n}) = 0
        BY <4>1, WeightEmpty
      <4> QED BY <3>1, <4>1, <4>2
    <3>2. CASE depth[n] # 0
      <4>1. PICK m \in {dep1[n], dep2[n]} : depth[n] = DepthOf(m) + Cycles(m)
        BY DepthFacts
      <4>2. m # Entry
        BY <3>2, <4>1 DEF DepthOf, Cycles
      <4>3. m \in 1..NumInsts /\ m < n
        BY <2>2, <4>1, <4>2
      <4>4. m \in Producers(n)
        BY <4>1, ProducerFacts
      <4>5. PICK C \in Chains : LastOf(C, m) /\ Weight(Costs, C \ {m}) = depth[m]
        BY <2>1, <4>3 DEF SomeChainAsLong
      <4> DEFINE S == C \cup {n}
      <4>6. S \in Chains
        BY <1>0, <4>3, <4>4, <4>5, ChainLonger
      <4>7. \A j \in C : j < n /\ j \in Nat
        BY <4>3, <4>5 DEF LastOf, Chains
      <4>8. LastOf(S, n) /\ S \ {n} = C
        BY <4>7 DEF LastOf
      <4>9. Weight(Costs, C) = depth[n]
        <5>1. Weight(Costs, C) = Weight(Costs, C \ {m}) + Cycles(m)
          BY <4>5, ChainWeight
        <5>2. DepthOf(m) = depth[m]
          BY <4>3, DepthFacts
        <5> QED BY <4>1, <4>5, <5>1, <5>2
      <4> HIDE DEF S
      <4> QED BY <4>6, <4>8, <4>9
    <3> QED BY <3>1, <3>2
  <2> QED BY <2>3, <2>4 DEF NoChainLonger, SomeChainAsLong
<1>2. Nat \subseteq T
  <2> HIDE DEF T
  <2> QED BY <1>1, CompleteInduction
<1> QED BY <1>2

LEMMA CriticalInv == TreeInv => DepthIsCriticalPath
<1> SUFFICES ASSUME TreeInv, Idle, NEW n \in 1..NumInsts
             PROVE  GetInstDepth(n) = CriticalPath(n)
  BY DEF DepthIsCriticalPath
<1>0. Shape /\ Writers /\ Timed /\ Connected /\ Graph
  BY DEF TreeInv, Shape
<1>1. ~InLoop
  BY DEF Idle, InLoop
<1>2. GetInstDepth(n) = depth[n]
  <2>1. Found(n)
    BY <1>0, <1>1, ConnectedIsComplete, AllFound
  <2> QED BY <2>1 DEF GetInstDepth
<1> DEFINE Ds == {Duration(S \ {n}) : S \in {C \in Chains : n \in C /\ Max(C) = n}}
<1>3. NoChainLonger(n) /\ SomeChainAsLong(n)
  BY <1>0, ChainsAndDepths
<1>4. ASSUME NEW S \in Chains
      PROVE  /\ n \in S /\ Max(S) = n <=> LastOf(S, n)
             /\ LastOf(S, n) => /\ Duration(S \ {n}) = Weight(Costs, S \ {n})
                                /\ Duration(S \ {n}) \in Nat
  <2>1. LastOf(S, n) => Max(S) = n
    <3>1. S \subseteq Nat
      BY DEF Chains
    <3> QED BY <3>1, MaxIs DEF LastOf
  <2>2. n \in S /\ Max(S) = n => LastOf(S, n)
    BY <1>0, LastOfChain
  <2>3. S \ {n} \in SUBSET (1..NumInsts)
    BY DEF Chains
  <2>4. Duration(S \ {n}) = Weight(Costs, S \ {n})
    BY <1>0, <2>3, DurationIsWeight
  <2>5. LastOf(S, n) => Weight(Costs, S \ {n}) \in Nat
    BY <1>0, ChainWeight
  <2> QED BY <2>1, <2>2, <2>4, <2>5 DEF LastOf
<1>5. \A d \in Ds : d \in Nat /\ depth[n] >= d
  <2> SUFFICES ASSUME NEW S \in Chains, n \in S, Max(S) = n
               PROVE  Duration(S \ {n}) \in Nat /\ depth[n] >= Duration(S \ {n})
    OBVIOUS
  <2>1. Duration(S \ {n}) \in Nat /\ Duration(S \ {n}) <= depth[n]
    BY <1>3, <1>4 DEF NoChainLonger
  <2>2. depth[n] \in Nat
    BY <1>0, DepthFacts
  <2> QED BY <2>1, <2>2
<1>6. depth[n] \in Ds
  <2>1. PICK S \in Chains : LastOf(S, n) /\ Weight(Costs, S \ {n}) = depth[n]
    BY <1>3 DEF SomeChainAsLong
  <2>2. S \in {C \in Chains : n \in C /\ Max(C) = n} /\ Duration(S \ {n}) = depth[n]
    BY <1>4, <2>1
  <2> QED BY <2>2
<1> HIDE DEF Ds
<1>7. Max(Ds) = depth[n]
  <2>1. Ds \subseteq Nat
    BY <1>5
  <2> QED BY <1>5, <1>6, <2>1, MaxIs
<1> QED BY <1>2, <1>7 DEF CriticalPath, Ds

LEMMA LongestInv == TreeInv => ProgDepthIsLongestPath
<1> SUFFICES ASSUME TreeInv, Idle
             PROVE  maxDepth = Max({Duration(S) : S \in Chains})
  BY DEF ProgDepthIsLongestPath, GetProgDepth
<1>0. Shape /\ Writers /\ Timed /\ Graph /\ maxDepth \in Nat
  BY DEF TreeInv, Shape
<1> DEFINE Ds == {Duration(S) : S \in Chains}
<1>1. {} \in Chains /\ Duration({}) = 0
  <2>1. {} \in Chains
    BY DEF Chains
  <2>2. {} \in SUBSET (1..NumInsts)
    OBVIOUS
  <2>3. Duration({}) = Weight(Costs, {})
    BY <1>0, <2>2, DurationIsWeight
  <2> QED BY <2>1, <2>3, WeightEmpty
<1>2. ASSUME NEW S \in Chains
      PROVE  Duration(S) = Weight(Costs, S)
  <2>1. S \in SUBSET (1..NumInsts)
    BY DEF Chains
  <2> QED BY <1>0, <2>1, DurationIsWeight
<1>3. ASSUME NEW S \in Chains
      PROVE  Duration(S) \in Nat /\ maxDepth >= Duration(S)
  <2>1. CASE S = {}
    BY <1>0, <1>1, <2>1
  <2>2. CASE S # {}
    <3>1. PICK n : n \in 1..NumInsts /\ LastOf(S, n)
      BY <1>0, <2>2, LastOfChain
    <3>2. /\ Weight(Costs, S) = Weight(Costs, S \ {n}) + Cycles(n)
          /\ Weight(Costs, S) \in Nat /\ Weight(Costs, S \ {n}) \in Nat
      BY <1>0, <3>1, ChainWeight
    <3>3. Weight(Costs, S \ {n}) <= depth[n]
      BY <1>0, <3>1, ChainsAndDepths DEF NoChainLonger
    <3>4. depth[n] + Cycles(n) <= maxDepth /\ depth[n] \in Nat /\ Cycles(n) \in Nat
      BY <1>0, <3>1, DepthFacts DEF Timed
    <3> QED BY <1>0, <1>2, <3>2, <3>3, <3>4
  <2> QED BY <2>1, <2>2
<1>4. maxDepth \in Ds
  <2>1. CASE maxDepth = 0
    BY <1>1, <2>1
  <2>2. CASE \E n \in 1..NumInsts : maxDepth = depth[n] + Cycles(n)
    <3>1. PICK n \in 1..NumInsts : maxDepth = depth[n] + Cycles(n)
      BY <2>2
    <3>2. PICK S \in Chains : LastOf(S, n) /\ Weight(Costs, S \ {n}) = depth[n]
      BY <1>0, ChainsAndDepths DEF SomeChainAsLong
    <3>3. Weight(Costs, S) = maxDepth
      BY <1>0, <3>1, <3>2, ChainWeight
    <3> QED BY <1>2, <3>3
  <2> QED BY <1>0, <2>1, <2>2 DEF Timed
<1>5. Ds \subseteq Nat /\ \A d \in Ds : maxDepth >= d
  BY <1>3
<1> HIDE DEF Ds
<1>6. Max(Ds) = maxDepth
  BY <1>4, <1>5, MaxIs
<1> QED BY <1>6 DEF Ds

-----------------------------------------------------------------------------
(***************************************************************************)
(* The graph that add_inst builds has no cycles and holds numbers and      *)
(* instructions only, and the exit array never holds more than fits.       *)
(***************************************************************************)
THEOREM TreeTyped == Spec => []TypeOK
  BY GraphAlways, TypeInv, PTL

(***************************************************************************)
(* getInstDeps gives the last writers of both source registers, for every  *)
(* instruction of the trace, although the searches of add_inst only follow *)
(* pointers: no instruction is lost when the exit node lets go of it.      *)
(***************************************************************************)
THEOREM LastWritersAnswered == Spec => []AnswersLastWriters
<1>1. GraphInv => AnswersLastWriters
  BY AnswersInv DEF GraphInv
<1> QED BY <1>1, GraphAlways, PTL

(***************************************************************************)
(* getInstDepth gives the duration of the longest of all the chains of     *)
(* dependencies that end before the instruction.                           *)
(***************************************************************************)
THEOREM DepthsAreCriticalPaths == Spec => []DepthIsCriticalPath
<1>1. GraphInv => DepthIsCriticalPath
  BY CriticalInv DEF GraphInv
<1> QED BY <1>1, GraphAlways, PTL

(***************************************************************************)
(* getProgDepth gives the duration of the longest chain of all.            *)
(***************************************************************************)
THEOREM ProgDepthIsLongest == Spec => []ProgDepthIsLongestPath
<1>1. GraphInv => ProgDepthIsLongestPath
  BY LongestInv DEF GraphInv
<1> QED BY <1>1, GraphAlways, PTL

(***************************************************************************)
(* Between two instructions the exit array holds the leaves, although the  *)
(* loop of add_inst removes slots of the array while it goes through it.   *)
(***************************************************************************)
THEOREM ExitNodesAreLeaves == Spec => []ExitDepsAreLeaves
<1>1. GraphInv => ExitDepsAreLeaves
  BY LeavesInv DEF GraphInv
<1> QED BY <1>1, GraphAlways, PTL

(***************************************************************************)
(* freeProgCtx frees every instruction, and none of them twice, however    *)
(* many paths lead to it.                                                  *)
(***************************************************************************)
THEOREM EveryNodeFreedOnce == Spec => []FreesEveryNodeOnce
<1>1. GraphInv => FreesEveryNodeOnce
  BY DEF GraphInv, Freed
<1> QED BY <1>1, GraphAlways, PTL

-----------------------------------------------------------------------------
\* The buffers of main: at most full.
FileBuffers ==
  /\ numOps \in 0 .. MaxOps
  /\ progBuf \in Seq(InstLine)
  /\ maxInsts \in Nat /\ Len(progBuf) <= maxInsts

\* The exit array, at most full as well: its loop never counts from a slot
\* before the first.
ExitArray ==
  /\ insts \in Seq(InstLine)
  /\ deps \in Seq(Nat)
  /\ size \in Nat \ {0} /\ Len(deps) <= size
  /\ i \in Nat \ {0}

BuffersInv == FileBuffers /\ ExitArray

-----------------------------------------------------------------------------
\* The exit array.

LEMMA RemoveAtType ==
  ASSUME NEW d \in Seq(Nat), NEW s \in 1 .. Len(d)
  PROVE  RemoveAt(d, s) \in Seq(Nat) /\ Len(RemoveAt(d, s)) = Len(d) - 1
<1>1. /\ SubSeq(d, 1, s - 1) \in Seq(Nat) /\ Len(SubSeq(d, 1, s - 1)) = s - 1
      /\ SubSeq(d, s + 1, Len(d)) \in Seq(Nat)
      /\ Len(SubSeq(d, s + 1, Len(d))) = Len(d) - s
  OBVIOUS
<1>2. ASSUME NEW a \in Seq(Nat), NEW b \in Seq(Nat)
      PROVE  a \o b \in Seq(Nat) /\ Len(a \o b) = Len(a) + Len(b)
  OBVIOUS
<1> DEFINE before == SubSeq(d, 1, s - 1)
           behind == SubSeq(d, s + 1, Len(d))
<1>3. RemoveAt(d, s) = before \o behind
  BY DEF RemoveAt
<1>4. (before \o behind) \in Seq(Nat) /\ Len(before \o behind) = Len(before) + Len(behind)
  <2> HIDE DEF before, behind
  <2>1. before \in Seq(Nat) /\ behind \in Seq(Nat)
    BY <1>1 DEF before, behind
  <2> QED BY <1>2, <2>1
<1>5. Len(d) \in Nat /\ s \in Int
  OBVIOUS
<1> HIDE DEF before, behind
<1>6. Len(before) = s - 1 /\ Len(behind) = Len(d) - s
  BY <1>1 DEF before, behind
<1> QED BY <1>3, <1>4, <1>5, <1>6

\* Taking a node out of the array never makes it longer, not even in a full
\* one, where the last slot keeps what it held.
LEMMA WithoutType ==
  ASSUME NEW d \in Seq(Nat), NEW s \in Nat \ {0}, NEW n
  PROVE  Without(d, s, n) \in Seq(Nat) /\ Len(Without(d, s, n)) <= Len(d)
<1>1. CASE s <= Len(d)
  <2>1. RemoveAt(d, s) \in Seq(Nat) /\ Len(RemoveAt(d, s)) = Len(d) - 1
    BY <1>1, RemoveAtType
  <2>2. Last(d) \in Nat
    BY <1>1 DEF Last
  <2>3. /\ Append(RemoveAt(d, s), Last(d)) \in Seq(Nat)
        /\ Len(Append(RemoveAt(d, s), Last(d))) = Len(d)
    BY <2>1, <2>2
  <2> QED BY <2>1, <2>3 DEF Without, Shifted
<1>2. CASE ~(s <= Len(d))
  BY <1>2 DEF Without
<1> QED BY <1>1, <1>2

LEMMA DisconnectArray == ExitArray /\ Disconnect => ExitArray'
<1> SUFFICES ASSUME ExitArray, Disconnect PROVE ExitArray'
  OBVIOUS
<1> DEFINE once  == Without(deps, i, dep1[NumInsts])
           twice == Without(once, i, dep2[NumInsts])
<1>1. once \in Seq(Nat) /\ Len(once) <= Len(deps)
  BY WithoutType DEF ExitArray
<1>2. twice \in Seq(Nat) /\ Len(twice) <= Len(once)
  <2> HIDE DEF once
  <2> QED BY <1>1, WithoutType DEF ExitArray
<1>3. deps' = twice /\ i' \in {i, i + 1} /\ insts' = insts /\ size' = size
  BY DEF Disconnect
<1> HIDE DEF once, twice
<1> QED BY <1>1, <1>2, <1>3 DEF ExitArray

\* A full array is doubled before the next instruction goes in.
LEMMA ConnectArray == ExitArray /\ Connect => ExitArray'
<1> SUFFICES ASSUME ExitArray, Connect PROVE ExitArray'
  OBVIOUS
<1>1. NumInsts \in Nat
  BY DEF NumInsts, ExitArray
<1>2. /\ deps' = Append(deps, NumInsts) /\ size' = Grown
      /\ insts' = insts /\ i' = i
  BY DEF Connect
<1>3. deps' \in Seq(Nat) /\ Len(deps') = Len(deps) + 1
  BY <1>1, <1>2 DEF ExitArray
<1>4. size' \in Nat \ {0} /\ Len(deps) + 1 <= size'
  BY <1>2 DEF Grown, ExitArray
<1> QED BY <1>2, <1>3, <1>4 DEF ExitArray

-----------------------------------------------------------------------------
\* The steps of main.

LEMMA OpLineBuffers == BuffersInv /\ OpLine => BuffersInv'
<1> SUFFICES ASSUME BuffersInv, OpLine PROVE BuffersInv'
  OBVIOUS
<1>1. numOps' \in 0 .. MaxOps
  BY DflowMainAssumption DEF OpLine, OpsFull, BuffersInv, FileBuffers
<1>2. UNCHANGED <<progBuf, maxInsts, insts, deps, size, i>>
  BY DEF OpLine
<1> QED BY <1>1, <1>2 DEF BuffersInv, FileBuffers, ExitArray

\* There is a free slot when a line is looked at, so that one instruction
\* more fits.
LEMMA ProgLineBuffers == BuffersInv /\ ProgLine => BuffersInv'
<1> SUFFICES ASSUME BuffersInv, ProgLine PROVE BuffersInv'
  OBVIOUS
<1>1. maxInsts' \in Nat /\ Len(progBuf) + 1 <= maxInsts'
  BY DflowMainAssumption DEF ProgLine, Room, BuffersInv, FileBuffers
<1>2. progBuf' = progBuf \/ \E l \in InstLine : progBuf' = Append(progBuf, l)
  BY DEF ProgLine
<1>3. progBuf' \in Seq(InstLine) /\ Len(progBuf') <= Len(progBuf) + 1
  BY <1>2 DEF BuffersInv, FileBuffers
<1>4. UNCHANGED <<numOps, insts, deps, size, i>>
  BY DEF ProgLine, vars
<1>5. Len(progBuf') <= maxInsts'
  BY <1>1, <1>3 DEF BuffersInv, FileBuffers
<1> QED BY <1>1, <1>3, <1>4, <1>5 DEF BuffersInv, FileBuffers, ExitArray

LEMMA AnalyzeBuffers == BuffersInv /\ Analyze => BuffersInv'
<1> SUFFICES ASSUME BuffersInv, Analyze PROVE BuffersInv'
  OBVIOUS
<1>1. FileBuffers'
  BY DEF Analyze, buffers, BuffersInv, FileBuffers
<1>2. CASE NumInsts < Len(progBuf) /\ AddInst(progBuf[NumInsts + 1])
  <2>1. progBuf[NumInsts + 1] \in InstLine
    BY <1>2 DEF NumInsts, BuffersInv, FileBuffers, ExitArray
  <2>2. /\ insts' = Append(insts, progBuf[NumInsts + 1]) /\ i' = 1
        /\ UNCHANGED <<deps, size>>
    BY <1>2 DEF AddInst
  <2> QED BY <1>1, <2>1, <2>2 DEF BuffersInv, ExitArray
<1>3. CASE Disconnect
  BY <1>1, <1>3, DisconnectArray DEF BuffersInv
<1>4. CASE LeaveLoop
  BY <1>1, <1>4 DEF LeaveLoop, BuffersInv, ExitArray
<1>5. CASE Connect
  BY <1>1, <1>5, ConnectArray DEF BuffersInv
<1> QED BY <1>2, <1>3, <1>4, <1>5 DEF Analyze

\* The other steps touch no buffer.
LEMMA OtherBuffers ==
  ASSUME BuffersInv,
         \/ CannotOpen \/ OpsRead \/ NoMemory \/ ProgRead
         \/ Analyzed \/ AskQuery \/ Finish \/ Exited \/ UNCHANGED mainVars
  PROVE  BuffersInv'
<1>1. UNCHANGED <<numOps, progBuf, maxInsts, insts, deps, size, i>>
  BY DEF CannotOpen, OpsRead, NoMemory, ProgRead, Analyzed, Return, AskQuery,
         Finish, FreeProgCtx, Exited, mainVars, buffers, vars
<1> QED BY <1>1 DEF BuffersInv, FileBuffers, ExitArray

LEMMA InitBuffers == MainInit => BuffersInv
<1> SUFFICES ASSUME MainInit PROVE BuffersInv
  OBVIOUS
<1>1. FileBuffers
  BY DflowMainAssumption DEF MainInit, FileBuffers
<1>2. ExitArray
  BY DepTreeAssumption DEF MainInit, Start, ExitArray, Entry
<1> QED BY <1>1, <1>2 DEF BuffersInv

LEMMA StepBuffers == BuffersInv /\ [MainNext]_mainVars => BuffersInv'
<1> SUFFICES ASSUME BuffersInv, [MainNext]_mainVars PROVE BuffersInv'
  OBVIOUS
<1>1. CASE OpLine
  BY <1>1, OpLineBuffers
<1>2. CASE ProgLine
  BY <1>2, ProgLineBuffers
<1>3. CASE Analyze
  BY <1>3, AnalyzeBuffers
<1>4. CASE \/ CannotOpen \/ OpsRead \/ NoMemory \/ ProgRead
           \/ Analyzed \/ AskQuery \/ Finish \/ Exited \/ UNCHANGED mainVars
  BY <1>4, OtherBuffers
<1> QED BY <1>1, <1>2, <1>3, <1>4 DEF MainNext

(***************************************************************************)
(* The three buffers that the program of HW3 fills without asking their    *)
(* size at the write itself, the program buffer, the table of latencies    *)
(* and the exit array, are never exceeded: the checks that come before     *)
(* leave room for one entry more.                                          *)
(***************************************************************************)
THEOREM BuffersNeverOverflow == MainSpec => []BuffersSuffice
<1>1. BuffersInv => BuffersSuffice
  BY DEF BuffersInv, FileBuffers, ExitArray, BuffersSuffice
<1> QED BY <1>1, InitBuffers, StepBuffers, PTL DEF MainSpec

-----------------------------------------------------------------------------
(***************************************************************************)
(* What is kept of a sequence, when one element is added to it.            *)
(***************************************************************************)
Kept(P, kept, x) == IF x \in P THEN Append(kept, x) ELSE kept

KeepIs(f, P, seq) ==
  f = [s \in SUBSET (DOMAIN seq) |->
         IF s = {} THEN <<>> ELSE Kept(P, f[s \ {Max(s)}], seq[Max(s)])]

KeepsBy(f, P, seq) ==
  /\ Keep(P, seq) = f[1..Len(seq)]
  /\ f[1..0] = <<>>
  /\ \A j \in 1..Len(seq) : f[1..j] = Kept(P, f[1..(j-1)], seq[j])

LEMMA KeepUnfolds ==
  ASSUME NEW V, NEW P, NEW seq \in Seq(V)
  PROVE  \E f : KeepsBy(f, P, seq)
<1> DEFINE n == Len(seq)
           S == Seq(V)
           F == [j \in 1..n |-> [v \in S |-> Kept(P, v, seq[j])]]
<1>0. n \in Nat /\ DOMAIN seq = 1..n /\ \A s \in 1..n : seq[s] \in V
  OBVIOUS
<1>1. Keep(P, seq) = (CHOOSE f : KeepIs(f, P, seq))[DOMAIN seq]
  BY DEF Keep, Kept, KeepIs, FoldLeft, MapThenFoldSet
<1>2. \E f : KeepIs(f, P, seq)
  <2>0. \A v \in S, x \in V : Kept(P, v, x) \in S
    BY DEF Kept
  <2>1. F \in [1..n -> [S -> S]]
    <3> HIDE DEF S
    <3> QED BY <1>0, <2>0
  <2>2. \E f \in [SUBSET (1..n) -> S] : IsFold(f, n, <<>>, F)
    <3>1. <<>> \in S
      OBVIOUS
    <3> HIDE DEF F, S
    <3> QED BY <2>1, <3>1, <1>0, FoldExists
  <2>3. PICK f \in [SUBSET (1..n) -> S] : IsFold(f, n, <<>>, F)
    <3> HIDE DEF F, S
    <3> QED BY <2>2
  <2> HIDE DEF S
  <2>4. ASSUME NEW s \in SUBSET (1..n)
        PROVE  f[s] = IF s = {} THEN <<>> ELSE Kept(P, f[s \ {Max(s)}], seq[Max(s)])
    <3>1. s # {} => Max(s) \in 1..n /\ f[s \ {Max(s)}] \in S
      BY <1>0, MaxOfSubset
    <3>2. f[s] = IF s = {} THEN <<>> ELSE F[Max(s)][f[s \ {Max(s)}]]
      <4> HIDE DEF F
      <4> QED BY <2>3 DEF IsFold
    <3> QED BY <3>1, <3>2
  <2>5. f = [s \in SUBSET (1..n) |-> f[s]]
    OBVIOUS
  <2>6. KeepIs(f, P, seq)
    BY <2>4, <2>5, <1>0 DEF KeepIs
  <2> QED BY <2>6
<1>3. PICK f : KeepIs(f, P, seq) /\ Keep(P, seq) = f[1..n]
  BY <1>0, <1>1, <1>2
<1>4. \A s \in SUBSET (1..n) :
        f[s] = IF s = {} THEN <<>> ELSE Kept(P, f[s \ {Max(s)}], seq[Max(s)])
  BY <1>0, <1>3 DEF KeepIs
<1>5. f[1..0] = <<>>
  <2> HIDE DEF n
  <2> QED BY <1>0, <1>4, Segments
<1>6. ASSUME NEW j \in 1..n
      PROVE  f[1..j] = Kept(P, f[1..(j-1)], seq[j])
  <2> HIDE DEF n
  <2>1. 1..j \in SUBSET (1..n) /\ 1..j # {} /\ Max(1..j) = j /\ (1..j) \ {j} = 1..(j-1)
    BY <1>0, Segments
  <2> QED BY <1>4, <2>1
<1>7. KeepsBy(f, P, seq)
  BY <1>3, <1>5, <1>6 DEF KeepsBy
<1> QED BY <1>7

LEMMA KeepEmpty ==
  ASSUME NEW P
  PROVE  Keep(P, <<>>) = <<>>
<1>1. <<>> \in Seq({}) /\ Len(<<>>) = 0
  OBVIOUS
<1>2. PICK f : KeepsBy(f, P, <<>>)
  BY <1>1, KeepUnfolds
<1> QED BY <1>1, <1>2 DEF KeepsBy

LEMMA KeepAppend ==
  ASSUME NEW V, NEW P, NEW seq \in Seq(V), NEW x \in V
  PROVE  /\ Keep(P, seq) \in Seq(V)
         /\ Keep(P, Append(seq, x)) = Kept(P, Keep(P, seq), x)
<1> DEFINE n == Len(seq)
           long == Append(seq, x)
<1>0. /\ n \in Nat /\ long \in Seq(V) /\ Len(long) = n + 1
      /\ \A j \in 1..n : long[j] = seq[j] /\ seq[j] \in V
      /\ long[n + 1] = x
  OBVIOUS
<1> HIDE DEF long
<1>a. PICK f : KeepsBy(f, P, seq)
  BY KeepUnfolds
<1>b. PICK g : KeepsBy(g, P, long)
  BY <1>0, KeepUnfolds
<1>1. /\ Keep(P, seq) = f[1..n]
      /\ f[1..0] = <<>>
      /\ \A j \in 1..n : f[1..j] = Kept(P, f[1..(j-1)], seq[j])
  BY <1>a DEF KeepsBy
<1>2. /\ Keep(P, long) = g[1..Len(long)]
      /\ g[1..0] = <<>>
      /\ \A j \in 1..Len(long) : g[1..j] = Kept(P, g[1..(j-1)], long[j])
  BY <1>b DEF KeepsBy
<1> DEFINE T == {j \in Nat : j <= n => f[1..j] = g[1..j] /\ f[1..j] \in Seq(V)}
<1>3. 0 \in T
  <2>1. f[1..0] = <<>> /\ g[1..0] = <<>> /\ <<>> \in Seq(V)
    BY <1>1, <1>2
  <2> QED BY <2>1
<1>4. ASSUME NEW j \in Nat, j \in T PROVE j + 1 \in T
  <2> SUFFICES ASSUME j + 1 <= n
               PROVE  f[1..(j+1)] = g[1..(j+1)] /\ f[1..(j+1)] \in Seq(V)
    OBVIOUS
  <2>1. j + 1 \in 1..n /\ j + 1 \in 1..Len(long) /\ (j + 1) - 1 = j /\ j <= n
    BY <1>0
  <2>2. f[1..j] = g[1..j] /\ f[1..j] \in Seq(V)
    BY <1>4, <2>1
  <2>3. long[j+1] = seq[j+1] /\ seq[j+1] \in V
    BY <1>0, <2>1
  <2>4. f[1..(j+1)] = Kept(P, f[1..j], seq[j+1]) /\ g[1..(j+1)] = Kept(P, g[1..j], long[j+1])
    BY <1>1, <1>2, <2>1
  <2>5. Kept(P, f[1..j], seq[j+1]) \in Seq(V)
    BY <2>2, <2>3 DEF Kept
  <2> QED BY <2>2, <2>3, <2>4, <2>5
<1>5. f[1..n] = g[1..n] /\ f[1..n] \in Seq(V)
  <2>1. n \in T
    <3> HIDE DEF T
    <3> QED BY <1>0, <1>3, <1>4, Induction
  <2> QED BY <1>0, <2>1
<1>6. g[1..(n+1)] = Kept(P, g[1..n], x)
  <2>1. n + 1 \in 1..Len(long) /\ (n + 1) - 1 = n
    BY <1>0
  <2> QED BY <1>0, <1>2, <2>1
<1>7. Keep(P, long) = Kept(P, Keep(P, seq), x) /\ Keep(P, seq) \in Seq(V)
  BY <1>0, <1>1, <1>2, <1>5, <1>6
<1> QED BY <1>7 DEF long

-----------------------------------------------------------------------------
(***************************************************************************)
(* When the graph is that of the program file and each opcode takes the    *)
(* cycles of its line, the depths are the starts of the instructions.      *)
(***************************************************************************)
Agrees ==
  /\ insts = Program /\ NumInsts # 0
  /\ \A n \in 1..NumInsts : CyclesOf(insts[n]) = Cycles(n)

EndOf(h, m) == IF m = 0 THEN 0 ELSE h[m] + CyclesOf(Program[m])
StartsIs(f) ==
  f = [n \in 0 .. Len(Program) |->
         IF n = 0 THEN 0
         ELSE Max({EndOf(f, WriterBefore(n, Program[n].src1)),
                   EndOf(f, WriterBefore(n, Program[n].src2))})]

LEMMA WriterBeforeIs ==
  Agrees => \A n, r : WriterBefore(n, r) = LastWriter(n, r)
  BY DEF Agrees, WriterBefore, LastWriter, Entry

LEMMA MaxOfTwo ==
  ASSUME NEW a \in Nat, NEW b \in Nat
  PROVE  Max({a, b}) = Later(a, b) /\ Max({b, a}) = Later(a, b)
<1>1. /\ {a, b} \subseteq Nat /\ Later(a, b) \in {a, b}
      /\ \A y \in {a, b} : Later(a, b) >= y
  BY DEF Later
<1>2. {b, a} = {a, b}
  OBVIOUS
<1> QED BY <1>1, <1>2, MaxIs

LEMMA StartIsDepth ==
  ASSUME Shape, Writers, Timed, Agrees, NEW n \in 1..NumInsts, NEW h,
         \A m \in 1..(n-1) : h[m] = depth[m]
  PROVE  Max({EndOf(h, WriterBefore(n, Program[n].src1)),
              EndOf(h, WriterBefore(n, Program[n].src2))}) = depth[n]
<1> DEFINE w1 == LastWriter(n, insts[n].src1)
           w2 == LastWriter(n, insts[n].src2)
           EndAt(m) == DepthOf(m) + Cycles(m)
<1>1. /\ WriterBefore(n, Program[n].src1) = w1
      /\ WriterBefore(n, Program[n].src2) = w2
  BY WriterBeforeIs DEF Agrees
<1>2. w1 \in 0..(n-1) /\ w2 \in 0..(n-1) /\ n \in Nat /\ n <= NumInsts /\ NumInsts \in Nat
  BY LastWriterWrites DEF Shape, Graph
<1>3. /\ dep1[n] = IF w1 = Entry THEN w2 ELSE w1
      /\ dep2[n] = IF w2 = Entry THEN w1 ELSE w2
      /\ depth[n] = Later(EndAt(dep1[n]), EndAt(dep2[n]))
  BY DEF Writers, Timed, StartAfter
<1> HIDE DEF w1, w2
<1>4. ASSUME NEW m \in 0..(n-1)
      PROVE  EndOf(h, m) = EndAt(m) /\ EndAt(m) \in Nat
  <2>1. CASE m = 0
    BY <2>1 DEF EndOf, DepthOf, Cycles, Entry
  <2>2. CASE m # 0
    <3>1. m \in 1..NumInsts /\ m \in 1..(n-1)
      BY <1>2, <2>2
    <3>2. h[m] = depth[m] /\ depth[m] = DepthOf(m) /\ depth[m] \in Nat /\ Cycles(m) \in Nat
      BY <3>1, DepthFacts
    <3>3. CyclesOf(Program[m]) = Cycles(m)
      BY <3>1 DEF Agrees
    <3> QED BY <2>2, <3>2, <3>3 DEF EndOf
  <2> QED BY <2>1, <2>2
<1>5. EndAt(Entry) = 0
  BY DEF DepthOf, Cycles
<1>6. Max({EndOf(h, w1), EndOf(h, w2)}) = Later(EndAt(w1), EndAt(w2))
  BY <1>2, <1>4, MaxOfTwo
<1>7. EndAt(w1) \in Nat /\ EndAt(w2) \in Nat
  BY <1>2, <1>4
<1> HIDE DEF EndAt
<1>8. Later(EndAt(w1), EndAt(w2)) = depth[n]
  <2>1. CASE w1 = Entry
    BY <1>3, <1>5, <1>7, <2>1 DEF Later
  <2>2. CASE w2 = Entry
    BY <1>3, <1>5, <1>7, <2>2 DEF Later
  <2>3. CASE w1 # Entry /\ w2 # Entry
    BY <1>3, <2>3
  <2> QED BY <2>1, <2>2, <2>3
<1> QED BY <1>1, <1>6, <1>8

LEMMA StartsAreDepths ==
  ASSUME Shape, Writers, Timed, Agrees
  PROVE  \A n \in 1..NumInsts : Starts[n] = depth[n]
<1> DEFINE N == NumInsts
<1>0. N \in Nat /\ Len(Program) = N
  BY DEF Shape, Graph, Agrees, NumInsts
<1>1. Starts = CHOOSE f : StartsIs(f)
  BY DEF Starts, StartsIs, EndOf
<1>2. \E f : StartsIs(f)
  <2> DEFINE g == [n \in 0..N |-> IF n = 0 THEN 0 ELSE depth[n]]
  <2>1. ASSUME NEW n \in 0..N
        PROVE  g[n] = IF n = 0 THEN 0
                      ELSE Max({EndOf(g, WriterBefore(n, Program[n].src1)),
                                EndOf(g, WriterBefore(n, Program[n].src2))})
    <3>1. CASE n = 0
      BY <3>1
    <3>2. CASE n # 0
      <4>1. n \in 1..N /\ \A m \in 1..(n-1) : g[m] = depth[m]
        BY <1>0, <3>2
      <4>2. g[n] = depth[n]
        BY <3>2
      <4> HIDE DEF g
      <4> QED BY <3>2, <4>1, <4>2, StartIsDepth
    <3> QED BY <3>1, <3>2
  <2>2. g = [n \in 0..N |-> g[n]]
    OBVIOUS
  <2> HIDE DEF g
  <2>3. StartsIs(g)
    BY <1>0, <2>1, <2>2 DEF StartsIs
  <2> QED BY <2>3
<1>3. StartsIs(Starts)
  BY <1>1, <1>2
<1> DEFINE T == {n \in Nat : n \in 1..N => Starts[n] = depth[n]}
<1>4. ASSUME NEW n \in Nat, \A m \in 0..(n-1) : m \in T
      PROVE  n \in T
  <2> SUFFICES ASSUME n \in 1..N PROVE Starts[n] = depth[n]
    OBVIOUS
  <2>1. \A m \in 1..(n-1) : Starts[m] = depth[m]
    <3> SUFFICES ASSUME NEW m \in 1..(n-1) PROVE Starts[m] = depth[m]
      OBVIOUS
    <3>1. m \in 0..(n-1) /\ m \in 1..N
      BY <1>0
    <3> QED BY <1>4, <3>1
  <2>2. n \in 0..Len(Program) /\ n # 0
    BY <1>0
  <2>3. Starts[n] = Max({EndOf(Starts, WriterBefore(n, Program[n].src1)),
                         EndOf(Starts, WriterBefore(n, Program[n].src2))})
    BY <1>3, <2>2 DEF StartsIs
  <2> QED BY <2>1, <2>3, StartIsDepth
<1>5. Nat \subseteq T
  <2> HIDE DEF T
  <2> QED BY <1>4, CompleteInduction
<1> QED BY <1>5

LEMMA LongestIsDepth ==
  ASSUME Shape, Writers, Timed, Agrees
  PROVE  maxDepth = LongestPath
<1> DEFINE Ds == {Starts[n] + CyclesOf(Program[n]) : n \in DOMAIN Program}
<1>0. DOMAIN Program = 1..NumInsts /\ NumInsts \in Nat /\ NumInsts # 0 /\ maxDepth \in Nat
  BY DEF Shape, Graph, Agrees, NumInsts
<1>1. ASSUME NEW n \in 1..NumInsts
      PROVE  /\ Starts[n] + CyclesOf(Program[n]) = depth[n] + Cycles(n)
             /\ depth[n] + Cycles(n) \in Nat
             /\ maxDepth >= depth[n] + Cycles(n)
  <2>1. Starts[n] = depth[n] /\ CyclesOf(Program[n]) = Cycles(n)
    BY StartsAreDepths DEF Agrees
  <2>2. depth[n] \in Nat /\ Cycles(n) \in Nat
    BY DepthFacts
  <2>3. depth[n] + Cycles(n) <= maxDepth
    BY DEF Timed
  <2> QED BY <1>0, <2>1, <2>2, <2>3
<1>2. Ds \subseteq Nat /\ \A d \in Ds : maxDepth >= d
  BY <1>0, <1>1
<1>3. maxDepth \in Ds
  <2>1. CASE \E n \in 1..NumInsts : maxDepth = depth[n] + Cycles(n)
    <3>1. PICK n \in 1..NumInsts : maxDepth = depth[n] + Cycles(n)
      BY <2>1
    <3>2. maxDepth = Starts[n] + CyclesOf(Program[n]) /\ n \in DOMAIN Program
      BY <1>0, <1>1, <3>1
    <3> QED BY <3>2
  <2>2. CASE maxDepth = 0
    <3>1. 1 \in 1..NumInsts
      BY <1>0
    <3>2. /\ depth[1] + Cycles(1) \in Nat /\ 0 >= depth[1] + Cycles(1)
          /\ Starts[1] + CyclesOf(Program[1]) = depth[1] + Cycles(1)
      BY <1>1, <2>2, <3>1
    <3>3. 0 = Starts[1] + CyclesOf(Program[1])
      BY <3>2
    <3> QED BY <1>0, <2>2, <3>1, <3>3
  <2> QED BY <2>1, <2>2 DEF Timed
<1> HIDE DEF Ds
<1>4. Max(Ds) = maxDepth
  BY <1>2, <1>3, MaxIs
<1> QED BY <1>4 DEF LongestPath, Ds

(***************************************************************************)
(* find_by_idx finds nothing but the instructions.                         *)
(***************************************************************************)
LEMMA OnlyInstsFound ==
  ASSUME Shape, NEW n, Found(n)
  PROVE  n \in 1..NumInsts
<1>0. Graph /\ deps \in Seq(Node)
  BY DEF Shape
<1> DEFINE H == CHOOSE h : HasIs(h, n)
           T == {m \in Nat : m \in Node => (H[m] => n \in 1..NumInsts)}
<1>1. Found(n) <=> \E s \in DOMAIN deps : H[deps[s]]
  BY DEF Found, HasIs
<1>2. HasIs(H, n)
  BY <1>0, HasExists
<1> HIDE DEF H
<1>3. \A m \in Node : H[m] = (m # Entry /\ (m = n \/ H[dep1[m]] \/ H[dep2[m]]))
  BY <1>2 DEF HasIs
<1>4. ASSUME NEW m \in Nat, \A k \in 0..(m-1) : k \in T
      PROVE  m \in T
  <2> SUFFICES ASSUME m \in Node, H[m] PROVE n \in 1..NumInsts
    OBVIOUS
  <2>1. m # Entry /\ (m = n \/ H[dep1[m]] \/ H[dep2[m]])
    BY <1>3, Zenon
  <2>2. /\ m \in 1..NumInsts
        /\ dep1[m] \in Node /\ dep1[m] \in 0..(m-1)
        /\ dep2[m] \in Node /\ dep2[m] \in 0..(m-1)
    BY <1>0, <2>1, NodeFacts DEF Graph
  <2>3. dep1[m] \in T /\ dep2[m] \in T
    BY <1>4, <2>2
  <2> QED BY <2>1, <2>2, <2>3
<1>5. Nat \subseteq T
  <2> HIDE DEF T
  <2> QED BY <1>4, CompleteInduction
<1>6. PICK s \in DOMAIN deps : H[deps[s]]
  BY <1>1
<1>7. deps[s] \in Node /\ deps[s] \in Nat
  BY <1>0, <1>6, NodeFacts
<1> QED BY <1>5, <1>6, <1>7

(***************************************************************************)
(* A query is answered as the two files say.                               *)
(***************************************************************************)
LEMMA AnswerIsExpected ==
  ASSUME TreeInv, Agrees, pc = "returned", NEW q \in Understood
  PROVE  Result(q) = Expected(q)
<1> DEFINE n == q.num + 1
<1>0. /\ Shape /\ Writers /\ Timed /\ Connected /\ Idle /\ ~InLoop
      /\ DOMAIN Program = 1..NumInsts
  BY DEF TreeInv, Idle, InLoop, Agrees, NumInsts, Shape
<1>1. NodeOf(q.num) = n
  BY DEF NodeOf
<1>2. Found(n) <=> n \in DOMAIN Program
  BY <1>0, ConnectedIsComplete, AllFound, OnlyInstsFound
<1>3. CASE n \notin DOMAIN Program
  BY <1>1, <1>2, <1>3 DEF Result, Expected
<1>4. CASE n \in DOMAIN Program
  <2>1. Result(q) = Answer(q) /\ n \in 1..NumInsts
    BY <1>0, <1>1, <1>2, <1>4 DEF Result
  <2>2. GetInstDepth(n) = Starts[n]
    BY <1>0, <1>2, <1>4, <2>1, StartsAreDepths DEF GetInstDepth
  <2>3. GetInstDeps(n) = <<WriterBefore(n, Program[n].src1), WriterBefore(n, Program[n].src2)>>
    <3>1. GetInstDeps(n) = <<LastWriter(n, insts[n].src1), LastWriter(n, insts[n].src2)>>
      BY <1>0, <2>1, AnswersInv DEF AnswersLastWriters
    <3> QED BY <3>1, WriterBeforeIs DEF Agrees
  <2> HIDE DEF n
  <2>4. Answer(q) = IF q.type = "p" THEN <<Starts[n]>>
                    ELSE <<WriterBefore(n, Program[n].src1) - 1,
                           WriterBefore(n, Program[n].src2) - 1>>
    BY <1>1, <2>2, <2>3 DEF Answer
  <2> QED BY <1>4, <2>1, <2>4 DEF Expected, n
<1> QED BY <1>3, <1>4

(***************************************************************************)
(* The answers to one query more.                                          *)
(***************************************************************************)
AnswersTo(qs) == << <<LongestPath>> >> \o [k \in DOMAIN qs |-> Expected(qs[k])]

LEMMA OneMore ==
  ASSUME NEW V, NEW W, NEW e \in [V -> W], NEW a \in W, NEW s \in Seq(V), NEW x \in V
  PROVE  <<a>> \o [k \in DOMAIN Append(s, x) |-> e[Append(s, x)[k]]]
           = Append(<<a>> \o [k \in DOMAIN s |-> e[s[k]]], e[x])
<1> DEFINE n == Len(s)
           l == Append(s, x)
           f == [k \in DOMAIN s |-> e[s[k]]]
           g == [k \in DOMAIN l |-> e[l[k]]]
           one == <<a>>
<1>1. /\ n \in Nat /\ DOMAIN s = 1..n /\ \A k \in 1..n : s[k] \in V
      /\ l \in Seq(V) /\ DOMAIN l = 1..(n+1)
      /\ \A k \in 1..n : l[k] = s[k]
      /\ l[n+1] = x
  OBVIOUS
<1> HIDE DEF l, n
<1>2. f \in Seq(W) /\ Len(f) = n /\ \A k \in 1..n : f[k] = e[s[k]]
  <2>1. f \in [1..n -> W]
    BY <1>1
  <2> QED BY <1>1, <2>1
<1>3. g \in Seq(W) /\ Len(g) = n + 1 /\ \A k \in 1..(n+1) : g[k] = e[l[k]]
  <2>1. \A k \in 1..(n+1) : l[k] \in V
    BY <1>1
  <2>2. g \in [1..(n+1) -> W]
    BY <1>1, <2>1
  <2> QED BY <1>1, <2>2
<1>4. one \in Seq(W) /\ Len(one) = 1 /\ one[1] = a /\ e[x] \in W
  OBVIOUS
<1> HIDE DEF f, g, one
<1>5. g = Append(f, e[x])
  <2>1. Append(f, e[x]) \in Seq(W) /\ Len(Append(f, e[x])) = n + 1
    BY <1>2, <1>4
  <2>2. ASSUME NEW k \in 1..(n+1) PROVE g[k] = Append(f, e[x])[k]
    <3>1. CASE k = n + 1
      BY <1>1, <1>2, <1>3, <1>4, <3>1
    <3>2. CASE k # n + 1
      <4>1. k \in 1..n
        BY <1>1, <3>2
      <4>2. Append(f, e[x])[k] = f[k]
        BY <1>2, <1>4, <4>1
      <4> QED BY <1>1, <1>2, <1>3, <4>1, <4>2
    <3> QED BY <3>1, <3>2
  <2> QED BY <1>3, <2>1, <2>2
<1>6. ASSUME NEW u \in Seq(W), NEW v \in Seq(W), NEW w \in W
      PROVE  u \o Append(v, w) = Append(u \o v, w)
  OBVIOUS
<1>7. one \o Append(f, e[x]) = Append(one \o f, e[x])
  BY <1>2, <1>4, <1>6
<1> QED BY <1>5, <1>7 DEF f, g, l, one

LEMMA AnswersToOneMore ==
  ASSUME NEW qs \in Seq(Query), NEW q \in Query
  PROVE  AnswersTo(Append(qs, q)) = Append(AnswersTo(qs), Expected(q))
<1> DEFINE e == [p \in Query |-> Expected(p)]
           W == {Expected(p) : p \in Query} \cup {<<LongestPath>>}
           l == Append(qs, q)
<1>1. e \in [Query -> W] /\ <<LongestPath>> \in W
  OBVIOUS
<1>2. /\ \A k \in DOMAIN qs : e[qs[k]] = Expected(qs[k])
      /\ \A k \in DOMAIN l : e[l[k]] = Expected(l[k])
      /\ e[q] = Expected(q)
  <2>1. \A k \in DOMAIN qs : qs[k] \in Query
    OBVIOUS
  <2>2. l \in Seq(Query)
    OBVIOUS
  <2>3. \A k \in DOMAIN l : l[k] \in Query
    BY <2>2
  <2> HIDE DEF l
  <2> QED BY <2>1, <2>3
<1> HIDE DEF e, W
<1>3. << <<LongestPath>> >> \o [k \in DOMAIN l |-> e[l[k]]]
        = Append(<< <<LongestPath>> >> \o [k \in DOMAIN qs |-> e[qs[k]]], e[q])
  BY <1>1, OneMore
<1> HIDE DEF l
<1>4. /\ [k \in DOMAIN qs |-> e[qs[k]]] = [k \in DOMAIN qs |-> Expected(qs[k])]
      /\ [k \in DOMAIN l |-> e[l[k]]] = [k \in DOMAIN l |-> Expected(l[k])]
  BY <1>2
<1>5. AnswersTo(l) = Append(AnswersTo(qs), Expected(q))
  BY <1>2, <1>3, <1>4 DEF AnswersTo
<1> QED BY <1>5 DEF l

-----------------------------------------------------------------------------
(***************************************************************************)
(* The invariant of main: what it has read is what the lines say, until it *)
(* exits with an error; the graph is built from the program buffer; and    *)
(* the queries are answered one by one.                                    *)
(***************************************************************************)
Lines ==
  /\ opLines \in Seq(Cycle \cup {Blank, Bad})
  /\ lines \in Seq(InstLine \cup {Blank, Bad})
  /\ queries \in Seq(Query)

OnLine(op) == IF op < Len(opLines) /\ opLines[op + 1] # Blank THEN opLines[op + 1] ELSE 0

Read ==
  /\ Bad \notin Range(lines) /\ Bad \notin Range(opLines)
  /\ numOps = Len(opLines)
  /\ progBuf = Program
  /\ opsLatency \in [Opcode -> Nat]
  /\ \A op \in Opcode : opsLatency[op] = OnLine(op)

ByStage ==
  /\ stage \in {"readOpsLatency", "readProgram", "analyzeProg", "queries", "exit"}
  /\ stage # "exit" => Read
  /\ stage \in {"readOpsLatency", "readProgram"} => Start
  /\ stage \in {"readOpsLatency", "readProgram", "analyzeProg"} =>
       printed = <<>> /\ queries = <<>>
  /\ stage = "analyzeProg" =>
       /\ progBuf # <<>> /\ NumInsts <= Len(progBuf)
       /\ \A n \in 1..NumInsts : insts[n] = progBuf[n]
  /\ stage = "queries" =>
       /\ pc = "returned" /\ insts = progBuf /\ progBuf # <<>>
       /\ Keep(Understood, queries) = queries
       /\ printed = AnswersTo(queries)
  /\ stage # "exit" => status = -1
  /\ stage = "exit" => AnswersAboutFiles

MainInv == GraphInv /\ BuffersInv /\ Lines /\ ByStage

LEMMA PrintedAnswers ==
  AnswersAboutFiles <=>
    LET asked == Keep(Understood, queries)
    IN  /\ printed # <<>> =>
             /\ Bad \notin Range(lines) /\ Bad \notin Range(opLines)
             /\ Len(opLines) <= MaxOps
             /\ printed = AnswersTo(asked)
        /\ status = 0 => printed # <<>> /\ asked = queries
  BY DEF AnswersAboutFiles, AnswersTo

LEMMA MainAnswers == MainInv => AnswersAboutFiles
<1> SUFFICES ASSUME MainInv PROVE AnswersAboutFiles
  OBVIOUS
<1>1. CASE stage = "exit"
  BY <1>1 DEF MainInv, ByStage
<1>2. CASE stage = "queries"
  <2>1. /\ Read /\ status = -1 /\ numOps <= MaxOps
        /\ Keep(Understood, queries) = queries /\ printed = AnswersTo(queries)
    BY <1>2, DflowMainAssumption DEF MainInv, ByStage, BuffersInv, FileBuffers
  <2> QED BY <2>1, PrintedAnswers DEF Read
<1>3. CASE stage \in {"readOpsLatency", "readProgram", "analyzeProg"}
  <2>1. printed = <<>> /\ status = -1
    BY <1>3 DEF MainInv, ByStage
  <2> QED BY <2>1, PrintedAnswers
<1> QED BY <1>1, <1>2, <1>3 DEF MainInv, ByStage

\* Leaving with nothing printed and an error.
LEMMA ErrorExit ==
  ASSUME printed' = <<>>, status' # 0
  PROVE  AnswersAboutFiles'
  BY DEF AnswersAboutFiles

LEMMA MainStart == MainInit => MainInv
<1> SUFFICES ASSUME MainInit PROVE MainInv
  OBVIOUS
<1>1. opsLatency \in [Opcode -> Nat]
  BY DEF MainInit
<1>2. Start /\ GraphInv /\ BuffersInv
  BY <1>1, StartInv, InitBuffers DEF MainInit
<1>3. /\ opLines = <<>> /\ lines = <<>> /\ queries = <<>> /\ printed = <<>>
      /\ progBuf = <<>> /\ numOps = 0 /\ status = -1 /\ stage = "readOpsLatency"
      /\ \A op \in Opcode : opsLatency[op] = 0
  BY DEF MainInit
<1>4. \A V : <<>> \in Seq(V)
  OBVIOUS
<1>5. Len(<<>>) = 0 /\ Range(<<>>) = {}
  <2>1. DOMAIN <<>> = {}
    OBVIOUS
  <2> QED BY <2>1 DEF Range
<1>6. Lines
  BY <1>3, <1>4 DEF Lines
<1>7. Read
  <2>1. Program = <<>>
    BY <1>3, KeepEmpty DEF Program
  <2>2. \A op \in Opcode : OnLine(op) = 0
    BY <1>3, <1>5, DflowMainAssumption DEF OnLine
  <2> QED BY <1>1, <1>3, <1>5, <2>1, <2>2 DEF Read
<1> QED BY <1>2, <1>3, <1>6, <1>7 DEF MainInv, ByStage

\* A line of the opcode file.
LEMMA OpLineInv == MainInv /\ OpLine => MainInv'
<1> SUFFICES ASSUME MainInv, OpLine PROVE MainInv'
  OBVIOUS
<1>0. /\ stage = "readOpsLatency" /\ Read /\ Start /\ Lines
      /\ printed = <<>> /\ queries = <<>> /\ status = -1
      /\ numOps \in Nat
  BY DflowMainAssumption DEF OpLine, MainInv, ByStage, BuffersInv, FileBuffers
<1>1. PICK l \in Cycle \cup {Blank, Bad} :
        /\ opLines' = Append(opLines, l)
        /\ IF OpsFull THEN Exit(1) /\ UNCHANGED <<numOps, opsLatency>>
           ELSE /\ numOps' = numOps + 1
                /\ opsLatency' =
                     [opsLatency EXCEPT ![numOps] = IF l \in Cycle THEN l ELSE 0]
                /\ IF l = Bad THEN Exit(1) ELSE UNCHANGED <<stage, talk>>
  BY DEF OpLine
<1>2. UNCHANGED <<lines, progBuf, maxInsts, insts, dep1, dep2, depth, deps,
                  size, maxDepth, i, pc, freed>>
  BY DEF OpLine
<1>3. BuffersInv'
  BY OpLineBuffers DEF MainInv
<1>4. opsLatency' \in [Opcode -> Nat]
  <2>1. (IF l \in Cycle THEN l ELSE 0) \in Nat
    BY DflowMainAssumption
  <2>2. opsLatency \in [Opcode -> Nat]
    BY <1>0 DEF Read
  <2> QED BY <1>1, <2>1, <2>2
<1>5. Start'
  BY <1>0, <1>2 DEF Start
<1>6. GraphInv'
  <2>1. (opsLatency \in [Opcode -> Nat])'
    BY <1>4
  <2> QED BY <1>5, <2>1, StartInv, PTL
<1>7. Lines' /\ queries' = <<>> /\ printed' = <<>>
  <2>1. queries' = queries /\ printed' = printed
    BY <1>1 DEF Exit, talk
  <2>2. opLines' \in Seq(Cycle \cup {Blank, Bad})
    BY <1>0, <1>1 DEF Lines
  <2> QED BY <1>0, <1>2, <2>1, <2>2 DEF Lines
<1>8. CASE OpsFull \/ l = Bad
  <2>1. stage' = "exit" /\ status' = 1
    BY <1>1, <1>8 DEF Exit
  <2>2. AnswersAboutFiles'
    BY <1>7, <2>1, ErrorExit
  <2> QED BY <1>3, <1>6, <1>7, <2>1, <2>2 DEF MainInv, ByStage
<1>9. CASE ~OpsFull /\ l # Bad
  <2>1. /\ numOps' = numOps + 1 /\ stage' = stage /\ status' = status
        /\ opsLatency' = [opsLatency EXCEPT ![numOps] = IF l \in Cycle THEN l ELSE 0]
    BY <1>1, <1>9 DEF talk
  <2>2. Read'
    <3> DEFINE V == Cycle \cup {Blank, Bad}
               N == Len(opLines)
    <3>0. opLines \in Seq(V) /\ l \in V /\ N = numOps
      BY <1>0 DEF Lines, Read
    <3> HIDE DEF V
    <3>1. /\ N \in Nat /\ Len(opLines') = N + 1
          /\ DOMAIN opLines = 1..N /\ DOMAIN opLines' = 1..(N + 1)
          /\ \A j \in 1..N : opLines'[j] = opLines[j]
          /\ opLines'[N + 1] = l
      BY <1>1, <3>0
    <3> HIDE DEF N
    <3>2. Bad \notin Range(opLines')
      <4> SUFFICES ASSUME NEW j \in 1..(N + 1) PROVE opLines'[j] # Bad
        BY <3>1 DEF Range
      <4>1. CASE j = N + 1
        BY <1>9, <3>1, <4>1
      <4>2. CASE j # N + 1
        <5>1. j \in 1..N
          BY <3>1, <4>2
        <5>2. opLines[j] \in Range(opLines)
          BY <3>1, <5>1 DEF Range
        <5> QED BY <1>0, <3>1, <5>1, <5>2 DEF Read
      <4> QED BY <4>1, <4>2
    <3>3. Program' = Program
      BY <1>2 DEF Program
    <3>4. ASSUME NEW op \in Opcode
          PROVE  opsLatency'[op] = OnLine(op)'
      <4>1. op \in Nat /\ N = Len(opLines)
        BY DflowMainAssumption DEF N
      <4>2. opsLatency[op] = OnLine(op) /\ opsLatency \in [Opcode -> Nat]
        BY <1>0 DEF Read
      <4>3. CASE op = N
        <5>1. opsLatency'[op] = IF l \in Cycle THEN l ELSE 0
          BY <2>1, <3>0, <4>2, <4>3
        <5>2. op < Len(opLines') /\ opLines'[op + 1] = l
          BY <3>1, <4>1, <4>3
        <5>3. l # Blank <=> l \in Cycle
          BY <1>9, DflowMainAssumption
        <5> QED BY <5>1, <5>2, <5>3 DEF OnLine
      <4>4. CASE op # N
        <5>1. opsLatency'[op] = opsLatency[op]
          BY <2>1, <3>0, <4>2, <4>4
        <5>n. N \in Nat /\ op \in Nat /\ op # N
          BY <3>1, <4>1, <4>4
        <5>2. op < N + 1 <=> op < N
          BY <5>n
        <5>3. op < N => op + 1 \in 1..N
          BY <3>1, <4>1
        <5>4. op < N => opLines'[op + 1] = opLines[op + 1]
          BY <3>1, <5>3
        <5>5. OnLine(op)' = OnLine(op)
          BY <3>1, <4>1, <5>2, <5>4 DEF OnLine
        <5> QED BY <4>2, <5>1, <5>5
      <4> QED BY <4>3, <4>4
    <3>5. progBuf' = Program' /\ Bad \notin Range(lines') /\ numOps' = Len(opLines')
      BY <1>0, <1>2, <2>1, <3>0, <3>1, <3>3 DEF Read
    <3> QED BY <1>4, <3>2, <3>4, <3>5 DEF Read
  <2> QED BY <1>0, <1>3, <1>5, <1>6, <1>7, <2>1, <2>2 DEF MainInv, ByStage
<1> QED BY <1>8, <1>9

\* main leaves with an error before anything is printed.
LEMMA ErrorInv ==
  ASSUME MainInv, stage \in {"readOpsLatency", "readProgram", "analyzeProg"},
         Exit(1), GraphInv', BuffersInv', Lines'
  PROVE  MainInv'
<1>1. printed' = <<>> /\ status' = 1 /\ stage' = "exit"
  BY DEF MainInv, ByStage, Exit
<1>2. AnswersAboutFiles'
  BY <1>1, ErrorExit
<1> QED BY <1>1, <1>2 DEF MainInv, ByStage

LEMMA SameGraph == MainInv /\ UNCHANGED vars => GraphInv'
<1> SUFFICES ASSUME MainInv, UNCHANGED vars PROVE GraphInv'
  OBVIOUS
<1> QED BY StepInv DEF MainInv

LEMMA SameRead ==
  ASSUME Read, UNCHANGED <<files, numOps, progBuf, opsLatency>>
  PROVE  Read'
<1>1. /\ opLines' = opLines /\ lines' = lines /\ numOps' = numOps
      /\ progBuf' = progBuf /\ opsLatency' = opsLatency
  BY DEF files
<1>2. Program' = Program /\ \A op : OnLine(op)' = OnLine(op)
  BY <1>1 DEF Program, OnLine
<1> QED BY <1>1, <1>2 DEF Read

\* The steps that end a file, or the program with it.
LEMMA FileEndInv ==
  MainInv /\ (CannotOpen \/ OpsRead \/ NoMemory \/ ProgRead) => MainInv'
<1> SUFFICES ASSUME MainInv, CannotOpen \/ OpsRead \/ NoMemory \/ ProgRead
             PROVE  MainInv'
  OBVIOUS
<1>1. /\ UNCHANGED <<files, buffers, vars>> /\ queries' = queries /\ printed' = printed
      /\ stage \in {"readOpsLatency", "readProgram"}
  BY DEF CannotOpen, OpsRead, NoMemory, ProgRead, Exit, talk
<1>2. GraphInv'
  BY <1>1, SameGraph
<1>3. BuffersInv'
  BY OtherBuffers DEF MainInv
<1>4. Lines'
  BY <1>1 DEF MainInv, Lines, files
<1>5. CASE Exit(1)
  BY <1>1, <1>2, <1>3, <1>4, <1>5, ErrorInv
<1>6. CASE ~Exit(1)
  <2>1. /\ \/ stage' = "readProgram"
           \/ stage' = "analyzeProg" /\ progBuf # <<>>
        /\ status' = status
    BY <1>6 DEF CannotOpen, OpsRead, NoMemory, ProgRead, talk
  <2>2. /\ Read /\ Start /\ printed = <<>> /\ queries = <<>> /\ status = -1
    BY <1>1 DEF MainInv, ByStage
  <2>3. UNCHANGED <<numOps, progBuf, opsLatency, insts, pc>>
    BY <1>1 DEF vars, buffers
  <2>4. Read'
    BY <1>1, <2>2, <2>3, SameRead
  <2>5. Start'
    BY <1>1, <2>2 DEF Start, vars
  <2>6. NumInsts' = 0 /\ 0 <= Len(progBuf')
    <3>1. NumInsts' = 0
      BY <2>5 DEF Start, NumInsts
    <3>2. progBuf' \in Seq(InstLine)
      BY <1>3 DEF BuffersInv, FileBuffers
    <3> QED BY <3>1, <3>2
  <2>7. \A n \in 1..NumInsts' : insts'[n] = progBuf'[n]
    BY <2>6
  <2> QED BY <1>1, <1>2, <1>3, <1>4, <2>1, <2>2, <2>3, <2>4, <2>5, <2>6, <2>7
          DEF MainInv, ByStage
<1> QED BY <1>5, <1>6

\* A line of the program file.
LEMMA ProgLineInv == MainInv /\ ProgLine => MainInv'
<1> SUFFICES ASSUME MainInv, ProgLine PROVE MainInv'
  OBVIOUS
<1> DEFINE V == InstLine \cup {Blank, Bad}
<1>0. /\ stage = "readProgram" /\ Read /\ Start /\ Lines
      /\ printed = <<>> /\ queries = <<>> /\ status = -1
  BY DEF ProgLine, MainInv, ByStage
<1>1. PICK l \in V :
        /\ lines' = Append(lines, l)
        /\ progBuf' = IF l \in InstLine THEN Append(progBuf, l) ELSE progBuf
        /\ IF l = Bad THEN Exit(1) ELSE UNCHANGED <<stage, talk>>
  BY DEF ProgLine
<1>2. UNCHANGED <<opLines, numOps, vars>>
  BY DEF ProgLine
<1>3. GraphInv' /\ BuffersInv'
  BY <1>2, SameGraph, ProgLineBuffers DEF MainInv
<1>4. lines \in Seq(V) /\ lines' \in Seq(V)
  BY <1>0, <1>1 DEF Lines
<1>5. Lines' /\ queries' = <<>> /\ printed' = <<>>
  <2>1. queries' = queries /\ printed' = printed
    BY <1>1 DEF Exit, talk
  <2> QED BY <1>0, <1>2, <1>4, <2>1 DEF Lines
<1>6. CASE l = Bad
  <2>1. Exit(1)
    BY <1>1, <1>6
  <2> QED BY <1>0, <1>3, <1>5, <2>1, ErrorInv
<1>7. CASE l # Bad
  <2>1. stage' = stage /\ status' = status
    BY <1>1, <1>7 DEF talk
  <2>2. Program' = progBuf'
    <3> HIDE DEF V
    <3>1. Program' = Kept(InstLine \cup {Bad}, Program, l)
      BY <1>1, <1>4, KeepAppend DEF Program
    <3>2. l \in InstLine \cup {Bad} <=> l \in InstLine
      BY <1>7
    <3> QED BY <1>0, <1>1, <3>1, <3>2 DEF Kept, Read
  <2>3. Bad \notin Range(lines')
    <3> DEFINE N == Len(lines)
    <3> HIDE DEF V
    <3>1. /\ N \in Nat /\ DOMAIN lines = 1..N /\ DOMAIN lines' = 1..(N + 1)
          /\ \A j \in 1..N : lines'[j] = lines[j]
          /\ lines'[N + 1] = l
      BY <1>1, <1>4
    <3> HIDE DEF N
    <3> SUFFICES ASSUME NEW j \in 1..(N + 1) PROVE lines'[j] # Bad
      BY <3>1 DEF Range
    <3>2. CASE j = N + 1
      BY <1>7, <3>1, <3>2
    <3>3. CASE j # N + 1
      <4>1. j \in 1..N
        BY <3>1, <3>3
      <4>2. lines[j] \in Range(lines)
        BY <3>1, <4>1 DEF Range
      <4> QED BY <1>0, <3>1, <4>1, <4>2 DEF Read
    <3> QED BY <3>2, <3>3
  <2>4. /\ opLines' = opLines /\ numOps' = numOps /\ opsLatency' = opsLatency
        /\ \A op : OnLine(op)' = OnLine(op)
    BY <1>2 DEF OnLine, vars
  <2>5. Read'
    BY <1>0, <2>2, <2>3, <2>4 DEF Read
  <2>6. Start'
    BY <1>0, <1>2 DEF Start, vars
  <2> QED BY <1>0, <1>3, <1>5, <2>1, <2>5, <2>6 DEF MainInv, ByStage
<1> QED BY <1>6, <1>7

\* The analysis takes the instructions out of the program buffer.
LEMMA AnalyzeInv == MainInv /\ Analyze => MainInv'
<1> SUFFICES ASSUME MainInv, Analyze PROVE MainInv'
  OBVIOUS
<1>0. /\ stage = "analyzeProg" /\ Read /\ Lines /\ printed = <<>> /\ queries = <<>>
      /\ status = -1 /\ progBuf # <<>> /\ NumInsts <= Len(progBuf)
      /\ \A n \in 1..NumInsts : insts[n] = progBuf[n]
      /\ insts \in Seq(Instruction) /\ NumInsts \in Nat
      /\ progBuf \in Seq(InstLine) /\ InstLine \subseteq Instruction
  BY DflowMainAssumption DEF Analyze, MainInv, ByStage, GraphInv, TreeInv, Shape, Graph,
     BuffersInv, FileBuffers
<1>1. UNCHANGED <<stage, files, buffers, talk>> /\ opsLatency' = opsLatency
  BY DEF Analyze, AddInst, Disconnect, LeaveLoop, Connect
<1>2. /\ stage' = stage /\ opLines' = opLines /\ lines' = lines
      /\ numOps' = numOps /\ progBuf' = progBuf
      /\ queries' = queries /\ printed' = printed /\ status' = status
  BY <1>1 DEF files, buffers, talk
<1>3. BuffersInv'
  BY AnalyzeBuffers DEF MainInv
<1>4. Lines' /\ Read'
  BY <1>0, <1>1, <1>2, SameRead DEF Lines
<1>5. CASE NumInsts < Len(progBuf) /\ AddInst(progBuf[NumInsts + 1])
  <2> DEFINE N == NumInsts
             inst == progBuf[N + 1]
  <2>1. inst \in Instruction /\ N + 1 <= Len(progBuf)
    <3>1. N + 1 \in 1..Len(progBuf)
      BY <1>0, <1>5
    <3> QED BY <1>0, <3>1
  <2>2. GraphInv'
    <3>1. Next
      BY <1>5, <2>1 DEF Next
    <3> QED BY <3>1, StepInv DEF MainInv
  <2>3. insts' = Append(insts, inst)
    BY <1>5 DEF AddInst
  <2> HIDE DEF inst
  <2>4. /\ NumInsts' = N + 1 /\ \A n \in 1..N : insts'[n] = insts[n]
        /\ insts'[N + 1] = inst
    BY <1>0, <2>1, <2>3 DEF NumInsts
  <2>5. \A n \in 1..(N + 1) : insts'[n] = progBuf[n]
    <3> SUFFICES ASSUME NEW n \in 1..(N + 1) PROVE insts'[n] = progBuf[n]
      OBVIOUS
    <3>1. n = N + 1 \/ n \in 1..N
      BY <1>0
    <3> QED BY <1>0, <2>4, <3>1 DEF inst
  <2> QED BY <1>0, <1>2, <1>3, <1>4, <2>1, <2>2, <2>4, <2>5 DEF MainInv, ByStage
<1>6. CASE Disconnect \/ LeaveLoop \/ Connect
  <2>1. GraphInv'
    BY <1>6, StepInv DEF MainInv, Next
  <2>2. insts' = insts /\ NumInsts' = NumInsts
    BY <1>6 DEF Disconnect, LeaveLoop, Connect, NumInsts
  <2> QED BY <1>0, <1>2, <1>3, <1>4, <2>1, <2>2 DEF MainInv, ByStage
<1> QED BY <1>5, <1>6 DEF Analyze

LEMMA GraphAgrees ==
  ASSUME MainInv, Read, insts = progBuf, progBuf # <<>>
  PROVE  Agrees
<1>1. insts = Program
  BY DEF Read
<1>2. insts \in Seq(Instruction) /\ opsLatency \in [Opcode -> Nat]
  BY DEF MainInv, GraphInv, TreeInv, Shape
<1>3. NumInsts # 0
  BY <1>2 DEF NumInsts
<1>4. ASSUME NEW n \in 1..NumInsts
      PROVE  CyclesOf(insts[n]) = Cycles(n)
  <2>1. insts[n] \in Instruction
    BY <1>2 DEF NumInsts
  <2>2. insts[n].op \in Opcode
    BY <2>1 DEF Instruction
  <2>3. opsLatency[insts[n].op] = OnLine(insts[n].op)
    BY <2>2 DEF Read
  <2>4. n # Entry
    BY DEF Entry
  <2> QED BY <2>3, <2>4 DEF CyclesOf, OnLine, Cycles
<1> QED BY <1>1, <1>3, <1>4 DEF Agrees

LEMMA AnalyzedInv == MainInv /\ Analyzed => MainInv'
<1> SUFFICES ASSUME MainInv, Analyzed PROVE MainInv'
  OBVIOUS
<1>0. /\ stage = "analyzeProg" /\ Read /\ Lines /\ printed = <<>> /\ queries = <<>>
      /\ status = -1 /\ progBuf # <<>> /\ NumInsts = Len(progBuf)
      /\ \A n \in 1..NumInsts : insts[n] = progBuf[n]
      /\ insts \in Seq(Instruction) /\ progBuf \in Seq(InstLine)
  BY DEF Analyzed, MainInv, ByStage, GraphInv, TreeInv, Shape, BuffersInv, FileBuffers
<1>1. /\ UNCHANGED <<files, buffers>> /\ UNCHANGED <<opsLatency, insts>>
      /\ queries' = queries /\ status' = status /\ stage' = "queries"
      /\ pc' = "returned" /\ printed' = << <<maxDepth>> >>
  BY DEF Analyzed, Return, GetProgDepth
<1>2. /\ opLines' = opLines /\ lines' = lines
      /\ numOps' = numOps /\ progBuf' = progBuf
  BY <1>1 DEF files, buffers
<1>3. GraphInv' /\ BuffersInv'
  <2>1. Next
    BY DEF Analyzed, Next
  <2> QED BY <2>1, StepInv, OtherBuffers DEF MainInv
<1>4. Lines' /\ Read'
  BY <1>0, <1>1, <1>2, SameRead DEF Lines
<1>5. insts = progBuf
  BY <1>0 DEF NumInsts
<1>6. maxDepth = LongestPath
  <2>1. Agrees
    BY <1>0, <1>5, GraphAgrees
  <2> QED BY <2>1, LongestIsDepth DEF MainInv, GraphInv, TreeInv
<1>7. LongestPath' = LongestPath
  BY <1>2 DEF LongestPath, Program, Starts, CyclesOf, WriterBefore
<1>8. Keep(Understood, queries') = queries'
  BY <1>0, <1>1, KeepEmpty
<1>9. AnswersTo(queries)' = << <<LongestPath>> >>
  <2> DEFINE a == <<LongestPath>>
  <2>1. AnswersTo(queries)' = <<a>> \o [k \in DOMAIN <<>> |-> Expected(<<>>[k])']
    BY <1>0, <1>1, <1>7 DEF AnswersTo
  <2>2. \A g : [k \in DOMAIN <<>> |-> g[k]] = <<>>
    OBVIOUS
  <2>3. [k \in DOMAIN <<>> |-> Expected(<<>>[k])'] = <<>>
    OBVIOUS
  <2>4. <<a>> \o <<>> = <<a>>
    <3> HIDE DEF a
    <3> QED OBVIOUS
  <2> QED BY <2>1, <2>3, <2>4
<1> QED BY <1>0, <1>1, <1>2, <1>3, <1>4, <1>5, <1>6, <1>8, <1>9 DEF MainInv, ByStage

\* The files say the same as long as they do not change.
LEMMA SameAnswers ==
  ASSUME UNCHANGED files
  PROVE  /\ \A qs : AnswersTo(qs)' = AnswersTo(qs)
         /\ \A q : Expected(q)' = Expected(q)
<1>1. opLines' = opLines /\ lines' = lines
  BY DEF files
<1>2. Program' = Program
  BY <1>1 DEF Program
<1>3. \A inst : CyclesOf(inst)' = CyclesOf(inst)
  BY <1>1 DEF CyclesOf
<1>4. \A n, r : WriterBefore(n, r)' = WriterBefore(n, r)
  BY <1>2 DEF WriterBefore
<1>5. Starts' = Starts
  BY <1>1, <1>2 DEF Starts, CyclesOf, WriterBefore
<1>6. LongestPath' = LongestPath
  BY <1>2, <1>3, <1>5 DEF LongestPath
<1>7. \A q : Expected(q)' = Expected(q)
  BY <1>2, <1>4, <1>5 DEF Expected, Error
<1>8. \A qs : AnswersTo(qs)' = AnswersTo(qs)
  BY <1>6, <1>7 DEF AnswersTo
<1> QED BY <1>7, <1>8

LEMMA AskQueryInv == MainInv /\ AskQuery => MainInv'
<1> SUFFICES ASSUME MainInv, AskQuery PROVE MainInv'
  OBVIOUS
<1>0. /\ stage = "queries" /\ Read /\ Lines /\ status = -1
      /\ pc = "returned" /\ insts = progBuf /\ progBuf # <<>>
      /\ Keep(Understood, queries) = queries
      /\ printed = AnswersTo(queries) /\ queries \in Seq(Query)
      /\ numOps <= MaxOps
  BY DflowMainAssumption DEF AskQuery, MainInv, ByStage, Lines, BuffersInv, FileBuffers
<1>1. PICK q \in Query :
        /\ queries' = Append(queries, q)
        /\ IF q.num = Bad \/ q.type = "other"
           THEN stage' = "exit" /\ status' = 3 /\ UNCHANGED printed
           ELSE printed' = Append(printed, Result(q)) /\ UNCHANGED <<stage, status>>
  BY DEF AskQuery
<1>2. UNCHANGED files /\ UNCHANGED <<buffers, vars>>
  BY DEF AskQuery
<1>3. GraphInv' /\ BuffersInv'
  BY <1>2, SameGraph, OtherBuffers DEF MainInv
<1>4. /\ opLines' = opLines /\ lines' = lines /\ numOps' = numOps /\ progBuf' = progBuf
      /\ pc' = pc /\ insts' = insts /\ opsLatency' = opsLatency
  BY <1>2 DEF files, buffers, vars
<1>5. Lines' /\ Read'
  <2>1. Read'
    BY <1>0, <1>2, <1>4, SameRead
  <2> QED BY <1>0, <1>1, <1>4, <2>1 DEF Lines
<1>6. q \in Understood <=> ~(q.num = Bad \/ q.type = "other")
  BY DEF Understood
<1>7. Keep(Understood, queries') = Kept(Understood, queries, q)
  BY <1>0, <1>1, KeepAppend
<1>8. \A qs : AnswersTo(qs)' = AnswersTo(qs)
  BY <1>2, SameAnswers
<1>9. CASE q \notin Understood
  <2>1. stage' = "exit" /\ status' = 3 /\ printed' = printed
    BY <1>1, <1>6, <1>9
  <2>2. Keep(Understood, queries') = queries
    BY <1>7, <1>9 DEF Kept
  <2>3. printed' = AnswersTo(queries)
    BY <1>0, <2>1
  <2>4. AnswersAboutFiles'
    <3>1. /\ Bad \notin Range(lines') /\ Bad \notin Range(opLines')
          /\ Len(opLines') <= MaxOps
      BY <1>0, <1>4 DEF Read
    <3>2. Understood' = Understood
      BY DEF Understood, Query
    <3>3. printed' = << <<LongestPath>> >> \o [k \in DOMAIN queries |-> Expected(queries[k])]
      BY <2>3 DEF AnswersTo
    <3>4. LongestPath' = LongestPath
      BY <1>4 DEF LongestPath, Program, Starts, CyclesOf, WriterBefore
    <3>5. \A p : Expected(p)' = Expected(p)
      BY <1>2, SameAnswers
    <3> QED BY <2>1, <2>2, <3>1, <3>3, <3>4, <3>5 DEF AnswersAboutFiles
  <2> QED BY <1>3, <1>5, <2>1, <2>4 DEF MainInv, ByStage
<1>10. CASE q \in Understood
  <2>1. stage' = stage /\ status' = status /\ printed' = Append(printed, Result(q))
    BY <1>1, <1>6, <1>10
  <2>2. Keep(Understood, queries') = queries'
    BY <1>1, <1>7, <1>10 DEF Kept
  <2>3. Result(q) = Expected(q)
    <3>1. Agrees
      BY <1>0, GraphAgrees
    <3> QED BY <1>0, <1>10, <3>1, AnswerIsExpected DEF MainInv, GraphInv
  <2>4. printed' = AnswersTo(queries')
    BY <1>0, <1>1, <2>1, <2>3, AnswersToOneMore
  <2>5. printed' = AnswersTo(queries)'
    <3> DEFINE qs == Append(queries, q)
    <3>1. AnswersTo(queries)' = << <<LongestPath'>> >> \o [k \in DOMAIN queries' |-> Expected(queries[k])']
      BY DEF AnswersTo
    <3>2. LongestPath' = LongestPath
      BY <1>4 DEF LongestPath, Program, Starts, CyclesOf, WriterBefore
    <3>3. \A p : Expected(p)' = Expected(p)
      BY <1>2, SameAnswers
    <3>4. AnswersTo(queries') = << <<LongestPath>> >> \o [k \in DOMAIN queries' |-> Expected(queries'[k])]
      BY DEF AnswersTo
    <3> QED BY <2>4, <3>1, <3>2, <3>3, <3>4
  <2> QED BY <1>0, <1>3, <1>4, <1>5, <2>1, <2>2, <2>5 DEF MainInv, ByStage
<1> QED BY <1>9, <1>10

LEMMA FinishInv == MainInv /\ Finish => MainInv'
<1> SUFFICES ASSUME MainInv, Finish PROVE MainInv'
  OBVIOUS
<1>0. /\ stage = "queries" /\ Read /\ Lines
      /\ Keep(Understood, queries) = queries
      /\ printed = AnswersTo(queries) /\ numOps <= MaxOps
  BY DflowMainAssumption DEF Finish, MainInv, ByStage, BuffersInv, FileBuffers
<1>1. /\ stage' = "exit" /\ status' = 0 /\ queries' = queries /\ printed' = printed
      /\ UNCHANGED files
  BY DEF Finish, Exit
<1>2. GraphInv' /\ BuffersInv'
  <2>1. Next
    BY DEF Finish, Next
  <2> QED BY <2>1, StepInv, OtherBuffers DEF MainInv
<1>3. opLines' = opLines /\ lines' = lines
  BY <1>1 DEF files
<1>4. Lines'
  BY <1>0, <1>1, <1>3 DEF Lines
<1>5. AnswersAboutFiles'
  <2>1. /\ Bad \notin Range(lines') /\ Bad \notin Range(opLines')
        /\ Len(opLines') <= MaxOps
    BY <1>0, <1>3 DEF Read
  <2>2. LongestPath' = LongestPath
    BY <1>3 DEF LongestPath, Program, Starts, CyclesOf, WriterBefore
  <2>3. \A p : Expected(p)' = Expected(p)
    BY <1>1, SameAnswers
  <2>4. printed' = << <<LongestPath>> >> \o [k \in DOMAIN queries |-> Expected(queries[k])]
    BY <1>0, <1>1 DEF AnswersTo
  <2>5. printed' # <<>>
    <3> DEFINE x == <<LongestPath>>
               f == [k \in DOMAIN queries |-> Expected(queries[k])]
               W == {Expected(q) : q \in Query} \cup {x}
    <3>1. queries \in Seq(Query)
      BY <1>0 DEF Lines
    <3>2. Len(queries) \in Nat /\ DOMAIN queries = 1..Len(queries)
          /\ \A k \in 1..Len(queries) : queries[k] \in Query
      BY <3>1
    <3>3. f \in [1..Len(queries) -> W]
      BY <3>2
    <3>4. f \in Seq(W) /\ <<x>> \in Seq(W)
      <4> HIDE DEF f, x
      <4>1. x \in W
        BY DEF x
      <4> HIDE DEF W
      <4> QED BY <3>2, <3>3, <4>1
    <3>5. \A V : \A a \in V, s \in Seq(V) : <<a>> \o s # <<>>
      OBVIOUS
    <3>6. x \in W
      OBVIOUS
    <3> HIDE DEF f, x, W
    <3>7. <<x>> \o f # <<>>
      BY <3>4, <3>5, <3>6
    <3> QED BY <2>4, <3>7 DEF f, x
  <2> QED BY <1>0, <1>1, <2>1, <2>2, <2>3, <2>4, <2>5 DEF AnswersAboutFiles
<1> QED BY <1>1, <1>2, <1>4, <1>5 DEF MainInv, ByStage

LEMMA StillInv == MainInv /\ UNCHANGED mainVars => MainInv'
<1> SUFFICES ASSUME MainInv, UNCHANGED mainVars PROVE MainInv'
  OBVIOUS
<1>1. /\ UNCHANGED vars /\ UNCHANGED files /\ UNCHANGED <<numOps, progBuf, opsLatency>>
      /\ stage' = stage /\ queries' = queries /\ printed' = printed /\ status' = status
      /\ pc' = pc /\ insts' = insts
  BY DEF mainVars, buffers, talk, vars
<1>2. GraphInv' /\ BuffersInv'
  BY <1>1, SameGraph, OtherBuffers DEF MainInv
<1>3. Lines'
  BY <1>1 DEF MainInv, Lines, files
<1>4. Read => Read'
  BY <1>1, SameRead
<1>5. Start => Start'
  BY <1>1 DEF Start, vars
<1>6. NumInsts' = NumInsts /\ progBuf' = progBuf
  BY <1>1 DEF NumInsts
<1>7. /\ LongestPath' = LongestPath
      /\ \A p : Expected(p)' = Expected(p)
  <2>1. opLines' = opLines /\ lines' = lines
    BY <1>1 DEF files
  <2>2. LongestPath' = LongestPath
    BY <2>1 DEF LongestPath, Program, Starts, CyclesOf, WriterBefore
  <2> QED BY <1>1, <2>2, SameAnswers
<1>8. AnswersTo(queries)' = AnswersTo(queries)
  BY <1>1, <1>7 DEF AnswersTo
<1>9. AnswersAboutFiles => AnswersAboutFiles'
  <2>1. opLines' = opLines /\ lines' = lines
    BY <1>1 DEF files
  <2> QED BY <1>1, <1>7, <2>1 DEF AnswersAboutFiles
<1> QED BY <1>1, <1>2, <1>3, <1>4, <1>5, <1>6, <1>8, <1>9 DEF MainInv, ByStage

LEMMA MainStep == MainInv /\ [MainNext]_mainVars => MainInv'
<1> SUFFICES ASSUME MainInv, [MainNext]_mainVars PROVE MainInv'
  OBVIOUS
<1>1. CASE CannotOpen \/ OpsRead \/ NoMemory \/ ProgRead
  BY <1>1, FileEndInv
<1>2. CASE OpLine
  BY <1>2, OpLineInv
<1>3. CASE ProgLine
  BY <1>3, ProgLineInv
<1>4. CASE Analyze
  BY <1>4, AnalyzeInv
<1>5. CASE Analyzed
  BY <1>5, AnalyzedInv
<1>6. CASE AskQuery
  BY <1>6, AskQueryInv
<1>7. CASE Finish
  BY <1>7, FinishInv
<1>8. CASE Exited \/ UNCHANGED mainVars
  BY <1>8, StillInv DEF Exited
<1> QED BY <1>1, <1>2, <1>3, <1>4, <1>5, <1>6, <1>7, <1>8 DEF MainNext

(***************************************************************************)
(* The program of HW3 prints what its two files say, and exits with 0 only *)
(* when it has answered every query: for files of any length, with blank   *)
(* lines and comments wherever they are, and any number of queries.        *)
(***************************************************************************)
THEOREM MainAnswersAboutFiles == MainSpec => []AnswersAboutFiles
  BY MainStart, MainStep, MainAnswers, PTL DEF MainSpec
=============================================================================
