-------------------------- MODULE CacheSim_proofs --------------------------
(***************************************************************************)
(* The two cache levels stay free of duplicates, the second includes the   *)
(* first, and the counts add up, for caches of every geometry and traces   *)
(* of every length.  They lose no write: CacheSim implements               *)
(* WriteBackHierarchy.  And the blocks that they drop are the least        *)
(* recently used ones.                                                     *)
(***************************************************************************)
EXTENDS CacheSimRefinement, CacheSimHistory, TLAPS

(***************************************************************************)
(* First, what the operations of one cache preserve and which blocks they  *)
(* add and drop, for caches of any geometry; then the two levels.          *)
(***************************************************************************)

-----------------------------------------------------------------------------
\* Sequences, element by element.

LEMMA ConsElements ==
  ASSUME NEW S, NEW s \in Seq(S), NEW e \in S
  PROVE  /\ Cons(e, s) \in Seq(S)
         /\ Len(Cons(e, s)) = Len(s) + 1
         /\ Cons(e, s)[1] = e
         /\ \A j \in 1 .. Len(s) : Cons(e, s)[j + 1] = s[j]
  BY DEF Cons

LEMMA RemoveAtElements ==
  ASSUME NEW S, NEW s \in Seq(S), NEW i \in 1 .. Len(s)
  PROVE  /\ RemoveAt(s, i) \in Seq(S)
         /\ Len(RemoveAt(s, i)) = Len(s) - 1
         /\ \A j \in 1 .. Len(s) - 1 :
               RemoveAt(s, i)[j] = IF j < i THEN s[j] ELSE s[j + 1]
<1> DEFINE before == SubSeq(s, 1, i - 1)
           behind == SubSeq(s, i + 1, Len(s))
<1>1. /\ before \in Seq(S) /\ Len(before) = i - 1
      /\ \A j \in 1 .. i - 1 : before[j] = s[j]
  OBVIOUS
<1>2. /\ behind \in Seq(S) /\ Len(behind) = Len(s) - i
      /\ \A j \in 1 .. Len(s) - i : behind[j] = s[j + i]
  OBVIOUS
<1>3. RemoveAt(s, i) = before \o behind
  BY DEF RemoveAt
<1> HIDE DEF before, behind
<1>4. before \o behind \in Seq(S) /\ Len(before \o behind) = Len(s) - 1
  BY <1>1, <1>2
<1>5. \A j \in 1 .. Len(s) - 1 :
        (before \o behind)[j] = IF j < i THEN before[j] ELSE behind[j - (i - 1)]
  BY <1>1, <1>2
<1> QED BY <1>1, <1>2, <1>3, <1>4, <1>5

LEMMA FrontElements ==
  ASSUME NEW S, NEW s \in Seq(S), Len(s) > 0
  PROVE  /\ Front(s) \in Seq(S)
         /\ Len(Front(s)) = Len(s) - 1
         /\ \A j \in 1 .. Len(s) - 1 : Front(s)[j] = s[j]
         /\ Last(s) = s[Len(s)] /\ Last(s) \in S
<1>1. PICK n \in 1 .. Len(s) : n = Len(s)
  OBVIOUS
<1>2. /\ SubSeq(s, 1, n - 1) \in Seq(S)
      /\ Len(SubSeq(s, 1, n - 1)) = n - 1
      /\ \A j \in 1 .. n - 1 : SubSeq(s, 1, n - 1)[j] = s[j]
  OBVIOUS
<1>3. s[n] \in S
  OBVIOUS
<1> QED BY <1>1, <1>2, <1>3 DEF Front, Last

-----------------------------------------------------------------------------
\* Sets of a cache: sequences of entries of which no two are of one block.

Unique(s) == \A i, j \in DOMAIN s : s[i].blk = s[j].blk => i = j
BlocksIn(s) == {s[i].blk : i \in DOMAIN s}

LEMMA FindPresent ==
  ASSUME NEW B, NEW s \in Seq(Entry(B)), Unique(s), NEW i \in DOMAIN s
  PROVE  Find(s, s[i].blk) = i
<1>1. {k \in 1 .. Len(s) : s[k].blk = s[i].blk} = {i}
  BY DEF Unique
<1>2. Min({i}) = i
  BY DEF Min
<1> QED BY <1>1, <1>2 DEF Find, SelectInSeq

LEMMA FindAbsent ==
  ASSUME NEW B, NEW s \in Seq(Entry(B)), NEW b, b \notin BlocksIn(s)
  PROVE  Find(s, b) = 0
<1>1. {k \in 1 .. Len(s) : s[k].blk = b} = {}
  BY DEF BlocksIn
<1> QED BY <1>1 DEF Find, SelectInSeq

\* Find answers the question whether a block is there, and where.
LEMMA FindFacts ==
  ASSUME NEW B, NEW s \in Seq(Entry(B)), Unique(s), NEW b
  PROVE  /\ b \in BlocksIn(s) =>
              Find(s, b) \in DOMAIN s /\ s[Find(s, b)].blk = b
         /\ b \notin BlocksIn(s) => Find(s, b) = 0
         /\ Find(s, b) # 0 <=> b \in BlocksIn(s)
<1>1. CASE b \in BlocksIn(s)
  <2>1. PICK i \in DOMAIN s : s[i].blk = b
    BY <1>1 DEF BlocksIn
  <2>2. Find(s, b) = i /\ i # 0
    BY <2>1, FindPresent
  <2> QED BY <1>1, <2>1, <2>2
<1>2. CASE b \notin BlocksIn(s)
  BY <1>2, FindAbsent
<1> QED BY <1>1, <1>2

LEMMA RemoveAtFacts ==
  ASSUME NEW B, NEW s \in Seq(Entry(B)), Unique(s), NEW i \in DOMAIN s
  PROVE  /\ RemoveAt(s, i) \in Seq(Entry(B))
         /\ Len(RemoveAt(s, i)) = Len(s) - 1
         /\ Unique(RemoveAt(s, i))
         /\ BlocksIn(RemoveAt(s, i)) = BlocksIn(s) \ {s[i].blk}
<1> DEFINE r == RemoveAt(s, i)
<1>1. /\ r \in Seq(Entry(B))
      /\ Len(r) = Len(s) - 1
      /\ \A j \in 1 .. Len(s) - 1 : r[j] = IF j < i THEN s[j] ELSE s[j + 1]
  BY RemoveAtElements
<1> HIDE DEF r
<1>2. Unique(r)
  <2> SUFFICES ASSUME NEW j \in DOMAIN r, NEW k \in DOMAIN r,
                      r[j].blk = r[k].blk
               PROVE  j = k
    BY DEF Unique
  <2> DEFINE old(h) == IF h < i THEN h ELSE h + 1
  <2>1. /\ old(j) \in DOMAIN s /\ r[j] = s[old(j)]
        /\ old(k) \in DOMAIN s /\ r[k] = s[old(k)]
    BY <1>1
  <2>2. old(j) = old(k)
    BY <2>1 DEF Unique
  <2> QED BY <1>1, <2>2
<1>3. BlocksIn(r) \subseteq BlocksIn(s) \ {s[i].blk}
  BY <1>1 DEF Unique, BlocksIn
<1>4. ASSUME NEW j \in DOMAIN s, s[j].blk # s[i].blk
      PROVE  s[j].blk \in BlocksIn(r)
  <2>1. CASE j < i
    <3>1. j \in DOMAIN r /\ r[j] = s[j]
      BY <1>1, <2>1
    <3> QED BY <3>1 DEF BlocksIn
  <2>2. CASE j > i
    <3>1. j - 1 \in DOMAIN r /\ r[j - 1] = s[j]
      BY <1>1, <2>2
    <3> QED BY <3>1 DEF BlocksIn
  <2> QED BY <1>4, <2>1, <2>2
<1>5. BlocksIn(s) \ {s[i].blk} \subseteq BlocksIn(r)
  BY <1>4 DEF BlocksIn
<1> QED BY <1>1, <1>2, <1>3, <1>5 DEF r

LEMMA ConsFacts ==
  ASSUME NEW B, NEW s \in Seq(Entry(B)), Unique(s), NEW e \in Entry(B),
         e.blk \notin BlocksIn(s)
  PROVE  /\ Cons(e, s) \in Seq(Entry(B))
         /\ Len(Cons(e, s)) = Len(s) + 1
         /\ Unique(Cons(e, s))
         /\ BlocksIn(Cons(e, s)) = BlocksIn(s) \cup {e.blk}
<1> DEFINE r == Cons(e, s)
<1>1. /\ r \in Seq(Entry(B))
      /\ Len(r) = Len(s) + 1
      /\ r[1] = e
      /\ \A j \in 1 .. Len(s) : r[j + 1] = s[j]
  BY ConsElements
<1> HIDE DEF r
<1>2. \A j \in DOMAIN r : j = 1 \/ (j - 1 \in DOMAIN s /\ r[j] = s[j - 1])
  BY <1>1
<1>3. Unique(r)
  <2> SUFFICES ASSUME NEW j \in DOMAIN r, NEW k \in DOMAIN r,
                      r[j].blk = r[k].blk
               PROVE  j = k
    BY DEF Unique
  <2>1. CASE j = 1 /\ k # 1
    BY <1>1, <1>2, <2>1 DEF BlocksIn
  <2>2. CASE j # 1 /\ k = 1
    BY <1>1, <1>2, <2>2 DEF BlocksIn
  <2>3. CASE j # 1 /\ k # 1
    <3>1. j - 1 \in DOMAIN s /\ k - 1 \in DOMAIN s /\ j - 1 = k - 1
      BY <1>2, <2>3 DEF Unique
    <3> QED BY <1>1, <3>1
  <2> QED BY <2>1, <2>2, <2>3
<1>4. BlocksIn(r) \subseteq BlocksIn(s) \cup {e.blk}
  BY <1>1, <1>2 DEF BlocksIn
<1>5. \A j \in DOMAIN s : j + 1 \in DOMAIN r /\ r[j + 1] = s[j]
  BY <1>1
<1>6. 1 \in DOMAIN r
  BY <1>1
<1>7. BlocksIn(s) \cup {e.blk} \subseteq BlocksIn(r)
  BY <1>1, <1>5, <1>6 DEF BlocksIn
<1> QED BY <1>1, <1>3, <1>4, <1>7 DEF r

LEMMA FrontFacts ==
  ASSUME NEW B, NEW s \in Seq(Entry(B)), Unique(s), Len(s) > 0
  PROVE  /\ Front(s) \in Seq(Entry(B))
         /\ Len(Front(s)) = Len(s) - 1
         /\ Unique(Front(s))
         /\ Last(s) \in Entry(B)
         /\ BlocksIn(Front(s)) = BlocksIn(s) \ {Last(s).blk}
<1> DEFINE r == Front(s)
<1>1. /\ r \in Seq(Entry(B))
      /\ Len(r) = Len(s) - 1
      /\ \A j \in 1 .. Len(s) - 1 : r[j] = s[j]
      /\ Last(s) = s[Len(s)] /\ Last(s) \in Entry(B)
  BY FrontElements
<1> HIDE DEF r
<1>2. Unique(r)
  BY <1>1 DEF Unique
<1>3. BlocksIn(r) = BlocksIn(s) \ {Last(s).blk}
  BY <1>1 DEF Unique, BlocksIn
<1> QED BY <1>1, <1>2, <1>3 DEF r

-----------------------------------------------------------------------------
\* Whole caches.

GeometryOK(g) == g.sets \in Nat \ {0} /\ g.ways \in Nat \ {0}

Good(g, c, B) ==
  /\ GeometryOK(g)
  /\ B \subseteq Nat
  /\ c \in CacheType(g, B)
  /\ WellPlaced(g, c)

\* What may be a set of the cache.
FitsSet(g, B, set, r) ==
  /\ r \in Seq(Entry(B))
  /\ Unique(r)
  /\ Len(r) <= g.ways
  /\ \A x \in BlocksIn(r) : x \in B /\ SetOf(g, x) = set

LEMMA SetOfFacts ==
  ASSUME NEW g, NEW B, NEW c, Good(g, c, B), NEW b \in B
  PROVE  SetOf(g, b) \in 0 .. g.sets - 1
  BY DEF SetOf, GeometryOK, Good

LEMMA SetFacts ==
  ASSUME NEW g, NEW B, NEW c, Good(g, c, B), NEW s \in 0 .. g.sets - 1
  PROVE  FitsSet(g, B, s, c.table[s])
<1>1. c.table[s] \in Seq(Entry(B))
  BY DEF Good, CacheType
<1>2. /\ Len(c.table[s]) <= g.ways
      /\ \A i \in DOMAIN c.table[s] : SetOf(g, c.table[s][i].blk) = s
      /\ Unique(c.table[s])
  BY DEF Good, WellPlaced, Unique
<1>3. \A i \in DOMAIN c.table[s] : c.table[s][i].blk \in B
  <2>1. \A i \in DOMAIN c.table[s] : c.table[s][i] \in Entry(B)
    BY <1>1
  <2> QED BY <2>1 DEF Entry
<1> QED BY <1>1, <1>2, <1>3 DEF BlocksIn, FitsSet

\* A block is in the cache if it is in its own set, where Find finds it.
LEMMA BlocksFacts ==
  ASSUME NEW g, NEW B, NEW c, Good(g, c, B), NEW b \in B
  PROVE  b \in Blocks(c) <=> b \in BlocksIn(c.table[SetOf(g, b)])
<1>1. DOMAIN c.table = 0 .. g.sets - 1
  BY DEF Good, CacheType
<1>2. SetOf(g, b) \in 0 .. g.sets - 1
  BY SetOfFacts
<1>3. b \in Blocks(c) <=> \E s \in 0 .. g.sets - 1 : b \in BlocksIn(c.table[s])
  BY <1>1 DEF Blocks, Entries, ToSet, BlocksIn
<1>4. ASSUME NEW s \in 0 .. g.sets - 1, b \in BlocksIn(c.table[s])
      PROVE  s = SetOf(g, b)
  BY <1>4, SetFacts DEF FitsSet
<1> QED BY <1>2, <1>3, <1>4

\* The set of b, and the place of b in it.
Own(g, B, c, b, set, s, i) ==
  /\ set \in 0 .. g.sets - 1
  /\ s = c.table[set]
  /\ FitsSet(g, B, set, s)
  /\ SetOf(g, b) = set
  /\ b \in Blocks(c) => i \in DOMAIN s /\ s[i].blk = b
  /\ i # 0 <=> b \in Blocks(c)
  /\ b \in Blocks(c) <=> b \in BlocksIn(s)

LEMMA OwnFacts ==
  ASSUME NEW g, NEW B, NEW c, Good(g, c, B), NEW b \in B
  PROVE  Own(g, B, c, b, SetOf(g, b), c.table[SetOf(g, b)],
             Find(c.table[SetOf(g, b)], b))
<1> DEFINE s == c.table[SetOf(g, b)]
<1>1. SetOf(g, b) \in 0 .. g.sets - 1
  BY SetOfFacts
<1>2. FitsSet(g, B, SetOf(g, b), s)
  BY <1>1, SetFacts
<1>3. b \in Blocks(c) <=> b \in BlocksIn(s)
  BY BlocksFacts
<1>4. s = c.table[SetOf(g, b)]
  OBVIOUS
<1> HIDE DEF s
<1>5. /\ b \in BlocksIn(s) => Find(s, b) \in DOMAIN s /\ s[Find(s, b)].blk = b
      /\ Find(s, b) # 0 <=> b \in BlocksIn(s)
  BY <1>2, FindFacts DEF FitsSet
<1>6. Own(g, B, c, b, SetOf(g, b), s, Find(s, b))
  BY <1>1, <1>2, <1>3, <1>4, <1>5 DEF Own
<1> QED BY <1>6 DEF s

LEMMA HoldsFacts ==
  ASSUME NEW g, NEW B, NEW c, Good(g, c, B), NEW b \in B
  PROVE  Holds(g, c, b) <=> b \in Blocks(c)
  BY OwnFacts DEF Holds, Own

LEMMA BlocksInB ==
  ASSUME NEW g, NEW B, NEW c, Good(g, c, B)
  PROVE  Blocks(c) \subseteq B
<1>1. DOMAIN c.table = 0 .. g.sets - 1
  BY DEF Good, CacheType
<1>2. ASSUME NEW s \in 0 .. g.sets - 1
      PROVE  BlocksIn(c.table[s]) \subseteq B
  BY SetFacts DEF FitsSet
<1>3. \A b \in Blocks(c) :
        \E s \in 0 .. g.sets - 1 : b \in BlocksIn(c.table[s])
  BY <1>1 DEF Blocks, Entries, ToSet, BlocksIn
<1> QED BY <1>2, <1>3

\* Every operation replaces one set of the cache.
Replaced(c, set, r) == [c EXCEPT !.table[set] = r]

LEMMA ReplaceSet ==
  ASSUME NEW g, NEW B, NEW c, Good(g, c, B), NEW set \in 0 .. g.sets - 1,
         NEW r, FitsSet(g, B, set, r)
  PROVE  /\ Good(g, Replaced(c, set, r), B)
         /\ BlocksIn(c.table[set]) \subseteq Blocks(c)
         /\ Blocks(Replaced(c, set, r)) =
              (Blocks(c) \ BlocksIn(c.table[set])) \cup BlocksIn(r)
<1> DEFINE d == Replaced(c, set, r)
<1>1. d = [c EXCEPT !.table = [c.table EXCEPT ![set] = r]]
  BY DEF Good, CacheType, Replaced, FitsSet
<1>2. /\ d.table = [c.table EXCEPT ![set] = r]
      /\ d.hits = c.hits /\ d.misses = c.misses
      /\ d \in CacheType(g, B)
  BY <1>1 DEF Good, CacheType, FitsSet
<1>3. /\ d.table[set] = r
      /\ \A s \in 0 .. g.sets - 1 : s # set => d.table[s] = c.table[s]
  BY <1>2 DEF Good, CacheType
<1> HIDE DEF d
<1>4. WellPlaced(g, d)
  <2> SUFFICES ASSUME NEW s \in 0 .. g.sets - 1
               PROVE  /\ Len(d.table[s]) <= g.ways
                      /\ \A i \in DOMAIN d.table[s] :
                            SetOf(g, d.table[s][i].blk) = s
                      /\ Unique(d.table[s])
    BY DEF WellPlaced, Unique
  <2>1. CASE s = set
    BY <1>3, <2>1 DEF BlocksIn, FitsSet
  <2>2. CASE s # set
    BY <1>3, <2>2 DEF Good, WellPlaced, Unique
  <2> QED BY <2>1, <2>2
<1>5. Good(g, d, B)
  BY <1>2, <1>4 DEF Good
<1>6. /\ DOMAIN c.table = 0 .. g.sets - 1
      /\ DOMAIN d.table = 0 .. g.sets - 1
  BY <1>2 DEF Good, CacheType
<1>7. ASSUME NEW x
      PROVE  /\ x \in Blocks(c) <=>
                  \E s \in 0 .. g.sets - 1 : x \in BlocksIn(c.table[s])
             /\ x \in Blocks(d) <=>
                  \E s \in 0 .. g.sets - 1 : x \in BlocksIn(d.table[s])
  BY <1>6 DEF Blocks, Entries, ToSet, BlocksIn
<1>8. ASSUME NEW s \in 0 .. g.sets - 1, s # set, NEW x \in BlocksIn(c.table[s])
      PROVE  x \notin BlocksIn(c.table[set])
  <2>1. FitsSet(g, B, s, c.table[s]) /\ FitsSet(g, B, set, c.table[set])
    BY SetFacts
  <2> QED BY <1>8, <2>1 DEF FitsSet
<1>9. BlocksIn(c.table[set]) \subseteq Blocks(c)
  BY <1>7
<1>10. Blocks(d) = (Blocks(c) \ BlocksIn(c.table[set])) \cup BlocksIn(r)
  BY <1>3, <1>7, <1>8
<1> QED BY <1>5, <1>9, <1>10 DEF d

-----------------------------------------------------------------------------
\* The operations, with their flags fixed.

SeekTrace(g, c, b, op) == Seek(g, c, b, op, FALSE)
SeekBack(g, c, b, op) == Seek(g, c, b, op, TRUE)
SetDirty(g, c, b) == MarkDirty(g, c, b, TRUE)
SetClean(g, c, b) == MarkDirty(g, c, b, FALSE)

LEMMA CountFacts ==
  ASSUME NEW g, NEW B, NEW c, Good(g, c, B), NEW d,
         d \in {c, [c EXCEPT !.hits = @ + 1], [c EXCEPT !.misses = @ + 1]}
  PROVE  Good(g, d, B) /\ Blocks(d) = Blocks(c)
<1>1. d.table = c.table /\ d \in CacheType(g, B)
  BY DEF Good, CacheType
<1>2. Good(g, d, B)
  BY <1>1 DEF Good, WellPlaced
<1>3. Blocks(d) = Blocks(c)
  BY <1>1 DEF Blocks, Entries
<1> QED BY <1>2, <1>3

LEMMA TouchFacts ==
  ASSUME NEW B, NEW s \in Seq(Entry(B)), Unique(s), NEW i \in DOMAIN s, NEW op
  PROVE  /\ Touch(s, i, op) \in Seq(Entry(B))
         /\ Len(Touch(s, i, op)) = Len(s)
         /\ Unique(Touch(s, i, op))
         /\ BlocksIn(Touch(s, i, op)) = BlocksIn(s)
<1> DEFINE e == [s[i] EXCEPT !.dirty = @ \/ op = "w"]
<1>1. e \in Entry(B) /\ e.blk = s[i].blk
  <2>1. s[i] \in Entry(B)
    OBVIOUS
  <2> QED BY <2>1 DEF Entry
<1>2. s[i].blk \in BlocksIn(s)
  BY DEF BlocksIn
<1>3. Touch(s, i, op) = Cons(e, RemoveAt(s, i))
  BY DEF Touch
<1> HIDE DEF e
<1>4. /\ RemoveAt(s, i) \in Seq(Entry(B))
      /\ Len(RemoveAt(s, i)) = Len(s) - 1
      /\ Unique(RemoveAt(s, i))
      /\ BlocksIn(RemoveAt(s, i)) = BlocksIn(s) \ {s[i].blk}
  BY RemoveAtFacts
<1>5. /\ Cons(e, RemoveAt(s, i)) \in Seq(Entry(B))
      /\ Len(Cons(e, RemoveAt(s, i))) = Len(s) - 1 + 1
      /\ Unique(Cons(e, RemoveAt(s, i)))
      /\ BlocksIn(Cons(e, RemoveAt(s, i)))
           = (BlocksIn(s) \ {s[i].blk}) \cup {s[i].blk}
  BY <1>1, <1>4, ConsFacts
<1> QED BY <1>2, <1>3, <1>5

\* A look-up reorders a set and marks an entry; it moves no block.
LEMMA SeekFacts ==
  ASSUME NEW g, NEW B, NEW c, Good(g, c, B), NEW b \in B, NEW op
  PROVE  /\ Good(g, SeekTrace(g, c, b, op), B)
         /\ Blocks(SeekTrace(g, c, b, op)) = Blocks(c)
         /\ Good(g, SeekBack(g, c, b, op), B)
         /\ Blocks(SeekBack(g, c, b, op)) = Blocks(c)
<1> DEFINE set   == SetOf(g, b)
           s     == c.table[set]
           i     == Find(s, b)
           r     == Touch(s, i, op)
           d     == Replaced(c, set, r)
           trace == SeekTrace(g, c, b, op)
           back  == SeekBack(g, c, b, op)
<1>1. /\ trace = IF i # 0 THEN [d EXCEPT !.hits = @ + 1]
                          ELSE [c EXCEPT !.misses = @ + 1]
      /\ back = IF i # 0 THEN d ELSE c
  BY DEF Seek, SeekTrace, SeekBack, Count, Replaced
<1>2. Own(g, B, c, b, set, s, i)
  BY OwnFacts
<1> HIDE DEF i, s, set, trace, back
<1>3. CASE i # 0
  <2>1. i \in DOMAIN s /\ FitsSet(g, B, set, s) /\ s = c.table[set]
    BY <1>2, <1>3 DEF Own
  <2>2. FitsSet(g, B, set, r) /\ BlocksIn(r) = BlocksIn(s)
    BY <2>1, TouchFacts DEF FitsSet
  <2> HIDE DEF r
  <2>3. set \in 0 .. g.sets - 1
    BY <1>2 DEF Own
  <2>4. /\ Good(g, d, B)
        /\ BlocksIn(s) \subseteq Blocks(c)
        /\ Blocks(d) = (Blocks(c) \ BlocksIn(s)) \cup BlocksIn(r)
    BY <2>1, <2>2, <2>3, ReplaceSet
  <2> HIDE DEF d
  <2>5. Blocks(d) = Blocks(c)
    BY <2>2, <2>4
  <2>6. Good(g, trace, B) /\ Blocks(trace) = Blocks(d)
    BY <1>1, <1>3, <2>4, CountFacts
  <2> QED BY <1>1, <1>3, <2>4, <2>5, <2>6 DEF trace, back
<1>4. CASE i = 0
  <2>1. Good(g, trace, B) /\ Blocks(trace) = Blocks(c)
    BY <1>1, <1>4, CountFacts
  <2> QED BY <1>1, <1>4, <2>1 DEF trace, back
<1> QED BY <1>3, <1>4

\* remove takes one block out.
LEMMA EvictFacts ==
  ASSUME NEW g, NEW B, NEW c, Good(g, c, B), NEW b \in B
  PROVE  /\ Good(g, Evict(g, c, b), B)
         /\ Blocks(Evict(g, c, b)) = Blocks(c) \ {b}
<1> DEFINE set == SetOf(g, b)
           s   == c.table[set]
           i   == Find(s, b)
           r   == RemoveAt(s, i)
           d   == Replaced(c, set, r)
<1>1. Evict(g, c, b) = IF i # 0 THEN d ELSE c
  BY DEF Evict, Replaced
<1>2. Own(g, B, c, b, set, s, i)
  BY OwnFacts
<1> HIDE DEF i, s, set
<1>3. CASE i # 0
  <2>1. /\ i \in DOMAIN s /\ s[i].blk = b
        /\ FitsSet(g, B, set, s) /\ s = c.table[set]
    BY <1>2, <1>3 DEF Own
  <2>2. /\ r \in Seq(Entry(B)) /\ Len(r) = Len(s) - 1
        /\ Unique(r) /\ BlocksIn(r) = BlocksIn(s) \ {b}
    BY <2>1, RemoveAtFacts DEF FitsSet
  <2> HIDE DEF r
  <2>3. FitsSet(g, B, set, r)
    BY <2>1, <2>2 DEF FitsSet, Good, GeometryOK
  <2>4. Good(g, d, B) /\ Blocks(d) = Blocks(c) \ {b}
    BY <1>2, <1>3, <2>1, <2>2, <2>3, ReplaceSet DEF Own
  <2> QED BY <1>1, <1>3, <2>4
<1>4. CASE i = 0
  BY <1>1, <1>2, <1>4 DEF Own
<1> QED BY <1>3, <1>4

Marked(s, i, dirty) == [s EXCEPT ![i].dirty = dirty]

LEMMA MarkFacts ==
  ASSUME NEW B, NEW s \in Seq(Entry(B)), Unique(s), NEW i \in DOMAIN s,
         NEW dirty \in BOOLEAN
  PROVE  /\ Marked(s, i, dirty) \in Seq(Entry(B))
         /\ Len(Marked(s, i, dirty)) = Len(s)
         /\ Unique(Marked(s, i, dirty))
         /\ BlocksIn(Marked(s, i, dirty)) = BlocksIn(s)
<1> DEFINE e == [s[i] EXCEPT !.dirty = dirty]
           r == Marked(s, i, dirty)
<1>1. e \in Entry(B) /\ e.blk = s[i].blk
  <2>1. s[i] \in Entry(B)
    OBVIOUS
  <2> QED BY <2>1 DEF Entry
<1>2. r = [s EXCEPT ![i] = e]
  BY DEF Marked
<1> HIDE DEF e, r
<1>3. r \in Seq(Entry(B)) /\ Len(r) = Len(s) /\ DOMAIN r = DOMAIN s
  BY <1>1, <1>2
<1>4. \A j \in DOMAIN s : r[j].blk = s[j].blk
  BY <1>1, <1>2
<1>5. Unique(r)
  BY <1>3, <1>4 DEF Unique
<1>6. BlocksIn(r) = BlocksIn(s)
  BY <1>3, <1>4 DEF BlocksIn
<1> QED BY <1>3, <1>5, <1>6 DEF r

\* mark_dirty changes no block.
LEMMA MarkDirtyFacts ==
  ASSUME NEW g, NEW B, NEW c, Good(g, c, B), NEW b \in B, NEW m,
         \E dirty \in BOOLEAN : m = MarkDirty(g, c, b, dirty)
  PROVE  Good(g, m, B) /\ Blocks(m) = Blocks(c)
<1> PICK dirty \in BOOLEAN : m = MarkDirty(g, c, b, dirty)
  OBVIOUS
<1> DEFINE set == SetOf(g, b)
           s   == c.table[set]
           i   == Find(s, b)
           r   == Marked(s, i, dirty)
           d   == Replaced(c, set, r)
<1>1. m = IF i # 0 THEN d ELSE c
  BY DEF MarkDirty, Replaced, Marked
<1>2. Own(g, B, c, b, set, s, i)
  BY OwnFacts
<1> HIDE DEF i, s, set
<1>3. CASE i # 0
  <2>1. i \in DOMAIN s /\ FitsSet(g, B, set, s) /\ s = c.table[set]
    BY <1>2, <1>3 DEF Own
  <2>2. FitsSet(g, B, set, r) /\ BlocksIn(r) = BlocksIn(s)
    BY <2>1, MarkFacts DEF FitsSet
  <2> HIDE DEF r
  <2>3. set \in 0 .. g.sets - 1
    BY <1>2 DEF Own
  <2>4. /\ Good(g, d, B)
        /\ BlocksIn(s) \subseteq Blocks(c)
        /\ Blocks(d) = (Blocks(c) \ BlocksIn(s)) \cup BlocksIn(r)
    BY <2>1, <2>2, <2>3, ReplaceSet
  <2> HIDE DEF d
  <2>5. Blocks(d) = Blocks(c)
    BY <2>2, <2>4
  <2> QED BY <1>1, <1>3, <2>4, <2>5
<1>4. CASE i = 0
  BY <1>1, <1>4
<1> QED BY <1>3, <1>4

LEMMA SetDirtyFacts ==
  ASSUME NEW g, NEW B, NEW c, Good(g, c, B), NEW b \in B
  PROVE  /\ Good(g, SetDirty(g, c, b), B)
         /\ Blocks(SetDirty(g, c, b)) = Blocks(c)
         /\ Good(g, SetClean(g, c, b), B)
         /\ Blocks(SetClean(g, c, b)) = Blocks(c)
<1>1. \E dirty \in BOOLEAN : SetDirty(g, c, b) = MarkDirty(g, c, b, dirty)
  BY DEF SetDirty
<1>2. \E dirty \in BOOLEAN : SetClean(g, c, b) = MarkDirty(g, c, b, dirty)
  BY DEF SetClean
<1> QED BY <1>1, <1>2, MarkDirtyFacts

\* add_address puts a new block in and drops at most one other.
Added(B, c, b, cache, removed) ==
  \/ /\ removed = {}
     /\ Blocks(cache) = Blocks(c) \cup {b}
  \/ \E e \in Entry(B) :
       /\ removed = {e}
       /\ e.blk # b
       /\ e.blk \in Blocks(c)
       /\ Blocks(cache) = (Blocks(c) \cup {b}) \ {e.blk}

LEMMA AddAddressFacts ==
  ASSUME NEW g, NEW B, NEW c, Good(g, c, B), NEW b \in B, b \notin Blocks(c)
  PROVE  /\ Good(g, AddAddress(g, c, b).cache, B)
         /\ Added(B, c, b, AddAddress(g, c, b).cache,
                  AddAddress(g, c, b).removed)
<1> DEFINE set   == SetOf(g, b)
           s     == c.table[set]
           i     == Find(s, b)
           e     == [blk |-> b, dirty |-> FALSE]
           grown == Cons(e, s)
           f     == Last(grown)
           short == Front(grown)
           a     == AddAddress(g, c, b)
<1>1. a = IF Len(grown) > g.ways
          THEN [cache |-> Replaced(c, set, short), removed |-> {f}]
          ELSE [cache |-> Replaced(c, set, grown), removed |-> {}]
  BY DEF AddAddress, Replaced
<1>2. Own(g, B, c, b, set, s, i)
  BY OwnFacts
<1>3. e \in Entry(B) /\ e.blk = b
  BY DEF Entry
<1> HIDE DEF i, s, set, e, a
<1>4. /\ set \in 0 .. g.sets - 1 /\ s = c.table[set] /\ FitsSet(g, B, set, s)
      /\ b \notin BlocksIn(s) /\ SetOf(g, b) = set
  BY <1>2 DEF Own
<1>5. /\ grown \in Seq(Entry(B)) /\ Len(grown) = Len(s) + 1
      /\ Unique(grown) /\ BlocksIn(grown) = BlocksIn(s) \cup {b}
  BY <1>3, <1>4, ConsFacts DEF FitsSet
<1>6. grown[1] = e
  BY <1>3, <1>4, ConsElements DEF FitsSet
<1> HIDE DEF grown
<1>7. \A x \in BlocksIn(grown) : x \in B /\ SetOf(g, x) = set
  BY <1>4, <1>5 DEF FitsSet
<1>8. CASE Len(grown) > g.ways
  <2>1. /\ short \in Seq(Entry(B)) /\ Len(short) = Len(grown) - 1
        /\ Unique(short) /\ f \in Entry(B)
        /\ BlocksIn(short) = BlocksIn(grown) \ {f.blk}
    BY <1>4, <1>5, <1>8, FrontFacts DEF FitsSet, Good, GeometryOK
  <2>2. 1 \in DOMAIN grown /\ Len(grown) \in DOMAIN grown /\ 1 # Len(grown)
    BY <1>4, <1>5, <1>8 DEF FitsSet, Good, GeometryOK
  <2>3. f.blk # b /\ f.blk \in BlocksIn(grown)
    BY <1>3, <1>5, <1>6, <2>2 DEF Unique, BlocksIn, Last
  <2> HIDE DEF f, short
  <2>4. FitsSet(g, B, set, short)
    BY <1>4, <1>5, <1>7, <2>1 DEF FitsSet, Good, GeometryOK
  <2> DEFINE d == Replaced(c, set, short)
  <2>5. /\ Good(g, d, B)
        /\ BlocksIn(s) \subseteq Blocks(c)
        /\ Blocks(d) = (Blocks(c) \ BlocksIn(s)) \cup BlocksIn(short)
    BY <1>4, <2>4, ReplaceSet
  <2>6. a.cache = d /\ a.removed = {f}
    BY <1>1, <1>8
  <2> HIDE DEF d
  <2>7. f.blk \in BlocksIn(s)
    BY <1>5, <2>3
  <2>8. Blocks(d) = (Blocks(c) \cup {b}) \ {f.blk}
    BY <1>5, <2>1, <2>5, <2>7
  <2>9. Added(B, c, b, d, {f})
    BY <2>1, <2>3, <2>5, <2>7, <2>8 DEF Added
  <2> QED BY <2>5, <2>6, <2>9 DEF a
<1>9. CASE ~(Len(grown) > g.ways)
  <2>1. FitsSet(g, B, set, grown)
    BY <1>4, <1>5, <1>7, <1>9 DEF FitsSet, Good, GeometryOK
  <2> DEFINE d == Replaced(c, set, grown)
  <2>2. /\ Good(g, d, B)
        /\ BlocksIn(s) \subseteq Blocks(c)
        /\ Blocks(d) = (Blocks(c) \ BlocksIn(s)) \cup BlocksIn(grown)
    BY <1>4, <2>1, ReplaceSet
  <2>3. a.cache = d /\ a.removed = {}
    BY <1>1, <1>9
  <2> HIDE DEF d
  <2>4. Blocks(d) = Blocks(c) \cup {b}
    BY <1>5, <2>2
  <2>5. Added(B, c, b, d, {})
    BY <2>4 DEF Added
  <2> QED BY <2>2, <2>3, <2>5 DEF a
<1> QED BY <1>8, <1>9

-----------------------------------------------------------------------------
\* The counts.  Only a look-up for the trace changes them.

SameCounts(c, d) == d.hits = c.hits /\ d.misses = c.misses

LEMMA SeekCounts ==
  ASSUME NEW g, NEW B, NEW c, Good(g, c, B), NEW b \in B, NEW op
  PROVE  /\ SameCounts(c, SeekBack(g, c, b, op))
         /\ b \in Blocks(c) =>
              /\ SeekTrace(g, c, b, op).hits = c.hits + 1
              /\ SeekTrace(g, c, b, op).misses = c.misses
         /\ b \notin Blocks(c) =>
              /\ SeekTrace(g, c, b, op).hits = c.hits
              /\ SeekTrace(g, c, b, op).misses = c.misses + 1
<1> DEFINE i == Find(c.table[SetOf(g, b)], b)
<1>1. i # 0 <=> b \in Blocks(c)
  BY OwnFacts DEF Own
<1> HIDE DEF i
<1> DEFINE d == Replaced(c, SetOf(g, b), Touch(c.table[SetOf(g, b)], i, op))
<1>2. SameCounts(c, d)
  BY DEF SameCounts, Replaced, Good, CacheType
<1>3. "hits" \in DOMAIN d /\ "misses" \in DOMAIN d
  BY DEF Replaced, Good, CacheType
<1>4. /\ SeekTrace(g, c, b, op) = IF i # 0 THEN [d EXCEPT !.hits = @ + 1]
                                           ELSE [c EXCEPT !.misses = @ + 1]
      /\ SeekBack(g, c, b, op) = IF i # 0 THEN d ELSE c
  BY DEF Seek, SeekTrace, SeekBack, Count, Replaced, i
<1> HIDE DEF d
<1> QED BY <1>1, <1>2, <1>3, <1>4 DEF SameCounts, Good, CacheType

LEMMA UpdateCounts ==
  ASSUME NEW g, NEW B, NEW c, Good(g, c, B), NEW b \in B
  PROVE  /\ SameCounts(c, Evict(g, c, b))
         /\ SameCounts(c, SetDirty(g, c, b))
         /\ SameCounts(c, SetClean(g, c, b))
         /\ SameCounts(c, AddAddress(g, c, b).cache)
  BY DEF SameCounts, Evict, SetDirty, SetClean, MarkDirty, AddAddress, Good,
     CacheType

-----------------------------------------------------------------------------
\* The order of the entries.  A set of pairs R says which blocks come before
\* which.

Sorted(s, R) ==
  \A j, k \in DOMAIN s : j < k => <<s[j].blk, s[k].blk>> \in R

\* In R2 block b comes first, and the others are as in R.
First(R, b, B) == \A x \in B : x # b => <<b, x>> \in R
Kept(R, R2, b, B) ==
  \A x, y \in B : x # b /\ y # b /\ <<x, y>> \in R => <<x, y>> \in R2

LEMMA SortedRemove ==
  ASSUME NEW B, NEW s \in Seq(Entry(B)), NEW R, Sorted(s, R), NEW i \in DOMAIN s
  PROVE  Sorted(RemoveAt(s, i), R)
<1> DEFINE r == RemoveAt(s, i)
<1>1. /\ r \in Seq(Entry(B)) /\ Len(r) = Len(s) - 1
      /\ \A j \in 1 .. Len(s) - 1 : r[j] = IF j < i THEN s[j] ELSE s[j + 1]
  BY RemoveAtElements
<1> HIDE DEF r
<1>2. ASSUME NEW j \in DOMAIN r, NEW k \in DOMAIN r, j < k
      PROVE  \E m, n \in DOMAIN s : m < n /\ r[j] = s[m] /\ r[k] = s[n]
  <2> DEFINE m == IF j < i THEN j ELSE j + 1
             n == IF k < i THEN k ELSE k + 1
  <2>1. m \in DOMAIN s /\ n \in DOMAIN s /\ m < n /\ r[j] = s[m] /\ r[k] = s[n]
    BY <1>1, <1>2
  <2> QED BY <2>1
<1> QED BY <1>2 DEF Sorted, r

LEMMA SortedCons ==
  ASSUME NEW B, NEW s \in Seq(Entry(B)), NEW R, Sorted(s, R),
         NEW e \in Entry(B), \A x \in BlocksIn(s) : <<e.blk, x>> \in R
  PROVE  Sorted(Cons(e, s), R)
<1> DEFINE r == Cons(e, s)
<1>1. /\ Len(r) = Len(s) + 1 /\ DOMAIN r = 1 .. Len(r) /\ r[1] = e
      /\ \A j \in 1 .. Len(s) : r[j + 1] = s[j]
  BY ConsElements
<1> HIDE DEF r
<1>2. ASSUME NEW j \in DOMAIN r, j # 1
      PROVE  j - 1 \in DOMAIN s /\ r[j] = s[j - 1]
  BY <1>1, <1>2
<1>3. ASSUME NEW j \in DOMAIN r, NEW k \in DOMAIN r, j < k
      PROVE  <<r[j].blk, r[k].blk>> \in R
  <2>1. k # 1 /\ k - 1 \in DOMAIN s /\ r[k] = s[k - 1]
    BY <1>1, <1>2, <1>3
  <2>2. CASE j = 1
    BY <1>1, <2>1, <2>2 DEF BlocksIn
  <2>3. CASE j # 1
    <3>1. j - 1 \in DOMAIN s /\ r[j] = s[j - 1] /\ j - 1 < k - 1
      BY <1>1, <1>2, <1>3, <2>3
    <3> QED BY <2>1, <3>1 DEF Sorted
  <2> QED BY <2>2, <2>3
<1> QED BY <1>3 DEF Sorted, r

\* The last entry comes after all others.
LEMMA SortedFront ==
  ASSUME NEW B, NEW s \in Seq(Entry(B)), NEW R, Sorted(s, R), Len(s) > 0
  PROVE  /\ Sorted(Front(s), R)
         /\ \A x \in BlocksIn(Front(s)) : <<x, Last(s).blk>> \in R
<1> DEFINE r == Front(s)
<1>1. /\ Len(r) = Len(s) - 1 /\ DOMAIN r = 1 .. Len(r)
      /\ \A j \in 1 .. Len(s) - 1 : r[j] = s[j]
      /\ Last(s) = s[Len(s)]
  BY FrontElements
<1> HIDE DEF r
<1>2. \A j \in DOMAIN r : j \in DOMAIN s /\ j < Len(s) /\ r[j] = s[j]
  BY <1>1
<1>3. Len(s) \in DOMAIN s
  OBVIOUS
<1>4. Sorted(r, R)
  BY <1>2 DEF Sorted
<1>5. \A x \in BlocksIn(r) : <<x, Last(s).blk>> \in R
  BY <1>1, <1>2, <1>3 DEF Sorted, BlocksIn
<1> QED BY <1>4, <1>5 DEF r

LEMMA SortedMarked ==
  ASSUME NEW B, NEW s \in Seq(Entry(B)), NEW R, Sorted(s, R),
         NEW i \in DOMAIN s, NEW dirty
  PROVE  Sorted(Marked(s, i, dirty), R)
<1> DEFINE r == Marked(s, i, dirty)
<1>1. \A j \in DOMAIN s : s[j] \in Entry(B)
  OBVIOUS
<1>2. DOMAIN r = DOMAIN s /\ \A j \in DOMAIN s : r[j].blk = s[j].blk
  BY <1>1 DEF Marked, Entry
<1> HIDE DEF r
<1> QED BY <1>2 DEF Sorted, r

\* Entries of other blocks than b stay sorted.
LEMMA SortedKept ==
  ASSUME NEW B, NEW s, BlocksIn(s) \subseteq B, NEW b, b \notin BlocksIn(s),
         NEW R, NEW R2, Sorted(s, R), Kept(R, R2, b, B)
  PROVE  Sorted(s, R2)
<1>1. \A j \in DOMAIN s : s[j].blk \in B /\ s[j].blk # b
  BY DEF BlocksIn
<1> QED BY <1>1 DEF Sorted, Kept

LEMMA SortedTouch ==
  ASSUME NEW B, NEW s \in Seq(Entry(B)), Unique(s), BlocksIn(s) \subseteq B,
         NEW i \in DOMAIN s, NEW op, NEW R, NEW R2, Sorted(s, R),
         First(R2, s[i].blk, B), Kept(R, R2, s[i].blk, B)
  PROVE  Sorted(Touch(s, i, op), R2)
<1> DEFINE e == [s[i] EXCEPT !.dirty = @ \/ op = "w"]
           r == RemoveAt(s, i)
<1>1. s[i] \in Entry(B)
  OBVIOUS
<1>2. e \in Entry(B) /\ e.blk = s[i].blk
  BY <1>1 DEF Entry
<1>3. Touch(s, i, op) = Cons(e, r)
  BY DEF Touch
<1>4. /\ r \in Seq(Entry(B)) /\ BlocksIn(r) = BlocksIn(s) \ {s[i].blk}
      /\ Sorted(r, R)
  BY RemoveAtFacts, SortedRemove
<1> HIDE DEF e, r
<1>5. Sorted(r, R2)
  <2>1. BlocksIn(r) \subseteq B /\ s[i].blk \notin BlocksIn(r)
    BY <1>4
  <2> QED BY <1>4, <2>1, SortedKept
<1>6. \A x \in BlocksIn(r) : <<e.blk, x>> \in R2
  BY <1>2, <1>4 DEF First
<1> QED BY <1>2, <1>3, <1>4, <1>5, <1>6, SortedCons

-----------------------------------------------------------------------------
\* The order of the entries of a whole cache.

InOrder(g, c, R) == \A s \in 0 .. g.sets - 1 : Sorted(c.table[s], R)

LEMMA ReplaceInOrder ==
  ASSUME NEW g, NEW B, NEW c, Good(g, c, B), NEW set \in 0 .. g.sets - 1,
         NEW r, NEW R, Sorted(r, R),
         \A s \in 0 .. g.sets - 1 : s # set => Sorted(c.table[s], R)
  PROVE  InOrder(g, Replaced(c, set, r), R)
<1>1. \A s \in 0 .. g.sets - 1 :
        Replaced(c, set, r).table[s] = IF s = set THEN r ELSE c.table[s]
  BY DEF Good, CacheType, Replaced
<1> QED BY <1>1 DEF InOrder

LEMMA CountInOrder ==
  ASSUME NEW g, NEW B, NEW c, Good(g, c, B), NEW R, InOrder(g, c, R), NEW d,
         d \in {c, [c EXCEPT !.hits = @ + 1], [c EXCEPT !.misses = @ + 1]}
  PROVE  InOrder(g, d, R)
<1>1. d.table = c.table
  BY DEF Good, CacheType
<1> QED BY <1>1 DEF InOrder

\* Sets that do not hold b stay sorted when b comes first.
LEMMA OthersInOrder ==
  ASSUME NEW g, NEW B, NEW c, Good(g, c, B), NEW b, NEW R, NEW R2,
         InOrder(g, c, R), Kept(R, R2, b, B), NEW s \in 0 .. g.sets - 1,
         b \notin BlocksIn(c.table[s])
  PROVE  Sorted(c.table[s], R2)
<1>1. FitsSet(g, B, s, c.table[s])
  BY SetFacts
<1>2. BlocksIn(c.table[s]) \subseteq B
  BY <1>1 DEF FitsSet
<1>3. Sorted(c.table[s], R)
  BY DEF InOrder
<1> QED BY <1>2, <1>3, SortedKept

LEMMA SeekInOrder ==
  ASSUME NEW g, NEW B, NEW c, Good(g, c, B), NEW b \in B, NEW op, NEW d,
         d \in {SeekTrace(g, c, b, op), SeekBack(g, c, b, op)},
         NEW R, NEW R2, InOrder(g, c, R), First(R2, b, B), Kept(R, R2, b, B)
  PROVE  InOrder(g, d, R2)
<1> DEFINE set == SetOf(g, b)
           s   == c.table[set]
           i   == Find(s, b)
           r   == Touch(s, i, op)
           t   == Replaced(c, set, r)
<1>1. \/ i # 0 /\ d \in {t, [t EXCEPT !.hits = @ + 1]}
      \/ i = 0 /\ d \in {c, [c EXCEPT !.misses = @ + 1]}
  BY DEF Seek, SeekTrace, SeekBack, Count, Replaced
<1>2. Own(g, B, c, b, set, s, i)
  BY OwnFacts
<1>3. ASSUME NEW q \in 0 .. g.sets - 1, q # set
      PROVE  Sorted(c.table[q], R2)
  <2>1. FitsSet(g, B, q, c.table[q])
    BY SetFacts
  <2>2. b \notin BlocksIn(c.table[q])
    BY <1>3, <2>1 DEF FitsSet
  <2> QED BY <2>2, OthersInOrder
<1> HIDE DEF i, s, set
<1>4. CASE i # 0
  <2>1. /\ i \in DOMAIN s /\ FitsSet(g, B, set, s) /\ s = c.table[set]
        /\ s[i].blk = b /\ set \in 0 .. g.sets - 1
    BY <1>2, <1>4 DEF Own
  <2>2. BlocksIn(s) \subseteq B /\ Sorted(s, R)
    BY <2>1 DEF FitsSet, InOrder
  <2>3. Sorted(r, R2)
    BY <2>1, <2>2, SortedTouch DEF FitsSet
  <2>4. FitsSet(g, B, set, r)
    BY <2>1, TouchFacts DEF FitsSet
  <2> HIDE DEF r
  <2>5. Good(g, t, B)
    BY <2>1, <2>4, ReplaceSet
  <2>6. InOrder(g, t, R2)
    BY <1>3, <2>1, <2>3, ReplaceInOrder
  <2> HIDE DEF t
  <2>7. d \in {t, [t EXCEPT !.hits = @ + 1]}
    BY <1>1, <1>4
  <2> QED BY <2>5, <2>6, <2>7, CountInOrder
<1>5. CASE i = 0
  <2>1. /\ b \notin BlocksIn(s) /\ s = c.table[set]
        /\ set \in 0 .. g.sets - 1
    BY <1>2, <1>5 DEF Own
  <2>2. Sorted(c.table[set], R2)
    BY <2>1, OthersInOrder
  <2>3. InOrder(g, c, R2)
    BY <1>3, <2>2 DEF InOrder
  <2>4. d \in {c, [c EXCEPT !.misses = @ + 1]}
    BY <1>1, <1>5
  <2> QED BY <2>3, <2>4, CountInOrder
<1> QED BY <1>4, <1>5

LEMMA EvictInOrder ==
  ASSUME NEW g, NEW B, NEW c, Good(g, c, B), NEW b \in B,
         NEW R, InOrder(g, c, R)
  PROVE  InOrder(g, Evict(g, c, b), R)
<1> DEFINE set == SetOf(g, b)
           s   == c.table[set]
           i   == Find(s, b)
<1>1. Evict(g, c, b) = IF i # 0 THEN Replaced(c, set, RemoveAt(s, i)) ELSE c
  BY DEF Evict, Replaced
<1>2. Own(g, B, c, b, set, s, i)
  BY OwnFacts
<1> HIDE DEF i, s, set
<1>3. CASE i # 0
  <2>1. /\ i \in DOMAIN s /\ FitsSet(g, B, set, s) /\ s = c.table[set]
        /\ set \in 0 .. g.sets - 1
    BY <1>2, <1>3 DEF Own
  <2>2. Sorted(RemoveAt(s, i), R)
    BY <2>1, SortedRemove DEF FitsSet, InOrder
  <2>3. InOrder(g, Replaced(c, set, RemoveAt(s, i)), R)
    BY <2>1, <2>2, ReplaceInOrder DEF InOrder
  <2> QED BY <1>1, <1>3, <2>3
<1>4. CASE i = 0
  BY <1>1, <1>4
<1> QED BY <1>3, <1>4

LEMMA MarkInOrder ==
  ASSUME NEW g, NEW B, NEW c, Good(g, c, B), NEW b \in B,
         NEW R, InOrder(g, c, R)
  PROVE  InOrder(g, SetDirty(g, c, b), R) /\ InOrder(g, SetClean(g, c, b), R)
<1> DEFINE set == SetOf(g, b)
           s   == c.table[set]
           i   == Find(s, b)
           d(m) == IF i # 0 THEN Replaced(c, set, Marked(s, i, m)) ELSE c
<1>1. SetDirty(g, c, b) = d(TRUE) /\ SetClean(g, c, b) = d(FALSE)
  BY DEF SetDirty, SetClean, MarkDirty, Replaced, Marked
<1>2. Own(g, B, c, b, set, s, i)
  BY OwnFacts
<1> HIDE DEF i, s, set
<1>3. ASSUME NEW m
      PROVE  InOrder(g, d(m), R)
  <2>1. CASE i # 0
    <3>1. /\ i \in DOMAIN s /\ FitsSet(g, B, set, s) /\ s = c.table[set]
          /\ set \in 0 .. g.sets - 1
      BY <1>2, <2>1 DEF Own
    <3>2. Sorted(Marked(s, i, m), R)
      BY <3>1, SortedMarked DEF FitsSet, InOrder
    <3>3. InOrder(g, Replaced(c, set, Marked(s, i, m)), R)
      BY <3>1, <3>2, ReplaceInOrder DEF InOrder
    <3> QED BY <2>1, <3>3
  <2>2. CASE i = 0
    BY <2>2
  <2> QED BY <2>1, <2>2
<1> HIDE DEF d
<1> QED BY <1>1, <1>3

\* A block that is added in front is in order if it comes first, and the entry
\* that makes room comes after all others of its set.
Oldest(g, c, R, x) ==
  \A y \in Blocks(c) : SetOf(g, y) = SetOf(g, x) => <<y, x>> \in R

LEMMA AddInOrder ==
  ASSUME NEW g, NEW B, NEW c, Good(g, c, B), NEW b \in B, b \notin Blocks(c),
         NEW R, InOrder(g, c, R), First(R, b, B)
  PROVE  /\ InOrder(g, AddAddress(g, c, b).cache, R)
         /\ \A e \in AddAddress(g, c, b).removed :
              Oldest(g, AddAddress(g, c, b).cache, R, e.blk)
<1> DEFINE set   == SetOf(g, b)
           s     == c.table[set]
           i     == Find(s, b)
           e     == [blk |-> b, dirty |-> FALSE]
           grown == Cons(e, s)
           f     == Last(grown)
           short == Front(grown)
           a     == AddAddress(g, c, b)
<1>1. a = IF Len(grown) > g.ways
          THEN [cache |-> Replaced(c, set, short), removed |-> {f}]
          ELSE [cache |-> Replaced(c, set, grown), removed |-> {}]
  BY DEF AddAddress, Replaced
<1>2. Own(g, B, c, b, set, s, i)
  BY OwnFacts
<1>3. e \in Entry(B) /\ e.blk = b
  BY DEF Entry
<1>4. Good(g, a.cache, B) /\ (\A x \in a.removed : x.blk \in B)
  <2>1. Good(g, a.cache, B) /\ Added(B, c, b, a.cache, a.removed)
    BY AddAddressFacts
  <2> HIDE DEF a
  <2> QED BY <2>1 DEF Added, Entry
<1> HIDE DEF i, s, set, e, a
<1>5. /\ set \in 0 .. g.sets - 1 /\ s = c.table[set] /\ FitsSet(g, B, set, s)
      /\ b \notin BlocksIn(s)
  BY <1>2 DEF Own
<1>6. /\ Sorted(s, R) /\ BlocksIn(s) \subseteq B /\ s \in Seq(Entry(B))
  BY <1>5 DEF FitsSet, InOrder
<1>7. \A x \in BlocksIn(s) : <<e.blk, x>> \in R
  BY <1>3, <1>5, <1>6 DEF First
<1>8. /\ Sorted(grown, R) /\ grown \in Seq(Entry(B)) /\ Len(grown) = Len(s) + 1
      /\ BlocksIn(grown) = BlocksIn(s) \cup {b}
  BY <1>3, <1>5, <1>6, <1>7, SortedCons, ConsFacts DEF FitsSet
<1> HIDE DEF grown
<1>9. CASE Len(grown) > g.ways
  <2>1. a.cache = Replaced(c, set, short) /\ a.removed = {f}
    BY <1>1, <1>9
  <2>2. Len(grown) > 0
    BY <1>6, <1>8
  <2>3. Sorted(short, R) /\ \A x \in BlocksIn(short) : <<x, f.blk>> \in R
    BY <1>8, <2>2, SortedFront
  <2>4. SetOf(g, f.blk) = set
    <3>1. \A x \in BlocksIn(grown) : SetOf(g, x) = set
      BY <1>2, <1>5, <1>8 DEF FitsSet, Own
    <3>2. f.blk \in BlocksIn(grown)
      <4>1. Len(grown) \in DOMAIN grown
        BY <1>8, <2>2
      <4> QED BY <4>1 DEF BlocksIn, Last
    <3> QED BY <3>1, <3>2
  <2> HIDE DEF short, f
  <2>5. InOrder(g, a.cache, R)
    BY <1>5, <2>1, <2>3, ReplaceInOrder DEF InOrder
  <2>6. a.cache.table[set] = short
    BY <1>5, <2>1 DEF Replaced, Good, CacheType
  <2>7. ASSUME NEW y \in Blocks(a.cache), SetOf(g, y) = SetOf(g, f.blk)
        PROVE  <<y, f.blk>> \in R
    <3>1. y \in B
      BY <1>4, BlocksInB
    <3>2. y \in BlocksIn(a.cache.table[set])
      BY <1>4, <2>4, <2>7, <3>1, BlocksFacts
    <3> QED BY <2>3, <2>6, <3>2
  <2>8. \A x \in a.removed : Oldest(g, a.cache, R, x.blk)
    BY <2>1, <2>7 DEF Oldest
  <2> QED BY <2>5, <2>8 DEF a
<1>10. CASE ~(Len(grown) > g.ways)
  <2>1. a.cache = Replaced(c, set, grown) /\ a.removed = {}
    BY <1>1, <1>10
  <2>2. InOrder(g, a.cache, R)
    BY <1>5, <1>8, <2>1, ReplaceInOrder DEF InOrder
  <2> QED BY <2>1, <2>2 DEF a
<1> QED BY <1>9, <1>10

-----------------------------------------------------------------------------
\* The two levels.

(***************************************************************************)
(* The inductive invariant.  Inclusion and the places of the entries need  *)
(* each other: a write-back moves no block only because it finds its own,  *)
(* and a removed block is gone only because it was there once.             *)
(***************************************************************************)
Good1(c) == Good(Geometry1, c, Block)
Good2(c) == Good(Geometry2, c, Block)

Levels(c1, c2) == Good1(c1) /\ Good2(c2) /\ Blocks(c1) \subseteq Blocks(c2)

Counters ==
  /\ wrAlloc \in BOOLEAN
  /\ counter \in 0 .. MaxLines
  /\ sumCycles \in Nat

IInv == Counters /\ Levels(l1, l2) /\ Accounting

-----------------------------------------------------------------------------
\* What a write-back and a removal do to the other level.
LEMMA WriteBackFacts ==
  ASSUME NEW c2, Good2(c2), NEW removed,
         \/ removed = {}
         \/ \E e \in Entry(Block) : removed = {e}
  PROVE  /\ Good2(WriteBack(c2, removed))
         /\ Blocks(WriteBack(c2, removed)) = Blocks(c2)
         /\ SameCounts(c2, WriteBack(c2, removed))
<1>1. CASE \E e \in removed : e.dirty
  <2>1. PICK e \in Entry(Block) : removed = {e}
    BY <1>1
  <2>2. (CHOOSE x \in removed : TRUE) = e
    BY <2>1
  <2>3. WriteBack(c2, removed) = SeekBack(Geometry2, c2, e.blk, "w")
    BY <1>1, <2>2 DEF WriteBack, SeekBack
  <2>4. e.blk \in Block
    BY DEF Entry
  <2> QED BY <2>3, <2>4, SeekFacts, SeekCounts DEF Good2
<1>2. CASE ~ \E e \in removed : e.dirty
  <2>1. WriteBack(c2, removed) = c2
    BY <1>2 DEF WriteBack
  <2> QED BY <2>1 DEF SameCounts
<1> QED BY <1>1, <1>2

LEMMA RemovedTooFacts ==
  ASSUME NEW c1, Good1(c1), NEW removed,
         \/ removed = {}
         \/ \E e \in Entry(Block) : removed = {e}
  PROVE  /\ Good1(RemovedToo(c1, removed))
         /\ Blocks(RemovedToo(c1, removed)) =
              Blocks(c1) \ {e.blk : e \in removed}
         /\ SameCounts(c1, RemovedToo(c1, removed))
<1>1. CASE removed = {}
  BY <1>1 DEF RemovedToo, SameCounts
<1>2. CASE removed # {}
  <2>1. PICK e \in Entry(Block) : removed = {e}
    BY <1>2
  <2>2. (CHOOSE x \in removed : TRUE) = e
    BY <2>1
  <2>3. RemovedToo(c1, removed) = Evict(Geometry1, c1, e.blk)
    BY <1>2, <2>2 DEF RemovedToo
  <2>4. e.blk \in Block
    BY DEF Entry
  <2>5. {x.blk : x \in removed} = {e.blk}
    BY <2>1
  <2> QED BY <2>3, <2>4, <2>5, EvictFacts, UpdateCounts DEF Good1
<1> QED BY <1>1, <1>2

\* Bringing a block of the second level into the first.
LEMMA FillFacts ==
  ASSUME NEW c1, NEW c2, Levels(c1, c2), NEW b \in Block, NEW op,
         b \notin Blocks(c1), b \in Blocks(c2), Fill1(c1, c2, b, op)
  PROVE  /\ Levels(l1', l2')
         /\ SameCounts(c1, l1') /\ SameCounts(c2, l2')
<1> DEFINE a == AddAddress(Geometry1, c1, b)
<1>1. Good1(a.cache) /\ Added(Block, c1, b, a.cache, a.removed)
  BY AddAddressFacts DEF Levels, Good1
<1>2. SameCounts(c1, a.cache)
  BY UpdateCounts DEF Levels, Good1
<1>3. \/ l1' = SetDirty(Geometry1, a.cache, b)
      \/ l1' = a.cache
  BY DEF Fill1, SetDirty
<1>4. l2' = WriteBack(c2, a.removed)
  BY DEF Fill1
<1> HIDE DEF a
<1>5. Blocks(a.cache) \subseteq Blocks(c2)
  BY <1>1 DEF Added, Levels
<1>6. /\ Good1(l1') /\ Blocks(l1') = Blocks(a.cache)
      /\ SameCounts(a.cache, l1')
  <2>1. /\ Good1(SetDirty(Geometry1, a.cache, b))
        /\ Blocks(SetDirty(Geometry1, a.cache, b)) = Blocks(a.cache)
    BY <1>1, SetDirtyFacts DEF Good1
  <2>2. SameCounts(a.cache, SetDirty(Geometry1, a.cache, b))
    BY <1>1, UpdateCounts DEF Good1
  <2>3. SameCounts(a.cache, a.cache)
    BY DEF SameCounts
  <2> QED BY <1>1, <1>3, <2>1, <2>2, <2>3
<1>7. \/ a.removed = {}
      \/ \E e \in Entry(Block) : a.removed = {e}
  BY <1>1 DEF Added
<1>8. /\ Good2(l2') /\ Blocks(l2') = Blocks(c2) /\ SameCounts(c2, l2')
  BY <1>4, <1>7, WriteBackFacts DEF Levels
<1>9. SameCounts(c1, l1')
  BY <1>2, <1>6 DEF SameCounts
<1> QED BY <1>5, <1>6, <1>8, <1>9 DEF Levels

\* Bringing a block into both levels.
LEMMA FillBothFacts ==
  ASSUME NEW c1, NEW c2, Levels(c1, c2), NEW b \in Block, NEW op,
         b \notin Blocks(c2), FillBoth(c1, c2, b, op)
  PROVE  /\ Levels(l1', l2')
         /\ SameCounts(c1, l1') /\ SameCounts(c2, l2')
<1> DEFINE a  == AddAddress(Geometry2, c2, b)
           d1 == RemovedToo(c1, a.removed)
<1>1. Good2(a.cache) /\ Added(Block, c2, b, a.cache, a.removed)
  BY AddAddressFacts DEF Levels, Good2
<1>2. SameCounts(c2, a.cache)
  BY UpdateCounts DEF Levels, Good2
<1>3. Fill1(d1, a.cache, b, op)
  BY DEF FillBoth
<1> HIDE DEF a
<1>4. \/ a.removed = {}
      \/ \E e \in Entry(Block) : a.removed = {e}
  BY <1>1 DEF Added
<1>5. /\ Good1(d1) /\ SameCounts(c1, d1)
      /\ Blocks(d1) = Blocks(c1) \ {e.blk : e \in a.removed}
  BY <1>4, RemovedTooFacts DEF Levels
<1> HIDE DEF d1
<1>6. /\ Blocks(d1) \subseteq Blocks(a.cache)
      /\ b \in Blocks(a.cache) /\ b \notin Blocks(d1)
  BY <1>1, <1>5 DEF Added, Levels
<1>7. Levels(d1, a.cache)
  BY <1>1, <1>5, <1>6 DEF Levels
<1>8. /\ Levels(l1', l2')
      /\ SameCounts(d1, l1') /\ SameCounts(a.cache, l2')
  BY <1>3, <1>6, <1>7, FillFacts
<1> QED BY <1>2, <1>5, <1>8 DEF SameCounts

-----------------------------------------------------------------------------
\* What the look-ups that start every path do.
LEMMA LookedFacts ==
  ASSUME Levels(l1, l2), NEW b \in Block, NEW op
  PROVE  /\ Levels(Looked1(b, op), Looked2(b, op))
         /\ Levels(Looked1(b, op), l2)
         /\ Blocks(Looked1(b, op)) = Blocks(l1)
         /\ Blocks(Looked2(b, op)) = Blocks(l2)
         /\ In1(b) <=> b \in Blocks(l1)
         /\ In2(b) <=> b \in Blocks(l2)
<1> /\ Looked1(b, op) = SeekTrace(Geometry1, l1, b, op)
    /\ Looked2(b, op) = SeekTrace(Geometry2, l2, b, op)
  BY DEF Looked1, Looked2, SeekTrace
<1>1. /\ Good1(Looked1(b, op)) /\ Blocks(Looked1(b, op)) = Blocks(l1)
      /\ Good2(Looked2(b, op)) /\ Blocks(Looked2(b, op)) = Blocks(l2)
  BY SeekFacts DEF Levels, Good1, Good2
<1>2. (In1(b) <=> b \in Blocks(l1)) /\ (In2(b) <=> b \in Blocks(l2))
  BY HoldsFacts DEF In1, In2, Levels, Good1, Good2
<1> QED BY <1>1, <1>2 DEF Levels

\* How the counts move: a hit or a miss of each level that was asked.
Hits(c, d) == d.hits = c.hits + 1 /\ d.misses = c.misses
Misses(c, d) == d.hits = c.hits /\ d.misses = c.misses + 1

LEMMA LookedCounts ==
  ASSUME Levels(l1, l2), NEW b \in Block, NEW op
  PROVE  /\ In1(b) => Hits(l1, Looked1(b, op))
         /\ ~In1(b) => Misses(l1, Looked1(b, op))
         /\ In2(b) => Hits(l2, Looked2(b, op))
         /\ ~In2(b) => Misses(l2, Looked2(b, op))
<1> /\ Looked1(b, op) = SeekTrace(Geometry1, l1, b, op)
    /\ Looked2(b, op) = SeekTrace(Geometry2, l2, b, op)
  BY DEF Looked1, Looked2, SeekTrace
<1>1. (In1(b) <=> b \in Blocks(l1)) /\ (In2(b) <=> b \in Blocks(l2))
  BY LookedFacts
<1>2. /\ b \in Blocks(l1) => Hits(l1, Looked1(b, op))
      /\ b \notin Blocks(l1) => Misses(l1, Looked1(b, op))
  BY SeekCounts DEF Levels, Good1, Hits, Misses
<1>3. /\ b \in Blocks(l2) => Hits(l2, Looked2(b, op))
      /\ b \notin Blocks(l2) => Misses(l2, Looked2(b, op))
  BY SeekCounts DEF Levels, Good2, Hits, Misses
<1> QED BY <1>1, <1>2, <1>3

\* A step of each kind, as far as the levels and the counts are concerned.
Moves1 == Levels(l1', l2') /\ Hits(l1, l1') /\ SameCounts(l2, l2')
             /\ Account(L1Cyc)
Moves2 == Levels(l1', l2') /\ Misses(l1, l1') /\ Hits(l2, l2')
             /\ Account(L1Cyc + L2Cyc)
Moves3 == Levels(l1', l2') /\ Misses(l1, l1') /\ Misses(l2, l2')
             /\ Account(L1Cyc + L2Cyc + MemCyc)

LEMMA Hit1Step ==
  ASSUME Levels(l1, l2), NEW b \in Block, NEW op, Hit1(b, op)
  PROVE  Moves1
<1>1. Levels(Looked1(b, op), l2) /\ Hits(l1, Looked1(b, op))
  BY LookedFacts, LookedCounts DEF Hit1
<1> QED BY <1>1 DEF Hit1, Moves1, SameCounts

LEMMA ReadHit2Step ==
  ASSUME Levels(l1, l2), NEW b \in Block, ReadHit2(b)
  PROVE  Moves2
<1> DEFINE c1 == Looked1(b, "r")
           c2 == Looked2(b, "r")
<1>1. /\ Levels(c1, c2)
      /\ b \notin Blocks(c1) /\ b \in Blocks(c2)
      /\ Misses(l1, c1) /\ Hits(l2, c2)
  BY LookedFacts, LookedCounts DEF ReadHit2
<1>2. Fill1(c1, c2, b, "r") /\ Account(L1Cyc + L2Cyc)
  BY DEF ReadHit2
<1> HIDE DEF c1, c2
<1>3. Levels(l1', l2') /\ SameCounts(c1, l1') /\ SameCounts(c2, l2')
  BY <1>1, <1>2, FillFacts
<1> QED BY <1>1, <1>2, <1>3 DEF Moves2, Misses, Hits, SameCounts

LEMMA WriteHit2AllocStep ==
  ASSUME Levels(l1, l2), NEW b \in Block, WriteHit2Alloc(b)
  PROVE  Moves2
<1> DEFINE c1 == Looked1(b, "w")
           d2 == Looked2(b, "w")
           c2 == SetClean(Geometry2, d2, b)
<1>1. /\ Levels(c1, d2)
      /\ b \notin Blocks(c1) /\ b \in Blocks(d2)
      /\ Misses(l1, c1) /\ Hits(l2, d2)
  BY LookedFacts, LookedCounts DEF WriteHit2Alloc
<1>2. Fill1(c1, c2, b, "w") /\ Account(L1Cyc + L2Cyc)
  BY DEF WriteHit2Alloc, SetClean
<1> HIDE DEF c1, d2
<1>3. Good2(c2) /\ Blocks(c2) = Blocks(d2) /\ SameCounts(d2, c2)
  BY <1>1, SetDirtyFacts, UpdateCounts DEF Good2, Levels
<1>4. Levels(c1, c2)
  BY <1>1, <1>3 DEF Levels
<1> HIDE DEF c2
<1>5. Levels(l1', l2') /\ SameCounts(c1, l1') /\ SameCounts(c2, l2')
  BY <1>1, <1>2, <1>3, <1>4, FillFacts
<1> QED BY <1>1, <1>2, <1>3, <1>5 DEF Moves2, Misses, Hits, SameCounts

LEMMA WriteHit2NoAllocStep ==
  ASSUME Levels(l1, l2), NEW b \in Block, WriteHit2NoAlloc(b)
  PROVE  Moves2
<1>1. /\ Levels(Looked1(b, "w"), Looked2(b, "w"))
      /\ Misses(l1, Looked1(b, "w")) /\ Hits(l2, Looked2(b, "w"))
  BY LookedFacts, LookedCounts DEF WriteHit2NoAlloc
<1> QED BY <1>1 DEF WriteHit2NoAlloc, Moves2

LEMMA MissAllocStep ==
  ASSUME Levels(l1, l2), NEW b \in Block, NEW op, MissAlloc(b, op)
  PROVE  Moves3
<1> DEFINE c1 == Looked1(b, op)
           c2 == Looked2(b, op)
<1>1. /\ Levels(c1, c2)
      /\ b \notin Blocks(c2)
      /\ Misses(l1, c1) /\ Misses(l2, c2)
  BY LookedFacts, LookedCounts DEF MissAlloc
<1>2. FillBoth(c1, c2, b, op) /\ Account(L1Cyc + L2Cyc + MemCyc)
  BY DEF MissAlloc
<1> HIDE DEF c1, c2
<1>3. Levels(l1', l2') /\ SameCounts(c1, l1') /\ SameCounts(c2, l2')
  BY <1>1, <1>2, FillBothFacts
<1> QED BY <1>1, <1>2, <1>3 DEF Moves3, Misses, SameCounts

LEMMA WriteMissNoAllocStep ==
  ASSUME Levels(l1, l2), NEW b \in Block, WriteMissNoAlloc(b)
  PROVE  Moves3
<1>1. /\ Levels(Looked1(b, "w"), Looked2(b, "w"))
      /\ Misses(l1, Looked1(b, "w")) /\ Misses(l2, Looked2(b, "w"))
  BY LookedFacts, LookedCounts DEF WriteMissNoAlloc
<1> QED BY <1>1 DEF WriteMissNoAlloc, Moves3

LEMMA Steps ==
  ASSUME Levels(l1, l2), Next
  PROVE  Moves1 \/ Moves2 \/ Moves3
<1>1. PICK b \in Block : Read(b) \/ Write(b)
  BY DEF Next
<1>2. CASE Read(b)
  BY <1>2, Hit1Step, ReadHit2Step, MissAllocStep DEF Read
<1>3. CASE Write(b)
  BY <1>3, Hit1Step, WriteHit2AllocStep, WriteHit2NoAllocStep, MissAllocStep,
     WriteMissNoAllocStep DEF Write
<1> QED BY <1>1, <1>2, <1>3

-----------------------------------------------------------------------------
LEMMA Geometries ==
  GeometryOK(Geometry1) /\ GeometryOK(Geometry2)
  BY CacheAssumption DEF GeometryType, GeometryOK

LEMMA EmptyFacts ==
  ASSUME NEW g, NEW B, B \subseteq Nat, GeometryOK(g)
  PROVE  Good(g, EmptyCache(g), B) /\ Blocks(EmptyCache(g)) = {}
<1> DEFINE c == EmptyCache(g)
<1>1. /\ c \in CacheType(g, B)
      /\ \A s \in 0 .. g.sets - 1 : c.table[s] = << >>
      /\ DOMAIN c.table = 0 .. g.sets - 1
  BY DEF EmptyCache, CacheType
<1> HIDE DEF c
<1>2. WellPlaced(g, c)
  <2> SUFFICES ASSUME NEW s \in 0 .. g.sets - 1
               PROVE  /\ Len(c.table[s]) <= g.ways
                      /\ DOMAIN c.table[s] = {}
    BY DEF WellPlaced
  <2> QED BY <1>1 DEF GeometryOK
<1>3. \A s \in DOMAIN c.table : ToSet(c.table[s]) = {}
  BY <1>1 DEF ToSet
<1>4. Blocks(c) = {}
  BY <1>3 DEF Blocks, Entries
<1> QED BY <1>1, <1>2, <1>4 DEF Good, c

LEMMA InitInv == Init => IInv
<1> SUFFICES ASSUME Init PROVE IInv
  OBVIOUS
<1>1. Levels(l1, l2)
  BY CacheAssumption, Geometries, EmptyFacts
     DEF Init, Levels, Good1, Good2
<1>2. Counters
  BY CacheAssumption DEF Init, Counters
<1>3. Accounting
  BY CacheAssumption DEF Init, Accounting, EmptyCache
<1> QED BY <1>1, <1>2, <1>3 DEF IInv

\* The counts are natural numbers.
LEMMA CountsInNat ==
  ASSUME Levels(l1, l2)
  PROVE  /\ l1.hits \in Nat /\ l1.misses \in Nat
         /\ l2.hits \in Nat /\ l2.misses \in Nat
  BY DEF Levels, Good1, Good2, Good, CacheType

LEMMA OneMore ==
  ASSUME NEW n \in Nat, NEW t \in Nat
  PROVE  (n + 1) * t = n * t + t /\ n * t \in Nat
  OBVIOUS

LEMMA AccountingStep ==
  ASSUME Levels(l1, l2), Counters, Accounting, Moves1 \/ Moves2 \/ Moves3
  PROVE  Counters' /\ Accounting'
<1> USE CacheAssumption
<1>1. /\ l1.hits \in Nat /\ l1.misses \in Nat
      /\ l2.hits \in Nat /\ l2.misses \in Nat
      /\ counter \in Nat /\ sumCycles \in Nat /\ counter' = counter + 1
      /\ counter' \in 0 .. MaxLines /\ wrAlloc' \in BOOLEAN
  BY CountsInNat DEF Counters, Moves1, Moves2, Moves3, Account
<1> DEFINE T1 == counter * L1Cyc
           T2 == l1.misses * L2Cyc
           T3 == l2.misses * MemCyc
<1>2. /\ T1 \in Nat /\ (counter + 1) * L1Cyc = T1 + L1Cyc
      /\ T2 \in Nat /\ (l1.misses + 1) * L2Cyc = T2 + L2Cyc
      /\ T3 \in Nat /\ (l2.misses + 1) * MemCyc = T3 + MemCyc
  BY <1>1, OneMore
<1>3. /\ sumCycles = T1 + T2 + T3
      /\ l1.hits + l1.misses = counter
      /\ l2.hits + l2.misses = l1.misses
  BY DEF Accounting
<1>4. ASSUME l1'.hits + l1'.misses = counter',
             l2'.hits + l2'.misses = l1'.misses,
             sumCycles' = (counter + 1) * L1Cyc
                            + l1'.misses * L2Cyc + l2'.misses * MemCyc,
             sumCycles' \in Nat
      PROVE  Counters' /\ Accounting'
  BY <1>1, <1>4 DEF Counters, Accounting
<1>5. CASE Moves1
  <2>1. /\ l1'.hits = l1.hits + 1 /\ l1'.misses = l1.misses
        /\ l2'.hits = l2.hits /\ l2'.misses = l2.misses
        /\ sumCycles' = sumCycles + L1Cyc
    BY <1>5 DEF Moves1, Hits, SameCounts, Account
  <2>2. sumCycles' = (T1 + L1Cyc) + T2 + T3 /\ sumCycles' \in Nat
    <3> HIDE DEF T1, T2, T3
    <3> QED BY <1>2, <1>3, <2>1
  <2>3. /\ l1'.hits + l1'.misses = counter'
        /\ l2'.hits + l2'.misses = l1'.misses
    BY <1>1, <1>3, <2>1
  <2> QED BY <1>2, <1>4, <2>1, <2>2, <2>3
<1>6. CASE Moves2
  <2>1. /\ l1'.hits = l1.hits /\ l1'.misses = l1.misses + 1
        /\ l2'.hits = l2.hits + 1 /\ l2'.misses = l2.misses
        /\ sumCycles' = sumCycles + (L1Cyc + L2Cyc)
    BY <1>6 DEF Moves2, Hits, Misses, Account
  <2>2. sumCycles' = (T1 + L1Cyc) + (T2 + L2Cyc) + T3 /\ sumCycles' \in Nat
    <3> HIDE DEF T1, T2, T3
    <3> QED BY <1>2, <1>3, <2>1
  <2>3. /\ l1'.hits + l1'.misses = counter'
        /\ l2'.hits + l2'.misses = l1'.misses
    BY <1>1, <1>3, <2>1
  <2> QED BY <1>2, <1>4, <2>1, <2>2, <2>3
<1>7. CASE Moves3
  <2>1. /\ l1'.hits = l1.hits /\ l1'.misses = l1.misses + 1
        /\ l2'.hits = l2.hits /\ l2'.misses = l2.misses + 1
        /\ sumCycles' = sumCycles + (L1Cyc + L2Cyc + MemCyc)
    BY <1>7 DEF Moves3, Misses, Account
  <2>2. /\ sumCycles' = (T1 + L1Cyc) + (T2 + L2Cyc) + (T3 + MemCyc)
        /\ sumCycles' \in Nat
    <3> HIDE DEF T1, T2, T3
    <3> QED BY <1>2, <1>3, <2>1
  <2>3. /\ l1'.hits + l1'.misses = counter'
        /\ l2'.hits + l2'.misses = l1'.misses
    BY <1>1, <1>3, <2>1
  <2> QED BY <1>2, <1>4, <2>1, <2>2, <2>3
<1> QED BY <1>5, <1>6, <1>7

LEMMA NextInv == IInv /\ [Next]_vars => IInv'
<1> SUFFICES ASSUME IInv, [Next]_vars PROVE IInv'
  OBVIOUS
<1>1. CASE Next
  <2>1. Moves1 \/ Moves2 \/ Moves3
    BY <1>1, Steps DEF IInv
  <2>2. Levels(l1, l2)'
    BY <2>1 DEF Moves1, Moves2, Moves3, Levels, Good1, Good2
  <2>3. Counters' /\ Accounting'
    BY <2>1, AccountingStep DEF IInv
  <2> QED BY <2>2, <2>3 DEF IInv
<1>2. CASE UNCHANGED vars
  BY <1>2 DEF vars, IInv, Counters, Levels, Accounting, Good1, Good2
<1> QED BY <1>1, <1>2

LEMMA InvImplies ==
  IInv => TypeOK /\ CachesWellPlaced /\ Inclusion /\ Accounting
  BY DEF IInv, Counters, Levels, Good1, Good2, Good, TypeOK,
         CachesWellPlaced, Inclusion

-----------------------------------------------------------------------------
\* IInv holds in every state of every run.
THEOREM InductiveInvariant == Spec => []IInv
  BY InitInv, NextInv, PTL DEF Spec

\* The state keeps its type: caches of sequences of entries, counts in Nat.
THEOREM TypeCorrect == Spec => []TypeOK
  BY InductiveInvariant, InvImplies, PTL

(***************************************************************************)
(* No level ever holds a block twice, in another block's set, or in a set  *)
(* longer than its associativity, although add_address does not look.      *)
(***************************************************************************)
THEOREM NoDuplicates == Spec => []CachesWellPlaced
  BY InductiveInvariant, InvImplies, PTL

(***************************************************************************)
(* The second level includes the first at every line of every trace, so    *)
(* that the write-back of a dirty block always finds its entry.            *)
(***************************************************************************)
THEOREM L2IncludesL1 == Spec => []Inclusion
  BY InductiveInvariant, InvImplies, PTL

(***************************************************************************)
(* The rates and the average that are printed are computed from counts     *)
(* that add up: write-backs and removals are never counted.                *)
(***************************************************************************)
THEOREM CountsAddUp == Spec => []Accounting
  BY InductiveInvariant, InvImplies, PTL

-----------------------------------------------------------------------------
\* Dirty marks in the sets of one cache.

DirtyIn(s) == {x \in BlocksIn(s) : \E i \in DOMAIN s : s[i].blk = x /\ s[i].dirty}

LEMMA DirtyAt ==
  ASSUME NEW s, Unique(s), NEW i \in DOMAIN s
  PROVE  s[i].dirty <=> s[i].blk \in DirtyIn(s)
  BY DEF DirtyIn, BlocksIn, Unique

LEMMA RemoveAtDirty ==
  ASSUME NEW B, NEW s \in Seq(Entry(B)), Unique(s), NEW i \in DOMAIN s
  PROVE  DirtyIn(RemoveAt(s, i)) = DirtyIn(s) \ {s[i].blk}
<1> DEFINE r == RemoveAt(s, i)
<1>. i \in 1 .. Len(s)
  OBVIOUS
<1>1. /\ r \in Seq(Entry(B))
      /\ Len(r) = Len(s) - 1
      /\ \A j \in 1 .. Len(s) - 1 : r[j] = IF j < i THEN s[j] ELSE s[j + 1]
  BY RemoveAtElements
<1> HIDE DEF r
<1>2. ASSUME NEW j \in DOMAIN r
      PROVE  \E k \in DOMAIN s : k # i /\ r[j] = s[k]
  BY <1>1
<1>3. ASSUME NEW k \in DOMAIN s, k # i
      PROVE  \E j \in DOMAIN r : r[j] = s[k]
  <2>1. CASE k < i
    <3>1. k \in DOMAIN r /\ r[k] = s[k]
      BY <1>1, <2>1
    <3> QED BY <3>1
  <2>2. CASE k > i
    <3>1. k - 1 \in DOMAIN r /\ r[k - 1] = s[k]
      BY <1>1, <2>2
    <3> QED BY <3>1
  <2> QED BY <1>3, <2>1, <2>2
<1>4. \A k \in DOMAIN s : s[k].blk = s[i].blk => k = i
  BY DEF Unique
<1>5. \A t, x : x \in DirtyIn(t) <=> \E k \in DOMAIN t : t[k].blk = x /\ t[k].dirty
  BY DEF DirtyIn, BlocksIn
<1>6. ASSUME NEW x \in DirtyIn(r)
      PROVE  x \in DirtyIn(s) \ {s[i].blk}
  <2>1. PICK j \in DOMAIN r : r[j].blk = x /\ r[j].dirty
    BY <1>5, <1>6
  <2>2. PICK k \in DOMAIN s : k # i /\ r[j] = s[k]
    BY <1>2
  <2> QED BY <1>4, <1>5, <2>1, <2>2
<1>7. ASSUME NEW x \in DirtyIn(s) \ {s[i].blk}
      PROVE  x \in DirtyIn(r)
  <2>1. PICK k \in DOMAIN s : s[k].blk = x /\ s[k].dirty
    BY <1>5, <1>7
  <2>2. PICK j \in DOMAIN r : r[j] = s[k]
    BY <1>3, <1>7, <2>1
  <2> QED BY <1>5, <2>1, <2>2
<1>8. DirtyIn(r) = DirtyIn(s) \ {s[i].blk}
  BY <1>6, <1>7
<1> QED BY <1>8 DEF r

LEMMA ConsDirty ==
  ASSUME NEW B, NEW s \in Seq(Entry(B)), NEW e \in Entry(B)
  PROVE  /\ e.dirty => DirtyIn(Cons(e, s)) = DirtyIn(s) \cup {e.blk}
         /\ ~e.dirty /\ e.blk \notin BlocksIn(s) => DirtyIn(Cons(e, s)) = DirtyIn(s)
<1> DEFINE r == Cons(e, s)
<1>1. /\ r \in Seq(Entry(B)) /\ Len(r) = Len(s) + 1 /\ r[1] = e
      /\ \A j \in 1 .. Len(s) : r[j + 1] = s[j]
  BY ConsElements
<1> HIDE DEF r
<1>2. \A j \in DOMAIN r : r[j] = e \/ \E k \in DOMAIN s : r[j] = s[k]
  <2>1. \A j \in DOMAIN r : j = 1 \/ (j - 1 \in DOMAIN s /\ r[j] = s[j - 1])
    BY <1>1
  <2> QED BY <1>1, <2>1
<1>3. \E j \in DOMAIN r : r[j] = e
  BY <1>1
<1>4. \A k \in DOMAIN s : \E j \in DOMAIN r : r[j] = s[k]
  <2>1. \A k \in DOMAIN s : k + 1 \in DOMAIN r /\ r[k + 1] = s[k]
    BY <1>1
  <2> QED BY <2>1
<1> QED BY <1>2, <1>3, <1>4 DEF DirtyIn, BlocksIn, r

LEMMA FrontDirty ==
  ASSUME NEW B, NEW s \in Seq(Entry(B)), Unique(s), Len(s) > 0
  PROVE  /\ DirtyIn(Front(s)) = DirtyIn(s) \ {Last(s).blk}
         /\ Last(s).dirty <=> Last(s).blk \in DirtyIn(s)
<1> DEFINE r == Front(s)
<1>1. /\ r \in Seq(Entry(B))
      /\ Len(r) = Len(s) - 1
      /\ \A j \in 1 .. Len(s) - 1 : r[j] = s[j]
      /\ Last(s) = s[Len(s)]
  BY FrontElements
<1> HIDE DEF r
<1>2. PICK n \in DOMAIN s : n = Len(s)
  OBVIOUS
<1>3. \A k \in DOMAIN s : s[k].blk = s[n].blk => k = n
  BY DEF Unique
<1>4. /\ \A j \in DOMAIN r : j \in DOMAIN s /\ j # n /\ r[j] = s[j]
      /\ \A k \in DOMAIN s : k # n => k \in DOMAIN r
  BY <1>1, <1>2
<1>5. DirtyIn(r) = DirtyIn(s) \ {s[n].blk}
  BY <1>3, <1>4 DEF DirtyIn, BlocksIn
<1> QED BY <1>1, <1>2, <1>5, DirtyAt DEF r

LEMMA MarkedDirty ==
  ASSUME NEW B, NEW s \in Seq(Entry(B)), Unique(s), NEW i \in DOMAIN s,
         NEW dirty \in BOOLEAN
  PROVE  /\ dirty => DirtyIn(Marked(s, i, dirty)) = DirtyIn(s) \cup {s[i].blk}
         /\ ~dirty => DirtyIn(Marked(s, i, dirty)) = DirtyIn(s) \ {s[i].blk}
<1> DEFINE r == Marked(s, i, dirty)
<1>1. \A j \in DOMAIN s : s[j] \in Entry(B)
  OBVIOUS
<1>2. /\ DOMAIN r = DOMAIN s
      /\ \A j \in DOMAIN s : j # i => r[j] = s[j]
      /\ r[i].blk = s[i].blk /\ r[i].dirty = dirty
  BY <1>1 DEF Marked, Entry
<1> HIDE DEF r
<1>3. \A k \in DOMAIN s : s[k].blk = s[i].blk => k = i
  BY DEF Unique
<1> QED BY <1>2, <1>3 DEF DirtyIn, BlocksIn, r

\* A block that is touched stays dirty, or becomes so if it is written.
LEMMA TouchDirty ==
  ASSUME NEW B, NEW s \in Seq(Entry(B)), Unique(s), NEW i \in DOMAIN s, NEW op
  PROVE  /\ op = "w" => DirtyIn(Touch(s, i, op)) = DirtyIn(s) \cup {s[i].blk}
         /\ op # "w" => DirtyIn(Touch(s, i, op)) = DirtyIn(s)
<1> DEFINE e == [s[i] EXCEPT !.dirty = @ \/ op = "w"]
           r == RemoveAt(s, i)
<1>1. s[i] \in Entry(B)
  OBVIOUS
<1>2. /\ e \in Entry(B) /\ e.blk = s[i].blk
      /\ e.dirty <=> (s[i].dirty \/ op = "w")
  BY <1>1 DEF Entry
<1>3. Touch(s, i, op) = Cons(e, r)
  BY DEF Touch
<1>4. /\ r \in Seq(Entry(B)) /\ BlocksIn(r) = BlocksIn(s) \ {s[i].blk}
      /\ DirtyIn(r) = DirtyIn(s) \ {s[i].blk}
  BY RemoveAtFacts, RemoveAtDirty
<1>5. s[i].dirty <=> s[i].blk \in DirtyIn(s)
  BY DirtyAt
<1> HIDE DEF e, r
<1>6. /\ e.dirty => DirtyIn(Cons(e, r)) = DirtyIn(r) \cup {e.blk}
      /\ ~e.dirty => DirtyIn(Cons(e, r)) = DirtyIn(r)
  BY <1>2, <1>4, ConsDirty
<1> QED BY <1>2, <1>3, <1>4, <1>5, <1>6

-----------------------------------------------------------------------------
\* Dirty marks of a whole cache.

LEMMA DirtyBlocksFacts ==
  ASSUME NEW g, NEW B, NEW c, Good(g, c, B)
  PROVE  \A x : x \in DirtyBlocks(c) <=>
                  \E s \in 0 .. g.sets - 1 : x \in DirtyIn(c.table[s])
<1>1. DOMAIN c.table = 0 .. g.sets - 1
  BY DEF Good, CacheType
<1> QED BY <1>1 DEF DirtyBlocks, Entries, ToSet, DirtyIn, BlocksIn

LEMMA DirtyAreBlocks ==
  ASSUME NEW c
  PROVE  DirtyBlocks(c) \subseteq Blocks(c)
  BY DEF DirtyBlocks, Blocks

LEMMA ReplaceDirty ==
  ASSUME NEW g, NEW B, NEW c, Good(g, c, B), NEW set \in 0 .. g.sets - 1,
         NEW r, FitsSet(g, B, set, r)
  PROVE  /\ DirtyIn(c.table[set]) \subseteq DirtyBlocks(c)
         /\ DirtyBlocks(c) \cap BlocksIn(c.table[set]) \subseteq DirtyIn(c.table[set])
         /\ DirtyBlocks(Replaced(c, set, r)) =
              (DirtyBlocks(c) \ BlocksIn(c.table[set])) \cup DirtyIn(r)
<1> DEFINE d == Replaced(c, set, r)
<1>1. Good(g, d, B)
  BY ReplaceSet
<1>2. /\ d.table[set] = r
      /\ \A s \in 0 .. g.sets - 1 : s # set => d.table[s] = c.table[s]
  BY DEF Good, CacheType, Replaced
<1> HIDE DEF d
<1>3. \A x : /\ x \in DirtyBlocks(c) <=>
                  \E s \in 0 .. g.sets - 1 : x \in DirtyIn(c.table[s])
             /\ x \in DirtyBlocks(d) <=>
                  \E s \in 0 .. g.sets - 1 : x \in DirtyIn(d.table[s])
  BY <1>1, DirtyBlocksFacts
<1>4. ASSUME NEW s \in 0 .. g.sets - 1, s # set, NEW x \in BlocksIn(c.table[s])
      PROVE  x \notin BlocksIn(c.table[set])
  <2>1. FitsSet(g, B, s, c.table[s]) /\ FitsSet(g, B, set, c.table[set])
    BY SetFacts
  <2> QED BY <1>4, <2>1 DEF FitsSet
<1>5. \A s : DirtyIn(s) \subseteq BlocksIn(s)
  BY DEF DirtyIn
<1>6. DirtyIn(c.table[set]) \subseteq DirtyBlocks(c)
  BY <1>3
<1>7. DirtyBlocks(c) \cap BlocksIn(c.table[set]) \subseteq DirtyIn(c.table[set])
  BY <1>3, <1>4, <1>5
<1>8. DirtyBlocks(d) = (DirtyBlocks(c) \ BlocksIn(c.table[set])) \cup DirtyIn(r)
  BY <1>2, <1>3, <1>4, <1>5
<1> QED BY <1>6, <1>7, <1>8 DEF d

\* Replacing a set by one with other dirty blocks.
LEMMA SetDirtyBlocks ==
  ASSUME NEW g, NEW B, NEW c, Good(g, c, B), NEW set \in 0 .. g.sets - 1,
         NEW r, FitsSet(g, B, set, r), NEW b \in B
  PROVE  LET s == c.table[set]
             d == Replaced(c, set, r)
         IN  /\ DirtyIn(r) = DirtyIn(s) => DirtyBlocks(d) = DirtyBlocks(c)
             /\ b \in BlocksIn(s) /\ DirtyIn(r) = DirtyIn(s) \cup {b}
                  => DirtyBlocks(d) = DirtyBlocks(c) \cup {b}
             /\ b \in BlocksIn(s) /\ DirtyIn(r) = DirtyIn(s) \ {b}
                  => DirtyBlocks(d) = DirtyBlocks(c) \ {b}
<1> DEFINE s == c.table[set]
           d == Replaced(c, set, r)
<1>1. /\ DirtyIn(s) \subseteq DirtyBlocks(c)
      /\ DirtyBlocks(c) \cap BlocksIn(s) \subseteq DirtyIn(s)
      /\ DirtyBlocks(d) = (DirtyBlocks(c) \ BlocksIn(s)) \cup DirtyIn(r)
  BY ReplaceDirty
<1>2. DirtyIn(s) \subseteq BlocksIn(s)
  BY DEF DirtyIn
<1> HIDE DEF s, d
<1>3. DirtyIn(r) = DirtyIn(s) => DirtyBlocks(d) = DirtyBlocks(c)
  BY <1>1, <1>2
<1>4. b \in BlocksIn(s) /\ DirtyIn(r) = DirtyIn(s) \cup {b}
        => DirtyBlocks(d) = DirtyBlocks(c) \cup {b}
  BY <1>1, <1>2
<1>5. b \in BlocksIn(s) /\ DirtyIn(r) = DirtyIn(s) \ {b}
        => DirtyBlocks(d) = DirtyBlocks(c) \ {b}
  BY <1>1, <1>2
<1> QED BY <1>3, <1>4, <1>5 DEF s, d

LEMMA CountDirty ==
  ASSUME NEW g, NEW B, NEW c, Good(g, c, B), NEW d,
         d \in {c, [c EXCEPT !.hits = @ + 1], [c EXCEPT !.misses = @ + 1]}
  PROVE  DirtyBlocks(d) = DirtyBlocks(c)
<1>1. d.table = c.table
  BY DEF Good, CacheType
<1> QED BY <1>1 DEF DirtyBlocks, Entries

-----------------------------------------------------------------------------
\* What the operations do to the dirty blocks of a cache.

LEMMA SeekDirty ==
  ASSUME NEW g, NEW B, NEW c, Good(g, c, B), NEW b \in B, NEW op, NEW d,
         d \in {SeekTrace(g, c, b, op), SeekBack(g, c, b, op)}
  PROVE  /\ op = "w" /\ b \in Blocks(c) => DirtyBlocks(d) = DirtyBlocks(c) \cup {b}
         /\ op # "w" \/ b \notin Blocks(c) => DirtyBlocks(d) = DirtyBlocks(c)
<1> DEFINE set == SetOf(g, b)
           s   == c.table[set]
           i   == Find(s, b)
           r   == Touch(s, i, op)
           t   == Replaced(c, set, r)
<1>2. \/ i # 0 /\ d \in {t, [t EXCEPT !.hits = @ + 1]}
      \/ i = 0 /\ d \in {c, [c EXCEPT !.misses = @ + 1]}
  BY DEF Seek, SeekTrace, SeekBack, Count, Replaced
<1>3. Own(g, B, c, b, set, s, i)
  BY OwnFacts
<1> HIDE DEF i, s, set
<1>4. CASE i # 0
  <2>1. /\ i \in DOMAIN s /\ FitsSet(g, B, set, s) /\ s = c.table[set]
        /\ s[i].blk = b /\ set \in 0 .. g.sets - 1
        /\ b \in Blocks(c) /\ b \in BlocksIn(s)
    BY <1>3, <1>4 DEF Own
  <2>2. FitsSet(g, B, set, r)
    BY <2>1, TouchFacts DEF FitsSet
  <2>3. /\ op = "w" => DirtyIn(r) = DirtyIn(s) \cup {b}
        /\ op # "w" => DirtyIn(r) = DirtyIn(s)
    BY <2>1, TouchDirty DEF FitsSet
  <2> HIDE DEF r
  <2>4. /\ op = "w" => DirtyBlocks(t) = DirtyBlocks(c) \cup {b}
        /\ op # "w" => DirtyBlocks(t) = DirtyBlocks(c)
    BY <2>1, <2>2, <2>3, SetDirtyBlocks
  <2>5. Good(g, t, B)
    BY <2>1, <2>2, ReplaceSet
  <2> HIDE DEF t
  <2>6. d \in {t, [t EXCEPT !.hits = @ + 1]}
    BY <1>2, <1>4
  <2>7. DirtyBlocks(d) = DirtyBlocks(t)
    BY <2>5, <2>6, CountDirty
  <2> QED BY <2>1, <2>4, <2>7
<1>5. CASE i = 0
  <2>1. b \notin Blocks(c)
    BY <1>3, <1>5 DEF Own
  <2>2. d \in {c, [c EXCEPT !.misses = @ + 1]}
    BY <1>2, <1>5
  <2>3. DirtyBlocks(d) = DirtyBlocks(c)
    BY <2>2, CountDirty
  <2> QED BY <2>1, <2>3
<1> QED BY <1>4, <1>5

LEMMA EvictDirty ==
  ASSUME NEW g, NEW B, NEW c, Good(g, c, B), NEW b \in B
  PROVE  DirtyBlocks(Evict(g, c, b)) = DirtyBlocks(c) \ {b}
<1> DEFINE set == SetOf(g, b)
           s   == c.table[set]
           i   == Find(s, b)
           r   == RemoveAt(s, i)
           d   == Replaced(c, set, r)
<1>1. Evict(g, c, b) = IF i # 0 THEN d ELSE c
  BY DEF Evict, Replaced
<1>2. Own(g, B, c, b, set, s, i)
  BY OwnFacts
<1> HIDE DEF i, s, set
<1>3. CASE i # 0
  <2>1. /\ i \in DOMAIN s /\ s[i].blk = b /\ set \in 0 .. g.sets - 1
        /\ FitsSet(g, B, set, s) /\ s = c.table[set] /\ b \in BlocksIn(s)
    BY <1>2, <1>3 DEF Own
  <2>2. /\ r \in Seq(Entry(B)) /\ Len(r) = Len(s) - 1
        /\ Unique(r) /\ BlocksIn(r) = BlocksIn(s) \ {b}
    BY <2>1, RemoveAtFacts DEF FitsSet
  <2>3. DirtyIn(r) = DirtyIn(s) \ {b}
    BY <2>1, RemoveAtDirty DEF FitsSet
  <2> HIDE DEF r
  <2>4. FitsSet(g, B, set, r)
    BY <2>1, <2>2 DEF FitsSet, Good, GeometryOK
  <2>5. DirtyBlocks(d) = DirtyBlocks(c) \ {b}
    BY <2>1, <2>3, <2>4, SetDirtyBlocks
  <2> QED BY <1>1, <1>3, <2>5
<1>4. CASE i = 0
  <2>1. b \notin DirtyBlocks(c)
    BY <1>2, <1>4, DirtyAreBlocks DEF Own
  <2> QED BY <1>1, <1>4, <2>1
<1> QED BY <1>3, <1>4

LEMMA MarkDirtyDirty ==
  ASSUME NEW g, NEW B, NEW c, Good(g, c, B), NEW b \in B, b \in Blocks(c)
  PROVE  /\ DirtyBlocks(SetDirty(g, c, b)) = DirtyBlocks(c) \cup {b}
         /\ DirtyBlocks(SetClean(g, c, b)) = DirtyBlocks(c) \ {b}
<1> DEFINE set   == SetOf(g, b)
           s     == c.table[set]
           i     == Find(s, b)
           r(m)  == Marked(s, i, m)
           d(m)  == Replaced(c, set, r(m))
<1>1. Own(g, B, c, b, set, s, i)
  BY OwnFacts
<1>2. i # 0
  BY <1>1 DEF Own
<1>3. SetDirty(g, c, b) = d(TRUE) /\ SetClean(g, c, b) = d(FALSE)
  BY <1>2 DEF SetDirty, SetClean, MarkDirty, Replaced, Marked
<1> HIDE DEF i, s, set
<1>4. /\ i \in DOMAIN s /\ s[i].blk = b /\ set \in 0 .. g.sets - 1
      /\ FitsSet(g, B, set, s) /\ s = c.table[set] /\ b \in BlocksIn(s)
  BY <1>1, <1>2 DEF Own
<1>5. ASSUME NEW m \in BOOLEAN
      PROVE  /\ m => DirtyBlocks(d(m)) = DirtyBlocks(c) \cup {b}
             /\ ~m => DirtyBlocks(d(m)) = DirtyBlocks(c) \ {b}
  <2> DEFINE q == Marked(s, i, m)
  <2>1. FitsSet(g, B, set, q)
    BY <1>4, MarkFacts DEF FitsSet
  <2>2. /\ m => DirtyIn(q) = DirtyIn(s) \cup {b}
        /\ ~m => DirtyIn(q) = DirtyIn(s) \ {b}
    BY <1>4, MarkedDirty DEF FitsSet
  <2> HIDE DEF q
  <2>3. /\ m => DirtyBlocks(Replaced(c, set, q)) = DirtyBlocks(c) \cup {b}
        /\ ~m => DirtyBlocks(Replaced(c, set, q)) = DirtyBlocks(c) \ {b}
    BY <1>4, <2>1, <2>2, SetDirtyBlocks
  <2> QED BY <2>3 DEF q
<1> HIDE DEF d
<1> QED BY <1>3, <1>5

\* The new entry is clean; an entry that is dropped takes its mark along.
AddedDirty(c, cache, removed) ==
  \/ removed = {} /\ DirtyBlocks(cache) = DirtyBlocks(c)
  \/ \E e : /\ removed = {e}
            /\ e.dirty <=> e.blk \in DirtyBlocks(c)
            /\ DirtyBlocks(cache) = DirtyBlocks(c) \ {e.blk}

LEMMA AddAddressDirty ==
  ASSUME NEW g, NEW B, NEW c, Good(g, c, B), NEW b \in B, b \notin Blocks(c)
  PROVE  AddedDirty(c, AddAddress(g, c, b).cache, AddAddress(g, c, b).removed)
<1> DEFINE set   == SetOf(g, b)
           s     == c.table[set]
           i     == Find(s, b)
           e     == [blk |-> b, dirty |-> FALSE]
           grown == Cons(e, s)
           f     == Last(grown)
           short == Front(grown)
           a     == AddAddress(g, c, b)
<1>1. a = IF Len(grown) > g.ways
          THEN [cache |-> Replaced(c, set, short), removed |-> {f}]
          ELSE [cache |-> Replaced(c, set, grown), removed |-> {}]
  BY DEF AddAddress, Replaced
<1>2. Own(g, B, c, b, set, s, i)
  BY OwnFacts
<1>3. e \in Entry(B) /\ e.blk = b /\ ~e.dirty
  BY DEF Entry
<1> HIDE DEF i, s, set, e, a
<1>4. /\ set \in 0 .. g.sets - 1 /\ s = c.table[set] /\ FitsSet(g, B, set, s)
      /\ b \notin BlocksIn(s) /\ SetOf(g, b) = set
  BY <1>2 DEF Own
<1>5. /\ grown \in Seq(Entry(B)) /\ Len(grown) = Len(s) + 1
      /\ Unique(grown) /\ BlocksIn(grown) = BlocksIn(s) \cup {b}
  BY <1>3, <1>4, ConsFacts DEF FitsSet
<1>6. DirtyIn(grown) = DirtyIn(s)
  BY <1>3, <1>4, ConsDirty DEF FitsSet
<1>7. grown[1] = e
  BY <1>3, <1>4, ConsElements DEF FitsSet
<1> HIDE DEF grown
<1>8. \A x \in BlocksIn(grown) : x \in B /\ SetOf(g, x) = set
  BY <1>4, <1>5 DEF FitsSet
<1>9. CASE Len(grown) > g.ways
  <2>1. /\ short \in Seq(Entry(B)) /\ Len(short) = Len(grown) - 1
        /\ Unique(short) /\ f \in Entry(B)
        /\ BlocksIn(short) = BlocksIn(grown) \ {f.blk}
    BY <1>4, <1>5, <1>9, FrontFacts DEF FitsSet, Good, GeometryOK
  <2>2. /\ DirtyIn(short) = DirtyIn(s) \ {f.blk}
        /\ f.dirty <=> f.blk \in DirtyIn(s)
    BY <1>4, <1>5, <1>6, <1>9, FrontDirty DEF FitsSet, Good, GeometryOK
  <2>3. 1 \in DOMAIN grown /\ Len(grown) \in DOMAIN grown /\ 1 # Len(grown)
    BY <1>4, <1>5, <1>9 DEF FitsSet, Good, GeometryOK
  <2>4. f.blk # b /\ f.blk \in BlocksIn(grown)
    BY <1>3, <1>5, <1>7, <2>3 DEF Unique, BlocksIn, Last
  <2> HIDE DEF f, short
  <2>5. f.blk \in BlocksIn(s) /\ f.blk \in B
    BY <1>5, <1>8, <2>4
  <2>6. FitsSet(g, B, set, short)
    BY <1>4, <1>5, <1>8, <2>1 DEF FitsSet, Good, GeometryOK
  <2>7. DirtyBlocks(Replaced(c, set, short)) = DirtyBlocks(c) \ {f.blk}
    BY <1>4, <2>2, <2>5, <2>6, SetDirtyBlocks
  <2>8. f.blk \in DirtyIn(s) <=> f.blk \in DirtyBlocks(c)
    BY <1>4, <2>5, <2>6, ReplaceDirty
  <2>9. a.cache = Replaced(c, set, short) /\ a.removed = {f}
    BY <1>1, <1>9
  <2> QED BY <2>2, <2>7, <2>8, <2>9 DEF AddedDirty, a
<1>10. CASE ~(Len(grown) > g.ways)
  <2>1. FitsSet(g, B, set, grown)
    BY <1>4, <1>5, <1>8, <1>10 DEF FitsSet, Good, GeometryOK
  <2>2. DirtyBlocks(Replaced(c, set, grown)) = DirtyBlocks(c)
    BY <1>4, <1>6, <2>1, SetDirtyBlocks
  <2>3. a.cache = Replaced(c, set, grown) /\ a.removed = {}
    BY <1>1, <1>10
  <2> QED BY <2>2, <2>3 DEF AddedDirty, a
<1> QED BY <1>9, <1>10
-----------------------------------------------------------------------------
\* Dirty marks on their way between the levels.

Modified(c1, c2) == DirtyBlocks(c1) \cup DirtyBlocks(c2)

\* A write-back of the entry the first level has dropped.
LEMMA WriteBackDirty ==
  ASSUME NEW c2, Good2(c2), NEW e \in Entry(Block), e.blk \in Blocks(c2)
  PROVE  /\ e.dirty =>
              DirtyBlocks(WriteBack(c2, {e})) = DirtyBlocks(c2) \cup {e.blk}
         /\ ~e.dirty => DirtyBlocks(WriteBack(c2, {e})) = DirtyBlocks(c2)
<1>1. CASE e.dirty
  <2>1. (CHOOSE x \in {e} : TRUE) = e
    OBVIOUS
  <2>2. WriteBack(c2, {e}) = SeekBack(Geometry2, c2, e.blk, "w")
    BY <1>1, <2>1 DEF WriteBack, SeekBack
  <2>3. e.blk \in Block
    BY DEF Entry
  <2> DEFINE d == SeekBack(Geometry2, c2, e.blk, "w")
  <2>4. d \in {SeekTrace(Geometry2, c2, e.blk, "w"), SeekBack(Geometry2, c2, e.blk, "w")}
    OBVIOUS
  <2>5. Good(Geometry2, c2, Block)
    BY DEF Good2
  <2> HIDE DEF d
  <2>6. DirtyBlocks(d) = DirtyBlocks(c2) \cup {e.blk}
    BY <2>3, <2>4, <2>5, SeekDirty
  <2> QED BY <1>1, <2>2, <2>6 DEF d
<1>2. CASE ~e.dirty
  BY <1>2 DEF WriteBack
<1> QED BY <1>1, <1>2

Filled(c1, c2, b, op, d1, d2) ==
  /\ Blocks(d1) \subseteq Blocks(c1) \cup {b}
  /\ b \in Blocks(d1)
  /\ Blocks(d2) = Blocks(c2)
  /\ op = "w" => Modified(d1, d2) = Modified(c1, c2) \cup {b}
  /\ op # "w" => Modified(d1, d2) = Modified(c1, c2)

LEMMA Fill1Modified ==
  ASSUME NEW c1, NEW c2, Levels(c1, c2), NEW b \in Block, NEW op,
         b \notin Blocks(c1), b \in Blocks(c2), Fill1(c1, c2, b, op)
  PROVE  Filled(c1, c2, b, op, l1', l2')
<1> DEFINE a == AddAddress(Geometry1, c1, b)
<1>1. /\ Good1(a.cache) /\ Added(Block, c1, b, a.cache, a.removed)
      /\ AddedDirty(c1, a.cache, a.removed)
  BY AddAddressFacts, AddAddressDirty DEF Levels, Good1
<1>2. /\ op = "w" => l1' = SetDirty(Geometry1, a.cache, b)
      /\ op # "w" => l1' = a.cache
      /\ l2' = WriteBack(c2, a.removed)
  BY DEF Fill1, SetDirty
<1> HIDE DEF a
<1>3. Blocks(a.cache) \subseteq Blocks(c1) \cup {b} /\ b \in Blocks(a.cache)
  BY <1>1 DEF Added
<1>4. /\ Blocks(l1') = Blocks(a.cache)
      /\ op = "w" => DirtyBlocks(l1') = DirtyBlocks(a.cache) \cup {b}
      /\ op # "w" => DirtyBlocks(l1') = DirtyBlocks(a.cache)
  <2>1. /\ Blocks(SetDirty(Geometry1, a.cache, b)) = Blocks(a.cache)
        /\ DirtyBlocks(SetDirty(Geometry1, a.cache, b)) = DirtyBlocks(a.cache) \cup {b}
    BY <1>1, <1>3, SetDirtyFacts, MarkDirtyDirty DEF Good1
  <2> QED BY <1>2, <2>1
<1>5. /\ Blocks(l2') = Blocks(c2)
      /\ DirtyBlocks(a.cache) \cup DirtyBlocks(l2') = Modified(c1, c2)
  <2>1. CASE a.removed = {}
    <3>1. DirtyBlocks(a.cache) = DirtyBlocks(c1)
      BY <1>1, <2>1 DEF AddedDirty
    <3>2. WriteBack(c2, a.removed) = c2
      BY <2>1 DEF WriteBack
    <3> QED BY <1>2, <3>1, <3>2 DEF Modified
  <2>2. CASE a.removed # {}
    <3>1. PICK e \in Entry(Block) : a.removed = {e} /\ e.blk \in Blocks(c1)
      BY <1>1, <2>2 DEF Added
    <3>2. /\ e.dirty <=> e.blk \in DirtyBlocks(c1)
          /\ DirtyBlocks(a.cache) = DirtyBlocks(c1) \ {e.blk}
      BY <1>1, <3>1 DEF AddedDirty
    <3>3. Good2(c2) /\ e.blk \in Blocks(c2)
      BY <3>1 DEF Levels
    <3>4. Blocks(WriteBack(c2, {e})) = Blocks(c2)
      BY <3>3, WriteBackFacts
    <3>5. /\ e.dirty =>
               DirtyBlocks(WriteBack(c2, {e})) = DirtyBlocks(c2) \cup {e.blk}
          /\ ~e.dirty => DirtyBlocks(WriteBack(c2, {e})) = DirtyBlocks(c2)
      BY <3>3, WriteBackDirty
    <3>6. l2' = WriteBack(c2, {e})
      BY <1>2, <3>1
    <3> QED BY <3>2, <3>4, <3>5, <3>6 DEF Modified
  <2> QED BY <2>1, <2>2
<1> QED BY <1>3, <1>4, <1>5 DEF Filled, Modified

\* Filling both levels drops at most one block from both.
FilledBoth(c1, c2, b, op, d1, d2) ==
  \E left \in {{}} \cup {{x} : x \in Blocks(c2)} :
    /\ Blocks(d2) = (Blocks(c2) \ left) \cup {b}
    /\ Blocks(d1) \subseteq (Blocks(c1) \ left) \cup {b}
    /\ b \in Blocks(d1)
    /\ op = "w" => Modified(d1, d2) = (Modified(c1, c2) \ left) \cup {b}
    /\ op # "w" => Modified(d1, d2) = Modified(c1, c2) \ left

LEMMA FillBothModified ==
  ASSUME NEW c1, NEW c2, Levels(c1, c2), NEW b \in Block, NEW op,
         b \notin Blocks(c2), FillBoth(c1, c2, b, op)
  PROVE  FilledBoth(c1, c2, b, op, l1', l2')
<1> DEFINE a  == AddAddress(Geometry2, c2, b)
           d1 == RemovedToo(c1, a.removed)
<1>1. /\ Good2(a.cache) /\ Added(Block, c2, b, a.cache, a.removed)
      /\ AddedDirty(c2, a.cache, a.removed)
  BY AddAddressFacts, AddAddressDirty DEF Levels, Good2
<1>2. Fill1(d1, a.cache, b, op)
  BY DEF FillBoth
<1> HIDE DEF a
<1>3. \/ a.removed = {}
      \/ \E e \in Entry(Block) : a.removed = {e}
  BY <1>1 DEF Added
<1>4. /\ Good1(d1)
      /\ Blocks(d1) = Blocks(c1) \ {e.blk : e \in a.removed}
  BY <1>3, RemovedTooFacts DEF Levels
<1>5. PICK left \in {{}} \cup {{x} : x \in Blocks(c2)} :
        /\ Blocks(a.cache) = (Blocks(c2) \ left) \cup {b}
        /\ Blocks(d1) = Blocks(c1) \ left
        /\ DirtyBlocks(a.cache) = DirtyBlocks(c2) \ left
        /\ DirtyBlocks(d1) = DirtyBlocks(c1) \ left
  <2>1. CASE a.removed = {}
    <3>1. /\ Blocks(a.cache) = Blocks(c2) \cup {b}
          /\ DirtyBlocks(a.cache) = DirtyBlocks(c2)
      BY <1>1, <2>1 DEF Added, AddedDirty
    <3>2. d1 = c1
      BY <2>1 DEF RemovedToo
    <3> QED BY <3>1, <3>2
  <2>2. CASE a.removed # {}
    <3>1. PICK e \in Entry(Block) :
            /\ a.removed = {e} /\ e.blk # b /\ e.blk \in Blocks(c2)
            /\ Blocks(a.cache) = (Blocks(c2) \cup {b}) \ {e.blk}
      BY <1>1, <2>2 DEF Added
    <3>2. DirtyBlocks(a.cache) = DirtyBlocks(c2) \ {e.blk}
      BY <1>1, <3>1 DEF AddedDirty
    <3>3. {x.blk : x \in a.removed} = {e.blk}
      BY <3>1
    <3>4. (CHOOSE x \in a.removed : TRUE) = e
      BY <3>1
    <3>5. d1 = Evict(Geometry1, c1, e.blk)
      BY <2>2, <3>4 DEF RemovedToo
    <3>6. e.blk \in Block
      BY DEF Entry
    <3>7. DirtyBlocks(d1) = DirtyBlocks(c1) \ {e.blk}
      BY <3>5, <3>6, EvictDirty DEF Levels, Good1
    <3> HIDE DEF d1
    <3>8. Blocks(a.cache) = (Blocks(c2) \ {e.blk}) \cup {b}
      BY <3>1
    <3>9. Blocks(d1) = Blocks(c1) \ {e.blk}
      BY <1>4, <3>3
    <3>10. {e.blk} \in {{}} \cup {{x} : x \in Blocks(c2)}
      BY <3>1
    <3> QED BY <3>2, <3>7, <3>8, <3>9, <3>10
  <2> QED BY <2>1, <2>2
<1> HIDE DEF d1
<1>6. /\ Blocks(d1) \subseteq Blocks(a.cache)
      /\ b \in Blocks(a.cache) /\ b \notin Blocks(d1)
  BY <1>5 DEF Levels
<1>7. Levels(d1, a.cache)
  BY <1>1, <1>4, <1>6 DEF Levels
<1>8. Filled(d1, a.cache, b, op, l1', l2')
  BY <1>2, <1>6, <1>7, Fill1Modified
<1>9. Modified(d1, a.cache) = Modified(c1, c2) \ left
  BY <1>5 DEF Modified
<1> QED BY <1>5, <1>8, <1>9 DEF Filled, FilledBoth

\* The look-ups that start every path.
LEMMA LookedDirty ==
  ASSUME Levels(l1, l2), NEW b \in Block, NEW op
  PROVE  /\ op = "w" /\ b \in Blocks(l1) =>
              DirtyBlocks(Looked1(b, op)) = DirtyBlocks(l1) \cup {b}
         /\ op # "w" \/ b \notin Blocks(l1) =>
              DirtyBlocks(Looked1(b, op)) = DirtyBlocks(l1)
         /\ op = "w" /\ b \in Blocks(l2) =>
              DirtyBlocks(Looked2(b, op)) = DirtyBlocks(l2) \cup {b}
         /\ op # "w" \/ b \notin Blocks(l2) =>
              DirtyBlocks(Looked2(b, op)) = DirtyBlocks(l2)
<1>1. /\ Looked1(b, op) = SeekTrace(Geometry1, l1, b, op)
      /\ Looked2(b, op) = SeekTrace(Geometry2, l2, b, op)
  BY DEF Looked1, Looked2, SeekTrace
<1>2. Good(Geometry1, l1, Block) /\ Good(Geometry2, l2, Block)
  BY DEF Levels, Good1, Good2
<1>3. /\ op = "w" /\ b \in Blocks(l1) =>
           DirtyBlocks(Looked1(b, op)) = DirtyBlocks(l1) \cup {b}
      /\ op # "w" \/ b \notin Blocks(l1) =>
           DirtyBlocks(Looked1(b, op)) = DirtyBlocks(l1)
  BY <1>1, <1>2, SeekDirty
<1>4. /\ op = "w" /\ b \in Blocks(l2) =>
           DirtyBlocks(Looked2(b, op)) = DirtyBlocks(l2) \cup {b}
      /\ op # "w" \/ b \notin Blocks(l2) =>
           DirtyBlocks(Looked2(b, op)) = DirtyBlocks(l2)
  BY <1>1, <1>2, SeekDirty
<1> QED BY <1>3, <1>4

-----------------------------------------------------------------------------
\* Each path of handle_line is a step of the hierarchy.

\* The steps of WriteBackHierarchy, for levels that become d1 and d2.
Reads(b, d1, d2) ==
  /\ b \in Blocks(l2) => Blocks(d2) = Blocks(l2) /\ Modified(d1, d2) = Modified(l1, l2)
  /\ b \notin Blocks(l2) =>
       \E left \in {{}} \cup {{x} : x \in Blocks(l2)} :
         /\ Blocks(d2) = (Blocks(l2) \ left) \cup {b}
         /\ Modified(d1, d2) = Modified(l1, l2) \ left
  /\ Blocks(d1) \subseteq (Blocks(l1) \cup {b}) \cap Blocks(d2)
  /\ b \in Blocks(d1)

Writes(b, d1, d2) ==
  /\ b \in Blocks(l2) =>
       Blocks(d2) = Blocks(l2) /\ Modified(d1, d2) = Modified(l1, l2) \cup {b}
  /\ b \notin Blocks(l2) =>
       \E left \in {{}} \cup {{x} : x \in Blocks(l2)} :
         /\ Blocks(d2) = (Blocks(l2) \ left) \cup {b}
         /\ Modified(d1, d2) = (Modified(l1, l2) \ left) \cup {b}
  /\ Blocks(d1) \subseteq (Blocks(l1) \cup {b}) \cap Blocks(d2)

WritesAround(b, d1, d2) ==
  /\ b \notin Blocks(l2)
  /\ Blocks(d1) = Blocks(l1) /\ Blocks(d2) = Blocks(l2)
  /\ Modified(d1, d2) = Modified(l1, l2)

LEMMA Hit1Hierarchy ==
  ASSUME Levels(l1, l2), NEW b \in Block, NEW op, Hit1(b, op)
  PROVE  /\ op # "w" => Reads(b, l1', l2')
         /\ op = "w" => Writes(b, l1', l2')
<1>1. /\ Blocks(l1') = Blocks(l1) /\ l2' = l2 /\ b \in Blocks(l1)
      /\ l1' = Looked1(b, op)
  BY LookedFacts DEF Hit1
<1>2. /\ op = "w" => DirtyBlocks(l1') = DirtyBlocks(l1) \cup {b}
      /\ op # "w" => DirtyBlocks(l1') = DirtyBlocks(l1)
  BY <1>1, LookedDirty
<1>3. Blocks(l1) \subseteq Blocks(l2)
  BY DEF Levels
<1> QED BY <1>1, <1>2, <1>3 DEF Reads, Writes, Modified

LEMMA ReadHit2Hierarchy ==
  ASSUME Levels(l1, l2), NEW b \in Block, ReadHit2(b)
  PROVE  Reads(b, l1', l2')
<1> DEFINE c1 == Looked1(b, "r")
           c2 == Looked2(b, "r")
<1>1. /\ Levels(c1, c2) /\ b \notin Blocks(c1) /\ b \in Blocks(c2)
      /\ Blocks(c1) = Blocks(l1) /\ Blocks(c2) = Blocks(l2)
  BY LookedFacts DEF ReadHit2
<1>2. Modified(c1, c2) = Modified(l1, l2)
  BY LookedDirty DEF Modified
<1>3. Fill1(c1, c2, b, "r")
  BY DEF ReadHit2
<1> HIDE DEF c1, c2
<1>4. Filled(c1, c2, b, "r", l1', l2') /\ Levels(l1', l2')
  BY <1>1, <1>3, Fill1Modified, FillFacts
<1> QED BY <1>1, <1>2, <1>4 DEF Filled, Reads, Levels

LEMMA WriteHit2AllocHierarchy ==
  ASSUME Levels(l1, l2), NEW b \in Block, WriteHit2Alloc(b)
  PROVE  Writes(b, l1', l2')
<1> DEFINE c1 == Looked1(b, "w")
           d2 == Looked2(b, "w")
           c2 == SetClean(Geometry2, d2, b)
<1>1. /\ Levels(c1, d2) /\ b \notin Blocks(c1) /\ b \in Blocks(d2)
      /\ Blocks(c1) = Blocks(l1) /\ Blocks(d2) = Blocks(l2)
  BY LookedFacts DEF WriteHit2Alloc
<1>2. Fill1(c1, c2, b, "w")
  BY DEF WriteHit2Alloc, SetClean
<1>3. /\ DirtyBlocks(c1) = DirtyBlocks(l1)
      /\ DirtyBlocks(d2) = DirtyBlocks(l2) \cup {b}
  <2>1. b \notin Blocks(l1) /\ b \in Blocks(l2)
    BY <1>1
  <2> QED BY <2>1, LookedDirty
<1> HIDE DEF c1, d2
<1>4. Good2(c2) /\ Blocks(c2) = Blocks(d2) /\ DirtyBlocks(c2) = DirtyBlocks(d2) \ {b}
  BY <1>1, SetDirtyFacts, MarkDirtyDirty DEF Good2, Levels
<1>5. Levels(c1, c2)
  BY <1>1, <1>4 DEF Levels
<1> HIDE DEF c2
<1>6. Filled(c1, c2, b, "w", l1', l2') /\ Levels(l1', l2')
  BY <1>1, <1>2, <1>4, <1>5, Fill1Modified, FillFacts
<1>7. Modified(c1, c2) \cup {b} = Modified(l1, l2) \cup {b}
  BY <1>3, <1>4 DEF Modified
<1> QED BY <1>1, <1>4, <1>6, <1>7 DEF Filled, Writes, Levels

LEMMA WriteHit2NoAllocHierarchy ==
  ASSUME Levels(l1, l2), NEW b \in Block, WriteHit2NoAlloc(b)
  PROVE  Writes(b, l1', l2')
<1>1. /\ l1' = Looked1(b, "w") /\ l2' = Looked2(b, "w")
      /\ Blocks(l1') = Blocks(l1) /\ Blocks(l2') = Blocks(l2)
      /\ b \notin Blocks(l1) /\ b \in Blocks(l2)
  BY LookedFacts DEF WriteHit2NoAlloc
<1>2. /\ DirtyBlocks(l1') = DirtyBlocks(l1)
      /\ DirtyBlocks(l2') = DirtyBlocks(l2) \cup {b}
  BY <1>1, LookedDirty
<1> QED BY <1>1, <1>2 DEF Writes, Modified, Levels

LEMMA MissAllocHierarchy ==
  ASSUME Levels(l1, l2), NEW b \in Block, NEW op, MissAlloc(b, op)
  PROVE  /\ op # "w" => Reads(b, l1', l2')
         /\ op = "w" => Writes(b, l1', l2')
<1> DEFINE c1 == Looked1(b, op)
           c2 == Looked2(b, op)
<1>1. /\ Levels(c1, c2) /\ b \notin Blocks(c2)
      /\ Blocks(c1) = Blocks(l1) /\ Blocks(c2) = Blocks(l2)
  BY LookedFacts DEF MissAlloc
<1>2. Modified(c1, c2) = Modified(l1, l2)
  <2>1. b \notin Blocks(l1) /\ b \notin Blocks(l2)
    BY <1>1 DEF Levels
  <2> QED BY <2>1, LookedDirty DEF Modified
<1>3. FillBoth(c1, c2, b, op)
  BY DEF MissAlloc
<1> HIDE DEF c1, c2
<1>4. Levels(l1', l2')
  BY <1>1, <1>3, FillBothFacts
<1>5. FilledBoth(c1, c2, b, op, l1', l2')
  BY <1>1, <1>3, FillBothModified
<1>6. Blocks(l1') \subseteq (Blocks(l1) \cup {b}) \cap Blocks(l2')
  BY <1>1, <1>4, <1>5 DEF Levels, FilledBoth
<1> QED BY <1>1, <1>2, <1>5, <1>6 DEF Reads, Writes, FilledBoth

LEMMA WriteMissNoAllocHierarchy ==
  ASSUME Levels(l1, l2), NEW b \in Block, WriteMissNoAlloc(b)
  PROVE  WritesAround(b, l1', l2')
<1>1. /\ l1' = Looked1(b, "w") /\ l2' = Looked2(b, "w")
      /\ Blocks(l1') = Blocks(l1) /\ Blocks(l2') = Blocks(l2)
      /\ b \notin Blocks(l1) /\ b \notin Blocks(l2)
  BY LookedFacts DEF WriteMissNoAlloc
<1>2. /\ DirtyBlocks(l1') = DirtyBlocks(l1)
      /\ DirtyBlocks(l2') = DirtyBlocks(l2)
  BY <1>1, LookedDirty
<1> QED BY <1>1, <1>2 DEF WritesAround, Modified

LEMMA StepsOfHierarchy ==
  ASSUME Levels(l1, l2), Next
  PROVE  \E b \in Block : \/ Reads(b, l1', l2')
                          \/ Writes(b, l1', l2')
                          \/ WritesAround(b, l1', l2')
<1>1. PICK b \in Block : Read(b) \/ Write(b)
  BY DEF Next
<1>2. CASE Read(b)
  <2>1. Reads(b, l1', l2')
    BY <1>2, Hit1Hierarchy, ReadHit2Hierarchy, MissAllocHierarchy DEF Read
  <2> QED BY <2>1
<1>3. CASE Write(b)
  <2>1. Writes(b, l1', l2') \/ WritesAround(b, l1', l2')
    BY <1>3, Hit1Hierarchy, WriteHit2AllocHierarchy, WriteHit2NoAllocHierarchy,
       MissAllocHierarchy, WriteMissNoAllocHierarchy DEF Write
  <2> QED BY <2>1
<1> QED BY <1>1, <1>2, <1>3

LEMMA StepRefines ==
  ASSUME Levels(l1, l2), Next
  PROVE  Hierarchy!Next
<1>1. PICK b \in Block : \/ Reads(b, l1', l2')
                         \/ Writes(b, l1', l2')
                         \/ WritesAround(b, l1', l2')
  BY StepsOfHierarchy
<1>2. CASE Reads(b, l1', l2')
  <2>1. Hierarchy!Read(b)
    BY <1>2 DEF Reads, Modified, Hierarchy!Read, Hierarchy!NearAfter
  <2> QED BY <2>1 DEF Hierarchy!Next
<1>3. CASE Writes(b, l1', l2')
  <2>1. Hierarchy!Write(b)
    BY <1>3 DEF Writes, Modified, Hierarchy!Write, Hierarchy!NearAfter
  <2> QED BY <2>1 DEF Hierarchy!Next
<1>4. CASE WritesAround(b, l1', l2')
  <2>1. Hierarchy!WriteAround(b)
    BY <1>4 DEF WritesAround, Modified, Hierarchy!WriteAround, Hierarchy!hierarchy
  <2> QED BY <2>1 DEF Hierarchy!Next
<1> QED BY <1>1, <1>2, <1>3, <1>4

LEMMA InitRefines == Init => Hierarchy!Init
<1> SUFFICES ASSUME Init PROVE Hierarchy!Init
  OBVIOUS
<1>1. Blocks(l1) = {} /\ Blocks(l2) = {}
  BY CacheAssumption, Geometries, EmptyFacts DEF Init
<1>2. DirtyBlocks(l1) = {} /\ DirtyBlocks(l2) = {}
  BY <1>1, DirtyAreBlocks
<1> QED BY <1>1, <1>2 DEF Hierarchy!Init

(***************************************************************************)
(* A written block is marked dirty in one of the levels for as long as it  *)
(* is in the second, whatever is moved, dropped, cleared and written back  *)
(* in between; and each access drops at most one block, which it names.    *)
(***************************************************************************)
THEOREM CachesLoseNoWrite == Spec => LosesNoWrite
<1>1. IInv /\ [Next]_vars => [Hierarchy!Next]_(Hierarchy!hierarchy)
  <2> SUFFICES ASSUME IInv, [Next]_vars
               PROVE  Hierarchy!Next \/ UNCHANGED Hierarchy!hierarchy
    OBVIOUS
  <2>1. CASE Next
    BY <2>1, StepRefines DEF IInv
  <2>2. CASE UNCHANGED vars
    BY <2>2 DEF vars, Hierarchy!hierarchy
  <2> QED BY <2>1, <2>2
<1> QED BY <1>1, InitRefines, InductiveInvariant, PTL
        DEF LosesNoWrite, Spec, Hierarchy!Spec

-----------------------------------------------------------------------------
\* The order of last use.

LEMMA UseFacts ==
  ASSUME NEW R, NEW b
  PROVE  First(Use(R, b), b, Block) /\ Kept(R, Use(R, b), b, Block)
  BY DEF First, Kept, Use

OneOf(S, left) == left = {} \/ \E x \in S : left = {x}

\* What has become of the levels c1 and c2 when b came into the first, which
\* dropped left: R1 and R2 are the orders of use before the write-back.
Arranged(c1, b, R1, R2, left, d1, d2) ==
  /\ OneOf(Block, left)
  /\ InOrder(Geometry1, d1, R1)
  /\ \A x \in left : Oldest(Geometry1, d1, R1, x)
  /\ InOrder(Geometry2, d2, AfterBack(R2, left \cap DirtyBlocks(c1)))

LEMMA WriteBackInOrder ==
  ASSUME NEW c2, Good2(c2), NEW e \in Entry(Block), NEW R, InOrder(Geometry2, c2, R)
  PROVE  /\ e.dirty => InOrder(Geometry2, WriteBack(c2, {e}), AfterBack(R, {e.blk}))
         /\ ~e.dirty => InOrder(Geometry2, WriteBack(c2, {e}), AfterBack(R, {}))
<1>1. CASE e.dirty
  <2>1. (CHOOSE x \in {e} : TRUE) = e
    OBVIOUS
  <2>2. WriteBack(c2, {e}) = SeekBack(Geometry2, c2, e.blk, "w")
    BY <1>1, <2>1 DEF WriteBack, SeekBack
  <2> DEFINE d == SeekBack(Geometry2, c2, e.blk, "w")
             R2 == Use(R, e.blk)
  <2>3. AfterBack(R, {e.blk}) = R2
    <3>1. (CHOOSE x \in {e.blk} : TRUE) = e.blk
      OBVIOUS
    <3> QED BY <3>1 DEF AfterBack
  <2>4. /\ e.blk \in Block /\ Good(Geometry2, c2, Block)
        /\ d \in {SeekTrace(Geometry2, c2, e.blk, "w"), SeekBack(Geometry2, c2, e.blk, "w")}
    BY DEF Entry, Good2
  <2>5. First(R2, e.blk, Block) /\ Kept(R, R2, e.blk, Block)
    BY UseFacts
  <2> HIDE DEF d, R2
  <2>6. InOrder(Geometry2, d, R2)
    BY <2>4, <2>5, SeekInOrder
  <2> QED BY <1>1, <2>2, <2>3, <2>6 DEF d
<1>2. CASE ~e.dirty
  BY <1>2 DEF WriteBack, AfterBack
<1> QED BY <1>1, <1>2

\* Filling the first level.
FillOrder(c1, c2, b, R1, R2, left, d1, d2) ==
  /\ Arranged(c1, b, R1, R2, left, d1, d2)
  /\ left \subseteq Blocks(c1)
  /\ Blocks(d1) = (Blocks(c1) \ left) \cup {b}
  /\ Blocks(d2) = Blocks(c2)

LEMMA Fill1Order ==
  ASSUME NEW c1, NEW c2, Levels(c1, c2), NEW b \in Block, NEW op,
         b \notin Blocks(c1), b \in Blocks(c2), Fill1(c1, c2, b, op),
         NEW R1, InOrder(Geometry1, c1, R1), First(R1, b, Block),
         NEW R2, InOrder(Geometry2, c2, R2)
  PROVE  \E left : FillOrder(c1, c2, b, R1, R2, left, l1', l2')
<1> DEFINE a == AddAddress(Geometry1, c1, b)
<1>1. /\ Good1(a.cache) /\ Added(Block, c1, b, a.cache, a.removed)
      /\ AddedDirty(c1, a.cache, a.removed)
  BY AddAddressFacts, AddAddressDirty DEF Levels, Good1
<1>2. /\ InOrder(Geometry1, a.cache, R1)
      /\ \A e \in a.removed : Oldest(Geometry1, a.cache, R1, e.blk)
  BY AddInOrder DEF Levels, Good1
<1>3. /\ l1' = a.cache \/ l1' = SetDirty(Geometry1, a.cache, b)
      /\ l2' = WriteBack(c2, a.removed)
  BY DEF Fill1, SetDirty
<1> HIDE DEF a
<1>4. InOrder(Geometry1, l1', R1) /\ Blocks(l1') = Blocks(a.cache)
  <2>1. /\ InOrder(Geometry1, SetDirty(Geometry1, a.cache, b), R1)
        /\ Blocks(SetDirty(Geometry1, a.cache, b)) = Blocks(a.cache)
    BY <1>1, <1>2, MarkInOrder, SetDirtyFacts DEF Good1
  <2> QED BY <1>2, <1>3, <2>1
<1>5. \A x : Oldest(Geometry1, a.cache, R1, x) => Oldest(Geometry1, l1', R1, x)
  BY <1>4 DEF Oldest
<1>6. CASE a.removed = {}
  <2>1. Blocks(l1') = (Blocks(c1) \ {}) \cup {b}
    BY <1>1, <1>4, <1>6 DEF Added
  <2>2. l2' = c2
    BY <1>3, <1>6 DEF WriteBack
  <2>3. AfterBack(R2, {} \cap DirtyBlocks(c1)) = R2
    BY DEF AfterBack
  <2>4. FillOrder(c1, c2, b, R1, R2, {}, l1', l2')
    BY <1>4, <2>1, <2>2, <2>3 DEF FillOrder, Arranged, OneOf
  <2> QED BY <2>4
<1>7. CASE a.removed # {}
  <2>1. PICK e \in Entry(Block) :
          /\ a.removed = {e} /\ e.blk # b /\ e.blk \in Blocks(c1)
          /\ Blocks(a.cache) = (Blocks(c1) \cup {b}) \ {e.blk}
    BY <1>1, <1>7 DEF Added
  <2> DEFINE left == {e.blk}
  <2>2. e.dirty <=> e.blk \in DirtyBlocks(c1)
    BY <1>1, <2>1 DEF AddedDirty
  <2>3. Blocks(l1') = (Blocks(c1) \ left) \cup {b}
    BY <1>4, <2>1
  <2>4. \A x \in left : Oldest(Geometry1, l1', R1, x)
    BY <1>2, <1>5, <2>1
  <2>5. Blocks(l2') = Blocks(c2)
    BY <1>3, <2>1, WriteBackFacts DEF Levels
  <2>6. InOrder(Geometry2, l2', AfterBack(R2, left \cap DirtyBlocks(c1)))
    <3>1. /\ e.dirty => InOrder(Geometry2, l2', AfterBack(R2, {e.blk}))
          /\ ~e.dirty => InOrder(Geometry2, l2', AfterBack(R2, {}))
      BY <1>3, <2>1, WriteBackInOrder DEF Levels
    <3>2. /\ e.dirty => left \cap DirtyBlocks(c1) = {e.blk}
          /\ ~e.dirty => left \cap DirtyBlocks(c1) = {}
      BY <2>2
    <3> QED BY <3>1, <3>2
  <2>7. OneOf(Block, left) /\ left \subseteq Blocks(c1)
    BY <2>1 DEF OneOf, Entry
  <2> HIDE DEF left
  <2>8. FillOrder(c1, c2, b, R1, R2, left, l1', l2')
    BY <1>4, <2>3, <2>4, <2>5, <2>6, <2>7 DEF FillOrder, Arranged
  <2> QED BY <2>8
<1> QED BY <1>6, <1>7

\* Filling both: the second level has dropped gone.
FillBothOrder(c1, c2, b, R1, R2, gone, left, d1, d2) ==
  /\ Arranged(c1, b, R1, R2, left, d1, d2)
  /\ \A x \in gone : Oldest(Geometry2, d2, R2, x)
  /\ left \subseteq Blocks(c1) \ gone
  /\ Blocks(d1) = (Blocks(c1) \ (gone \cup left)) \cup {b}
  /\ Blocks(d2) = (Blocks(c2) \ gone) \cup {b}
  /\ b \notin gone

LEMMA FillBothInOrder ==
  ASSUME NEW c1, NEW c2, Levels(c1, c2), NEW b \in Block, NEW op,
         b \notin Blocks(c2), FillBoth(c1, c2, b, op),
         NEW R1, InOrder(Geometry1, c1, R1), First(R1, b, Block),
         NEW R2, InOrder(Geometry2, c2, R2), First(R2, b, Block)
  PROVE  \E gone, left : FillBothOrder(c1, c2, b, R1, R2, gone, left, l1', l2')
<1> DEFINE a  == AddAddress(Geometry2, c2, b)
           d1 == RemovedToo(c1, a.removed)
           gone == {e.blk : e \in a.removed}
<1>1. /\ Good2(a.cache) /\ Added(Block, c2, b, a.cache, a.removed)
  BY AddAddressFacts DEF Levels, Good2
<1>2. /\ InOrder(Geometry2, a.cache, R2)
      /\ \A e \in a.removed : Oldest(Geometry2, a.cache, R2, e.blk)
  BY AddInOrder DEF Levels, Good2
<1>3. Fill1(d1, a.cache, b, op)
  BY DEF FillBoth
<1> HIDE DEF a
<1>4. \/ a.removed = {}
      \/ \E e \in Entry(Block) : a.removed = {e}
  BY <1>1 DEF Added
<1>5. Good1(d1) /\ Blocks(d1) = Blocks(c1) \ gone
  BY <1>4, RemovedTooFacts DEF Levels
<1>6. InOrder(Geometry1, d1, R1) /\ DirtyBlocks(d1) = DirtyBlocks(c1) \ gone
  <2>1. CASE a.removed = {}
    BY <2>1 DEF RemovedToo
  <2>2. CASE a.removed # {}
    <3>1. PICK e \in Entry(Block) : a.removed = {e}
      BY <1>4, <2>2
    <3>2. (CHOOSE x \in a.removed : TRUE) = e
      BY <3>1
    <3>3. d1 = Evict(Geometry1, c1, e.blk) /\ gone = {e.blk}
      BY <2>2, <3>1, <3>2 DEF RemovedToo
    <3>4. e.blk \in Block
      BY DEF Entry
    <3> HIDE DEF d1, gone
    <3>5. InOrder(Geometry1, d1, R1) /\ DirtyBlocks(d1) = DirtyBlocks(c1) \ {e.blk}
      BY <3>3, <3>4, EvictInOrder, EvictDirty DEF Levels, Good1
    <3> QED BY <3>3, <3>5
  <2> QED BY <2>1, <2>2
<1>7. /\ Blocks(a.cache) = (Blocks(c2) \ gone) \cup {b} /\ b \notin gone
      /\ \A x \in gone : Oldest(Geometry2, a.cache, R2, x)
  <2>1. CASE a.removed = {}
    BY <1>1, <2>1 DEF Added
  <2>2. CASE a.removed # {}
    <3>1. PICK e \in Entry(Block) :
            /\ a.removed = {e} /\ e.blk # b
            /\ Blocks(a.cache) = (Blocks(c2) \cup {b}) \ {e.blk}
      BY <1>1, <2>2 DEF Added
    <3>2. gone = {e.blk}
      BY <3>1
    <3> HIDE DEF gone
    <3>3. Blocks(a.cache) = (Blocks(c2) \ gone) \cup {b} /\ b \notin gone
      BY <3>1, <3>2
    <3> QED BY <1>2, <3>1, <3>2, <3>3
  <2> QED BY <2>1, <2>2
<1> HIDE DEF d1, gone
<1>8. /\ b \in Blocks(a.cache) /\ b \notin Blocks(d1)
      /\ Levels(d1, a.cache)
  BY <1>1, <1>5, <1>7 DEF Levels
<1>9. \E left : FillOrder(d1, a.cache, b, R1, R2, left, l1', l2')
  BY <1>2, <1>3, <1>6, <1>8, Fill1Order
<1>10. PICK left : FillOrder(d1, a.cache, b, R1, R2, left, l1', l2')
  BY <1>9
<1>11. left \subseteq Blocks(c1) \ gone
  BY <1>5, <1>10 DEF FillOrder
<1>12. left \cap DirtyBlocks(d1) = left \cap DirtyBlocks(c1)
  BY <1>6, <1>11
<1>13. Arranged(c1, b, R1, R2, left, l1', l2')
  BY <1>10, <1>12 DEF FillOrder, Arranged
<1>14. /\ Blocks(l1') = (Blocks(c1) \ (gone \cup left)) \cup {b}
       /\ Blocks(l2') = (Blocks(c2) \ gone) \cup {b}
  BY <1>5, <1>7, <1>10 DEF FillOrder
<1>15. \A x \in gone : Oldest(Geometry2, l2', R2, x)
  BY <1>7, <1>14 DEF Oldest
<1>16. FillBothOrder(c1, c2, b, R1, R2, gone, left, l1', l2')
  BY <1>7, <1>11, <1>13, <1>14, <1>15 DEF FillBothOrder
<1> QED BY <1>16
-----------------------------------------------------------------------------
\* Each path of handle_line, with the order of use.

TablesInOrder == InOrder(Geometry1, l1, later1) /\ InOrder(Geometry2, l2, later2)

\* R1 and R2 are the orders after the look-ups.
PathOrder(b, R1, R2, gone, left) ==
  /\ Arranged(l1, b, R1, R2, left, l1', l2')
  /\ \A x \in gone : Oldest(Geometry2, l2', R2, x)
  /\ left \subseteq Blocks(l1) /\ left \subseteq Blocks(l2') /\ left \cap Blocks(l1') = {}
  /\ gone \cap Blocks(l2') = {}
  /\ Blocks(l1) \ Blocks(l1') \subseteq gone \cup left
  /\ Blocks(l2) \ Blocks(l2') \subseteq gone

LEMMA LookedOrder ==
  ASSUME Levels(l1, l2), TablesInOrder, NEW b \in Block, NEW op
  PROVE  /\ InOrder(Geometry1, Looked1(b, op), Use(later1, b))
         /\ InOrder(Geometry2, Looked2(b, op), Use(later2, b))
         /\ First(Use(later1, b), b, Block) /\ First(Use(later2, b), b, Block)
<1> DEFINE R1 == Use(later1, b)
           R2 == Use(later2, b)
           c1 == Looked1(b, op)
           c2 == Looked2(b, op)
<1>1. /\ c1 \in {SeekTrace(Geometry1, l1, b, op), SeekBack(Geometry1, l1, b, op)}
      /\ c2 \in {SeekTrace(Geometry2, l2, b, op), SeekBack(Geometry2, l2, b, op)}
  BY DEF Looked1, Looked2, SeekTrace
<1>2. /\ First(R1, b, Block) /\ Kept(later1, R1, b, Block)
      /\ First(R2, b, Block) /\ Kept(later2, R2, b, Block)
  BY UseFacts
<1>3. /\ Good(Geometry1, l1, Block) /\ Good(Geometry2, l2, Block)
      /\ InOrder(Geometry1, l1, later1) /\ InOrder(Geometry2, l2, later2)
  BY DEF Levels, Good1, Good2, TablesInOrder
<1> HIDE DEF R1, R2, c1, c2
<1>4. InOrder(Geometry1, c1, R1)
  BY <1>1, <1>2, <1>3, SeekInOrder
<1>5. InOrder(Geometry2, c2, R2)
  BY <1>1, <1>2, <1>3, SeekInOrder
<1> QED BY <1>2, <1>4, <1>5 DEF R1, R2, c1, c2

\* A path on which no block moves.
LEMMA StayOrder ==
  ASSUME NEW b, NEW R1, NEW R2,
         InOrder(Geometry1, l1', R1), InOrder(Geometry2, l2', R2),
         Blocks(l1') = Blocks(l1), Blocks(l2') = Blocks(l2)
  PROVE  \E gone, left : PathOrder(b, R1, R2, gone, left)
<1>1. AfterBack(R2, {} \cap DirtyBlocks(l1)) = R2
  BY DEF AfterBack
<1>2. PathOrder(b, R1, R2, {}, {})
  BY <1>1 DEF PathOrder, Arranged, OneOf
<1> QED BY <1>2

LEMMA Hit1Order ==
  ASSUME Levels(l1, l2), TablesInOrder, NEW b \in Block, NEW op, Hit1(b, op)
  PROVE  \E gone, left : PathOrder(b, Use(later1, b), Looked(b), gone, left)
<1>1. /\ l1' = Looked1(b, op) /\ l2' = l2 /\ Looked(b) = later2
      /\ Blocks(l1') = Blocks(l1)
  BY LookedFacts DEF Hit1, Looked
<1>2. InOrder(Geometry1, l1', Use(later1, b)) /\ InOrder(Geometry2, l2', later2)
  BY <1>1, LookedOrder DEF TablesInOrder
<1> QED BY <1>1, <1>2, StayOrder

LEMMA AroundOrder ==
  ASSUME Levels(l1, l2), TablesInOrder, NEW b \in Block,
         WriteHit2NoAlloc(b) \/ WriteMissNoAlloc(b)
  PROVE  \E gone, left : PathOrder(b, Use(later1, b), Looked(b), gone, left)
<1>1. /\ l1' = Looked1(b, "w") /\ l2' = Looked2(b, "w") /\ Looked(b) = Use(later2, b)
      /\ Blocks(l1') = Blocks(l1) /\ Blocks(l2') = Blocks(l2)
  BY LookedFacts DEF WriteHit2NoAlloc, WriteMissNoAlloc, Looked
<1>2. InOrder(Geometry1, l1', Use(later1, b)) /\ InOrder(Geometry2, l2', Looked(b))
  BY <1>1, LookedOrder
<1> QED BY <1>1, <1>2, StayOrder

\* A block that is in the second level only moves up.
LEMMA MovedUpOrder ==
  ASSUME Levels(l1, l2), NEW b \in Block, NEW op, NEW c1, NEW c2, Levels(c1, c2),
         b \notin Blocks(l1), b \in Blocks(l2),
         Blocks(c1) = Blocks(l1), DirtyBlocks(c1) = DirtyBlocks(l1),
         Blocks(c2) = Blocks(l2), Fill1(c1, c2, b, op),
         NEW R1, InOrder(Geometry1, c1, R1), First(R1, b, Block),
         NEW R2, InOrder(Geometry2, c2, R2)
  PROVE  \E gone, left : PathOrder(b, R1, R2, gone, left)
<1>1. \E left : FillOrder(c1, c2, b, R1, R2, left, l1', l2')
  BY Fill1Order
<1>2. PICK left : FillOrder(c1, c2, b, R1, R2, left, l1', l2')
  BY <1>1
<1>3. Arranged(l1, b, R1, R2, left, l1', l2')
  BY <1>2 DEF FillOrder, Arranged
<1>4. /\ left \subseteq Blocks(l1) /\ b \notin left
      /\ Blocks(l1') = (Blocks(l1) \ left) \cup {b} /\ Blocks(l2') = Blocks(l2)
  BY <1>2 DEF FillOrder
<1>5. Blocks(l1) \subseteq Blocks(l2)
  BY DEF Levels
<1>6. PathOrder(b, R1, R2, {}, left)
  BY <1>3, <1>4, <1>5 DEF PathOrder
<1> QED BY <1>6

LEMMA ReadHit2Order ==
  ASSUME Levels(l1, l2), TablesInOrder, NEW b \in Block, ReadHit2(b)
  PROVE  \E gone, left : PathOrder(b, Use(later1, b), Looked(b), gone, left)
<1> DEFINE c1 == Looked1(b, "r")
           c2 == Looked2(b, "r")
           R1 == Use(later1, b)
           R2 == Use(later2, b)
<1>1. /\ Levels(c1, c2) /\ b \notin Blocks(l1) /\ b \in Blocks(l2)
      /\ Blocks(c1) = Blocks(l1) /\ Blocks(c2) = Blocks(l2)
  BY LookedFacts DEF ReadHit2
<1>2. DirtyBlocks(c1) = DirtyBlocks(l1)
  BY LookedDirty
<1>3. Fill1(c1, c2, b, "r") /\ Looked(b) = R2
  BY DEF ReadHit2, Looked
<1>4. /\ InOrder(Geometry1, c1, R1) /\ InOrder(Geometry2, c2, R2)
      /\ First(R1, b, Block)
  BY LookedOrder
<1> HIDE DEF c1, c2, R1, R2
<1>5. \E gone, left : PathOrder(b, R1, R2, gone, left)
  BY <1>1, <1>2, <1>3, <1>4, MovedUpOrder
<1> QED BY <1>3, <1>5 DEF R1

LEMMA WriteHit2AllocOrder ==
  ASSUME Levels(l1, l2), TablesInOrder, NEW b \in Block, WriteHit2Alloc(b)
  PROVE  \E gone, left : PathOrder(b, Use(later1, b), Looked(b), gone, left)
<1> DEFINE c1 == Looked1(b, "w")
           d2 == Looked2(b, "w")
           c2 == SetClean(Geometry2, d2, b)
           R1 == Use(later1, b)
           R2 == Use(later2, b)
<1>1. /\ Levels(c1, d2) /\ b \notin Blocks(l1) /\ b \in Blocks(l2)
      /\ Blocks(c1) = Blocks(l1) /\ Blocks(d2) = Blocks(l2)
  BY LookedFacts DEF WriteHit2Alloc
<1>2. DirtyBlocks(c1) = DirtyBlocks(l1)
  BY <1>1, LookedDirty
<1>3. Fill1(c1, c2, b, "w") /\ Looked(b) = R2
  BY DEF WriteHit2Alloc, SetClean, Looked
<1>4. /\ InOrder(Geometry1, c1, R1) /\ InOrder(Geometry2, d2, R2)
      /\ First(R1, b, Block)
  BY LookedOrder
<1> HIDE DEF c1, d2, R1, R2
<1>5. Good2(c2) /\ Blocks(c2) = Blocks(d2) /\ InOrder(Geometry2, c2, R2)
  BY <1>1, <1>4, SetDirtyFacts, MarkInOrder DEF Good2, Levels
<1> HIDE DEF c2
<1>6. Levels(c1, c2)
  BY <1>1, <1>5 DEF Levels
<1>7. \E gone, left : PathOrder(b, R1, R2, gone, left)
  BY <1>1, <1>2, <1>3, <1>4, <1>5, <1>6, MovedUpOrder
<1> QED BY <1>3, <1>7 DEF R1

LEMMA MissAllocOrder ==
  ASSUME Levels(l1, l2), TablesInOrder, NEW b \in Block, NEW op, MissAlloc(b, op)
  PROVE  \E gone, left : PathOrder(b, Use(later1, b), Looked(b), gone, left)
<1> DEFINE c1 == Looked1(b, op)
           c2 == Looked2(b, op)
           R1 == Use(later1, b)
           R2 == Use(later2, b)
<1>1. /\ Levels(c1, c2) /\ b \notin Blocks(l1) /\ b \notin Blocks(l2)
      /\ Blocks(c1) = Blocks(l1) /\ Blocks(c2) = Blocks(l2)
  BY LookedFacts DEF MissAlloc, Levels
<1>2. DirtyBlocks(c1) = DirtyBlocks(l1)
  BY <1>1, LookedDirty
<1>3. FillBoth(c1, c2, b, op) /\ Looked(b) = R2
  BY DEF MissAlloc, Looked
<1>4. /\ InOrder(Geometry1, c1, R1) /\ InOrder(Geometry2, c2, R2)
      /\ First(R1, b, Block) /\ First(R2, b, Block)
  BY LookedOrder
<1> HIDE DEF c1, c2, R1, R2
<1>5. \E gone, left : FillBothOrder(c1, c2, b, R1, R2, gone, left, l1', l2')
  BY <1>1, <1>3, <1>4, FillBothInOrder
<1>6. PICK gone, left : FillBothOrder(c1, c2, b, R1, R2, gone, left, l1', l2')
  BY <1>5
<1>7. Arranged(l1, b, R1, R2, left, l1', l2')
  BY <1>2, <1>6 DEF FillBothOrder, Arranged
<1>8. Blocks(l1) \subseteq Blocks(l2)
  BY DEF Levels
<1>9. PathOrder(b, R1, R2, gone, left)
  BY <1>1, <1>6, <1>7, <1>8 DEF FillBothOrder, PathOrder
<1> QED BY <1>3, <1>9 DEF R1

\* What a step of the trace does with the order of use.
StepOrder ==
  /\ TablesInOrder'
  /\ \A x \in Blocks(l2) \ Blocks(l2') : Oldest(Geometry2, l2', later2', x)
  /\ \A x \in Blocks(l1) \ Blocks(l1') :
        x \notin Blocks(l2') \/ Oldest(Geometry1, l1', later1', x)

LEMMA TrackedOrder ==
  ASSUME NEW b \in Block, Track(b), Levels(l1, l2), Levels(l1', l2'),
         NEW gone, NEW left,
         PathOrder(b, Use(later1, b), Looked(b), gone, left)
  PROVE  StepOrder
<1> DEFINE back == left \cap DirtyBlocks(l1)
           R2   == Looked(b)
<1>1. WrittenBack = back
  <2>1. DirtyBlocks(l1) \subseteq Blocks(l1)
    BY DirtyAreBlocks
  <2> QED BY <2>1 DEF PathOrder, WrittenBack
<1>2. later1' = Use(later1, b) /\ later2' = AfterBack(R2, back)
  BY <1>1 DEF Track
<1>3. OneOf(Block, back) /\ back \subseteq Blocks(l2') /\ back \subseteq Block
  BY DEF PathOrder, Arranged, OneOf
<1>4. TablesInOrder'
  BY <1>2 DEF PathOrder, Arranged, TablesInOrder
<1>5. ASSUME NEW x \in Blocks(l1) \ Blocks(l1'), x \in Blocks(l2')
      PROVE  Oldest(Geometry1, l1', later1', x)
  <2>1. x \in left
    BY <1>5 DEF PathOrder
  <2> QED BY <1>2, <2>1 DEF PathOrder, Arranged
<1>6. Blocks(l2) \subseteq Block
  BY BlocksInB DEF Levels, Good2
<1> HIDE DEF back
<1>7. ASSUME NEW x \in Blocks(l2) \ Blocks(l2'), x \in Block
      PROVE  Oldest(Geometry2, l2', later2', x)
  <2>1. Oldest(Geometry2, l2', R2, x)
    BY <1>7 DEF PathOrder
  <2>2. CASE back = {}
    BY <1>2, <2>1, <2>2 DEF AfterBack
  <2>3. CASE back # {}
    <3>1. PICK w \in Block : back = {w}
      BY <1>3, <2>3 DEF OneOf
    <3>2. (CHOOSE z \in back : TRUE) = w
      BY <3>1
    <3>3. later2' = Use(R2, w) /\ w \in Blocks(l2')
      BY <1>2, <1>3, <2>3, <3>1, <3>2 DEF AfterBack
    <3>4. x # w
      BY <1>7, <3>3
    <3> HIDE DEF R2
    <3>5. \A y \in Blocks(l2') : <<y, x>> \in R2 => <<y, x>> \in later2'
      BY <1>7, <3>3, <3>4 DEF Use
    <3>6. <<w, x>> \in later2'
      BY <1>7, <3>3, <3>4 DEF Use
    <3> QED BY <2>1, <3>5 DEF Oldest
  <2> QED BY <2>2, <2>3
<1> QED BY <1>4, <1>5, <1>6, <1>7 DEF StepOrder

HIInv == IInv /\ TablesInOrder

LEMMA NextOrder ==
  ASSUME HIInv, HNext
  PROVE  HIInv' /\ StepOrder
<1>1. PICK b \in Block : (Read(b) \/ Write(b)) /\ Track(b)
  BY DEF HNext
<1>2. Next
  BY <1>1 DEF Next
<1>3. IInv'
  BY <1>2, NextInv DEF HIInv
<1>4. Levels(l1', l2') /\ Levels(l1, l2) /\ TablesInOrder
  BY <1>3 DEF HIInv, IInv, Levels, Good1, Good2
<1>5. \E gone, left : PathOrder(b, Use(later1, b), Looked(b), gone, left)
  BY <1>1, <1>4, Hit1Order, AroundOrder, ReadHit2Order, WriteHit2AllocOrder,
     MissAllocOrder DEF Read, Write
<1>6. PICK gone, left : PathOrder(b, Use(later1, b), Looked(b), gone, left)
  BY <1>5
<1>7. StepOrder
  BY <1>1, <1>4, <1>6, TrackedOrder
<1> QED BY <1>3, <1>7 DEF HIInv, StepOrder

LEMMA InitOrder == HInit => HIInv
<1> SUFFICES ASSUME HInit PROVE HIInv
  OBVIOUS
<1>1. IInv
  BY InitInv DEF HInit
<1>2. \A R : Sorted(<< >>, R)
  BY DEF Sorted
<1>3. TablesInOrder
  BY <1>2 DEF HInit, Init, EmptyCache, InOrder, TablesInOrder
<1> QED BY <1>1, <1>3 DEF HIInv

LEMMA HistoryInv == HIInv /\ [HNext]_hvars => HIInv'
<1> SUFFICES ASSUME HIInv, [HNext]_hvars PROVE HIInv'
  OBVIOUS
<1>1. CASE HNext
  BY <1>1, NextOrder
<1>2. CASE UNCHANGED hvars
  <2>1. UNCHANGED vars
    BY <1>2 DEF hvars
  <2>2. IInv'
    BY <2>1, NextInv DEF HIInv
  <2> QED BY <1>2, <2>2 DEF hvars, vars, HIInv, TablesInOrder
<1> QED BY <1>1, <1>2

(***************************************************************************)
(* The block that makes room in the second level is the least recently     *)
(* used of its set, in the order of the look-ups that reach the level,     *)
(* for every pair of geometries and every trace.                           *)
(***************************************************************************)
THEOREM SecondLevelIsLRU == HSpec => L2DropsLeastRecent
<1>1. HIInv /\ [HNext]_hvars =>
        [\A x \in Blocks(l2) \ Blocks(l2') : LeastRecent(Geometry2, l2, later2, x)]_hvars
  BY NextOrder DEF StepOrder, Oldest, LeastRecent
<1> QED BY <1>1, InitOrder, HistoryInv, PTL DEF HSpec, L2DropsLeastRecent

(***************************************************************************)
(* A block leaves the first level because it is the least recently used of *)
(* its set, or because the second level has dropped it.                    *)
(***************************************************************************)
THEOREM FirstLevelIsLRU == HSpec => L1DropsLeastRecent
<1>1. HIInv /\ [HNext]_hvars =>
        [\A x \in Blocks(l1) \ Blocks(l1') :
           \/ x \notin Blocks(l2')
           \/ LeastRecent(Geometry1, l1, later1, x)]_hvars
  BY NextOrder DEF StepOrder, Oldest, LeastRecent
<1> QED BY <1>1, InitOrder, HistoryInv, PTL DEF HSpec, L1DropsLeastRecent
=============================================================================
