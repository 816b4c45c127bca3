-------------------------- MODULE CacheSimHistory --------------------------
(***************************************************************************)
(* CacheSim with the order in which the blocks were last used in each      *)
(* level, kept apart from the order of the entries in the tables.          *)
(***************************************************************************)
EXTENDS CacheSim

VARIABLES
  later1,     \* the pairs of which the first was used last in the first level
  later2      \* the same for the second level

hvars == <<vars, later1, later2>>

\* From now on b was used after every other block.
Use(later, b) ==
  {<<b, x>> : x \in Block \ {b}} \cup {p \in later : p[1] # b /\ p[2] # b}

HInit == Init /\ later1 = {} /\ later2 = {}

\* The dirty blocks that left the first level and were not dropped by the
\* second: the block written back, if there is one.
WrittenBack ==
  {x \in DirtyBlocks(l1) : x \notin Blocks(l1') /\ x \in Blocks(l2')}

AfterBack(later, back) ==
  IF back = {} THEN later ELSE Use(later, CHOOSE x \in back : TRUE)

\* The access uses b in the first level, and on a miss in the second; after
\* that, a write-back uses the second level too.
Looked(b) == IF In1(b) THEN later2 ELSE Use(later2, b)
Track(b) ==
  /\ later1' = Use(later1, b)
  /\ later2' = AfterBack(Looked(b), WrittenBack)

HNext == \E b \in Block : (Read(b) \/ Write(b)) /\ Track(b)

HSpec == HInit /\ [][HNext]_hvars

-----------------------------------------------------------------------------
\* x was used in the level before every block that stays in its set.
LeastRecent(g, c, later, x) ==
  \A y \in Blocks(c') : SetOf(g, y) = SetOf(g, x) => <<y, x>> \in later'

(***************************************************************************)
(* The block that the second level drops is the one of its set that was    *)
(* used least recently, where a write-back from the first level counts as  *)
(* a use and a first level hit does not.                                   *)
(***************************************************************************)
L2DropsLeastRecent ==
  [][\A x \in Blocks(l2) \ Blocks(l2') :
        LeastRecent(Geometry2, l2, later2, x)]_hvars

(***************************************************************************)
(* A block leaves the first level only because the second dropped it, or   *)
(* because it is the one of its set that was used least recently.          *)
(***************************************************************************)
L1DropsLeastRecent ==
  [][\A x \in Blocks(l1) \ Blocks(l1') :
        \/ x \notin Blocks(l2')
        \/ LeastRecent(Geometry1, l1, later1, x)]_hvars
=============================================================================
