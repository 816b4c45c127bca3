------------------------------ MODULE LRUCache ------------------------------
(***************************************************************************)
(* One level of the cache of HW2 (class Cache in Cache.cpp): a table that  *)
(* holds, for every set, the entries of the blocks cached there, the most  *)
(* recently used first, and the counts of hits and misses.                 *)
(*                                                                         *)
(* An address is modelled by the number of its memory block.  The set of a *)
(* block is given by its low bits and its tag by the rest, so that within  *)
(* a set the tag identifies the block.                                     *)
(***************************************************************************)
EXTENDS Integers, SequencesExt

(***************************************************************************)
(* g is the geometry of a cache, c its state:                              *)
(*   g = [sets |-> N_sets, ways |-> N_ways]                                *)
(*   c = [table |-> cache_table, hits |-> N_hits, misses |-> N_misses]     *)
(***************************************************************************)
Entry(Block) == [blk : Block, dirty : BOOLEAN]

CacheType(g, Block) ==
  [table : [0 .. g.sets - 1 -> Seq(Entry(Block))], hits : Nat, misses : Nat]

EmptyCache(g) ==
  [table |-> [s \in 0 .. g.sets - 1 |-> << >>], hits |-> 0, misses |-> 0]

SetOf(g, b) == b % g.sets

\* The place of block b in the entries s, or 0.
Find(s, b) == SelectInSeq(s, LAMBDA e : e.blk = b)

Holds(g, c, b) == Find(c.table[SetOf(g, b)], b) # 0

\* The blocks of the cache, and those among them whose entry is dirty.
Entries(c) == UNION {ToSet(c.table[s]) : s \in DOMAIN c.table}
Blocks(c) == {e.blk : e \in Entries(c)}
DirtyBlocks(c) == {e.blk : e \in {d \in Entries(c) : d.dirty}}

-----------------------------------------------------------------------------
(***************************************************************************)
(* Cache::seek.  A block that is found becomes the most recent of its set, *)
(* and dirty if it is written.  The look-up of a write-back from the level *)
(* above is not counted.  Faulty variants: a hit leaves the order as it    *)
(* is; the entry found is not erased; its dirty mark is not copied.        *)
(***************************************************************************)
TouchInPlace(s, i, op) == [s EXCEPT ![i].dirty = @ \/ op = "w"]
TouchCopy(s, i, op) == Cons([s[i] EXCEPT !.dirty = @ \/ op = "w"], s)
TouchUnset(s, i, op) == Cons([blk |-> s[i].blk], RemoveAt(s, i))

Touch(s, i, op) ==
  Cons([s[i] EXCEPT !.dirty = @ \/ op = "w"], RemoveAt(s, i))

Count(c, hit, writeback) ==
  IF writeback THEN c
  ELSE IF hit THEN [c EXCEPT !.hits = @ + 1]
              ELSE [c EXCEPT !.misses = @ + 1]

Seek(g, c, b, op, writeback) ==
  LET set == SetOf(g, b)
      i   == Find(c.table[set], b)
  IN  IF i # 0
      THEN Count([c EXCEPT !.table[set] = Touch(@, i, op)], TRUE, writeback)
      ELSE Count(c, FALSE, writeback)

(***************************************************************************)
(* Cache::add_address puts a block that is not cached in front of its set  *)
(* and drops the last entry of a set that has grown too long.  The result  *)
(* has the new state of the cache and the entries dropped: none or one.    *)
(***************************************************************************)
AddAddress(g, c, b) ==
  LET set   == SetOf(g, b)
      grown == Cons([blk |-> b, dirty |-> FALSE], c.table[set])
  IN  IF Len(grown) > g.ways
      THEN [cache   |-> [c EXCEPT !.table[set] = Front(grown)],
            removed |-> {Last(grown)}]
      ELSE [cache   |-> [c EXCEPT !.table[set] = grown],
            removed |-> {}]

\* Cache::remove
Evict(g, c, b) ==
  LET set == SetOf(g, b)
      i   == Find(c.table[set], b)
  IN  IF i # 0 THEN [c EXCEPT !.table[set] = RemoveAt(@, i)] ELSE c

\* Cache::mark_dirty
MarkDirty(g, c, b, dirty) ==
  LET set == SetOf(g, b)
      i   == Find(c.table[set], b)
  IN  IF i # 0 THEN [c EXCEPT !.table[set][i].dirty = dirty] ELSE c

-----------------------------------------------------------------------------
(***************************************************************************)
(* The entries of a cache are where a look-up finds them: each in the set  *)
(* of its block, no block twice, and no set longer than the associativity. *)
(***************************************************************************)
WellPlaced(g, c) ==
  \A s \in 0 .. g.sets - 1 :
    LET entries == c.table[s] IN
    /\ Len(entries) <= g.ways
    /\ \A i \in DOMAIN entries : SetOf(g, entries[i].blk) = s
    /\ \A i, j \in DOMAIN entries :
          entries[i].blk = entries[j].blk => i = j
=============================================================================
