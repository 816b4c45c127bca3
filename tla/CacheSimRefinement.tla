------------------------- MODULE CacheSimRefinement -------------------------
(***************************************************************************)
(* The two LRU caches of CacheSim implement WriteBackHierarchy: a block is *)
(* modified if one of its copies is marked dirty.                          *)
(***************************************************************************)
EXTENDS CacheSim

Hierarchy ==
  INSTANCE WriteBackHierarchy
  WITH near     <- Blocks(l1),
       cached   <- Blocks(l2),
       modified <- DirtyBlocks(l1) \cup DirtyBlocks(l2)

(***************************************************************************)
(* Moving blocks between the levels, with their dirty marks set, cleared   *)
(* and carried along by handle_line, never loses track of a modified block *)
(* while it is cached, and never drops more than one block at a time.      *)
(***************************************************************************)
LosesNoWrite == Hierarchy!Spec
=============================================================================
