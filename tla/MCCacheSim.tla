----------------------------- MODULE MCCacheSim -----------------------------
(***************************************************************************)
(* A small hierarchy.  The counts and the time grow without end and        *)
(* nothing depends on them: Tables leaves them out, so that TLC visits     *)
(* every state of the tables that traces of up to MaxLines lines reach.    *)
(***************************************************************************)
EXTENDS CacheSimRefinement

OneSetTwoWays == [sets |-> 1, ways |-> 2]
TwoSetsTwoWays == [sets |-> 2, ways |-> 2]

Tables == <<wrAlloc, l1.table, l2.table>>
=============================================================================
