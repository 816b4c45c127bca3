------------------------- MODULE MCCacheSimHistory -------------------------
(***************************************************************************)
(* The hierarchies of MCCacheSim with the order of use.                    *)
(***************************************************************************)
EXTENDS CacheSimHistory, MCCacheSim

TablesAndUses == <<Tables, later1, later2>>
=============================================================================
