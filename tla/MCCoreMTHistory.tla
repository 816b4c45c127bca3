-------------------------- MODULE MCCoreMTHistory --------------------------
(***************************************************************************)
(* The core with its history variables, started with the memory images of  *)
(* MCCoreMT.                                                               *)
(***************************************************************************)
EXTENDS CoreMTHistory, MCCoreMT
=============================================================================
