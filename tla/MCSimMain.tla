----------------------------- MODULE MCSimMain -----------------------------
(***************************************************************************)
(* The simulator started with the memory images of MCCoreMT.               *)
(***************************************************************************)
EXTENDS SimMainHistory, MCCoreMT
=============================================================================
