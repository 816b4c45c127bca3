-------------------------- MODULE MCBranchPredictor --------------------------
(***************************************************************************)
(* Small predictors, with two entries in use, one tag bit and a history of *)
(* two bits.  The branches 4 and 65548 take one entry from each other,     *)
(* 65540 has the entry and the tag of 4 but other bits for gshare "mid",   *)
(* and 8 has the other entry.                                              *)
(***************************************************************************)
EXTENDS BranchPredictorHistory

\* Only the traces of a single branch that always does the same go on beyond
\* VariedLines + 1 lines.
VariedLines == 2
MCNext == (branches <= VariedLines \/ Steady) /\ HNext

MCSpec == HInit /\ [][MCNext]_hvars
=============================================================================
