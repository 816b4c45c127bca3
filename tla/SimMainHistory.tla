--------------------------- MODULE SimMainHistory ---------------------------
(***************************************************************************)
(* The simulator of SimMain with history variables that remember how the   *)
(* threads of the blocked run used the memory, and the registers each run  *)
(* ended with.                                                             *)
(***************************************************************************)
EXTENDS SimMain

VARIABLES
  loaded,     \* words each thread loaded in the blocked run
  exposed,    \* those it loaded without having stored them before
  stored,     \* words each thread stored in the blocked run
  final       \* registers of the threads when each run ended

useVars == <<loaded, exposed, stored, final>>

HMainInit ==
  /\ MainInit
  /\ loaded = [t \in Threads |-> {}]
  /\ exposed = [t \in Threads |-> {}]
  /\ stored = [t \in Threads |-> {}]
  /\ final = [b \in BOOLEAN |-> [t \in Threads |-> ZeroRegs]]

\* The word the current thread loads or stores in this step, as a set.
Used(op) ==
  IF phase = "run" /\ isBlocked /\ nInst' # nInst /\ Fetch(cur).op = op
  THEN {WordIndex(Address(Fetch(cur), reg[cur]), img.dataStart)}
  ELSE {}

NoteUse ==
  /\ loaded' = [loaded EXCEPT ![cur] = @ \cup Used("LOAD")]
  /\ exposed' = [exposed EXCEPT ![cur] = @ \cup (Used("LOAD") \ stored[cur])]
  /\ stored' = [stored EXCEPT ![cur] = @ \cup Used("STORE")]
  /\ final' = IF phase = "run" /\ phase' = "collect"
              THEN [final EXCEPT ![isBlocked] = reg]
              ELSE final

HMainNext == MainNext /\ NoteUse

allVars == <<mvars, useVars>>

\* main is one thread of control that nothing stops.
HMainSpec == HMainInit /\ [][HMainNext]_allVars /\ WF_allVars(HMainNext)

-----------------------------------------------------------------------------
(***************************************************************************)
(* No thread loads what another one stores, and none loads a word before   *)
(* the run overwrites it.                                                  *)
(***************************************************************************)
Confined ==
  \A t, u \in Threads :
    /\ exposed[t] \cap stored[u] = {}
    /\ t # u => loaded[t] \cap stored[u] = {}

(***************************************************************************)
(* For programs whose loads are confined in this way the two simulations   *)
(* print the same registers, although they interleave the threads          *)
(* differently and the second starts from the memory the first has left.   *)
(***************************************************************************)
SameResults == phase = "done" /\ Confined => printed[TRUE] = printed[FALSE]

(***************************************************************************)
(* What is printed under the heading of a thread in a simulation is what   *)
(* that thread's registers held when that run ended, although each call of *)
(* a CTX function overwrites the array elements of all the threads.        *)
(***************************************************************************)
PrintsOwnRegisters == phase = "done" => printed = final
=============================================================================
