------------------------- MODULE WriteBackHierarchy -------------------------
(***************************************************************************)
(* What a hierarchy of two write-back caches promises, without its sets,   *)
(* its order of use and its dirty marks: a block that has been written     *)
(* since it was fetched is known to be modified for as long as it stays    *)
(* cached, so that it can be saved when it leaves, and what is near (in    *)
(* the first level) is also in the hierarchy.                              *)
(***************************************************************************)
CONSTANTS Block

VARIABLES
  near,       \* blocks in the first level
  cached,     \* blocks in the hierarchy
  modified    \* those of them that the memory has an old copy of

hierarchy == <<near, cached, modified>>

Init == near = {} /\ cached = {} /\ modified = {}

\* Blocks enter the first level only when they are accessed.
NearAfter(b) == near' \subseteq (near \cup {b}) \cap cached'

\* Reading leaves b near; the block that makes room for it, if any, leaves
\* the hierarchy.
Read(b) ==
  /\ IF b \in cached
     THEN UNCHANGED <<cached, modified>>
     ELSE \E left \in {{}} \cup {{x} : x \in cached} :
            /\ cached' = (cached \ left) \cup {b}
            /\ modified' = modified \ left
  /\ NearAfter(b)
  /\ b \in near'

\* Writing makes b modified if it is, or comes to be, in the hierarchy.
Write(b) ==
  /\ IF b \in cached
     THEN cached' = cached /\ modified' = modified \cup {b}
     ELSE \E left \in {{}} \cup {{x} : x \in cached} :
            /\ cached' = (cached \ left) \cup {b}
            /\ modified' = (modified \ left) \cup {b}
  /\ NearAfter(b)

\* A write that goes to the memory only.
WriteAround(b) == b \notin cached /\ UNCHANGED hierarchy

Next == \E b \in Block : Read(b) \/ Write(b) \/ WriteAround(b)

Spec == Init /\ [][Next]_hierarchy
=============================================================================
