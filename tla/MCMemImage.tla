----------------------------- MODULE MCMemImage -----------------------------
(***************************************************************************)
(* Image files: orderly ones for two threads, whose segments come in any   *)
(* order and are separated in any way, and short ones of lines in any      *)
(* order.                                                                  *)
(***************************************************************************)
EXTENDS MemImageProperties, SequencesExt

CONSTANT ShortLength    \* lines of a short file behind its header, at most

Text(first, at, num) == [first |-> first, at |-> at, num |-> num, inst |-> "none"]
Empty == Text("\n", FALSE, 0)
Comment == Text("#", FALSE, 0)
Param(c, n) == Text(c, FALSE, n)
Thread(t) == Text("T", FALSE, t)
CodeHead == Text("I", TRUE, 0)
DataHead == Text("D", TRUE, 40)
Word(n) == Text("digit", FALSE, n)
Command(first, i) == [first |-> first, at |-> FALSE, num |-> 0, inst |-> i]
Add == Command("A", "add")
Store == Command("S", "store")

Headers ==
  {<<Comment, Param("L", 5), Param("S", 3), Param("O", 1), Param("N", 2)>>,
   <<Param("O", 4), Empty, Param("O", 1), Param("N", 2)>>}

\* Code and data of three lines do not fit.
CodeSegments(t, codes) == {<<Thread(t), CodeHead>> \o c : c \in codes}
ZeroSegments == CodeSegments(0, {<<>>, <<Add>>, <<Store, Add>>})
OneSegments == CodeSegments(1, {<<Add>>, <<Store, Add, Store>>})
DataSegments == {<<DataHead>> \o d : d \in {<<>>, <<Word(7), Word(9)>>, <<Word(7), Word(9), Word(7)>>}}
Separators == {<<>>, <<Empty>>, <<Comment, Empty>>}

\* segments and separators in turn
Arranged(a, b, c) ==
  {h \o x \o s \o y \o r \o z : h \in Headers, x \in a, s \in Separators,
     y \in b, r \in Separators, z \in c}

OrderlyFiles ==
  Arranged(ZeroSegments, OneSegments, DataSegments)
    \cup Arranged(OneSegments, DataSegments, ZeroSegments)
    \cup Arranged(DataSegments, OneSegments, ZeroSegments)

\* Nothing is missing but separators.
PackedFiles ==
  Arranged({<<Thread(0), CodeHead, Add>>}, {<<Thread(1), CodeHead, Store, Add>>},
           {<<DataHead, Word(7), Word(9)>>})

AnyLine == {Empty, Thread(0), Thread(1), CodeHead, DataHead, Add, Word(7)}
ShortFiles ==
  {<<Param("N", 2)>> \o f : f \in UNION {[1 .. n -> AnyLine] : n \in 0 .. ShortLength}}
    \cup {<<>>, <<Thread(0), CodeHead, Add>>}

AllFiles == OrderlyFiles \cup ShortFiles
=============================================================================
