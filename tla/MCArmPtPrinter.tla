--------------------------- MODULE MCArmPtPrinter ---------------------------
(***************************************************************************)
(* Small instances of ArmPtPrinter: 4 level-1 entries of 4 pages each,     *)
(* large pages of 2 pages, 12 words of memory.                             *)
(*                                                                         *)
(* Words 0-3 are a level-1 table and, when a descriptor says so, also a    *)
(* level-2 table (base 0, a table that contains itself); words 4-7 are a   *)
(* level-2 table (base 1); words 8-11 the level-1 table of TTBR1, and a    *)
(* level-2 table (base 2); base 3 is not in memory.                        *)
(***************************************************************************)
EXTENDS ArmPtPrinter

D(lo, super, base) == [lo |-> lo, super |-> super, base |-> base]

Fault   == D(0, FALSE, 0)
Tbl(b)  == D(1, FALSE, b)
Sect    == D(2, FALSE, 1)
Super   == D(2, TRUE, 2)
Small   == D(3, FALSE, 2)
Large   == D(1, FALSE, 3)

MCBases == 0..3

Image(d0, d1, e0, e2) ==
  [w \in Words |->
     CASE w = 0 -> d0    [] w = 1 -> d1  [] w = 2 -> Tbl(1) [] w = 3 -> Sect
       [] w = 4 -> e0    [] w = 5 -> Small [] w = 6 -> e2   [] w = 7 -> Fault
       [] w = 8 -> Super [] w = 9 -> Tbl(3) [] w = 10 -> Tbl(1) [] OTHER -> Sect]

(* Every shape of a level-1 and of a level-2 entry.                        *)
AllShapes ==
  {Image(d0, d1, e0, e2) :
     d0 \in {Fault, Sect, Super, Tbl(0), Tbl(1), Tbl(3)},
     d1 \in {Fault, Tbl(1), Tbl(2)},
     e0 \in {Fault, Small, Large},
     e2 \in {Small, Large}}

(* A few images for the runs in which the operating system writes.         *)
FewShapes ==
  {Image(Tbl(1), Fault, Small, Large), Image(Tbl(0), Sect, Large, Fault)}

C(lpae, n, t0, t1) == [lpae |-> lpae, N |-> n, ttbr0 |-> t0, ttbr1 |-> t1]

(* N = 0, 1, 2; registers zero, aligned, and with attribute bits below.    *)
AllCalls ==
  {C(FALSE, n, t0, t1) : n \in 0..2, t0 \in {0, 1, 6}, t1 \in {0, 9}}
    \cup {C(TRUE, 1, 1, 9)}

TwoCalls == {C(FALSE, 0, 1, 9), C(FALSE, 1, 1, 9)}

OneCall == {C(FALSE, 1, 1, 9)}

In(running, memories, calls) ==
  {[mem |-> m, os |-> running, call |-> c] : m \in memories, c \in calls}

MCStarts  == In(FALSE, AllShapes, AllCalls) \cup In(TRUE, FewShapes, TwoCalls)
OneStart  == In(FALSE, FewShapes, OneCall)

SomeDescs == {Fault, Small, Tbl(1)}
=============================================================================
