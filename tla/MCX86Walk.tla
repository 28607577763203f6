------------------------------ MODULE MCX86Walk ------------------------------
(***************************************************************************)
(* Small instances of X86Walk: tables of two entries, three pages of       *)
(* tables, frame 3 outside memory, frames 5 and 7 above what 32 bits reach *)
(* and aliases of 0 and 2, 7 also with all bits set.  Page 0 is the root;  *)
(* its first entry may point back to it, as the self-map of Windows does,  *)
(* so that it is walked at all four levels.                                *)
(***************************************************************************)
EXTENDS X86Walk, TLC

E(p, ps, avail, base) == [p |-> p, ps |-> ps, avail |-> avail, base |-> base]

T(b)    == E(TRUE, FALSE, 0, b)
Big     == E(TRUE, TRUE, 0, 2)
Absent  == E(FALSE, FALSE, 0, 2)

MCFrames == {0, 1, 2, 3, 5, 7}

Image(a, b, c, d, e, f) ==
  [pg \in TablePages |->
     CASE pg = 0 -> (0 :> a @@ 1 :> b)
       [] pg = 1 -> (0 :> c @@ 1 :> d)
       [] OTHER  -> (0 :> e @@ 1 :> f)]

(* Self-map, tables, software bits, large pages, entries out of memory.    *)
AllShapes ==
  {Image(a, b, c, d, e, f) :
     a \in {T(0), T(1), Absent, E(TRUE, FALSE, 1, 7)},
     b \in {Zero, T(2), E(TRUE, FALSE, 1, 1)},
     c \in {T(2), Big},
     d \in {T(2), T(3), T(7)},
     e \in {T(1), Big},
     f \in {Big, Absent}}

FewShapes ==
  {Image(T(1), Absent, T(2), Zero, T(1), Big),
   Image(T(0), Zero, Big, Zero, Zero, Zero),
   Image(E(TRUE, FALSE, 1, 1), T(2), Zero, Zero, Big, Zero)}

Walks(prog, memories, roots) ==
  {[program |-> prog, mem |-> m, root |-> r] : m \in memories, r \in roots}

MCStarts == Walks("win8", AllShapes, {0}) \cup Walks("win8", FewShapes, {5})
              \cup Walks("uptdump", FewShapes, {0})

MCGarbage  == {[i \in Indices |-> Zero], [i \in Indices |-> T(1)]}
SomeEntries == {Zero, T(1)}
=============================================================================
