---------------------------- MODULE MCIosPtWalker ----------------------------
(***************************************************************************)
(* Small instances of IosPtWalker: pages of four words, level-2 tables of  *)
(* two, three pages of memory.  The kernel's image is at 3 of an address   *)
(* space of 8, where larger than 2 means large; its map may also have a    *)
(* large region elsewhere, at 0, none at all, or end with the space.       *)
(***************************************************************************)
EXTENDS IosPtWalker, TLC

G(start, size) == [start |-> start, size |-> size]

MCMaps == { {G(0, 2), G(3, 3)}, {G(0, 3), G(3, 3)}, {G(1, 2), G(6, 2)},
            {G(2, 1), G(5, 3)}, {} }

D(lo, base) == [lo |-> lo, super |-> FALSE, base |-> base]
Super == [lo |-> 2, super |-> TRUE, base |-> 1]
Fault == D(0, 0)

MCBases == {0, 1, 2, 4, 5}

(* Level-1 words 0..3, and 4..7 when two pages of it are asked for; the    *)
(* level-2 tables at 8 and 10, of which the second has no full page.       *)
Image(a, b, c, d) ==
  [w \in Words |->
     CASE w \in {0, 4} -> a [] w = 1 -> b [] w = 2 -> c [] w = 3 -> d
       [] w = 5 -> D(1, 4) [] w = 8 -> D(2, 1) [] w = 9 -> D(1, 2)
       [] OTHER -> Fault]

Images == {Image(D(1, 4), D(2, 1), Super, D(1, 2)),
           Image(D(1, 0), D(1, 5), D(3, 0), Fault)}

Args == {[pbase |-> 0, psize |-> 4, base |-> 0],
         [pbase |-> 5, psize |-> 4, base |-> 0],
         [pbase |-> 1, psize |-> 8, base |-> 20]}

MCStarts   == [mem : Images, arg : Args]
MCNewDescs == {Fault, D(1, 4)}
=============================================================================
