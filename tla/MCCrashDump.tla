----------------------------- MODULE MCCrashDump -----------------------------
(***************************************************************************)
(* Small instances of CrashDump: an address space of 8 pages of 4 units,   *)
(* two header pages, runs of which some are adjacent in memory and some    *)
(* are not, and reads of half a page, a page and two pages at every half   *)
(* page.  The dumps: a size that is decimal, as it is in dump.c, in a run  *)
(* that is adjacent to the next; a decimal base and size; a base that is   *)
(* decimal behind others, and a run up to the end of the address space;    *)
(* runs of which nearly all of memory makes the file longer than 32 bits   *)
(* can express; and runs at and above the end of the address space.        *)
(***************************************************************************)
EXTENDS CrashDump

R(base, count)  == [base |-> base, count |-> count, bare |-> {}]
B(base, count, bare) == [base |-> base, count |-> count, bare |-> bare]

MCBlocks ==
  {<<R(1, 1), B(3, 2, {"count"}), R(5, 1)>>,
   <<B(1, 2, {"base", "count"}), R(3, 1), R(5, 3)>>,
   <<R(2, 1), B(4, 1, {"base"}), R(6, 2)>>,
   <<R(1, 1), R(2, 6)>>,
   <<R(2, 1), R(9, 1)>>,
   <<R(2, 1), R(8, 1), R(9, 1)>>}

MCRequests == {[phys |-> 2 * u, size |-> s] : u \in 0..15, s \in {2, 4, 8}}

Cut == {0, 1, 4}
=============================================================================
