------------------------------ MODULE MCEasyDump ------------------------------
(***************************************************************************)
(* Small instances of EasyDump: the linear map is at 4..8 for physical 8   *)
(* to 12, so that the shift is negative, and at 13 and 14 for 1 and 2.     *)
(* Reads of half a page and of two pages start at the same address and     *)
(* share one file, as those of the two registers do.  Virtual 8 cannot be  *)
(* read, so that a helper stops after one of two pages, or after the first *)
(* half of a page.  The page at 13 is asked for alone, and with a size that *)
(* reaches the end of the address space.  The kernel's image is in the only *)
(* region larger than 2, or there is no such region.                       *)
(***************************************************************************)
EXTENDS EasyDump

R(start, size) == [start |-> start, size |-> size]
G(start, size) == [start |-> start, size |-> size]

MCMaps     == {{G(0, 2), G(4, 6)}, {G(2, 1)}}
MCTable    == [virt |-> 4, phys |-> 8]
MCMemory   == 4 .. 8 \cup {13, 14}
MCRequests == {R(8, 1), R(8, 4), R(9, 4), R(1, 2), R(1, 4)}
MCHoles    == {8}
TwoVersions == {0, 1}
=============================================================================
