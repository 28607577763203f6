---------------------------- MODULE MCDevmemTtbr ----------------------------
(***************************************************************************)
(* Small instances of DevmemTtbr: records of 3 units; buffers of 5 and 10  *)
(* units hold one and three records and end in the middle of another, as   *)
(* 0x10000 bytes do; the limit of 20 is never tried.  Task 1 is a kernel   *)
(* thread.                                                                 *)
(***************************************************************************)
EXTENDS DevmemTtbr

FourTasks  == 1..4
MCKThreads == {1}
TwoFirst   == <<2, 1>>
SomeSlack  == {0, 3}
=============================================================================
