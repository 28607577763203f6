---------------------------- MODULE MCPtdumpClient ----------------------------
(***************************************************************************)
(* Small instances of PtdumpClient: two processes, two blocks, dumps of    *)
(* one and two units that overlap, and two tasks that fill the structure   *)
(* to its last word, with a third to be created and one to go.             *)
(***************************************************************************)
EXTENDS PtdumpClient

TwoRequests == {[start |-> 5, length |-> 2], [start |-> 6, length |-> 1]}
TwoClients  == {1, 2}
TwoBlocks   == {1, 2}
ThreeTasks  == {11, 12, 13}
FirstTwo    == <<11, 12>>
=============================================================================
