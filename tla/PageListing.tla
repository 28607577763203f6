----------------------------- MODULE PageListing -----------------------------
(***************************************************************************)
(* What a walk of page tables promises to who reads its output while it is *)
(* being printed: lines are only ever added, table after table; the lines  *)
(* of one table that name a page do so by strictly ascending address, each *)
(* in the part of the address space that the table translates; and nothing *)
(* comes after the end.  Nothing is said of which pages are listed: the    *)
(* tables may change during the walk, and parts of them be unreadable.     *)
(*                                                                         *)
(* ArmPtPrinter and X86Walk implement this specification.                  *)
(***************************************************************************)
EXTENDS Naturals, Sequences

CONSTANTS
  Tables,  (* the tables walked, numbers in the order of the walk           *)
  Pages    (* the pages of the address space                                *)

VARIABLES
  limit,   \* for each table the first page behind its part
  listed,  \* the lines
  over     \* the walk has ended

(* A line that is not exact is a heading or shows another address.         *)
Line == [table : Tables, page : Pages, exact : BOOLEAN]

(* The line may come after those there are.                                *)
Follows(line) ==
  \A k \in DOMAIN listed :
    /\ listed[k].table <= line.table
    /\ (listed[k].table = line.table /\ listed[k].exact /\ line.exact)
         => listed[k].page < line.page

Init ==
  /\ limit \in [Tables -> Nat]
  /\ listed = <<>>
  /\ over = FALSE

ListLine(line) ==
  /\ ~ over
  /\ line \in Line
  /\ Follows(line)
  /\ line.exact => line.page < limit[line.table]
  /\ listed' = Append(listed, line)
  /\ UNCHANGED <<limit, over>>

(* The line is the last that is then listed.                               *)
AddLine ==
  /\ Len(listed') = Len(listed) + 1
  /\ ListLine(listed'[Len(listed')])

EndListing ==
  /\ ~ over
  /\ over' = TRUE
  /\ UNCHANGED <<limit, listed>>

Next == AddLine \/ EndListing

Spec == Init /\ [][Next]_<<limit, listed, over>>
=============================================================================
