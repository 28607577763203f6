------------------------------- MODULE PtWindows -------------------------------
(***************************************************************************)
(* From a listing to coloured windows: parse_arm and parse_ia32e of        *)
(* vis/scurve/pt.py, which enter the lines of a listing into a dictionary  *)
(* of pages, and GENERIC_PT of vis/scurve/binvispt with its two users      *)
(* ARM_PT and x86_64_PTZ, which spread the pages over windows of equal     *)
(* size; getPageColors gives each window its colour.                       *)
(*                                                                         *)
(* The dictionary is gone through in the order of its hash table, here in  *)
(* any order.  A page stands under its start, a section under the address  *)
(* of each of its small pages and of the first one behind it.              *)
(*                                                                         *)
(* Addresses are in units.  A right is a letter for read, write, execute   *)
(* and one for user or supervisor: {"ru", "rs", "wu", "ws", "xu", "xs"}.   *)
(***************************************************************************)
EXTENDS Integers, Sequences, FiniteSets

CONSTANTS
  PageUnits,     (* units of a small page                                   *)
  LargeUnits,    (* units of a section, and of a 2 MB page                  *)
  ArmSpace,      (* units of the 32-bit address space                       *)
  LowHalf,       (* units of the lower half of the 48-bit address space     *)
  FullSpace,     (* units of the 64-bit address space                       *)
  ArmListings,   (* listings: sequences of [kind, at, ap, xn]               *)
  Ia32eListings, (* listings: sequences of [kind, at, flags]                *)
  WindowSizes,   (* the sizes that -w may give                              *)
  Ranges         (* what -r may give: [start, stop], stop > 0               *)

ASSUME WindowsAssumption ==
  /\ PageUnits \in Nat \ {0} /\ LargeUnits \in Nat \ {0}
  /\ LargeUnits % PageUnits = 0
  /\ ArmSpace \in Nat /\ LowHalf \in Nat /\ FullSpace \in Nat
  /\ 2 * LowHalf <= FullSpace
  /\ WindowSizes \subseteq Nat \ {0}
  /\ Ranges \subseteq [start : Nat, stop : Nat \ {0}]
  /\ \A r \in Ranges : r.start < r.stop
  /\ ArmListings \subseteq
       Seq([kind : STRING, at : Nat, ap : STRING, xn : BOOLEAN])
  /\ Ia32eListings \subseteq
       Seq([kind : STRING, at : Nat, flags : SUBSET STRING])

VARIABLES
  func,      \* "arm" or "ia32e"
  listing,   \* the lines
  n,         \* the line that is parsed next
  pages,     \* the dictionary: page by key
  win,       \* window_size
  range,     \* start and stop; stop = 0 for none
  pc,        \* "parse", "pages", "mark", "done", "error"
  todo,      \* keys the loop over the dictionary has not come to
  page,      \* the page it is at
  addr,      \* window_addr
  windows    \* by index: the rights shown, Empty for none

vars == <<func, listing, n, pages, win, range, pc, todo, page, addr, windows>>

-----------------------------------------------------------------------------
(* pt.py: the pages of a line                                              *)

Readable == {"RW/X", "RW/RO", "RW/RW", "RO/X", "RO/RO"}

ArmRights(ap, xn) ==
     (IF ap \in {"X/X", "RW/X", "RO/X"} THEN {} ELSE {"ru"})
  \cup (IF ap \in Readable THEN {"rs"} ELSE {})
  \cup (IF ap = "RW/RW" THEN {"wu"} ELSE {})
  \cup (IF ap \in {"RW/X", "RW/RO", "RW/RW"} THEN {"ws"} ELSE {})
  \cup (IF xn THEN {}
        ELSE IF ap \in {"RW/RO", "RW/RW", "RO/RO"} THEN {"xu"}
        ELSE IF ap \in {"X/X", "RW/X", "RO/X"} THEN {"xs"} ELSE {})

Ia32eRights(flags) ==
  LET mode == IF "S" \in flags THEN [w |-> "ws", x |-> "xs"] ELSE [w |-> "wu", x |-> "xu"]
  IN {"rs"} \cup (IF "S" \in flags THEN {} ELSE {"ru"})
            \cup (IF "W" \in flags THEN {mode.w} ELSE {})
            \cup (IF "XD" \in flags THEN {} ELSE {mode.x})

(* Addresses from the upper half of 48 bits on are sign-extended to 64.    *)
SignExtend(a) == IF a >= LowHalf THEN a + (FullSpace - 2 * LowHalf) ELSE a

Parsed(line) == line.kind \in {"small", "section"}

PageOf(line) ==
  LET start == IF func = "arm" THEN line.at ELSE SignExtend(line.at)
  IN [start  |-> start,
      end    |-> start + (IF line.kind = "small" THEN PageUnits ELSE LargeUnits),
      rights |-> IF func = "arm" THEN ArmRights(line.ap, line.xn)
                                 ELSE Ia32eRights(line.flags)]

(* The keys a line's page is entered under; large pages and the lines of   *)
(* tables are passed over.                                                 *)
Keys(line) ==
  IF ~ Parsed(line) THEN {}
  ELSE LET p == PageOf(line)
       IN IF func = "arm" /\ line.kind = "section"
            THEN {p.start + PageUnits * k : k \in 0 .. LargeUnits \div PageUnits}
            ELSE {p.start}

-----------------------------------------------------------------------------
(* binvispt: the windows                                                   *)

Empty  == {"empty"}
NoPage == [start |-> 0, end |-> 0, rights |-> {}]

(* The range as the constructors get it: without -r ARM_PT covers its      *)
(* whole space, x86_64_PTZ has no stop.                                    *)
RangesOf(f) ==
  Ranges \cup {IF f = "arm" THEN [start |-> 0, stop |-> ArmSpace]
                            ELSE [start |-> 0, stop |-> 0]}

DoLen ==
  (IF range.stop = 0 THEN 2 * LowHalf ELSE range.stop - range.start) \div win

(* Address of the first window.                                            *)
Origin == IF range.stop = 0 THEN 0 ELSE range.start

Init ==
  /\ \/ func = "arm" /\ listing \in ArmListings
     \/ func = "ia32e" /\ listing \in Ia32eListings
  /\ win \in WindowSizes
  /\ range \in RangesOf(func)
  /\ n = 1
  /\ pages = [k \in {} |-> NoPage]
  /\ pc = "parse"
  /\ todo = {}
  /\ page = NoPage
  /\ addr = 0
  /\ windows = <<>>

ParseLine ==
  /\ pc = "parse"
  /\ n <= Len(listing)
  /\ LET line == listing[n]
     IN pages' = [k \in DOMAIN pages \cup Keys(line) |->
                    IF k \in Keys(line) THEN PageOf(line) ELSE pages[k]]
  /\ n' = n + 1
  /\ UNCHANGED <<func, listing, win, range, pc, todo, page, addr, windows>>

(* Faulty variants, named after the definition they would replace, stand   *)
(* before it.  This one has room for a window at the stop address.         *)
MakeWindows_OneMore ==
  /\ pc = "parse"
  /\ n > Len(listing)
  /\ windows' = [k \in 0 .. DoLen |-> Empty]
  /\ todo' = DOMAIN pages
  /\ pc' = "pages"
  /\ UNCHANGED <<func, listing, n, pages, win, range, page, addr>>

MakeWindows ==
  /\ pc = "parse"
  /\ n > Len(listing)
  /\ windows' = [k \in 0 .. DoLen - 1 |-> Empty]
  /\ todo' = DOMAIN pages
  /\ pc' = "pages"
  /\ UNCHANGED <<func, listing, n, pages, win, range, page, addr>>

(* Round down to the previous window.                                      *)
RoundDown(a) == a - (a % win)

(* Faulty: only the stop address is tested.                                *)
Skipped_NoStart(a) == range.stop # 0 /\ a > range.stop

(* The window is not in the range.                                         *)
Skipped(a) == range.stop # 0 /\ (a < range.start \/ a > range.stop)

NextPage ==
  /\ pc = "pages"
  /\ \E k \in todo :
       /\ todo' = todo \ {k}
       /\ page' = pages[k]
       /\ addr' = RoundDown(pages[k].start)
       /\ pc' = IF Skipped(RoundDown(pages[k].start)) THEN "pages" ELSE "mark"
  /\ UNCHANGED <<func, listing, n, pages, win, range, windows>>

(* Faulty: an index behind the last window is the last window's.          *)
Place_Clamps(i) == IF i < 0 THEN i + DoLen ELSE IF i >= DoLen THEN DoLen - 1 ELSE i

Index(a) == (a - Origin) \div win

(* What a window shows of a page that is not the first in it: all of the   *)
(* page's rights, if one of four is new, and else none of them.            *)
Merged(shown, rights) ==
  IF shown = Empty \/ {"ws", "wu", "xu", "ru"} \cap (rights \ shown) # {}
    THEN rights
    ELSE shown

(* A list counts indices below zero from its end.                          *)
Place(i) == IF i < 0 THEN i + DoLen ELSE i

MarkWindow ==
  /\ pc = "mark"
  /\ addr < page.end
  /\ Place(Index(addr)) \in DOMAIN windows
  /\ windows' = [windows EXCEPT ![Place(Index(addr))] = Merged(@, page.rights)]
  /\ addr' = addr + win
  /\ UNCHANGED <<func, listing, n, pages, win, range, pc, todo, page>>

(* IndexError: list index out of range.                                    *)
IndexFails ==
  /\ pc = "mark"
  /\ addr < page.end
  /\ Place(Index(addr)) \notin DOMAIN windows
  /\ pc' = "error"
  /\ UNCHANGED <<func, listing, n, pages, win, range, todo, page, addr, windows>>

(* Faulty: a window the page only partly fills is left out.                *)
PageDone_WholeWindows ==
  /\ pc = "mark"
  /\ addr + win > page.end
  /\ pc' = "pages"
  /\ UNCHANGED <<func, listing, n, pages, win, range, todo, page, addr, windows>>

PageDone ==
  /\ pc = "mark"
  /\ addr >= page.end
  /\ pc' = "pages"
  /\ UNCHANGED <<func, listing, n, pages, win, range, todo, page, addr, windows>>

AllDone ==
  /\ pc = "pages"
  /\ todo = {}
  /\ pc' = "done"
  /\ UNCHANGED <<func, listing, n, pages, win, range, todo, page, addr, windows>>

Program ==
  \/ ParseLine \/ MakeWindows \/ NextPage \/ MarkWindow \/ IndexFails
  \/ PageDone \/ AllDone

Stopped == pc \in {"done", "error"}

Next == Program \/ (Stopped /\ UNCHANGED vars)

Spec == Init /\ [][Next]_vars

(* getPageColors, as far as the hue goes.                                  *)
Hue(shown) ==
  IF {"wu", "ws"} \cap shown # {}
    THEN IF {"xu", "xs"} \cap shown # {} THEN "purple" ELSE "red"
  ELSE IF {"xu", "xs"} \cap shown # {} THEN "blue"
  ELSE IF {"ru", "rs"} \cap shown # {} THEN "gray" ELSE "black"

-----------------------------------------------------------------------------
(* Properties                                                              *)

PageType == [start : Nat, end : Nat,
             rights : SUBSET {"ru", "rs", "wu", "ws", "xu", "xs"}]

(* Every variable has its type.                                            *)
TypeOK ==
  /\ func \in {"arm", "ia32e"}
  /\ listing \in ArmListings \cup Ia32eListings
  /\ n \in 1 .. Len(listing) + 1
  /\ DOMAIN pages \subseteq Nat
  /\ \A k \in DOMAIN pages : pages[k] \in PageType
  /\ win \in WindowSizes /\ range \in RangesOf(func)
  /\ pc \in {"parse", "pages", "mark", "done", "error"}
  /\ todo \subseteq DOMAIN pages
  /\ page \in PageType
  /\ addr \in Nat /\ addr % win = 0
  /\ pc # "parse" => DOMAIN windows = 0 .. DoLen - 1

Lines == {listing[k] : k \in {j \in DOMAIN listing : Parsed(listing[j])}}

FirstOf(idx) == Origin + idx * win

(* The rounding of window_addr is not that of the origin: a window index   *)
(* is reached for addresses of the window and, if the start of the range   *)
(* is no multiple of the window, of the part of the next below it.         *)
Reaches(p, idx) ==
  \E a \in RoundDown(p.start) .. p.end - 1 : a % win = 0 /\ Index(a) = idx

(* A window that is not empty shows the rights of one page of the listing  *)
(* that lies in it, never those of a page elsewhere or a mixture of pages. *)
RightsOfOnePage ==
  pc # "parse" =>
    \A idx \in DOMAIN windows : windows[idx] # Empty =>
      \E line \in Lines :
        /\ PageOf(line).rights = windows[idx]
        /\ IF range.start % win = 0
             THEN /\ PageOf(line).start < FirstOf(idx) + win
                  /\ PageOf(line).end > FirstOf(idx)
             ELSE Reaches(PageOf(line), idx)

(* In the listing of a walk pages are disjoint and ascend.                 *)
Ascending ==
  \A j, k \in DOMAIN listing : j < k /\ Parsed(listing[j]) /\ Parsed(listing[k]) =>
    PageOf(listing[j]).end <= PageOf(listing[k]).start

(* A window stands for the stretch from the one multiple of its size in it *)
(* to the next: this is the window itself where the range starts at a      *)
(* multiple, and else reaches behind it, so that what is mapped below the  *)
(* multiple is seen in the window before, or nowhere.                      *)
Stretch(idx) == RoundDown(FirstOf(idx) + win - 1)

(* When the windows are complete, each page of an ascending listing whose  *)
(* address, rounded down to the window size, is in the range is seen in    *)
(* every window whose stretch it lies in, although the sections before it  *)
(* were also entered under its address.  With -r 5..15 and windows of 2 a  *)
(* page from 8 to 10 leaves the window from 9 to 11 empty: the stretch of  *)
(* that window starts at 10.                                               *)
MappedIsShown ==
  (pc = "done" /\ Ascending) =>
    \A line \in Lines :
      LET p == PageOf(line)
      IN (RoundDown(p.start) >= Origin
            /\ (range.stop = 0 \/ RoundDown(p.start) <= range.stop)) =>
           \A idx \in DOMAIN windows :
             (p.start < Stretch(idx) + win /\ p.end > Stretch(idx)) => windows[idx] # Empty

(* The program fails on a page that is not skipped and reaches behind the  *)
(* start of the stretch after the last window's, on each such page,        *)
(* wherever the dictionary has it, and on no other.  Only where the range  *)
(* starts at a multiple of the window is that the end of the last window:  *)
(* with -r 5..15 and windows of 2 a page up to 16 passes the last window,  *)
(* which ends at 15, without an error.                                     *)
FailsAtTheEnd ==
  /\ pc = "error" =>
       \E line \in Lines :
         /\ page = PageOf(line)
         /\ page.end > Stretch(DoLen)
         /\ ~ Skipped(RoundDown(page.start))
  /\ pc = "done" =>
       \A k \in DOMAIN pages :
         Skipped(RoundDown(pages[k].start)) \/ pages[k].end <= Stretch(DoLen)

(* The comment at binvispt:15: writable is red, and at :19 purple if it is *)
(* executable.  A window with a writable page has one of these colours.    *)
WritableIsShown ==
  pc = "done" =>
    \A idx \in DOMAIN windows : \A k \in DOMAIN pages :
      (/\ {"wu", "ws"} \cap pages[k].rights # {}
       /\ ~ Skipped(RoundDown(pages[k].start))
       /\ Reaches(pages[k], idx))
      => Hue(windows[idx]) \in {"red", "purple"}
=============================================================================
