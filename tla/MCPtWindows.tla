----------------------------- MODULE MCPtWindows -----------------------------
(***************************************************************************)
(* Small instances of PtWindows: pages of 2 units, sections and 2 MB pages *)
(* of 4, windows that are smaller than a page, of a page, no divisor of a  *)
(* section, and larger than a section.                                     *)
(***************************************************************************)
EXTENDS PtWindows

Arm(kind, at, ap, xn) == [kind |-> kind, at |-> at, ap |-> ap, xn |-> xn]
X64(kind, at, flags)  == [kind |-> kind, at |-> at, flags |-> flags]

ArmLines ==
  {Arm("small", 2, "RW/X", TRUE), Arm("small", 8, "RO/RO", FALSE),
   Arm("small", 10, "RW/RW", TRUE), Arm("small", 12, "X/X", FALSE),
   Arm("section", 4, "RO/X", FALSE), Arm("section", 12, "RW/RO", TRUE),
   Arm("large", 0, "RW/X", TRUE)}

Ia32eLines ==
  {X64("small", 0, {"W"}), X64("small", 2, {"S", "XD"}), X64("small", 6, {"S", "W"}),
   X64("section", 8, {}), X64("small", 14, {"W", "XD"})}

UpTo3(S) == UNION {[1..k -> S] : k \in 1..2}
            \cup {s \in [1..3 -> S] : s[1].at < s[2].at /\ s[2].at < s[3].at}

MCArmListings   == UpTo3(ArmLines)
MCIa32eListings == UpTo3(Ia32eLines)
MCWindows == {1, 2, 3, 8}
MCRanges  == {[start |-> 0, stop |-> 12], [start |-> 4, stop |-> 12],
              [start |-> 5, stop |-> 15]}
=============================================================================
