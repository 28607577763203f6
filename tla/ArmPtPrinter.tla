---------------------------- MODULE ArmPtPrinter ----------------------------
(***************************************************************************)
(* The ARMv7 short-descriptor page-table printer of                        *)
(* code/common/pt_printer.c: armPtPrint calls armPtPrintTT for TTBR0 and   *)
(* perhaps TTBR1, which calls armPtPrintPT for every level-1 entry that    *)
(* points to a level-2 table.  Each of the two allocates a buffer, fills   *)
(* it with physread, prints one line per valid entry and deallocates.      *)
(*                                                                         *)
(* The tables belong to a running operating system, which may rewrite any  *)
(* word of them between two words that physread copies (OSWrite), or they  *)
(* are in a crash dump, which nobody changes.                              *)
(*                                                                         *)
(* Units: physical addresses are 32-bit words, virtual addresses are 4 kB  *)
(* pages.  In the code L1Count = 4096, L2Count = 256, LargeSpan = 16,      *)
(* LargeStep = 16 and MaxN = 7.                                            *)
(***************************************************************************)
EXTENDS Integers, Sequences, FiniteSets

CONSTANTS
  L1Count,    (* entries of a full level-1 table                            *)
  L2Count,    (* entries of a level-2 table                                 *)
  LargeSpan,  (* consecutive level-2 entries that repeat one large page     *)
  LargeStep,  (* pages per index step in the address printed for such a page*)
  MaxN,       (* greatest value of TTBCR.N                                  *)
  MemWords,   (* words of physical memory; reads beyond it fail             *)
  Bases,      (* base fields of descriptors                                 *)
  Starts,     (* what armPtPrint may be called with: the contents of memory,*)
              (* whether an operating system runs on it, and the arguments  *)
  NewDescs,   (* descriptors the operating system may store during the walk *)
  MaxWrites,  (* bound on the stores of the operating system                *)
  MaxFails    (* bound on failed allocations and failed reads of memory     *)

(***************************************************************************)
(* A descriptor word: its two type bits, bit 18, and the base field.       *)
(***************************************************************************)
Descs == [lo : 0..3, super : BOOLEAN, base : Bases]

Words == 0 .. MemWords - 1

Tables == {0, 1}     \* the table of TTBR0 and the table of TTBR1

Kinds == {"section", "super", "small", "large"}

CallType == [lpae : BOOLEAN, N : 0..MaxN, ttbr0 : Nat, ttbr1 : Nat]

(* Faulty variants, named after the definition they would replace, stand   *)
(* before it: each is a slip that one of the properties below rejects.     *)
TTWords_IgnoresN(n) == L1Count

(* The switch on TTBCR.N: 16 kB, 8 kB, 4 kB ... as numbers of entries.     *)
TTWords(n) == L1Count \div 2^n

ASSUME GeometryAssumption ==
  /\ L1Count \in Nat \ {0}
  /\ L2Count \in Nat \ {0}
  /\ LargeSpan \in Nat \ {0}
  /\ LargeStep \in Nat \ {0}
  /\ MaxN \in Nat
  /\ \A n \in 0..MaxN : 2^n \in Nat \ {0} /\ L1Count % 2^n = 0

ASSUME MemoryAssumption ==
  /\ MemWords \in Nat
  /\ Bases \subseteq Nat
  /\ Starts \subseteq [mem : [Words -> Descs], os : BOOLEAN, call : CallType]
  /\ NewDescs \subseteq Descs
  /\ MaxWrites \in Nat
  /\ MaxFails \in Nat

VARIABLES
  mem,     \* physical memory
  os,      \* an operating system runs on it; FALSE for a crash dump
  writes,  \* stores the operating system has made
  call,    \* ttbcr, ttbr0 and ttbr1
  pc,      \* where the program is
  tt,      \* frame of armPtPrintTT
  pt,      \* frame of armPtPrintPT
  live,    \* words allocated and not deallocated
  fails,   \* allocations and reads that have failed
  lines,   \* the lines printed
  held,    \* history: every descriptor a word has held since the start
  lost     \* history: the level-1 table (index -1) or level-2 tables not read

progVars == <<call, pc, tt, pt, live, fails, lines, lost>>
envVars  == <<mem, os, writes, held>>
vars     == <<mem, os, writes, call, pc, tt, pt, live, fails, lines, held, lost>>

-----------------------------------------------------------------------------
VASize == L1Count * L2Count       \* pages of the 32-bit virtual space

(* phys_base = (ttbr >> (14-N)) << (14-N)                                  *)
TTBase(ttbr, n) == (ttbr \div TTWords(n)) * TTWords(n)

VirtOffset_NotReset(n2) == IF n2 = 0 THEN 0 ELSE VASize \div 2^n2

(* virt_offset: computed for TTBR1, then set to 0 whichever the table.     *)
VirtOffset(n2) == 0

PTBase_OffByOne(d) == (d.base - 1) * L2Count

(* phys_base = (l1desc >> 10) << 10                                        *)
PTBase(d) == d.base * L2Count

SmallVirt_NoOffset(voff, j) == j

(* i<<20, virt_offset + (i<<12) and virt_offset + ((i&0xf0)<<16)           *)
SectionVirt(i)     == i * L2Count
SmallVirt(voff, j) == (voff + j) % VASize
LargeVirt(voff, j) == (voff + (j - (j % LargeSpan)) * LargeStep) % VASize

Line(kind, virt, d) ==
  [table |-> tt.table, kind |-> kind, virt |-> virt, desc |-> d]

-----------------------------------------------------------------------------
NoDesc  == [lo |-> 0, super |-> FALSE, base |-> 0]
IdleTT  == [table |-> 0, size |-> 0, base |-> 0, voff |-> 0, ok |-> FALSE,
            i |-> 0, buf |-> <<>>]
IdlePT  == [base |-> 0, voff |-> 0, ok |-> FALSE, j |-> 0, buf |-> <<>>]

Init ==
  /\ \E s \in Starts : mem = s.mem /\ os = s.os /\ call = s.call
  /\ writes = 0
  /\ pc = "start"
  /\ tt = IdleTT
  /\ pt = IdlePT
  /\ live = 0
  /\ fails = 0
  /\ lines = <<>>
  /\ held = [w \in Words |-> {mem[w]}]
  /\ lost = {}

-----------------------------------------------------------------------------
(* armPtPrint                                                              *)

RejectLpae ==
  /\ pc = "start"
  /\ call.lpae
  /\ pc' = "done"
  /\ UNCHANGED <<call, tt, pt, live, fails, lines, lost>>
  /\ UNCHANGED envVars

Accept ==
  /\ pc = "start"
  /\ ~ call.lpae
  /\ pc' = "ttbr0"
  /\ UNCHANGED <<call, tt, pt, live, fails, lines, lost>>
  /\ UNCHANGED envVars

(* allocate(size): ok says whether it returned a buffer, live counts it.   *)
Allocate(ok, size) ==
  /\ ok \/ fails < MaxFails
  /\ live' = IF ok THEN live + size ELSE live
  /\ fails' = IF ok THEN fails ELSE fails + 1

(* armPtPrintTT up to its physread.                                        *)
EnterTT(table, n, ttbr, n2) ==
  \E ok \in BOOLEAN :
    /\ Allocate(ok, TTWords(n))
    /\ tt' = [table |-> table, size |-> TTWords(n), base |-> TTBase(ttbr, n),
              voff |-> VirtOffset(n2), ok |-> ok, i |-> 0, buf |-> <<>>]
    /\ pc' = "tt_read"

CallTTBR0 ==
  /\ pc = "ttbr0"
  /\ call.ttbr0 # 0
  /\ EnterTT(0, call.N, call.ttbr0, 0)
  /\ UNCHANGED <<call, pt, lines, lost>>
  /\ UNCHANGED envVars

SkipTTBR0 ==
  /\ pc = "ttbr0"
  /\ call.ttbr0 = 0
  /\ pc' = "ttbr1"
  /\ UNCHANGED <<call, tt, pt, live, fails, lines, lost>>
  /\ UNCHANGED envVars

CallTTBR1 ==
  /\ pc = "ttbr1"
  /\ call.N # 0
  /\ call.ttbr1 # 0
  /\ EnterTT(1, 0, call.ttbr1, call.N)
  /\ UNCHANGED <<call, pt, lines, lost>>
  /\ UNCHANGED envVars

SkipTTBR1 ==
  /\ pc = "ttbr1"
  /\ call.N = 0 \/ call.ttbr1 = 0
  /\ pc' = "done"
  /\ UNCHANGED <<call, tt, pt, live, fails, lines, lost>>
  /\ UNCHANGED envVars

-----------------------------------------------------------------------------
(* armPtPrintTT                                                            *)

TTReadWord ==
  /\ pc = "tt_read"
  /\ tt.ok
  /\ Len(tt.buf) < tt.size
  /\ tt.base + Len(tt.buf) \in Words
  /\ tt' = [tt EXCEPT !.buf = Append(@, mem[tt.base + Len(tt.buf)])]
  /\ UNCHANGED <<call, pc, pt, live, fails, lines, lost>>
  /\ UNCHANGED envVars

TTReadDone ==
  /\ pc = "tt_read"
  /\ tt.ok
  /\ Len(tt.buf) = tt.size
  /\ pc' = "tt_loop"
  /\ UNCHANGED <<call, tt, pt, live, fails, lines, lost>>
  /\ UNCHANGED envVars

(* physread fails: no buffer, no such memory, or an error of the device.   *)
ReadFails(frame, size) ==
  \/ /\ ~ frame.ok \/ frame.base + size > MemWords
     /\ UNCHANGED fails
  \/ /\ frame.ok /\ frame.base + size <= MemWords
     /\ fails < MaxFails
     /\ fails' = fails + 1

TTReadFails ==
  /\ pc = "tt_read"
  /\ ReadFails(tt, tt.size)
  /\ lost' = lost \cup {<<tt.table, -1>>}
  /\ pc' = "tt_out"
  /\ UNCHANGED <<call, tt, pt, live, lines>>
  /\ UNCHANGED envVars

(* level1 = buffer[i], inside the loop                                     *)
AtEntry  == pc = "tt_loop" /\ tt.i < tt.size
L1Entry  == tt.buf[tt.i + 1]

TTFault_NoIncrement ==
  /\ AtEntry
  /\ L1Entry.lo = 0
  /\ UNCHANGED <<call, tt, pc, pt, live, fails, lines, lost>>
  /\ UNCHANGED envVars

TTFault ==
  /\ AtEntry
  /\ L1Entry.lo = 0
  /\ tt' = [tt EXCEPT !.i = @ + 1]
  /\ UNCHANGED <<call, pc, pt, live, fails, lines, lost>>
  /\ UNCHANGED envVars

TTSection ==
  /\ AtEntry
  /\ L1Entry.lo \in {2, 3}
  /\ lines' = Append(lines, Line(IF L1Entry.super THEN "super" ELSE "section",
                                 SectionVirt(tt.i), L1Entry))
  /\ tt' = [tt EXCEPT !.i = @ + 1]
  /\ UNCHANGED <<call, pc, pt, live, fails, lost>>
  /\ UNCHANGED envVars

(* Calls armPtPrintPT, up to its physread.                                 *)
TTTable ==
  /\ AtEntry
  /\ L1Entry.lo = 1
  /\ \E ok \in BOOLEAN :
       /\ Allocate(ok, L2Count)
       /\ pt' = [base |-> PTBase(L1Entry),
                 voff |-> (tt.voff + SectionVirt(tt.i)) % VASize,
                 ok |-> ok, j |-> 0, buf |-> <<>>]
  /\ pc' = "pt_read"
  /\ UNCHANGED <<call, tt, lines, lost>>
  /\ UNCHANGED envVars

TTEnd ==
  /\ pc = "tt_loop"
  /\ tt.i = tt.size
  /\ pc' = "tt_out"
  /\ UNCHANGED <<call, tt, pt, live, fails, lines, lost>>
  /\ UNCHANGED envVars

(* deallocate(buffer, size) of the frame; a null buffer releases nothing.  *)
Deallocate(frame, size) ==
  live' = IF frame.ok THEN live - size ELSE live

TTReturn ==
  /\ pc = "tt_out"
  /\ Deallocate(tt, tt.size)
  /\ tt' = [tt EXCEPT !.ok = FALSE, !.buf = <<>>]
  /\ pc' = IF tt.table = 0 THEN "ttbr1" ELSE "done"
  /\ UNCHANGED <<call, pt, fails, lines, lost>>
  /\ UNCHANGED envVars

-----------------------------------------------------------------------------
(* armPtPrintPT                                                            *)

PTReadWord ==
  /\ pc = "pt_read"
  /\ pt.ok
  /\ Len(pt.buf) < L2Count
  /\ pt.base + Len(pt.buf) \in Words
  /\ pt' = [pt EXCEPT !.buf = Append(@, mem[pt.base + Len(pt.buf)])]
  /\ UNCHANGED <<call, pc, tt, live, fails, lines, lost>>
  /\ UNCHANGED envVars

PTReadDone ==
  /\ pc = "pt_read"
  /\ pt.ok
  /\ Len(pt.buf) = L2Count
  /\ pc' = "pt_loop"
  /\ UNCHANGED <<call, tt, pt, live, fails, lines, lost>>
  /\ UNCHANGED envVars

PTReadFails_Returns ==
  /\ pc = "pt_read"
  /\ ReadFails(pt, L2Count)
  /\ lost' = lost \cup {<<tt.table, tt.i>>}
  /\ tt' = [tt EXCEPT !.i = @ + 1]
  /\ pc' = "tt_loop"
  /\ UNCHANGED <<call, pt, live, lines>>
  /\ UNCHANGED envVars

PTReadFails ==
  /\ pc = "pt_read"
  /\ ReadFails(pt, L2Count)
  /\ lost' = lost \cup {<<tt.table, tt.i>>}
  /\ pc' = "pt_out"
  /\ UNCHANGED <<call, tt, pt, live, lines>>
  /\ UNCHANGED envVars

(* l2desc = buffer[i], inside the loop                                     *)
AtSmallEntry == pc = "pt_loop" /\ pt.j < L2Count
L2Entry      == pt.buf[pt.j + 1]

PTFault ==
  /\ AtSmallEntry
  /\ L2Entry.lo = 0
  /\ pt' = [pt EXCEPT !.j = @ + 1]
  /\ UNCHANGED <<call, pc, tt, live, fails, lines, lost>>
  /\ UNCHANGED envVars

PTLarge ==
  /\ AtSmallEntry
  /\ L2Entry.lo = 1
  /\ lines' = Append(lines, Line("large", LargeVirt(pt.voff, pt.j), L2Entry))
  /\ pt' = [pt EXCEPT !.j = @ + 1]
  /\ UNCHANGED <<call, pc, tt, live, fails, lost>>
  /\ UNCHANGED envVars

PTSmall ==
  /\ AtSmallEntry
  /\ L2Entry.lo \in {2, 3}
  /\ lines' = Append(lines, Line("small", SmallVirt(pt.voff, pt.j), L2Entry))
  /\ pt' = [pt EXCEPT !.j = @ + 1]
  /\ UNCHANGED <<call, pc, tt, live, fails, lost>>
  /\ UNCHANGED envVars

PTEnd ==
  /\ pc = "pt_loop"
  /\ pt.j = L2Count
  /\ pc' = "pt_out"
  /\ UNCHANGED <<call, tt, pt, live, fails, lines, lost>>
  /\ UNCHANGED envVars

(* Back in armPtPrintTT, at the next level-1 entry.                        *)
PTReturn ==
  /\ pc = "pt_out"
  /\ Deallocate(pt, L2Count)
  /\ pt' = [pt EXCEPT !.ok = FALSE, !.buf = <<>>]
  /\ tt' = [tt EXCEPT !.i = @ + 1]
  /\ pc' = "tt_loop"
  /\ UNCHANGED <<call, fails, lines, lost>>
  /\ UNCHANGED envVars

-----------------------------------------------------------------------------
(* The operating system changes a word of its tables during the walk.      *)
OSWrite ==
  /\ os
  /\ writes < MaxWrites
  /\ \E w \in Words, d \in NewDescs :
       /\ mem' = [mem EXCEPT ![w] = d]
       /\ held' = [held EXCEPT ![w] = @ \cup {d}]
  /\ writes' = writes + 1
  /\ UNCHANGED <<os, progVars>>

(* armPtPrint has returned.                                                *)
Finished == pc = "done" /\ UNCHANGED vars

Program ==
  \/ RejectLpae \/ Accept
  \/ CallTTBR0 \/ SkipTTBR0 \/ CallTTBR1 \/ SkipTTBR1
  \/ TTReadWord \/ TTReadDone \/ TTReadFails
  \/ TTFault \/ TTSection \/ TTTable \/ TTEnd \/ TTReturn
  \/ PTReadWord \/ PTReadDone \/ PTReadFails
  \/ PTFault \/ PTLarge \/ PTSmall \/ PTEnd \/ PTReturn

Next == Program \/ OSWrite \/ Finished

Spec == Init /\ [][Next]_vars

(* The program is one sequential thread that is never blocked for ever.    *)
FairSpec == Spec /\ WF_vars(Program)

-----------------------------------------------------------------------------
(* Properties                                                              *)

InTT == pc \in {"tt_read", "tt_loop", "tt_out", "pt_read", "pt_loop", "pt_out"}
InPT == pc \in {"pt_read", "pt_loop", "pt_out"}

FrameTT == [table : Tables, size : Nat, base : Nat, voff : Nat, ok : BOOLEAN,
            i : Nat, buf : Seq(Descs)]
FramePT == [base : Nat, voff : Nat, ok : BOOLEAN, j : Nat, buf : Seq(Descs)]
LineType == [table : Tables, kind : Kinds, virt : Nat, desc : Descs]

(* Every variable has its type.                                            *)
TypeOK ==
  /\ mem \in [Words -> Descs]
  /\ os \in BOOLEAN
  /\ writes \in 0..MaxWrites
  /\ call \in CallType
  /\ pc \in {"start", "ttbr0", "ttbr1", "done"} \/ InTT
  /\ tt \in FrameTT
  /\ pt \in FramePT
  /\ live \in Int
  /\ fails \in 0..MaxFails
  /\ lines \in Seq(LineType)
  /\ held \in [Words -> SUBSET Descs]
  /\ lost \subseteq Tables \X Int

(* What is allocated is exactly the buffers of the functions now running,  *)
(* on every path, the goto out of a failed physread and the failed         *)
(* allocation included; so nothing is allocated when armPtPrint returns.   *)
HeapIsFrames ==
  live = (IF InTT /\ tt.ok THEN tt.size ELSE 0)
         + (IF InPT /\ pt.ok THEN L2Count ELSE 0)

(* The first page that the processor translates with TTBR1.                *)
FirstTtbr1Page == VASize \div 2^call.N

(* The architecture's translation: which register, which level-1 entry.    *)
Owner(v) == IF call.N = 0 \/ v < FirstTtbr1Page THEN 0 ELSE 1

L1Address(t, i) ==
  LET ttbr == IF t = 0 THEN call.ttbr0 ELSE call.ttbr1
      size == IF t = 0 THEN L1Count \div 2^call.N ELSE L1Count
  IN (ttbr - (ttbr % size)) + i

(* The descriptor that maps page v with a section or a small page, if any. *)
Translation(v) ==
  LET d1 == mem[L1Address(Owner(v), v \div L2Count)]
      d2 == mem[(d1.base * L2Count) + (v % L2Count)]
  IN {d \in {IF d1.lo = 1 THEN d2 ELSE d1} : d.lo \in {2, 3}}

Covers(l, v) ==
  /\ l.table = Owner(v)
  /\ \/ l.kind = "small" /\ l.virt = v
     \/ l.kind \in {"section", "super"} /\ l.virt = v - (v % L2Count)

Shown(v) == {k \in DOMAIN lines : Covers(lines[k], v)}

Unread(v) ==
  \/ (IF Owner(v) = 0 THEN call.ttbr0 ELSE call.ttbr1) = 0
  \/ <<Owner(v), -1>> \in lost
  \/ <<Owner(v), v \div L2Count>> \in lost

(* With tables that do not change, the listing is the processor's own      *)
(* translation as far as sections and small pages go: each page that one   *)
(* of them maps is covered by one such line of the owning table, which     *)
(* holds the descriptor that maps it; any other page by none.  A table     *)
(* that could not be read hides its own pages and no other.  Nothing is    *)
(* said of the lines of large pages: LargePageEvery64k.                    *)
ListingMatchesTranslation ==
  (pc = "done" /\ writes = 0 /\ ~ call.lpae) =>
    \A v \in 0 .. VASize - 1 :
      /\ {lines[k].desc : k \in Shown(v)}
           = IF Unread(v) THEN {} ELSE Translation(v)
      /\ Cardinality(Shown(v)) <= 1

HeldAt(a) == IF a \in Words THEN held[a] ELSE {}

(* Level-2 words that were reachable for level-1 index i at some time.     *)
HeldL2(t, i, j) ==
  UNION {HeldAt(d1.base * L2Count + j) :
            d1 \in {d \in HeldAt(L1Address(t, i)) : d.lo = 1}}

(* However the operating system rewrites its tables during the walk, a     *)
(* printed line shows a descriptor that memory held, at the place in the   *)
(* tables that the line's virtual address names.                           *)
LinesExplained ==
  \A k \in DOMAIN lines :
    LET l == lines[k]
        i == l.virt \div L2Count
    IN CASE l.kind = "small" ->
              /\ l.desc.lo \in {2, 3}
              /\ l.desc \in HeldL2(l.table, i, l.virt % L2Count)
         [] l.kind = "large" ->
              /\ l.desc.lo = 1
              /\ \E i1 \in 0 .. L1Count - 1, j \in 0 .. L2Count - 1 :
                    /\ l.virt = LargeVirt(SectionVirt(i1), j)
                    /\ l.desc \in HeldL2(l.table, i1, j)
         [] OTHER ->
              /\ l.virt % L2Count = 0
              /\ l.desc.lo \in {2, 3}
              /\ l.desc.super = (l.kind = "super")
              /\ l.desc \in HeldAt(L1Address(l.table, i))

(* The lines of TTBR0 come before those of TTBR1, and the sections and     *)
(* small pages of one table by strictly ascending address: none is listed  *)
(* twice, not even by tables that contain themselves or change meanwhile.  *)
ListingAscends ==
  \A k, m \in DOMAIN lines :
    k < m => /\ lines[k].table <= lines[m].table
             /\ (/\ lines[k].table = lines[m].table
                 /\ "large" \notin {lines[k].kind, lines[m].kind})
                  => lines[k].virt < lines[m].virt

(* Lines listed for TTBR0 lie below the first address TTBR1 translates.    *)
TtbrZeroBelowSplit ==
  \A k \in DOMAIN lines :
    lines[k].table = 0 /\ lines[k].kind # "large"
      => lines[k].virt < FirstTtbr1Page

(* The listing as PageListing promises it: for the reader of the output,   *)
(* who sees lines appear one by one, in order and below the split.         *)
Limit   == [t \in Tables |-> IF t = 0 THEN FirstTtbr1Page ELSE VASize]
Listed  == [k \in DOMAIN lines |-> [table |-> lines[k].table,
                                   page  |-> lines[k].virt,
                                   exact |-> lines[k].kind # "large"]]
Over    == pc = "done"
Listing == INSTANCE PageListing WITH Pages <- 0 .. VASize - 1,
                      limit <- Limit, listed <- Listed, over <- Over

(* Every run of armPtPrint is one of that specification, however memory    *)
(* changes and reads fail meanwhile.                                       *)
ListsInOrder == Listing!Spec

(* Every call returns, whatever tables it is pointed at, those that hold   *)
(* themselves included, and however reads fail and memory changes.         *)
Termination == <>(pc = "done")

(* The comment at pt_printer.c:128: a large page is 64 kB, so the entries  *)
(* of the n-th one in a level-2 table map the address 64 kB * n into it.   *)
LargePageEvery64k ==
  (pc = "pt_loop" /\ pt.j > 0) =>
    (pt.buf[pt.j].lo = 1 =>
       lines[Len(lines)].virt
         = pt.voff + LargeSpan * ((pt.j - 1) \div LargeSpan))
=============================================================================
