----------------------------- MODULE IosPtWalker -----------------------------
(***************************************************************************)
(* The page-table walker of code/iOS/misc/ptwalker.c: main, loopread and   *)
(* dump_pagetable, with get_kernel_region_tfp as module KernelRegion has   *)
(* it and poke_mem of code/iOS/misc/physmem.c, which "inject" puts behind  *)
(* system call 8.                                                          *)
(*                                                                         *)
(* loopread has the kernel copy a page of physical memory to a scratch     *)
(* page of the kernel's address space, where vm_read_overwrite fetches it  *)
(* in two halves.  No result of the system call is looked at, and the      *)
(* walked tables belong to the kernel that runs meanwhile.                 *)
(*                                                                         *)
(* Units: physical memory is counted in words, virtual addresses in 4 kB   *)
(* pages.  In the code PageWords = 1024, L2Count = 256 and L1Words = 4096. *)
(***************************************************************************)
EXTENDS KernelRegion, Sequences

CONSTANTS
  PageWords,   (* words of a page, what loopread reads at a time            *)
  L1Words,     (* words of a full level-1 table                             *)
  L2Count,     (* entries of a level-2 table, pages of a section            *)
  MemWords,    (* words of physical memory                                  *)
  Bases,       (* base fields of descriptors                                *)
  KernelBase,  (* where the kernel's image is                               *)
  Starts,      (* contents of memory and the three arguments                *)
  NewDescs,    (* descriptors the kernel may store during the walk          *)
  MaxWrites,   (* bound on those stores                                     *)
  MaxFails     (* bound on calls that fail without a reason in the model    *)

Descs == [lo : 0..3, super : BOOLEAN, base : Bases]

Words == 0 .. MemWords - 1
Half  == PageWords \div 2

(* A word that was copied: where from, -1 if from nowhere, and its value.  *)
CopyType == [at : -1 .. MemWords - 1, what : Descs]

ArgType == [pbase : Nat, psize : Nat, base : Nat]

ASSUME WalkerAssumption ==
  /\ PageWords \in Nat \ {0} /\ PageWords % 2 = 0
  /\ L1Words = 4 * PageWords
  /\ L2Count \in 1 .. PageWords
  /\ MemWords \in Nat
  /\ Bases \subseteq Nat /\ 0 \in Bases
  /\ KernelBase \in 1 .. AddrSpace - 1
  /\ Starts \subseteq [mem : [Words -> Descs], arg : ArgType]
  /\ \A s \in Starts : s.arg.psize \in {n * PageWords : n \in 1..4}
  /\ NewDescs \subseteq Descs
  /\ MaxWrites \in Nat /\ MaxFails \in Nat

VARIABLES
  mem,       \* physical memory
  writes,    \* stores of the kernel
  arg,       \* pbase, psize, baseaddress
  injected,  \* poke_mem is behind system call 8
  pc,        \* where the program is
  rd,        \* frame of loopread: who called, base, total, sofar, words poked
  scratch,   \* the scratch page at vm_address
  data,      \* the level-1 buffer of dump_pagetable
  data2,     \* its level-2 buffer
  i, j,      \* its loop counters
  lines,     \* the lines that show an address
  fails,     \* calls that have failed
  stale,     \* history: the kernel did not copy a page it was asked for
  held       \* history: every descriptor a word has held

frames == <<arg, injected, rd, scratch, data, data2, i, j, lines, fails, stale>>
kernel == <<mem, writes, held>>
vars   == <<mem, writes, held, arg, injected, pc, rd, scratch, data, data2,
            i, j, lines, fails, stale, regions, kernel_region, addr, rpc,
            steady, large>>

-----------------------------------------------------------------------------
Nothing == [lo |-> 0, super |-> FALSE, base |-> 0]
Ones    == [lo |-> 3, super |-> TRUE, base |-> 0]

(* What malloc and memset, or vm_allocate, give: n words of no origin.     *)
Filled(n, d) == [k \in 1..n |-> [at |-> -1, what |-> d]]

(* A call of loopread, for one of the two buffers of dump_pagetable.       *)
Frame(who, base, total) ==
  [who |-> who, base |-> base, total |-> total, sofar |-> 0, poked |-> 0]

VASize == L1Words * L2Count     \* pages of the 32-bit virtual space

(* phys_base = (ttbr >> (14-N)) << (14-N), N = 2 for base address 0        *)
TableBase(pbase, base) ==
  LET size == IF base = 0 THEN L1Words \div 4 ELSE L1Words
  IN (pbase \div size) * size

Init ==
  /\ RegionInit
  /\ \E s \in Starts : mem = s.mem /\ arg = s.arg
  /\ writes = 0
  /\ injected \in BOOLEAN
  /\ pc = "main"
  /\ rd = Frame("l1", 0, 0)
  /\ scratch = Filled(PageWords, Nothing)
  /\ data = <<>> /\ data2 = <<>>
  /\ i = 0 /\ j = 0
  /\ lines = <<>>
  /\ fails = 0
  /\ stale = FALSE
  /\ held = [w \in Words |-> {mem[w]}]

Fail == fails < MaxFails /\ fails' = fails + 1

-----------------------------------------------------------------------------
(* main: task_for_pid or vm_allocate fails, or dump_pagetable is called.   *)

GiveUp ==
  /\ pc = "main"
  /\ Fail
  /\ pc' = "ended"
  /\ UNCHANGED <<arg, injected, rd, scratch, data, data2, i, j, lines, stale>>
  /\ UNCHANGED kernel /\ UNCHANGED regionVars

DumpPagetable_OnePage ==
  /\ pc = "main"
  /\ data' = Filled(PageWords, Nothing)
  /\ rd' = Frame("l1", TableBase(arg.pbase, arg.base), arg.psize)
  /\ pc' = "chunk"
  /\ UNCHANGED <<arg, injected, scratch, data2, i, j, lines, fails, stale>>
  /\ UNCHANGED kernel /\ UNCHANGED regionVars

DumpPagetable ==
  /\ pc = "main"
  /\ data' = Filled(arg.psize, Nothing)
  /\ rd' = Frame("l1", TableBase(arg.pbase, arg.base), arg.psize)
  /\ pc' = "chunk"
  /\ UNCHANGED <<arg, injected, scratch, data2, i, j, lines, fails, stale>>
  /\ UNCHANGED kernel /\ UNCHANGED regionVars

-----------------------------------------------------------------------------
(* loopread                                                                *)

(* The argument of the system call is computed first.                      *)
NextChunk ==
  /\ pc = "chunk"
  /\ rd.sofar < rd.total
  /\ CallRegion
  /\ pc' = "ask"
  /\ UNCHANGED frames /\ UNCHANGED kernel

(* syscall(8, ...): poke_mem calls the kernel relative to the address it   *)
(* is given; with another one than the kernel's it runs wild.              *)
SystemCall ==
  /\ pc = "ask"
  /\ EndCall
  /\ pc' = IF ~ injected THEN "half1"
           ELSE IF kernel_region = KernelBase THEN "poke" ELSE "panicked"
  /\ stale' = (stale \/ ~ injected)
  /\ UNCHANGED <<arg, injected, rd, scratch, data, data2, i, j, lines, fails>>
  /\ UNCHANGED kernel

PokeAt == rd.base + rd.sofar + rd.poked

PokeWord_NoSofar ==
  /\ pc = "poke"
  /\ rd.poked < PageWords
  /\ rd.base + rd.poked \in Words
  /\ scratch' = [scratch EXCEPT ![rd.poked + 1] =
                   [at |-> rd.base + rd.poked, what |-> mem[rd.base + rd.poked]]]
  /\ rd' = [rd EXCEPT !.poked = @ + 1]
  /\ UNCHANGED <<arg, injected, pc, data, data2, i, j, lines, fails, stale>>
  /\ UNCHANGED kernel /\ UNCHANGED regionVars

(* IOMemoryDescriptor_readbytes copies the page, while the kernel runs.    *)
PokeWord ==
  /\ pc = "poke"
  /\ rd.poked < PageWords
  /\ PokeAt \in Words
  /\ scratch' = [scratch EXCEPT ![rd.poked + 1] =
                   [at |-> PokeAt, what |-> mem[PokeAt]]]
  /\ rd' = [rd EXCEPT !.poked = @ + 1]
  /\ UNCHANGED <<arg, injected, pc, data, data2, i, j, lines, fails, stale>>
  /\ UNCHANGED kernel /\ UNCHANGED regionVars

PokeDone ==
  /\ pc = "poke"
  /\ rd.poked = PageWords
  /\ pc' = "half1"
  /\ UNCHANGED frames /\ UNCHANGED kernel /\ UNCHANGED regionVars

NoSuchMemory == rd.base + rd.sofar + PageWords > MemWords

(* No descriptor, or none of the bytes: the scratch page stays as it was.  *)
PokeFails ==
  /\ pc = "poke"
  /\ rd.poked = 0
  /\ IF NoSuchMemory THEN UNCHANGED fails ELSE Fail
  /\ stale' = TRUE
  /\ pc' = "half1"
  /\ UNCHANGED <<arg, injected, rd, scratch, data, data2, i, j, lines>>
  /\ UNCHANGED kernel /\ UNCHANGED regionVars

(* The abort of the kernel that main's comment quotes.                     *)
PokePanics ==
  /\ pc = "poke"
  /\ NoSuchMemory
  /\ pc' = "panicked"
  /\ UNCHANGED frames /\ UNCHANGED kernel /\ UNCHANGED regionVars

(* y and y+0x1000/2, where y stays the destination for every chunk.        *)
Stored(buf, from, to) ==
  [k \in DOMAIN buf |-> IF k \in from..to THEN scratch[k] ELSE buf[k]]

Dest(from, to) ==
  IF rd.who = "l1"
    THEN data' = Stored(data, from, to) /\ UNCHANGED data2
    ELSE data2' = Stored(data2, from, to) /\ UNCHANGED data

ReadFirstHalf ==
  /\ pc = "half1"
  /\ Dest(1, Half)
  /\ pc' = "half2"
  /\ UNCHANGED <<arg, injected, rd, scratch, i, j, lines, fails, stale>>
  /\ UNCHANGED kernel /\ UNCHANGED regionVars

ReadSecondHalf ==
  /\ pc = "half2"
  /\ Dest(Half + 1, PageWords)
  /\ rd' = [rd EXCEPT !.sofar = @ + PageWords, !.poked = 0]
  /\ pc' = "chunk"
  /\ UNCHANGED <<arg, injected, scratch, i, j, lines, fails, stale>>
  /\ UNCHANGED kernel /\ UNCHANGED regionVars

ReadFails_GoesOn ==
  /\ pc \in {"half1", "half2"}
  /\ Fail
  /\ rd' = [rd EXCEPT !.sofar = @ + PageWords, !.poked = 0]
  /\ pc' = "chunk"
  /\ UNCHANGED <<arg, injected, scratch, data, data2, i, j, lines, stale>>
  /\ UNCHANGED kernel /\ UNCHANGED regionVars

(* failed to read: loopread returns -1, and dump_pagetable returns too,    *)
(* from the middle of its listing if the page was a level-2 table.         *)
ReadFails ==
  /\ pc \in {"half1", "half2"}
  /\ Fail
  /\ pc' = "failed"
  /\ UNCHANGED <<arg, injected, rd, scratch, data, data2, i, j, lines, stale>>
  /\ UNCHANGED kernel /\ UNCHANGED regionVars

(* while (sofar < total_size) ends: loopread returns 0.                    *)
ReadReturns ==
  /\ pc = "chunk"
  /\ rd.sofar >= rd.total
  /\ pc' = rd.who
  /\ UNCHANGED frames /\ UNCHANGED kernel /\ UNCHANGED regionVars

-----------------------------------------------------------------------------
(* dump_pagetable                                                          *)

AtEntry == pc = "l1" /\ i < arg.psize
L1Entry == data[i + 1].what

SectionVirt(n) == (n * L2Count) % VASize

(* baseaddr + (i * i_offset) + (j<<12), for large pages too                *)
PageVirt(n, m) == (arg.base + n * L2Count + m) % VASize

Line(kind, virt, word) ==
  [kind |-> kind, virt |-> virt, l1 |-> i, word |-> word]

Show(line) == lines' = Append(lines, line)

SkipEntry_Stays ==
  /\ AtEntry
  /\ L1Entry.lo \in {0, 3}
  /\ UNCHANGED vars

(* continue at a fault; case 3 prints that there is a fine page table.     *)
SkipEntry ==
  /\ AtEntry
  /\ L1Entry.lo \in {0, 3}
  /\ i' = i + 1
  /\ UNCHANGED <<arg, injected, pc, rd, scratch, data, data2, j, lines, fails,
                 stale>>
  /\ UNCHANGED kernel /\ UNCHANGED regionVars

ShowSection ==
  /\ AtEntry
  /\ L1Entry.lo = 2
  /\ Show(Line(IF L1Entry.super THEN "super" ELSE "section",
                SectionVirt(i), data[i + 1]))
  /\ i' = i + 1
  /\ UNCHANGED <<arg, injected, pc, rd, scratch, data, data2, j, fails, stale>>
  /\ UNCHANGED kernel /\ UNCHANGED regionVars

ReadTable_KeepsJ ==
  /\ AtEntry
  /\ L1Entry.lo = 1
  /\ data2' = Filled(PageWords, Ones)
  /\ rd' = Frame("l2", L1Entry.base * L2Count, PageWords)
  /\ pc' = "chunk"
  /\ UNCHANGED <<arg, injected, scratch, data, i, j, lines, fails, stale>>
  /\ UNCHANGED kernel /\ UNCHANGED regionVars

(* loopread((l1desc>>10)<<10, data2, 0x1000, vm_address): a whole page,    *)
(* of which the table is the beginning.                                    *)
ReadTable ==
  /\ AtEntry
  /\ L1Entry.lo = 1
  /\ data2' = Filled(PageWords, Ones)
  /\ rd' = Frame("l2", L1Entry.base * L2Count, PageWords)
  /\ j' = 0
  /\ pc' = "chunk"
  /\ UNCHANGED <<arg, injected, scratch, data, i, lines, fails, stale>>
  /\ UNCHANGED kernel /\ UNCHANGED regionVars

AtSmallEntry == pc = "l2" /\ j < L2Count
L2Entry == data2[j + 1].what

SkipPage ==
  /\ AtSmallEntry
  /\ L2Entry.lo = 0
  /\ j' = j + 1
  /\ UNCHANGED <<arg, injected, pc, rd, scratch, data, data2, i, lines, fails,
                 stale>>
  /\ UNCHANGED kernel /\ UNCHANGED regionVars

ShowPage ==
  /\ AtSmallEntry
  /\ L2Entry.lo # 0
  /\ Show(Line(IF L2Entry.lo = 1 THEN "large" ELSE "small",
                PageVirt(i, j), data2[j + 1]))
  /\ j' = j + 1
  /\ UNCHANGED <<arg, injected, pc, rd, scratch, data, data2, i, fails, stale>>
  /\ UNCHANGED kernel /\ UNCHANGED regionVars

TableEnd ==
  /\ pc = "l2"
  /\ j = L2Count
  /\ i' = i + 1
  /\ pc' = "l1"
  /\ UNCHANGED <<arg, injected, rd, scratch, data, data2, j, lines, fails, stale>>
  /\ UNCHANGED kernel /\ UNCHANGED regionVars

Done ==
  /\ pc = "l1"
  /\ i = arg.psize
  /\ pc' = "ended"
  /\ UNCHANGED frames /\ UNCHANGED kernel /\ UNCHANGED regionVars

-----------------------------------------------------------------------------
(* The kernel changes a word of its tables during the walk.                *)
OSWrite ==
  /\ pc \notin {"main", "ended", "failed", "panicked"}
  /\ writes < MaxWrites
  /\ \E w \in Words, d \in NewDescs :
       /\ mem' = [mem EXCEPT ![w] = d]
       /\ held' = [held EXCEPT ![w] = @ \cup {d}]
  /\ writes' = writes + 1
  /\ UNCHANGED pc /\ UNCHANGED frames /\ UNCHANGED regionVars

Searching ==
  /\ Search \/ MapChanges
  /\ UNCHANGED pc /\ UNCHANGED frames /\ UNCHANGED kernel

Over == pc \in {"ended", "failed", "panicked"}

Finished == Over /\ UNCHANGED vars

Walk ==
  \/ GiveUp \/ DumpPagetable
  \/ NextChunk \/ SystemCall \/ PokeWord \/ PokeDone \/ PokeFails \/ PokePanics
  \/ ReadFirstHalf \/ ReadSecondHalf \/ ReadFails \/ ReadReturns
  \/ SkipEntry \/ ShowSection \/ ReadTable \/ SkipPage \/ ShowPage \/ TableEnd
  \/ Done

Next == Walk \/ Searching \/ OSWrite \/ Finished

Spec == Init /\ [][Next]_vars

(* One thread, which waits for nobody; its questions to the kernel are     *)
(* answered, whatever else the kernel does to its map.                     *)
FairSpec ==
  /\ Spec
  /\ WF_vars(Walk)
  /\ WF_vars(Search /\ UNCHANGED pc /\ UNCHANGED frames /\ UNCHANGED kernel)

-----------------------------------------------------------------------------
(* Properties                                                              *)

FrameType == [who : {"l1", "l2"}, base : Nat, total : Nat, sofar : Nat,
              poked : 0..PageWords]
LineType == [kind : {"section", "super", "small", "large"}, virt : Nat,
             l1 : Nat, word : CopyType]

(* Every variable has its type, and the buffers their sizes.               *)
TypeOK ==
  /\ RegionTypeOK
  /\ mem \in [Words -> Descs] /\ held \in [Words -> SUBSET Descs]
  /\ writes \in 0..MaxWrites /\ fails \in 0..MaxFails
  /\ arg \in ArgType
  /\ injected \in BOOLEAN /\ stale \in BOOLEAN
  /\ pc \in {"main", "chunk", "ask", "poke", "half1", "half2", "l1", "l2",
             "ended", "failed", "panicked"}
  /\ rpc # "idle" => pc = "ask"
  /\ rd \in FrameType
  /\ scratch \in [1..PageWords -> CopyType]
  /\ pc # "main" => pc = "ended" \/ data \in [1..arg.psize -> CopyType]
  /\ data2 = <<>> \/ data2 \in [1..PageWords -> CopyType]
  /\ i \in 0..arg.psize /\ j \in 0..L2Count
  /\ lines \in Seq(LineType)

L1Base   == TableBase(arg.pbase, arg.base)
LastPage == L1Base + arg.psize - PageWords

(* Where the word that explains a line is: the level-1 word, or that of    *)
(* the level-2 table which some level-1 word pointed to.                   *)
L1HeldAt(n) == IF LastPage + n \in Words THEN held[LastPage + n] ELSE {}

PlaceOf(line) ==
  IF line.kind \in {"section", "super"} THEN {LastPage + line.l1}
  ELSE {d.base * L2Count + m :
          d \in {x \in L1HeldAt(line.l1) : x.lo = 1},
          m \in {n \in 0 .. L2Count - 1 : PageVirt(line.l1, n) = line.virt}}

(* Whatever fails unseen and however tables change, each line shows a      *)
(* word that physical memory held, since a page that was not copied leaves *)
(* one that was; and if every page asked for was copied, the word was at   *)
(* the place in the tables that the line's indices name, counted in the    *)
(* last page of the level-1 table: the chunks before it are overwritten.   *)
LinesExplained ==
  \A n \in DOMAIN lines :
    LET l == lines[n]
    IN /\ l.word.at \in Words
       /\ l.word.what \in held[l.word.at]
       /\ l.l1 < PageWords
       /\ ~ stale => l.word.at \in PlaceOf(l)

(* Descriptor that the tables give for the m-th page of the n-th section,  *)
(* with the last page of the level-1 table in the place of the first.      *)
Translation(n, m) ==
  LET d1 == mem[LastPage + n]
      d2 == mem[d1.base * L2Count + m]
  IN CASE d1.lo = 1 -> {d \in {d2} : d.lo # 0}
       [] d1.lo = 2 -> {d1}
       [] OTHER     -> {}

ShownFor(n, m) ==
  {k \in DOMAIN lines :
     /\ lines[k].l1 = n
     /\ \/ lines[k].kind \in {"section", "super"} /\ lines[k].virt = SectionVirt(n)
        \/ lines[k].kind \in {"small", "large"} /\ lines[k].virt = PageVirt(n, m)}

(* A walk that nothing disturbed and that came to its end lists exactly    *)
(* the pages of one page of the level-1 table, its last, once each.        *)
ListingIsLastPage ==
  (pc = "ended" /\ data # <<>> /\ writes = 0 /\ ~ stale) =>
    \A n \in 0 .. PageWords - 1, m \in 0 .. L2Count - 1 :
      /\ {lines[k].word.what : k \in ShownFor(n, m)} = Translation(n, m)
      /\ Cardinality(ShownFor(n, m)) <= 1

(* The program ends, unless it has stopped the machine, for tables that    *)
(* contain themselves and for maps that change all the time too.           *)
Termination == <>Over

(* The message at ptwalker.c:65: total_size bytes are read from pbase on.  *)
ReadsTotalSize ==
  (pc = "l1" /\ ~ stale) =>
    \A n \in 1 .. arg.psize : data[n].at = L1Base + n - 1
=============================================================================
