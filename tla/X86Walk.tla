------------------------------- MODULE X86Walk -------------------------------
(***************************************************************************)
(* The four-level page-table walk of code/OSX/uptdump/main.c and of its    *)
(* copy in code/win8/dump.c: walkPT, dumpPDPT, dumpPD and dumpPT, each of  *)
(* which reads one table with ReadPhysMem, prints a line per entry, calls  *)
(* the next for every entry that points to a table, and frees its copy.    *)
(*                                                                         *)
(* The two programs differ in ReadPhysMem alone.  uptdump asks a kernel    *)
(* extension and copies from the address it answers, 0 when the call       *)
(* failed; win8 reads a dump file, takes 32 bits of the address, so that a *)
(* table above 4 GB is looked for below, and ignores the result, so that a *)
(* failed read leaves what malloc returned.                                *)
(* The tables uptdump reads belong to the operating system it runs on,     *)
(* which may change any entry at any time; a dump does not change.         *)
(*                                                                         *)
(* Units: a physical address is a page number; a virtual one is the        *)
(* sequence of indices <<a, b, c, d>>.  In the code Entries = 512.         *)
(***************************************************************************)
EXTENDS Integers, Sequences, FiniteSets

CONSTANTS
  Entries,    (* entries of a table                                         *)
  Pages,      (* number of pages of physical memory                         *)
  Span,       (* number of pages that 32 bits address, 2^20                 *)
  Frames,     (* page numbers below 2^40 that entries may hold, some beyond *)
              (* physical memory                                            *)
  AllOnes,    (* the one of them whose bits are all set                     *)
  Starts,     (* what a walk may start with: the program, the contents of   *)
              (* memory, and the root: argv[2] or what CR3 held             *)
  Garbage,    (* contents of a fresh malloc block                           *)
  NewEntries, (* entries the operating system may store during the walk     *)
  MaxWrites,  (* bound on those stores                                      *)
  MaxFails    (* bound on failed reads of existing memory                   *)

(***************************************************************************)
(* The bits of an entry the walk looks at.  avail stands for bits 52-55,   *)
(* software bits that the mask 0x00ffffffffffffff leaves in the address.   *)
(***************************************************************************)
EntryType == [p : BOOLEAN, ps : BOOLEAN, avail : 0..1, base : Frames]

Zero == [p |-> FALSE, ps |-> FALSE, avail |-> 0, base |-> 0]

Indices == 0 .. Entries - 1
TablePages == 0 .. Pages - 1
TableType == [Indices -> EntryType]

Programs == {"uptdump", "win8"}

(* The levels: 4 walkPT, 3 dumpPDPT, 2 dumpPD, 1 dumpPT.                   *)
Levels == 1..4

ASSUME WalkAssumption ==
  /\ Entries \in Nat \ {0}
  /\ Pages \in Nat
  /\ Span \in Nat \ {0}
  /\ Frames \subseteq Nat /\ 0 \in Frames
  /\ AllOnes \in Frames \ TablePages
  /\ Starts \subseteq [program : Programs, mem : [TablePages -> TableType],
                       root : Frames]
  /\ Garbage \subseteq TableType
  /\ NewEntries \subseteq EntryType
  /\ MaxWrites \in Nat /\ MaxFails \in Nat

VARIABLES
  mem,      \* physical memory: the tables
  program,  \* which of the two programs runs
  pc,       \* "read", "loop", "done", "crashed"
  level,    \* the function now running, 5 when walkPT has returned
  frame,    \* per level: the address of its table, its index, its copy
  heap,     \* blocks of ReadPhysMem that are not freed
  lines,    \* the lines printed
  failed,   \* the tables, by level and path, whose read failed although
            \* the memory exists
  writes,   \* stores the operating system has made
  held,     \* history: every entry a word has held since the start
  unread    \* history: the tables, by level and path, whose block was not
            \* filled, these and others

progVars == <<program, pc, level, frame, heap, lines, failed, unread>>
vars == <<mem, program, pc, level, frame, heap, lines, failed, writes, held,
          unread>>

-----------------------------------------------------------------------------
(* address = ((entry & 0x00ffffffffffffff)>>12)<<12                        *)
Address(e) == [avail |-> e.avail, base |-> e.base]

(* The address ReadPhysMem rejects: all of the bits the mask keeps.        *)
Invalid == [avail |-> 1, base |-> AllOnes]

(* Faulty variants, named after the definition they would replace, stand   *)
(* before it: each is a slip that one of the properties below rejects.     *)
PageOf_SoftwareBits(addr) ==
  IF addr.avail = 0 THEN addr.base % Span ELSE Pages

(* The page that is read.  physread of win8 takes a uint32_t, the          *)
(* extension of uptdump the whole address, software bits included.         *)
PageOf(addr) ==
  IF program = "win8" THEN addr.base % Span
  ELSE IF addr.avail = 0 THEN addr.base ELSE Pages

PathTo_Swapped(l) == [k \in 1 .. 4 - l |-> frame[l + k].i]

(* The indices that led to the table of the running level: <<a, b, c>>.    *)
PathTo(l) == [k \in 1 .. 4 - l |-> frame[5 - k].i]

Current == frame[level]
Entry   == Current.buf[Current.i + 1]

Line(kind) ==
  [kind |-> kind, path |-> Append(PathTo(level), Current.i), entry |-> Entry]

Idle == [addr |-> Address(Zero), i |-> 0, buf |-> <<>>]

Init ==
  /\ \E s \in Starts :
       /\ program = s.program
       /\ mem = s.mem
       /\ frame = [l \in Levels |-> IF l = 4
                     THEN [Idle EXCEPT !.addr = [avail |-> 0, base |-> s.root]]
                     ELSE Idle]
  /\ pc = "read"
  /\ level = 4
  /\ heap = 0
  /\ lines = <<>>
  /\ failed = {}
  /\ writes = 0
  /\ held = [w \in TablePages \X Indices |-> {mem[w[1]][w[2]]}]
  /\ unread = {}

-----------------------------------------------------------------------------
(* ReadPhysMem(connection_port, address, 512*8)                            *)

Resume_NoIncrement(l) ==
  /\ level' = l + 1
  /\ IF l = 4
       THEN pc' = "done" /\ UNCHANGED frame
       ELSE pc' = "loop" /\ frame' = [frame EXCEPT ![l] = Idle]

(* The caller of the running function goes on with its next entry.         *)
Resume(l) ==
  /\ level' = l + 1
  /\ IF l = 4
       THEN pc' = "done" /\ UNCHANGED frame
       ELSE pc' = "loop" /\ frame' = [frame EXCEPT ![l + 1].i = @ + 1,
                                                   ![l] = Idle]

Table  == <<level, PathTo(level)>>
Unread == unread' = unread \cup {Table}

(* NULL is returned for the invalid address: the walker returns at once.   *)
RejectAddress ==
  /\ pc = "read"
  /\ Current.addr = Invalid
  /\ Resume(level)
  /\ Unread
  /\ UNCHANGED <<mem, program, heap, lines, failed, writes, held>>

(* One entry of the table is copied while the operating system runs.       *)
ReadEntry ==
  /\ pc = "read"
  /\ Current.addr # Invalid
  /\ PageOf(Current.addr) \in TablePages
  /\ Len(Current.buf) < Entries
  /\ frame' = [frame EXCEPT ![level].buf =
                 Append(@, mem[PageOf(Current.addr)][Len(@)])]
  /\ UNCHANGED <<mem, program, pc, level, heap, lines, failed, writes, held,
                 unread>>

ReadDone ==
  /\ pc = "read"
  /\ Len(Current.buf) = Entries
  /\ heap' = heap + 1
  /\ pc' = "loop"
  /\ UNCHANGED <<mem, program, level, frame, lines, failed, writes, held, unread>>

(* No read reaches the memory, or it ends before the table does.           *)
NoData ==
  \/ PageOf(Current.addr) \notin TablePages /\ UNCHANGED failed
  \/ /\ PageOf(Current.addr) \in TablePages
     /\ Len(Current.buf) < Entries
     /\ Cardinality(failed) < MaxFails
     /\ failed' = failed \cup {Table}

(* uptdump: the call fails, kr is not looked at, and output[0], still 0,   *)
(* is copied from.                                                         *)
ReadCallFails ==
  /\ pc = "read"
  /\ program = "uptdump"
  /\ Current.addr # Invalid
  /\ NoData
  /\ heap' = heap + 1
  /\ pc' = "crashed"
  /\ Unread
  /\ UNCHANGED <<mem, program, level, frame, lines, writes, held>>

(* win8 does not look at the result of physread, nor the extension that    *)
(* serves uptdump at the count readBytes returns: the walk goes on in the  *)
(* block, whose rest is as its allocator returned it.                      *)
ReadLeavesGarbage ==
  /\ pc = "read"
  /\ Current.addr # Invalid
  /\ NoData
  /\ \E g \in Garbage :
       frame' = [frame EXCEPT ![level].buf =
                   [k \in 1..Entries |-> IF k <= Len(@) THEN @[k] ELSE g[k - 1]]]
  /\ heap' = heap + 1
  /\ pc' = "loop"
  /\ Unread
  /\ UNCHANGED <<mem, program, level, lines, writes, held>>

-----------------------------------------------------------------------------
(* The loops over a table's entries                                        *)

AtEntry == pc = "loop" /\ Current.i < Entries

Advance == frame' = [frame EXCEPT ![level].i = @ + 1]

(* The call of the next level: its frame is set up, its table not read.    *)
Descend ==
  /\ level' = level - 1
  /\ frame' = [frame EXCEPT ![level - 1] = [Idle EXCEPT !.addr = Address(Entry)]]
  /\ pc' = "read"

(* walkPT skips entries that are zero, the others those not present.       *)
Skipped == IF level = 4 THEN Entry = Zero ELSE ~ Entry.p

SkipEntry_Stays ==
  /\ AtEntry
  /\ Skipped
  /\ UNCHANGED vars

SkipEntry ==
  /\ AtEntry
  /\ Skipped
  /\ Advance
  /\ UNCHANGED <<mem, program, pc, level, heap, lines, failed, writes, held,
                 unread>>

(* walkPT prints a nonzero entry that is not present, and goes on.         *)
ShowAbsent ==
  /\ AtEntry
  /\ level = 4
  /\ ~ Skipped
  /\ ~ Entry.p
  /\ lines' = Append(lines, Line("table"))
  /\ Advance
  /\ UNCHANGED <<mem, program, pc, level, heap, failed, writes, held, unread>>

IsLeaf_OnlyPS == Entry.ps

(* A PTE, or a PDE or PDPTE with the PS bit: a page.                       *)
IsLeaf == level = 1 \/ (level \in {2, 3} /\ Entry.ps)

ShowPage ==
  /\ AtEntry
  /\ Entry.p
  /\ IsLeaf
  /\ lines' = Append(lines, Line("page"))
  /\ Advance
  /\ UNCHANGED <<mem, program, pc, level, heap, failed, writes, held, unread>>

(* A reference to a table of the next level.                               *)
ShowTable ==
  /\ AtEntry
  /\ Entry.p
  /\ ~ IsLeaf
  /\ lines' = Append(lines, Line("table"))
  /\ Descend
  /\ UNCHANGED <<mem, program, heap, failed, writes, held, unread>>

(* free(addr); return                                                      *)
Return ==
  /\ pc = "loop"
  /\ Current.i = Entries
  /\ heap' = heap - 1
  /\ Resume(level)
  /\ UNCHANGED <<mem, program, lines, failed, writes, held, unread>>

-----------------------------------------------------------------------------
OSWrite ==
  /\ program = "uptdump"
  /\ writes < MaxWrites
  /\ \E w \in TablePages \X Indices, e \in NewEntries :
       /\ mem' = [mem EXCEPT ![w[1]][w[2]] = e]
       /\ held' = [held EXCEPT ![w] = @ \cup {e}]
  /\ writes' = writes + 1
  /\ UNCHANGED progVars

Finished == pc \in {"done", "crashed"} /\ UNCHANGED vars

Walk ==
  \/ RejectAddress \/ ReadEntry \/ ReadDone \/ ReadCallFails \/ ReadLeavesGarbage
  \/ SkipEntry \/ ShowAbsent \/ ShowPage \/ ShowTable \/ Return

Next == Walk \/ OSWrite \/ Finished

Spec == Init /\ [][Next]_vars

(* The walk is one thread that is never blocked for ever.                  *)
FairSpec == Spec /\ WF_vars(Walk)

-----------------------------------------------------------------------------
(* Properties                                                              *)

FrameType == [addr : [avail : 0..1, base : Nat], i : 0..Entries,
              buf : Seq(EntryType)]
LineType  == [kind : {"table", "page"}, path : Seq(Indices), entry : EntryType]

(* Every variable has its type.                                            *)
TypeOK ==
  /\ mem \in [TablePages -> TableType]
  /\ program \in Programs
  /\ pc \in {"read", "loop", "done", "crashed"}
  /\ level \in 1..5
  /\ level = 5 <=> pc = "done"
  /\ frame \in [Levels -> FrameType]
  /\ heap \in Int
  /\ lines \in Seq(LineType)
  /\ failed \subseteq unread
  /\ writes \in 0..MaxWrites
  /\ held \in [TablePages \X Indices -> SUBSET EntryType]
  /\ unread \subseteq Levels \X Seq(Indices)

(* The number of a virtual page, or of the first one a path stands for.    *)
IndexAt(path, k) == IF k <= Len(path) THEN path[k] ELSE 0
Virt(path) ==
  ((IndexAt(path, 1) * Entries + IndexAt(path, 2)) * Entries
     + IndexAt(path, 3)) * Entries + IndexAt(path, 4)

VASize == Entries * Entries * Entries * Entries

Limit   == [t \in {0} |-> VASize]
Listed  == [k \in DOMAIN lines |-> [table |-> 0,
                                   page  |-> Virt(lines[k].path),
                                   exact |-> lines[k].kind = "page"]]
Over    == pc \in {"done", "crashed"}
Listing == INSTANCE PageListing WITH
             Tables <- {0}, Pages <- 0 .. VASize - 1,
             limit <- Limit, listed <- Listed, over <- Over

(* Every walk is a run of PageListing: pages are added one at a time by    *)
(* strictly ascending virtual address, also when a table maps itself and   *)
(* is walked as a table of several levels, when tables change during the   *)
(* walk and when a read failed; and nothing follows the end.               *)
ListsInOrder == Listing!Spec

Prefix(path, n) == SubSeq(path, 1, n)

VirtualPages == [1..4 -> Indices]

(* The processor's walk, in the memory given: the entry that maps virtual  *)
(* page v, with the path of its level, or nothing.  Software bits do not   *)
(* count.                                                                  *)
HwPage(m, root, v) ==
  LET e4 == m[root][v[1]]
      e3 == m[e4.base][v[2]]
      e2 == m[e3.base][v[3]]
      e1 == m[e2.base][v[4]]
  IN CASE ~ e4.p -> {}
       [] e4.p /\ (~ e3.p \/ e3.ps) ->
            {x \in {<<Prefix(v, 2), e3>>} : e3.p}
       [] e4.p /\ e3.p /\ ~ e3.ps /\ (~ e2.p \/ e2.ps) ->
            {x \in {<<Prefix(v, 3), e2>>} : e2.p}
       [] OTHER -> {x \in {<<v, e1>>} : e1.p}

(* What keeps the program from the n-th table of the processor's walk to   *)
(* v, to which e refers: the memory is not there; the table lies above 4   *)
(* GB, for win8; e has software bits set, for uptdump; the read failed.    *)
Missed(e, v, n) ==
  \/ e.base \notin TablePages
  \/ program = "win8" /\ e.base >= Span
  \/ program = "uptdump" /\ e.avail = 1
  \/ <<5 - n, Prefix(v, n - 1)>> \in failed

(* One of the tables that the processor goes through to v was missed.      *)
Hidden(m, root, v) ==
  LET e4 == m[root][v[1]]
      e3 == m[e4.base][v[2]]
      e2 == m[e3.base][v[3]]
      Refers(e) == e.p /\ ~ e.ps
  IN \/ Missed([Zero EXCEPT !.base = root], v, 1)
     \/ e4.p /\ Missed(e4, v, 2)
     \/ e4.p /\ Refers(e3) /\ Missed(e3, v, 3)
     \/ e4.p /\ Refers(e3) /\ Refers(e2) /\ Missed(e2, v, 4)

ShownFor(v) ==
  {k \in DOMAIN lines :
     /\ lines[k].kind = "page"
     /\ lines[k].path = Prefix(v, Len(lines[k].path))}

(* With tables that do not change, the pages listed are those of the       *)
(* processor's walk, large pages included, each with its own entry, unless *)
(* a table on the processor's way is missed for one of the four causes     *)
(* that Missed names.  In particular the software bits that the mask keeps *)
(* cost win8 nothing, and a missed table hides no page of another.         *)
ListingMatchesTranslation ==
  (pc = "done" /\ writes = 0) =>
    \A v \in VirtualPages :
      \/ Hidden(mem, frame[4].addr.base, v)
      \/ {<<lines[k].path, lines[k].entry>> : k \in ShownFor(v)}
           = HwPage(mem, frame[4].addr.base, v)

HeldAt(page, i) == IF page \in TablePages THEN held[<<page, i>>] ELSE {}

(* Where a table is looked for: in win8 32 bits of its address count.      *)
LookedForAt(base) == IF program = "win8" THEN base % Span ELSE base

(* The entries that were reachable, at some time each, along a path, going *)
(* on from each where the program looks for its table.                     *)
HeldOn(path) ==
  LET Tables(es) == {e \in es : e.p}
      h4 == HeldAt(LookedForAt(frame[4].addr.base), path[1])
      h3 == UNION {HeldAt(LookedForAt(e.base), path[2]) : e \in Tables(h4)}
      h2 == UNION {HeldAt(LookedForAt(e.base), path[3]) : e \in Tables(h3)}
      h1 == UNION {HeldAt(LookedForAt(e.base), path[4]) : e \in Tables(h2)}
  IN CASE Len(path) = 1 -> h4 [] Len(path) = 2 -> h3
       [] Len(path) = 3 -> h2 [] OTHER -> h1

(* Some table on the way to the n-th index of the path was not read.       *)
BehindUnread(path, n) == \E k \in 1..n : <<5 - k, Prefix(path, k - 1)>> \in unread

(* However the tables change during the walk, a line shows an entry that   *)
(* memory held at the place to which its indices lead, in win8 modulo 4    *)
(* GB: a table above is taken from the page it is an alias of.  Only a     *)
(* block that no read has filled is a source of other lines.               *)
LinesExplained ==
  \A k \in DOMAIN lines :
    \/ BehindUnread(lines[k].path, Len(lines[k].path))
    \/ lines[k].entry \in HeldOn(lines[k].path)

(* The walk ends, self-referencing tables included.                        *)
Termination == <>(pc \in {"done", "crashed"})
=============================================================================
