# ptvis: models and proofs

ptvis dumps the page tables of a running machine (or of a crash dump), prints
them as text, and draws the text as a space-filling curve.  This directory
holds TLA+ modules of the parts of it whose correctness depends on order,
failure or arithmetic, the TLC configurations that check them, and proofs of every
safety property that the configurations check.  Paths below are relative to the repository.

## 1. The system

| component | code | state | operations | module |
|---|---|---|---|---|
| ARMv7 page-table printer | `code/common/pt_printer.c` | one buffer per running function, the position in it | `armPtPrint`, `armPtPrintTT`, `armPtPrintPT` | `ArmPtPrinter`, `PageListing`, `ArmPtPrinterProofs` |
| x86-64 walk | `code/OSX/uptdump/main.c`, `code/win8/dump.c` | one copied table per level, the indices | `walkPT`, `dumpPDPT`, `dumpPD`, `dumpPT`, `ReadPhysMem` | `X86Walk`, `PageListing`, `X86WalkProofs` |
| task-list ioctl and its collector | `code/android-ioctl/*.patch`, `pgtcollect.c` | the kernel's task list, a shared buffer, the retry size | kernel `dump_all_ttbr0`, collector `dump_all_ttbr0` | `DevmemTtbr`, `DevmemProofs` |
| crash-dump reader | `code/win8/dump.c`, `code/winrt/{dumper,reader}.c`, `gorun.py`, `parseruns.py` | the table of runs, the file position | `physread` | `CrashDump`, `CrashDumpProofs` |
| ptdump kernel extension | `code/OSX/ptdump/ptdump.cpp`, `tasks.cpp` | a pageable buffer and a mapping per client | `DumpMem`, `WalkThreadPML4s`, `clientClose`; the client's `main` | `PtdumpClient`, `PtdumpProofs` |
| iOS dumper | `code/iOS/easy_dump/dumper.c`, `vmr.c` | files `kmem/*.mem`, a helper process | `main`, `get_kernel_map`, `physread`, `dump_kernel_task` | `EasyDump`, `KernelRegion`, `EasyDumpProofs` |
| iOS walker | `code/iOS/misc/ptwalker.c` | a scratch page in the kernel, two buffers, two indices | `main`, `loopread`, `dump_pagetable` | `IosPtWalker`, `KernelRegion`, `IosPtWalkerProofs` |
| iOS region search | `ptwalker.c`, `dumper.c`, `doread.c` | the static `kernel_region` | `get_kernel_region_tfp` | `KernelRegion`, with proofs in those of its two callers |
| listing parser and windows | `vis/scurve/pt.py`, `vis/scurve/binvispt` | a dictionary of pages, a list of windows | `parse_arm`, `parse_ia32e`, `GENERIC_PT`, `getPageColors` | `PtWindows`, `PtWindowsProofs` |
| curves | `vis/scurve/scurve/*.py` | none | `point`, `index` | not modelled: vendored |
| the rest | single-purpose iOS tools, Android elevator, process-list scripts, drawing, command lines | none that lasts | | not modelled (section 7) |

How they interact:

* A walker (ARM or x86) is linked with one *memory source*: `/dev/mem` for
  Android, the kernel extension for OS X, a dump file for Windows, the helper
  process for iOS.  The interface is `physread`/`ReadPhysMem`, `allocate` and
  `deallocate`.
* The memory that is walked belongs to an operating system that keeps running
  (except in a crash dump), so every table is copied while it may change.
* The Android collector first obtains a list of tables from the kernel and then
  calls the ARM printer once per process.
* The text a walker prints is what the parser reads; the windows and the curve
  turn it into pixels.

What is hard to test: tables rewritten during the walk, reads that fail half-way
through a walk, tables that contain themselves, the kernel's task list changing
under the traversal, results of reads that nobody looks at, and arithmetic at the
boundaries of runs, tables and registers.  `PROJECT.json` lists these hazards at
their lines, each with the properties that cover it.

## 2. The modules

`MC<module>` extends a component with the small instances that TLC checks; the
`.cfg` files name them.  `<module>Proofs` holds its theorems (section 4).

### PageListing

What a walk promises to whoever reads its output while it is being printed: lines
are only added, table after table; those of one table that name a page ascend, each
inside the part of the address space its table translates; nothing comes after the
end.  `ArmPtPrinter` and `X86Walk` instantiate it with their lines, and
`ListsInOrder` (`Listing!Spec`) is a property of both, checked by TLC and proved.

### ArmPtPrinter

State: `mem` (physical memory, one descriptor per word), the frames `tt` and `pt`
of `armPtPrintTT` and `armPtPrintPT` (table base, virtual offset, index, buffer),
`live` (what is allocated), `lines` (what was printed).  `pc` is the place in the
program, `os` whether an operating system runs on the memory (not so for a dump).
The actions are the calls, one word of a `physread`, one iteration of a
loop per kind of entry, and the returns through `out:`.  `OSWrite` is the running
operating system; it may act between any two words.

Abstractions.  A descriptor keeps its two type bits, bit 18 and its base; the
attribute texts are left out.  `held` and `lost` are history variables for the
properties: every value a word has had, and which tables could not be read.

Properties: `HeapIsFrames` (buffers are balanced on every path),
`ListingMatchesTranslation` (with unchanging tables the listing of sections and small
pages *is* the translation of the architecture, defined independently of the walk, for
every N, and an unreadable table hides only itself; large pages are the subject of
`ArmPtPrinter_large`), `LinesExplained` (with changing tables
a line shows a descriptor that memory held where the line says), `ListsInOrder`
(the refinement of `PageListing`, with the tables of TTBR0 and TTBR1 and the split
that N makes between them), and `Termination`.

### X86Walk

The four mutually nested functions are one machine with a frame per level, so that
`level` says which of them runs; the entries keep present, page-size, one software
bit and the base.  `program` chooses between the two copies of the code, which
differ in what a read does.  `PageOf`: the mask `0x00ffffffffffffff` keeps bits 52 to
55, so that uptdump asks for an address that has them, while `physread` of win8 takes
32 bits, so that they do not matter but a table above 4 GB is looked for at its address
modulo 4 GB (`Span` pages).  When a read fails, or ends before the table does, uptdump
dereferences the address 0 it was answered (`ReadCallFails`) or walks what the extension
left unfilled, and win8 walks the rest of its malloc block (`ReadLeavesGarbage`).

Properties: the same questions as for ARM, with the processor's walk `HwPage` as
the reference.  `ListingMatchesTranslation` excuses only the pages to which the processor
goes through a table that the program misses (`Missed`): it is outside memory, above 4 GB
(win8), referred to by an entry with software bits (uptdump), or its read failed
(`failed`).  A walk that takes the wrong page for one table must thus not disturb what it
lists elsewhere.  `LinesExplained` says of every line, also of those, that memory held
its entry where the program looks for its tables (`LookedForAt`).  `ListsInOrder` says that the pages appear once and in order also
when a table maps itself, so that one table is walked at several levels, and when a
read failed and the walk goes on in whatever the block held.

### DevmemTtbr

The kernel's circular task list as `next` pointers, with `Fork`, `DropMm`, `Exec`
and `Unlink` on other processors, the traversal of the patch step by step (`CheckMm`
and `LoadPgd` are two loads of `curr->mm`), the stores through the user pointer,
which fail where the mapping ends, and the collector with its retries and its loop
over the records.  An unlinked task keeps its own next pointer, as `list_del_rcu`
leaves it, and is not reused: the traversal is inside an RCU section.  That section does
not keep an mm: if the task leaves its mm between the two loads (`left`), the second may
be an oops or read freed memory, which holds the old pgd, another task's, or no pgd
(`Reused`, `Garbage`).

Properties: `SteadyTasksPrinted` (a task that stays is printed once with its table),
`NothingPrintedTwice` (also of the others no task is printed twice, and a record is wrong
only for a task in `torn`, which left its mm just then), `FitsThenListed`,
`RcuOpenOnlyByFaults`, `Termination`.  A process may exit after its record is stored:
that its table is walked nevertheless is what the code does, and nothing is claimed.

### CrashDump

`PrintRow` is one row of the table as the scripts print it and the C compiler reads
it; `Request` to `Read` are `physread`.  The file's contents are external: unit `u`
of memory is the number `u`, so that a read from the wrong place is seen.

A base or a size below ten is shown by the debugger without `0x` and completed by the
script to a decimal number (`Bytes`; `bare` says which numbers of a run were left so).
The table's numbers, the sum that `Matches` compares with and the position that `Seek`
computes have 32 bits (`Space`): a run that ends at 4 GB matches no address, and a base
whose low 32 bits are zero ends the table.

Properties: `TableMatchesFile` (a row leads to its run, unless its base was shown without
`0x` or 32 bits cannot express it), `DumpedMemoryIsServed` (a read in a run that the
table can express is answered with its memory if it starts in the row as the compiler
reads it; a decimal size or a wrapping sum has reads refused, and with right bases from
there on no read answered with other memory), `UnfilledOnlyAtEnd`.

### KernelRegion

`get_kernel_region_tfp`, of which three programs have a copy: one question to the
kernel per step (`NoRegion`, `TakeLarge`, `LastRegion`, `NextRegion`), between which
`MapChanges` is the kernel.  The answer stays in the static `kernel_region`, so that
a later call looks from there (`CallRegion`).  `IosPtWalker` and `EasyDump` extend
the module and call it.  `RegionIsFirstLarge`: an answer is the start of a region
that was large while it searched, and with a map that stayed, the lowest one.

### EasyDump

Two processes: the dumper (`pc`, `fds`, `dest`, `ret`) starts the helper (`hpc`,
`haddr`, `hbuf`, `hfile`) and waits for it, then opens `files[start]`, which is
`kmem/<start>.mem`.  `main` comes first: the search of the region (`FindRegion`,
`RegionFound`), `get_kernel_map` with the one signature it looks for in the image
(`SignatureFound` or `SignatureMissing`), the read of the pmap's two words
(`PmapRead`), from which the shift between the linear map and physical memory
follows, or `MainFails`; then armPtPrint's calls of `physread` in any order.  The
helper reads a page in two halves, opens the file with
the first whole page, never truncates it, and ends at the first read that fails; it may
not start (`HelperNotStarted`), be refused a file, or be killed anywhere.  It does not
look at what `write` returned: `SavePage` writes all of a page, half of it or nothing,
and the helper goes on to the next page in each case.  `created` are the names of the
files that are there, empty ones included, `missing` counts for each file by how much
writes fell short.  The kernel writes its memory all the while.  A unit of a file is a record of the address it
was copied from and what was there, so that the properties can tell an old copy
from a new one.  `held` and `during` are history: what each unit has held ever, and
since the current call began; `broken` records that the helper did not reach its end or
that one of its writes fell short.

Properties.  A short write that nobody sees does damage: what comes behind it in the
file is from a higher address than its place says.  The properties say how much.
`AnswerIsFromThere`: success means complete, each unit was held by memory at the
address asked for, or at one that is farther by at most what writes to this file fell
short.  `FilesAreRanges`: the same of every file; one whose writes were all complete has
no gaps or torn pages, whatever was cut short.  `FinishedIsFresh`: a helper that reached
the end and wrote all it read gives success and current data, also over an older,
longer file; if the end of the range wraps in 32 bits it copies nothing, and the read
fails.  `CallsReturn`.

### IosPtWalker

One thread.  `rd` is the frame of `loopread`: who called it, from where, how much
and how far it is; `scratch` the page of the kernel's address space that system
call 8 (`poke_mem` of `physmem.c`) fills with a page of physical memory, word after
word while the kernel runs; `data` and `data2` the buffers of the level-1 and the
level-2 table, `i` and `j` the loops' indices.  `SystemCall` may fail without the
program noticing (`PokeFails`), which leaves an older page in the scratch page
(`stale`), or stop the machine (`PokePanics`); `vm_read_overwrite` fetches the page
in two halves, whose failure is looked at (`ReadFails`).  Every chunk is stored at
the start of the destination, as in the code.

Properties: `LinesExplained` (each line shows a word that memory held where the line
says, or what a failed copy left, through all chunks and failures),
`ListingIsLastPage` (an undisturbed walk lists the translation of exactly one page
of the level-1 table, the last it read), `RegionIsFirstLarge`, `Termination`.

### PtdumpClient

Two processes that run uptdump, each with a user client in the kernel: `slot` and
`slotLen` are its `_buffer` and `_buffer_length`, `block` and `data` the pageable
memory both allocate from.  The actions are the steps of `DumpMem` with a failure
of each kernel call, what `main` does with the answer, `clientClose`, the steps of
`walk_tasks` under the lock, and the loop of `main` over the words.  `CreateTask`
and `TerminateTask` are the rest of the kernel, which needs the same lock.  A list
that does not fit the structure ends in `overrun`: what the store behind the structure
does to the kernel is not modelled, and the behaviour stops there.  A mapping keeps its
pages when the kernel frees its own block, so `view` is a value of its own.

References.  `refs` is the call's own reference to the descriptor of its buffer and
`kmaps` the kernel's mapping; `descs` and `maps` are the descriptors and the map objects
that exist.  A map object keeps its descriptor, and `DumpMem` releases neither of the two
it makes (`kmap` is only unmapped, `umap` is dropped), so `descs` and `maps` grow.

Properties: `BlocksOwned` (a block in use belongs to one open client, which will free
it with its length; on every way out the call has dropped its own reference and undone
the kernel's mapping, but a call in which nothing failed leaves its descriptor and two
map objects behind), `ViewIsOwnDump`, `TasksPrinted` (a listing is the list of one
moment; a list that fits to the last word is printed in full, a longer one overruns), and
`CommandsEnd` although a process may wait for the lock.

### PtWindows

`ParseLine` enters a line of the listing into the dictionary `pages`, with both
formats' rules for which keys a line gets; `NextPage` takes any key that is left,
since a Python dictionary is gone through in the order of its hash table;
`MarkWindow` merges the page into one window.  Rights are sets of letters, so that
the four cascaded tests of the code are one condition in `Merged`.  Negative indices
count from the end, and an index behind the end is `IndexFails`.

Properties: `RightsOfOnePage` (no window shows a page that is elsewhere, or a mixture),
`MappedIsShown` and `FailsAtTheEnd`.  The code rounds a page's address to a multiple of
the window size and only then subtracts the start of the range, so that a window stands
for its `Stretch`, from the multiple in it to the next: that is the window itself if the
range starts at a multiple, and otherwise reaches behind it.  `MappedIsShown`: no window
stays empty if a page of the listing (ascending, as walks print it) lies in its stretch.
`FailsAtTheEnd`: the program fails exactly on the pages, not skipped, that reach behind
the start of the stretch after the last window's.  With `-r 5..15` and windows of 2, thus, a
page from 8 to 10 is not seen in the window from 9 to 11, whose stretch starts at 10, and
a section up to 16 passes the end of the last window, 15, without a failure; both
are in the run.

## 3. The runs

| run | question | expected |
|---|---|---|
| `ArmPtPrinter` | on a dump, is the listing the translation; on a running machine, what is guaranteed? | holds |
| `ArmPtPrinter_large` | are large pages 64 kB apart? | violated |
| `X86Walk` | the same two questions for x86-64 | holds |
| `DevmemTtbr` | does the retry end with a list when one fits, and is every task that stays listed once? | holds |
| `CrashDump` | is dumped memory returned, in full and from the right place, and what do decimal numbers and 32-bit sums do? | holds |
| `EasyDump` | does `main` get its map or give up, and is an answer complete, from its address, and current if the helper ended well? | holds |
| `EasyDump_stale` | is every answer current? | violated |
| `IosPtWalker` | is the region the first large one, and does each line show what memory held? | holds |
| `IosPtWalker_chunks` | does `loopread` read all of `total_size`? | violated |
| `PtdumpClient` | do two clients keep their blocks and data apart, what does a call leave behind, and is the task list complete? | holds |
| `PtWindows` | does each window show a page that is in it, for every order of the dictionary? | holds |
| `PtWindows_writable` | is a window with a writable page coloured writable? | violated |

The violated ones are disagreements of the code with its own comments, messages or
data; `PROJECT.json` "findings" quotes both sides.  Two more of that kind show in
`CrashDump` without a run of their own: the lookup takes an address one behind the
end of a row for mapped (`win8/dump.c:152`, `<=`), and row 1 of the table pasted into
`win8/dump.c:124` has a decimal size, so that most of that run is refused.  The script
would print the base of the first run of its own sample (`BasePage : 1`) as decimal, too;
in `dump.c` that was corrected by hand.

### Bounds

* ArmPtPrinter: 4 level-1 entries of 4 pages, N from 0 to 2, large pages of two
  pages.  Every shape of an entry (a table that contains itself, one outside memory,
  each kind of page) occurs in each position that the walk treats differently, with
  registers that are zero, aligned, and with attribute bits below the base; these
  108 images are dumps, which do not change, with one failure.  Two images
  are of running machines, with two writes of three kinds of descriptor: enough for a
  copy that mixes the words before and after, and for a level-2 table that is
  replaced between the copy of the pointer and its own.
* X86Walk: 2 entries per table, 3 pages of tables, so that a self-map is walked at
  all four levels and two tables share a child; every shape of an entry for dumps.  32 bits
  address five pages (`Span`), so that frames 5 and 7 are above 4 GB and read as 0 and 2,
  by entries and as the root.  Three images of running machines, one with software bits,
  with two writes of two kinds of entry (one that unmaps, one that makes a table); one
  failed read, before the first word or in the middle of the table.
* DevmemTtbr: two tasks at first and two more to be forked, buffers that hold one
  and three records, with the end of the buffer in the middle of a record as 0x10000
  is for records of 20 bytes, and memory behind the mapping or not.
* CrashDump: an address space of eight pages of four units, runs adjacent in memory and
  not, with decimal sizes and bases, up to, at and above the end of the address space,
  and so long that the file exceeds 32 bits; every start at half a page, reads of half a
  page to two pages (thus across two runs), files cut by 0, 1 or 4 units.
* EasyDump: two maps (the image's region is found, none is large), three calls of
  five requests, two of which share a file with different sizes, a page that is asked
  for alone and in a range that wraps, a hole that ends a helper in its second page,
  one kernel write and two failures or short writes: a later call can find
  a longer, a shorter, a displaced or a stale file.
* IosPtWalker: pages of four words, level-1 tables of one and two pages at aligned
  and unaligned addresses, level-2 tables that share a page, end at the end of memory
  or lie outside it, five maps between which the kernel changes at will (a large region
  at 0, elsewhere, at the end of the space, none), one store and one silent failure.
* PtdumpClient: two processes, two dumps each of overlapping ranges, one failing call,
  two tasks that fill the structure to its last word and a third that does not fit, with
  two changes of the list.
* PtWindows: listings of up to three lines out of seven (ARM) or five (x86-64), windows
  smaller than a page, of a page, of three units (no divisor) and larger than a
  section, the whole space and ranges that start or stop inside a page or a window.

`MaxWrites`, `MaxFails`, `MaxCalls` and `MaxEvents` are the only bounds on behaviour; the proofs do not
depend on their values.

### Fairness

The walkers and the collector are single threads that never wait for another, so
weak fairness of the whole program (`WF_vars(Program)`, `Walk`, `Collector`) is what
a scheduler gives.  No fairness is assumed of the operating system, of failures or
of the rest of the kernel.  CrashDump and PtWindows are loops over
lists, about which nothing temporal is stated.  In IosPtWalker the walk and the
search of the region each have weak fairness: it is one thread, and the kernel
answers its questions whatever it does to its map meanwhile.  In EasyDump the
dumper's `main` (`Preparing`), the helper (`Helper`) and the dumper when the helper
is gone (`Answering`) each have weak fairness: the scheduler runs both processes, and
the helper never waits for the dumper.  In PtdumpClient each process has weak
fairness; the lock is held for one bounded traversal.

## 4. The proofs

Each theorem holds for all values of the constants that satisfy the module's named
assumptions.  The assumptions say what the code's constants and inputs are; TLC
evaluates them in every run.  Some are there for a proof and worth knowing:
* `LastPageAssumption` (EasyDump): the linear map does not reach the last page of the
  address space, where the helper's address would wrap to 0 after a page it could read.
  A range that is asked for may wrap.
* No duplicates in `FirstTasks` (DevmemTtbr): a task is on the kernel's list once.
* `CrashDumpAssumption`: the runs of a dump ascend and are disjoint, as the debugger
  shows them; a number without `0x` reads as at most the one meant, and not as zero; a
  walker asks for at least one unit.
* `WindowsAssumption` (PtWindows): a large page is a whole number of small ones, and a
  range starts before it stops.

An invariant was checked by TLC on small instances where its form was in doubt.  The
theorems cover every invariant and every action property of the passing runs.

**ArmPtPrinterProofs**
* `TypeCorrect`: `TypeOK` is not inductive, since an entry is taken from a buffer
  whose length it does not bound; `TypeInv` adds `BuffersFull`: inside a loop the
  buffer has all the entries the loop runs over.
* `HeapCorrect`: `HeapIsFrames`, from `TypeInv`.
* `ListingOrdered` and `TtbrZeroStaysBelowSplit`: the inductive invariant `OrderInv`
  adds where the walk is (`WalkPlace`: sizes, offsets and indices of the two frames
  fit together), that no line of the table being walked lies at or beyond the walk's
  cursor (`LinesBelowCursor`), and that no line belongs to a later stage
  (`LinesOfStage`).  The arithmetic of the addresses is in lemmas of its own.
* `ImplementsListing`: `Spec => ListsInOrder`.  The initial states map to those of
  `PageListing`, and each step to one that adds a line, to the end, or to a stutter,
  because `OrderInv` holds before and after it.
* `LinesCorrect`: `LinesExplained`.  `CopiesHeld` says of the two buffers that their
  words were held where they were read from, and of the level-2 table that a level-1
  entry pointed there; nothing is forgotten, so a store disturbs none of it.
* `TranslationCorrect`: `ListingMatchesTranslation`.  While nothing is stored, what
  was held is what memory holds, so a line that covers a page shows its descriptor,
  and the order leaves room for one such line.  That there is one is the invariant
  `Complete`: each page behind the walk's cursor is hidden, not mapped by a
  section or a small page, or covered.
  `LostInv` says that tables are found unreadable in the walk's order, so that their
  pages are not listed.

**X86WalkProofs**
* `TypeCorrect`: `TypeOK` with `Place` (the tables above the running level are full
  copies whose functions wait at an entry, those below have not begun).
* `ImplementsListing`: the indices of the four frames are the digits of a number
  `Pos`, the first page of the entry the walk is at.  Every step leaves it or makes
  it larger: calling the next level and returning to the last one move it by a carry.
  A page's line is at `Pos`, and those before it are below (`OrderInv`).
* `LinesCorrect`: `LinesExplained`.  The invariant `ExplainInv` says of each copy that
  its words were held where the path leads, or that a table on the path was not read
  (`CopiesHeld`), and that a frame's address is that of the entry its caller is at;
  places are those where the program looks.
* `TranslationCorrect`: `ListingMatchesTranslation`.  While nothing is stored, a place
  held one word, so by `ExplainInv` the entries the callers wait at are those the
  processor follows.  `TranslationInv` says that what maps a page has been listed, or
  lies behind a table that was not read, once the walk has `Passed` the page, and that
  nothing is listed for it before.  A step passes the pages within one entry or none:
  when a table ends, those within it have been passed one by one.  Its reference is a
  processor that looks for tables where the program does (`SeenPage`); `HiddenInv` leads
  back to the real one: what lies behind a table that was not read lies behind one that
  the program misses, and where none is missed both processors read the same words
  (`SeenPageIsHw`).

**IosPtWalkerProofs**
* `TypeCorrect`, `LinesCorrect` (`LinesExplained`) and `RegionCorrect`
  (`RegionIsFirstLarge`).  `WalkInv` follows the words through their three copies: the
  scratch page, its two halves, and the buffer (`CopyInv`: each is from memory or a
  fault; `PlaceInv`: as long as no system call failed, each is from its place), with
  `FrameInv` for how far `loopread` is.  The search's invariant `SearchInv` is that all
  large regions of a map that stayed lie at or after the address asked for next; that
  it asks for the lowest region left is proved from the order of the naturals.
* `ListingCorrect`: `ListingIsLastPage`.  `ListInv` says of each page of the table's
  last page that it has been listed as the tables give it if the walk has `Passed` it,
  and not at all otherwise.  What the step at an entry reads is what memory holds: by
  `PlaceInv` the copy is from its place, and without stores a word has held one
  descriptor (`HeldInv`).  That a page is listed once needs that no two pages of a
  section have the same address modulo the address space (`PagesDiffer`).

**EasyDumpProofs**
* `TypeCorrect`, `FilesStayRanges`, `AnswersAreFromThere`, `FinishedCallsAreFresh`.
  The invariant ties the helper's address to its place in the file it writes, up to
  what was not written (`HelperInv`), and each unit of the file to what was held,
  `during` included once the helper has passed it with every write complete
  (`LeftInv`).

**PtdumpProofs**
* `BlocksCorrect` and `ViewsCorrect`: for every client a block is either held by the
  client or under way in its call, no two clients have the same one, and what a call
  has copied so far is what was asked for (`BlockInv`).  The calls of a client, less the
  failures there were, have each left a descriptor (`LeftInv`).
* `TasksCorrect` (`TasksPrinted`): who walks holds the lock, so the list is the
  snapshot; the structure holds a task in the first of two words and nothing in the
  second as far as the walk is; and the loop of `main` has printed the words before
  its index.  `TypeCorrect` for the rest.

**CrashDumpProofs**
* `TypeCorrect`, `TableCorrect`, `ServedCorrect`, `UnfilledCorrect`.  The rows printed
  are those of the first runs (`TableInv`), the rows before the one looked at do not
  match (`ScanInv`), and the position is that of the address (`SeekInv`).  A row before
  that of the read's run can only match where that run starts, since a decimal number
  and a 32-bit sum are never larger than what they stand for (`MatchBefore`).  The place of
  a run in the file is a sum over the runs before it: that these places ascend, and
  that each unit behind the header lies in exactly one run, are lemmas proved with a
  least counterexample, since the provers cannot instantiate the library's induction.

**PtWindowsProofs**
* `TypeCorrect`, `RightsCorrect`, `MappedCorrect`, `FailureCorrect`.  The dictionary
  holds pages of lines only, and a page of an ascending listing stands under its own
  start: it replaces what a section before it had entered there, and the keys of the
  lines after it all lie behind (`PagesInv`).  Each key
  that is no longer `todo` was skipped or has all its windows marked (`MarkedInv`); a
  merge never empties a window.  The rounding to multiples of the window is in lemmas
  of its own.

**DevmemProofs**
* `TypeCorrect`, `SteadyPrinted`, `PrintedOnce`, `SectionsLeftByFaults`, and
  `GivesUpForLackOfRoom`.  Unlinked tasks keep their pointers, so the list is not what
  it was when the traversal began.  The invariant says that there is a rank of the tasks that
  falls along every pointer, also out of unlinked ones, and a set of tasks that the
  traversal may still come to see; the records have ranks above the current task's.
  That gives once-only, and with the tasks that have stayed, completeness.
  `GivesUpForLackOfRoom` adds that a fault means more tasks than records.  That the pgd of
  a record is right is an invariant of its own (`TornInv`): a task in `torn` has left an
  mm, so it is not among the `steady`.

Only model-checked: liveness (`Termination`, `CallsReturn`, `CommandsEnd`), since
fairness and ENABLED are out of the proof system's reach; and the four disagreements,
which are counterexamples.

## 5. Plan

What is left: `x86_64_PT` of binvispt (the gaps between pages), beside PtWindows.

## 6. Running

`tlc -config <run>.cfg <module>` for each run of `PROJECT.json`, and `tlapm` on each
of `ArmPtPrinterProofs`, `X86WalkProofs`, `IosPtWalkerProofs`, `EasyDumpProofs`,
`PtdumpProofs`, `DevmemProofs`, `CrashDumpProofs` and `PtWindowsProofs`.  Operators
named after a definition with a suffix (`PTBase_OffByOne`) are faulty variants: each
breaks one property when it replaces that definition.

## 7. Not modelled

* The texts of attributes and registers, option parsing, image output, Xcode and make
  files, sample data.
* The single-purpose iOS programs other than what they share with `ptwalker.c`
  (`dumpvirtpt.c`, `dumpvirt.c`, `getregs.c`, `test.c`) and the Android elevator,
  which are straight-line; the process-list scripts, which filter text.
* The space-filling curves: `vis/scurve/scurve` is a vendored library of pure functions,
  and the windows do not depend on it.
* `x86_64_PT` of `binvispt`, the variant of the windows that draws gaps.
* `dumper.c` and `reader.c` of winrt around `physread`, `DumpRegisters` of the kernel
  extension and the ioctls that read one register: they keep no state.
* In `ptwalker.c` the addresses printed: a page's line shows the table's base in
  megabytes and the page's offset, a section's line `i << 20`; IosPtWalker has the
  address that is meant modulo the address space.  `psize` is a whole number of pages.

* A short write of vmr that ends within half a page: memory is counted in half pages
  there, and what was written is a number of them.

Memory is word- or unit-grained: nothing depends on a torn word.
