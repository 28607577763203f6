------------------------------- MODULE CrashDump -------------------------------
(***************************************************************************)
(* Reading physical memory out of a crash dump: the table of runs that     *)
(* code/win8/gorun.py and code/winrt/parseruns.py print from what the      *)
(* debugger shows, pasted into dump.c, dumper.c and reader.c, and the      *)
(* physread of those programs, which looks the address up in it.           *)
(*                                                                         *)
(* The dump file holds the pages of the runs one after the other, behind   *)
(* a header.  The debugger shows a number below ten without 0x; the script *)
(* appends "000" to what it is shown, so the C compiler reads such a       *)
(* number, the base of a run or its size, as decimal.  In dump.c that was  *)
(* corrected for the base of row 0 and left for the size of row 1.         *)
(*                                                                         *)
(* Addresses, the numbers of the table and the sums of physread have 32    *)
(* bits, of which Space is the number of values.                           *)
(*                                                                         *)
(* Units: a page has PageUnits units; 1000 bytes, the decimal reading of   *)
(* a page, round to BareUnits of them.  The content of memory is told      *)
(* apart by its address: unit u of memory holds u.                         *)
(***************************************************************************)
EXTENDS Integers, Sequences, FiniteSets

CONSTANTS
  Space, PageUnits, BareUnits,
  HeaderPages,   (* pages of the file before the first run                  *)
  Blocks,        (* the possible MmPhysicalMemoryBlocks: sequences of runs, *)
                 (* [base, count] in pages, ascending and disjoint, and     *)
                 (* bare: which of the two the source has without 0x        *)
  Requests,      (* the reads the walkers ask for: [phys, size] in units    *)
  Truncations,   (* units missing at the end of the file                    *)
  Header,        (* what the file holds before the first run                *)
  Uninit         (* what a fresh buffer holds                               *)

Run == [base : Nat \ {0}, count : Nat \ {0}, bare : SUBSET {"base", "count"}]

ASSUME CrashDumpAssumption ==
  /\ Space \in Nat \ {0}
  /\ PageUnits \in Nat \ {0} /\ BareUnits \in 1 .. PageUnits
  /\ HeaderPages \in Nat
  /\ \A b \in Blocks :
       /\ b \in Seq(Run)
       /\ \A k, l \in DOMAIN b : k < l => b[k].base + b[k].count <= b[l].base
  /\ Requests \subseteq [phys : Nat, size : Nat \ {0}]
  /\ Truncations \subseteq Nat
  /\ Uninit \notin Nat /\ Header \notin Nat /\ Uninit # Header

VARIABLES
  block,    \* what the debugger shows
  missing,  \* units the file lacks at its end
  pc,       \* "script", "idle", "scan", "read"
  foff,     \* cur_file_offset
  table,    \* the rows printed so far: offsets[]
  i,        \* the row physread looks at
  req,      \* its arguments
  pos,      \* the position of the file
  dest,     \* the buffer
  ret       \* its result: 0 or 1

vars == <<block, missing, pc, foff, table, i, req, pos, dest, ret>>

-----------------------------------------------------------------------------
(* The dump file                                                           *)

(* Pages of the first k runs.                                              *)
PagesUpTo[k \in 0 .. Len(block)] ==
  IF k = 0 THEN 0 ELSE PagesUpTo[k - 1] + block[k].count

FileStart(r) == (HeaderPages + PagesUpTo[r - 1]) * PageUnits

FileLength == FileStart(Len(block) + 1) - missing

HoldsRun(r, f) ==
  FileStart(r) <= f /\ f < FileStart(r) + block[r].count * PageUnits

(* The unit of memory that the file holds at a position.                   *)
Stored(f) ==
  IF \E r \in DOMAIN block : HoldsRun(r, f)
    THEN LET r == CHOOSE r \in DOMAIN block : HoldsRun(r, f)
         IN block[r].base * PageUnits + (f - FileStart(r))
    ELSE Header

Readable == HeaderPages * PageUnits .. FileLength - 1

-----------------------------------------------------------------------------
Init ==
  /\ block \in Blocks
  /\ missing \in Truncations
  /\ pc = "script"
  /\ foff = HeaderPages * PageUnits
  /\ table = <<>>
  /\ i = 1
  /\ req = [phys |-> 0, size |-> 1]
  /\ pos = 0
  /\ dest = <<>>
  /\ ret = 0

(* The bytes that a number of pages has in the C source, where "000" was   *)
(* appended to it.                                                         *)
Bytes(r, what) ==
  block[r][what] * (IF what \in block[r].bare THEN BareUnits ELSE PageUnits)

Row(r) ==
  [phys |-> Bytes(r, "base") % Space, off |-> foff % Space,
   size |-> Bytes(r, "count") % Space]

(* Faulty: the file offset advances by what the C source has for the size. *)
PrintRow_OffsetAsPrinted ==
  LET r == Len(table) + 1
  IN /\ pc = "script"
     /\ r <= Len(block)
     /\ table' = Append(table, Row(r))
     /\ foff' = foff + Bytes(r, "count")
     /\ UNCHANGED <<block, missing, pc, i, req, pos, dest, ret>>

(* One row of gorun.py as the C source has it.  The script itself reads    *)
(* the size as hexadecimal.                                                *)
PrintRow ==
  LET r == Len(table) + 1
  IN /\ pc = "script"
     /\ r <= Len(block)
     /\ table' = Append(table, Row(r))
     /\ foff' = foff + block[r].count * PageUnits
     /\ UNCHANGED <<block, missing, pc, i, req, pos, dest, ret>>

(* The table is pasted into the program, which opens the dump.             *)
Open ==
  /\ pc = "script"
  /\ Len(table) = Len(block)
  /\ pc' = "idle"
  /\ UNCHANGED <<block, missing, foff, table, i, req, pos, dest, ret>>

(* A walker allocates a buffer and calls physread.                         *)
Request ==
  /\ pc = "idle"
  /\ req' \in Requests
  /\ dest' = [k \in 1..req'.size |-> Uninit]
  /\ i' = 1
  /\ pc' = "scan"
  /\ UNCHANGED <<block, missing, foff, table, pos, ret>>

(* phys_start >= x[0] && phys_start <= x[0]+x[2]; the sum has 32 bits, so  *)
(* that it is zero for a run that ends where the address space does.       *)
Matches(row) ==
  req.phys >= row.phys /\ req.phys <= (row.phys + row.size) % Space

(* Behind the rows is one of zeros; a base whose low 32 bits are zero ends *)
(* the table as well.                                                      *)
TableEnds(k) == ~ (k <= Len(table) /\ table[k].phys # 0)

(* Row k is the one that physread takes.                                   *)
Found(k) == ~ TableEnds(k) /\ Matches(table[k])

NextRow ==
  /\ pc = "scan"
  /\ ~ TableEnds(i)
  /\ ~ Matches(table[i])
  /\ i' = i + 1
  /\ UNCHANGED <<block, missing, pc, foff, table, req, pos, dest, ret>>

NotMapped ==
  /\ pc = "scan"
  /\ TableEnds(i)
  /\ ret' = 1
  /\ pc' = "idle"
  /\ UNCHANGED <<block, missing, foff, table, i, req, pos, dest>>

(* Faulty: SEEK_CUR, relative to where the last read ended.                *)
Seek_FromCurrent ==
  /\ pc = "scan"
  /\ Found(i)
  /\ pos' = pos + ((req.phys - table[i].phys + table[i].off) % Space)
  /\ pc' = "read"
  /\ UNCHANGED <<block, missing, foff, table, i, req, dest, ret>>

(* lseek(fd, phys_start - x[0] + x[1], SEEK_SET), an unsigned number.      *)
Seek ==
  /\ pc = "scan"
  /\ Found(i)
  /\ pos' = (req.phys - table[i].phys + table[i].off) % Space
  /\ pc' = "read"
  /\ UNCHANGED <<block, missing, foff, table, i, req, dest, ret>>

(* Faulty: read answers with at most a page.                               *)
Got_OnePage ==
  LET most == IF req.size < PageUnits THEN req.size ELSE PageUnits
  IN IF pos >= FileLength THEN 0
     ELSE IF pos + most <= FileLength THEN most ELSE FileLength - pos

(* read: up to size units, fewer at the end of the file; only a result of  *)
(* zero is an error.                                                       *)
Got == IF pos >= FileLength THEN 0
       ELSE IF pos + req.size <= FileLength THEN req.size ELSE FileLength - pos

(* Faulty: returns what read returned.                                     *)
Read_ReturnsCount ==
  /\ pc = "read"
  /\ dest' = [k \in 1..req.size |->
                IF k <= Got THEN Stored(pos + k - 1) ELSE dest[k]]
  /\ pos' = pos + Got
  /\ ret' = Got
  /\ pc' = "idle"
  /\ UNCHANGED <<block, missing, foff, table, i, req>>

Read ==
  /\ pc = "read"
  /\ dest' = [k \in 1..req.size |->
                IF k <= Got THEN Stored(pos + k - 1) ELSE dest[k]]
  /\ pos' = pos + Got
  /\ ret' = IF Got > 0 THEN 0 ELSE 1
  /\ pc' = "idle"
  /\ UNCHANGED <<block, missing, foff, table, i, req>>

Next == PrintRow \/ Open \/ Request \/ NextRow \/ NotMapped \/ Seek \/ Read

Spec == Init /\ [][Next]_vars

-----------------------------------------------------------------------------
(* Properties                                                              *)

RowType == [phys : Nat, off : Nat, size : Nat]

(* Every variable has its type.                                            *)
TypeOK ==
  /\ block \in Blocks /\ missing \in Truncations
  /\ pc \in {"script", "idle", "scan", "read"}
  /\ foff \in Nat /\ pos \in Nat
  /\ table \in Seq(RowType)
  /\ i \in 1 .. Len(block) + 1
  /\ req \in [phys : Nat, size : Nat]
  /\ dest \in Seq(Nat \cup {Header, Uninit})
  /\ ret \in {0, 1}

InRun(r, u) ==
  /\ block[r].base * PageUnits <= u
  /\ u < (block[r].base + block[r].count) * PageUnits

(* The table can express the run: its base was shown with 0x, it ends      *)
(* within the 32-bit addresses and within as much of the file.             *)
Expressed(r) ==
  /\ "base" \notin block[r].bare
  /\ (block[r].base + block[r].count) * PageUnits <= Space
  /\ FileStart(r + 1) <= Space

(* Every unit from phys to phys + size - 1 is in the run r and in the      *)
(* file.                                                                   *)
Dumped(r) ==
  /\ InRun(r, req.phys) /\ InRun(r, req.phys + req.size - 1)
  /\ FileStart(r) + (req.phys - block[r].base * PageUnits) + req.size
       <= FileLength

(* The read starts in the row as the C compiler reads it, and the sum of   *)
(* physread for the row does not wrap.                                     *)
InRow(r) ==
  /\ req.phys < table[r].phys + table[r].size
  /\ table[r].phys + table[r].size < Space

Answered == pc = "idle" /\ dest # <<>>

AsInMemory == \A k \in 1..req.size : dest[k] = req.phys + k - 1

(* A read that lies in one run of the dump, of which the table can express *)
(* the base, is answered if it starts in the row of the run, however short *)
(* a decimal size has made that.  The answer is in full and the memory at  *)
(* its address, whichever rows the lookup passed before it and whatever    *)
(* was read before, also where one run ends and another that is adjacent   *)
(* in memory begins.  And if all rows behind it can be expressed as well,  *)
(* a decimal size or a sum that wraps never leads to a wrong answer: the   *)
(* read is refused or answered with the memory at its address.             *)
DumpedMemoryIsServed ==
  Answered =>
    \A r \in DOMAIN block :
      Dumped(r) /\ Expressed(r) =>
        /\ InRow(r) => ret = 0 /\ AsInMemory
        /\ (\A k \in r .. Len(block) : Expressed(k)) /\ ret = 0 => AsInMemory

(* Every row printed so far whose base was shown with 0x leads to where    *)
(* the file holds its run, whatever rows before it were printed with.  (A  *)
(* base without 0x is an address outside the run.)                         *)
TableMatchesFile ==
  \A r \in DOMAIN table :
    Expressed(r) =>
      \A u \in 0 .. table[r].size - 1 :
        table[r].off + u \in Readable
          => Stored(table[r].off + u) = table[r].phys + u

(* Success with part of the buffer not filled happens at the end of the    *)
(* file only, of which the result then says nothing.                       *)
UnfilledOnlyAtEnd ==
  (Answered /\ ret = 0) =>
    \A k \in 1..req.size : dest[k] = Uninit => pos = FileLength
=============================================================================
