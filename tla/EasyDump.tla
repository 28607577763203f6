------------------------------- MODULE EasyDump -------------------------------
(***************************************************************************)
(* The dumper code/iOS/easy_dump/dumper.c: main finds the kernel's image   *)
(* (get_kernel_region_tfp, module KernelRegion) and in it where the linear *)
(* map is (get_kernel_map), and calls armPtPrint, which calls physread.    *)
(* That runs the helper code/iOS/easy_dump/vmr.c as a process of its own   *)
(* and then reads the file the helper has left in kmem/.                   *)
(*                                                                         *)
(* The helper copies page after page, each in two halves, opens its file   *)
(* when the first page is complete, without truncating what an earlier     *)
(* helper left there, and stops at the first page it cannot read.  It may  *)
(* not be started or may be killed; the dumper looks at the file alone.    *)
(*                                                                         *)
(* Units: memory is counted in half pages; an address is a unit.  The two  *)
(* programs run as root, whatever mode the file was created with.  The     *)
(* helper does not look at the result of write: a disk that is full may    *)
(* take half of a page or nothing, and the next page comes behind that.  A *)
(* helper that is refused the kernel's task port is one that is killed     *)
(* before it reads.                                                        *)
(***************************************************************************)
EXTENDS KernelRegion, Sequences

CONSTANTS
  KernelBase, (* where the kernel's image is, and get_kernel_map finds 0xa  *)
  Table,      (* kernel_pmap's translation table: [virt, phys]              *)
  Memory,     (* virtual addresses of the linear map; the rest is not there *)
  Holes,      (* units that can never be read                               *)
  Versions,   (* what a unit may hold                                       *)
  Requests,   (* the arguments of physread: [start, size] in units          *)
  MaxCalls,   (* bound on the calls of physread                             *)
  MaxWrites,  (* bound on the changes the kernel makes to its memory        *)
  MaxFails    (* bound on helpers not started, killed, or refused a file,   *)
              (* and on writes that fall short                              *)

Page == 2     \* units of a page

Addresses == 0 .. AddrSpace - 1

ASSUME EasyDumpAssumption ==
  /\ KernelBase \in Addresses \ {0}
  /\ Table \in [virt : Addresses, phys : Addresses]
  /\ Memory \subseteq Addresses /\ Holes \subseteq Memory
  /\ Requests \subseteq [start : Addresses, size : Addresses \ {0}]
  /\ Requests # {} /\ Versions # {}
  /\ MaxCalls \in Nat /\ MaxWrites \in Nat /\ MaxFails \in Nat

VARIABLES
  mem,      \* kernel memory
  writes,   \* changes made to it
  files,    \* kmem/: what is in the files, by the address in their name
  created,  \* the names of those that are there
  shift,    \* SHIFTPHYS
  calls,    \* calls of physread begun
  req,      \* the arguments of the current one
  pc,       \* the dumper: in main "start", "region", "signature", "pmap",
            \* in armPtPrint "idle", in physread "wait", "open", "read"
  fds,      \* files the dumper has open
  dest,     \* its buffer, filled as far as the read went
  ret,      \* the result: 0, or 1 for a failure
  hpc,      \* the helper: "none", "half1", "half2", "save"
  haddr,    \* its address
  hbuf,     \* its buffer
  hfile,    \* where its file is written next
  fails,    \* helpers not started, killed, refused a file, short writes
  held,     \* history: what each unit has held
  during,   \* history: what each unit has held since the call began
  broken,   \* history: the helper of this call did not reach the end, or
            \* one of its writes fell short
  missing   \* history: by how many units writes to a file have fallen short

disk    == <<files, created, missing>>
dumper  == <<shift, calls, req, pc, fds, dest, ret>>
helper  == <<hpc, haddr, hbuf, hfile>>
memory  == <<mem, writes, held, during>>
kernel  == <<memory, regionVars>>
vars == <<mem, writes, files, created, missing, shift, calls, req, pc, fds, dest, ret, hpc,
          haddr, hbuf, hfile, fails, held, during, broken, regions,
          kernel_region, addr, rpc, steady, large>>

-----------------------------------------------------------------------------
(* The kernel's linear map, which get_kernel_map recovers from the table.  *)
Linear(p) == (p + Table.virt - Table.phys) % AddrSpace

Names == {Linear(r.start) : r \in Requests}

(* The linear map ends before the address space, whose last page belongs   *)
(* to no process and is not the kernel's memory either.  (A range that is  *)
(* asked for may reach beyond, and its end wrap to a small number.)        *)
ASSUME LastPageAssumption == AddrSpace - 1 \notin Memory

(* A unit of a file: where it was copied from and what was there.          *)
Copy == [at : Nat, what : Versions]

(* The arguments of vmr, of which the first names the file as well.        *)
Begin == (req.start + shift) % AddrSpace
End   == (req.start + shift + req.size) % AddrSpace

Init ==
  /\ RegionInit
  /\ mem \in [Memory -> {CHOOSE v \in Versions : TRUE}]
  /\ writes = 0
  /\ files = [n \in Names |-> <<>>]
  /\ created = {}
  /\ missing = [n \in Names |-> 0]
  /\ shift = 0
  /\ calls = 0
  /\ req = CHOOSE r \in Requests : TRUE
  /\ pc = "start"
  /\ fds = 0
  /\ dest = <<>>
  /\ ret = 1
  /\ hpc = "none" /\ haddr = 0 /\ hbuf = <<>> /\ hfile = 0
  /\ fails = 0
  /\ held = [u \in Memory |-> {mem[u]}]
  /\ during = held
  /\ broken = FALSE

Fail == fails < MaxFails /\ fails' = fails + 1

-----------------------------------------------------------------------------
(* main and get_kernel_map                                                 *)

Main(at, to) ==
  /\ pc = at
  /\ pc' = to
  /\ UNCHANGED <<calls, req, fds, dest, ret, disk, broken>>
  /\ UNCHANGED helper
  /\ UNCHANGED memory

FindRegion ==
  /\ Main("start", "region")
  /\ CallRegion
  /\ UNCHANGED <<shift, fails>>

(* The address is not looked at, 0 neither.                                *)
RegionFound ==
  /\ Main("region", "signature")
  /\ EndCall
  /\ UNCHANGED <<shift, fails>>

(* 0xa eight bytes before the pointer to the kernel's map; in another      *)
(* region than the kernel's image it is not found, or nothing can be read. *)
SignatureFound ==
  /\ Main("signature", "pmap")
  /\ kernel_region = KernelBase
  /\ UNCHANGED <<shift, fails>>
  /\ UNCHANGED regionVars

SignatureMissing ==
  /\ Main("signature", "ended")
  /\ kernel_region # KernelBase
  /\ UNCHANGED <<shift, fails>>
  /\ UNCHANGED regionVars

PmapRead ==
  /\ Main("pmap", "idle")
  /\ shift' = (Table.virt - Table.phys) % AddrSpace
  /\ UNCHANGED fails
  /\ UNCHANGED regionVars

(* task_for_pid or one of the reads fails: main returns.                   *)
MainFails ==
  /\ \E at \in {"start", "signature", "pmap"} : Main(at, "ended")
  /\ Fail
  /\ UNCHANGED shift
  /\ UNCHANGED regionVars

Searching ==
  /\ Search
  /\ UNCHANGED <<disk, fails, broken>>
  /\ UNCHANGED dumper
  /\ UNCHANGED helper
  /\ UNCHANGED memory

MapChanging ==
  /\ MapChanges
  /\ UNCHANGED <<disk, fails, broken>>
  /\ UNCHANGED dumper
  /\ UNCHANGED helper
  /\ UNCHANGED memory

-----------------------------------------------------------------------------
(* physread: system("./vmr start end") and its wait for the helper         *)

Call(starts) ==
  /\ pc = "idle"
  /\ calls < MaxCalls
  /\ calls' = calls + 1
  /\ req' \in Requests
  /\ dest' = <<>>
  /\ during' = [u \in Memory |-> {mem[u]}]
  /\ broken' = ~ starts
  /\ UNCHANGED <<mem, writes, disk, shift, fds, ret, held, hfile, hbuf>>
  /\ UNCHANGED regionVars

StartHelper ==
  /\ Call(TRUE)
  /\ pc' = "wait"
  /\ hpc' = "half1"
  /\ haddr' = Begin'
  /\ UNCHANGED fails

(* No process, no program: the result of system is not looked at.          *)
HelperNotStarted ==
  /\ Call(FALSE)
  /\ Fail
  /\ pc' = "open"
  /\ UNCHANGED <<hpc, haddr>>

-----------------------------------------------------------------------------
(* dump_kernel_task of vmr.c                                               *)

Readable(u) == u \in Memory \ Holes

ReadFirstHalf ==
  /\ hpc = "half1"
  /\ haddr < End
  /\ Readable(haddr)
  /\ hbuf' = <<[at |-> haddr, what |-> mem[haddr]]>>
  /\ hpc' = "half2"
  /\ UNCHANGED <<disk, haddr, hfile, fails, broken>>
  /\ UNCHANGED dumper
  /\ UNCHANGED kernel

ReadSecondHalf ==
  /\ hpc = "half2"
  /\ Readable(haddr + 1)
  /\ hbuf' = Append(hbuf, [at |-> haddr + 1, what |-> mem[haddr + 1]])
  /\ hpc' = "save"
  /\ UNCHANGED <<disk, haddr, hfile, fails, broken>>
  /\ UNCHANGED dumper
  /\ UNCHANGED kernel

(* The helper ends; the dumper goes on, however it ended.                  *)
HelperEnds(how) ==
  /\ hpc' = "none"
  /\ hbuf' = <<>>
  /\ hfile' = 0
  /\ broken' = (broken \/ how # "finished")
  /\ pc' = "open"
  /\ UNCHANGED <<haddr, shift, calls, req, fds, dest, ret>>
  /\ UNCHANGED kernel

(* Failed to read: break.                                                  *)
ReadFails ==
  /\ \/ hpc = "half1" /\ haddr < End /\ ~ Readable(haddr)
     \/ hpc = "half2" /\ ~ Readable(haddr + 1)
  /\ HelperEnds("unreadable")
  /\ UNCHANGED <<disk, fails>>

(* A file overwritten from position p + 1 on by the copies in c.           *)
Overwritten(f, p, c) ==
  [k \in 1 .. IF p + Len(c) > Len(f) THEN p + Len(c) ELSE Len(f) |->
     IF k \in p + 1 .. p + Len(c) THEN c[k - p] ELSE f[k]]

(* n units of the page are written at the position p of the file.          *)
Written(p, n) ==
  /\ files' = [files EXCEPT ![Begin] = Overwritten(@, p, SubSeq(hbuf, 1, n))]
  /\ created' = created \cup {Begin}
  /\ missing' = [missing EXCEPT ![Begin] = @ + Page - n]
  /\ broken' = (broken \/ n < Page)
  /\ IF n < Page THEN Fail ELSE UNCHANGED fails

(* To the next page.                                                       *)
NextPage ==
  /\ haddr' = (haddr + Page) % AddrSpace
  /\ hpc' = "half1"
  /\ UNCHANGED hbuf
  /\ UNCHANGED dumper
  /\ UNCHANGED kernel

(* Faulty variants, named after the definition they would replace, stand   *)
(* before it.  This one appends to the file of an earlier call.            *)
SavePage_Appends ==
  /\ hpc = "save"
  /\ \E n \in 0 .. Page :
       /\ Written(Len(files[Begin]), n)
       /\ hfile' = hfile + n
  /\ NextPage

(* Faulty: the file is opened anew for each page.                          *)
SavePage_Reopens ==
  /\ hpc = "save"
  /\ \E n \in 0 .. Page : Written(hfile, n)
  /\ hfile' = 0
  /\ NextPage

(* open with O_CREAT and without O_TRUNC at the first page, and write,     *)
(* whose result is not looked at.                                          *)
SavePage ==
  /\ hpc = "save"
  /\ \E n \in 0 .. Page :
       /\ Written(hfile, n)
       /\ hfile' = hfile + n
  /\ NextPage

(* Unable to open file for writing; it is opened at the first page.        *)
OpenForWritingFails ==
  /\ hpc = "save"
  /\ haddr = Begin
  /\ Fail
  /\ HelperEnds("no file")
  /\ UNCHANGED disk

(* Faulty: the loop ends at the end address only.                          *)
HelperFinishes_AtEndOnly ==
  /\ hpc = "half1"
  /\ haddr = End
  /\ HelperEnds("finished")
  /\ UNCHANGED <<disk, fails>>

HelperFinishes ==
  /\ hpc = "half1"
  /\ haddr >= End
  /\ HelperEnds("finished")
  /\ UNCHANGED <<disk, fails>>

HelperKilled ==
  /\ hpc # "none"
  /\ Fail
  /\ HelperEnds("killed")
  /\ UNCHANGED disk

-----------------------------------------------------------------------------
(* physread: open, read, close                                             *)

Return(r) ==
  /\ pc' = "idle"
  /\ ret' = r

OpenFails ==
  /\ pc = "open"
  /\ Begin \notin created
  /\ Return(1)
  /\ UNCHANGED <<disk, shift, calls, req, fds, dest, fails, broken>>
  /\ UNCHANGED helper
  /\ UNCHANGED kernel

Open ==
  /\ pc = "open"
  /\ Begin \in created
  /\ pc' = "read"
  /\ fds' = fds + 1
  /\ UNCHANGED <<disk, shift, calls, req, dest, ret, fails, broken>>
  /\ UNCHANGED helper
  /\ UNCHANGED kernel

(* Faulty: any number of bytes is success.                                 *)
Read_ShortIsFine ==
  /\ pc = "read"
  /\ LET file == files[Begin]
     IN dest' = SubSeq(file, 1, IF Len(file) < req.size THEN Len(file) ELSE req.size)
  /\ Return(0)
  /\ fds' = fds - 1
  /\ UNCHANGED <<disk, shift, calls, req, fails, broken>>
  /\ UNCHANGED helper
  /\ UNCHANGED kernel

(* Faulty: a bad read leaves the file open.                                *)
Read_BadStaysOpen ==
  /\ pc = "read"
  /\ LET file == files[Begin]
         got  == IF Len(file) < req.size THEN Len(file) ELSE req.size
     IN /\ dest' = SubSeq(file, 1, got)
        /\ Return(IF got = req.size THEN 0 ELSE 1)
        /\ fds' = IF got = req.size THEN fds - 1 ELSE fds
  /\ UNCHANGED <<disk, shift, calls, req, fails, broken>>
  /\ UNCHANGED helper
  /\ UNCHANGED kernel

Read ==
  /\ pc = "read"
  /\ LET file == files[Begin]
         got  == IF Len(file) < req.size THEN Len(file) ELSE req.size
     IN /\ dest' = SubSeq(file, 1, got)
        /\ Return(IF got = req.size THEN 0 ELSE 1)
  /\ fds' = fds - 1
  /\ UNCHANGED <<disk, shift, calls, req, fails, broken>>
  /\ UNCHANGED helper
  /\ UNCHANGED kernel

-----------------------------------------------------------------------------
(* The kernel runs on.                                                     *)
KernelWrites ==
  /\ writes < MaxWrites
  /\ writes' = writes + 1
  /\ \E u \in Memory, v \in Versions :
       /\ mem' = [mem EXCEPT ![u] = v]
       /\ held' = [held EXCEPT ![u] = @ \cup {v}]
       /\ during' = [during EXCEPT ![u] = @ \cup {v}]
  /\ UNCHANGED <<disk, fails, broken>>
  /\ UNCHANGED dumper
  /\ UNCHANGED helper
  /\ UNCHANGED regionVars

(* armPtPrint is done, or main has given up.                               *)
Over == pc = "ended" \/ (pc = "idle" /\ calls = MaxCalls)

Finished == Over /\ UNCHANGED vars

Preparing ==
  \/ FindRegion \/ RegionFound \/ SignatureFound \/ SignatureMissing
  \/ PmapRead \/ MainFails \/ Searching

Helper ==
  \/ ReadFirstHalf \/ ReadSecondHalf \/ ReadFails \/ SavePage
  \/ OpenForWritingFails \/ HelperFinishes \/ HelperKilled

Answering == OpenFails \/ Open \/ Read

Next ==
  \/ Preparing \/ MapChanging
  \/ StartHelper \/ HelperNotStarted \/ Helper \/ Answering
  \/ KernelWrites \/ Finished

Spec == Init /\ [][Next]_vars

(* The dumper is scheduled in main, the helper, and the dumper when the    *)
(* helper is gone.                                                         *)
FairSpec ==
  /\ Spec
  /\ WF_vars(Preparing) /\ WF_vars(Helper) /\ WF_vars(Answering)

-----------------------------------------------------------------------------
(* Properties                                                              *)

(* Every variable has its type.                                            *)
TypeOK ==
  /\ mem \in [Memory -> Versions]
  /\ writes \in 0..MaxWrites /\ calls \in 0..MaxCalls /\ fails \in 0..MaxFails
  /\ files \in [Names -> Seq(Copy)] /\ created \subseteq Names
  /\ missing \in [Names -> Nat]
  /\ req \in Requests
  /\ RegionTypeOK
  /\ shift \in Addresses
  /\ pc \in {"start", "region", "signature", "pmap", "ended",
             "idle", "wait", "open", "read"}
  /\ pc = "wait" <=> hpc # "none"
  /\ fds \in {0, 1} /\ (fds = 1 <=> pc = "read")
  /\ dest \in Seq(Copy)
  /\ ret \in {0, 1}
  /\ hpc \in {"none", "half1", "half2", "save"}
  /\ haddr \in Nat /\ hbuf \in Seq(Copy) /\ hfile \in Nat
  /\ held \in [Memory -> SUBSET Versions]
  /\ during \in [Memory -> SUBSET Versions]
  /\ broken \in BOOLEAN

Answered == calls > 0 /\ pc = "idle" /\ ret = 0

(* Whatever helpers left in the file, in how many parts and over how many  *)
(* calls: a read that succeeds is complete, each unit of it is a copy of   *)
(* something its address has held, and the address is the one asked for,   *)
(* or, if writes to the file have fallen short, higher by not more than    *)
(* they did.                                                               *)
AnswerIsFromThere ==
  Answered =>
    /\ Len(dest) = req.size
    /\ \A k \in 1..req.size :
         LET asked == Linear(req.start + k - 1)
         IN /\ dest[k].at \in asked .. asked + missing[Linear(req.start)]
            /\ dest[k].what \in held[dest[k].at]

(* A call whose helper reached the end and wrote all it read succeeds, and *)
(* its answer is memory as it was during the call, whatever older file the *)
(* helper wrote over.  Of a range that reaches the end of the address      *)
(* space the helper copies nothing, and the call fails, whatever file is   *)
(* there.                                                                  *)
FinishedIsFresh ==
  (calls > 0 /\ pc = "idle" /\ ~ broken) =>
    IF Linear(req.start) + req.size < AddrSpace
      THEN /\ ret = 0
           /\ \A k \in 1..req.size : dest[k].what \in during[dest[k].at]
      ELSE ret = 1

(* However helpers were cut short and whatever sizes shared the file: if   *)
(* no write to it ever fell short, a file holds consecutive copies from    *)
(* the address in its name on, without a gap or a torn page; and if some   *)
(* did, each unit is from its address or one that is higher by not more    *)
(* than what was not written.                                              *)
FilesAreRanges ==
  \A n \in Names :
    /\ missing[n] = 0 => Len(files[n]) % Page = 0
    /\ \A k \in DOMAIN files[n] :
         files[n][k].at \in n + k - 1 .. n + k - 1 + missing[n]

(* main comes to call armPtPrint or gives up, and each call of physread    *)
(* returns.                                                                *)
CallsReturn == (pc \notin {"idle", "ended"}) ~> (pc \in {"idle", "ended"})

(* The comment at dumper.c:31: read total_size bytes from physical address *)
(* start.  The answer is what memory held during the call.                 *)
AnswerIsCurrent ==
  Answered => \A k \in 1..req.size : dest[k].what \in during[dest[k].at]
=============================================================================
