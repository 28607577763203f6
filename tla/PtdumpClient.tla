----------------------------- MODULE PtdumpClient -----------------------------
(***************************************************************************)
(* The kernel extension code/OSX/ptdump (ptdump.cpp, tasks.cpp) and the    *)
(* processes that call it: main of code/OSX/uptdump/main.c with its three  *)
(* commands that work, physmem, walkpt and walkthreads.                    *)
(*                                                                         *)
(* Each process has a user client of its own in the kernel, with one       *)
(* pageable block (_buffer, _buffer_length) that lasts from one DumpMem to *)
(* the next.  Two processes' calls run at once.  walk_tasks stores two     *)
(* words for each task of the kernel under the lock of the task list, and  *)
(* fills the first of the two.                                             *)
(*                                                                         *)
(* Memory is counted in units; the n-th unit of a dump is the address it   *)
(* was copied from, or Unset.  A mapping in a process keeps its pages when *)
(* the kernel frees its own block.  A map object holds a reference to the  *)
(* descriptor it maps, and DumpMem releases none of the two it makes.      *)
(* What a store behind the structure does to the kernel is not modelled:   *)
(* the behaviour ends there.  dumpregisters keeps no state, and virtmem,   *)
(* which its author marks as not working, is left out.                     *)
(***************************************************************************)
EXTENDS Integers, Sequences, FiniteSets

CONSTANTS
  Clients,    (* processes that run uptdump                                 *)
  Blocks,     (* addresses of pageable kernel memory                        *)
  Requests,   (* arguments of kDumpPhysMem: [start, length] in units        *)
  Tasks,      (* tasks of the kernel                                        *)
  FirstTasks, (* those there are at first, in the order of their list       *)
  Words,      (* words of the structure walk_tasks writes to                *)
  MaxCalls,   (* bound on a process's calls of ReadPhysMem                  *)
  MaxFails,   (* bound on failing kernel calls                              *)
  MaxEvents   (* bound on tasks created and terminated                      *)

None  == 0    \* no block, no holder of the lock
Unset == -1   \* a unit or a word that nothing was stored to

ASSUME PtdumpAssumption ==
  /\ Blocks \subseteq Nat \ {None} /\ Cardinality(Blocks) >= Cardinality(Clients)
  /\ Clients \subseteq Nat \ {None} /\ Tasks \subseteq Nat
  /\ Requests \subseteq [start : Nat, length : Nat \ {0}] /\ Requests # {}
  /\ FirstTasks \in Seq(Tasks) /\ Words \in Nat \ {0}
  /\ MaxCalls \in Nat \ {0} /\ MaxFails \in Nat /\ MaxEvents \in Nat

VARIABLES
  block,     \* the blocks in use: length of each, 0 when it is free
  data,      \* what they hold
  slot,      \* _buffer of each user client
  slotLen,   \* _buffer_length
  refs,      \* references to descriptors that the current call holds
  kmaps,     \* mappings of a buffer into the kernel's task
  descs,     \* descriptors of buffers that exist
  maps,      \* map objects that exist
  pc,        \* each process: where it is
  cmd,       \* its command
  calls,     \* its calls of ReadPhysMem
  req,       \* the arguments of the last one
  view,      \* what it sees at output[0]; <<>> when that is 0
  fails,     \* failed kernel calls
  queue,     \* the kernel's tasks
  events,    \* tasks created and terminated
  lock,      \* who holds tasks_threads_lock
  pos,       \* tasks stored by walk_tasks
  out,       \* the structure: words 0 .. Words - 1
  i,         \* the loop of main over the structure
  printed,   \* what it printed
  overrun,   \* walk_tasks stored outside the structure
  snapshot   \* history: the tasks when the lock was taken

left   == <<descs, maps>>
memory == <<block, data, slot, slotLen, refs, kmaps, left, calls, req, view>>
walk   == <<lock, pos, out, snapshot, overrun>>
tasks  == <<queue, events>>
vars   == <<block, data, slot, slotLen, refs, kmaps, left, pc, cmd, calls, req,
            view, fails, queue, events, lock, pos, out, i, printed, overrun, snapshot>>

-----------------------------------------------------------------------------
Places == {"idle", "ready", "alloc", "read", "wrap", "mapK", "mapU", "answered",
           "lock", "walk", "print", "done"}

Commands == {"physmem", "walkpt", "walkthreads"}

InCall == {"alloc", "read", "wrap", "mapK", "mapU"}

Init ==
  /\ block = [b \in Blocks |-> 0]
  /\ data = [b \in Blocks |-> <<>>]
  /\ slot = [c \in Clients |-> None]
  /\ slotLen = [c \in Clients |-> 0]
  /\ refs = [c \in Clients |-> 0]
  /\ kmaps = [c \in Clients |-> 0]
  /\ descs = [c \in Clients |-> 0]
  /\ maps = [c \in Clients |-> 0]
  /\ pc = [c \in Clients |-> "idle"]
  /\ cmd = [c \in Clients |-> "walkpt"]
  /\ calls = [c \in Clients |-> 0]
  /\ req = [c \in Clients |-> CHOOSE r \in Requests : TRUE]
  /\ view = [c \in Clients |-> <<>>]
  /\ fails = 0
  /\ queue = FirstTasks
  /\ events = 0
  /\ lock = None
  /\ pos = [c \in Clients |-> 0]
  /\ out = [c \in Clients |-> [w \in 0 .. Words - 1 |-> Unset]]
  /\ i = [c \in Clients |-> 1]
  /\ printed = [c \in Clients |-> <<>>]
  /\ overrun = FALSE
  /\ snapshot = [c \in Clients |-> <<>>]

Goto(c, place) == pc' = [pc EXCEPT ![c] = place]

At(c, place) == pc[c] = place /\ ~ overrun

Fail == fails < MaxFails /\ fails' = fails + 1

-----------------------------------------------------------------------------
(* main: connect and the command                                           *)

Connect(c) ==
  /\ At(c, "idle")
  /\ \E command \in Commands :
       /\ cmd' = [cmd EXCEPT ![c] = command]
       /\ Goto(c, IF command = "walkthreads" THEN "lock" ELSE "ready")
  /\ UNCHANGED <<fails, i, printed>>
  /\ UNCHANGED memory
  /\ UNCHANGED walk
  /\ UNCHANGED tasks

-----------------------------------------------------------------------------
(* DumpMem, called for physmem and by ReadPhysMem of walkpt                *)

Stays == UNCHANGED <<cmd, i, printed>> /\ UNCHANGED walk /\ UNCHANGED tasks

Free(b) ==
  /\ block' = [block EXCEPT ![b] = 0]
  /\ data' = [data EXCEPT ![b] = <<>>]

FreeOwn(c) ==
  IF slot[c] = None
    THEN UNCHANGED <<block, data, slot>>
    ELSE Free(slot[c]) /\ slot' = [slot EXCEPT ![c] = None]

(* The block of the call before is freed.                                  *)
CallDumpMem(c) ==
  /\ At(c, "ready")
  /\ calls[c] < (IF cmd[c] = "physmem" THEN 1 ELSE MaxCalls)
  /\ calls' = [calls EXCEPT ![c] = @ + 1]
  /\ \E r \in Requests : req' = [req EXCEPT ![c] = r]
  /\ view' = [view EXCEPT ![c] = <<>>]
  /\ FreeOwn(c)
  /\ Goto(c, "alloc")
  /\ UNCHANGED <<slotLen, refs, kmaps, left, fails>>
  /\ Stays

AllocBuffer(c) ==
  /\ At(c, "alloc")
  /\ \E b \in Blocks :
       /\ block[b] = 0
       /\ block' = [block EXCEPT ![b] = req[c].length]
       /\ data' = [data EXCEPT ![b] = [k \in 1 .. req[c].length |-> Unset]]
       /\ slot' = [slot EXCEPT ![c] = b]
       /\ slotLen' = [slotLen EXCEPT ![c] = req[c].length]
  /\ Goto(c, "read")
  /\ UNCHANGED <<refs, kmaps, left, calls, req, view, fails>>
  /\ Stays

AllocFails(c) ==
  /\ At(c, "alloc")
  /\ Fail
  /\ Goto(c, "answered")
  /\ UNCHANGED memory
  /\ Stays

(* No descriptor of the physical memory: the block stays in the slot.      *)
DescribeFails(c) ==
  /\ At(c, "read")
  /\ Fail
  /\ Goto(c, "answered")
  /\ UNCHANGED memory
  /\ Stays

(* Faulty variants, named after the definition they would replace, stand   *)
(* before it.  This one passes the start address as the offset, too.       *)
ReadBytes_OffsetTwice(c) ==
  /\ At(c, "read")
  /\ \E n \in {req[c].length} \cup (IF fails < MaxFails THEN 0 .. req[c].length ELSE {}) :
       /\ fails' = IF n = req[c].length THEN fails ELSE fails + 1
       /\ data' = [data EXCEPT ![slot[c]] =
                     [k \in DOMAIN @ |-> IF k <= n THEN 2 * req[c].start + k - 1 ELSE @[k]]]
  /\ Goto(c, "wrap")
  /\ UNCHANGED <<block, slot, slotLen, refs, kmaps, left, calls, req, view>>
  /\ Stays

(* The n-th unit is copied from start + n - 1; the number of units that    *)
(* readBytes returns is not looked at.                                     *)
ReadBytes(c) ==
  /\ At(c, "read")
  /\ \E n \in {req[c].length} \cup (IF fails < MaxFails THEN 0 .. req[c].length ELSE {}) :
       /\ fails' = IF n = req[c].length THEN fails ELSE fails + 1
       /\ data' = [data EXCEPT ![slot[c]] =
                     [k \in DOMAIN @ |-> IF k <= n THEN req[c].start + k - 1 ELSE @[k]]]
  /\ Goto(c, "wrap")
  /\ UNCHANGED <<block, slot, slotLen, refs, kmaps, left, calls, req, view>>
  /\ Stays

(* Faulty: the slot is emptied and the block is not freed.                 *)
WrapFails_Leaks(c) ==
  /\ At(c, "wrap")
  /\ Fail
  /\ slot' = [slot EXCEPT ![c] = None]
  /\ Goto(c, "answered")
  /\ UNCHANGED <<block, data, slotLen, refs, kmaps, left, calls, req, view>>
  /\ Stays

WrapFails(c) ==
  /\ At(c, "wrap")
  /\ Fail
  /\ FreeOwn(c)
  /\ Goto(c, "answered")
  /\ UNCHANGED <<slotLen, refs, kmaps, left, calls, req, view>>
  /\ Stays

Wrap(c) ==
  /\ At(c, "wrap")
  /\ refs' = [refs EXCEPT ![c] = @ + 1]
  /\ descs' = [descs EXCEPT ![c] = @ + 1]
  /\ Goto(c, "mapK")
  /\ UNCHANGED <<block, data, slot, slotLen, kmaps, maps, calls, req, view, fails>>
  /\ Stays

MapKernel(c) ==
  /\ At(c, "mapK")
  /\ kmaps' = [kmaps EXCEPT ![c] = @ + 1]
  /\ maps' = [maps EXCEPT ![c] = @ + 1]
  /\ Goto(c, "mapU")
  /\ UNCHANGED <<block, data, slot, slotLen, refs, descs, calls, req, view, fails>>
  /\ Stays

(* Faulty: a failure returns without releasing the descriptor.             *)
MapKernelFails_NoRelease(c) ==
  /\ At(c, "mapK")
  /\ Fail
  /\ Goto(c, "answered")
  /\ UNCHANGED memory
  /\ Stays

(* The last reference to the descriptor is the call's, which it releases.  *)
MapKernelFails(c) ==
  /\ At(c, "mapK")
  /\ Fail
  /\ refs' = [refs EXCEPT ![c] = @ - 1]
  /\ descs' = [descs EXCEPT ![c] = @ - 1]
  /\ Goto(c, "answered")
  /\ UNCHANGED <<block, data, slot, slotLen, kmaps, maps, calls, req, view>>
  /\ Stays

(* The mapping into the process, which fails or shows it the block.        *)
MapOrFail(c) ==
  \/ /\ view' = [view EXCEPT ![c] = data[slot[c]]]
     /\ maps' = [maps EXCEPT ![c] = @ + 1]
     /\ UNCHANGED fails
  \/ Fail /\ UNCHANGED <<view, maps>>

(* Faulty: a failure undoes the kernel's mapping at once and again below.  *)
MapUser_UnmapsTwice(c) ==
  /\ At(c, "mapU")
  /\ MapOrFail(c)
  /\ refs' = [refs EXCEPT ![c] = @ - 1]
  /\ kmaps' = [kmaps EXCEPT ![c] = IF fails' = fails THEN @ - 1 ELSE @ - 2]
  /\ Goto(c, "answered")
  /\ UNCHANGED <<block, data, slot, slotLen, descs, calls, req>>
  /\ Stays

(* The call's own reference is released and the kernel's mapping undone;   *)
(* the map object of the latter is not released, and keeps the descriptor. *)
MapUser(c) ==
  /\ At(c, "mapU")
  /\ MapOrFail(c)
  /\ refs' = [refs EXCEPT ![c] = @ - 1]
  /\ kmaps' = [kmaps EXCEPT ![c] = @ - 1]
  /\ Goto(c, "answered")
  /\ UNCHANGED <<block, data, slot, slotLen, descs, calls, req>>
  /\ Stays

(* ReadPhysMem copies what it sees, for which address 0 is fatal; physmem  *)
(* prints it if there is something, and main returns.                      *)
Answered(c) ==
  /\ At(c, "answered")
  /\ IF cmd[c] = "walkpt" /\ view[c] # <<>>
       THEN Goto(c, "ready") /\ UNCHANGED <<block, data, slot>>
       ELSE Goto(c, "done") /\ FreeOwn(c)
  /\ UNCHANGED <<slotLen, refs, kmaps, left, calls, req, view, fails>>
  /\ Stays

(* The process ends and the kernel calls clientClose.                      *)
Close(c) ==
  /\ At(c, "ready")
  /\ FreeOwn(c)
  /\ Goto(c, "done")
  /\ UNCHANGED <<slotLen, refs, kmaps, left, calls, req, view, fails>>
  /\ Stays

-----------------------------------------------------------------------------
(* walk_tasks of the extension, and the loop of main over its words        *)

Elsewhere == UNCHANGED <<cmd, fails>> /\ UNCHANGED memory /\ UNCHANGED tasks

LockTasks(c) ==
  /\ At(c, "lock")
  /\ lock = None
  /\ lock' = c
  /\ snapshot' = [snapshot EXCEPT ![c] = queue]
  /\ Goto(c, "walk")
  /\ UNCHANGED <<pos, out, i, printed, overrun>>
  /\ Elsewhere

(* Faulty: one of the two count++ is missing.                              *)
WordsPerTask_One == 1

WordsPerTask == 2

(* The word of the task at pos; the words behind it stay as they were.     *)
WordOf(p) == 1 + 2 * p

StoreTask(c) ==
  /\ At(c, "walk")
  /\ pos[c] < Len(queue)
  /\ IF WordOf(pos[c]) < Words
       THEN out' = [out EXCEPT ![c][WordOf(pos[c])] = queue[pos[c] + 1]] /\ UNCHANGED overrun
       ELSE overrun' = TRUE /\ UNCHANGED out
  /\ pos' = [pos EXCEPT ![c] = @ + 1]
  /\ UNCHANGED <<pc, lock, snapshot, i, printed>>
  /\ Elsewhere

UnlockTasks(c) ==
  /\ At(c, "walk")
  /\ pos[c] = Len(queue)
  /\ lock' = None
  /\ out' = [out EXCEPT ![c][0] = WordsPerTask * pos[c]]
  /\ Goto(c, "print")
  /\ UNCHANGED <<pos, snapshot, i, printed, overrun>>
  /\ Elsewhere

(* Faulty: goes on to the next turn without counting when a word is empty. *)
PrintWord_Skips(c) ==
  /\ At(c, "print")
  /\ i[c] < out[c][0]
  /\ IF out[c][i[c]] = Unset
       THEN UNCHANGED <<i, printed>>
       ELSE /\ printed' = [printed EXCEPT ![c] = Append(@, out[c][i[c]])]
            /\ i' = [i EXCEPT ![c] = @ + 1]
  /\ UNCHANGED pc
  /\ Elsewhere
  /\ UNCHANGED walk

PrintWord(c) ==
  /\ At(c, "print")
  /\ i[c] < out[c][0]
  /\ printed' = [printed EXCEPT ![c] = Append(@, out[c][i[c]])]
  /\ i' = [i EXCEPT ![c] = @ + 1]
  /\ UNCHANGED pc
  /\ Elsewhere
  /\ UNCHANGED walk

PrintEnd(c) ==
  /\ At(c, "print")
  /\ i[c] >= out[c][0]
  /\ Goto(c, "done")
  /\ UNCHANGED <<i, printed>>
  /\ Elsewhere
  /\ UNCHANGED walk

-----------------------------------------------------------------------------
(* The kernel creates and terminates tasks, under its lock.                *)

TasksChange(q) ==
  /\ lock = None
  /\ ~ overrun
  /\ events < MaxEvents
  /\ events' = events + 1
  /\ queue' = q
  /\ UNCHANGED <<pc, cmd, fails, i, printed>>
  /\ UNCHANGED memory
  /\ UNCHANGED walk

CreateTask ==
  \E t \in Tasks \ {queue[k] : k \in DOMAIN queue} : TasksChange(Append(queue, t))

TerminateTask ==
  \E k \in DOMAIN queue :
    TasksChange(SubSeq(queue, 1, k - 1) \o SubSeq(queue, k + 1, Len(queue)))

Finished ==
  /\ overrun \/ \A c \in Clients : pc[c] = "done"
  /\ UNCHANGED vars

Process(c) ==
  \/ Connect(c) \/ CallDumpMem(c) \/ AllocBuffer(c) \/ AllocFails(c)
  \/ DescribeFails(c) \/ ReadBytes(c) \/ WrapFails(c) \/ Wrap(c)
  \/ MapKernel(c) \/ MapKernelFails(c) \/ MapUser(c) \/ Answered(c) \/ Close(c)
  \/ LockTasks(c) \/ StoreTask(c) \/ UnlockTasks(c) \/ PrintWord(c) \/ PrintEnd(c)

Next ==
  \/ \E c \in Clients : Process(c)
  \/ CreateTask \/ TerminateTask \/ Finished

Spec == Init /\ [][Next]_vars

(* Each process is scheduled.                                              *)
FairSpec == Spec /\ \A c \in Clients : WF_vars(Process(c))

-----------------------------------------------------------------------------
(* Properties                                                              *)

(* Every variable has its type.                                            *)
TypeOK ==
  /\ block \in [Blocks -> Nat]
  /\ data \in [Blocks -> Seq(Nat \cup {Unset})]
  /\ slot \in [Clients -> Blocks \cup {None}]
  /\ slotLen \in [Clients -> Nat]
  /\ refs \in [Clients -> 0..1] /\ kmaps \in [Clients -> 0..1]
  /\ descs \in [Clients -> Nat] /\ maps \in [Clients -> Nat]
  /\ pc \in [Clients -> Places] /\ cmd \in [Clients -> Commands]
  /\ calls \in [Clients -> 0..MaxCalls] /\ req \in [Clients -> Requests]
  /\ view \in [Clients -> Seq(Nat \cup {Unset})]
  /\ fails \in 0..MaxFails /\ events \in 0..MaxEvents
  /\ queue \in Seq(Tasks) /\ lock \in Clients \cup {None}
  /\ pos \in [Clients -> Nat] /\ i \in [Clients -> Nat]
  /\ out \in [Clients -> [0 .. Words - 1 -> Nat \cup {Unset}]]
  /\ printed \in [Clients -> Seq(Nat \cup {Unset})]
  /\ overrun \in BOOLEAN /\ snapshot \in [Clients -> Seq(Tasks)]

(* However calls fail and processes end, a block in use belongs to one     *)
(* open user client, which will free it with the length it has; of two     *)
(* processes neither frees or fills a block of the other; and on each way  *)
(* out of DumpMem the call has dropped its own reference to the descriptor *)
(* of its buffer and undone the kernel's mapping.  The map objects are     *)
(* never released: each call leaves its descriptor behind with one or two  *)
(* of them, save the calls in which something failed.                      *)
BlocksOwned ==
  /\ \A b \in Blocks : block[b] # 0 <=> \E c \in Clients : slot[c] = b
  /\ \A c, d \in Clients : slot[c] = slot[d] /\ c # d => slot[c] = None
  /\ \A c \in Clients : slot[c] # None => slotLen[c] = block[slot[c]]
  /\ \A c \in Clients : pc[c] = "done" => slot[c] = None
  /\ \A c \in Clients : pc[c] \notin InCall =>
       /\ refs[c] = 0 /\ kmaps[c] = 0
       /\ descs[c] <= calls[c] /\ calls[c] <= descs[c] + fails
       /\ descs[c] <= maps[c] /\ maps[c] <= 2 * descs[c]

(* What a process sees after its call is what that call copied for it, as  *)
(* far as it came, whatever the calls of others reused meanwhile.          *)
ViewIsOwnDump ==
  \A c \in Clients : view[c] # <<>> =>
    /\ Len(view[c]) = req[c].length
    /\ \A k \in DOMAIN view[c] : view[c][k] \in {req[c].start + k - 1, Unset}
    /\ \A k, l \in DOMAIN view[c] : k < l /\ view[c][k] = Unset => view[c][l] = Unset

(* walk_tasks stores outside the structure only if some list is too long   *)
(* for it, and never comes to its end with such a list; a list that fits,  *)
(* be it to the last word, is printed as it was when it was locked, in     *)
(* order, although tasks come and go before and behind.  Between two tasks *)
(* a word that walk_tasks leaves out is printed; the one behind the last   *)
(* is not, for the loop stops a word early, and so reads inside the        *)
(* structure.                                                              *)
TasksPrinted ==
  /\ overrun => \E c \in Clients : 2 * Len(snapshot[c]) > Words
  /\ \A c \in Clients : cmd[c] = "walkthreads" /\ pc[c] = "done" =>
       LET n == Len(snapshot[c])
       IN /\ 2 * n <= Words
          /\ Len(printed[c]) = IF n = 0 THEN 0 ELSE 2 * n - 1
          /\ \A k \in 1..n : printed[c][2 * k - 1] = snapshot[c][k]
          /\ \A k \in 1 .. n - 1 : printed[c][2 * k] = Unset

(* Each process ends, unless the structure was overrun, though one may     *)
(* wait for the lock the other holds.                                      *)
CommandsEnd == \A c \in Clients : (pc[c] # "idle") ~> (pc[c] = "done" \/ overrun)
=============================================================================
