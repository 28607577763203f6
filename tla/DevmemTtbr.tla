------------------------------ MODULE DevmemTtbr ------------------------------
(***************************************************************************)
(* The list of the translation tables of all processes: dump_all_ttbr0 of  *)
(* the kernel patch code/android-ioctl/msm-mako-3.4-jb_devmem-vmsa-ioctl   *)
(* .patch, which walks the kernel's task list under the RCU read lock and  *)
(* stores one record per task through a user pointer that carries no       *)
(* length, and its caller, dump_all_ttbr0 of pgtcollect.c, which retries   *)
(* with twice the buffer as long as the call fails.                        *)
(*                                                                         *)
(* Meanwhile other processors fork and exit: a task is linked at the tail  *)
(* of the list; an exiting one loses its mm and is then unlinked, its own  *)
(* next pointer left as it was for the readers that stand on it; one that  *)
(* executes a program gets another mm.  RCU does not keep the mm that a    *)
(* task has left: it is freed, and may be another task's by the time it is *)
(* read.                                                                   *)
(*                                                                         *)
(* Units: buffers are counted in units of which a pgd takes PgdUnits and   *)
(* a name CommUnits (4 and 16 bytes in the code; InitSize is 0x10000,      *)
(* LimitSize 0x80000).                                                     *)
(***************************************************************************)
EXTENDS Integers, Sequences, FiniteSets

CONSTANTS
  Tasks,      (* every task there may ever be                               *)
  InitTask,   (* the list head                                              *)
  KThreads,   (* tasks without an mm                                        *)
  FirstTasks, (* the tasks, in list order, when the collector starts        *)
  PgdUnits, CommUnits,
  InitSize, LimitSize,
  Slacks      (* units mapped and writable right behind a mapping           *)

None == 0     \* phys_pgd = 0: a task without a table
Garbage == -1 \* what freed memory held

EntryUnits == PgdUnits + CommUnits

ASSUME DevmemAssumption ==
  /\ InitTask \notin Tasks
  /\ KThreads \subseteq Tasks
  /\ FirstTasks \in Seq(Tasks)
  /\ \A j, k \in DOMAIN FirstTasks : FirstTasks[j] = FirstTasks[k] => j = k
  /\ PgdUnits \in Nat \ {0} /\ CommUnits \in Nat \ {0}
  /\ InitSize \in Nat \ {0} /\ LimitSize \in Nat \ {0}
  /\ InitSize < LimitSize
  /\ Slacks \subseteq Nat

VARIABLES
  next,       \* the next pointers of the task list
  linked,     \* the tasks in the list
  mm,         \* the tasks that have an mm
  unborn,     \* tasks not yet forked
  kpc,        \* the ioctl: "none", "check", "load", "store", "oops"
  curr,       \* the task of the iteration
  pgd,        \* phys_pgd: the task whose table it is
  left,       \* the mm that was tested is no longer curr's
  used,       \* units stored so far: dest - arg
  processes,  \* the kernel's count
  rcu,        \* depth of RCU read-side sections of the calling thread
  upc,        \* the collector: "map", "call", "wait", "returned", "print", "done", "nomap"
  size,       \* the length of its mapping
  slack,      \* units that happen to be writable behind it
  result,     \* what ioctl returned, -1 for an error
  entries,    \* the records stored in the buffer
  printed,    \* the records whose tables were printed
  torn,       \* history: the tasks whose record is of an mm they had left
  faults,     \* history: calls that returned -EFAULT
  steady      \* history: the tasks with mm linked during the whole last call

kernelList == <<next, linked, mm, unborn>>
kernelCall == <<kpc, curr, pgd, used, processes, rcu, entries, torn>>
collector  == <<upc, size, slack, printed>>
vars == <<next, linked, mm, unborn, kpc, curr, pgd, left, used, processes, rcu,
          upc, size, slack, result, entries, printed, torn, faults, steady>>

-----------------------------------------------------------------------------
(* The node after which a linked node stands.                              *)
Before(n) == CHOOSE m \in linked \cup {InitTask} : next[m] = n

FirstOf(s) == {s[k] : k \in DOMAIN s}

Init ==
  /\ next = [n \in Tasks \cup {InitTask} |->
               IF n = InitTask
                 THEN IF FirstTasks = <<>> THEN InitTask ELSE FirstTasks[1]
                 ELSE IF n \in FirstOf(FirstTasks)
                        THEN LET k == CHOOSE j \in DOMAIN FirstTasks : FirstTasks[j] = n
                             IN IF k = Len(FirstTasks) THEN InitTask ELSE FirstTasks[k + 1]
                        ELSE InitTask]
  /\ linked = FirstOf(FirstTasks)
  /\ mm = linked \ KThreads
  /\ unborn = Tasks \ linked
  /\ kpc = "none" /\ curr = InitTask /\ pgd = None /\ left = FALSE /\ used = 0
  /\ processes = 0 /\ rcu = 0
  /\ upc = "map" /\ size = InitSize /\ slack = 0 /\ result = 0
  /\ entries = <<>> /\ printed = <<>>
  /\ torn = {} /\ faults = 0
  /\ steady = {}

-----------------------------------------------------------------------------
(* The rest of the kernel                                                  *)

Fork ==
  \E t \in unborn :
    /\ next' = [next EXCEPT ![Before(InitTask)] = t, ![t] = InitTask]
    /\ linked' = linked \cup {t}
    /\ mm' = IF t \in KThreads THEN mm ELSE mm \cup {t}
    /\ unborn' = unborn \ {t}
    /\ UNCHANGED <<result, faults, steady, left>>
    /\ UNCHANGED kernelCall
    /\ UNCHANGED collector

(* t gives up its mm, which is freed: a reader between its two loads of   *)
(* curr->mm has tested what is not t's any more.                           *)
Leaves(t) ==
  /\ left' = (left \/ (kpc = "load" /\ curr = t))
  /\ steady' = steady \ {t}
  /\ UNCHANGED <<next, linked, unborn, result, faults>>
  /\ UNCHANGED kernelCall
  /\ UNCHANGED collector

(* exit_mm: from here on curr->mm is NULL.                                 *)
DropMm == \E t \in mm : mm' = mm \ {t} /\ Leaves(t)

(* exec_mmap: the task has another mm.                                     *)
Exec == \E t \in mm : UNCHANGED mm /\ Leaves(t)

(* list_del_rcu, when the task is released.                                *)
Unlink ==
  \E t \in linked \ mm :
    /\ t \notin KThreads
    /\ next' = [next EXCEPT ![Before(t)] = next[t]]
    /\ linked' = linked \ {t}
    /\ UNCHANGED <<mm, unborn, result, faults, steady, left>>
    /\ UNCHANGED kernelCall
    /\ UNCHANGED collector

-----------------------------------------------------------------------------
(* dump_all_ttbr0 of pgtcollect.c                                          *)

(* mmap of size bytes; what lies behind the mapping is as it happens.      *)
Map ==
  /\ upc = "map"
  /\ slack' \in Slacks
  /\ entries' = <<>>
  /\ upc' = "call"
  /\ UNCHANGED <<size, printed, result, faults, steady, left>>
  /\ UNCHANGED <<kpc, curr, pgd, used, processes, rcu, torn>>
  /\ UNCHANGED kernelList

MapFails ==
  /\ upc = "map"
  /\ upc' = "nomap"
  /\ UNCHANGED <<size, slack, printed, result, faults, steady, left>>
  /\ UNCHANGED kernelCall
  /\ UNCHANGED kernelList

(* ioctl(memfd, DEVMEM_IOCTL_TTBR0_ALL, base): rcu_read_lock and the first *)
(* task of the list.                                                       *)
Call ==
  /\ upc = "call"
  /\ kpc = "none"
  /\ rcu' = rcu + 1
  /\ curr' = next[InitTask]
  /\ used' = 0
  /\ processes' = 0
  /\ steady' = mm
  /\ torn' = {}
  /\ kpc' = "check"
  /\ upc' = "wait"
  /\ UNCHANGED <<pgd, left, entries, size, slack, printed, result, faults>>
  /\ UNCHANGED kernelList

(* Faulty variants, named after the definition they would replace, stand   *)
(* before it: each is a slip that one of the properties below rejects.     *)
Retry_StopsEarly ==
  /\ upc = "returned"
  /\ result < 0
  /\ size' = 2 * size
  /\ upc' = IF 4 * size < LimitSize THEN "map" ELSE "done"
  /\ UNCHANGED <<slack, printed, result, faults, steady, left>>
  /\ UNCHANGED kernelCall
  /\ UNCHANGED kernelList

(* munmap(base, size); size <<= 1; the message; while(size < 0x80000L)     *)
Retry ==
  /\ upc = "returned"
  /\ result < 0
  /\ size' = 2 * size
  /\ upc' = IF 2 * size < LimitSize THEN "map" ELSE "done"
  /\ UNCHANGED <<slack, printed, result, faults, steady, left>>
  /\ UNCHANGED kernelCall
  /\ UNCHANGED kernelList

GotList ==
  /\ upc = "returned"
  /\ result >= 0
  /\ upc' = "print"
  /\ UNCHANGED <<size, slack, printed, result, faults, steady, left>>
  /\ UNCHANGED kernelCall
  /\ UNCHANGED kernelList

Position_OffByOne == Len(printed) + 2

(* The k-th record; armPtPrint is called for it unless its pgd is 0.       *)
Position == Len(printed) + 1

PrintRecord_NoAdvance == upc = "print" /\ Position <= result /\ UNCHANGED vars

PrintRecord ==
  /\ upc = "print"
  /\ Position <= result
  /\ printed' = Append(printed, entries[Position])
  /\ UNCHANGED <<upc, size, slack, result, faults, steady, left>>
  /\ UNCHANGED kernelCall
  /\ UNCHANGED kernelList

PrintEnd ==
  /\ upc = "print"
  /\ Position > result
  /\ upc' = "done"
  /\ UNCHANGED <<size, slack, printed, result, faults, steady, left>>
  /\ UNCHANGED kernelCall
  /\ UNCHANGED kernelList

-----------------------------------------------------------------------------
(* dump_all_ttbr0 of the patch                                             *)

(* The ioctl is over: the collector goes on with its result.               *)
ReturnToUser(r) ==
  /\ result' = r
  /\ kpc' = "none"
  /\ upc' = "returned"

CheckMm_KeepsPgd ==
  /\ kpc = "check"
  /\ curr # InitTask
  /\ kpc' = IF curr \in mm THEN "load" ELSE "store"
  /\ UNCHANGED <<curr, pgd, left, used, processes, rcu, entries, torn, result, faults,
                 steady>>
  /\ UNCHANGED collector
  /\ UNCHANGED kernelList

(* if(curr->mm)                                                            *)
CheckMm ==
  /\ kpc = "check"
  /\ curr # InitTask
  /\ IF curr \in mm
       THEN kpc' = "load" /\ UNCHANGED pgd
       ELSE kpc' = "store" /\ pgd' = None
  /\ UNCHANGED <<curr, left, used, processes, rcu, entries, torn, result, faults,
                 steady>>
  /\ UNCHANGED collector
  /\ UNCHANGED kernelList

(* What may stand in the memory of an mm that was left.                    *)
Reused == (Tasks \ (unborn \cup KThreads)) \cup {Garbage}

(* virt_to_phys(curr->mm->pgd): curr->mm is loaded again, or the compiler  *)
(* kept it.  When the task has left its mm since the test, the first is an *)
(* oops if it has no other; the second reads an mm_struct that still holds *)
(* its pgd, that of a task that has been given the memory, or no pgd.      *)
LoadPgd ==
  /\ kpc = "load"
  /\ \/ /\ kpc' = "store"
        /\ pgd' \in {curr} \cup (IF left THEN Reused ELSE {})
        /\ torn' = IF left THEN torn \cup {curr} ELSE torn
     \/ curr \notin mm /\ kpc' = "oops" /\ UNCHANGED <<pgd, torn>>
  /\ left' = FALSE
  /\ UNCHANGED <<curr, used, processes, rcu, entries, result, faults, steady>>
  /\ UNCHANGED collector
  /\ UNCHANGED kernelList

Fits(units) == used + units <= size + slack

(* put_user and copy_to_user both succeed.                                 *)
Store ==
  /\ kpc = "store"
  /\ Fits(EntryUnits)
  /\ entries' = Append(entries, [task |-> curr, pgd |-> pgd])
  /\ used' = used + EntryUnits
  /\ processes' = processes + 1
  /\ curr' = next[curr]
  /\ kpc' = "check"
  /\ UNCHANGED <<pgd, rcu, torn, result, faults, steady, left>>
  /\ UNCHANGED collector
  /\ UNCHANGED kernelList

(* One of the two faults: -EFAULT, without rcu_read_unlock.                *)
StoreFaults ==
  /\ kpc = "store"
  /\ ~ Fits(EntryUnits)
  /\ faults' = faults + 1
  /\ ReturnToUser(-1)
  /\ UNCHANGED <<curr, pgd, used, processes, rcu, entries, size, slack, printed,
                 torn, steady, left>>
  /\ UNCHANGED kernelList

ListEnd_Unlocks(n) ==
  /\ kpc = "check"
  /\ curr = InitTask
  /\ rcu' = rcu - n
  /\ ReturnToUser(processes)
  /\ UNCHANGED <<curr, pgd, used, processes, entries, size, slack, printed,
                 torn, faults, steady, left>>
  /\ UNCHANGED kernelList

ListEnd_NoUnlock == ListEnd_Unlocks(0)
ListEnd_UnlocksTwice == ListEnd_Unlocks(2)

ListEnd ==
  /\ kpc = "check"
  /\ curr = InitTask
  /\ rcu' = rcu - 1
  /\ ReturnToUser(processes)
  /\ UNCHANGED <<curr, pgd, used, processes, entries, size, slack, printed,
                 torn, faults, steady, left>>
  /\ UNCHANGED kernelList

-----------------------------------------------------------------------------
Stopped == upc \in {"done", "nomap"} \/ kpc = "oops"

Finished == Stopped /\ UNCHANGED vars

Environment == Fork \/ DropMm \/ Exec \/ Unlink

Collector ==
  \/ Map \/ MapFails \/ Call \/ Retry \/ GotList \/ PrintRecord \/ PrintEnd
  \/ CheckMm \/ LoadPgd \/ Store \/ StoreFaults \/ ListEnd

Next == Collector \/ Environment \/ Finished

Spec == Init /\ [][Next]_vars

(* The calling thread, in the kernel and out of it, keeps being scheduled. *)
FairSpec == Spec /\ WF_vars(Collector)

-----------------------------------------------------------------------------
(* Properties                                                              *)

Tables == Tasks \cup {None, Garbage}

RecordType == [task : Tasks, pgd : Tables]

(* Every variable has its type.                                            *)
TypeOK ==
  /\ next \in [Tasks \cup {InitTask} -> Tasks \cup {InitTask}]
  /\ linked \subseteq Tasks /\ mm \subseteq linked /\ unborn \subseteq Tasks
  /\ kpc \in {"none", "check", "load", "store", "oops"}
  /\ curr \in Tasks \cup {InitTask}
  /\ pgd \in Tables /\ left \in BOOLEAN /\ torn \subseteq Tasks
  /\ used \in Nat /\ processes \in Nat /\ rcu \in Nat
  /\ upc \in {"map", "call", "wait", "returned", "print", "done",
             "nomap"}
  /\ size \in Nat /\ slack \in Slacks \cup {0}
  /\ result \in Nat \cup {-1}
  /\ entries \in Seq(RecordType) /\ printed \in Seq(RecordType)
  /\ faults \in Nat /\ steady \subseteq Tasks

Complete == upc = "done" /\ result >= 0

TimesPrinted(t) == {k \in DOMAIN printed : printed[k].task = t}

(* When the collector ends with a list, every process that kept its tables *)
(* and stayed in the list during the call is printed once and with its own *)
(* table, whatever was forked, exited and unlinked around it.              *)
SteadyTasksPrinted ==
  Complete =>
    \A t \in steady :
      \E k \in DOMAIN printed :
        /\ TimesPrinted(t) = {k}
        /\ printed[k].pgd = t

(* No task is printed twice, and a record has another table than its      *)
(* task's, or nonsense, only if that task left its mm between the test and *)
(* the load: of tasks that do so before or after, or that never had one,   *)
(* the record is right, whoever reuses their memory.                       *)
NothingPrintedTwice ==
  \A j, k \in DOMAIN printed :
    /\ printed[j].pgd \in {None, printed[j].task} \/ printed[j].task \in torn \ KThreads
    /\ printed[j].task = printed[k].task => j = k

(* The collector gives up for lack of room only when the tasks that ever   *)
(* were would not have fit the largest size below the limit.               *)
FitsThenListed ==
  (upc = "done" /\ result < 0) =>
    Cardinality(Tasks \ unborn) * EntryUnits > LimitSize \div 2

(* Read-side sections stay open exactly when a call has faulted, one each: *)
(* after a call that returns a list the depth is what the faults left.     *)
RcuOpenOnlyByFaults ==
  (kpc = "none") => rcu = faults

(* The collector ends, whatever is forked and exits meanwhile.             *)
Termination == <>Stopped
=============================================================================
