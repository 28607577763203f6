--------------------------- MODULE EasyDumpProofs ---------------------------
(***************************************************************************)
(* Theorems about EasyDump for every memory, every requests and whatever   *)
(* happens to the helpers and their writes: where the units of a file and  *)
(* of an answer are from, and that an answer is complete, and current if   *)
(* its helper reached the end and wrote all it read.                       *)
(***************************************************************************)
EXTENDS EasyDump, FiniteSetTheorems, WellFoundedInduction, TLAPS

-----------------------------------------------------------------------------
(* Remainders                                                              *)

LEMMA DivisionInt ==
  ASSUME NEW a \in Int, NEW m \in Nat \ {0}
  PROVE  /\ a \div m \in Int /\ a % m \in 0 .. m - 1
         /\ a = m * (a \div m) + (a % m)
OBVIOUS

LEMMA RemainderIsUnique ==
  ASSUME NEW a \in Int, NEW m \in Nat \ {0}, NEW q \in Int,
         NEW r \in 0 .. m - 1, a = m * q + r
  PROVE  a % m = r
<1> DEFINE p == a \div m
           s == a % m
<1>1. p \in Int /\ s \in 0 .. m - 1 /\ a = m * p + s
  BY DivisionInt
<1> HIDE DEF p, s
<1>2. ASSUME NEW x \in Int, NEW y \in Int, x < y PROVE m * x + m <= m * y
  <2>1. y - x \in Nat \ {0} /\ m * (y - x) >= m
    BY <1>2
  <2> QED BY <1>2, <2>1
<1>3. ~ (p < q)
  BY <1>1, <1>2
<1>4. ~ (q < p)
  BY <1>1, <1>2
<1>5. p = q
  BY <1>1, <1>3, <1>4
<1> QED BY <1>1, <1>5 DEF s

(* Adding to a number adds to its remainder, as long as that stays below.  *)
LEMMA RemainderOfSum ==
  ASSUME NEW a \in Int, NEW m \in Nat \ {0}, NEW k \in Nat, (a % m) + k < m
  PROVE  (a + k) % m = (a % m) + k
<1> DEFINE q == a \div m
           r == a % m
<1>1. q \in Int /\ r \in 0 .. m - 1 /\ a = m * q + r
  BY DivisionInt
<1> HIDE DEF q
<1>2. r + k \in 0 .. m - 1 /\ a + k = m * q + (r + k)
  BY <1>1
<1> QED BY <1>2, RemainderIsUnique

LEMMA RemainderOfSmall ==
  ASSUME NEW m \in Nat \ {0}, NEW a \in 0 .. m - 1
  PROVE  a % m = a
<1>1. 0 \in Int /\ a = m * 0 + a
  OBVIOUS
<1> QED BY <1>1, RemainderIsUnique

LEMMA RemainderOfRemainder ==
  ASSUME NEW a \in Int, NEW d \in Int, NEW m \in Nat \ {0}
  PROVE  (a + (d % m)) % m = (a + d) % m
<1> DEFINE q == d \div m
           r == d % m
           t == (a + r) \div m
           s == (a + r) % m
<1>1. q \in Int /\ r \in 0 .. m - 1 /\ d = m * q + r
  BY DivisionInt
<1>2. t \in Int /\ s \in 0 .. m - 1 /\ a + r = m * t + s
  BY <1>1, DivisionInt
<1> HIDE DEF q, r, t, s
<1>3. a + d = m * (t + q) + s
  BY <1>1, <1>2
<1>4. t + q \in Int /\ a + d \in Int
  BY <1>1, <1>2
<1>5. (a + d) % m = s
  BY <1>2, <1>3, <1>4, RemainderIsUnique
<1> QED BY <1>5 DEF s, r

-----------------------------------------------------------------------------
(* The invariant                                                           *)

(* A copy of what its address has held, and one of the current call.       *)
Taken(c) == c.at \in Memory /\ c.what \in held[c.at]
Fresh(c) == c.at \in Memory /\ c.what \in during[c.at]

DataTypes ==
  /\ mem \in [Memory -> Versions]
  /\ held \in [Memory -> SUBSET Versions]
  /\ during \in [Memory -> SUBSET Versions]
  /\ \A u \in Memory : mem[u] \in during[u] /\ during[u] \subseteq held[u]
  /\ files \in [Names -> Seq(Copy)]
  /\ created \subseteq Names /\ \A n \in Names \ created : files[n] = <<>>
  /\ missing \in [Names -> Nat]
  /\ req \in Requests
  /\ shift \in Addresses
  /\ calls \in Nat
  /\ dest \in Seq(Copy)
  /\ hbuf \in Seq(Copy)
  /\ hfile \in Nat /\ haddr \in Nat
  /\ ret \in {0, 1} /\ broken \in BOOLEAN

(* Which of the two programs runs, and that the linear map is known.       *)
Control ==
  /\ pc \in {"start", "region", "signature", "pmap", "ended",
             "idle", "wait", "open", "read"}
  /\ hpc \in {"none", "half1", "half2", "save"}
  /\ hpc # "none" <=> pc = "wait"
  /\ pc \in {"idle", "wait", "open", "read"} =>
       shift = (Table.virt - Table.phys) % AddrSpace
  /\ pc \in {"start", "region", "signature", "pmap"} => calls = 0
  /\ hpc = "none" => hfile = 0

(* A file holds consecutive pages from the address in its name on, but for *)
(* what has not been written.                                              *)
IsRange(f, n) ==
  /\ missing[n] = 0 => Len(f) % Page = 0
  /\ \A k \in 1 .. Len(f) :
       f[k].at \in n + k - 1 .. n + k - 1 + missing[n] /\ Taken(f[k])

(* What a running helper has saved is the beginning of its file; as long   *)
(* as its writes took all, it is all the helper has passed.                *)
HelperInv ==
  hpc # "none" =>
    /\ Begin + hfile <= haddr /\ haddr <= Begin + hfile + missing[Begin]
    /\ missing[Begin] = 0 => hfile % Page = 0
    /\ hfile <= Len(files[Begin])
    /\ ~ broken =>
         /\ haddr = Begin + hfile
         /\ \A k \in 1 .. hfile : Fresh(files[Begin][k])
    /\ hpc = "half2" =>
         Len(hbuf) = 1 /\ hbuf[1].at = haddr /\ Fresh(hbuf[1])
    /\ hpc = "save" =>
         /\ Len(hbuf) = 2
         /\ hbuf[1].at = haddr /\ Fresh(hbuf[1])
         /\ hbuf[2].at = haddr + 1 /\ Fresh(hbuf[2])

(* The range ends before the address space does.                           *)
Within == Begin + req.size < AddrSpace

(* A helper that reached the end leaves the whole range, fresh.            *)
LeftInv ==
  (pc \in {"open", "read"} /\ ~ broken /\ Within) =>
    /\ req.size <= Len(files[Begin])
    /\ \A k \in 1 .. req.size : Fresh(files[Begin][k])

AnswerInv ==
  (pc = "idle" /\ calls > 0) =>
    /\ ret = 0 =>
         /\ Len(dest) = req.size
         /\ \A k \in 1 .. req.size :
              /\ dest[k].at \in Begin + k - 1 .. Begin + k - 1 + missing[Begin]
              /\ Taken(dest[k])
    /\ (~ broken /\ Within) =>
         /\ ret = 0
         /\ \A k \in 1 .. req.size : Fresh(dest[k])

DumpInv ==
  /\ DataTypes
  /\ Control
  /\ \A n \in Names : IsRange(files[n], n)
  /\ HelperInv
  /\ LeftInv
  /\ AnswerInv

LEMMA AddrSpacePositive ==
  /\ AddrSpace \in Nat \ {0}
  /\ Table.virt \in Int /\ Table.phys \in Int
  /\ \A r \in Requests : r.start \in Int /\ r.size \in Nat \ {0}
BY RegionAssumption, EasyDumpAssumption DEF Addresses

(* The address the helper is given is that of the linear map.              *)
LEMMA BeginIsLinear ==
  ASSUME req \in Requests, shift = (Table.virt - Table.phys) % AddrSpace
  PROVE  /\ Begin = Linear(req.start) /\ Begin \in Names /\ Begin \in Addresses
         /\ Within => End = Begin + req.size
         /\ \A k \in Nat : Begin + k < AddrSpace => Linear(req.start + k) = Begin + k
<1> DEFINE d == Table.virt - Table.phys
           a == req.start + d
<1>1. d \in Int /\ a \in Int /\ req.start \in Int /\ req.size \in Nat
  BY AddrSpacePositive
<1>2. Begin = (req.start + d) % AddrSpace
  BY <1>1, AddrSpacePositive, RemainderOfRemainder DEF Begin
<1>3. Begin = Linear(req.start)
  BY <1>1, <1>2, AddrSpacePositive DEF Linear
<1>4. Begin \in Names
  BY <1>3 DEF Names
<1>5. Begin = a % AddrSpace /\ Begin \in 0 .. AddrSpace - 1
  BY <1>1, <1>2, AddrSpacePositive, DivisionInt
<1> HIDE DEF d, a
<1>6. ASSUME NEW k \in Nat, Begin + k < AddrSpace
      PROVE  (a + k) % AddrSpace = Begin + k
  <2>1. (a % AddrSpace) + k < AddrSpace
    BY <1>5, <1>6
  <2>2. AddrSpace \in Nat \ {0} /\ a \in Int
    BY <1>1, AddrSpacePositive
  <2>3. (a + k) % AddrSpace = (a % AddrSpace) + k
    BY <2>1, <2>2, RemainderOfSum
  <2> QED BY <1>5, <2>3
<1>7. ASSUME Within PROVE End = Begin + req.size
  <2>1. req.start + req.size \in Int
    BY <1>1
  <2>2. ((req.start + req.size) + (d % AddrSpace)) % AddrSpace
          = ((req.start + req.size) + d) % AddrSpace
    BY <1>1, <2>1, AddrSpacePositive, RemainderOfRemainder
  <2>3. /\ req.start + shift + req.size = (req.start + req.size) + (d % AddrSpace)
        /\ (req.start + req.size) + d = a + req.size
    BY <1>1, AddrSpacePositive DEF d, a
  <2>4. (a + req.size) % AddrSpace = Begin + req.size
    BY <1>1, <1>6, <1>7 DEF Within
  <2> QED BY <2>2, <2>3, <2>4 DEF End
<1>8. ASSUME NEW k \in Nat, Begin + k < AddrSpace
      PROVE  Linear(req.start + k) = Begin + k
  <2>1. req.start + k + Table.virt - Table.phys = a + k
    BY <1>1, AddrSpacePositive DEF a, d
  <2>2. (a + k) % AddrSpace = Begin + k
    BY <1>6, <1>8
  <2> QED BY <2>1, <2>2 DEF Linear
<1> QED BY <1>3, <1>4, <1>5, <1>7, <1>8 DEF Addresses

(* The same for the arguments of a call that is about to begin.            *)
LEMMA LinearOfRequest ==
  ASSUME NEW r \in Requests
  PROVE  LET b == (r.start + ((Table.virt - Table.phys) % AddrSpace)) % AddrSpace
         IN b \in Names /\ b \in Nat
<1> DEFINE d == Table.virt - Table.phys
<1>1. d \in Int /\ r.start \in Int /\ r.start + d \in Int
  BY AddrSpacePositive
<1>2. (r.start + (d % AddrSpace)) % AddrSpace = (r.start + d) % AddrSpace
  BY <1>1, AddrSpacePositive, RemainderOfRemainder
<1>3. (r.start + d) % AddrSpace = Linear(r.start)
  BY <1>1, AddrSpacePositive DEF Linear
<1>4. (r.start + d) % AddrSpace \in 0 .. AddrSpace - 1
  BY <1>1, AddrSpacePositive, DivisionInt
<1>5. Linear(r.start) \in Names
  BY DEF Names
<1> QED BY <1>2, <1>3, <1>4, <1>5, AddrSpacePositive

-----------------------------------------------------------------------------
(* Initial states, and steps that leave calls and files alone              *)

LEMMA DumpInit == Init => DumpInv
<1> SUFFICES ASSUME Init PROVE DumpInv
  OBVIOUS
<1>1. (CHOOSE v \in Versions : TRUE) \in Versions
      /\ (CHOOSE r \in Requests : TRUE) \in Requests
  BY EasyDumpAssumption
<1>2. \A u \in Memory : mem[u] \in Versions /\ held[u] = {mem[u]}
  BY <1>1 DEF Init
<1>3. files = [n \in Names |-> <<>>]
  BY DEF Init
<1>4. DataTypes
  <2>1. mem \in [Memory -> Versions]
    BY <1>1 DEF Init
  <2>2. held \in [Memory -> SUBSET Versions] /\ during = held
    BY <1>2 DEF Init
  <2>3. /\ files \in [Names -> Seq(Copy)] /\ missing \in [Names -> Nat]
        /\ created = {} /\ \A n \in Names : files[n] = <<>>
    BY <1>3 DEF Init
  <2>4. req \in Requests
    BY <1>1 DEF Init
  <2>5. shift \in Addresses
    BY AddrSpacePositive DEF Init, Addresses
  <2>6. calls \in Nat /\ hfile \in Nat /\ haddr \in Nat /\ ret \in {0, 1}
    BY DEF Init
  <2>7. dest \in Seq(Copy) /\ hbuf \in Seq(Copy)
    BY DEF Init
  <2>8. broken \in BOOLEAN
    BY DEF Init
  <2> QED BY <1>2, <2>1, <2>2, <2>3, <2>4, <2>5, <2>6, <2>7, <2>8 DEF DataTypes
<1>5. Control
  BY DEF Init, Control
<1>6. \A n \in Names : IsRange(files[n], n)
  BY <1>3 DEF IsRange, Page
<1> QED BY <1>4, <1>5, <1>6 DEF Init, DumpInv, HelperInv, LeftInv, AnswerInv

LEMMA NothingChanges ==
  ASSUME DumpInv, UNCHANGED <<dumper, helper, memory, disk, broken>>
  PROVE  DumpInv'
BY SMTT(30) DEF DumpInv, DataTypes, Control, IsRange, Taken, Fresh, HelperInv, LeftInv,
       AnswerInv, Within, Begin, dumper, helper, memory, disk

Prepares == {"start", "region", "signature", "pmap"}

(* main goes on, ends, or begins to answer with the linear map it found.   *)
LEMMA MainGoesOn ==
  ASSUME DumpInv, pc \in Prepares, pc' \in Prepares \cup {"ended", "idle"},
         UNCHANGED <<calls, req, fds, dest, ret, disk, broken, helper, memory>>,
         pc' = "idle" => shift' = (Table.virt - Table.phys) % AddrSpace,
         shift' \in Addresses
  PROVE  DumpInv'
<1>1. hpc = "none" /\ calls = 0 /\ hfile = 0
  BY DEF DumpInv, Control, Prepares
<1>2. DataTypes'
  BY DEF DumpInv, DataTypes, helper, memory, disk
<1>3. Control'
  BY <1>1 DEF DumpInv, Control, Prepares, helper
<1>4. (\A n \in Names : IsRange(files[n], n))'
  BY DEF DumpInv, IsRange, Taken, memory, disk
<1>5. HelperInv' /\ LeftInv' /\ AnswerInv'
  BY <1>1 DEF HelperInv, LeftInv, AnswerInv, Prepares, helper
<1> QED BY <1>2, <1>3, <1>4, <1>5 DEF DumpInv

(* The dumper in physread after its helper is gone.                        *)
LEMMA AnsweringStep ==
  ASSUME DumpInv, Answering
  PROVE  DumpInv'
<1>1. /\ DataTypes /\ Control /\ LeftInv
      /\ \A n \in Names : IsRange(files[n], n)
  BY DEF DumpInv
<1>2. pc \in {"open", "read"} /\ hpc = "none"
  BY <1>1 DEF Answering, OpenFails, Open, Read, Control
<1>3. /\ UNCHANGED <<files, created, missing, shift, calls, req, broken>>
      /\ UNCHANGED <<hpc, haddr, hbuf, hfile, mem, held, during>>
  BY DEF Answering, OpenFails, Open, Read, helper, kernel, memory, disk
<1> DEFINE file == files[Begin]
<1>4. /\ Begin \in Names /\ Begin \in Nat /\ Begin' = Begin
      /\ file \in Seq(Copy) /\ Len(file) \in Nat /\ req.size \in Nat \ {0}
      /\ Within' = Within
  <2>1. Begin \in Names /\ Begin \in Addresses
    BY <1>1, <1>2, BeginIsLinear DEF Control, DataTypes
  <2> QED BY <1>1, <1>3, <2>1, AddrSpacePositive DEF DataTypes, Begin, Within, Addresses
<1>5. /\ pc' \in {"idle", "read"} /\ dest' \in Seq(Copy) /\ ret' \in {0, 1}
  <2>1. CASE OpenFails \/ Open
    BY <1>1, <2>1 DEF OpenFails, Open, Return, DataTypes
  <2>2. CASE Read
    <3> DEFINE got == IF Len(file) < req.size THEN Len(file) ELSE req.size
    <3>1. dest' = SubSeq(file, 1, got)
      BY <2>2 DEF Read
    <3> HIDE DEF file
    <3>2. got \in 0 .. Len(file)
      BY <1>4
    <3> HIDE DEF got
    <3>3. SubSeq(file, 1, got) \in Seq(Copy)
      BY <1>4, <3>2
    <3> QED BY <2>2, <3>1, <3>3 DEF Read, Return
  <2> QED BY <2>1, <2>2 DEF Answering
<1>6. DataTypes'
  BY <1>1, <1>3, <1>5 DEF DataTypes
<1>7. Control'
  BY <1>1, <1>2, <1>3, <1>5 DEF Control
<1>8. (\A n \in Names : IsRange(files[n], n))'
  BY <1>1, <1>3 DEF IsRange, Taken
<1>9. HelperInv'
  BY <1>2, <1>3 DEF HelperInv
<1>10. LeftInv'
  BY <1>1, <1>2, <1>3, <1>4 DEF LeftInv, Fresh
<1>11. AnswerInv'
  <2>1. CASE OpenFails
    <3>1. ret' = 1 /\ file = <<>>
      BY <1>1, <1>4, <2>1 DEF OpenFails, Return, DataTypes
    <3>2. pc = "open"
      BY <2>1 DEF OpenFails
    <3>3. broken \/ ~ Within
      BY <1>1, <1>4, <3>1, <3>2 DEF LeftInv, DataTypes
    <3> QED BY <1>3, <1>4, <3>1, <3>3 DEF AnswerInv
  <2>2. CASE Open
    BY <2>2 DEF Open, AnswerInv
  <2>3. CASE Read
    <3> DEFINE got == IF Len(file) < req.size THEN Len(file) ELSE req.size
    <3>1. /\ dest' = SubSeq(file, 1, got)
          /\ ret' = IF got = req.size THEN 0 ELSE 1
          /\ pc = "read"
      BY <2>3 DEF Read, Return
    <3>2. got \in 0 .. Len(file)
      BY <1>4
    <3>3. Len(dest') = got /\ \A k \in 1 .. got : dest'[k] = file[k]
      BY <1>4, <3>1, <3>2
    <3>4. \A k \in 1 .. Len(file) :
            /\ file[k].at \in Begin + k - 1 .. Begin + k - 1 + missing[Begin]
            /\ Taken(file[k])
      BY <1>1, <1>4 DEF IsRange
    <3>5. ASSUME ret' = 0
          PROVE  /\ Len(dest') = req.size
                 /\ \A k \in 1 .. req.size :
                      /\ dest'[k].at \in Begin + k - 1 .. Begin + k - 1 + missing[Begin]
                      /\ Taken(dest'[k])
      <4>1. got = req.size
        BY <3>1, <3>5
      <4>2. \A k \in 1 .. req.size : k \in 1 .. Len(file)
        BY <1>4, <3>2, <4>1
      <4> QED BY <3>3, <3>4, <4>1, <4>2
    <3>6. ASSUME ~ broken, Within
          PROVE  ret' = 0 /\ \A k \in 1 .. req.size : Fresh(dest'[k])
      <4>1. /\ req.size <= Len(file)
            /\ \A k \in 1 .. req.size : Fresh(file[k])
        BY <1>1, <1>2, <3>6 DEF LeftInv
      <4>2. got = req.size
        BY <1>4, <4>1
      <4> QED BY <3>1, <3>3, <4>1, <4>2
    <3> QED BY <1>3, <1>4, <3>5, <3>6 DEF AnswerInv, Fresh, Taken
  <2> QED BY <2>1, <2>2, <2>3 DEF Answering
<1> QED BY <1>6, <1>7, <1>8, <1>9, <1>10, <1>11 DEF DumpInv

-----------------------------------------------------------------------------
(* Calls and the kernel                                                    *)

LEMMA CallBegins ==
  ASSUME DumpInv, StartHelper \/ HelperNotStarted
  PROVE  DumpInv'
<1>1. /\ DataTypes /\ Control
      /\ \A n \in Names : IsRange(files[n], n)
  BY DEF DumpInv
<1>2. PICK starts \in BOOLEAN :
        /\ Call(starts)
        /\ starts => pc' = "wait" /\ hpc' = "half1" /\ haddr' = Begin'
        /\ ~ starts => pc' = "open" /\ UNCHANGED <<hpc, haddr>>
  <2>1. CASE StartHelper
    BY <2>1 DEF StartHelper
  <2>2. CASE HelperNotStarted
    BY <2>2 DEF HelperNotStarted
  <2> QED BY <2>1, <2>2
<1>3. /\ pc = "idle" /\ calls' = calls + 1 /\ req' \in Requests /\ dest' = <<>>
      /\ during' = [u \in Memory |-> {mem[u]}] /\ broken' = ~ starts
      /\ UNCHANGED <<mem, files, created, missing, shift, ret, held, hfile, hbuf>>
  BY <1>2 DEF Call, disk
<1>4. /\ hpc = "none" /\ hfile = 0
      /\ shift = (Table.virt - Table.phys) % AddrSpace
  BY <1>1, <1>3 DEF Control
<1>5. Begin' \in Names /\ Begin' \in Nat
  <2>1. Begin' = (req'.start + ((Table.virt - Table.phys) % AddrSpace)) % AddrSpace
    BY <1>3, <1>4 DEF Begin
  <2> QED BY <1>3, <2>1, LinearOfRequest
<1>6. DataTypes'
  <2>1. dest' \in Seq(Copy)
    BY <1>3
  <2>2. /\ during' \in [Memory -> SUBSET Versions]
        /\ \A u \in Memory : mem'[u] \in during'[u] /\ during'[u] \subseteq held'[u]
    BY <1>1, <1>3 DEF DataTypes
  <2>3. haddr' \in Nat /\ broken' \in BOOLEAN /\ calls' \in Nat
    BY <1>1, <1>2, <1>3, <1>5 DEF DataTypes
  <2> QED BY <1>1, <1>3, <2>1, <2>2, <2>3 DEF DataTypes
<1>7. Control'
  BY <1>1, <1>2, <1>3, <1>4 DEF Control
<1>8. (\A n \in Names : IsRange(files[n], n))'
  BY <1>1, <1>3 DEF IsRange, Taken
<1>9. HelperInv'
  <2>1. CASE starts
    <3>1. files'[Begin'] \in Seq(Copy)
      BY <1>5, <1>6 DEF DataTypes
    <3> DEFINE b == Begin'
    <3>2. haddr' = b /\ b \in Nat /\ hfile' = 0 /\ hpc' = "half1" /\ ~ broken'
      BY <1>2, <1>3, <1>4, <1>5, <2>1
    <3>3. Len(files'[b]) \in Nat /\ missing'[b] \in Nat
      BY <1>5, <1>6, <3>1 DEF DataTypes
    <3> HIDE DEF b
    <3>4. /\ b + hfile' <= haddr' /\ haddr' <= b + hfile' + missing'[b]
          /\ haddr' = b + hfile' /\ hfile' % Page = 0 /\ hfile' <= Len(files'[b])
      BY <3>2, <3>3 DEF Page
    <3>5. \A k \in 1 .. hfile' : FALSE
      BY <3>2
    <3> QED BY <3>2, <3>4, <3>5 DEF HelperInv, b
  <2>2. CASE ~ starts
    BY <1>2, <1>4, <2>2 DEF HelperInv
  <2> QED BY <2>1, <2>2
<1>10. LeftInv' /\ AnswerInv'
  BY <1>2, <1>3 DEF LeftInv, AnswerInv
<1> QED BY <1>6, <1>7, <1>8, <1>9, <1>10 DEF DumpInv

(* What was held before is held after; nothing else changes.               *)
LEMMA KernelStep ==
  ASSUME DumpInv, KernelWrites
  PROVE  DumpInv'
<1>1. /\ DataTypes /\ Control
      /\ \A n \in Names : IsRange(files[n], n)
  BY DEF DumpInv
<1>2. PICK u \in Memory, v \in Versions :
        /\ mem' = [mem EXCEPT ![u] = v]
        /\ held' = [held EXCEPT ![u] = @ \cup {v}]
        /\ during' = [during EXCEPT ![u] = @ \cup {v}]
  BY DEF KernelWrites
<1>3. /\ UNCHANGED <<shift, calls, req, pc, dest, ret, hpc, haddr, hbuf, hfile>>
      /\ UNCHANGED <<files, created, missing, broken>>
      /\ Begin' = Begin /\ Within' = Within
  BY DEF KernelWrites, dumper, helper, disk, Begin, Within
<1>4. /\ mem' \in [Memory -> Versions]
      /\ held' \in [Memory -> SUBSET Versions]
      /\ during' \in [Memory -> SUBSET Versions]
  BY <1>1, <1>2 DEF DataTypes
<1>5. \A w \in Memory :
        /\ mem'[w] = IF w = u THEN v ELSE mem[w]
        /\ held'[w] = IF w = u THEN held[w] \cup {v} ELSE held[w]
        /\ during'[w] = IF w = u THEN during[w] \cup {v} ELSE during[w]
  BY <1>1, <1>2 DEF DataTypes
<1>6. DataTypes'
  BY <1>1, <1>3, <1>4, <1>5 DEF DataTypes
<1>7. /\ \A c : c.at \in Memory /\ c.what \in held[c.at] => c.what \in held'[c.at]
      /\ \A c : c.at \in Memory /\ c.what \in during[c.at] => c.what \in during'[c.at]
  BY <1>5
<1>8. Control'
  BY <1>1, <1>3 DEF Control
<1>9. (\A n \in Names : IsRange(files[n], n))'
  BY <1>1, <1>3, <1>7 DEF IsRange, Taken
<1>10. HelperInv'
  BY <1>3, <1>7 DEF DumpInv, HelperInv, Fresh
<1>11. LeftInv'
  BY <1>3, <1>7 DEF DumpInv, LeftInv, Fresh
<1>12. AnswerInv'
  BY <1>3, <1>7 DEF DumpInv, AnswerInv, Fresh, Taken
<1> QED BY <1>6, <1>8, <1>9, <1>10, <1>11, <1>12 DEF DumpInv

-----------------------------------------------------------------------------
(* The helper                                                              *)

(* Where the helper is, and that its file is the one with its address.     *)
LEMMA HelperRuns ==
  ASSUME DumpInv, hpc # "none"
  PROVE  /\ pc = "wait"
         /\ Begin \in Names /\ Begin \in Nat
         /\ Within => End = Begin + req.size
         /\ req.size \in Nat \ {0}
         /\ hfile \in Nat /\ haddr \in Nat /\ missing[Begin] \in Nat
         /\ files[Begin] \in Seq(Copy)
<1>1. pc = "wait" /\ shift = (Table.virt - Table.phys) % AddrSpace
  BY DEF DumpInv, Control
<1>2. req \in Requests
  BY DEF DumpInv, DataTypes
<1>3. /\ Begin \in Names /\ Begin \in Addresses
      /\ Within => End = Begin + req.size
  BY <1>1, <1>2, BeginIsLinear
<1> QED BY <1>1, <1>2, <1>3, AddrSpacePositive
        DEF DumpInv, DataTypes, Addresses

LEMMA Appending ==
  ASSUME NEW S, NEW s \in Seq(S), NEW e \in S
  PROVE  /\ Append(s, e) \in Seq(S) /\ Len(Append(s, e)) = Len(s) + 1
         /\ \A i \in 1 .. Len(s) : Append(s, e)[i] = s[i]
         /\ Append(s, e)[Len(s) + 1] = e
OBVIOUS

LEMMA AppendingSecond ==
  ASSUME NEW S, NEW s \in Seq(S), Len(s) = 1, NEW e \in S
  PROVE  /\ Append(s, e) \in Seq(S) /\ Len(Append(s, e)) = 2
         /\ Append(s, e)[1] = s[1] /\ Append(s, e)[2] = e
<1>1. /\ Append(s, e) \in Seq(S) /\ Len(Append(s, e)) = Len(s) + 1
      /\ \A i \in 1 .. Len(s) : Append(s, e)[i] = s[i]
      /\ Append(s, e)[Len(s) + 1] = e
  BY Appending
<1> QED BY <1>1

LEMMA HalfReads ==
  ASSUME DumpInv, ReadFirstHalf \/ ReadSecondHalf
  PROVE  DumpInv'
<1>1. DataTypes /\ Control /\ HelperInv
  BY DEF DumpInv
<1>2. /\ UNCHANGED <<files, created, missing, haddr, hfile, broken>>
      /\ UNCHANGED <<shift, calls, req, pc, dest, ret, mem, held, during>>
      /\ Begin' = Begin
  BY DEF ReadFirstHalf, ReadSecondHalf, dumper, kernel, memory, disk, Begin
<1>3. hpc \in {"half1", "half2"} /\ pc = "wait" /\ haddr \in Nat
  BY HelperRuns DEF ReadFirstHalf, ReadSecondHalf
<1> DEFINE c(a) == [at |-> a, what |-> mem[a]]
<1>4. \A a \in Memory :
        /\ c(a).at = a /\ Fresh(c(a))
        /\ a \in Nat => c(a) \in Copy
  BY <1>1 DEF DataTypes, Fresh, Copy
<1>5. CASE ReadFirstHalf
  <2>1. /\ haddr \in Memory /\ hbuf' = <<c(haddr)>> /\ hpc' = "half2"
    BY <1>5 DEF ReadFirstHalf, Readable
  <2> HIDE DEF c
  <2>2. /\ hbuf' \in Seq(Copy) /\ Len(hbuf') = 1
        /\ hbuf'[1].at = haddr /\ Fresh(hbuf'[1])
    BY <1>3, <1>4, <2>1
  <2>3. DataTypes' /\ Control'
    BY <1>1, <1>2, <1>3, <2>1, <2>2 DEF DataTypes, Control
  <2>4. HelperInv'
    BY <1>1, <1>2, <1>3, <2>1, <2>2 DEF HelperInv, Fresh
  <2> QED BY <1>2, <1>3, <2>3, <2>4
          DEF DumpInv, IsRange, Taken, LeftInv, AnswerInv
<1>6. CASE ReadSecondHalf
  <2>1. /\ haddr + 1 \in Memory /\ hbuf' = Append(hbuf, c(haddr + 1))
        /\ hpc = "half2" /\ hpc' = "save"
    BY <1>6 DEF ReadSecondHalf, Readable
  <2> HIDE DEF c
  <2>2. hbuf \in Seq(Copy) /\ Len(hbuf) = 1 /\ hbuf[1].at = haddr /\ Fresh(hbuf[1])
    BY <1>1, <2>1 DEF HelperInv, DataTypes
  <2>3. c(haddr + 1) \in Copy /\ c(haddr + 1).at = haddr + 1 /\ Fresh(c(haddr + 1))
    BY <1>3, <1>4, <2>1
  <2>4. /\ hbuf' \in Seq(Copy) /\ Len(hbuf') = 2
        /\ hbuf'[1] = hbuf[1] /\ hbuf'[2] = c(haddr + 1)
    <3> DEFINE d == c(haddr + 1)
    <3>1. d \in Copy /\ hbuf' = Append(hbuf, d) /\ hbuf \in Seq(Copy) /\ Len(hbuf) = 1
      BY <2>1, <2>2, <2>3
    <3> HIDE DEF d
    <3> QED BY <3>1, AppendingSecond DEF d
  <2>5. DataTypes' /\ Control'
    BY <1>1, <1>2, <1>3, <2>1, <2>4 DEF DataTypes, Control
  <2>6. HelperInv'
    BY <1>1, <1>2, <1>3, <2>1, <2>2, <2>3, <2>4 DEF HelperInv, Fresh
  <2> QED BY <1>2, <1>3, <2>5, <2>6
          DEF DumpInv, IsRange, Taken, LeftInv, AnswerInv
<1> QED BY <1>5, <1>6

(* However the helper ends, its file is a range; and if it has finished,   *)
(* the range is the whole of what was asked for.                           *)
LEMMA HelperIsGone ==
  ASSUME DumpInv, hpc # "none", NEW how, HelperEnds(how), UNCHANGED disk,
         how = "finished" => haddr >= End
  PROVE  DumpInv'
<1>1. DataTypes /\ Control /\ HelperInv
  BY DEF DumpInv
<1>2. /\ pc = "wait" /\ Begin \in Nat /\ req.size \in Nat \ {0}
      /\ Within => End = Begin + req.size
      /\ hfile \in Nat /\ Begin \in Names /\ files[Begin] \in Seq(Copy)
  BY HelperRuns
<1>3. /\ hpc' = "none" /\ hbuf' = <<>> /\ hfile' = 0 /\ pc' = "open"
      /\ broken' = (broken \/ how # "finished")
      /\ UNCHANGED <<files, created, missing>>
      /\ UNCHANGED <<haddr, shift, calls, req, dest, ret, mem, held, during>>
      /\ Begin' = Begin /\ Within' = Within
  BY DEF HelperEnds, kernel, memory, disk, Begin, Within
<1>4. DataTypes' /\ Control'
  BY <1>1, <1>2, <1>3 DEF DataTypes, Control
<1>5. (\A n \in Names : IsRange(files[n], n))'
  BY <1>3 DEF DumpInv, IsRange, Taken
<1>6. LeftInv'
  <2> SUFFICES ASSUME how = "finished", ~ broken, Within
               PROVE  /\ req.size <= Len(files[Begin])
                      /\ \A k \in 1 .. req.size : Fresh(files[Begin][k])
    BY <1>3 DEF LeftInv, Fresh
  <2>2. /\ haddr = Begin + hfile /\ hfile <= Len(files[Begin])
        /\ \A k \in 1 .. hfile : Fresh(files[Begin][k])
    BY <1>1 DEF HelperInv
  <2>1. req.size <= hfile
    BY <1>2, <2>2
  <2> QED BY <1>2, <2>1, <2>2
<1>7. HelperInv' /\ AnswerInv'
  BY <1>3 DEF HelperInv, AnswerInv
<1> QED BY <1>4, <1>5, <1>6, <1>7 DEF DumpInv

LEMMA ElementsOf ==
  ASSUME NEW S, NEW s \in Seq(S)
  PROVE  Len(s) \in Nat /\ \A k \in 1 .. Len(s) : s[k] \in S
OBVIOUS

LEMMA Overwriting ==
  ASSUME NEW f \in Seq(Copy), NEW p \in 0 .. Len(f), NEW c \in Seq(Copy)
  PROVE  LET g == Overwritten(f, p, c)
         IN /\ g \in Seq(Copy)
            /\ Len(g) = IF p + Len(c) > Len(f) THEN p + Len(c) ELSE Len(f)
            /\ \A k \in 1 .. Len(g) :
                 IF k \in p + 1 .. p + Len(c) THEN g[k] = c[k - p]
                                              ELSE k \in 1 .. Len(f) /\ g[k] = f[k]
<1> DEFINE n == IF p + Len(c) > Len(f) THEN p + Len(c) ELSE Len(f)
           g == [k \in 1 .. n |-> IF k \in p + 1 .. p + Len(c) THEN c[k - p] ELSE f[k]]
<1>1. Len(c) \in Nat /\ Len(f) \in Nat /\ p \in Nat /\ p <= Len(f)
  BY ElementsOf
<1>2. n \in Nat /\ n >= p + Len(c) /\ n >= Len(f) /\ (n = p + Len(c) \/ n = Len(f))
  BY <1>1
<1>3. /\ \A k \in 1 .. Len(c) : c[k] \in Copy
      /\ \A k \in 1 .. Len(f) : f[k] \in Copy
  BY ElementsOf
<1>4. \A k \in 1 .. n : k \in p + 1 .. p + Len(c) => k - p \in 1 .. Len(c)
  BY <1>1, <1>2
<1>5. \A k \in 1 .. n : k \notin p + 1 .. p + Len(c) => k \in 1 .. Len(f)
  BY <1>1, <1>2
<1>6. g = Overwritten(f, p, c)
  BY DEF Overwritten
<1> HIDE DEF n
<1>7. \A k \in 1 .. n :
        g[k] = IF k \in p + 1 .. p + Len(c) THEN c[k - p] ELSE f[k]
  OBVIOUS
<1>8. g \in [1 .. n -> Copy]
  BY <1>3, <1>4, <1>5, <1>7
<1> HIDE DEF g
<1>9. g \in Seq(Copy) /\ Len(g) = n
  BY <1>2, <1>8
<1> QED BY <1>5, <1>6, <1>7, <1>9 DEF n

LEMMA EvenSum ==
  ASSUME NEW a \in Nat, a % 2 = 0
  PROVE  (a + 2) % 2 = 0
OBVIOUS

LEMMA SubSequence ==
  ASSUME NEW S, NEW s \in Seq(S), NEW n \in 0 .. Len(s)
  PROVE  /\ SubSeq(s, 1, n) \in Seq(S) /\ Len(SubSeq(s, 1, n)) = n
         /\ \A i \in 1 .. n : SubSeq(s, 1, n)[i] = s[i]
OBVIOUS

(* A page more, or a part of one, at the place the helper has come to.     *)
LEMMA PageSaved ==
  ASSUME DumpInv, SavePage
  PROVE  DumpInv'
<1>1. /\ DataTypes /\ Control /\ HelperInv
      /\ \A n \in Names : IsRange(files[n], n)
  BY DEF DumpInv
<1>2. PICK n \in 0 .. Page : Written(hfile, n) /\ hfile' = hfile + n
  BY DEF SavePage
<1> DEFINE f == files[Begin]
           c == SubSeq(hbuf, 1, n)
           g == Overwritten(f, hfile, c)
           m == missing[Begin]
           l == missing[Begin] + Page - n
<1>3. /\ hpc = "save" /\ hpc' = "half1"
      /\ files' = [files EXCEPT ![Begin] = g]
      /\ created' = created \cup {Begin}
      /\ missing' = [missing EXCEPT ![Begin] = l]
      /\ broken' = (broken \/ n < Page)
      /\ haddr' = (haddr + Page) % AddrSpace
      /\ UNCHANGED <<hbuf, shift, calls, req, pc, dest, ret, mem, held, during>>
      /\ Begin' = Begin
  BY <1>2 DEF SavePage, Written, NextPage, dumper, kernel, memory, Begin
<1>4. /\ pc = "wait" /\ Begin \in Names /\ Begin \in Nat /\ m \in Nat
      /\ hfile \in Nat /\ haddr \in Nat /\ f \in Seq(Copy)
      /\ Begin + hfile <= haddr /\ haddr <= Begin + hfile + m
  BY <1>1, <1>3, HelperRuns DEF HelperInv
<1>5. /\ hbuf \in Seq(Copy) /\ Len(hbuf) = 2
      /\ hbuf[1].at = haddr /\ Fresh(hbuf[1])
      /\ hbuf[2].at = haddr + 1 /\ Fresh(hbuf[2])
      /\ hfile \in 0 .. Len(f)
  BY <1>1, <1>3, <1>4 DEF HelperInv, DataTypes
<1>6. n \in 0 .. 2 /\ l \in Nat /\ l = m + 2 - n /\ m <= l
  BY <1>4 DEF Page
<1>7. /\ c \in Seq(Copy) /\ Len(c) = n
      /\ \A i \in 1 .. n : c[i].at = haddr + i - 1 /\ Fresh(c[i])
  <2>0. n \in 0 .. Len(hbuf)
    BY <1>5, <1>6
  <2>1. c \in Seq(Copy) /\ Len(c) = n /\ \A i \in 1 .. n : c[i] = hbuf[i]
    BY <1>5, <2>0, SubSequence
  <2>2. \A i \in 1 .. n : i = 1 \/ i = 2
    BY <1>6
  <2>3. haddr + 1 - 1 = haddr /\ haddr + 2 - 1 = haddr + 1
    BY <1>4
  <2> HIDE DEF c
  <2> QED BY <1>5, <2>1, <2>2, <2>3
<1>8. haddr' = haddr + 2
  <2>1. haddr + 1 \in 0 .. AddrSpace - 1 /\ haddr + 1 # AddrSpace - 1
    <3>1. haddr + 1 \in Memory
      BY <1>5 DEF Fresh
    <3> QED BY <3>1, EasyDumpAssumption, LastPageAssumption DEF Addresses
  <2>2. haddr + 2 \in 0 .. AddrSpace - 1
    BY <1>4, <2>1, AddrSpacePositive
  <2> QED BY <1>3, <2>2, AddrSpacePositive, RemainderOfSmall DEF Page
<1>9. /\ g \in Seq(Copy)
      /\ Len(g) = IF hfile + n > Len(f) THEN hfile + n ELSE Len(f)
      /\ \A k \in 1 .. Len(g) :
           IF k \in hfile + 1 .. hfile + n THEN g[k] = c[k - hfile]
                                          ELSE k \in 1 .. Len(f) /\ g[k] = f[k]
  <2> HIDE DEF f, c, g
  <2>1. g = Overwritten(f, hfile, c)
    BY DEF g
  <2>2. f \in Seq(Copy) /\ c \in Seq(Copy) /\ hfile \in 0 .. Len(f) /\ Len(c) = n
    BY <1>4, <1>5, <1>7
  <2>3. /\ g \in Seq(Copy)
        /\ Len(g) = IF hfile + Len(c) > Len(f) THEN hfile + Len(c) ELSE Len(f)
        /\ \A k \in 1 .. Len(g) :
             IF k \in hfile + 1 .. hfile + Len(c)
               THEN g[k] = c[k - hfile]
               ELSE k \in 1 .. Len(f) /\ g[k] = f[k]
    BY <2>1, <2>2, Overwriting
  <2> QED BY <2>2, <2>3
<1>10. /\ m = 0 => Len(f) % Page = 0
       /\ \A k \in 1 .. Len(f) :
            f[k].at \in Begin + k - 1 .. Begin + k - 1 + m /\ Taken(f[k])
  BY <1>1, <1>4 DEF IsRange
<1>11. \A x : Fresh(x) => Taken(x)
  BY <1>1 DEF DataTypes, Fresh, Taken
<1>12. Len(f) \in Nat /\ Len(g) \in Nat
  BY <1>4, <1>9
<1> HIDE DEF f, g, c, m, l
<1>13. /\ files' \in [Names -> Seq(Copy)] /\ missing' \in [Names -> Nat]
       /\ \A x \in Names : files'[x] = IF x = Begin THEN g ELSE files[x]
       /\ \A x \in Names : missing'[x] = IF x = Begin THEN l ELSE missing[x]
  BY <1>1, <1>3, <1>4, <1>6, <1>9 DEF DataTypes
<1>14. DataTypes' /\ Control'
  <2>1. /\ created' \subseteq Names
        /\ \A x \in Names \ created' : files'[x] = <<>>
    BY <1>1, <1>3, <1>4, <1>13 DEF DataTypes
  <2>2. hfile' \in Nat /\ haddr' \in Nat /\ broken' \in BOOLEAN
    BY <1>1, <1>2, <1>3, <1>4, <1>6, <1>8 DEF DataTypes
  <2>3. DataTypes'
    BY <1>1, <1>3, <1>13, <2>1, <2>2 DEF DataTypes
  <2> QED BY <1>1, <1>3, <1>4, <2>3 DEF Control
<1>15. ASSUME NEW k \in 1 .. Len(g)
       PROVE  g[k].at \in Begin + k - 1 .. Begin + k - 1 + l /\ Taken(g[k])
  <2>1. CASE k \in hfile + 1 .. hfile + n
    <3> DEFINE i == k - hfile
    <3>1. i \in 1 .. n /\ k = hfile + i
      BY <1>4, <1>6, <2>1
    <3>2. g[k] = c[i]
      BY <1>9, <2>1
    <3> HIDE DEF i
    <3>3. c[i].at = haddr + i - 1 /\ Taken(c[i])
      BY <1>7, <1>11, <3>1
    <3> QED BY <1>4, <1>6, <3>1, <3>2, <3>3
  <2>2. CASE k \notin hfile + 1 .. hfile + n
    <3>1. k \in 1 .. Len(f) /\ g[k] = f[k]
      BY <1>9, <2>2
    <3>2. f[k].at \in Begin + k - 1 .. Begin + k - 1 + m /\ Taken(f[k])
      BY <1>10, <3>1
    <3> QED BY <1>4, <1>6, <3>1, <3>2
  <2> QED BY <2>1, <2>2
<1>16. l = 0 => n = 2 /\ m = 0
  BY <1>4, <1>6
<1>17. l = 0 => hfile % 2 = 0 /\ (hfile + n) % 2 = 0 /\ Len(g) % 2 = 0
  <2> SUFFICES ASSUME l = 0
               PROVE  hfile % 2 = 0 /\ (hfile + n) % 2 = 0 /\ Len(g) % 2 = 0
    OBVIOUS
  <2>1. hfile % 2 = 0 /\ Len(f) % 2 = 0
    BY <1>1, <1>3, <1>10, <1>16 DEF HelperInv, Page, m
  <2>2. (hfile + 2) % 2 = 0
    BY <1>4, <2>1, EvenSum
  <2> QED BY <1>9, <1>16, <2>1, <2>2
<1>18. (\A x \in Names : IsRange(files[x], x))'
  <2>1. ASSUME NEW x \in Names
        PROVE  /\ missing'[x] = 0 => Len(files'[x]) % Page = 0
               /\ \A k \in 1 .. Len(files'[x]) :
                    /\ files'[x][k].at \in x + k - 1 .. x + k - 1 + missing'[x]
                    /\ Taken(files'[x][k])
    <3>1. CASE x = Begin
      BY <1>13, <1>15, <1>17, <3>1 DEF Page
    <3>2. CASE x # Begin
      BY <1>1, <1>13, <3>2 DEF IsRange
    <3> QED BY <3>1, <3>2
  <2> QED BY <1>3, <2>1 DEF IsRange, Taken
<1>19. HelperInv'
  <2>1. /\ Begin + hfile' <= haddr' /\ haddr' <= Begin + hfile' + missing'[Begin]
        /\ missing'[Begin] = 0 => hfile' % Page = 0
    BY <1>2, <1>4, <1>6, <1>8, <1>13, <1>17 DEF Page
  <2>2. hfile' <= Len(files'[Begin])
    BY <1>2, <1>4, <1>6, <1>9, <1>12, <1>13
  <2>3. ASSUME ~ broken'
        PROVE  haddr' = Begin + hfile' /\ \A k \in 1 .. hfile' : Fresh(files'[Begin][k])
    <3>1. ~ broken /\ n = 2
      <4>1. ~ broken /\ ~ (n < Page)
        BY <1>3, <2>3
      <4> QED BY <1>6, <4>1 DEF Page
    <3>2. haddr = Begin + hfile /\ \A k \in 1 .. hfile : Fresh(f[k])
      BY <1>1, <1>3, <3>1 DEF HelperInv, f
    <3>3. ASSUME NEW k \in 1 .. hfile + 2 PROVE Fresh(g[k])
      <4>1. k \in 1 .. Len(g)
        BY <1>4, <1>9, <1>12, <3>1, <3>3
      <4>2. CASE k \in hfile + 1 .. hfile + 2
        <5>1. k - hfile \in 1 .. n /\ g[k] = c[k - hfile]
          BY <1>4, <1>9, <3>1, <4>1, <4>2
        <5> QED BY <1>7, <5>1
      <4>3. CASE k \in 1 .. hfile
        <5>1. k \notin hfile + 1 .. hfile + n
          BY <1>4, <4>3
        <5> QED BY <1>9, <3>2, <4>1, <4>3, <5>1
      <4> QED BY <1>4, <4>2, <4>3
    <3>4. hfile' = hfile + 2 /\ files'[Begin] = g
      BY <1>2, <1>4, <1>13, <3>1
    <3>5. haddr' = Begin + (hfile + 2)
      BY <1>4, <1>8, <3>2
    <3> QED BY <3>3, <3>4, <3>5
  <2> QED BY <1>3, <1>4, <2>1, <2>2, <2>3 DEF HelperInv, Fresh
<1>20. LeftInv' /\ AnswerInv'
  BY <1>3, <1>4 DEF LeftInv, AnswerInv
<1> QED BY <1>14, <1>18, <1>19, <1>20 DEF DumpInv

LEMMA HelperStep ==
  ASSUME DumpInv, Helper
  PROVE  DumpInv'
<1>1. CASE ReadFirstHalf \/ ReadSecondHalf
  BY <1>1, HalfReads
<1>2. CASE ReadFails
  BY <1>2, HelperIsGone DEF ReadFails
<1>3. CASE SavePage
  BY <1>3, PageSaved
<1>4. CASE OpenForWritingFails
  BY <1>4, HelperIsGone DEF OpenForWritingFails
<1>5. CASE HelperFinishes
  BY <1>5, HelperIsGone DEF HelperFinishes
<1>6. CASE HelperKilled
  BY <1>6, HelperIsGone DEF HelperKilled
<1> QED BY <1>1, <1>2, <1>3, <1>4, <1>5, <1>6 DEF Helper

LEMMA PrepareStep ==
  ASSUME DumpInv, Preparing
  PROVE  DumpInv'
<1>1. shift \in Addresses
  BY DEF DumpInv, DataTypes
<1>2. ASSUME NEW at \in Prepares, NEW to \in Prepares \cup {"ended"},
             Main(at, to), UNCHANGED shift
      PROVE  DumpInv'
  BY <1>1, <1>2, MainGoesOn DEF Main, Prepares
<1>3. CASE FindRegion \/ RegionFound \/ SignatureFound \/ SignatureMissing
  BY <1>2, <1>3
     DEF FindRegion, RegionFound, SignatureFound, SignatureMissing, Prepares
<1>4. CASE MainFails
  BY <1>2, <1>4 DEF MainFails, Prepares
<1>5. CASE PmapRead
  <2>1. (Table.virt - Table.phys) % AddrSpace \in Addresses
    <3>1. Table.virt - Table.phys \in Int
      BY AddrSpacePositive
    <3> QED BY <3>1, AddrSpacePositive, DivisionInt DEF Addresses
  <2> QED BY <1>5, <2>1, MainGoesOn DEF PmapRead, Main, Prepares
<1>6. CASE Searching
  BY <1>6, NothingChanges DEF Searching
<1> QED BY <1>3, <1>4, <1>5, <1>6 DEF Preparing

-----------------------------------------------------------------------------
LEMMA DumpStep == DumpInv /\ [Next]_vars => DumpInv'
<1> SUFFICES ASSUME DumpInv, [Next]_vars PROVE DumpInv'
  OBVIOUS
<1>1. CASE Preparing
  BY <1>1, PrepareStep
<1>2. CASE MapChanging
  BY <1>2, NothingChanges DEF MapChanging
<1>3. CASE StartHelper \/ HelperNotStarted
  BY <1>3, CallBegins
<1>4. CASE Helper
  BY <1>4, HelperStep
<1>5. CASE Answering
  BY <1>5, AnsweringStep
<1>6. CASE KernelWrites
  BY <1>6, KernelStep
<1>7. CASE Finished \/ UNCHANGED vars
  BY <1>7, NothingChanges DEF Finished, vars, dumper, helper, memory, disk
<1> QED BY <1>1, <1>2, <1>3, <1>4, <1>5, <1>6, <1>7 DEF Next

LEMMA DumpAlways == Spec => []DumpInv
BY DumpInit, DumpStep, PTL DEF Spec

(* vmr's files have gaps and torn pages only where a write fell short, and *)
(* no larger than what was not written.                                    *)
THEOREM FilesStayRanges == Spec => []FilesAreRanges
<1>1. DumpInv => FilesAreRanges
  BY SMTT(30) DEF DumpInv, DataTypes, IsRange, FilesAreRanges
<1> QED BY <1>1, DumpAlways, PTL

(* A physread that succeeds is complete and from the address asked for, or *)
(* from as far behind it as writes to the file fell short.                 *)
THEOREM AnswersAreFromThere == Spec => []AnswerIsFromThere
<1>1. DumpInv => AnswerIsFromThere
  <2> SUFFICES ASSUME DumpInv, Answered
               PROVE  /\ Len(dest) = req.size
                      /\ \A k \in 1 .. req.size :
                           LET asked == Linear(req.start + k - 1)
                           IN /\ dest[k].at \in asked .. asked + missing[Linear(req.start)]
                              /\ dest[k].what \in held[dest[k].at]
    BY DEF AnswerIsFromThere
  <2>1. /\ Len(dest) = req.size
        /\ \A k \in 1 .. req.size :
             /\ dest[k].at \in Begin + k - 1 .. Begin + k - 1 + missing[Begin]
             /\ Taken(dest[k])
    BY DEF DumpInv, AnswerInv, Answered
  <2>2. /\ Begin = Linear(req.start) /\ Begin \in Nat
        /\ \A k \in Nat : Begin + k < AddrSpace => Linear(req.start + k) = Begin + k
    BY BeginIsLinear, AddrSpacePositive DEF DumpInv, DataTypes, Control, Answered, Addresses
  <2>3. ASSUME NEW k \in 1 .. req.size
        PROVE  Linear(req.start + k - 1) = Begin + k - 1
    <3>1. req.size \in Nat /\ req.start \in Int /\ AddrSpace \in Nat
      BY AddrSpacePositive DEF DumpInv, DataTypes
    <3>2. dest[k].at \in Memory /\ Memory \subseteq 0 .. AddrSpace - 1
      BY <2>1, EasyDumpAssumption DEF Taken, Addresses
    <3>3. k - 1 \in Nat /\ Begin + (k - 1) < AddrSpace
      BY <2>1, <2>2, <3>1, <3>2
    <3>4. Linear(req.start + (k - 1)) = Begin + (k - 1)
      BY <2>2, <3>3
    <3>5. req.start + (k - 1) = req.start + k - 1 /\ Begin + (k - 1) = Begin + k - 1
      BY <2>2, <3>1
    <3> QED BY <3>4, <3>5
  <2> QED BY <2>1, <2>2, <2>3 DEF Taken
<1> QED BY <1>1, DumpAlways, PTL

(* A physread whose helper reached the end and wrote all it read succeeds  *)
(* with current memory, if the range ends before the address space does,   *)
(* and fails if not.                                                       *)
THEOREM FinishedCallsAreFresh == Spec => []FinishedIsFresh
<1>1. ASSUME DumpInv, calls > 0, pc = "idle", ~ broken
      PROVE  IF Linear(req.start) + req.size < AddrSpace
               THEN /\ ret = 0
                    /\ \A k \in 1..req.size : dest[k].what \in during[dest[k].at]
               ELSE ret = 1
  <2>1. /\ Begin = Linear(req.start) /\ Begin \in Nat
        /\ req.size \in Nat \ {0} /\ AddrSpace \in Nat
    BY <1>1, BeginIsLinear, AddrSpacePositive DEF DumpInv, DataTypes, Control, Addresses
  <2>2. CASE Within
    BY <1>1, <2>1, <2>2 DEF DumpInv, AnswerInv, Fresh, Within
  <2>3. CASE ~ Within
    <3>1. ret # 0
      <4> SUFFICES ASSUME ret = 0 PROVE FALSE
        OBVIOUS
      <4> DEFINE a == dest[req.size].at
      <4>1. req.size \in 1 .. req.size
        BY <2>1
      <4>2. /\ a \in Begin + req.size - 1 .. Begin + req.size - 1 + missing[Begin]
            /\ a \in Memory
        BY <1>1, <4>1 DEF DumpInv, AnswerInv, Taken
      <4>3. a \in 0 .. AddrSpace - 1 /\ a # AddrSpace - 1
        BY <4>2, EasyDumpAssumption, LastPageAssumption DEF Addresses
      <4> HIDE DEF a
      <4>4. missing[Begin] \in Nat
        BY <1>1, <2>1, BeginIsLinear DEF DumpInv, DataTypes, Control
      <4> QED BY <2>1, <2>3, <4>2, <4>3, <4>4 DEF Within
    <3>2. ret \in {0, 1}
      BY <1>1 DEF DumpInv, DataTypes
    <3> QED BY <2>1, <2>3, <3>1, <3>2 DEF Within
  <2> QED BY <2>2, <2>3
<1>2. DumpInv => FinishedIsFresh
  BY <1>1 DEF FinishedIsFresh
<1> QED BY <1>2, DumpAlways, PTL

-----------------------------------------------------------------------------
(* Types: the bounds of the counters, and the search of KernelRegion.      *)

Counters ==
  /\ writes \in 0 .. MaxWrites
  /\ calls \in 0 .. MaxCalls
  /\ fails \in 0 .. MaxFails
  /\ fds = IF pc = "read" THEN 1 ELSE 0

LEMMA CountersStep ==
  ASSUME Counters, Control, [Next]_vars
  PROVE  Counters'
<1> USE EasyDumpAssumption
<1>1. fails' = fails \/ (fails < MaxFails /\ fails' = fails + 1)
  BY DEF Next, Preparing, FindRegion, RegionFound, SignatureFound,
         SignatureMissing, PmapRead, MainFails, Searching, MapChanging,
         StartHelper, HelperNotStarted, Helper, ReadFirstHalf, ReadSecondHalf,
         ReadFails, SavePage, Written, OpenForWritingFails, HelperFinishes, HelperKilled,
         Answering, OpenFails, Open, Read, KernelWrites, Finished, vars, Fail
<1>2. fails' \in 0 .. MaxFails
  BY <1>1 DEF Counters
<1>3. CASE Preparing
  <2>1. CASE Searching
    BY <1>2, <2>1 DEF Searching, Counters, dumper, memory
  <2>2. CASE ~ Searching
    <3>1. PICK at \in Prepares, to \in Prepares \cup {"ended", "idle"} : Main(at, to)
      BY <1>3, <2>2
         DEF Preparing, FindRegion, RegionFound, SignatureFound,
             SignatureMissing, PmapRead, MainFails, Prepares
    <3> QED BY <1>2, <3>1 DEF Main, Counters, memory, Prepares
  <2> QED BY <2>1, <2>2
<1>4. CASE MapChanging \/ Finished \/ UNCHANGED vars
  BY <1>2, <1>4 DEF MapChanging, Finished, vars, dumper, memory, Counters
<1>5. CASE StartHelper \/ HelperNotStarted
  BY <1>2, <1>5 DEF StartHelper, HelperNotStarted, Call, Counters
<1>6. CASE Helper
  <2>1. /\ hpc # "none"
        /\ UNCHANGED <<writes, calls, fds>> /\ pc' \in {pc, "open"}
    BY <1>6 DEF Helper, ReadFirstHalf, ReadSecondHalf, ReadFails, SavePage, NextPage,
                OpenForWritingFails, HelperFinishes, HelperKilled, HelperEnds,
                dumper, kernel, memory
  <2> QED BY <1>2, <2>1 DEF Counters, Control
<1>7. CASE Answering
  <2>1. UNCHANGED <<writes, calls>>
    BY <1>7 DEF Answering, OpenFails, Open, Read, kernel, memory
  <2>2. fds' = IF pc' = "read" THEN 1 ELSE 0
    BY <1>7 DEF Answering, OpenFails, Open, Read, Return, Counters
  <2> QED BY <1>2, <2>1, <2>2 DEF Counters
<1>8. CASE KernelWrites
  BY <1>2, <1>8 DEF KernelWrites, dumper, Counters
<1> QED BY <1>3, <1>4, <1>5, <1>6, <1>7, <1>8 DEF Next

-----------------------------------------------------------------------------
(* A set of naturals that is not empty has a least element.                *)
LEMMA LeastNatural ==
  ASSUME NEW S \in SUBSET Nat, S # {}
  PROVE  \E n \in S : \A m \in S : n <= m
<1> DEFINE R == {p \in Nat \X Nat : p[1] < p[2]}
<1>1. IsWellFoundedOn(R, Nat)
  BY NatLessThanWellFounded DEF OpToRel
<1>2. \E n \in S : \A m \in S : ~ (<<m, n>> \in R)
  <2> HIDE DEF R
  <2> QED BY <1>1, WFMin
<1>3. PICK n \in S : \A m \in S : ~ (<<m, n>> \in R)
  BY <1>2
<1>4. ASSUME NEW m \in S PROVE n <= m
  <2>1. <<m, n>> \notin R /\ m \in Nat /\ n \in Nat
    BY <1>3
  <2> QED BY <2>1
<1> QED BY <1>4

(* vm_region_recurse_64 gives the lowest region that does not end before.  *)
LEMMA RegionIsLowest ==
  ASSUME regions \in Maps, AtOrAfter # {}
  PROVE  /\ Region \in AtOrAfter
         /\ \A s \in AtOrAfter : Region.start <= s.start
<1> DEFINE starts == {r.start : r \in AtOrAfter}
<1>1. AtOrAfter \subseteq RegionType
  BY RegionAssumption DEF AtOrAfter
<1>2. starts \in SUBSET Nat /\ starts # {}
  BY <1>1, RegionAssumption DEF RegionType
<1>3. PICK n \in starts : \A m \in starts : n <= m
  BY <1>2, LeastNatural
<1>4. PICK r \in AtOrAfter : r.start = n
  OBVIOUS
<1>5. \A s \in AtOrAfter : r.start <= s.start
  BY <1>3, <1>4
<1> QED BY <1>4, <1>5 DEF Region

(* An address that the search keeps or asks for next is below the end of   *)
(* the address space.                                                      *)
LEMMA RegionsStep ==
  ASSUME RegionTypeOK, [Next]_vars
  PROVE  RegionTypeOK'
<1>1. CallRegion \/ Search \/ MapChanges \/ EndCall \/ UNCHANGED regionVars
  BY DEF Next, Preparing, FindRegion, RegionFound, SignatureFound,
         SignatureMissing, PmapRead, MainFails, Searching, MapChanging,
         StartHelper, HelperNotStarted, Call, Helper, ReadFirstHalf,
         ReadSecondHalf, ReadFails, SavePage, NextPage, OpenForWritingFails,
         HelperFinishes, HelperKilled, HelperEnds, Answering, OpenFails, Open,
         Read, KernelWrites, Finished, vars, kernel, regionVars
<1>2. ASSUME NEW map \in Maps PROVE LargeIn(map) \subseteq 0 .. AddrSpace - 1
  BY RegionAssumption DEF LargeIn, RegionType
<1>3. CASE CallRegion
  BY <1>2, <1>3, RegionAssumption DEF CallRegion, RegionTypeOK
<1>4. CASE Search
  <2>1. CASE NoRegion \/ LastRegion
    BY <2>1 DEF NoRegion, LastRegion, GiveAnswer, RegionTypeOK
  <2>2. CASE TakeLarge \/ NextRegion
    <3>1. Region \in regions /\ Region \in RegionType
      BY <2>2, RegionIsLowest, RegionAssumption
         DEF TakeLarge, NextRegion, AtOrAfter, RegionTypeOK
    <3>2. Region.start \in 0 .. AddrSpace - 1 /\ RegionEnd \in 0 .. AddrSpace - 1
      BY <3>1, RegionAssumption DEF RegionType, RegionEnd
    <3> QED BY <2>2, <3>2 DEF TakeLarge, NextRegion, GiveAnswer, RegionTypeOK
  <2> QED BY <1>4, <2>1, <2>2 DEF Search
<1>5. CASE MapChanges
  BY <1>2, <1>5 DEF MapChanges, RegionTypeOK
<1>6. CASE EndCall \/ UNCHANGED regionVars
  BY <1>6 DEF EndCall, regionVars, RegionTypeOK
<1> QED BY <1>1, <1>3, <1>4, <1>5, <1>6

LEMMA RegionsInit == RegionInit => RegionTypeOK
BY RegionAssumption DEF RegionInit, RegionTypeOK

(* The variables of the dumper, its helpers and the search keep their      *)
(* types; a file is open exactly while the dumper reads it.                *)
THEOREM TypeCorrect == Spec => []TypeOK
<1>1. Init => DumpInv /\ RegionTypeOK /\ Counters
  BY DumpInit, RegionsInit, EasyDumpAssumption DEF Init, Counters
<1>2. DumpInv /\ RegionTypeOK /\ Counters /\ [Next]_vars
        => (DumpInv /\ RegionTypeOK /\ Counters)'
  BY DumpStep, RegionsStep, CountersStep DEF DumpInv
<1>3. DumpInv /\ RegionTypeOK /\ Counters => TypeOK
  BY DEF DumpInv, DataTypes, Control, Counters, TypeOK
<1> QED BY <1>1, <1>2, <1>3, PTL DEF Spec
=============================================================================
