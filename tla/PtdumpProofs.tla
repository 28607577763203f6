---------------------------- MODULE PtdumpProofs ----------------------------
(***************************************************************************)
(* Theorems about PtdumpClient for any number of processes, any pool of    *)
(* blocks, any requests and any failures: a block in use has one owner,    *)
(* who will free it, and what a process sees is what its own call copied.  *)
(* And for any number of tasks that fit the structure walkthreads prints   *)
(* those that there were when it locked their list.                        *)
(***************************************************************************)
EXTENDS PtdumpClient, SequenceTheorems, TLAPS

(* The variables of DumpMem have their types.                              *)
MemoryTypes ==
  /\ block \in [Blocks -> Nat]
  /\ data \in [Blocks -> Seq(Nat \cup {Unset})]
  /\ slot \in [Clients -> Blocks \cup {None}]
  /\ slotLen \in [Clients -> Nat]
  /\ refs \in [Clients -> Int]
  /\ kmaps \in [Clients -> Int]
  /\ pc \in [Clients -> Places]
  /\ req \in [Clients -> Requests]
  /\ view \in [Clients -> Seq(Nat \cup {Unset})]

(* A block in use is in one slot, with its length.                         *)
OneOwner ==
  /\ \A b \in Blocks : block[b] # 0 <=> \E c \in Clients : slot[c] = b
  /\ \A c, d \in Clients : slot[c] = slot[d] /\ c # d => slot[c] = None
  /\ \A c \in Clients : slot[c] # None => slotLen[c] = block[slot[c]]

(* s holds what a copy for the request r has stored, as far as it came.    *)
CopyFor(r, s) ==
  /\ Len(s) = r.length
  /\ \A k \in DOMAIN s : s[k] \in {r.start + k - 1, Unset}
  /\ \A k, l \in DOMAIN s : k < l /\ s[k] = Unset => s[l] = Unset

Holding == {"read", "wrap", "mapK", "mapU"}
Without == {"idle", "alloc", "lock", "walk", "print", "done"}

(* Where a process is in DumpMem says what its client holds.               *)
InPlace(c) ==
  /\ pc[c] \in Without => slot[c] = None
  /\ pc[c] \in Holding => slot[c] # None
  /\ refs[c] = IF pc[c] \in {"mapK", "mapU"} THEN 1 ELSE 0
  /\ kmaps[c] = IF pc[c] = "mapU" THEN 1 ELSE 0

(* Its block and what it sees are copies for its own request.              *)
OwnCopy(c) ==
  /\ pc[c] = "read" => data[slot[c]] = [k \in 1 .. req[c].length |-> Unset]
  /\ pc[c] \in {"wrap", "mapK", "mapU"} => CopyFor(req[c], data[slot[c]])
  /\ view[c] # <<>> => CopyFor(req[c], view[c])

BlockInv ==
  /\ MemoryTypes
  /\ OneOwner
  /\ \A c \in Clients : InPlace(c) /\ OwnCopy(c)

-----------------------------------------------------------------------------
LEMMA BlockInit == Init => BlockInv
<1> SUFFICES ASSUME Init PROVE BlockInv
  OBVIOUS
<1> USE PtdumpAssumption
<1>1. (CHOOSE r \in Requests : TRUE) \in Requests
  OBVIOUS
<1>2. MemoryTypes
  BY <1>1 DEF MemoryTypes, Init, Places
<1>3. OneOwner
  BY DEF OneOwner, Init, None
<1>4. ASSUME NEW c \in Clients PROVE InPlace(c) /\ OwnCopy(c)
  BY DEF Init, InPlace, OwnCopy, Without, Holding, None
<1> QED BY <1>2, <1>3, <1>4 DEF BlockInv

(* What a step of another process leaves of a process's place and copies.  *)
LEMMA OthersKeep ==
  ASSUME BlockInv, NEW c \in Clients, NEW d \in Clients \ {c},
         pc'[d] = pc[d], slot'[d] = slot[d], req'[d] = req[d],
         view'[d] = view[d], refs'[d] = refs[d], kmaps'[d] = kmaps[d],
         slot[d] # None => data'[slot[d]] = data[slot[d]]
  PROVE  InPlace(d)' /\ OwnCopy(d)'
<1>1. InPlace(d) /\ OwnCopy(d)
  BY DEF BlockInv
<1>2. pc[d] \in Holding => slot[d] # None
  BY <1>1 DEF InPlace
<1>3. InPlace(d)'
  BY <1>1 DEF InPlace
<1>4. pc[d] \in Holding => data'[slot[d]] = data[slot[d]]
  BY <1>2
<1>6. OwnCopy(d)'
  BY <1>1, <1>4 DEF OwnCopy, Holding, CopyFor
<1> QED BY <1>3, <1>6

(* Freeing the block of a client empties its slot and touches no other's.  *)
LEMMA FreeingOwn ==
  ASSUME BlockInv, NEW c \in Clients, FreeOwn(c)
  PROVE  /\ slot' = [slot EXCEPT ![c] = None]
         /\ block' \in [Blocks -> Nat]
         /\ data' \in [Blocks -> Seq(Nat \cup {Unset})]
         /\ \A b \in Blocks : block'[b] = IF b = slot[c] THEN 0 ELSE block[b]
         /\ \A b \in Blocks : b # slot[c] => data'[b] = data[b]
<1> USE PtdumpAssumption
<1>1. MemoryTypes
  BY DEF BlockInv
<1>2. CASE slot[c] = None
  BY <1>1, <1>2 DEF FreeOwn, MemoryTypes, None
<1>3. CASE slot[c] # None
  <2>1. slot[c] \in Blocks
    BY <1>1, <1>3 DEF MemoryTypes
  <2>2. /\ block' = [block EXCEPT ![slot[c]] = 0]
        /\ data' = [data EXCEPT ![slot[c]] = <<>>]
        /\ slot' = [slot EXCEPT ![c] = None]
    BY <1>3 DEF FreeOwn, Free
  <2>3. <<>> \in Seq(Nat \cup {Unset})
    OBVIOUS
  <2>4. data' \in [Blocks -> Seq(Nat \cup {Unset})]
    BY <1>1, <2>1, <2>2, <2>3 DEF MemoryTypes
  <2> QED BY <1>1, <2>1, <2>2, <2>4 DEF MemoryTypes
<1> QED BY <1>2, <1>3

(* With its block freed and its slot empty, each block still has its owner.*)
LEMMA FreedOwnerless ==
  ASSUME BlockInv, NEW c \in Clients, FreeOwn(c), slotLen' = slotLen
  PROVE  OneOwner'
<1> USE PtdumpAssumption
<1>1. MemoryTypes /\ OneOwner
  BY DEF BlockInv
<1>2. /\ slot' = [slot EXCEPT ![c] = None]
      /\ \A b \in Blocks : block'[b] = IF b = slot[c] THEN 0 ELSE block[b]
  BY FreeingOwn
<1>3. \A d \in Clients : slot'[d] = IF d = c THEN None ELSE slot[d]
  BY <1>1, <1>2 DEF MemoryTypes
<1>4. \A b \in Blocks : b # None
  BY DEF None
<1>5. ASSUME NEW b \in Blocks
      PROVE  block'[b] # 0 <=> \E d \in Clients : slot'[d] = b
  BY <1>1, <1>2, <1>3, <1>4 DEF OneOwner
<1>6. \A d, e \in Clients : slot'[d] = slot'[e] /\ d # e => slot'[d] = None
  BY <1>1, <1>3 DEF OneOwner
<1>7. ASSUME NEW d \in Clients, slot'[d] # None
      PROVE  slotLen'[d] = block'[slot'[d]]
  <2>1. d # c /\ slot'[d] = slot[d] /\ slot[d] # None
    BY <1>3, <1>7
  <2>2. slot[d] \in Blocks /\ slot[d] # slot[c]
    BY <1>1, <2>1 DEF OneOwner, MemoryTypes
  <2>3. block'[slot[d]] = block[slot[d]]
    BY <1>2, <2>2
  <2>4. slotLen[d] = block[slot[d]]
    BY <1>1, <2>1 DEF OneOwner
  <2> QED BY <2>1, <2>3, <2>4
<1> QED BY <1>5, <1>6, <1>7 DEF OneOwner

-----------------------------------------------------------------------------
(* Steps                                                                   *)

OthersSame(c) ==
  \A d \in Clients \ {c} :
    /\ pc'[d] = pc[d] /\ slot'[d] = slot[d] /\ req'[d] = req[d]
    /\ view'[d] = view[d] /\ refs'[d] = refs[d] /\ kmaps'[d] = kmaps[d]
    /\ slot[d] # None => data'[slot[d]] = data[slot[d]]

LEMMA ClientStep ==
  ASSUME BlockInv, NEW c \in Clients, OthersSame(c),
         MemoryTypes', OneOwner', InPlace(c)', OwnCopy(c)'
  PROVE  BlockInv'
<1>1. ASSUME NEW d \in Clients PROVE InPlace(d)' /\ OwnCopy(d)'
  <2>1. CASE d = c
    BY <2>1
  <2>2. CASE d # c
    BY <2>2, OthersKeep DEF OthersSame
  <2> QED BY <2>1, <2>2
<1> QED BY <1>1 DEF BlockInv

(* A step that changes nothing of DumpMem's but where the process is.      *)
LEMMA MovesOn ==
  ASSUME BlockInv, NEW c \in Clients, NEW place \in Places \ Holding,
         UNCHANGED memory, Goto(c, place),
         pc[c] \notin {"mapK", "mapU"},
         place \in Without => slot[c] = None
  PROVE  BlockInv'
<1>1. MemoryTypes /\ OneOwner /\ InPlace(c) /\ OwnCopy(c)
  BY DEF BlockInv
<1>2. pc' = [pc EXCEPT ![c] = place] /\ pc'[c] = place
  BY <1>1 DEF Goto, MemoryTypes
<1>3. MemoryTypes' /\ OneOwner'
  BY <1>1, <1>2 DEF MemoryTypes, OneOwner, memory
<1>4. OthersSame(c)
  BY <1>1, <1>2 DEF OthersSame, memory, MemoryTypes
<1>5. InPlace(c)'
  BY <1>1, <1>2 DEF InPlace, Holding, memory
<1>6. OwnCopy(c)'
  BY <1>1, <1>2 DEF OwnCopy, CopyFor, Holding, memory
<1> QED BY <1>3, <1>4, <1>5, <1>6, ClientStep

(* A step that frees the client's block and leaves DumpMem.                *)
LEMMA Frees ==
  ASSUME BlockInv, NEW c \in Clients, NEW place \in Places \ Holding,
         FreeOwn(c), Goto(c, place), slotLen' = slotLen,
         UNCHANGED <<refs, kmaps>>,
         pc[c] \notin {"mapK", "mapU"},
         req' \in [Clients -> Requests],
         view' \in [Clients -> Seq(Nat \cup {Unset})],
         \A d \in Clients \ {c} : req'[d] = req[d] /\ view'[d] = view[d],
         view'[c] # <<>> => view'[c] = view[c] /\ req'[c] = req[c]
  PROVE  BlockInv'
<1>1. MemoryTypes /\ OneOwner /\ InPlace(c) /\ OwnCopy(c)
  BY DEF BlockInv
<1>2. pc' = [pc EXCEPT ![c] = place] /\ pc'[c] = place
  BY <1>1 DEF Goto, MemoryTypes
<1>3. /\ slot' = [slot EXCEPT ![c] = None]
      /\ block' \in [Blocks -> Nat]
      /\ data' \in [Blocks -> Seq(Nat \cup {Unset})]
      /\ \A b \in Blocks : b # slot[c] => data'[b] = data[b]
  BY FreeingOwn
<1>4. slot' \in [Clients -> Blocks \cup {None}] /\ slot'[c] = None
  BY <1>1, <1>3 DEF MemoryTypes
<1>5. MemoryTypes'
  BY <1>1, <1>2, <1>3, <1>4 DEF MemoryTypes
<1>6. OneOwner'
  BY FreedOwnerless
<1>7. OthersSame(c)
  <2> SUFFICES ASSUME NEW d \in Clients \ {c}
               PROVE  /\ pc'[d] = pc[d] /\ slot'[d] = slot[d]
                      /\ slot[d] # None => data'[slot[d]] = data[slot[d]]
    BY DEF OthersSame
  <2>1. pc'[d] = pc[d] /\ slot'[d] = slot[d]
    BY <1>1, <1>2, <1>3 DEF MemoryTypes
  <2>2. slot[d] # None => slot[d] \in Blocks /\ slot[d] # slot[c]
    BY <1>1 DEF MemoryTypes, OneOwner
  <2> QED BY <1>3, <2>1, <2>2
<1>8. InPlace(c)'
  BY <1>1, <1>2, <1>4 DEF InPlace, Holding
<1>9. OwnCopy(c)'
  BY <1>1, <1>2 DEF OwnCopy, CopyFor, Holding
<1> QED BY <1>5, <1>6, <1>7, <1>8, <1>9, ClientStep

LEMMA CallStep ==
  ASSUME BlockInv, NEW c \in Clients, CallDumpMem(c)
  PROVE  BlockInv'
<1>1. MemoryTypes
  BY DEF BlockInv
<1>2. PICK r \in Requests : req' = [req EXCEPT ![c] = r]
  BY DEF CallDumpMem
<1>3. view' = [view EXCEPT ![c] = <<>>]
  BY DEF CallDumpMem
<1>4. <<>> \in Seq(Nat \cup {Unset})
  OBVIOUS
<1>5. /\ req' \in [Clients -> Requests]
      /\ view' \in [Clients -> Seq(Nat \cup {Unset})]
      /\ \A d \in Clients \ {c} : req'[d] = req[d] /\ view'[d] = view[d]
      /\ view'[c] = <<>>
  BY <1>1, <1>2, <1>3, <1>4 DEF MemoryTypes
<1>6. /\ FreeOwn(c) /\ Goto(c, "alloc") /\ slotLen' = slotLen
      /\ UNCHANGED <<refs, kmaps>> /\ pc[c] = "ready"
  BY DEF CallDumpMem, At
<1>7. "alloc" \in Places \ Holding
  BY DEF Places, Holding
<1> QED BY <1>5, <1>6, <1>7, Frees

(* A free block becomes the client's, with the length asked for.           *)
LEMMA AllocStep ==
  ASSUME BlockInv, NEW c \in Clients, AllocBuffer(c)
  PROVE  BlockInv'
<1> USE PtdumpAssumption
<1>1. MemoryTypes /\ OneOwner /\ InPlace(c) /\ OwnCopy(c)
  BY DEF BlockInv
<1>2. pc[c] = "alloc" /\ slot[c] = None
  BY <1>1 DEF AllocBuffer, At, InPlace, Without
<1> DEFINE n == req[c].length
           blank == [k \in 1..n |-> Unset]
<1>3. n \in Nat \ {0}
  BY <1>1 DEF MemoryTypes
<1>4. PICK b \in Blocks :
        /\ block[b] = 0
        /\ block' = [block EXCEPT ![b] = n]
        /\ data' = [data EXCEPT ![b] = blank]
        /\ slot' = [slot EXCEPT ![c] = b]
        /\ slotLen' = [slotLen EXCEPT ![c] = n]
  BY DEF AllocBuffer
<1>5. blank \in Seq(Nat \cup {Unset})
  BY <1>3
<1>6. pc' = [pc EXCEPT ![c] = "read"]
  BY DEF AllocBuffer, Goto
<1>7. UNCHANGED <<refs, kmaps, req, view>>
  BY DEF AllocBuffer
<1> HIDE DEF n, blank
<1>8. MemoryTypes'
  BY <1>1, <1>3, <1>4, <1>5, <1>6, <1>7 DEF MemoryTypes, Places
<1>9. b # None /\ \A d \in Clients : slot[d] # b
  BY <1>1, <1>4 DEF OneOwner, None
<1>10. /\ \A d \in Clients : slot'[d] = IF d = c THEN b ELSE slot[d]
       /\ \A e \in Blocks : block'[e] = IF e = b THEN n ELSE block[e]
       /\ \A d \in Clients : slotLen'[d] = IF d = c THEN n ELSE slotLen[d]
       /\ \A e \in Blocks : data'[e] = IF e = b THEN blank ELSE data[e]
  BY <1>1, <1>4 DEF MemoryTypes
<1>11. OneOwner'
  <2>1. ASSUME NEW e \in Blocks
        PROVE  block'[e] # 0 <=> \E d \in Clients : slot'[d] = e
    BY <1>1, <1>2, <1>3, <1>9, <1>10 DEF OneOwner, None
  <2>2. \A d, e \in Clients : slot'[d] = slot'[e] /\ d # e => slot'[d] = None
    BY <1>1, <1>9, <1>10 DEF OneOwner
  <2>3. ASSUME NEW d \in Clients, slot'[d] # None
        PROVE  slotLen'[d] = block'[slot'[d]]
    <3>1. CASE d = c
      BY <1>10, <3>1
    <3>2. CASE d # c
      <4>1. slot'[d] = slot[d] /\ slot[d] \in Blocks /\ slot[d] # b
        BY <1>1, <1>9, <1>10, <2>3, <3>2 DEF MemoryTypes
      <4>2. slotLen[d] = block[slot[d]]
        BY <1>1, <2>3, <4>1 DEF OneOwner
      <4> QED BY <1>10, <3>2, <4>1, <4>2
    <3> QED BY <3>1, <3>2
  <2> QED BY <2>1, <2>2, <2>3 DEF OneOwner
<1>12. OthersSame(c)
  <2> SUFFICES ASSUME NEW d \in Clients \ {c}
               PROVE  /\ pc'[d] = pc[d] /\ slot'[d] = slot[d]
                      /\ slot[d] # None => data'[slot[d]] = data[slot[d]]
    BY <1>7 DEF OthersSame
  <2>1. slot[d] # None => slot[d] \in Blocks /\ slot[d] # b
    BY <1>1, <1>9 DEF MemoryTypes
  <2> QED BY <1>1, <1>6, <1>10, <2>1 DEF MemoryTypes
<1>13. pc'[c] = "read" /\ slot'[c] = b /\ data'[b] = blank
  BY <1>1, <1>6, <1>10 DEF MemoryTypes
<1>14. InPlace(c)'
  BY <1>1, <1>2, <1>7, <1>9, <1>13 DEF InPlace, Without
<1>15. OwnCopy(c)'
  <2>1. data'[slot'[c]] = [k \in 1 .. req'[c].length |-> Unset]
    BY <1>7, <1>13 DEF blank, n
  <2> QED BY <1>1, <1>7, <1>13, <2>1 DEF OwnCopy, CopyFor
<1> QED BY <1>8, <1>11, <1>12, <1>14, <1>15, ClientStep

(* The copy fills the client's own block.                                  *)
LEMMA ReadBytesStep ==
  ASSUME BlockInv, NEW c \in Clients, ReadBytes(c)
  PROVE  BlockInv'
<1> USE PtdumpAssumption
<1>1. MemoryTypes /\ OneOwner /\ InPlace(c) /\ OwnCopy(c)
  BY DEF BlockInv
<1> DEFINE b == slot[c]
           r == req[c]
<1>2. pc[c] = "read" /\ b # None /\ b \in Blocks
  BY <1>1 DEF ReadBytes, At, InPlace, Holding, MemoryTypes
<1>3. r \in Requests /\ r.start \in Nat /\ r.length \in Nat
  BY <1>1 DEF MemoryTypes
<1>4. data[b] = [k \in 1 .. r.length |-> Unset]
  BY <1>1, <1>2 DEF OwnCopy
<1>5. PICK n \in {r.length} \cup (IF fails < MaxFails THEN 0 .. r.length ELSE {}) :
        data' = [data EXCEPT ![b] =
                   [k \in DOMAIN @ |-> IF k <= n THEN r.start + k - 1 ELSE @[k]]]
  BY DEF ReadBytes
<1>51. n \in 0 .. r.length
  BY <1>3
<1> DEFINE copy == [k \in 1 .. r.length |->
                      IF k <= n THEN r.start + k - 1 ELSE Unset]
<1>6. data' = [data EXCEPT ![b] = copy]
  <2>1. [k \in DOMAIN data[b] |-> IF k <= n THEN r.start + k - 1 ELSE data[b][k]]
          = copy
    BY <1>3, <1>4
  <2> QED BY <1>5, <2>1
<1>7. copy \in Seq(Nat \cup {Unset}) /\ CopyFor(r, copy)
  <2>1. \A k \in 1 .. r.length :
          copy[k] \in Nat \cup {Unset} /\ copy[k] \in {r.start + k - 1, Unset}
    BY <1>3
  <2>2. copy \in [1 .. r.length -> Nat \cup {Unset}]
    BY <2>1
  <2>4. copy \in Seq(Nat \cup {Unset}) /\ Len(copy) = r.length
    <3> HIDE DEF copy
    <3> QED BY SMTT(30), <1>3, <2>2
  <2>3. \A k, l \in DOMAIN copy : k < l /\ copy[k] = Unset => copy[l] = Unset
    BY SMTT(30), <1>3 DEF Unset
  <2> QED BY <1>3, <2>1, <2>3, <2>4 DEF CopyFor
<1>8. pc' = [pc EXCEPT ![c] = "wrap"]
  BY DEF ReadBytes, Goto
<1>9. UNCHANGED <<block, slot, slotLen, refs, kmaps, req, view>>
  BY DEF ReadBytes
<1> HIDE DEF b, r, copy
<1>10. MemoryTypes'
  BY <1>1, <1>6, <1>7, <1>8, <1>9 DEF MemoryTypes, Places
<1>11. OneOwner'
  BY <1>1, <1>9 DEF OneOwner
<1>12. data'[b] = copy /\ \A e \in Blocks : e # b => data'[e] = data[e]
  BY <1>1, <1>2, <1>6 DEF MemoryTypes
<1>13. OthersSame(c)
  <2> SUFFICES ASSUME NEW d \in Clients \ {c}
               PROVE  /\ pc'[d] = pc[d]
                      /\ slot[d] # None => data'[slot[d]] = data[slot[d]]
    BY <1>9 DEF OthersSame
  <2>1. slot[d] # None => slot[d] \in Blocks /\ slot[d] # b
    BY <1>1 DEF MemoryTypes, OneOwner, b
  <2> QED BY <1>1, <1>8, <1>12, <2>1 DEF MemoryTypes
<1>14. pc'[c] = "wrap"
  BY <1>1, <1>8 DEF MemoryTypes
<1>15. InPlace(c)'
  BY <1>1, <1>2, <1>9, <1>14 DEF InPlace, Without, b
<1>16. OwnCopy(c)'
  <2>1. CopyFor(r, data'[b])
    BY <1>7, <1>12
  <2>2. CopyFor(req[c], data[slot[c]])'
    BY <1>9, <2>1 DEF CopyFor, r, b
  <2> QED BY <1>1, <1>9, <1>14, <2>2 DEF OwnCopy, CopyFor
<1> QED BY <1>10, <1>11, <1>13, <1>15, <1>16, ClientStep

(* Wrap and the two mappings: blocks and slots stay as they are.           *)
LEMMA HoldsOn ==
  ASSUME BlockInv, NEW c \in Clients, NEW place \in {"mapK", "mapU", "answered"},
         UNCHANGED <<block, data, slot, slotLen, req>>,
         Goto(c, place), pc[c] \in {"wrap", "mapK", "mapU"},
         NEW m \in {0, 1}, NEW n \in {0, 1},
         refs' = [refs EXCEPT ![c] = m], kmaps' = [kmaps EXCEPT ![c] = n],
         m = IF place \in {"mapK", "mapU"} THEN 1 ELSE 0,
         n = IF place = "mapU" THEN 1 ELSE 0,
         view' = view \/ view' = [view EXCEPT ![c] = data[slot[c]]]
  PROVE  BlockInv'
<1> USE PtdumpAssumption
<1>1. MemoryTypes /\ OneOwner /\ InPlace(c) /\ OwnCopy(c)
  BY DEF BlockInv
<1>2. slot[c] # None /\ slot[c] \in Blocks
  BY <1>1 DEF InPlace, Holding, MemoryTypes
<1>3. CopyFor(req[c], data[slot[c]]) /\ data[slot[c]] \in Seq(Nat \cup {Unset})
  BY <1>1, <1>2 DEF OwnCopy, MemoryTypes
<1>4. pc' = [pc EXCEPT ![c] = place] /\ pc'[c] = place
  BY <1>1 DEF Goto, MemoryTypes
<1>5. /\ view' \in [Clients -> Seq(Nat \cup {Unset})]
      /\ \A d \in Clients \ {c} : view'[d] = view[d]
      /\ view'[c] \in {view[c], data[slot[c]]}
  BY <1>1, <1>3 DEF MemoryTypes
<1>6. MemoryTypes'
  <2>1. place \in Places
    BY DEF Places
  <2>2. pc' \in [Clients -> Places]
    BY <1>1, <1>4, <2>1 DEF MemoryTypes
  <2>3. refs' \in [Clients -> Int] /\ kmaps' \in [Clients -> Int]
    BY <1>1 DEF MemoryTypes
  <2> QED BY <1>1, <1>5, <2>2, <2>3 DEF MemoryTypes
<1>7. OneOwner'
  BY <1>1 DEF OneOwner
<1>8. OthersSame(c)
  BY <1>1, <1>4, <1>5 DEF OthersSame, MemoryTypes
<1>9. refs'[c] = m /\ kmaps'[c] = n
  BY <1>1 DEF MemoryTypes
<1>10. InPlace(c)'
  BY <1>2, <1>4, <1>9 DEF InPlace, Without
<1>11. OwnCopy(c)'
  <2>1. view[c] # <<>> => CopyFor(req[c], view[c])
    BY <1>1 DEF OwnCopy
  <2>2. view'[c] # <<>> => CopyFor(req[c], view'[c])
    BY <1>3, <1>5, <2>1
  <2> QED BY <1>3, <1>4, <2>2 DEF OwnCopy, CopyFor
<1> QED BY <1>6, <1>7, <1>8, <1>10, <1>11, ClientStep

LEMMA MappingSteps ==
  ASSUME BlockInv, NEW c \in Clients,
         Wrap(c) \/ MapKernel(c) \/ MapKernelFails(c) \/ MapUser(c)
  PROVE  BlockInv'
<1>1. MemoryTypes /\ InPlace(c)
  BY DEF BlockInv
<1>3. CASE Wrap(c)
  <2>1. pc[c] = "wrap" /\ refs[c] = 0 /\ kmaps[c] = 0
    BY <1>1, <1>3 DEF Wrap, At, InPlace
  <2>2. /\ refs' = [refs EXCEPT ![c] = 1] /\ kmaps' = [kmaps EXCEPT ![c] = 0]
        /\ Goto(c, "mapK") /\ UNCHANGED <<block, data, slot, slotLen, req>>
        /\ view' = view
    BY <1>1, <1>3, <2>1 DEF Wrap, MemoryTypes
  <2> QED BY <2>1, <2>2, HoldsOn
<1>4. CASE MapKernel(c)
  <2>1. pc[c] = "mapK" /\ refs[c] = 1 /\ kmaps[c] = 0
    BY <1>1, <1>4 DEF MapKernel, At, InPlace
  <2>2. /\ refs' = [refs EXCEPT ![c] = 1] /\ kmaps' = [kmaps EXCEPT ![c] = 1]
        /\ Goto(c, "mapU") /\ UNCHANGED <<block, data, slot, slotLen, req>>
        /\ view' = view
    BY <1>1, <1>4, <2>1 DEF MapKernel, MemoryTypes
  <2> QED BY <2>1, <2>2, HoldsOn
<1>5. CASE MapKernelFails(c)
  <2>1. pc[c] = "mapK" /\ refs[c] = 1 /\ kmaps[c] = 0
    BY <1>1, <1>5 DEF MapKernelFails, At, InPlace
  <2>2. /\ refs' = [refs EXCEPT ![c] = 0] /\ kmaps' = [kmaps EXCEPT ![c] = 0]
        /\ Goto(c, "answered") /\ UNCHANGED <<block, data, slot, slotLen, req>>
        /\ view' = view
    BY <1>1, <1>5, <2>1 DEF MapKernelFails, MemoryTypes
  <2> QED BY <2>1, <2>2, HoldsOn
<1>6. CASE MapUser(c)
  <2>1. pc[c] = "mapU" /\ refs[c] = 1 /\ kmaps[c] = 1
    BY <1>1, <1>6 DEF MapUser, At, InPlace
  <2>2. /\ refs' = [refs EXCEPT ![c] = 0] /\ kmaps' = [kmaps EXCEPT ![c] = 0]
        /\ Goto(c, "answered") /\ UNCHANGED <<block, data, slot, slotLen, req>>
        /\ view' = view \/ view' = [view EXCEPT ![c] = data[slot[c]]]
    BY <1>1, <1>6, <2>1 DEF MapUser, MapOrFail, MemoryTypes
  <2> QED BY <2>1, <2>2, HoldsOn
<1> QED BY <1>3, <1>4, <1>5, <1>6

-----------------------------------------------------------------------------
LEMMA BlockStep == BlockInv /\ [Next]_vars => BlockInv'
<1> SUFFICES ASSUME BlockInv, [Next]_vars PROVE BlockInv'
  OBVIOUS
<1>1. MemoryTypes /\ \A c \in Clients : InPlace(c)
  BY DEF BlockInv
<1>2. ASSUME UNCHANGED <<memory, pc>> PROVE BlockInv'
  <2>1. MemoryTypes' /\ OneOwner'
    BY <1>1, <1>2 DEF BlockInv, MemoryTypes, OneOwner, memory
  <2>2. ASSUME NEW c \in Clients PROVE InPlace(c)' /\ OwnCopy(c)'
    <3>1. InPlace(c) /\ OwnCopy(c)
      BY DEF BlockInv
    <3> QED BY <1>2, <3>1 DEF InPlace, OwnCopy, CopyFor, memory
  <2> QED BY <2>1, <2>2 DEF BlockInv
<1>3. ASSUME NEW c \in Clients, Process(c) PROVE BlockInv'
  <2>2. CASE Connect(c)
    <3>1. PICK place \in {"lock", "ready"} : Goto(c, place)
      BY <2>2 DEF Connect
    <3>2. pc[c] = "idle" /\ UNCHANGED memory /\ slot[c] = None
      BY <1>1, <2>2 DEF Connect, At, InPlace, Without
    <3> QED BY <3>1, <3>2, MovesOn DEF Places, Holding
  <2>3. CASE CallDumpMem(c)
    BY <2>3, CallStep
  <2>4. CASE AllocBuffer(c)
    BY <2>4, AllocStep
  <2>5. CASE AllocFails(c) \/ DescribeFails(c)
    <3>1. /\ Goto(c, "answered") /\ pc[c] \in {"alloc", "read"}
          /\ UNCHANGED memory
      BY <2>5 DEF AllocFails, DescribeFails, At
    <3> QED BY <3>1, MovesOn DEF Places, Holding, Without
  <2>6. CASE ReadBytes(c)
    BY <2>6, ReadBytesStep
  <2>7. CASE WrapFails(c)
    <3>1. /\ FreeOwn(c) /\ Goto(c, "answered") /\ pc[c] = "wrap"
          /\ slotLen' = slotLen /\ UNCHANGED <<refs, kmaps>>
          /\ req' = req /\ view' = view
      BY <2>7 DEF WrapFails, At
    <3> QED BY <1>1, <3>1, Frees DEF Places, Holding, MemoryTypes
  <2>8. CASE Wrap(c) \/ MapKernel(c) \/ MapKernelFails(c) \/ MapUser(c)
    BY <2>8, MappingSteps
  <2>9. CASE Answered(c)
    <3>1. /\ pc[c] = "answered" /\ slotLen' = slotLen
          /\ UNCHANGED <<refs, kmaps, left, calls>> /\ req' = req /\ view' = view
      BY <2>9 DEF Answered, At
    <3>2. \/ Goto(c, "ready") /\ UNCHANGED <<block, data, slot>>
          \/ Goto(c, "done") /\ FreeOwn(c)
      BY <2>9 DEF Answered
    <3>3. CASE Goto(c, "ready") /\ UNCHANGED <<block, data, slot>>
      BY <3>1, <3>3, MovesOn DEF Places, Holding, Without, memory, left
    <3>4. CASE Goto(c, "done") /\ FreeOwn(c)
      BY <1>1, <3>1, <3>4, Frees DEF Places, Holding, MemoryTypes
    <3> QED BY <3>2, <3>3, <3>4
  <2>10. CASE Close(c)
    <3>1. /\ FreeOwn(c) /\ Goto(c, "done") /\ pc[c] = "ready"
          /\ slotLen' = slotLen /\ UNCHANGED <<refs, kmaps>>
          /\ req' = req /\ view' = view
      BY <2>10 DEF Close, At
    <3> QED BY <1>1, <3>1, Frees DEF Places, Holding, MemoryTypes
  <2>11. CASE LockTasks(c) \/ UnlockTasks(c) \/ PrintEnd(c)
    <3>1. PICK place \in {"walk", "print", "done"} : Goto(c, place)
      BY <2>11 DEF LockTasks, UnlockTasks, PrintEnd
    <3>2. pc[c] \in {"lock", "walk", "print"} /\ UNCHANGED memory
      BY <2>11 DEF LockTasks, UnlockTasks, PrintEnd, Elsewhere, At
    <3>3. slot[c] = None
      BY <1>1, <3>2 DEF InPlace, Without
    <3> QED BY <3>1, <3>2, <3>3, MovesOn DEF Places, Holding
  <2>12. CASE StoreTask(c) \/ PrintWord(c)
    BY <1>2, <2>12 DEF StoreTask, PrintWord, Elsewhere
  <2> QED BY <1>3, <2>2, <2>3, <2>4, <2>5, <2>6, <2>7, <2>8, <2>9, <2>10,
             <2>11, <2>12 DEF Process
<1>4. CASE CreateTask \/ TerminateTask
  BY <1>2, <1>4 DEF CreateTask, TerminateTask, TasksChange
<1>5. CASE Finished \/ UNCHANGED vars
  BY <1>2, <1>5 DEF Finished, vars, memory
<1> QED BY <1>3, <1>4, <1>5 DEF Next

LEMMA BlocksAlways == Spec => []BlockInv
BY BlockInit, BlockStep, PTL DEF Spec

-----------------------------------------------------------------------------
(* Descriptors and map objects                                             *)

(* Where the call is that has counted itself and has no descriptor yet.    *)
Before == {"alloc", "read", "wrap"}

(* What the calls of a client have left, with that of the one under way.   *)
LeftBehind(c) ==
  /\ pc[c] \in Before =>
       descs[c] + 1 <= calls[c] /\ calls[c] <= descs[c] + fails + 1
  /\ pc[c] \notin Before => descs[c] <= calls[c] /\ calls[c] <= descs[c] + fails
  /\ pc[c] = "mapK" => descs[c] - 1 <= maps[c] /\ maps[c] <= 2 * (descs[c] - 1)
  /\ pc[c] = "mapU" => descs[c] <= maps[c] /\ maps[c] <= 2 * descs[c] - 1
  /\ pc[c] \notin {"mapK", "mapU"} => descs[c] <= maps[c] /\ maps[c] <= 2 * descs[c]

LeftInv ==
  /\ descs \in [Clients -> Nat] /\ maps \in [Clients -> Nat]
  /\ calls \in [Clients -> Nat] /\ fails \in Nat
  /\ \A c \in Clients : LeftBehind(c)

(* The step of one client leaves the account of the others, for the number *)
(* of failures only grows.                                                 *)
LEMMA LeftToOthers ==
  ASSUME LeftInv, MemoryTypes, NEW c \in Clients, NEW place \in Places, Goto(c, place),
         NEW a \in Nat, NEW m \in Nat, NEW n \in Nat, NEW f \in Nat,
         calls' = [calls EXCEPT ![c] = n], descs' = [descs EXCEPT ![c] = a],
         maps' = [maps EXCEPT ![c] = m], fails' = f, fails <= f, LeftBehind(c)'
  PROVE  LeftInv'
<1>1. pc' = [pc EXCEPT ![c] = place] /\ pc \in [Clients -> Places]
  BY DEF Goto, MemoryTypes
<1>2. /\ descs' \in [Clients -> Nat] /\ maps' \in [Clients -> Nat]
      /\ calls' \in [Clients -> Nat] /\ fails' \in Nat
  BY DEF LeftInv
<1>3. ASSUME NEW d \in Clients PROVE LeftBehind(d)'
  <2>1. CASE d = c
    BY <2>1
  <2>2. CASE d # c
    <3>1. /\ pc'[d] = pc[d] /\ descs'[d] = descs[d] /\ maps'[d] = maps[d]
          /\ calls'[d] = calls[d]
      BY <1>1, <2>2 DEF LeftInv
    <3>2. LeftBehind(d) /\ descs[d] \in Nat /\ calls[d] \in Nat /\ fails \in Nat
      BY DEF LeftInv
    <3>3. calls[d] <= descs[d] + fails => calls[d] <= descs[d] + fails'
      BY <3>2
    <3>4. calls[d] <= descs[d] + fails + 1 => calls[d] <= descs[d] + fails' + 1
      BY <3>2
    <3> QED BY <3>1, <3>2, <3>3, <3>4 DEF LeftBehind
  <2> QED BY <2>1, <2>2
<1> QED BY <1>2, <1>3 DEF LeftInv

(* A step that makes and releases nothing: it starts a call, goes on, or   *)
(* leaves without a descriptor after a failure.                            *)
LEMMA LeavesAlone ==
  ASSUME LeftInv, MemoryTypes, NEW c \in Clients, NEW place \in Places, Goto(c, place),
         UNCHANGED left, NEW n \in {0, 1}, NEW f \in {0, 1},
         calls' = [calls EXCEPT ![c] = @ + n], fails' = fails + f,
         pc[c] \notin {"mapK", "mapU"}, place \notin {"mapK", "mapU"},
         pc[c] \in Before => n = 0 /\ (place \in Before \/ f = 1),
         pc[c] \notin Before => (n = 1 <=> place \in Before)
  PROVE  LeftInv'
<1>1. /\ descs \in [Clients -> Nat] /\ maps \in [Clients -> Nat]
      /\ calls \in [Clients -> Nat] /\ fails \in Nat /\ LeftBehind(c)
  BY DEF LeftInv
<1>2. pc'[c] = place
  BY DEF Goto, MemoryTypes
<1>3. /\ calls'[c] = calls[c] + n /\ descs' = descs /\ maps' = maps
  BY <1>1 DEF left
<1> DEFINE a == descs[c]
           k == calls[c]
<1>4. a \in Nat /\ k \in Nat
  BY <1>1
<1>5. LeftBehind(c)'
  <2>1. /\ pc[c] \in Before => a + 1 <= k /\ k <= a + fails + 1
        /\ pc[c] \notin Before => a <= k /\ k <= a + fails
        /\ a <= maps[c] /\ maps[c] <= 2 * a
    BY <1>1 DEF LeftBehind
  <2> HIDE DEF a, k
  <2>2. place \in Before => a + 1 <= k + n /\ k + n <= a + fails' + 1
    BY <1>1, <1>4, <2>1
  <2>3. place \notin Before => a <= k + n /\ k + n <= a + fails'
    BY <1>1, <1>4, <2>1
  <2> QED BY <1>2, <1>3, <2>1, <2>2, <2>3 DEF LeftBehind, a, k
<1>6. descs' = [descs EXCEPT ![c] = a] /\ maps' = [maps EXCEPT ![c] = maps[c]]
  BY <1>1, <1>3
<1>7. calls' = [calls EXCEPT ![c] = k + n] /\ k + n \in Nat /\ maps[c] \in Nat
  BY <1>1
<1>8. fails' \in Nat /\ fails <= fails'
  BY <1>1
<1> HIDE DEF a, k
<1> QED BY <1>4, <1>5, <1>6, <1>7, <1>8, LeftToOthers

(* The descriptor is made, and mapped or released.                         *)
LEMMA MapsLeft ==
  ASSUME LeftInv, MemoryTypes, NEW c \in Clients,
         Wrap(c) \/ MapKernel(c) \/ MapKernelFails(c) \/ MapUser(c)
  PROVE  LeftInv'
<1>1. /\ descs \in [Clients -> Nat] /\ maps \in [Clients -> Nat]
      /\ calls \in [Clients -> Nat] /\ fails \in Nat /\ LeftBehind(c)
  BY DEF LeftInv
<1> DEFINE a == descs[c]
           m == maps[c]
           k == calls[c]
<1>2. a \in Nat /\ m \in Nat /\ k \in Nat
  BY <1>1
<1>3. calls' = [calls EXCEPT ![c] = k]
  BY <1>1 DEF Wrap, MapKernel, MapKernelFails, MapUser
<1>4. /\ descs = [descs EXCEPT ![c] = a] /\ maps = [maps EXCEPT ![c] = m]
  BY <1>1
<1>5. ASSUME NEW place \in Places, Goto(c, place), NEW b \in Nat, NEW n \in Nat,
             NEW f \in Nat, descs' = [descs EXCEPT ![c] = b],
             maps' = [maps EXCEPT ![c] = n], fails' = f, fails <= f,
             place \in {"mapK", "mapU", "answered"},
             b <= k /\ k <= b + f,
             place = "mapK" => b - 1 <= n /\ n <= 2 * (b - 1),
             place = "mapU" => b <= n /\ n <= 2 * b - 1,
             place = "answered" => b <= n /\ n <= 2 * b
      PROVE  LeftInv'
  <2>1. pc'[c] = place
    BY <1>5 DEF Goto, MemoryTypes
  <2>2. descs'[c] = b /\ maps'[c] = n /\ calls'[c] = k
    BY <1>1, <1>3, <1>5
  <2>3. LeftBehind(c)'
    BY <1>5, <2>1, <2>2 DEF LeftBehind, Before
  <2> QED BY <1>2, <1>3, <1>5, <2>3, LeftToOthers
<1>6. "mapK" \in Places /\ "mapU" \in Places /\ "answered" \in Places
  BY DEF Places
<1>7. CASE Wrap(c)
  <2>1. /\ a + 1 <= k /\ k <= a + fails + 1 /\ a <= m /\ m <= 2 * a
    BY <1>1, <1>7 DEF Wrap, At, LeftBehind, Before
  <2>2. /\ descs' = [descs EXCEPT ![c] = a + 1] /\ maps' = [maps EXCEPT ![c] = m]
        /\ fails' = fails /\ Goto(c, "mapK")
    BY <1>4, <1>7 DEF Wrap
  <2> DEFINE b == a + 1
  <2> HIDE DEF a, m, k
  <2>3. /\ b \in Nat /\ b <= k /\ k <= b + fails
        /\ b - 1 <= m /\ m <= 2 * (b - 1) /\ fails <= fails
    BY <1>1, <1>2, <2>1
  <2>4. descs' = [descs EXCEPT ![c] = b]
    BY <2>2
  <2> HIDE DEF b
  <2> QED BY <1>1, <1>2, <1>5, <1>6, <2>2, <2>3, <2>4
<1>8. CASE MapKernel(c)
  <2>1. a <= k /\ k <= a + fails /\ a - 1 <= m /\ m <= 2 * (a - 1)
    BY <1>1, <1>8 DEF MapKernel, At, LeftBehind, Before
  <2>2. /\ descs' = [descs EXCEPT ![c] = a] /\ maps' = [maps EXCEPT ![c] = m + 1]
        /\ fails' = fails /\ Goto(c, "mapU")
    BY <1>4, <1>8 DEF MapKernel
  <2> HIDE DEF a, m, k
  <2>3. /\ m + 1 \in Nat /\ a <= m + 1 /\ m + 1 <= 2 * a - 1 /\ fails <= fails
    BY <1>1, <1>2, <2>1
  <2> QED BY <1>1, <1>2, <1>5, <1>6, <2>1, <2>2, <2>3
<1>9. CASE MapKernelFails(c)
  <2>1. a <= k /\ k <= a + fails /\ a - 1 <= m /\ m <= 2 * (a - 1)
    BY <1>1, <1>9 DEF MapKernelFails, At, LeftBehind, Before
  <2>2. /\ descs' = [descs EXCEPT ![c] = a - 1] /\ maps' = [maps EXCEPT ![c] = m]
        /\ fails' = fails + 1 /\ Goto(c, "answered")
    BY <1>4, <1>9 DEF MapKernelFails, Fail
  <2> HIDE DEF a, m, k
  <2>3. /\ a - 1 \in Nat /\ a - 1 <= k /\ k <= a - 1 + (fails + 1)
        /\ fails + 1 \in Nat /\ fails <= fails + 1
    BY <1>1, <1>2, <2>1
  <2> QED BY <1>1, <1>2, <1>5, <1>6, <2>1, <2>2, <2>3
<1>10. CASE MapUser(c)
  <2>1. a <= k /\ k <= a + fails /\ a <= m /\ m <= 2 * a - 1
    BY <1>1, <1>10 DEF MapUser, At, LeftBehind, Before
  <2>2. /\ descs' = [descs EXCEPT ![c] = a] /\ Goto(c, "answered")
        /\ \/ maps' = [maps EXCEPT ![c] = m + 1] /\ fails' = fails
           \/ maps' = [maps EXCEPT ![c] = m] /\ fails' = fails + 1
    BY <1>4, <1>10 DEF MapUser, MapOrFail, Fail
  <2> HIDE DEF a, m, k
  <2>3. /\ m + 1 \in Nat /\ a <= m + 1 /\ m + 1 <= 2 * a /\ m <= 2 * a
        /\ fails + 1 \in Nat /\ fails <= fails /\ fails <= fails + 1
        /\ k <= a + (fails + 1)
    BY <1>1, <1>2, <2>1
  <2>4. CASE maps' = [maps EXCEPT ![c] = m + 1] /\ fails' = fails
    BY <1>1, <1>2, <1>5, <1>6, <2>1, <2>2, <2>3, <2>4
  <2>5. CASE maps' = [maps EXCEPT ![c] = m] /\ fails' = fails + 1
    BY <1>1, <1>2, <1>5, <1>6, <2>1, <2>2, <2>3, <2>5
  <2> QED BY <2>2, <2>4, <2>5
<1> QED BY <1>7, <1>8, <1>9, <1>10

LEMMA LeftStep == LeftInv /\ MemoryTypes /\ [Next]_vars => LeftInv'
<1> SUFFICES ASSUME LeftInv, MemoryTypes, [Next]_vars PROVE LeftInv'
  OBVIOUS
<1> USE PtdumpAssumption
<1>1. /\ calls \in [Clients -> Nat] /\ fails \in Nat
      /\ req \in [Clients -> Requests]
  BY DEF LeftInv, MemoryTypes
<1>2. \A c \in Clients : calls = [calls EXCEPT ![c] = @ + 0]
  BY <1>1
<1>3. fails + 0 = fails
  BY <1>1
<1>4. ASSUME UNCHANGED <<pc, calls, fails, left>> PROVE LeftInv'
  BY <1>4 DEF LeftInv, LeftBehind, left
<1>5. ASSUME NEW c \in Clients, Process(c) PROVE LeftInv'
  <2>1. CASE CallDumpMem(c)
    <3>1. /\ pc[c] = "ready" /\ calls' = [calls EXCEPT ![c] = @ + 1]
          /\ Goto(c, "alloc") /\ fails' = fails + 0 /\ UNCHANGED left
      BY <1>3, <2>1 DEF CallDumpMem, At
    <3> QED BY <3>1, LeavesAlone DEF Before, Places
  <2>2. CASE AllocBuffer(c) \/ ReadBytes(c)
    <3>1. PICK f \in {0, 1} : fails' = fails + f
      BY <1>3, <2>2 DEF AllocBuffer, ReadBytes
    <3>2. PICK place \in {"read", "wrap"} : Goto(c, place)
      BY <2>2 DEF AllocBuffer, ReadBytes
    <3>3. /\ pc[c] \in {"alloc", "read"} /\ UNCHANGED <<left, calls>>
      BY <2>2 DEF AllocBuffer, ReadBytes, At
    <3> QED BY <1>2, <3>1, <3>2, <3>3, LeavesAlone DEF Before, Places
  <2>3. CASE AllocFails(c) \/ DescribeFails(c) \/ WrapFails(c)
    <3>1. /\ pc[c] \in {"alloc", "read", "wrap"} /\ UNCHANGED <<left, calls>>
          /\ Goto(c, "answered") /\ fails' = fails + 1
      BY <2>3 DEF AllocFails, DescribeFails, WrapFails, At, Fail, memory
    <3> QED BY <1>2, <3>1, LeavesAlone DEF Before, Places
  <2>4. CASE Wrap(c) \/ MapKernel(c) \/ MapKernelFails(c) \/ MapUser(c)
    BY <2>4, MapsLeft
  <2>5. CASE \/ Connect(c) \/ Answered(c) \/ Close(c) \/ LockTasks(c)
             \/ UnlockTasks(c) \/ PrintEnd(c)
    <3>1. PICK place \in {"lock", "ready", "done", "walk", "print"} : Goto(c, place)
      BY <2>5 DEF Connect, Answered, Close, LockTasks, UnlockTasks, PrintEnd
    <3>2. /\ pc[c] \in {"idle", "answered", "ready", "lock", "walk", "print"}
          /\ UNCHANGED <<left, calls, fails>>
      BY <2>5 DEF Connect, Answered, Close, LockTasks, UnlockTasks, PrintEnd, At,
                  Elsewhere, memory
    <3> QED BY <1>2, <1>3, <3>1, <3>2, LeavesAlone DEF Before, Places
  <2>6. CASE StoreTask(c) \/ PrintWord(c)
    BY <1>4, <2>6 DEF StoreTask, PrintWord, Elsewhere, memory
  <2> QED BY <1>5, <2>1, <2>2, <2>3, <2>4, <2>5, <2>6 DEF Process
<1>6. CASE CreateTask \/ TerminateTask
  BY <1>4, <1>6 DEF CreateTask, TerminateTask, TasksChange, memory
<1>7. CASE Finished \/ UNCHANGED vars
  BY <1>4, <1>7 DEF Finished, vars
<1> QED BY <1>5, <1>6, <1>7 DEF Next

LEMMA LeftAlways == Spec => []LeftInv
<1>1. Init => LeftInv
  BY DEF Init, LeftInv, LeftBehind, Before
<1>2. BlockInv => MemoryTypes
  BY DEF BlockInv
<1> QED BY <1>1, <1>2, LeftStep, BlocksAlways, PTL DEF Spec

(* The discipline of blocks, descriptors and mappings in DumpMem and       *)
(* clientClose, and the map objects it leaves behind, for any number of    *)
(* processes at once.                                                      *)
THEOREM BlocksCorrect == Spec => []BlocksOwned
<1>1. BlockInv /\ LeftInv => BlocksOwned
  <2> SUFFICES ASSUME BlockInv, LeftInv PROVE BlocksOwned
    OBVIOUS
  <2>1. OneOwner /\ \A c \in Clients : InPlace(c)
    BY DEF BlockInv
  <2>2. \A c \in Clients : pc[c] = "done" => slot[c] = None
    BY <2>1 DEF InPlace, Without
  <2>3. \A c \in Clients : pc[c] \notin InCall => refs[c] = 0 /\ kmaps[c] = 0
    BY <2>1 DEF InPlace, InCall
  <2>4. \A c \in Clients : pc[c] \notin InCall =>
          /\ descs[c] <= calls[c] /\ calls[c] <= descs[c] + fails
          /\ descs[c] <= maps[c] /\ maps[c] <= 2 * descs[c]
    BY DEF LeftInv, LeftBehind, Before, InCall
  <2>5. ASSUME NEW c \in Clients, pc[c] \notin InCall
        PROVE  /\ refs[c] = 0 /\ kmaps[c] = 0
               /\ descs[c] <= calls[c] /\ calls[c] <= descs[c] + fails
               /\ descs[c] <= maps[c] /\ maps[c] <= 2 * descs[c]
    BY <2>3, <2>4, <2>5
  <2>6. /\ \A b \in Blocks : block[b] # 0 <=> \E c \in Clients : slot[c] = b
        /\ \A c, d \in Clients : slot[c] = slot[d] /\ c # d => slot[c] = None
        /\ \A c \in Clients : slot[c] # None => slotLen[c] = block[slot[c]]
    BY <2>1 DEF OneOwner
  <2> QED BY <2>2, <2>5, <2>6 DEF BlocksOwned
<1> QED BY <1>1, BlocksAlways, LeftAlways, PTL

(* What ReadPhysMem and physmem see is what their own call has copied.     *)
THEOREM ViewsCorrect == Spec => []ViewIsOwnDump
<1>1. BlockInv => ViewIsOwnDump
  BY DEF BlockInv, OwnCopy, CopyFor, ViewIsOwnDump
<1> QED BY <1>1, BlocksAlways, PTL

-----------------------------------------------------------------------------
(* walk_tasks and the loop over its words                                  *)

(* The variables that DumpMem leaves alone have their types.               *)
WalkTypes ==
  /\ cmd \in [Clients -> Commands]
  /\ pc \in [Clients -> Places]
  /\ queue \in Seq(Tasks) /\ lock \in Clients \cup {None}
  /\ pos \in [Clients -> Nat] /\ i \in [Clients -> Nat \ {0}]
  /\ out \in [Clients -> [0 .. Words - 1 -> Nat \cup {Unset}]]
  /\ printed \in [Clients -> Seq(Nat \cup {Unset})]
  /\ overrun \in BOOLEAN /\ snapshot \in [Clients -> Seq(Tasks)]

Walking == {"lock", "walk", "print"}

(* Whoever walks holds the lock, and the list is as it was found.          *)
OwnLock(c) ==
  /\ pc[c] = "walk" <=> lock = c
  /\ pc[c] = "walk" => queue = snapshot[c] /\ pos[c] <= Len(snapshot[c])
  /\ pc[c] \in Walking => cmd[c] = "walkthreads"
  /\ pc[c] \in InCall \cup {"ready", "answered"} => cmd[c] # "walkthreads"
  /\ pc[c] \notin {"walk", "print", "done"} => pos[c] = 0

(* The structure so far: a task in the first of two words, nothing in the  *)
(* second, and all of them inside, until one is stored outside.         *)
OwnWords(c) ==
  /\ \A p \in 0 .. pos[c] - 1 :
       WordOf(p) < Words => out[c][WordOf(p)] = snapshot[c][p + 1]
  /\ \A p \in Nat \ {0} : 2 * p < Words => out[c][2 * p] = Unset
  /\ ~ (overrun /\ pc[c] = "walk") => 2 * pos[c] <= Words
  /\ (cmd[c] = "walkthreads" /\ pc[c] \in {"print", "done"}) =>
       pos[c] = Len(snapshot[c]) /\ out[c][0] = 2 * pos[c]

(* The loop of main has printed the words before the one it is at.         *)
OwnPrints(c) ==
  /\ Len(printed[c]) = i[c] - 1
  /\ \A k \in 1 .. i[c] - 1 : printed[c][k] = out[c][k]
  /\ i[c] = 1 \/ i[c] <= 2 * pos[c]
  /\ pc[c] \notin {"print", "done"} => i[c] = 1
  /\ (cmd[c] = "walkthreads" /\ pc[c] = "done") => i[c] >= 2 * pos[c]

WalkInv ==
  /\ WalkTypes
  /\ overrun => \E d \in Clients : 2 * Len(snapshot[d]) > Words
  /\ \A c \in Clients : OwnLock(c) /\ OwnWords(c) /\ OwnPrints(c)

-----------------------------------------------------------------------------
LEMMA WalkInit == Init => WalkInv
<1> SUFFICES ASSUME Init PROVE WalkInv
  OBVIOUS
<1> USE PtdumpAssumption
<1>1. WalkTypes
  <2>1. <<>> \in Seq(Nat \cup {Unset}) /\ <<>> \in Seq(Tasks)
    OBVIOUS
  <2>2. "walkpt" \in Commands /\ "idle" \in Places
    BY DEF Commands, Places
  <2>3. out \in [Clients -> [0 .. Words - 1 -> Nat \cup {Unset}]]
    BY DEF Init
  <2>4. cmd \in [Clients -> Commands] /\ pc \in [Clients -> Places]
    BY <2>2 DEF Init
  <2>5. queue \in Seq(Tasks) /\ lock \in Clients \cup {None} /\ overrun \in BOOLEAN
    BY DEF Init
  <2>6. pos \in [Clients -> Nat] /\ i \in [Clients -> Nat \ {0}]
    BY DEF Init
  <2>7. printed \in [Clients -> Seq(Nat \cup {Unset})]
    BY <2>1 DEF Init
  <2>8. snapshot \in [Clients -> Seq(Tasks)]
    BY <2>1 DEF Init
  <2> QED BY <2>3, <2>4, <2>5, <2>6, <2>7, <2>8 DEF WalkTypes
<1>2. ASSUME NEW c \in Clients PROVE OwnLock(c) /\ OwnWords(c) /\ OwnPrints(c)
  <2>1. /\ pc[c] = "idle" /\ lock = None /\ pos[c] = 0 /\ i[c] = 1
        /\ printed[c] = <<>> /\ out[c] = [w \in 0 .. Words - 1 |-> Unset]
    BY <1>2 DEF Init
  <2>2. c # None
    BY DEF None
  <2>3. OwnLock(c)
    BY <2>1, <2>2 DEF OwnLock, Walking, InCall
  <2>4. OwnWords(c)
    BY <2>1 DEF OwnWords
  <2>5. OwnPrints(c)
    BY <2>1 DEF OwnPrints
  <2> QED BY <2>3, <2>4, <2>5
<1>3. ~ overrun
  BY DEF Init
<1> QED BY <1>1, <1>2, <1>3 DEF WalkInv

(* What is left to a process by the step of another, or of the kernel.     *)
Untouched(c) ==
  /\ pc'[c] = pc[c] /\ cmd'[c] = cmd[c] /\ pos'[c] = pos[c]
  /\ out'[c] = out[c] /\ snapshot'[c] = snapshot[c]
  /\ i'[c] = i[c] /\ printed'[c] = printed[c]
  /\ lock' = c <=> lock = c
  /\ lock = c => queue' = queue
  /\ overrun => overrun'

LEMMA UntouchedKeeps ==
  ASSUME NEW c \in Clients, Untouched(c), OwnLock(c), OwnWords(c), OwnPrints(c)
  PROVE  OwnLock(c)' /\ OwnWords(c)' /\ OwnPrints(c)'
<1>1. OwnLock(c)'
  BY DEF Untouched, OwnLock
<1>2. OwnWords(c)'
  BY DEF Untouched, OwnWords, WordOf
<1>3. OwnPrints(c)'
  BY DEF Untouched, OwnPrints
<1> QED BY <1>1, <1>2, <1>3

(* A step of one process.                                                  *)
LEMMA WalkerStep ==
  ASSUME WalkInv, NEW c \in Clients, \A d \in Clients \ {c} : Untouched(d),
         WalkTypes', OwnLock(c)', OwnWords(c)', OwnPrints(c)',
         overrun' => \E d \in Clients : 2 * Len(snapshot'[d]) > Words
  PROVE  WalkInv'
<1>1. ASSUME NEW d \in Clients
      PROVE  OwnLock(d)' /\ OwnWords(d)' /\ OwnPrints(d)'
  <2>1. CASE d = c
    BY <2>1
  <2>2. CASE d # c
    <3>1. OwnLock(d) /\ OwnWords(d) /\ OwnPrints(d) /\ Untouched(d)
      BY <2>2 DEF WalkInv
    <3> QED BY <3>1, UntouchedKeeps
  <2> QED BY <2>1, <2>2
<1> QED BY <1>1 DEF WalkInv

(* The steps of DumpMem and of clientClose.                                *)
LEMMA DumpMemWalks ==
  ASSUME WalkInv, NEW c \in Clients,
         NEW place \in InCall \cup {"ready", "answered", "done"},
         pc[c] \in InCall \cup {"ready", "answered"}, Goto(c, place), Stays
  PROVE  WalkInv'
<1>1. WalkTypes /\ OwnLock(c) /\ OwnWords(c) /\ OwnPrints(c)
  BY DEF WalkInv
<1>2. /\ UNCHANGED <<cmd, i, printed, lock, pos, out, snapshot, overrun, queue>>
      /\ pc' = [pc EXCEPT ![c] = place]
  BY DEF Stays, Goto, walk, tasks
<1>3. pc'[c] = place /\ \A d \in Clients \ {c} : pc'[d] = pc[d]
  BY <1>1, <1>2 DEF WalkTypes
<1>4. \A d \in Clients \ {c} : Untouched(d)
  BY <1>2, <1>3 DEF Untouched
<1>5. WalkTypes'
  BY <1>1, <1>2 DEF WalkTypes, Places, InCall
<1>6. cmd[c] # "walkthreads" /\ pos[c] = 0 /\ i[c] = 1 /\ lock # c
  BY <1>1 DEF OwnLock, OwnPrints, InCall
<1>7. OwnLock(c)'
  BY <1>2, <1>3, <1>6 DEF OwnLock, InCall, Walking
<1>8. OwnWords(c)'
  <2>1. \A q \in Nat \ {0} : 2 * q < Words => out[c][2 * q] = Unset
    BY <1>1 DEF OwnWords
  <2>2. 0 .. pos'[c] - 1 = {} /\ 2 * pos'[c] <= Words
    BY <1>2, <1>6, PtdumpAssumption
  <2>3. out'[c] = out[c] /\ cmd'[c] # "walkthreads"
    BY <1>2, <1>6
  <2> QED BY <2>1, <2>2, <2>3 DEF OwnWords
<1>9. OwnPrints(c)'
  BY <1>1, <1>2, <1>6 DEF OwnPrints
<1>10. overrun' => \E d \in Clients : 2 * Len(snapshot'[d]) > Words
  BY <1>2 DEF WalkInv
<1> QED BY <1>4, <1>5, <1>7, <1>8, <1>9, <1>10, WalkerStep

LEMMA ConnectWalks ==
  ASSUME WalkInv, NEW c \in Clients, Connect(c)
  PROVE  WalkInv'
<1>1. WalkTypes /\ OwnLock(c) /\ OwnWords(c) /\ OwnPrints(c)
  BY DEF WalkInv
<1>2. PICK command \in Commands :
        /\ cmd' = [cmd EXCEPT ![c] = command]
        /\ Goto(c, IF command = "walkthreads" THEN "lock" ELSE "ready")
  BY DEF Connect
<1>3. /\ UNCHANGED <<i, printed, lock, pos, out, snapshot, overrun, queue>>
      /\ pc[c] = "idle"
  BY DEF Connect, At, walk, tasks
<1> DEFINE place == IF command = "walkthreads" THEN "lock" ELSE "ready"
<1>4. pc' = [pc EXCEPT ![c] = place] /\ place \in Places
  BY <1>2 DEF Goto, Places
<1>5. /\ pc'[c] = place /\ cmd'[c] = command
      /\ \A d \in Clients \ {c} : pc'[d] = pc[d] /\ cmd'[d] = cmd[d]
  BY <1>1, <1>2, <1>4 DEF WalkTypes
<1>6. \A d \in Clients \ {c} : Untouched(d)
  BY <1>3, <1>5 DEF Untouched
<1>7. WalkTypes'
  BY <1>1, <1>2, <1>3, <1>4 DEF WalkTypes
<1>8. pos[c] = 0 /\ i[c] = 1 /\ lock # c
  BY <1>1, <1>3 DEF OwnLock, OwnPrints
<1>9. OwnLock(c)'
  BY <1>3, <1>5, <1>8 DEF OwnLock, InCall, Walking
<1>10. OwnWords(c)'
  BY <1>1, <1>3, <1>5, <1>8 DEF OwnWords, WordOf
<1>11. OwnPrints(c)'
  BY <1>1, <1>3, <1>5, <1>8 DEF OwnPrints
<1>12. overrun' => \E d \in Clients : 2 * Len(snapshot'[d]) > Words
  BY <1>3 DEF WalkInv
<1> QED BY <1>6, <1>7, <1>9, <1>10, <1>11, <1>12, WalkerStep

LEMMA LockWalks ==
  ASSUME WalkInv, NEW c \in Clients, LockTasks(c)
  PROVE  WalkInv'
<1> USE PtdumpAssumption
<1>1. WalkTypes /\ OwnLock(c) /\ OwnWords(c) /\ OwnPrints(c)
  BY DEF WalkInv
<1>2. /\ pc[c] = "lock" /\ lock = None /\ lock' = c
      /\ snapshot' = [snapshot EXCEPT ![c] = queue]
      /\ pc' = [pc EXCEPT ![c] = "walk"] /\ ~ overrun
      /\ UNCHANGED <<pos, out, i, printed, overrun, cmd, queue>>
  BY DEF LockTasks, At, Goto, Elsewhere, tasks
<1>3. /\ pc'[c] = "walk" /\ snapshot'[c] = queue
      /\ \A d \in Clients \ {c} : pc'[d] = pc[d] /\ snapshot'[d] = snapshot[d]
  BY <1>1, <1>2 DEF WalkTypes
<1>4. \A d \in Clients : d # None
  BY DEF None
<1>5. \A d \in Clients \ {c} : Untouched(d)
  BY <1>2, <1>3, <1>4 DEF Untouched
<1>6. WalkTypes'
  BY <1>1, <1>2 DEF WalkTypes, Places
<1>7. cmd[c] = "walkthreads" /\ pos[c] = 0 /\ i[c] = 1
  BY <1>1, <1>2 DEF OwnLock, OwnPrints, Walking
<1>8. OwnLock(c)'
  <2>1. Len(queue) >= 0
    BY <1>1 DEF WalkTypes
  <2> QED BY <1>2, <1>3, <1>7, <2>1 DEF OwnLock, InCall, Walking
<1>9. OwnWords(c)'
  <2>1. \A q \in Nat \ {0} : 2 * q < Words => out[c][2 * q] = Unset
    BY <1>1 DEF OwnWords
  <2>2. 0 .. pos'[c] - 1 = {} /\ 2 * pos'[c] <= Words
    BY <1>2, <1>7
  <2>3. out'[c] = out[c] /\ pc'[c] = "walk"
    BY <1>2, <1>3
  <2> QED BY <2>1, <2>2, <2>3 DEF OwnWords
<1>10. OwnPrints(c)'
  BY <1>1, <1>2, <1>3, <1>7 DEF OwnPrints
<1> QED BY <1>2, <1>5, <1>6, <1>8, <1>9, <1>10, WalkerStep

LEMMA StoreWalks ==
  ASSUME WalkInv, NEW c \in Clients, StoreTask(c)
  PROVE  WalkInv'
<1> USE PtdumpAssumption
<1>1. WalkTypes /\ OwnLock(c) /\ OwnWords(c) /\ OwnPrints(c)
  BY DEF WalkInv
<1>2. /\ pc[c] = "walk" /\ ~ overrun /\ pos[c] < Len(queue)
      /\ pos' = [pos EXCEPT ![c] = @ + 1]
      /\ UNCHANGED <<pc, lock, snapshot, i, printed, cmd, queue>>
      /\ IF WordOf(pos[c]) < Words
           THEN /\ out' = [out EXCEPT ![c][WordOf(pos[c])] = queue[pos[c] + 1]]
                /\ UNCHANGED overrun
           ELSE overrun' = TRUE /\ UNCHANGED out
  BY DEF StoreTask, At, Elsewhere, tasks
<1> DEFINE p == pos[c]
           n == Len(snapshot[c])
<1>3. /\ p \in Nat /\ queue = snapshot[c] /\ p < n /\ n \in Nat
      /\ queue[p + 1] \in Nat
  <2>1. p \in Nat /\ queue = snapshot[c] /\ p < n /\ queue \in Seq(Tasks)
    BY <1>1, <1>2 DEF OwnLock, WalkTypes
  <2>2. Len(queue) = n /\ n \in Nat
    BY <2>1, LenProperties
  <2>3. p + 1 \in 1 .. Len(queue)
    <3> HIDE DEF p, n
    <3> QED BY <2>1, <2>2
  <2>4. queue[p + 1] \in Tasks
    BY <2>1, <2>3, ElementOfSeq
  <2> QED BY <2>1, <2>2, <2>4
<1>4. /\ pos'[c] = p + 1
      /\ \A d \in Clients \ {c} : pos'[d] = pos[d]
  BY <1>1, <1>2 DEF WalkTypes
<1>5. \A d \in Clients \ {c} : out'[d] = out[d]
  BY <1>1, <1>2 DEF WalkTypes
<1>6. \A d \in Clients \ {c} : Untouched(d)
  BY <1>2, <1>4, <1>5 DEF Untouched
<1>31. p \in Nat
  BY <1>3
<1>7. /\ out'[c] \in [0 .. Words - 1 -> Nat \cup {Unset}]
      /\ \A w \in 0 .. Words - 1 :
           out'[c][w] = IF w = 1 + 2 * p THEN snapshot[c][p + 1] ELSE out[c][w]
      /\ 1 + 2 * p < Words => overrun' = overrun
  <2>1. out[c] \in [0 .. Words - 1 -> Nat \cup {Unset}]
    BY <1>1 DEF WalkTypes
  <2>2. CASE 1 + 2 * p < Words
    <3>1. /\ out' = [out EXCEPT ![c][1 + 2 * p] = queue[p + 1]]
          /\ overrun' = overrun
      BY <1>2, <2>2 DEF WordOf
    <3>2. out'[c] = [out[c] EXCEPT ![1 + 2 * p] = queue[p + 1]]
      BY <1>1, <3>1 DEF WalkTypes
    <3>3. queue[p + 1] = snapshot[c][p + 1] /\ queue[p + 1] \in Nat
      BY <1>3
    <3> QED BY ZenonT(60), <2>1, <3>1, <3>2, <3>3
  <2>3. CASE ~ (1 + 2 * p < Words)
    <3>1. out' = out
      BY <1>2, <2>3 DEF WordOf
    <3>2. \A w \in 0 .. Words - 1 : w # 1 + 2 * p
      <4> HIDE DEF p
      <4> QED BY <1>31, <2>3
    <3> QED BY <2>1, <2>3, <3>1, <3>2
  <2> QED BY <2>2, <2>3
<1>8. WalkTypes'
  <2>1. out' \in [Clients -> [0 .. Words - 1 -> Nat \cup {Unset}]]
    <3>1. CASE WordOf(p) < Words
      <4>1. out' = [out EXCEPT ![c] = out'[c]]
        BY <1>1, <1>2, <3>1 DEF WalkTypes
      <4> QED BY <1>1, <1>7, <4>1 DEF WalkTypes
    <3>2. CASE ~ (WordOf(p) < Words)
      BY <1>1, <1>2, <3>2 DEF WalkTypes
    <3> QED BY <3>1, <3>2
  <2>2. overrun' \in BOOLEAN
    BY <1>1, <1>2 DEF WalkTypes
  <2>3. pos' \in [Clients -> Nat]
    BY SMTT(30), <1>1, <1>2 DEF WalkTypes
  <2> QED BY <1>1, <1>2, <2>1, <2>2, <2>3 DEF WalkTypes
<1>9. OwnLock(c)'
  BY SMTT(30), <1>1, <1>2, <1>3, <1>4 DEF OwnLock
<1>10. OwnWords(c)'
  <2>1. ASSUME NEW q \in 0 .. p, WordOf(q) < Words
        PROVE  out'[c][WordOf(q)] = snapshot[c][q + 1]
    <3>1. q \in Nat /\ 1 + 2 * q \in 0 .. Words - 1
      BY <1>31, <2>1 DEF WordOf
    <3>2. CASE q = p
      BY <1>7, <3>1, <3>2 DEF WordOf
    <3>3. CASE q # p
      <4>1. q \in 0 .. p - 1 /\ 1 + 2 * q # 1 + 2 * p
        <5> HIDE DEF p
        <5> QED BY <1>31, <3>1, <3>3
      <4>2. out[c][1 + 2 * q] = snapshot[c][q + 1]
        BY <1>1, <2>1, <4>1 DEF OwnWords, WordOf
      <4> QED BY <1>7, <3>1, <4>1, <4>2 DEF WordOf
    <3> QED BY <3>2, <3>3
  <2>2. ASSUME NEW q \in Nat \ {0}, 2 * q < Words
        PROVE  out'[c][2 * q] = Unset
    <3>1. 2 * q \in 0 .. Words - 1 /\ 2 * q # 1 + 2 * p
      <4> HIDE DEF p
      <4> QED BY <1>31, <2>2
    <3>2. out[c][2 * q] = Unset
      BY <1>1, <2>2 DEF OwnWords
    <3> QED BY <1>7, <3>1, <3>2
  <2>3. ~ overrun' => 2 * (p + 1) <= Words
    BY SMTT(30), <1>2, <1>3 DEF WordOf
  <2>4. pc'[c] = "walk"
    BY <1>2
  <2>5. 0 .. pos'[c] - 1 = 0 .. p
    BY <1>3, <1>4
  <2> QED BY <1>2, <1>4, <2>1, <2>2, <2>3, <2>4, <2>5 DEF OwnWords, WordOf
<1>11. OwnPrints(c)'
  BY <1>1, <1>2 DEF OwnPrints
<1>12. overrun' => \E d \in Clients : 2 * Len(snapshot'[d]) > Words
  <2>1. overrun' => 2 * n > Words
    <3>1. overrun' => ~ (1 + 2 * p < Words)
      BY <1>2 DEF WordOf
    <3>2. p < n /\ n \in Nat
      BY <1>3
    <3> HIDE DEF p, n
    <3> QED BY <1>31, <3>1, <3>2
  <2> QED BY <1>2, <2>1
<1> QED BY <1>6, <1>8, <1>9, <1>10, <1>11, <1>12, WalkerStep

LEMMA UnlockWalks ==
  ASSUME WalkInv, NEW c \in Clients, UnlockTasks(c)
  PROVE  WalkInv'
<1> USE PtdumpAssumption
<1>1. WalkTypes /\ OwnLock(c) /\ OwnWords(c) /\ OwnPrints(c)
  BY DEF WalkInv
<1>2. /\ pc[c] = "walk" /\ ~ overrun /\ pos[c] = Len(queue)
      /\ lock' = None
      /\ out' = [out EXCEPT ![c][0] = 2 * pos[c]]
      /\ pc' = [pc EXCEPT ![c] = "print"]
      /\ UNCHANGED <<pos, snapshot, i, printed, overrun, cmd, queue>>
  BY DEF UnlockTasks, At, Goto, Elsewhere, tasks, WordsPerTask
<1>3. pos[c] \in Nat /\ queue = snapshot[c] /\ lock = c
  BY <1>1, <1>2 DEF OwnLock, WalkTypes
<1>4. /\ pc'[c] = "print" /\ out'[c] \in [0 .. Words - 1 -> Nat \cup {Unset}]
      /\ \A w \in 0 .. Words - 1 :
           out'[c][w] = IF w = 0 THEN 2 * pos[c] ELSE out[c][w]
      /\ \A d \in Clients \ {c} : pc'[d] = pc[d] /\ out'[d] = out[d]
  BY <1>1, <1>2, <1>3 DEF WalkTypes
<1>5. \A d \in Clients : d # None
  BY DEF None
<1>6. \A d \in Clients \ {c} : Untouched(d)
  BY <1>2, <1>3, <1>4, <1>5 DEF Untouched
<1>7. WalkTypes'
  <2>1. out' \in [Clients -> [0 .. Words - 1 -> Nat \cup {Unset}]]
    <3>1. out' = [out EXCEPT ![c] = out'[c]]
      BY <1>1, <1>2 DEF WalkTypes
    <3> QED BY <1>1, <1>4, <3>1 DEF WalkTypes
  <2> QED BY <1>1, <1>2, <2>1 DEF WalkTypes, Places
<1>8. cmd[c] = "walkthreads"
  BY <1>1, <1>2 DEF OwnLock, Walking
<1>9. OwnLock(c)'
  BY <1>2, <1>4, <1>5, <1>8 DEF OwnLock, InCall, Walking
<1>10. OwnWords(c)'
  <2>1. ASSUME NEW q \in 0 .. pos[c] - 1, WordOf(q) < Words
        PROVE  out'[c][WordOf(q)] = snapshot[c][q + 1]
    <3>1. q \in Nat /\ 1 + 2 * q \in 0 .. Words - 1 /\ 1 + 2 * q # 0
      BY <1>3, <2>1 DEF WordOf
    <3>2. out[c][1 + 2 * q] = snapshot[c][q + 1]
      BY <1>1, <2>1 DEF OwnWords, WordOf
    <3> QED BY <1>4, <3>1, <3>2 DEF WordOf
  <2>2. ASSUME NEW q \in Nat \ {0}, 2 * q < Words
        PROVE  out'[c][2 * q] = Unset
    <3>1. 2 * q \in 0 .. Words - 1 /\ 2 * q # 0
      BY <2>2
    <3>2. out[c][2 * q] = Unset
      BY <1>1, <2>2 DEF OwnWords
    <3> QED BY <1>4, <3>1, <3>2
  <2>3. 2 * pos[c] <= Words
    BY <1>1, <1>2 DEF OwnWords
  <2>4. out'[c][0] = 2 * pos[c]
    BY <1>4
  <2> QED BY <1>2, <1>3, <2>1, <2>2, <2>3, <2>4 DEF OwnWords, WordOf
<1>11. OwnPrints(c)'
  <2>1. i[c] = 1
    BY <1>1, <1>2 DEF OwnPrints
  <2> QED BY <1>1, <1>2, <1>4, <2>1 DEF OwnPrints
<1> QED BY <1>2, <1>6, <1>7, <1>9, <1>10, <1>11, WalkerStep

LEMMA PrintWalks ==
  ASSUME WalkInv, NEW c \in Clients, PrintWord(c) \/ PrintEnd(c)
  PROVE  WalkInv'
<1> USE PtdumpAssumption
<1>1. WalkTypes /\ OwnLock(c) /\ OwnWords(c) /\ OwnPrints(c)
  BY DEF WalkInv
<1>2. /\ pc[c] = "print" /\ ~ overrun
      /\ UNCHANGED <<pos, out, snapshot, lock, overrun, cmd, queue>>
  BY DEF PrintWord, PrintEnd, At, Elsewhere, tasks, walk
<1>3. /\ cmd[c] = "walkthreads" /\ pos[c] \in Nat /\ i[c] \in Nat \ {0}
      /\ out[c][0] = 2 * pos[c] /\ 2 * pos[c] <= Words
      /\ printed[c] \in Seq(Nat \cup {Unset})
  BY <1>1, <1>2 DEF OwnLock, OwnWords, Walking, WalkTypes
<1>4. CASE PrintWord(c)
  <2>1. /\ i[c] < 2 * pos[c] /\ pc' = pc
        /\ printed' = [printed EXCEPT ![c] = Append(@, out[c][i[c]])]
        /\ i' = [i EXCEPT ![c] = @ + 1]
    BY <1>3, <1>4 DEF PrintWord
  <2>2. out[c][i[c]] \in Nat \cup {Unset}
    BY SMTT(30), <1>1, <1>3, <2>1 DEF WalkTypes
  <2>3. /\ i'[c] = i[c] + 1 /\ printed'[c] = Append(printed[c], out[c][i[c]])
        /\ \A d \in Clients \ {c} : i'[d] = i[d] /\ printed'[d] = printed[d]
    BY <1>1, <2>1 DEF WalkTypes
  <2>4. \A d \in Clients \ {c} : Untouched(d)
    BY <1>2, <2>1, <2>3 DEF Untouched
  <2>5. WalkTypes'
    <3>1. Append(printed[c], out[c][i[c]]) \in Seq(Nat \cup {Unset})
      BY <1>3, <2>2
    <3>2. i[c] + 1 \in Nat \ {0}
      BY SMTT(30), <1>3
    <3> QED BY <1>1, <1>2, <2>1, <3>1, <3>2 DEF WalkTypes
  <2>6. OwnLock(c)' /\ OwnWords(c)'
    BY <1>1, <1>2, <2>1 DEF OwnLock, OwnWords, WordOf
  <2>7. OwnPrints(c)'
    <3>1. Len(printed[c]) = i[c] - 1
          /\ \A k \in 1 .. i[c] - 1 : printed[c][k] = out[c][k]
      BY <1>1 DEF OwnPrints
    <3>2. /\ Len(printed'[c]) = i[c]
          /\ \A k \in 1 .. i[c] : printed'[c][k] = out[c][k]
      <4> DEFINE s == printed[c]
                 w == out[c][i[c]]
      <4>1. /\ Len(Append(s, w)) = Len(s) + 1
            /\ \A k \in 1 .. Len(s) : Append(s, w)[k] = s[k]
            /\ Append(s, w)[Len(s) + 1] = w
        BY SMTT(30), <1>3, <2>2, AppendProperties
      <4>2. printed'[c] = Append(s, w) /\ Len(s) = i[c] - 1 /\ i[c] \in Nat \ {0}
        BY <1>3, <2>3, <3>1
      <4>3. \A k \in 1 .. i[c] - 1 : s[k] = out[c][k]
        BY <3>1
      <4> HIDE DEF s
      <4>4. Len(Append(s, w)) = i[c] /\ Append(s, w)[i[c]] = w
        BY <4>1, <4>2
      <4>5. ASSUME NEW k \in 1 .. i[c] PROVE Append(s, w)[k] = out[c][k]
        <5>1. CASE k = i[c]
          BY <4>4, <5>1
        <5>2. CASE k # i[c]
          <6>1. k \in 1 .. i[c] - 1
            BY <4>2, <5>2
          <6> QED BY <4>1, <4>2, <4>3, <6>1
        <5> QED BY <5>1, <5>2
      <4> QED BY <4>2, <4>4, <4>5
    <3>3. i'[c] - 1 = i[c] /\ i'[c] <= 2 * pos[c]
      BY SMTT(30), <1>3, <2>1, <2>3
    <3>4. pc'[c] = "print"
      BY <1>2, <2>1
    <3> QED BY <1>2, <3>2, <3>3, <3>4 DEF OwnPrints
  <2> QED BY <1>2, <2>4, <2>5, <2>6, <2>7, WalkerStep
<1>5. CASE PrintEnd(c)
  <2>1. /\ i[c] >= 2 * pos[c] /\ pc' = [pc EXCEPT ![c] = "done"]
        /\ UNCHANGED <<i, printed>>
    BY <1>3, <1>5 DEF PrintEnd, Goto
  <2>2. pc'[c] = "done" /\ \A d \in Clients \ {c} : pc'[d] = pc[d]
    BY <1>1, <2>1 DEF WalkTypes
  <2>3. \A d \in Clients \ {c} : Untouched(d)
    BY <1>2, <2>1, <2>2 DEF Untouched
  <2>4. WalkTypes'
    BY <1>1, <1>2, <2>1 DEF WalkTypes, Places
  <2>5. OwnLock(c)'
    BY <1>1, <1>2, <2>2 DEF OwnLock, InCall, Walking
  <2>6. OwnWords(c)' /\ OwnPrints(c)'
    BY <1>1, <1>2, <2>1, <2>2 DEF OwnWords, OwnPrints, WordOf
  <2> QED BY <1>2, <2>3, <2>4, <2>5, <2>6, WalkerStep
<1> QED BY <1>4, <1>5

(* Tasks come and go only while nobody holds the lock.                     *)
LEMMA TasksChangeWalks ==
  ASSUME WalkInv, CreateTask \/ TerminateTask
  PROVE  WalkInv'
<1>1. WalkTypes
  BY DEF WalkInv
<1>2. PICK q \in Seq(Tasks) : TasksChange(q)
  <2>1. CASE CreateTask
    <3>1. PICK t \in Tasks : TasksChange(Append(queue, t))
      BY <2>1 DEF CreateTask
    <3>2. Append(queue, t) \in Seq(Tasks)
      BY <1>1, AppendProperties DEF WalkTypes
    <3> QED BY <3>1, <3>2
  <2>2. CASE TerminateTask
    <3>1. PICK k \in DOMAIN queue :
            TasksChange(SubSeq(queue, 1, k - 1) \o SubSeq(queue, k + 1, Len(queue)))
      BY <2>2 DEF TerminateTask
    <3>2. queue \in Seq(Tasks) /\ Len(queue) \in Nat /\ k \in 1 .. Len(queue)
      BY <1>1, LenProperties DEF WalkTypes
    <3>3. \A m \in 1 .. k - 1 : m \in 1 .. Len(queue)
      BY <3>2
    <3>4. \A m \in k + 1 .. Len(queue) : m \in 1 .. Len(queue)
      BY <3>2
    <3>5. /\ SubSeq(queue, 1, k - 1) \in Seq(Tasks)
          /\ SubSeq(queue, k + 1, Len(queue)) \in Seq(Tasks)
      BY <3>2, <3>3, <3>4, SubSeqProperties
    <3>6. SubSeq(queue, 1, k - 1) \o SubSeq(queue, k + 1, Len(queue)) \in Seq(Tasks)
      BY <3>5, ConcatProperties
    <3> QED BY <3>1, <3>6
  <2> QED BY <2>1, <2>2
<1>3. /\ lock = None /\ queue' = q
      /\ UNCHANGED <<pc, cmd, i, printed, lock, pos, out, snapshot, overrun>>
  BY <1>2 DEF TasksChange, walk
<1>4. WalkTypes'
  BY <1>1, <1>3 DEF WalkTypes
<1>5. ASSUME NEW c \in Clients PROVE OwnLock(c)' /\ OwnWords(c)' /\ OwnPrints(c)'
  <2>1. c # None
    BY PtdumpAssumption
  <2>2. Untouched(c)
    BY <1>3, <2>1 DEF Untouched
  <2> QED BY <2>2, UntouchedKeeps DEF WalkInv
<1> QED BY <1>3, <1>4, <1>5 DEF WalkInv

LEMMA WalkStep == WalkInv /\ [Next]_vars => WalkInv'
<1> SUFFICES ASSUME WalkInv, [Next]_vars PROVE WalkInv'
  OBVIOUS
<1>1. ASSUME NEW c \in Clients, Process(c) PROVE WalkInv'
  <2>1. CASE Connect(c)
    BY <2>1, ConnectWalks
  <2>2. CASE \/ CallDumpMem(c) \/ AllocBuffer(c) \/ AllocFails(c)
             \/ DescribeFails(c) \/ ReadBytes(c) \/ WrapFails(c) \/ Wrap(c)
             \/ MapKernel(c) \/ MapKernelFails(c) \/ MapUser(c) \/ Close(c)
    <3>1. PICK place \in InCall \cup {"ready", "answered", "done"} : Goto(c, place)
      BY <2>2 DEF CallDumpMem, AllocBuffer, AllocFails, DescribeFails,
                  ReadBytes, WrapFails, Wrap, MapKernel, MapKernelFails, MapUser,
                  Close, InCall
    <3>2. pc[c] \in InCall \cup {"ready", "answered"} /\ Stays
      BY <2>2 DEF CallDumpMem, AllocBuffer, AllocFails, DescribeFails,
                  ReadBytes, WrapFails, Wrap, MapKernel, MapKernelFails, MapUser,
                  Close, InCall, At
    <3> QED BY <3>1, <3>2, DumpMemWalks
  <2>3. CASE Answered(c)
    <3>1. PICK place \in {"ready", "done"} : Goto(c, place)
      BY <2>3 DEF Answered
    <3>2. pc[c] = "answered" /\ Stays
      BY <2>3 DEF Answered, At
    <3> QED BY <3>1, <3>2, DumpMemWalks
  <2>4. CASE LockTasks(c)
    BY <2>4, LockWalks
  <2>5. CASE StoreTask(c)
    BY <2>5, StoreWalks
  <2>6. CASE UnlockTasks(c)
    BY <2>6, UnlockWalks
  <2>7. CASE PrintWord(c) \/ PrintEnd(c)
    BY <2>7, PrintWalks
  <2> QED BY <1>1, <2>1, <2>2, <2>3, <2>4, <2>5, <2>6, <2>7 DEF Process
<1>2. CASE CreateTask \/ TerminateTask
  BY <1>2, TasksChangeWalks
<1>3. CASE Finished \/ UNCHANGED vars
  <2>1. UNCHANGED vars
    BY <1>3 DEF Finished
  <2>2. WalkTypes'
    BY <2>1 DEF WalkInv, WalkTypes, vars
  <2>3. ASSUME NEW c \in Clients
        PROVE  OwnLock(c)' /\ OwnWords(c)' /\ OwnPrints(c)'
    <3>1. Untouched(c)
      BY <2>1 DEF Untouched, vars
    <3> QED BY <3>1, UntouchedKeeps DEF WalkInv
  <2>4. overrun' => \E d \in Clients : 2 * Len(snapshot'[d]) > Words
    BY <2>1 DEF WalkInv, vars
  <2> QED BY <2>2, <2>3, <2>4 DEF WalkInv
<1> QED BY <1>1, <1>2, <1>3 DEF Next

LEMMA WalksAlways == Spec => []WalkInv
BY WalkInit, WalkStep, PTL DEF Spec

(* walkthreads: a walk that comes to its end found a list that fits, to    *)
(* the last word at most, and every task it found when it locked the list  *)
(* is printed, in order, with a word left out between two of them, for     *)
(* every number of processes, tasks and words.                             *)
THEOREM TasksCorrect == Spec => []TasksPrinted
<1>1. WalkInv => TasksPrinted
  <2> SUFFICES ASSUME WalkInv, NEW c \in Clients, cmd[c] = "walkthreads",
                      pc[c] = "done"
               PROVE  LET n == Len(snapshot[c])
                      IN /\ 2 * n <= Words
                         /\ Len(printed[c]) = IF n = 0 THEN 0 ELSE 2 * n - 1
                         /\ \A k \in 1..n : printed[c][2 * k - 1] = snapshot[c][k]
                         /\ \A k \in 1 .. n - 1 : printed[c][2 * k] = Unset
    BY DEF WalkInv, TasksPrinted
  <2> DEFINE n == Len(snapshot[c])
  <2>1. WalkTypes /\ OwnWords(c) /\ OwnPrints(c)
    BY DEF WalkInv
  <2>2. n \in Nat /\ i[c] \in Nat \ {0} /\ pos[c] = n
    BY <2>1, LenProperties DEF WalkTypes, OwnWords
  <2>7. 2 * n <= Words
    BY <2>1, <2>2 DEF OwnWords
  <2>3. i[c] = IF n = 0 THEN 1 ELSE 2 * n
    <3>1. (i[c] = 1 \/ i[c] <= 2 * pos[c]) /\ i[c] >= 2 * pos[c]
      BY <2>1 DEF OwnPrints
    <3> HIDE DEF n
    <3> QED BY <2>2, <3>1
  <2>4. /\ Len(printed[c]) = i[c] - 1
        /\ \A k \in 1 .. i[c] - 1 : printed[c][k] = out[c][k]
    BY <2>1 DEF OwnPrints
  <2>5. ASSUME NEW k \in 1..n PROVE printed[c][2 * k - 1] = snapshot[c][k]
    <3>1. 2 * k - 1 \in 1 .. i[c] - 1 /\ k - 1 \in 0 .. n - 1
      <4> HIDE DEF n
      <4> QED BY <2>2, <2>3
    <3>2. WordOf(k - 1) = 2 * k - 1 /\ WordOf(k - 1) < Words /\ k - 1 + 1 = k
      <4>1. 2 * n <= Words
        BY <2>7
      <4> HIDE DEF n
      <4> QED BY <2>2, <4>1, PtdumpAssumption DEF WordOf
    <3>3. out[c][WordOf(k - 1)] = snapshot[c][k - 1 + 1]
      BY <2>1, <2>2, <3>1, <3>2 DEF OwnWords
    <3> QED BY <2>4, <3>1, <3>2, <3>3
  <2>6. ASSUME NEW k \in 1 .. n - 1 PROVE printed[c][2 * k] = Unset
    <3>0. 2 * n <= Words
      BY <2>7
    <3> HIDE DEF n
    <3>1. 2 * k \in 1 .. i[c] - 1 /\ k \in Nat \ {0} /\ 2 * k < Words
      BY <2>2, <2>3, <3>0, PtdumpAssumption
    <3>2. out[c][2 * k] = Unset
      BY <2>1, <3>1 DEF OwnWords
    <3> QED BY <2>4, <3>1, <3>2
  <2> QED BY <2>2, <2>3, <2>4, <2>5, <2>6, <2>7
<1> QED BY <1>1, WalksAlways, PTL

-----------------------------------------------------------------------------
(* Types                                                                   *)

(* The counters keep their bounds.                                         *)
Counters ==
  /\ calls \in [Clients -> 0..MaxCalls]
  /\ fails \in 0..MaxFails /\ events \in 0..MaxEvents

LEMMA CountersStep == Counters /\ MemoryTypes /\ [Next]_vars => Counters'
<1> SUFFICES ASSUME Counters, MemoryTypes, [Next]_vars PROVE Counters'
  OBVIOUS
<1> USE PtdumpAssumption
<1>1. ASSUME NEW c \in Clients, Process(c) PROVE Counters'
  <2>1. CASE CallDumpMem(c)
    <3>1. /\ calls[c] \in 0..MaxCalls /\ calls[c] < MaxCalls
          /\ calls' = [calls EXCEPT ![c] = @ + 1] /\ UNCHANGED <<fails, events>>
      BY <2>1 DEF CallDumpMem, Counters, Stays, tasks
    <3>2. calls[c] + 1 \in 0..MaxCalls
      BY <3>1
    <3> QED BY <3>1, <3>2 DEF Counters
  <2>2. CASE ReadBytes(c)
    <3>1. PICK m \in {req[c].length} \cup (IF fails < MaxFails THEN 0 .. req[c].length ELSE {}) :
            fails' = IF m = req[c].length THEN fails ELSE fails + 1
      BY <2>2 DEF ReadBytes
    <3>2. fails' \in 0..MaxFails
      BY <3>1 DEF Counters
    <3>3. UNCHANGED <<calls, events>>
      BY <2>2 DEF ReadBytes, Stays, tasks
    <3> QED BY <3>2, <3>3 DEF Counters
  <2>3. CASE \/ AllocFails(c) \/ DescribeFails(c) \/ WrapFails(c)
             \/ MapKernelFails(c) \/ MapUser(c)
    <3>1. (Fail \/ fails' = fails) /\ UNCHANGED <<calls, events>>
      BY <2>3 DEF AllocFails, DescribeFails, WrapFails, MapKernelFails, MapUser,
                  MapOrFail, Stays, memory, tasks
    <3> QED BY <3>1 DEF Fail, Counters
  <2>4. CASE \/ Connect(c) \/ AllocBuffer(c) \/ Wrap(c) \/ MapKernel(c)
             \/ Answered(c) \/ Close(c) \/ LockTasks(c) \/ StoreTask(c)
             \/ UnlockTasks(c) \/ PrintWord(c) \/ PrintEnd(c)
    <3>1. UNCHANGED <<calls, fails, events>>
      BY <2>4 DEF Connect, AllocBuffer, Wrap, MapKernel, Answered, Close,
                  LockTasks, StoreTask, UnlockTasks, PrintWord, PrintEnd, Stays,
                  Elsewhere, memory, tasks
    <3> QED BY <3>1 DEF Counters
  <2> QED BY <1>1, <2>1, <2>2, <2>3, <2>4 DEF Process
<1>2. CASE CreateTask \/ TerminateTask
  <2>1. /\ events < MaxEvents /\ events' = events + 1
        /\ UNCHANGED <<calls, fails>>
    BY <1>2 DEF CreateTask, TerminateTask, TasksChange, memory
  <2> QED BY <2>1 DEF Counters
<1>3. CASE Finished \/ UNCHANGED vars
  BY <1>3 DEF Finished, vars, Counters
<1> QED BY <1>1, <1>2, <1>3 DEF Next

(* The variables of the extension and of the processes keep their types,   *)
(* and the calls of a process their number.                                *)
THEOREM TypeCorrect == Spec => []TypeOK
<1>1. Init => Counters
  BY PtdumpAssumption DEF Init, Counters
<1>2. BlockInv => MemoryTypes /\ \A c \in Clients : InPlace(c)
  BY DEF BlockInv
<1>3. BlockInv /\ LeftInv /\ WalkInv /\ Counters => TypeOK
  <2> SUFFICES ASSUME BlockInv, LeftInv, WalkInv, Counters PROVE TypeOK
    OBVIOUS
  <2>1. MemoryTypes /\ WalkTypes /\ \A c \in Clients : InPlace(c)
    BY DEF BlockInv, WalkInv
  <2>2. refs \in [Clients -> 0..1] /\ kmaps \in [Clients -> 0..1]
    BY <2>1 DEF MemoryTypes, InPlace
  <2>3. i \in [Clients -> Nat]
    BY <2>1 DEF WalkTypes
  <2>4. descs \in [Clients -> Nat] /\ maps \in [Clients -> Nat]
    BY DEF LeftInv
  <2> QED BY <2>1, <2>2, <2>3, <2>4 DEF TypeOK, MemoryTypes, WalkTypes, Counters
<1>4. Counters /\ BlockInv /\ [Next]_vars => Counters'
  BY <1>2, CountersStep
<1>5. Spec => []Counters
  BY <1>1, <1>4, BlocksAlways, PTL DEF Spec
<1> QED BY <1>3, <1>5, BlocksAlways, LeftAlways, WalksAlways, PTL
=============================================================================
