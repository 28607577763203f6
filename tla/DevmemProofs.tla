----------------------------- MODULE DevmemProofs -----------------------------
(***************************************************************************)
(* Theorems about DevmemTtbr for every set of tasks and every order in     *)
(* which they are forked and exit: the walk of the task list under RCU     *)
(* records each task that stays, once and with its own table.              *)
(*                                                                         *)
(* The order of the list is not in the state.  The invariant says that     *)
(* there are a rank r of the tasks, which the next pointers follow, and a  *)
(* set V of the tasks the reader may still come to: those that are linked  *)
(* and those unlinked since its call, whose next pointers it may follow.   *)
(***************************************************************************)
EXTENDS DevmemTtbr, FiniteSetTheorems, TLAPS

Nodes == Tasks \cup {InitTask}
Heads == linked \cup {InitTask}

(* s is one that the step from n passes over.                              *)
Between(r, n, s) ==
  r[n] < r[s] /\ (next[n] = InitTask \/ r[s] < r[next[n]])

RankType(r, b) ==
  /\ b \in Nat
  /\ r \in [Nodes -> Nat]
  /\ r[InitTask] = 0
  /\ \A t \in Tasks : 0 < r[t] /\ r[t] < b

Members(V) ==
  /\ linked \subseteq V /\ V \subseteq Tasks \ unborn
  /\ unborn \subseteq Tasks
  /\ mm \subseteq linked /\ steady \subseteq mm
  /\ next \in [Nodes -> Nodes]
  /\ \A n \in Heads : next[n] \in Heads
  /\ \A n \in V : next[n] \in V \cup {InitTask}

Ordered(r, V) ==
  /\ \A m, n \in V : r[m] = r[n] => m = n
  /\ \A n \in V \cup {InitTask} : next[n] = InitTask \/ r[n] < r[next[n]]

NoneBetween(r, V) ==
  /\ \A n \in Heads, s \in linked : ~ Between(r, n, s)
  /\ \A n \in V, s \in steady : ~ Between(r, n, s)

Reached == \A n \in Heads : \E m \in Heads : next[m] = n

ListInv(r, V, b) ==
  RankType(r, b) /\ Members(V) /\ Ordered(r, V) /\ NoneBetween(r, V) /\ Reached

Recorded(s) == \E k \in DOMAIN entries : entries[k] = [task |-> s, pgd |-> s]

(* The records of the call so far, and what is still ahead of it.          *)
CallInv(r, V) ==
  /\ kpc # "none" =>
       /\ curr \in V \cup {InitTask}
       /\ \A k \in DOMAIN entries :
            /\ entries[k].task \in V
            /\ curr = InitTask \/ r[entries[k].task] < r[curr]
       /\ \A s \in steady :
            Recorded(s) \/ (curr # InitTask /\ r[curr] <= r[s])
  /\ kpc \in {"load", "store"} => curr # InitTask
  /\ kpc = "store" =>
       /\ pgd \in {None, curr} \/ curr \in torn
       /\ curr \in steady => pgd = curr

(* The records do not depend on the rank.                                  *)
RecordInv ==
  /\ entries \in Seq(RecordType)
  /\ \A j, k \in DOMAIN entries : entries[j].task = entries[k].task => j = k
  /\ \A k \in DOMAIN entries :
       entries[k].pgd \in {None, entries[k].task} \/ entries[k].task \in torn
  /\ kpc # "none" => processes = Len(entries)
  /\ upc = "call" => entries = <<>>
  /\ upc = "print" => result >= 0
  /\ (upc \in {"returned", "print", "done"} /\ result >= 0) =>
       result = Len(entries) /\ \A s \in steady : Recorded(s)

PrintInv ==
  /\ printed \in Seq(RecordType)
  /\ Len(printed) <= Len(entries)
  /\ \A k \in 1 .. Len(printed) : printed[k] = entries[k]
  /\ printed # <<>> => upc \in {"print", "done"}
  /\ (upc = "done" /\ result >= 0) => Len(printed) = result

(* The rest of the types, and the depth of the read-side sections.         *)
Counters ==
  /\ kpc \in {"none", "check", "load", "store", "oops"}
  /\ kpc = "none" <=> upc # "wait"
  /\ upc \in {"map", "call", "wait", "returned", "print", "done", "nomap"}
  /\ curr \in Nodes /\ pgd \in Tables
  /\ used \in Nat /\ processes \in Nat
  /\ size \in Nat /\ slack \in Slacks \cup {0}
  /\ result \in Nat \cup {-1}
  /\ faults \in Nat
  /\ rcu = IF kpc = "none" THEN faults ELSE faults + 1

(* A task whose mm is left while it is read had one, and is not steady.    *)
TornInv ==
  /\ mm \cap KThreads = {}
  /\ kpc = "load" => curr \in Tasks \ KThreads
  /\ left \in BOOLEAN /\ (left => kpc = "load" /\ curr \notin steady)
  /\ torn \subseteq Tasks \ KThreads

WalkInv(r, V, b) == ListInv(r, V, b) /\ CallInv(r, V)

Walked ==
  \E r \in [Nodes -> Nat], V \in SUBSET Tasks, b \in Nat : WalkInv(r, V, b)

Inv == RecordInv /\ PrintInv /\ Counters /\ TornInv /\ Walked

-----------------------------------------------------------------------------
LEMMA Constants ==
  /\ InitTask \notin Tasks
  /\ KThreads \subseteq Tasks
  /\ EntryUnits \in Nat
  /\ InitSize \in Nat
BY DevmemAssumption DEF EntryUnits

(* The one before a node of the list is the only one that points to it.    *)
LEMMA BeforeIsUnique ==
  ASSUME NEW r, NEW V, NEW b, ListInv(r, V, b), NEW n \in Heads
  PROVE  /\ Before(n) \in Heads /\ next[Before(n)] = n
         /\ \A m \in Heads : next[m] = n => m = Before(n)
<1>1. \E m \in Heads : next[m] = n
  BY DEF ListInv, Reached
<1>2. Before(n) \in Heads /\ next[Before(n)] = n
  BY <1>1 DEF Before, Heads
<1>3. ASSUME NEW p \in Heads, NEW q \in Heads, next[p] = n, next[q] = n
      PROVE  ~ (r[p] < r[q])
  <2> SUFFICES ASSUME r[p] < r[q] PROVE FALSE
    OBVIOUS
  <2>1. q \in linked /\ r[p] \in Nat /\ r[q] \in Nat
    BY Constants DEF Heads, ListInv, RankType, Members, Nodes
  <2>2. n = InitTask \/ r[q] < r[n]
    BY <1>3, <2>1 DEF ListInv, Ordered, Members
  <2>3. Between(r, p, q)
    BY <1>3, <2>2 DEF Between
  <2> QED BY <2>1, <2>3 DEF ListInv, NoneBetween
<1>4. ASSUME NEW p \in Heads, NEW q \in Heads, r[p] = r[q]
      PROVE  p = q
  BY <1>4, Constants DEF Heads, ListInv, RankType, Members, Ordered, Nodes
<1>5. \A m \in Heads : r[m] \in Nat
  BY DEF Heads, ListInv, RankType, Members, Nodes
<1> QED BY <1>2, <1>3, <1>4, <1>5

LEMMA ListTypes ==
  ASSUME NEW r, NEW V, NEW b, ListInv(r, V, b)
  PROVE  /\ r \in [Nodes -> Nat] /\ V \in SUBSET Tasks /\ b \in Nat
         /\ Heads \subseteq Nodes /\ V \subseteq Nodes
         /\ \A n \in Nodes : r[n] \in Nat /\ (r[n] < b \/ n = InitTask)
BY Constants DEF ListInv, RankType, Members, Heads, Nodes

(* What the list's invariant and the walk's speak of.                      *)
LEMMA ListFrame ==
  ASSUME NEW r, NEW V, NEW b, ListInv(r, V, b),
         UNCHANGED <<next, linked, mm, unborn, steady>>
  PROVE  ListInv(r, V, b)'
BY DEF ListInv, RankType, Members, Ordered, NoneBetween, Between, Reached, Heads

LEMMA CallFrame ==
  ASSUME NEW r, NEW V, CallInv(r, V),
         UNCHANGED <<kpc, curr, pgd, entries, steady, torn>>
  PROVE  CallInv(r, V)'
BY DEF CallInv, Recorded

LEMMA WalkedWhileListStays ==
  ASSUME Walked, UNCHANGED <<next, linked, mm, unborn, steady>>,
         \A r, V, b : WalkInv(r, V, b) => CallInv(r, V)'
  PROVE  Walked'
<1>1. PICK r \in [Nodes -> Nat], V \in SUBSET Tasks, b \in Nat : WalkInv(r, V, b)
  BY DEF Walked
<1>2. ListInv(r, V, b)' /\ CallInv(r, V)'
  BY <1>1, ListFrame DEF WalkInv
<1> QED BY <1>2 DEF Walked, WalkInv

-----------------------------------------------------------------------------
(* What the rest of the kernel does                                        *)

LEMMA ForkStep ==
  ASSUME Walked, Fork
  PROVE  Walked'
<1>1. PICK r \in [Nodes -> Nat], V \in SUBSET Tasks, b \in Nat : WalkInv(r, V, b)
  BY DEF Walked
<1>2. ListInv(r, V, b) /\ CallInv(r, V)
  BY <1>1 DEF WalkInv
<1>3. PICK t \in unborn :
        /\ next' = [next EXCEPT ![Before(InitTask)] = t, ![t] = InitTask]
        /\ linked' = linked \cup {t}
        /\ mm' = IF t \in KThreads THEN mm ELSE mm \cup {t}
        /\ unborn' = unborn \ {t}
        /\ UNCHANGED <<steady, kpc, curr, pgd, entries, torn>>
  BY DEF Fork, kernelCall
<1> DEFINE p == Before(InitTask)
           q == [r EXCEPT ![t] = b]
           W == V \cup {t}
<1>4. /\ p \in Heads /\ next[p] = InitTask
      /\ \A m \in Heads : next[m] = InitTask => m = p
  BY <1>2, BeforeIsUnique DEF Heads
<1>5. /\ t \in Tasks /\ t # InitTask /\ t \notin linked /\ t \notin V
      /\ t \notin mm /\ t \notin steady /\ t \notin Heads /\ t # p
  BY <1>2, <1>3, <1>4, Constants DEF ListInv, Members, Heads
<1>6. /\ r \in [Nodes -> Nat] /\ V \subseteq Tasks /\ b \in Nat
      /\ r[InitTask] = 0 /\ \A n \in Tasks : 0 < r[n] /\ r[n] < b
      /\ linked \subseteq V /\ Heads \subseteq V \cup {InitTask}
      /\ steady \subseteq linked /\ mm \subseteq linked
      /\ next \in [Nodes -> Nodes]
  BY <1>2 DEF ListInv, RankType, Members, Heads
<1> HIDE DEF p
<1>7. /\ q \in [Nodes -> Nat] /\ q[t] = b
      /\ \A n \in Nodes : n # t => q[n] = r[n]
  BY <1>5, <1>6 DEF Nodes
<1>8. /\ next' \in [Nodes -> Nodes]
      /\ next'[t] = InitTask /\ next'[p] = t
      /\ \A n \in Nodes : n # t /\ n # p => next'[n] = next[n]
  <2>1. p \in Nodes /\ t \in Nodes /\ InitTask \in Nodes
    BY <1>4, <1>5, <1>6 DEF Nodes
  <2>2. next' = [next EXCEPT ![p] = t, ![t] = InitTask]
    BY <1>3 DEF p
  <2> QED BY <1>5, <1>6, <2>1, <2>2
<1>9. Heads' = Heads \cup {t} /\ Heads \subseteq Nodes /\ W \subseteq Nodes
  BY <1>3, <1>5, <1>6 DEF Heads, Nodes
<1> HIDE DEF q
<1>10. RankType(q, b + 1)
  <2>1. q[InitTask] = 0
    BY <1>5, <1>6, <1>7 DEF Nodes
  <2>2. \A n \in Tasks : 0 < q[n] /\ q[n] < b + 1
    BY <1>5, <1>6, <1>7 DEF Nodes
  <2> QED BY <1>6, <1>7, <2>1, <2>2 DEF RankType
<1>11. Members(W)'
  <2>1. linked' \subseteq W /\ W \subseteq Tasks \ unborn' /\ unborn' \subseteq Tasks
        /\ mm' \subseteq linked' /\ steady' \subseteq mm'
    BY <1>2, <1>3, <1>5 DEF ListInv, Members
  <2>2. \A n \in Heads' : next'[n] \in Heads'
    BY <1>2, <1>8, <1>9 DEF ListInv, Members, Heads
  <2>3. \A n \in W : next'[n] \in W \cup {InitTask}
    BY <1>2, <1>8, <1>9 DEF ListInv, Members
  <2> QED BY <1>8, <2>1, <2>2, <2>3 DEF Members
<1>12. Ordered(q, W)'
  <2>1. \A n \in V \cup {InitTask} : n \in Nodes /\ n # t /\ q[n] = r[n] /\ q[n] < b
    <3>1. \A n \in V : n \in Tasks
      BY <1>6
    <3>2. b > 0 /\ r[InitTask] < b
      <4>1. r[t] \in Nat /\ 0 < r[t] /\ r[t] < b
        BY <1>5, <1>6 DEF Nodes
      <4> QED BY <1>6, <4>1
    <3> QED BY <1>5, <1>6, <1>7, <3>1, <3>2 DEF Nodes
  <2>2. ASSUME NEW m \in W, NEW n \in W, q[m] = q[n] PROVE m = n
    <3>1. \A k \in V : q[k] # b
      BY <1>6, <2>1 DEF Nodes
    <3>2. \A k, l \in V : q[k] = q[l] => k = l
      BY <1>2, <2>1 DEF ListInv, Ordered
    <3> QED BY <1>7, <2>2, <3>1, <3>2
  <2>3. ASSUME NEW n \in W \cup {InitTask}
        PROVE  next'[n] = InitTask \/ q[n] < q[next'[n]]
    <3>1. CASE n = t
      BY <1>8, <3>1
    <3>2. CASE n = p
      <4>1. p \in V \cup {InitTask}
        BY <1>4, <1>6
      <4> QED BY <1>7, <1>8, <2>1, <3>2, <4>1
    <3>3. CASE n # t /\ n # p
      <4>1. next'[n] = next[n] /\ next[n] \in V \cup {InitTask} /\ n \in V \cup {InitTask}
        BY <1>2, <1>6, <1>8, <1>9, <3>3 DEF ListInv, Members, Heads, Nodes
      <4> QED BY <1>2, <2>1, <4>1 DEF ListInv, Ordered
    <3> QED BY <3>1, <3>2, <3>3
  <2> QED BY <2>2, <2>3 DEF Ordered
<1>13. NoneBetween(q, W)'
  <2>1. ASSUME NEW n \in Heads', NEW s \in linked' PROVE ~ Between(q, n, s)'
    <3>1. q[s] <= b /\ q[s] \in Nat
      <4>1. s \in Tasks
        BY <1>3, <1>5, <1>6
      <4> QED BY <1>6, <1>7, <4>1 DEF Nodes
    <3>2. CASE n = t
      BY <1>6, <1>7, <3>1, <3>2 DEF Between
    <3>3. CASE n = p
      <4>1. s # t => ~ Between(r, p, s)
        BY <1>2, <1>3, <1>4 DEF ListInv, NoneBetween
      <4>2. s # t => ~ (r[p] < r[s])
        BY <1>4, <4>1 DEF Between
      <4>3. s # t => q[p] = r[p] /\ q[s] = r[s]
        BY <1>3, <1>4, <1>5, <1>6, <1>7, <1>9 DEF Nodes
      <4>4. s # t => ~ (q[p] < q[s])
        BY <4>2, <4>3
      <4>5. s = t => ~ (next'[p] = InitTask) /\ ~ (q[s] < q[next'[p]])
        BY <1>5, <1>8, <3>1
      <4> QED BY <3>3, <4>4, <4>5 DEF Between
    <3>4. CASE n # t /\ n # p
      <4>1. n \in Heads /\ n \in Nodes /\ next'[n] = next[n]
        BY <1>8, <1>9, <3>4
      <4>2. next[n] # InitTask /\ next[n] \in Heads
        BY <1>2, <1>4, <3>4, <4>1 DEF ListInv, Members
      <4>3. next[n] \in linked /\ next[n] \in Tasks /\ next[n] # t
        BY <1>5, <1>6, <4>2 DEF Heads
      <4>4. q[next[n]] = r[next[n]] /\ r[next[n]] < b /\ q[n] = r[n] /\ r[next[n]] \in Nat
        BY <1>6, <1>7, <3>4, <4>1, <4>3 DEF Nodes
      <4>5. CASE s = t
        BY <1>6, <1>7, <4>1, <4>2, <4>4, <4>5 DEF Between
      <4>6. CASE s # t
        <5>1. s \in linked /\ q[s] = r[s]
          BY <1>3, <1>6, <1>7, <4>6 DEF Nodes
        <5> QED BY <1>2, <4>1, <4>4, <5>1 DEF ListInv, NoneBetween, Between
      <4> QED BY <4>5, <4>6
    <3> QED BY <3>2, <3>3, <3>4
  <2>2. ASSUME NEW n \in W, NEW s \in steady' PROVE ~ Between(q, n, s)'
    <3>1. s \in linked' /\ s \in steady /\ s \in linked /\ s # t
      BY <1>3, <1>5, <1>6
    <3>2. CASE n \in Heads'
      BY <2>1, <3>1, <3>2
    <3>3. CASE n \notin Heads'
      <4>1. n \in V /\ n # t /\ n # p /\ n \in Nodes
        BY <1>4, <1>9, <3>3
      <4>2. next'[n] = next[n] /\ next[n] \in V \cup {InitTask}
        BY <1>2, <1>8, <4>1 DEF ListInv, Members
      <4>3. next[n] \in Nodes /\ next[n] # t
        BY <1>5, <1>6, <4>2 DEF Nodes
      <4>4. q[n] = r[n] /\ q[s] = r[s] /\ q[next[n]] = r[next[n]]
        BY <1>6, <1>7, <3>1, <4>1, <4>3 DEF Nodes
      <4> QED BY <1>2, <3>1, <4>1, <4>2, <4>4 DEF ListInv, NoneBetween, Between
    <3> QED BY <3>2, <3>3
  <2> QED BY <2>1, <2>2 DEF NoneBetween
<1>14. Reached'
  <2> SUFFICES ASSUME NEW n \in Heads' PROVE \E m \in Heads' : next'[m] = n
    BY DEF Reached
  <2>1. CASE n = t
    BY <1>4, <1>8, <1>9, <2>1
  <2>2. CASE n = InitTask
    BY <1>8, <1>9, <2>2
  <2>3. CASE n # t /\ n # InitTask
    <3>1. PICK m \in Heads : next[m] = n
      BY <1>2, <1>9, <2>3 DEF ListInv, Reached
    <3> QED BY <1>4, <1>5, <1>8, <1>9, <2>3, <3>1
  <2> QED BY <2>1, <2>2, <2>3
<1>15. CallInv(q, W)'
  <2>1. \A n \in V : q[n] = r[n]
    BY <1>5, <1>6, <1>7 DEF Nodes
  <2>2. \A n \in steady : n \in V
    BY <1>6
  <2> QED BY <1>2, <1>3, <2>1, <2>2 DEF CallInv, Recorded
<1>16. W \in SUBSET Tasks /\ b + 1 \in Nat
  BY <1>5, <1>6
<1>17. ListInv(q, W, b + 1)'
  BY <1>10, <1>11, <1>12, <1>13, <1>14 DEF ListInv, RankType
<1> HIDE DEF W
<1> QED BY <1>7, <1>15, <1>16, <1>17 DEF Walked, WalkInv

(* A task that leaves its mm is not steady any more.                       *)
LEMMA LeavesStep ==
  ASSUME Walked, DropMm \/ Exec
  PROVE  Walked'
<1>1. PICK r \in [Nodes -> Nat], V \in SUBSET Tasks, b \in Nat : WalkInv(r, V, b)
  BY DEF Walked
<1>2. PICK t \in mm :
        /\ mm' \in {mm, mm \ {t}} /\ steady' = steady \ {t}
        /\ UNCHANGED <<next, linked, unborn, kpc, curr, pgd, entries, torn>>
  BY DEF DropMm, Exec, Leaves, kernelCall
<1>3. ListInv(r, V, b)'
  BY <1>1, <1>2 DEF WalkInv, ListInv, RankType, Members, Ordered, NoneBetween,
                    Between, Reached, Heads
<1>4. CallInv(r, V)'
  BY <1>1, <1>2 DEF WalkInv, CallInv, Recorded
<1> QED BY <1>3, <1>4 DEF Walked, WalkInv

LEMMA UnlinkStep ==
  ASSUME Walked, Unlink
  PROVE  Walked'
<1>1. PICK r \in [Nodes -> Nat], V \in SUBSET Tasks, b \in Nat : WalkInv(r, V, b)
  BY DEF Walked
<1>2. ListInv(r, V, b) /\ CallInv(r, V)
  BY <1>1 DEF WalkInv
<1>3. PICK t \in linked \ mm :
        /\ next' = [next EXCEPT ![Before(t)] = next[t]]
        /\ linked' = linked \ {t}
        /\ UNCHANGED <<mm, unborn, steady, kpc, curr, pgd, entries, torn>>
  BY DEF Unlink, kernelCall
<1> DEFINE p == Before(t)
<1>4. /\ p \in Heads /\ next[p] = t
      /\ \A m \in Heads : next[m] = t => m = p
  BY <1>2, <1>3, BeforeIsUnique DEF Heads
<1>5. next' = [next EXCEPT ![p] = next[t]]
  BY <1>3
<1> HIDE DEF p
<1>6. /\ r \in [Nodes -> Nat] /\ V \subseteq Tasks
      /\ linked \subseteq V /\ steady \subseteq mm /\ mm \subseteq linked
      /\ next \in [Nodes -> Nodes] /\ t # InitTask /\ t \in V
      /\ Heads \subseteq V \cup {InitTask}
  BY <1>2, <1>3, Constants DEF ListInv, RankType, Members, Heads
<1>7. /\ next[t] \in Heads /\ next[t] # t /\ p # t
      /\ r[p] < r[t] /\ (next[t] = InitTask \/ r[t] < r[next[t]])
  <2>1. t \in Heads
    BY <1>3 DEF Heads
  <2>2. next[t] \in Heads /\ (next[t] = InitTask \/ r[t] < r[next[t]])
    BY <1>2, <1>6, <2>1 DEF ListInv, Members, Ordered
  <2>3. r[p] < r[t]
    BY <1>2, <1>4, <1>6 DEF ListInv, Ordered
  <2>4. \A n \in V \cup {InitTask} : r[n] \in Nat
    BY <1>6 DEF Nodes
  <2> QED BY <1>4, <1>6, <2>1, <2>2, <2>3, <2>4
<1>8. /\ next' \in [Nodes -> Nodes] /\ next'[p] = next[t]
      /\ \A n \in Nodes : n # p => next'[n] = next[n]
  <2>1. p \in Nodes /\ next[t] \in Nodes
    BY <1>4, <1>6, <1>7 DEF Nodes
  <2> QED BY <1>5, <1>6, <2>1
<1>9. /\ Heads' = Heads \ {t} /\ Heads \subseteq Nodes /\ V \subseteq Nodes
      /\ p \in Heads' /\ next[t] \in Heads'
  BY <1>3, <1>4, <1>6, <1>7 DEF Heads, Nodes
<1>10. Members(V)'
  <2>1. \A n \in Heads' : next'[n] \in Heads'
    BY <1>2, <1>4, <1>8, <1>9 DEF ListInv, Members
  <2>2. \A n \in V : next'[n] \in V \cup {InitTask}
    BY <1>2, <1>6, <1>7, <1>8, <1>9 DEF ListInv, Members
  <2>3. /\ linked' \subseteq V /\ mm' \subseteq linked' /\ steady' \subseteq mm'
        /\ V \subseteq Tasks \ unborn' /\ unborn' \subseteq Tasks
    BY <1>2, <1>3, <1>6 DEF ListInv, Members
  <2> QED BY <1>8, <2>1, <2>2, <2>3 DEF Members
<1>11. Ordered(r, V)'
  <2>1. ASSUME NEW n \in V \cup {InitTask}
        PROVE  next'[n] = InitTask \/ r[n] < r[next'[n]]
    <3>1. CASE n = p
      <4>1. \A k \in V \cup {InitTask} : r[k] \in Nat
        BY <1>6 DEF Nodes
      <4> QED BY <1>4, <1>6, <1>7, <1>8, <3>1, <4>1
    <3>2. CASE n # p
      BY <1>2, <1>6, <1>8, <3>2 DEF ListInv, Ordered, Nodes
    <3> QED BY <3>1, <3>2
  <2> QED BY <1>2, <2>1 DEF ListInv, Ordered
<1>12. NoneBetween(r, V)'
  <2>1. ASSUME NEW n \in Heads', NEW s \in linked' PROVE ~ Between(r, n, s)'
    <3>1. n \in Heads /\ s \in linked /\ s # t
      BY <1>3, <1>9
    <3>2. CASE n # p
      BY <1>2, <1>8, <1>9, <3>1, <3>2 DEF ListInv, NoneBetween, Between
    <3>3. CASE n = p
      <4>1. r[s] # r[t]
        BY <1>2, <1>6, <3>1 DEF ListInv, Ordered
      <4>2. r[s] \in Nat /\ r[t] \in Nat /\ r[p] \in Nat
        BY <1>4, <1>6, <1>9, <3>1 DEF Nodes
      <4>3. ~ Between(r, p, s) /\ ~ Between(r, t, s)
        BY <1>2, <1>3, <1>4, <3>1 DEF ListInv, NoneBetween, Heads
      <4> QED BY <1>4, <1>6, <1>7, <1>8, <3>3, <4>1, <4>2, <4>3 DEF Between
    <3> QED BY <3>2, <3>3
  <2>2. ASSUME NEW n \in V, NEW s \in steady' PROVE ~ Between(r, n, s)'
    <3>1. s \in steady /\ s \in linked'
      BY <1>3, <1>6
    <3>2. CASE n = p
      BY <1>9, <2>1, <3>1, <3>2
    <3>3. CASE n # p
      BY <1>2, <1>8, <1>9, <3>1, <3>3 DEF ListInv, NoneBetween, Between
    <3> QED BY <3>2, <3>3
  <2> QED BY <2>1, <2>2 DEF NoneBetween
<1>13. Reached'
  <2> SUFFICES ASSUME NEW n \in Heads' PROVE \E m \in Heads' : next'[m] = n
    BY DEF Reached
  <2>1. PICK m \in Heads : next[m] = n
    BY <1>2, <1>9 DEF ListInv, Reached
  <2>2. CASE m = t
    BY <1>8, <1>9, <2>1, <2>2
  <2>3. CASE m # t
    BY <1>4, <1>8, <1>9, <2>1, <2>3
  <2> QED BY <2>2, <2>3
<1>14. CallInv(r, V)'
  BY <1>2, <1>3, CallFrame
<1>15. ListInv(r, V, b)'
  BY <1>2, <1>10, <1>11, <1>12, <1>13 DEF ListInv, RankType
<1> QED BY <1>14, <1>15 DEF Walked, WalkInv

LEMMA EnvironmentTorn ==
  ASSUME Inv, Environment
  PROVE  TornInv'
<1>1. TornInv
  BY DEF Inv
<1>2. CASE Fork
  <2>1. PICK t \in unborn : mm' = IF t \in KThreads THEN mm ELSE mm \cup {t}
    BY <1>2 DEF Fork
  <2>2. UNCHANGED <<kpc, curr, left, torn, steady>>
    BY <1>2 DEF Fork, kernelCall
  <2> QED BY <1>1, <2>1, <2>2 DEF TornInv
<1>3. CASE DropMm \/ Exec
  <2>1. PICK t \in mm :
          /\ mm' \in {mm, mm \ {t}} /\ steady' = steady \ {t}
          /\ left' = (left \/ (kpc = "load" /\ curr = t))
          /\ UNCHANGED <<kpc, curr, torn>>
    BY <1>3 DEF DropMm, Exec, Leaves, kernelCall
  <2>2. left' \in BOOLEAN /\ (left' => kpc' = "load" /\ curr' \notin steady')
    BY <1>1, <2>1 DEF TornInv
  <2> QED BY <1>1, <2>1, <2>2 DEF TornInv
<1>4. CASE Unlink
  <2>1. UNCHANGED <<mm, kpc, curr, left, torn, steady>>
    BY <1>4 DEF Unlink, kernelCall
  <2> QED BY <1>1, <2>1 DEF TornInv
<1> QED BY <1>2, <1>3, <1>4 DEF Environment

(* The rest of the kernel touches neither the call nor the collector.      *)
LEMMA EnvironmentStep ==
  ASSUME Inv, Environment
  PROVE  Inv'
<1>1. /\ UNCHANGED <<kpc, curr, pgd, used, processes, rcu, entries, torn>>
      /\ UNCHANGED <<upc, size, slack, printed, result, faults>>
      /\ steady' \subseteq steady
  BY DEF Environment, Fork, DropMm, Exec, Leaves, Unlink, kernelCall, collector
<1>2. Walked'
  BY ForkStep, LeavesStep, UnlinkStep DEF Environment, Inv
<1>3. RecordInv'
  BY <1>1 DEF Inv, RecordInv, Recorded
<1>4. PrintInv'
  BY <1>1 DEF Inv, PrintInv
<1>5. Counters'
  BY <1>1 DEF Inv, Counters
<1> QED BY <1>2, <1>3, <1>4, <1>5, EnvironmentTorn DEF Inv

-----------------------------------------------------------------------------
(* The initial state: the rank of a task is its place in FirstTasks.       *)

LEMMA WalkedInit == Init => Walked
<1> SUFFICES ASSUME Init PROVE Walked
  OBVIOUS
<1> DEFINE L == Len(FirstTasks)
           At(n) == CHOOSE k \in DOMAIN FirstTasks : FirstTasks[k] = n
           r == [n \in Nodes |-> IF n = InitTask THEN 0
                                 ELSE IF n \in linked THEN At(n) ELSE 1]
<1>1. /\ L \in Nat /\ DOMAIN FirstTasks = 1 .. L
      /\ \A k \in 1 .. L : FirstTasks[k] \in Tasks
      /\ \A j, k \in 1 .. L : FirstTasks[j] = FirstTasks[k] => j = k
  BY DevmemAssumption
<1>2. linked = {FirstTasks[k] : k \in 1 .. L}
  BY <1>1 DEF Init, FirstOf
<1>3. /\ linked \subseteq Tasks /\ InitTask \notin linked
      /\ Heads \subseteq Nodes
  BY <1>1, <1>2, Constants DEF Heads, Nodes
<1>4. \A n \in linked : At(n) \in 1 .. L /\ FirstTasks[At(n)] = n
  BY <1>1, <1>2
<1>5. \A k \in 1 .. L : At(FirstTasks[k]) = k
  BY <1>1
<1>6. /\ next \in [Nodes -> Nodes]
      /\ L = 0 => next[InitTask] = InitTask
      /\ L # 0 => next[InitTask] = FirstTasks[1]
      /\ \A n \in linked :
           next[n] = IF At(n) = L THEN InitTask ELSE FirstTasks[At(n) + 1]
  <2>1. FirstTasks = <<>> <=> L = 0
    BY DevmemAssumption
  <2>2. next = [n \in Nodes |->
                 IF n = InitTask
                   THEN IF L = 0 THEN InitTask ELSE FirstTasks[1]
                   ELSE IF n \in linked
                     THEN IF At(n) = L THEN InitTask ELSE FirstTasks[At(n) + 1]
                     ELSE InitTask]
    BY <2>1 DEF Init, Nodes, FirstOf
  <2> HIDE DEF At
  <2>3. \A n \in linked : At(n) # L => FirstTasks[At(n) + 1] \in Tasks
    <3> SUFFICES ASSUME NEW n \in linked, At(n) # L
                 PROVE  At(n) + 1 \in 1 .. L
      BY <1>1
    <3> QED BY <1>1, <1>4
  <2>4. L # 0 => FirstTasks[1] \in Tasks
    BY <1>1
  <2> QED BY <1>3, <2>2, <2>3, <2>4 DEF Nodes
<1> HIDE DEF L, At
<1>7. /\ r \in [Nodes -> Nat] /\ r[InitTask] = 0
      /\ \A n \in linked : r[n] = At(n)
      /\ \A n \in Tasks : 0 < r[n] /\ r[n] < L + 2
  BY <1>1, <1>3, <1>4, Constants DEF Nodes
<1> HIDE DEF r
<1>8. \A n \in Heads :
        \/ next[n] = InitTask /\ r[n] = L
        \/ next[n] \in linked /\ r[next[n]] = r[n] + 1
  <2> SUFFICES ASSUME NEW n \in Heads
               PROVE  \/ next[n] = InitTask /\ r[n] = L
                      \/ next[n] \in linked /\ r[next[n]] = r[n] + 1
    BY DEF Heads
  <2>1. CASE n = InitTask
    <3>1. CASE L = 0
      BY <1>6, <1>7, <2>1, <3>1
    <3>2. CASE L # 0
      <4>1. 1 \in 1 .. L
        BY <1>1, <3>2
      <4>2. FirstTasks[1] \in linked /\ At(FirstTasks[1]) = 1
        BY <1>2, <1>5, <4>1
      <4> QED BY <1>6, <1>7, <2>1, <3>2, <4>2
    <3> QED BY <3>1, <3>2
  <2>2. CASE n \in linked
    <3>1. CASE At(n) = L
      BY <1>6, <1>7, <2>2, <3>1
    <3>2. CASE At(n) # L
      <4>1. At(n) + 1 \in 1 .. L
        BY <1>1, <1>4, <2>2, <3>2
      <4>2. FirstTasks[At(n) + 1] \in linked /\ At(FirstTasks[At(n) + 1]) = At(n) + 1
        BY <1>2, <1>5, <4>1
      <4> QED BY <1>6, <1>7, <2>2, <3>2, <4>2
    <3> QED BY <3>1, <3>2
  <2> QED BY <2>1, <2>2 DEF Heads
<1>9. \A m, n \in linked : r[m] = r[n] => m = n
  BY <1>4, <1>7
<1>10. \A n \in linked : r[n] \in 1 .. L
  BY <1>4, <1>7
<1>11. Members(linked)
  BY <1>3, <1>6, <1>8 DEF Init, Members, Heads
<1>12. \A n \in Heads : r[n] \in Nat
  BY <1>3, <1>7
<1>13. Ordered(r, linked)
  BY <1>8, <1>9, <1>12 DEF Ordered, Heads
<1>14. NoneBetween(r, linked)
  <2>1. ASSUME NEW n \in Heads, NEW s \in linked PROVE ~ Between(r, n, s)
    <3>1. r[n] \in Nat /\ r[s] \in Nat /\ r[s] <= L /\ InitTask \notin linked
      BY <1>1, <1>3, <1>10, <1>12
    <3>2. \/ next[n] = InitTask /\ r[n] = L
          \/ next[n] # InitTask /\ r[next[n]] = r[n] + 1
      BY <1>8, <3>1
    <3> QED BY <1>1, <3>1, <3>2 DEF Between
  <2> QED BY <2>1 DEF NoneBetween, Heads, Init
<1>15. Reached
  <2> SUFFICES ASSUME NEW n \in Heads PROVE \E m \in Heads : next[m] = n
    BY DEF Reached
  <2>1. CASE n = InitTask
    <3>1. CASE L = 0
      BY <1>6, <2>1, <3>1 DEF Heads
    <3>2. CASE L # 0
      <4>1. L \in 1 .. L
        BY <1>1, <3>2
      <4>2. FirstTasks[L] \in linked /\ At(FirstTasks[L]) = L
        BY <1>2, <1>5, <4>1
      <4> QED BY <1>6, <2>1, <4>2 DEF Heads
    <3> QED BY <3>1, <3>2
  <2>2. CASE n \in linked
    <3>1. At(n) \in 1 .. L /\ FirstTasks[At(n)] = n
      BY <1>4, <2>2
    <3>2. CASE At(n) = 1
      BY <1>1, <1>6, <3>1, <3>2 DEF Heads
    <3>3. CASE At(n) # 1
      <4> DEFINE k == At(n) - 1
      <4>1. k \in 1 .. L /\ k # L /\ k + 1 = At(n)
        BY <1>1, <3>1, <3>3
      <4> HIDE DEF k
      <4>2. FirstTasks[k] \in linked /\ At(FirstTasks[k]) = k
        BY <1>2, <1>5, <4>1
      <4> QED BY <1>6, <3>1, <4>1, <4>2 DEF Heads
    <3> QED BY <3>2, <3>3
  <2> QED BY <2>1, <2>2 DEF Heads
<1>16. CallInv(r, linked)
  BY DEF Init, CallInv
<1>17. L + 2 \in Nat
  BY <1>1
<1>18. ListInv(r, linked, L + 2)
  BY <1>7, <1>11, <1>13, <1>14, <1>15, <1>17 DEF ListInv, RankType
<1> QED BY <1>3, <1>7, <1>16, <1>17, <1>18 DEF Walked, WalkInv

LEMMA InvInit == Init => Inv
<1> SUFFICES ASSUME Init PROVE Inv
  OBVIOUS
<1>1. RecordInv /\ PrintInv
  BY DEF Init, RecordInv, PrintInv
<1>2. Counters
  BY Constants DEF Init, Counters, Nodes, Tables
<1>3. TornInv
  BY DEF Init, TornInv
<1> QED BY <1>1, <1>2, <1>3, WalkedInit DEF Inv

-----------------------------------------------------------------------------
(* The collector                                                           *)

LEMMA AroundCallStep ==
  ASSUME Inv, Map \/ MapFails \/ Retry \/ GotList
  PROVE  Inv'
<1>1. /\ upc \in {"map", "returned"} /\ kpc = "none"
      /\ UNCHANGED <<next, linked, mm, unborn, steady, left, torn>>
      /\ UNCHANGED <<kpc, curr, pgd, used, processes, rcu, result, faults, printed>>
      /\ entries' = entries \/ (upc' = "call" /\ entries' = <<>>)
      /\ upc' \in {"call", "nomap", "map", "done", "print"}
      /\ upc' = "call" => entries' = <<>>
      /\ upc' = "print" => upc = "returned" /\ result >= 0
      /\ upc' = "done" => result < 0
      /\ printed = <<>>
  BY DEF Map, MapFails, Retry, GotList, kernelList, kernelCall, Inv, Counters, PrintInv
<1>2. size' \in Nat /\ slack' \in Slacks \cup {0}
  BY DEF Map, MapFails, Retry, GotList, Inv, Counters
<1>3. RecordInv'
  <2>1. CASE upc' = "call"
    BY <1>1, <2>1 DEF RecordInv
  <2>2. CASE upc' # "call"
    <3>1. result \in Int
      BY DEF Inv, Counters
    <3>2. ~ (result < 0 /\ result >= 0)
      BY <3>1
    <3> QED BY <1>1, <2>2, <3>2 DEF Inv, RecordInv, Recorded
  <2> QED BY <2>1, <2>2
<1>4. PrintInv'
  BY <1>1 DEF Inv, PrintInv, RecordInv, Counters
<1>5. Counters'
  BY <1>1, <1>2 DEF Inv, Counters
<1>6. Walked'
  <2>1. \A r, V, b : WalkInv(r, V, b) => CallInv(r, V)'
    BY <1>1 DEF CallInv
  <2> QED BY <1>1, <2>1, WalkedWhileListStays DEF Inv
<1>7. TornInv'
  BY <1>1 DEF Inv, TornInv
<1> QED BY <1>3, <1>4, <1>5, <1>6, <1>7 DEF Inv

(* The reader starts at the first task, with the steady ones ahead.        *)
LEMMA CallStep ==
  ASSUME Inv, Call
  PROVE  Inv'
<1>1. PICK r \in [Nodes -> Nat], V \in SUBSET Tasks, b \in Nat : WalkInv(r, V, b)
  BY DEF Inv, Walked
<1>2. /\ upc = "call" /\ upc' = "wait" /\ kpc = "none" /\ kpc' = "check"
      /\ rcu' = rcu + 1 /\ curr' = next[InitTask] /\ used' = 0
      /\ processes' = 0 /\ steady' = mm /\ torn' = {}
      /\ UNCHANGED <<next, linked, mm, unborn, pgd, left, entries, size, slack,
                     printed, result, faults>>
      /\ entries = <<>> /\ printed = <<>>
  BY DEF Call, kernelList, Inv, RecordInv, PrintInv
<1>3. /\ r[InitTask] = 0 /\ linked \subseteq V /\ mm \subseteq linked
      /\ next[InitTask] \in Heads /\ linked \subseteq Tasks
      /\ \A t \in Tasks : 0 < r[t]
      /\ \A n \in linked : next[n] \in Heads
  BY <1>1 DEF WalkInv, ListInv, RankType, Members, Heads
<1>4. PICK W \in SUBSET Tasks : W = linked
  BY <1>3
<1>5. ListInv(r, W, b)'
  <2>1. RankType(r, b)
    BY <1>1 DEF WalkInv, ListInv
  <2>2. Members(W)'
    BY <1>1, <1>2, <1>3, <1>4 DEF WalkInv, ListInv, Members, Heads
  <2>3. Ordered(r, W)'
    BY <1>1, <1>2, <1>3, <1>4 DEF WalkInv, ListInv, Ordered
  <2>4. NoneBetween(r, W)'
    BY <1>1, <1>2, <1>3, <1>4 DEF WalkInv, ListInv, NoneBetween, Between, Heads
  <2>5. Reached'
    BY <1>1, <1>2 DEF WalkInv, ListInv, Reached, Heads
  <2> QED BY <2>1, <2>2, <2>3, <2>4, <2>5 DEF ListInv, RankType
<1>6. CallInv(r, W)'
  <2>1. ASSUME NEW s \in mm
        PROVE  next[InitTask] # InitTask /\ r[next[InitTask]] <= r[s]
    <3>1. s \in linked /\ r[s] \in Nat /\ 0 < r[s]
      BY <1>3 DEF Nodes
    <3>2. ~ Between(r, InitTask, s)
      BY <1>1, <3>1 DEF WalkInv, ListInv, NoneBetween, Heads
    <3>3. next[InitTask] # InitTask
      BY <1>3, <3>1, <3>2 DEF Between
    <3>4. r[next[InitTask]] \in Nat
      BY <1>3, <3>3 DEF Heads, Nodes
    <3> QED BY <1>3, <3>1, <3>2, <3>3, <3>4 DEF Between
  <2> QED BY <1>2, <1>3, <1>4, <2>1 DEF CallInv, Heads
<1>7. Walked'
  BY <1>5, <1>6 DEF Walked, WalkInv
<1>8. RecordInv'
  BY <1>2 DEF Inv, RecordInv
<1>9. PrintInv'
  BY <1>2 DEF Inv, PrintInv
<1>10. Counters'
  <2>1. curr' \in Nodes
    BY <1>2, <1>3 DEF Heads, Nodes
  <2> QED BY <1>2, <2>1 DEF Inv, Counters
<1>11. TornInv'
  BY <1>2 DEF Inv, TornInv
<1> QED BY <1>7, <1>8, <1>9, <1>10, <1>11 DEF Inv

LEMMA PrintStep ==
  ASSUME Inv, PrintRecord \/ PrintEnd
  PROVE  Inv'
<1>1. /\ upc = "print" /\ kpc = "none" /\ result >= 0 /\ result = Len(entries)
      /\ entries \in Seq(RecordType) /\ printed \in Seq(RecordType)
      /\ Len(printed) \in Nat /\ Len(printed) <= Len(entries)
      /\ \A k \in 1 .. Len(printed) : printed[k] = entries[k]
      /\ UNCHANGED <<next, linked, mm, unborn, steady, left, torn>>
      /\ UNCHANGED <<kpc, curr, pgd, used, processes, rcu, entries, result,
                     faults, size, slack>>
  BY DEF PrintRecord, PrintEnd, kernelList, kernelCall, Inv, RecordInv, PrintInv,
         Counters
<1>4. TornInv'
  BY <1>1 DEF Inv, TornInv
<1>2. CASE PrintRecord
  <2>1. /\ upc' = upc /\ Len(printed) + 1 <= Len(entries)
        /\ printed' = Append(printed, entries[Len(printed) + 1])
    BY <1>1, <1>2 DEF PrintRecord, Position
  <2>2. entries[Len(printed) + 1] \in RecordType
    BY <1>1, <2>1
  <2>3. /\ printed' \in Seq(RecordType) /\ Len(printed') = Len(printed) + 1
        /\ \A k \in 1 .. Len(printed) : printed'[k] = printed[k]
        /\ printed'[Len(printed) + 1] = entries[Len(printed) + 1]
    BY <1>1, <2>1, <2>2
  <2>4. \A k \in 1 .. Len(printed') : printed'[k] = entries[k]
    <3>1. \A k \in 1 .. Len(printed') : k \in 1 .. Len(printed) \/ k = Len(printed) + 1
      BY <1>1, <2>3
    <3> QED BY <1>1, <2>3, <3>1
  <2>5. PrintInv'
    BY <1>1, <2>1, <2>3, <2>4 DEF PrintInv
  <2>6. RecordInv' /\ Counters'
    BY <1>1, <2>1 DEF Inv, RecordInv, Recorded, Counters
  <2> QED BY <1>1, <1>4, <2>5, <2>6, WalkedWhileListStays, CallFrame DEF Inv, WalkInv
<1>3. CASE PrintEnd
  <2>1. upc' = "done" /\ Len(printed) + 1 > result /\ printed' = printed
    BY <1>3 DEF PrintEnd, Position
  <2>2. Len(printed) = Len(entries)
    BY <1>1, <2>1
  <2>3. PrintInv'
    BY <1>1, <2>1, <2>2 DEF Inv, PrintInv
  <2>4. RecordInv' /\ Counters'
    BY <1>1, <2>1 DEF Inv, RecordInv, Recorded, Counters
  <2> QED BY <1>1, <1>4, <2>3, <2>4, WalkedWhileListStays, CallFrame DEF Inv, WalkInv
<1> QED BY <1>2, <1>3

-----------------------------------------------------------------------------
(* The ioctl                                                               *)

LEMMA EntryStep ==
  ASSUME Inv, CheckMm \/ LoadPgd
  PROVE  Inv'
<1>1. /\ kpc \in {"check", "load"} /\ kpc' \in {"load", "store", "oops"}
      /\ UNCHANGED <<next, linked, mm, unborn, steady>>
      /\ UNCHANGED <<curr, used, processes, rcu, entries, result, faults>>
      /\ UNCHANGED <<upc, size, slack, printed>>
      /\ curr # InitTask
  BY DEF CheckMm, LoadPgd, kernelList, collector, Inv, Walked, WalkInv, CallInv
<1>2. TornInv /\ steady \subseteq mm /\ mm \subseteq Tasks /\ curr \in Tasks
  BY <1>1 DEF Inv, Walked, WalkInv, ListInv, Members, Counters, Nodes
<1>3. /\ kpc' = "store" => /\ pgd' \in {None, curr} \/ curr \in torn'
                           /\ curr \in steady => pgd' = curr
      /\ pgd' \in Tables /\ torn \subseteq torn'
      /\ TornInv'
  <2>1. CASE CheckMm
    <3>1. /\ UNCHANGED <<left, torn>> /\ kpc = "check"
          /\ IF curr \in mm THEN kpc' = "load" /\ pgd' = pgd
             ELSE kpc' = "store" /\ pgd' = None
      BY <2>1 DEF CheckMm
    <3>2. pgd \in Tables /\ None \in Tables
      BY DEF Inv, Counters, Tables
    <3>3. TornInv'
      BY <1>1, <1>2, <3>1 DEF TornInv
    <3> QED BY <1>2, <3>1, <3>2, <3>3
  <2>2. CASE LoadPgd
    <3>1. /\ kpc = "load" /\ left' = FALSE
          /\ \/ /\ kpc' = "store" /\ torn' = IF left THEN torn \cup {curr} ELSE torn
                /\ pgd' \in {curr} \cup (IF left THEN Reused ELSE {})
             \/ kpc' = "oops" /\ UNCHANGED <<pgd, torn>>
      BY <2>2 DEF LoadPgd
    <3>2. pgd \in Tables /\ curr \in Tables /\ Reused \subseteq Tables
      BY <1>2 DEF Inv, Counters, Tables, Reused
    <3>3. curr \in Tasks \ KThreads /\ (left => curr \notin steady) /\ left \in BOOLEAN
      BY <1>2, <3>1 DEF TornInv
    <3>4. torn' \subseteq Tasks \ KThreads
      BY <1>2, <3>1, <3>3 DEF TornInv
    <3>5. TornInv'
      BY <1>1, <1>2, <3>1, <3>4 DEF TornInv
    <3>6. CASE left
      BY <3>1, <3>2, <3>3, <3>5, <3>6
    <3>7. CASE ~ left
      BY <3>1, <3>2, <3>3, <3>5, <3>7
    <3> QED BY <3>6, <3>7
  <2> QED BY <2>1, <2>2
<1>4. Walked'
  <2>1. PICK r \in [Nodes -> Nat], V \in SUBSET Tasks, b \in Nat : WalkInv(r, V, b)
    BY DEF Inv, Walked
  <2>2. ListInv(r, V, b)'
    BY <1>1, <2>1, ListFrame DEF WalkInv
  <2>4. CallInv(r, V)'
    BY <1>1, <1>3, <2>1 DEF WalkInv, CallInv, Recorded
  <2> QED BY <2>2, <2>4 DEF Walked, WalkInv
<1>5. RecordInv'
  BY <1>1, <1>3 DEF Inv, RecordInv, Recorded
<1>6. PrintInv'
  BY <1>1 DEF Inv, PrintInv
<1>7. Counters'
  BY <1>1, <1>3 DEF Inv, Counters
<1> QED BY <1>3, <1>4, <1>5, <1>6, <1>7 DEF Inv

LEMMA Appending ==
  ASSUME NEW S, NEW s \in Seq(S), NEW e \in S
  PROVE  /\ Append(s, e) \in Seq(S)
         /\ Len(Append(s, e)) = Len(s) + 1
         /\ \A n \in DOMAIN s : n \in DOMAIN Append(s, e) /\ Append(s, e)[n] = s[n]
         /\ Len(s) + 1 \in DOMAIN Append(s, e) /\ Append(s, e)[Len(s) + 1] = e
         /\ \A n \in DOMAIN Append(s, e) : n \in DOMAIN s \/ n = Len(s) + 1
OBVIOUS

(* One record: of the task the reader stands on, which no record is of     *)
(* yet, and no steady task lies between it and the next.                   *)
LEMMA StoreStep ==
  ASSUME Inv, Store
  PROVE  Inv'
<1> DEFINE e == [task |-> curr, pgd |-> pgd]
<1>1. PICK r \in [Nodes -> Nat], V \in SUBSET Tasks, b \in Nat : WalkInv(r, V, b)
  BY DEF Inv, Walked
<1>2. /\ kpc = "store" /\ kpc' = "check" /\ entries' = Append(entries, e)
      /\ used' = used + EntryUnits /\ processes' = processes + 1
      /\ curr' = next[curr]
      /\ UNCHANGED <<next, linked, mm, unborn, steady, left, torn>>
      /\ UNCHANGED <<pgd, rcu, result, faults, upc, size, slack, printed>>
  BY DEF Store, kernelList, collector
<1>3. /\ curr \in V /\ curr # InitTask /\ curr \in Tasks
      /\ pgd \in {None, curr} \/ curr \in torn
      /\ curr \in steady => pgd = curr
      /\ \A k \in DOMAIN entries :
           entries[k].task \in V /\ r[entries[k].task] < r[curr]
      /\ \A s \in steady : Recorded(s) \/ r[curr] <= r[s]
  <2>1. curr \in V \cup {InitTask} /\ curr # InitTask
    BY <1>1, <1>2 DEF WalkInv, CallInv
  <2> QED BY <1>1, <1>2, <2>1 DEF WalkInv, CallInv
<1>4. /\ linked \subseteq V /\ V \subseteq Tasks /\ steady \subseteq V
      /\ next[curr] \in V \cup {InitTask}
      /\ next[curr] = InitTask \/ r[curr] < r[next[curr]]
      /\ \A s \in steady : ~ Between(r, curr, s)
      /\ \A m, n \in V : r[m] = r[n] => m = n
      /\ \A n \in V : r[n] \in Nat
  BY <1>1, <1>3 DEF WalkInv, ListInv, Members, Ordered, NoneBetween, Nodes
<1>5. entries \in Seq(RecordType) /\ e \in RecordType
  BY <1>3 DEF Inv, RecordInv, RecordType, Counters
<1>6. /\ entries' \in Seq(RecordType) /\ Len(entries') = Len(entries) + 1
      /\ \A n \in DOMAIN entries : n \in DOMAIN entries' /\ entries'[n] = entries[n]
      /\ Len(entries) + 1 \in DOMAIN entries' /\ entries'[Len(entries) + 1] = e
      /\ \A n \in DOMAIN entries' : n \in DOMAIN entries \/ n = Len(entries) + 1
  BY <1>2, <1>5, Appending
<1> HIDE DEF e
<1>7. CallInv(r, V)'
  <2>1. ASSUME NEW k \in DOMAIN entries'
        PROVE  /\ entries'[k].task \in V
               /\ curr' = InitTask \/ r[entries'[k].task] < r[curr']
    <3>1. entries'[k].task \in V /\ (r[entries'[k].task] < r[curr]
                                   \/ entries'[k].task = curr)
      BY <1>3, <1>6 DEF e
    <3> QED BY <1>2, <1>3, <1>4, <3>1
  <2>2. ASSUME NEW s \in steady
        PROVE  \/ \E k \in DOMAIN entries' : entries'[k] = [task |-> s, pgd |-> s]
               \/ curr' # InitTask /\ r[curr'] <= r[s]
    <3>1. CASE Recorded(s)
      BY <1>6, <3>1 DEF Recorded
    <3>2. CASE s = curr
      BY <1>3, <1>6, <3>2 DEF e
    <3>3. CASE s # curr /\ r[curr] <= r[s]
      <4>1. r[curr] \in Nat /\ r[s] \in Nat /\ r[curr] # r[s]
        BY <1>3, <1>4, <3>3
      <4>2. r[curr] < r[s]
        BY <3>3, <4>1
      <4>3. next[curr] # InitTask /\ ~ (r[s] < r[next[curr]])
        BY <1>4, <4>2 DEF Between
      <4>4. r[next[curr]] \in Nat
        BY <1>4, <4>3
      <4> QED BY <1>2, <4>1, <4>3, <4>4
    <3> QED BY <1>3, <3>1, <3>2, <3>3
  <2> QED BY <1>2, <1>4, <2>1, <2>2 DEF CallInv, Recorded
<1>8. Walked'
  <2>1. ListInv(r, V, b)'
    BY <1>1, <1>2, ListFrame DEF WalkInv
  <2> QED BY <1>7, <2>1 DEF Walked, WalkInv
<1>9. RecordInv'
  <2>1. \A k \in DOMAIN entries : entries[k].task # curr
    BY <1>3, <1>4
  <2>2. \A j, k \in DOMAIN entries' : entries'[j].task = entries'[k].task => j = k
    BY <1>6, <2>1 DEF Inv, RecordInv, e
  <2>3. \A k \in DOMAIN entries' :
          entries'[k].pgd \in {None, entries'[k].task} \/ entries'[k].task \in torn'
    BY <1>2, <1>3, <1>6 DEF Inv, RecordInv, e
  <2>4. upc' = "wait"
    BY <1>2 DEF Inv, Counters
  <2>5. processes' = Len(entries')
    BY <1>2, <1>6 DEF Inv, RecordInv
  <2> QED BY <1>2, <1>6, <2>2, <2>3, <2>4, <2>5 DEF RecordInv
<1>10. PrintInv'
  <2>1. upc' = "wait" /\ printed' = <<>>
    BY <1>2 DEF Inv, Counters, PrintInv
  <2> QED BY <1>6, <2>1 DEF PrintInv
<1>11. Counters'
  <2>1. curr' \in Nodes
    BY <1>2, <1>4 DEF Nodes
  <2> QED BY <1>2, <2>1, Constants DEF Inv, Counters
<1>12. TornInv'
  BY <1>2 DEF Inv, TornInv
<1> QED BY <1>8, <1>9, <1>10, <1>11, <1>12 DEF Inv

(* The two ways out: a fault leaves the section open, the end closes it.   *)
LEMMA ReturnStep ==
  ASSUME Inv, StoreFaults \/ ListEnd
  PROVE  Inv'
<1>1. /\ kpc \in {"store", "check"} /\ kpc' = "none"
      /\ upc = "wait" /\ upc' = "returned"
      /\ UNCHANGED <<next, linked, mm, unborn, steady, left, torn>>
      /\ UNCHANGED <<curr, pgd, used, processes, entries, size, slack, printed>>
      /\ \/ result' = -1 /\ faults' = faults + 1 /\ rcu' = rcu
         \/ /\ curr = InitTask /\ result' = processes
            /\ faults' = faults /\ rcu' = rcu - 1
  BY DEF StoreFaults, ListEnd, ReturnToUser, kernelList, Inv, Counters
<1>2. curr = InitTask => \A s \in steady : Recorded(s)
  BY <1>1 DEF Inv, Walked, WalkInv, CallInv
<1>3. Walked'
  <2>1. \A r, V, b : WalkInv(r, V, b) => CallInv(r, V)'
    BY <1>1 DEF CallInv
  <2> QED BY <1>1, <2>1, WalkedWhileListStays DEF Inv
<1>4. RecordInv'
  <2>1. processes = Len(entries)
    BY <1>1 DEF Inv, RecordInv
  <2> QED BY <1>1, <1>2, <2>1 DEF Inv, RecordInv, Recorded
<1>5. PrintInv'
  BY <1>1 DEF Inv, PrintInv
<1>6. Counters'
  BY <1>1 DEF Inv, Counters
<1>7. TornInv'
  BY <1>1 DEF Inv, TornInv
<1> QED BY <1>3, <1>4, <1>5, <1>6, <1>7 DEF Inv

-----------------------------------------------------------------------------
(* Theorems                                                                *)

LEMMA InvStep == Inv /\ [Next]_vars => Inv'
<1> SUFFICES ASSUME Inv, [Next]_vars PROVE Inv'
  OBVIOUS
<1>1. CASE Collector
  BY <1>1, AroundCallStep, CallStep, PrintStep, EntryStep, StoreStep, ReturnStep
     DEF Collector
<1>2. CASE Environment
  BY <1>2, EnvironmentStep
<1>3. CASE Finished \/ UNCHANGED vars
  <2>1. /\ UNCHANGED <<next, linked, mm, unborn, steady, left, torn>>
        /\ UNCHANGED <<kpc, curr, pgd, used, processes, rcu, entries>>
        /\ UNCHANGED <<upc, size, slack, printed, result, faults>>
    BY <1>3 DEF Finished, vars
  <2>2. Walked'
    BY <2>1, WalkedWhileListStays, CallFrame DEF Inv, WalkInv
  <2>3. RecordInv' /\ PrintInv' /\ Counters' /\ TornInv'
    BY <2>1 DEF Inv, RecordInv, Recorded, PrintInv, Counters, TornInv
  <2> QED BY <2>2, <2>3 DEF Inv
<1> QED BY <1>1, <1>2, <1>3 DEF Next

LEMMA Invariant == Spec => []Inv
<1>1. Init => Inv
  BY InvInit
<1>2. Inv /\ [Next]_vars => Inv'
  BY InvStep
<1> QED BY <1>1, <1>2, PTL DEF Spec

(* dump_all_ttbr0 of the patch and of the collector, for every list of     *)
(* tasks and however they fork and exit around the walk: a process that    *)
(* has its tables and stays linked during the call that succeeds is        *)
(* printed exactly once, with its own table.                               *)
THEOREM SteadyPrinted == Spec => []SteadyTasksPrinted
<1>1. Inv => SteadyTasksPrinted
  <2> SUFFICES ASSUME Inv, Complete, NEW t \in steady
               PROVE  \E k \in DOMAIN printed :
                        TimesPrinted(t) = {k} /\ printed[k].pgd = t
    BY DEF SteadyTasksPrinted
  <2>1. /\ Len(printed) = Len(entries) /\ Recorded(t)
        /\ printed \in Seq(RecordType) /\ entries \in Seq(RecordType)
        /\ \A k \in 1 .. Len(printed) : printed[k] = entries[k]
        /\ \A j, k \in DOMAIN entries : entries[j].task = entries[k].task => j = k
    BY DEF Inv, RecordInv, PrintInv, Complete
  <2>2. PICK k \in DOMAIN entries : entries[k] = [task |-> t, pgd |-> t]
    BY <2>1 DEF Recorded
  <2>3. DOMAIN printed = DOMAIN entries /\ \A m \in DOMAIN printed : printed[m] = entries[m]
    BY <2>1
  <2>4. printed[k].task = t /\ printed[k].pgd = t /\ k \in DOMAIN printed
    BY <2>2, <2>3
  <2>5. TimesPrinted(t) = {k}
    BY <2>1, <2>2, <2>3, <2>4 DEF TimesPrinted
  <2> QED BY <2>4, <2>5
<1> QED BY <1>1, Invariant, PTL

(* No task is printed twice, and only one that left its mm between the     *)
(* test and the load with anything but its own table, although the reader  *)
(* may follow the pointers of tasks that are no longer in the list.        *)
THEOREM PrintedOnce == Spec => []NothingPrintedTwice
<1>1. Inv => NothingPrintedTwice
  <2> SUFFICES ASSUME Inv, NEW j \in DOMAIN printed, NEW k \in DOMAIN printed
               PROVE  /\ \/ printed[j].pgd \in {None, printed[j].task}
                         \/ printed[j].task \in torn \ KThreads
                      /\ printed[j].task = printed[k].task => j = k
    BY DEF NothingPrintedTwice
  <2>1. /\ printed \in Seq(RecordType) /\ entries \in Seq(RecordType)
        /\ Len(printed) <= Len(entries)
        /\ \A m \in 1 .. Len(printed) : printed[m] = entries[m]
    BY DEF Inv, RecordInv, PrintInv
  <2>2. j \in DOMAIN entries /\ k \in DOMAIN entries
        /\ printed[j] = entries[j] /\ printed[k] = entries[k]
    BY <2>1
  <2> QED BY <2>2 DEF Inv, RecordInv, TornInv
<1> QED BY <1>1, Invariant, PTL

(* Outside of the ioctl the collector's thread is in as many RCU read-side *)
(* sections as calls of it have faulted.                                   *)
THEOREM SectionsLeftByFaults == Spec => []RcuOpenOnlyByFaults
<1>1. Inv => RcuOpenOnlyByFaults
  BY DEF Inv, Counters, RcuOpenOnlyByFaults
<1> QED BY <1>1, Invariant, PTL

(* Every variable keeps its type; the records stay records of tasks.       *)
THEOREM TypeCorrect == Spec => []TypeOK
<1>1. Inv => TypeOK
  BY DEF Inv, RecordInv, PrintInv, Counters, TornInv, Walked, WalkInv, ListInv,
         Members, TypeOK, Nodes
<1> QED BY <1>1, Invariant, PTL

-----------------------------------------------------------------------------
(* Room for the records                                                    *)

Born == Tasks \ unborn

RoomInv ==
  /\ IsFiniteSet(Born)
  /\ kpc # "none" => used = Len(entries) * EntryUnits
  /\ (upc = "returned" /\ result < 0) => Cardinality(Born) * EntryUnits > size
  /\ (upc = "done" /\ result < 0) =>
       /\ size >= LimitSize
       /\ 2 * (Cardinality(Born) * EntryUnits) > size

LEMMA OneMore ==
  ASSUME NEW a \in Nat, NEW b \in Nat
  PROVE  (a + 1) * b = a * b + b /\ a * b \in Nat
OBVIOUS

LEMMA ProductGrows ==
  ASSUME NEW a \in Nat, NEW c \in Nat, NEW b \in Nat, a <= c
  PROVE  a * b <= c * b
<1> DEFINE d == c - a
<1>1. d \in Nat /\ c = a + d
  OBVIOUS
<1> HIDE DEF d
<1>2. (a + d) * b = a * b + d * b /\ d * b \in Nat /\ a * b \in Nat
  BY <1>1
<1> QED BY <1>1, <1>2

LEMMA RoomInit == Init => RoomInv
<1> SUFFICES ASSUME Init PROVE RoomInv
  OBVIOUS
<1> DEFINE L == Len(FirstTasks)
<1>1. L \in Nat /\ FirstTasks \in [1 .. L -> Tasks]
  BY DevmemAssumption
<1>2. Born = {FirstTasks[k] : k \in 1 .. L}
  BY <1>1 DEF Init, Born, FirstOf
<1>3. FirstTasks \in Surjection(1 .. L, Born)
  BY <1>1, <1>2 DEF Surjection
<1>4. IsFiniteSet(1 .. L)
  BY <1>1, FS_Interval
<1>5. IsFiniteSet(Born)
  BY <1>3, <1>4, FS_Surjection
<1> QED BY <1>5 DEF Init, RoomInv

(* When a record does not fit, its task and those of the records before it *)
(* are as many different tasks.                                            *)
LEMMA TooMany ==
  ASSUME Inv, RoomInv, StoreFaults
  PROVE  Cardinality(Born) * EntryUnits > size
<1>1. PICK r \in [Nodes -> Nat], V \in SUBSET Tasks, b \in Nat : WalkInv(r, V, b)
  BY DEF Inv, Walked
<1> DEFINE n == Len(entries)
           f == [k \in 1 .. n + 1 |-> IF k <= n THEN entries[k].task ELSE curr]
<1>2. kpc = "store" /\ entries \in Seq(RecordType) /\ n \in Nat
      /\ \A j, k \in 1 .. n : entries[j].task = entries[k].task => j = k
  BY DEF StoreFaults, Inv, RecordInv
<1>3. /\ curr \in V /\ V \subseteq Born
      /\ \A k \in 1 .. n : entries[k].task \in V /\ entries[k].task # curr
  <2>1. curr \in V \cup {InitTask} /\ curr # InitTask
    BY <1>1, <1>2 DEF WalkInv, CallInv
  <2>2. \A k \in 1 .. n : entries[k].task \in V /\ r[entries[k].task] < r[curr]
    BY <1>1, <1>2, <2>1 DEF WalkInv, CallInv
  <2>3. V \subseteq Born
    BY <1>1 DEF WalkInv, ListInv, Members, Born
  <2>4. r[curr] \in Nat
    BY <2>1 DEF Nodes
  <2> QED BY <2>1, <2>2, <2>3, <2>4
<1>4. f \in Injection(1 .. n + 1, Born)
  <2>1. \A k \in 1 .. n + 1 : f[k] \in Born
    BY <1>2, <1>3
  <2>2. ASSUME NEW j \in 1 .. n + 1, NEW k \in 1 .. n + 1, f[j] = f[k] PROVE j = k
    <3>1. \A m \in 1 .. n + 1 : m \in 1 .. n \/ m = n + 1
      BY <1>2
    <3>2. \A m \in 1 .. n : f[m] = entries[m].task /\ f[m] # curr
      BY <1>2, <1>3
    <3>3. f[n + 1] = curr
      BY <1>2
    <3> HIDE DEF f
    <3> QED BY <1>2, <2>2, <3>1, <3>2, <3>3
  <2> HIDE DEF n
  <2>3. f \in [1 .. n + 1 -> Born]
    BY <2>1
  <2> HIDE DEF f
  <2> QED BY <2>2, <2>3 DEF Injection, IsInjective
<1> HIDE DEF f
<1>5. n + 1 <= Cardinality(Born) /\ Cardinality(Born) \in Nat
  <2>1. Cardinality(1 .. n + 1) = n + 1
    BY <1>2, FS_Interval
  <2>2. IsFiniteSet(Born)
    BY DEF RoomInv
  <2> QED BY <1>4, <2>1, <2>2, FS_Injection, FS_CardinalityType
<1>6. n * EntryUnits + EntryUnits > size
  <2>1. used = n * EntryUnits
    BY <1>2 DEF RoomInv
  <2>2. slack \in Nat /\ size \in Nat
    BY DevmemAssumption DEF Inv, Counters
  <2>3. n * EntryUnits \in Nat /\ EntryUnits \in Nat
    BY <1>2, Constants, OneMore
  <2>4. ~ (used + EntryUnits <= size + slack)
    BY DEF StoreFaults, Fits
  <2> HIDE DEF n
  <2> QED BY <2>1, <2>2, <2>3, <2>4
<1>7. (n + 1) * EntryUnits = n * EntryUnits + EntryUnits
  BY <1>2, Constants, OneMore
<1>8. (n + 1) * EntryUnits <= Cardinality(Born) * EntryUnits
  <2> DEFINE m == n + 1
             c == Cardinality(Born)
  <2>1. m \in Nat /\ c \in Nat /\ m <= c
    BY <1>2, <1>5
  <2> HIDE DEF m, c
  <2>2. m * EntryUnits <= c * EntryUnits
    BY <2>1, Constants, ProductGrows
  <2> QED BY <2>2 DEF m, c
<1>9. Cardinality(Born) * EntryUnits \in Nat /\ (n + 1) * EntryUnits \in Nat /\ size \in Nat
  <2>1. n + 1 \in Nat
    BY <1>2
  <2> HIDE DEF n
  <2> QED BY <1>5, <2>1, Constants, OneMore DEF Inv, Counters
<1> HIDE DEF n
<1> QED BY <1>6, <1>7, <1>8, <1>9

LEMMA RoomStep ==
  ASSUME Inv, RoomInv, [Next]_vars
  PROVE  RoomInv'
<1>1. CASE UNCHANGED unborn
  <2>1. Born' = Born
    BY <1>1 DEF Born
  <2> DEFINE room == Cardinality(Born) * EntryUnits
  <2>2. room \in Nat
    BY Constants, OneMore, FS_CardinalityType DEF RoomInv
  <2>3. room' = room
    BY <2>1
  <2>4. IsFiniteSet(Born')
    BY <2>1 DEF RoomInv
  <2> HIDE DEF room
  <2>5. RoomInv <=>
          /\ IsFiniteSet(Born)
          /\ kpc # "none" => used = Len(entries) * EntryUnits
          /\ (upc = "returned" /\ result < 0) => room > size
          /\ (upc = "done" /\ result < 0) => size >= LimitSize /\ 2 * room > size
    BY DEF RoomInv, room
  <2>6. RoomInv' <=>
          /\ IsFiniteSet(Born')
          /\ kpc' # "none" => used' = Len(entries') * EntryUnits
          /\ (upc' = "returned" /\ result' < 0) => room > size'
          /\ (upc' = "done" /\ result' < 0) => size' >= LimitSize /\ 2 * room > size'
    BY <2>3 DEF RoomInv, room
  <2>7. /\ result \in Int /\ size \in Nat /\ kpc = "none" <=> upc # "wait"
        /\ LimitSize \in Nat /\ EntryUnits \in Nat /\ processes \in Nat
        /\ entries \in Seq(RecordType)
    BY Constants, DevmemAssumption DEF Inv, Counters, RecordInv
  <2>8. CASE Call
    <3>1. entries' = <<>> /\ used' = 0 /\ upc' = "wait"
      BY <2>8 DEF Call, Inv, RecordInv
    <3>2. Len(entries') * EntryUnits = 0
      BY <2>7, <3>1
    <3> QED BY <2>4, <2>6, <3>1, <3>2
  <2>9. CASE Retry
    <3>1. /\ upc = "returned" /\ result < 0 /\ result' = result /\ size' = 2 * size
          /\ kpc' = kpc
          /\ upc' = IF 2 * size < LimitSize THEN "map" ELSE "done"
      BY <2>9 DEF Retry, kernelCall
    <3>2. room > size /\ kpc = "none"
      BY <2>5, <2>7, <3>1
    <3> QED BY <2>2, <2>4, <2>6, <2>7, <3>1, <3>2
  <2>10. CASE Store
    <3>1. /\ kpc = "store" /\ used' = used + EntryUnits /\ upc' = upc /\ upc = "wait"
          /\ Len(entries') = Len(entries) + 1
      BY <2>7, <2>10 DEF Store, collector
    <3>2. used = Len(entries) * EntryUnits /\ Len(entries) \in Nat
      BY <2>5, <2>7, <3>1
    <3>3. used' = Len(entries') * EntryUnits
      BY <2>7, <3>1, <3>2, OneMore
    <3> QED BY <2>4, <2>6, <3>1, <3>3
  <2>11. CASE StoreFaults
    <3>1. kpc' = "none" /\ upc' = "returned" /\ size' = size
      BY <2>11 DEF StoreFaults, ReturnToUser
    <3> QED BY <2>4, <2>6, <2>11, <3>1, TooMany DEF room
  <2>12. CASE ListEnd
    <3>1. kpc' = "none" /\ upc' = "returned" /\ result' = processes
      BY <2>12 DEF ListEnd, ReturnToUser
    <3> QED BY <2>4, <2>6, <2>7, <3>1
  <2>13. CASE Map \/ MapFails \/ GotList \/ PrintRecord \/ PrintEnd
    <3>1. /\ upc \in {"map", "returned", "print"} /\ kpc' = kpc /\ result' = result
          /\ upc' \in {"call", "nomap", "print", "done"}
          /\ upc' = "done" => upc = "print"
      BY <2>13 DEF Map, MapFails, GotList, PrintRecord, PrintEnd, kernelCall
    <3>2. upc = "print" => ~ (result < 0)
      BY <2>7 DEF Inv, RecordInv
    <3> QED BY <2>4, <2>6, <2>7, <3>1, <3>2
  <2>14. CASE CheckMm \/ LoadPgd
    <3>1. kpc # "none" /\ UNCHANGED <<used, entries, upc>>
      BY <2>14 DEF CheckMm, LoadPgd, collector
    <3> QED BY <2>4, <2>5, <2>6, <2>7, <3>1
  <2>15. CASE DropMm \/ Exec \/ Unlink \/ Finished \/ UNCHANGED vars
    <3>1. UNCHANGED <<kpc, used, entries, upc, result, size>>
      BY <2>15 DEF DropMm, Exec, Leaves, Unlink, Finished, vars, kernelCall, collector
    <3> QED BY <2>4, <2>5, <2>6, <3>1
  <2>16. CASE Fork
    <3>1. UNCHANGED <<kpc, used, entries, upc, result, size>>
      BY <2>16 DEF Fork, kernelCall, collector
    <3> QED BY <2>4, <2>5, <2>6, <3>1
  <2> QED BY <2>8, <2>9, <2>10, <2>11, <2>12, <2>13, <2>14, <2>15, <2>16
          DEF Next, Collector, Environment
<1>2. CASE Fork
  <2>1. PICK t \in unborn : unborn' = unborn \ {t}
    BY <1>2 DEF Fork
  <2>2. UNCHANGED <<kpc, used, entries, upc, result, size>>
    BY <1>2 DEF Fork, kernelCall, collector
  <2>3. Born' = Born \cup {t}
    BY <2>1 DEF Born, Inv, Walked, WalkInv, ListInv, Members
  <2>4. /\ IsFiniteSet(Born') /\ Cardinality(Born) \in Nat /\ Cardinality(Born') \in Nat
        /\ Cardinality(Born) <= Cardinality(Born')
    <3>1. IsFiniteSet(Born) /\ Cardinality(Born) \in Nat
      BY FS_CardinalityType DEF RoomInv
    <3> DEFINE B == Born
    <3>2. IsFiniteSet(B) /\ Cardinality(B) \in Nat
      BY <3>1
    <3> HIDE DEF B
    <3>3. /\ IsFiniteSet(B \cup {t})
          /\ Cardinality(B \cup {t}) = Cardinality(B) \/ Cardinality(B \cup {t}) = Cardinality(B) + 1
      BY <3>2, FS_AddElement
    <3>4. Born' = B \cup {t}
      BY <2>3 DEF B
    <3>5. Cardinality(Born) = Cardinality(B)
      BY DEF B
    <3> QED BY <3>2, <3>3, <3>4, <3>5
  <2> DEFINE old == Cardinality(Born) * EntryUnits
             new == Cardinality(Born') * EntryUnits
  <2>5. old \in Nat /\ new \in Nat /\ old <= new
    BY <2>4, Constants, OneMore, ProductGrows
  <2>6. /\ kpc # "none" => used = Len(entries) * EntryUnits
        /\ (upc = "returned" /\ result < 0) => old > size
        /\ (upc = "done" /\ result < 0) => size >= LimitSize /\ 2 * old > size
    BY DEF RoomInv
  <2>7. size \in Nat
    BY DEF Inv, Counters
  <2> HIDE DEF old, new
  <2>8. /\ kpc' # "none" => used' = Len(entries') * EntryUnits
        /\ (upc' = "returned" /\ result' < 0) => new > size'
        /\ (upc' = "done" /\ result' < 0) => size' >= LimitSize /\ 2 * new > size'
    BY <2>2, <2>5, <2>6, <2>7
  <2> QED BY <2>4, <2>8 DEF RoomInv, new
<1> QED
  <2>1. Fork \/ UNCHANGED unborn
    BY DEF Next, Collector, Environment, Finished, vars, kernelList, Map, MapFails,
       Call, Retry, GotList, PrintRecord, PrintEnd, CheckMm, LoadPgd, Store,
       StoreFaults, ListEnd, DropMm, Exec, Leaves, Unlink
  <2> QED BY <1>1, <1>2, <2>1

(* The collector of pgtcollect.c gives up only if the records of all the   *)
(* tasks there ever were do not fit the largest buffer below its limit.    *)
THEOREM GivesUpForLackOfRoom == Spec => []FitsThenListed
<1>1. Init => RoomInv
  BY RoomInit
<1>2. Inv /\ RoomInv /\ [Next]_vars => RoomInv'
  BY RoomStep
<1>3. Inv /\ RoomInv => FitsThenListed
  <2> SUFFICES ASSUME Inv, RoomInv, upc = "done", result < 0
               PROVE  Cardinality(Born) * EntryUnits > LimitSize \div 2
    BY DEF FitsThenListed, Born
  <2> DEFINE room == Cardinality(Born) * EntryUnits
  <2>1. room \in Nat
    BY Constants, OneMore, FS_CardinalityType DEF RoomInv
  <2>2. size >= LimitSize /\ 2 * room > size /\ size \in Nat /\ LimitSize \in Nat
    BY DevmemAssumption DEF RoomInv, Inv, Counters
  <2> HIDE DEF room
  <2>3. room > LimitSize \div 2
    BY <2>1, <2>2
  <2> QED BY <2>3 DEF room
<1> QED BY <1>1, <1>2, <1>3, Invariant, PTL DEF Spec
===============================================================================
