--------------------------- MODULE CrashDumpProofs ---------------------------
(***************************************************************************)
(* Theorems about CrashDump for every list of runs, every table in which   *)
(* some bases and sizes are decimal, every length of the file and every    *)
(* sequence of reads.  The position of a run in the file is a sum over the *)
(* runs before it, about which the lemmas of the first part are proved by  *)
(* a least counterexample.                                                 *)
(***************************************************************************)
EXTENDS CrashDump, SequenceTheorems, WellFoundedInduction, TLAPS

(* A set of naturals that is not empty has a least element.                *)
LEMMA LeastNatural ==
  ASSUME NEW S \in SUBSET Nat, S # {}
  PROVE  \E n \in S : \A m \in S : n <= m
<1> DEFINE R == {p \in Nat \X Nat : p[1] < p[2]}
<1>1. IsWellFoundedOn(R, Nat)
  BY NatLessThanWellFounded DEF OpToRel
<1>2. \E n \in S : \A m \in S : ~ (<<m, n>> \in R)
  <2> HIDE DEF R
  <2> QED BY <1>1, WFMin
<1>3. PICK n \in S : \A m \in S : ~ (<<m, n>> \in R)
  BY <1>2
<1>4. ASSUME NEW m \in S PROVE n <= m
  <2>1. <<m, n>> \notin R /\ m \in Nat /\ n \in Nat
    BY <1>3
  <2> QED BY <2>1
<1> QED BY <1>4

LEMMA RemainderFacts ==
  ASSUME NEW m \in Nat \ {0}, NEW a \in Nat
  PROVE  a % m \in Nat /\ a % m <= a /\ a % m < m /\ (a < m => a % m = a)
<1>1. a % m \in 0 .. m - 1
  OBVIOUS
<1>2. a = m * (a \div m) + (a % m) /\ a \div m \in Nat
  OBVIOUS
<1>3. CASE a \div m = 0
  BY <1>1, <1>2, <1>3
<1>4. CASE a \div m # 0
  <2>1. m * (a \div m) \in Nat /\ m * (a \div m) >= m
    <3> DEFINE q == a \div m
    <3>1. q \in Nat /\ q # 0
      BY <1>2, <1>4
    <3> HIDE DEF q
    <3>2. m * q \in Nat /\ m * q >= m
      BY <3>1
    <3> QED BY <3>2 DEF q
  <2> QED BY <1>1, <1>2, <2>1
<1> QED BY <1>3, <1>4

-----------------------------------------------------------------------------
(* The dump file                                                           *)

LEMMA BlockFacts ==
  ASSUME block \in Blocks
  PROVE  /\ Len(block) \in Nat /\ DOMAIN block = 1 .. Len(block)
         /\ \A r \in 1 .. Len(block) :
              block[r].base \in Nat \ {0} /\ block[r].count \in Nat \ {0}
         /\ \A r \in 1 .. Len(block) : block[r] \in Run
         /\ \A k, l \in 1 .. Len(block) :
              k < l => block[k].base + block[k].count <= block[l].base
<1>1. block \in Seq(Run)
  BY CrashDumpAssumption
<1>2. Len(block) \in Nat /\ DOMAIN block = 1 .. Len(block)
  BY <1>1, LenProperties
<1>3. ASSUME NEW r \in 1 .. Len(block)
      PROVE  /\ block[r].base \in Nat \ {0} /\ block[r].count \in Nat \ {0}
             /\ block[r] \in Run
  <2>1. block[r] \in Run
    BY <1>1, ElementOfSeq
  <2> QED BY <2>1 DEF Run
<1> QED BY <1>2, <1>3, CrashDumpAssumption

(* The recursive definition has a solution, whatever block is.             *)
LEMMA PagesDefined ==
  ASSUME NEW n \in Nat
  PROVE  \E g : g = [k \in 0..n |-> IF k = 0 THEN 0 ELSE g[k - 1] + block[k].count]
<1> DEFINE Solves(g, m) ==
             g = [k \in 0..m |-> IF k = 0 THEN 0 ELSE g[k - 1] + block[k].count]
           Bad == {m \in Nat : ~ \E g : Solves(g, m)}
<1>1. SUFFICES ASSUME Bad # {} PROVE FALSE
  OBVIOUS
<1>2. PICK m \in Bad : \A l \in Bad : m <= l
  <2>1. Bad \in SUBSET Nat
    OBVIOUS
  <2> HIDE DEF Bad
  <2> QED BY <1>1, <2>1, LeastNatural
<1>3. m # 0
  <2>1. Solves([k \in 0..0 |-> 0], 0)
    OBVIOUS
  <2> QED BY <2>1
<1>4. m \in Nat /\ m - 1 \in Nat /\ m - 1 \notin Bad
  <2>1. m \in Nat
    OBVIOUS
  <2>2. m - 1 \in Nat /\ ~ (m <= m - 1)
    BY <1>3, <2>1
  <2> QED BY <1>2, <2>1, <2>2
<1>5. PICK g : Solves(g, m - 1)
  BY <1>4
<1> DEFINE h == [k \in 0..m |-> IF k < m THEN g[k] ELSE g[m - 1] + block[m].count]
<1>6. \A k \in 0 .. m - 1 : g[k] = IF k = 0 THEN 0 ELSE g[k - 1] + block[k].count
  BY <1>5
<1>7. ASSUME NEW k \in 0..m
      PROVE  h[k] = IF k = 0 THEN 0 ELSE h[k - 1] + block[k].count
  <2>1. CASE k = 0
    <3>1. 0 \in 0 .. m - 1 /\ 0 < m
      BY <1>3, <1>4
    <3> QED BY <1>6, <2>1, <3>1
  <2>2. CASE k # 0
    <3>1. k \in Nat /\ k - 1 \in 0 .. m - 1 /\ k - 1 \in 0..m /\ k - 1 < m
      BY <1>4, <2>2
    <3>2. h[k - 1] = g[k - 1]
      BY <3>1
    <3>3. CASE k < m
      <4>1. k \in 0 .. m - 1
        BY <1>4, <3>1, <3>3
      <4> QED BY <1>6, <2>2, <3>2, <3>3, <4>1
    <3>4. CASE k = m
      BY <1>4, <2>2, <3>2, <3>4
    <3> QED BY <1>4, <3>1, <3>3, <3>4
  <2> QED BY <2>1, <2>2
<1>8. Solves(h, m)
  <2> DEFINE Body(k) == IF k = 0 THEN 0 ELSE h[k - 1] + block[k].count
  <2>1. h = [k \in 0..m |-> h[k]]
    OBVIOUS
  <2>2. \A k \in 0..m : h[k] = Body(k)
    BY <1>7
  <2> HIDE DEF h
  <2> QED BY <2>1, <2>2
<1> QED BY <1>8

LEMMA PagesEquation ==
  ASSUME block \in Blocks
  PROVE  /\ PagesUpTo[0] = 0
         /\ \A k \in 1 .. Len(block) :
              PagesUpTo[k] = PagesUpTo[k - 1] + block[k].count
<1>1. Len(block) \in Nat
  BY BlockFacts
<1>2. \E g : g = [k \in 0 .. Len(block) |->
                    IF k = 0 THEN 0 ELSE g[k - 1] + block[k].count]
  BY <1>1, PagesDefined
<1>3. PagesUpTo = [k \in 0 .. Len(block) |->
                     IF k = 0 THEN 0 ELSE PagesUpTo[k - 1] + block[k].count]
  BY <1>2 DEF PagesUpTo
<1>4. 0 \in 0 .. Len(block) /\ \A k \in 1 .. Len(block) : k \in 0 .. Len(block) /\ k # 0
  BY <1>1
<1> HIDE DEF PagesUpTo
<1>5. \A k \in 0 .. Len(block) :
        PagesUpTo[k] = IF k = 0 THEN 0 ELSE PagesUpTo[k - 1] + block[k].count
  BY <1>3
<1> QED BY <1>4, <1>5

(* The same in units: where a run starts in memory and how long it is, and *)
(* what its row of the table has for the two.                              *)
Base(r) == block[r].base * PageUnits
Size(r) == block[r].count * PageUnits
RowBase(r) == Bytes(r, "base")
RowSize(r) == Bytes(r, "count")

LEMMA UnitFacts ==
  ASSUME block \in Blocks, NEW r \in 1 .. Len(block)
  PROVE  /\ Base(r) \in Nat /\ Size(r) \in Nat \ {0}
         /\ RowSize(r) \in Nat /\ RowSize(r) <= Size(r)
         /\ RowBase(r) \in Nat \ {0} /\ RowBase(r) <= Base(r)
         /\ "base" \notin block[r].bare => RowBase(r) = Base(r)
         /\ (block[r].base + block[r].count) * PageUnits = Base(r) + Size(r)
<1>1. /\ block[r].base \in Nat \ {0} /\ block[r].count \in Nat \ {0}
      /\ PageUnits \in Nat \ {0} /\ BareUnits \in Nat \ {0}
      /\ BareUnits <= PageUnits
  BY BlockFacts, CrashDumpAssumption
<1> DEFINE b == block[r].base
           c == block[r].count
<1>2. b \in Nat /\ b # 0 /\ c \in Nat /\ c # 0
  BY <1>1
<1>6. /\ RowBase(r) = b * BareUnits \/ RowBase(r) = b * PageUnits
      /\ "base" \notin block[r].bare => RowBase(r) = b * PageUnits
      /\ RowSize(r) = c * BareUnits \/ RowSize(r) = c * PageUnits
  BY DEF RowBase, RowSize, Bytes
<1> HIDE DEF b, c
<1>3. /\ b * PageUnits \in Nat /\ c * PageUnits \in Nat /\ c * BareUnits \in Nat
      /\ b * BareUnits \in Nat
  BY <1>1, <1>2
<1>4. c * PageUnits # 0 /\ c * BareUnits <= c * PageUnits
  BY <1>1, <1>2
<1>7. b * BareUnits # 0 /\ b * PageUnits # 0 /\ b * BareUnits <= b * PageUnits
  BY <1>1, <1>2
<1>5. (b + c) * PageUnits = b * PageUnits + c * PageUnits
  BY <1>1, <1>2
<1>8. Base(r) = b * PageUnits /\ Size(r) = c * PageUnits
  BY DEF b, c, Base, Size
<1>9. (block[r].base + block[r].count) * PageUnits = (b + c) * PageUnits
  BY DEF b, c
<1> QED BY <1>3, <1>4, <1>5, <1>6, <1>7, <1>8, <1>9

LEMMA UnitOrder ==
  ASSUME block \in Blocks, NEW k \in 1 .. Len(block), NEW l \in 1 .. Len(block), k < l
  PROVE  Base(k) + Size(k) <= Base(l)
<1>1. /\ block[k].base \in Nat /\ block[k].count \in Nat /\ block[l].base \in Nat
      /\ PageUnits \in Nat /\ block[k].base + block[k].count <= block[l].base
  BY BlockFacts, CrashDumpAssumption
<1> DEFINE x == block[k].base + block[k].count
           y == block[l].base
<1>2. x \in Nat /\ y \in Nat /\ x <= y
  BY <1>1
<1> HIDE DEF x, y
<1>3. x * PageUnits <= y * PageUnits
  BY <1>1, <1>2
<1>4. Base(k) + Size(k) = x * PageUnits
  BY UnitFacts DEF x
<1> QED BY <1>3, <1>4 DEF y, Base

LEMMA PagesNat ==
  ASSUME block \in Blocks, NEW k \in 0 .. Len(block)
  PROVE  PagesUpTo[k] \in Nat
<1> DEFINE Bad == {m \in 0 .. Len(block) : PagesUpTo[m] \notin Nat}
<1>1. SUFFICES ASSUME Bad # {} PROVE FALSE
  OBVIOUS
<1>2. PICK m \in Bad : \A l \in Bad : m <= l
  <2>1. Bad \in SUBSET Nat
    BY BlockFacts
  <2> HIDE DEF Bad
  <2> QED BY <1>1, <2>1, LeastNatural
<1>3. m \in 1 .. Len(block) /\ m - 1 \in 0 .. Len(block) /\ ~ (m <= m - 1)
  BY BlockFacts, PagesEquation
<1>4. PagesUpTo[m - 1] \in Nat
  BY <1>2, <1>3
<1>5. PagesUpTo[m] = PagesUpTo[m - 1] + block[m].count /\ block[m].count \in Nat
  BY <1>3, PagesEquation, BlockFacts
<1> QED BY <1>4, <1>5

LEMMA StartFacts ==
  ASSUME block \in Blocks
  PROVE  /\ FileStart(1) = HeaderPages * PageUnits
         /\ \A r \in 1 .. Len(block) + 1 : FileStart(r) \in Nat
         /\ \A r \in 1 .. Len(block) : FileStart(r + 1) = FileStart(r) + Size(r)
<1>1. PageUnits \in Nat /\ HeaderPages \in Nat /\ Len(block) \in Nat
  BY CrashDumpAssumption, BlockFacts
<1>2. FileStart(1) = HeaderPages * PageUnits
  <2>1. FileStart(1) = (HeaderPages + PagesUpTo[0]) * PageUnits
    BY DEF FileStart
  <2> QED BY <1>1, <2>1, PagesEquation
<1>3. ASSUME NEW r \in 1 .. Len(block) + 1
      PROVE  FileStart(r) \in Nat
  <2> DEFINE p == PagesUpTo[r - 1]
  <2>1. p \in Nat
    BY <1>1, PagesNat
  <2> HIDE DEF p
  <2>2. (HeaderPages + p) * PageUnits \in Nat
    BY <1>1, <2>1
  <2> QED BY <2>2 DEF p, FileStart
<1>4. ASSUME NEW r \in 1 .. Len(block)
      PROVE  FileStart(r + 1) = FileStart(r) + Size(r)
  <2> DEFINE p == PagesUpTo[r - 1]
             c == block[r].count
  <2>1. p \in Nat /\ c \in Nat
    BY <1>1, PagesNat, BlockFacts
  <2>2. PagesUpTo[r] = p + c
    BY PagesEquation
  <2> HIDE DEF p, c
  <2>3. (HeaderPages + (p + c)) * PageUnits = (HeaderPages + p) * PageUnits + c * PageUnits
    BY <1>1, <2>1
  <2>4. FileStart(r + 1) = (HeaderPages + PagesUpTo[r]) * PageUnits
    <3>1. (r + 1) - 1 = r
      OBVIOUS
    <3> QED BY <3>1 DEF FileStart
  <2> QED BY <2>2, <2>3, <2>4 DEF p, c, FileStart, Size
<1> QED BY <1>2, <1>3, <1>4

(* A run ends in the file before any later one starts.                     *)
LEMMA StartOrder ==
  ASSUME block \in Blocks, NEW k \in 1 .. Len(block),
         NEW l \in 1 .. Len(block) + 1, k < l
  PROVE  FileStart(k) + Size(k) <= FileStart(l)
<1> DEFINE Bad == {m \in 1 .. Len(block) + 1 :
                     k < m /\ ~ (FileStart(k) + Size(k) <= FileStart(m))}
<1>1. SUFFICES ASSUME Bad # {} PROVE FALSE
  OBVIOUS
<1>2. PICK m \in Bad : \A n \in Bad : m <= n
  <2>1. Bad \in SUBSET Nat
    BY BlockFacts
  <2> HIDE DEF Bad
  <2> QED BY <1>1, <2>1, LeastNatural
<1>3. m \in Nat /\ m - 1 \in 1 .. Len(block) /\ ~ (m <= m - 1) /\ k <= m - 1
  BY BlockFacts
<1>4. FileStart(m) = FileStart(m - 1) + Size(m - 1)
  <2>1. (m - 1) + 1 = m
    BY <1>3
  <2> QED BY <1>3, <2>1, StartFacts
<1>5. CASE m - 1 = k
  <2>1. FileStart(m) \in Nat
    BY StartFacts
  <2> QED BY <1>4, <1>5, <2>1
<1>6. CASE m - 1 # k
  <2>1. m - 1 \in 1 .. Len(block) + 1 /\ k < m - 1 /\ m - 1 \notin Bad
    BY <1>2, <1>3, <1>6, BlockFacts
  <2>2. FileStart(k) + Size(k) <= FileStart(m - 1)
    BY <2>1
  <2>3. Size(k) \in Nat /\ Size(m - 1) \in Nat
    BY <1>3, UnitFacts
  <2>4. FileStart(k) \in Nat /\ FileStart(m - 1) \in Nat
    <3>1. k \in 1 .. Len(block) + 1
      BY BlockFacts
    <3> QED BY <2>1, <3>1, StartFacts
  <2> QED BY <1>4, <2>2, <2>3, <2>4
<1> QED BY <1>5, <1>6

(* Every position between the header and the end is in a run.              *)
LEMMA PositionInARun ==
  ASSUME block \in Blocks, NEW f \in Nat,
         FileStart(1) <= f, f < FileStart(Len(block) + 1)
  PROVE  \E r \in 1 .. Len(block) : FileStart(r) <= f /\ f < FileStart(r) + Size(r)
<1> DEFINE After == {m \in 1 .. Len(block) + 1 : f < FileStart(m)}
<1>1. After # {}
  BY BlockFacts
<1>2. PICK m \in After : \A l \in After : m <= l
  <2>1. After \in SUBSET Nat
    BY BlockFacts
  <2> HIDE DEF After
  <2> QED BY <1>1, <2>1, LeastNatural
<1>3. m # 1
  BY StartFacts, BlockFacts
<1>4. m \in Nat /\ m - 1 \in 1 .. Len(block) /\ ~ (m <= m - 1) /\ m - 1 \in 1 .. Len(block) + 1
  BY <1>3, BlockFacts
<1>5. ~ (f < FileStart(m - 1)) /\ FileStart(m - 1) \in Nat
  BY <1>2, <1>4, StartFacts
<1>6. FileStart(m) = FileStart(m - 1) + Size(m - 1)
  <2>1. (m - 1) + 1 = m
    BY <1>4
  <2> QED BY <1>4, <2>1, StartFacts
<1>7. FileStart(m - 1) <= f /\ f < FileStart(m - 1) + Size(m - 1)
  BY <1>5, <1>6
<1> QED BY <1>4, <1>7

(* What the file holds at a position inside a run.                         *)
LEMMA StoredInRun ==
  ASSUME block \in Blocks, NEW r \in 1 .. Len(block), NEW f \in Nat,
         FileStart(r) <= f, f < FileStart(r) + Size(r)
  PROVE  Stored(f) = Base(r) + (f - FileStart(r)) /\ Stored(f) \in Nat
<1> DEFINE c == CHOOSE c \in 1 .. Len(block) : HoldsRun(c, f)
<1>0. HoldsRun(r, f)
  BY DEF HoldsRun, Size
<1>1. c \in 1 .. Len(block) /\ HoldsRun(c, f)
  BY <1>0
<1>2. DOMAIN block = 1 .. Len(block) /\ Len(block) \in Nat
  BY BlockFacts
<1>3. Stored(f) = Base(c) + (f - FileStart(c))
  BY <1>0, <1>2 DEF Stored, Base
<1> HIDE DEF c
<1>4. c = r
  <2>1. /\ FileStart(c) \in Nat /\ Size(c) \in Nat
        /\ FileStart(r) \in Nat /\ Size(r) \in Nat
    BY SMTT(30), <1>1, <1>2, StartFacts, UnitFacts
  <2>2. ~ (c < r)
    <3>1. c < r => FileStart(c) + Size(c) <= FileStart(r)
      BY <1>1, <1>2, StartOrder
    <3> QED BY <1>1, <2>1, <3>1 DEF HoldsRun, Size
  <2>3. ~ (r < c)
    <3>1. r < c => FileStart(r) + Size(r) <= FileStart(c)
      BY <1>1, <1>2, StartOrder
    <3> QED BY <1>1, <2>1, <3>1 DEF HoldsRun, Size
  <2> QED BY <1>1, <1>2, <2>2, <2>3
<1>5. Base(r) \in Nat /\ FileStart(r) \in Nat
  BY <1>2, StartFacts, UnitFacts
<1> QED BY <1>3, <1>4, <1>5

(* What the file holds anywhere is memory or the header.                   *)
LEMMA StoredIsKnown ==
  ASSUME block \in Blocks, NEW f \in Nat
  PROVE  Stored(f) \in Nat \cup {Header}
<1>1. DOMAIN block = 1 .. Len(block)
  BY BlockFacts
<1>2. CASE \E r \in DOMAIN block : HoldsRun(r, f)
  BY <1>1, <1>2, StoredInRun DEF HoldsRun, Size
<1>3. CASE ~ \E r \in DOMAIN block : HoldsRun(r, f)
  BY <1>3 DEF Stored
<1> QED BY <1>2, <1>3

-----------------------------------------------------------------------------
(* The inductive invariant                                                 *)

(* Every variable has its type, req as one of the requests where it        *)
(* matters.                                                                *)
Types ==
  /\ block \in Blocks /\ missing \in Truncations
  /\ pc \in {"script", "idle", "scan", "read"}
  /\ foff \in Nat /\ pos \in Nat
  /\ table \in Seq(RowType)
  /\ i \in 1 .. Len(block) + 1
  /\ req \in [phys : Nat, size : Nat \ {0}]
  /\ dest \in Seq(Nat \cup {Header, Uninit})
  /\ ret \in {0, 1}

TableRow(r) ==
  [phys |-> RowBase(r) % Space, off |-> FileStart(r) % Space,
   size |-> RowSize(r) % Space]

(* The rows are those of the runs, in order, and the table is complete     *)
(* when the program has opened the dump.                                   *)
TableInv ==
  /\ Len(table) <= Len(block)
  /\ foff = FileStart(Len(table) + 1)
  /\ \A r \in 1 .. Len(table) : table[r] = TableRow(r)
  /\ pc # "script" => Len(table) = Len(block)
  /\ pc = "script" => dest = <<>>

(* While physread runs the buffer is fresh, and the rows before the one it *)
(* looks at do not match.                                                  *)
ScanInv ==
  pc \in {"scan", "read"} =>
    /\ dest = [k \in 1..req.size |-> Uninit]
    /\ \A j \in 1 .. i - 1 : j <= Len(table) /\ ~ Found(j)

(* The position that lseek has set.                                        *)
SeekInv ==
  pc = "read" =>
    /\ Found(i)
    /\ pos = (req.phys - table[i].phys + table[i].off) % Space

IInv ==
  /\ Types /\ TableInv /\ ScanInv /\ SeekInv
  /\ DumpedMemoryIsServed /\ UnfilledOnlyAtEnd

-----------------------------------------------------------------------------
(* The read                                                                *)

(* The rows of a run that the table can express and of those before it:    *)
(* the numbers are whole, and their sums have 32 bits.                     *)
LEMMA RowFacts ==
  ASSUME Types, TableInv, NEW q \in 1 .. Len(block), Expressed(q),
         NEW k \in 1 .. q, k \in 1 .. Len(table)
  PROVE  /\ table[k].phys = RowBase(k) /\ table[k].phys # 0
         /\ table[k].off = FileStart(k)
         /\ table[k].size \in Nat /\ table[k].size <= RowSize(k)
         /\ Base(k) + Size(k) <= Space
         /\ FileStart(k) + Size(k) <= Space
<1>1. block \in Blocks /\ Len(block) \in Nat /\ Space \in Nat \ {0}
  BY BlockFacts, CrashDumpAssumption DEF Types
<1>2. k \in 1 .. Len(block) /\ k \in 1 .. Len(block) + 1 /\ q \in 1 .. Len(block) + 1
  BY <1>1
<1>3. table[k] = TableRow(k)
  BY DEF TableInv
<1>4. /\ Base(k) \in Nat /\ Size(k) \in Nat \ {0} /\ RowSize(k) \in Nat
      /\ RowBase(k) \in Nat \ {0} /\ RowBase(k) <= Base(k)
      /\ FileStart(k) \in Nat
      /\ Base(q) \in Nat /\ Size(q) \in Nat /\ FileStart(q) \in Nat
  BY <1>1, <1>2, UnitFacts, StartFacts
<1>5. Base(q) + Size(q) <= Space /\ FileStart(q) + Size(q) <= Space
  BY <1>1, UnitFacts, StartFacts DEF Expressed
<1>6. Base(k) + Size(k) <= Space /\ FileStart(k) + Size(k) <= Space
  <2>1. CASE k = q
    BY <1>5, <2>1
  <2>2. CASE k # q
    <3>1. k < q
      BY <1>1, <2>2
    <3>2. Base(k) + Size(k) <= Base(q) /\ FileStart(k) + Size(k) <= FileStart(q)
      BY <1>1, <1>2, <3>1, UnitOrder, StartOrder
    <3> QED BY SMTT(30), <1>1, <1>4, <1>5, <3>2
  <2> QED BY <2>1, <2>2
<1>7. RowBase(k) < Space /\ FileStart(k) < Space
  BY <1>1, <1>4, <1>6
<1>8. /\ RowBase(k) % Space = RowBase(k) /\ FileStart(k) % Space = FileStart(k)
      /\ RowSize(k) % Space \in Nat /\ RowSize(k) % Space <= RowSize(k)
  BY <1>1, <1>4, <1>7, RemainderFacts
<1> QED BY <1>3, <1>4, <1>6, <1>8 DEF TableRow

(* How much read gives.                                                    *)
LEMMA GotFacts ==
  ASSUME Types
  PROVE  /\ FileLength \in Int
         /\ Got \in 0 .. req.size
         /\ Got > 0 => pos + Got <= FileLength
         /\ 0 < Got /\ Got < req.size => pos + Got = FileLength
<1>1. pos \in Nat /\ req.size \in Nat /\ block \in Blocks /\ missing \in Truncations
  BY DEF Types
<1>2. FileStart(Len(block) + 1) \in Nat /\ missing \in Nat
  BY <1>1, StartFacts, BlockFacts, CrashDumpAssumption
<1>3. FileLength \in Int
  BY <1>2 DEF FileLength
<1> QED BY <1>1, <1>3 DEF Got

(* What the lookup is about when a request lies in a run.                  *)
LEMMA DumpedFacts ==
  ASSUME Types, NEW q \in 1 .. Len(block), Dumped(q)
  PROVE  /\ Base(q) <= req.phys
         /\ req.phys + req.size - 1 < Base(q) + Size(q)
         /\ req.phys < Base(q) + Size(q)
         /\ FileStart(q) + (req.phys - Base(q)) + req.size <= FileLength
<1>1. block \in Blocks /\ req.phys \in Nat /\ req.size \in Nat \ {0}
  BY DEF Types
<1>2. Base(q) \in Nat /\ Size(q) \in Nat
  BY <1>1, UnitFacts
<1>3. (block[q].base + block[q].count) * PageUnits = Base(q) + Size(q)
  BY <1>1, UnitFacts
<1>4. Base(q) <= req.phys /\ FileStart(q) + (req.phys - Base(q)) + req.size <= FileLength
  BY DEF Dumped, InRun, Base
<1>5. req.phys + req.size - 1 < Base(q) + Size(q)
  BY <1>3 DEF Dumped, InRun
<1> QED BY <1>1, <1>2, <1>4, <1>5

(* In its row a request matches.                                           *)
LEMMA InRowMatches ==
  ASSUME Types, TableInv, Len(table) = Len(block),
         NEW q \in 1 .. Len(block), Dumped(q), Expressed(q), InRow(q)
  PROVE  Found(q)
<1>1. block \in Blocks /\ Len(block) \in Nat /\ req.phys \in Nat
      /\ Space \in Nat \ {0}
  BY BlockFacts, CrashDumpAssumption DEF Types
<1>2. q \in 1 .. q /\ q \in 1 .. Len(table)
  BY <1>1
<1>3. /\ table[q].phys = RowBase(q) /\ table[q].phys # 0 /\ table[q].size \in Nat
  BY <1>2, RowFacts
<1>4. RowBase(q) = Base(q) /\ Base(q) \in Nat
  BY <1>1, UnitFacts DEF Expressed
<1>5. Base(q) <= req.phys
  BY DumpedFacts
<1> DEFINE e == table[q].phys + table[q].size
<1>6. e \in Nat /\ e < Space /\ req.phys < e
  BY <1>3, <1>4 DEF InRow
<1>7. e % Space = e
  <2> HIDE DEF e
  <2> QED BY <1>1, <1>6, RemainderFacts
<1> HIDE DEF e
<1>8. req.phys >= table[q].phys /\ req.phys <= e % Space
  BY <1>1, <1>3, <1>4, <1>5, <1>6, <1>7
<1>9. Matches(table[q])
  BY <1>8 DEF Matches, e
<1> QED BY <1>1, <1>3, <1>9 DEF Found, TableEnds

(* A run before that matches a request ends where the request starts, and  *)
(* its row is that of the whole run.                                       *)
LEMMA MatchBefore ==
  ASSUME Types, TableInv, Len(table) = Len(block),
         NEW q \in 1 .. Len(block), Dumped(q), Expressed(q),
         NEW k \in 1 .. q, k < q, Matches(table[k])
  PROVE  /\ req.phys = Base(q) /\ req.phys = Base(k) + Size(k)
         /\ table[k].phys = Base(k) /\ table[k].off = FileStart(k)
<1>1. block \in Blocks /\ Len(block) \in Nat /\ req.phys \in Nat
      /\ Space \in Nat \ {0}
  BY BlockFacts, CrashDumpAssumption DEF Types
<1>2. k \in 1 .. Len(table) /\ k \in 1 .. Len(block)
  BY <1>1
<1>3. /\ table[k].phys = RowBase(k) /\ table[k].off = FileStart(k)
      /\ table[k].size \in Nat /\ table[k].size <= RowSize(k)
  BY <1>2, RowFacts
<1>4. /\ Base(k) \in Nat /\ Size(k) \in Nat /\ RowBase(k) \in Nat /\ RowSize(k) \in Nat
      /\ RowBase(k) <= Base(k) /\ RowSize(k) <= Size(k)
      /\ Base(k) + Size(k) <= Base(q) /\ Base(q) \in Nat
  BY <1>1, <1>2, UnitFacts, UnitOrder
<1>5. Base(q) <= req.phys
  BY DumpedFacts
<1> DEFINE e == table[k].phys + table[k].size
<1>6. e \in Nat /\ e <= Base(k) + Size(k)
  BY <1>3, <1>4
<1>7. e % Space <= e /\ e % Space \in Nat /\ req.phys <= e % Space
  <2>1. req.phys <= e % Space
    BY DEF Matches
  <2> HIDE DEF e
  <2> QED BY <1>1, <1>6, <2>1, RemainderFacts
<1>8. req.phys <= e
  <2> HIDE DEF e
  <2> QED BY <1>1, <1>6, <1>7
<1> QED BY SMTT(30), <1>1, <1>3, <1>4, <1>5, <1>6, <1>8

(* A request that a run covers is found in the file where that run is,     *)
(* also when the row that matches is the one before, which ends there.  It *)
(* is not found in a later row, since it matches its own, or since all     *)
(* later rows are of higher addresses.                                     *)
LEMMA CoveredIsFound ==
  ASSUME Types, TableInv, ScanInv, SeekInv, pc = "read",
         NEW q \in 1 .. Len(block), Dumped(q), Expressed(q),
         InRow(q) \/ \A k \in q .. Len(block) : Expressed(k)
  PROVE  pos = FileStart(q) + (req.phys - Base(q))
<1>1. block \in Blocks /\ Len(block) \in Nat /\ Len(table) = Len(block)
  BY BlockFacts DEF Types, TableInv
<1>2. i \in 1 .. Len(block) /\ Found(i) /\ Matches(table[i])
      /\ pos = (req.phys - table[i].phys + table[i].off) % Space
  BY <1>1 DEF Types, SeekInv, Found, TableEnds
<1>3. /\ Base(q) \in Nat /\ Size(q) \in Nat /\ Base(i) \in Nat /\ Size(i) \in Nat \ {0}
  BY <1>1, <1>2, UnitFacts
<1>4. req.phys \in Nat /\ req.size \in Nat /\ req.size # 0 /\ Space \in Nat \ {0}
  BY CrashDumpAssumption DEF Types
<1>5. FileStart(q) \in Nat /\ FileStart(i) \in Nat
  <2>1. q \in 1 .. Len(block) + 1 /\ i \in 1 .. Len(block) + 1
    BY <1>1, <1>2
  <2> QED BY <1>1, <2>1, StartFacts
<1>6. Base(q) <= req.phys /\ req.phys < Base(q) + Size(q)
  BY DumpedFacts
<1>7. FileStart(q) + Size(q) <= Space
  <2>1. q \in 1 .. q /\ q \in 1 .. Len(table)
    BY <1>1
  <2> QED BY <2>1, RowFacts
<1>8. i <= q
  <2>1. CASE InRow(q)
    <3>1. q \notin 1 .. i - 1
      BY <1>1, <2>1, InRowMatches DEF ScanInv
    <3> QED BY <1>1, <1>2, <3>1
  <2>2. CASE \A k \in q .. Len(block) : Expressed(k)
    <3>1. SUFFICES ASSUME q < i PROVE FALSE
      BY <1>1, <1>2
    <3>2. Expressed(i) /\ i \in 1 .. i /\ i \in 1 .. Len(table)
      BY <1>1, <1>2, <2>2, <3>1
    <3>3. table[i].phys = Base(i)
      BY <1>1, <1>2, <3>2, RowFacts, UnitFacts DEF Expressed
    <3>4. Base(q) + Size(q) <= Base(i)
      BY <1>1, <1>2, <3>1, UnitOrder
    <3>5. Base(i) <= req.phys
      BY <1>2, <3>3 DEF Matches
    <3> QED BY <1>3, <1>4, <1>6, <3>4, <3>5
  <2> QED BY <2>1, <2>2
<1> DEFINE p == FileStart(q) + (req.phys - Base(q))
<1>9. p \in Nat /\ p < Space
  BY SMTT(30), <1>3, <1>4, <1>5, <1>6, <1>7
<1>10. req.phys - table[i].phys + table[i].off = p
  <2>1. CASE i = q
    <3>1. i \in 1 .. q /\ i \in 1 .. Len(table)
      BY <1>1, <1>2, <2>1
    <3>2. table[i].phys = Base(q) /\ table[i].off = FileStart(q)
      BY <1>1, <2>1, <3>1, RowFacts, UnitFacts DEF Expressed
    <3> QED BY <1>3, <1>4, <1>5, <3>2
  <2>2. CASE i # q
    <3>1. i < q /\ i \in 1 .. q
      BY <1>1, <1>2, <1>8, <2>2
    <3>2. /\ req.phys = Base(q) /\ req.phys = Base(i) + Size(i)
          /\ table[i].phys = Base(i) /\ table[i].off = FileStart(i)
      BY <1>1, <1>2, <3>1, MatchBefore
    <3>4. q = i + 1
      <4>1. SUFFICES ASSUME q # i + 1 PROVE FALSE
        OBVIOUS
      <4>2. i + 1 \in 1 .. Len(block) /\ i < i + 1 /\ i + 1 < q
        BY <1>1, <1>2, <3>1, <4>1
      <4>3. Base(i) + Size(i) <= Base(i + 1) /\ Base(i + 1) + Size(i + 1) <= Base(q)
        BY <1>1, <1>2, <4>2, UnitOrder
      <4>4. Base(i + 1) \in Nat /\ Size(i + 1) \in Nat /\ Size(i + 1) # 0
        BY <1>1, <4>2, UnitFacts
      <4> QED BY <1>3, <1>4, <3>2, <4>3, <4>4
    <3>5. FileStart(q) = FileStart(i) + Size(i)
      BY <1>1, <1>2, <3>4, StartFacts
    <3> QED BY <1>3, <1>4, <1>5, <3>2, <3>5
  <2> QED BY <2>1, <2>2
<1> HIDE DEF p
<1>11. p % Space = p
  BY <1>4, <1>9, RemainderFacts
<1> QED BY <1>2, <1>10, <1>11 DEF p

(* What read leaves in the buffer.                                         *)
LEMMA ReadFacts ==
  ASSUME Types, TableInv, ScanInv, SeekInv, Read
  PROVE  /\ dest' \in Seq(Nat \cup {Header, Uninit})
         /\ \A k \in 1 .. req.size :
              dest'[k] = IF k <= Got THEN Stored(pos + k - 1) ELSE Uninit
         /\ \A k \in 1 .. Got : Stored(pos + k - 1) \in Nat \cup {Header}
<1>1. pc = "read" /\ req.size \in Nat /\ block \in Blocks /\ missing \in Truncations
  BY DEF Types, Read
<1>2. dest' = [k \in 1..req.size |->
                 IF k <= Got THEN Stored(pos + k - 1) ELSE dest[k]]
  BY DEF Read
<1>3. \A k \in 1 .. req.size : dest[k] = Uninit
  BY <1>1 DEF ScanInv
<1>4. ASSUME NEW k \in 1 .. req.size
      PROVE  dest'[k] = IF k <= Got THEN Stored(pos + k - 1) ELSE Uninit
  BY <1>2, <1>3
<1>5. ASSUME NEW k \in 1 .. Got
      PROVE  Stored(pos + k - 1) \in Nat \cup {Header}
  <2>1. Got \in Nat /\ pos \in Nat
    BY GotFacts DEF Types
  <2>2. pos + k - 1 \in Nat
    BY <2>1
  <2> QED BY <1>1, <2>2, StoredIsKnown
<1>6. dest' \in [1..req.size -> Nat \cup {Header, Uninit}]
  <2>1. ASSUME NEW k \in 1 .. req.size
        PROVE  (IF k <= Got THEN Stored(pos + k - 1) ELSE dest[k]) \in Nat \cup {Header, Uninit}
    <3>1. Got \in Nat
      BY GotFacts
    <3>2. k <= Got => k \in 1 .. Got
      BY <1>1, <3>1
    <3> QED BY <1>3, <1>5, <3>2
  <2> QED BY <1>2, <2>1
<1>7. dest' \in Seq(Nat \cup {Header, Uninit})
  BY <1>1, <1>6, SeqDef
<1> QED BY <1>4, <1>5, <1>7

-----------------------------------------------------------------------------
(* Steps                                                                   *)

(* The file stays what it is.                                              *)
LEMMA FileKept ==
  ASSUME block' = block, missing' = missing
  PROVE  /\ FileLength' = FileLength
         /\ \A r : /\ FileStart(r)' = FileStart(r) /\ Base(r)' = Base(r)
                   /\ Size(r)' = Size(r) /\ TableRow(r)' = TableRow(r)
                   /\ RowBase(r)' = RowBase(r) /\ RowSize(r)' = RowSize(r)
<1>1. PagesUpTo' = PagesUpTo
  BY DEF PagesUpTo
<1>2. ASSUME NEW r PROVE FileStart(r)' = FileStart(r)
  BY <1>1 DEF FileStart
<1>3. ASSUME NEW r
      PROVE  /\ Base(r)' = Base(r) /\ Size(r)' = Size(r)
             /\ RowBase(r)' = RowBase(r) /\ RowSize(r)' = RowSize(r)
  BY DEF Base, Size, RowBase, RowSize, Bytes
<1>5. ASSUME NEW r PROVE TableRow(r)' = TableRow(r)
  BY <1>2, <1>3 DEF TableRow
<1>4. FileLength' = FileLength
  <2>1. FileStart(Len(block) + 1)' = FileStart(Len(block) + 1)
    BY <1>2
  <2> QED BY <2>1 DEF FileLength
<1> QED BY <1>2, <1>3, <1>4, <1>5

LEMMA FileIsKept == [Next]_vars => block' = block /\ missing' = missing
  BY DEF Next, vars, PrintRow, Open, Request, NextRow, NotMapped, Seek, Read

LEMMA InitIInv == Init => IInv
<1> SUFFICES ASSUME Init PROVE IInv
  OBVIOUS
<1>1. block \in Blocks /\ missing \in Truncations
  BY DEF Init
<1>2. Len(block) \in Nat /\ FileStart(1) \in Nat /\ FileStart(1) = HeaderPages * PageUnits
  <2>1. Len(block) \in Nat
    BY <1>1, BlockFacts
  <2> QED BY <1>1, <2>1, StartFacts
<1>3. Types
  <2>1. /\ pc \in {"script", "idle", "scan", "read"} /\ pos \in Nat
        /\ req \in [phys : Nat, size : Nat \ {0}] /\ ret \in {0, 1}
    BY DEF Init
  <2>2. foff \in Nat /\ i \in 1 .. Len(block) + 1
    BY <1>2 DEF Init
  <2>3. table \in Seq(RowType) /\ dest \in Seq(Nat \cup {Header, Uninit})
    BY DEF Init
  <2> QED BY <1>1, <2>1, <2>2, <2>3 DEF Types
<1>4. TableInv
  <2>1. table = <<>> /\ Len(table) = 0 /\ foff = HeaderPages * PageUnits
        /\ pc = "script" /\ dest = <<>>
    BY DEF Init
  <2> QED BY <1>2, <2>1 DEF TableInv
<1>5. ScanInv /\ SeekInv
  BY DEF Init, ScanInv, SeekInv
<1>6. DumpedMemoryIsServed /\ UnfilledOnlyAtEnd
  BY DEF Init, DumpedMemoryIsServed, UnfilledOnlyAtEnd, Answered
<1> QED BY <1>3, <1>4, <1>5, <1>6 DEF IInv

LEMMA PrintRowStep == IInv /\ PrintRow => IInv'
<1> SUFFICES ASSUME IInv, PrintRow PROVE IInv'
  OBVIOUS
<1> DEFINE r == Len(table) + 1
           row == TableRow(r)
<1>1. block \in Blocks /\ Len(block) \in Nat /\ table \in Seq(RowType)
      /\ Len(table) \in Nat /\ r <= Len(block) /\ r \in 1 .. Len(block)
  <2>1. block \in Blocks /\ table \in Seq(RowType) /\ r <= Len(block)
    BY DEF IInv, Types, PrintRow
  <2>2. Len(table) \in Nat
    BY <2>1, LenProperties
  <2>3. Len(block) \in Nat
    BY <2>1, BlockFacts
  <2> QED BY <2>1, <2>2, <2>3
<1>2. /\ RowBase(r) \in Nat /\ RowSize(r) \in Nat /\ Size(r) \in Nat
      /\ FileStart(r) \in Nat /\ FileStart(r + 1) = FileStart(r) + Size(r)
      /\ FileStart(r + 1) \in Nat
  <2>1. r \in 1 .. Len(block) + 1 /\ r + 1 \in 1 .. Len(block) + 1
    BY <1>1
  <2> QED BY <1>1, <2>1, UnitFacts, StartFacts
<1>3. foff = FileStart(r) /\ pc = "script" /\ dest = <<>>
  BY DEF IInv, TableInv, PrintRow
<1>4. /\ table' = Append(table, row) /\ foff' = foff + Size(r)
      /\ UNCHANGED <<block, missing, pc, i, req, pos, dest, ret>>
  BY <1>3 DEF PrintRow, Row, TableRow, Size, RowBase, RowSize
<1>5. row \in RowType
  <2>1. Space \in Nat \ {0}
    BY CrashDumpAssumption
  <2>2. RowBase(r) % Space \in Nat /\ FileStart(r) % Space \in Nat /\ RowSize(r) % Space \in Nat
    BY <1>2, <2>1, RemainderFacts
  <2> QED BY <2>2 DEF RowType, TableRow
<1>6. /\ table' \in Seq(RowType) /\ Len(table') = r
      /\ \A k \in 1 .. r : table'[k] = IF k = r THEN row ELSE table[k]
  <2> HIDE DEF row
  <2>1. Append(table, row) \in Seq(RowType) /\ Len(Append(table, row)) = Len(table) + 1
    BY <1>1, <1>5, AppendProperties
  <2>2. \A k \in 1 .. Len(table) : Append(table, row)[k] = table[k]
    BY <1>1, <1>5, AppendProperties
  <2>3. Append(table, row)[Len(table) + 1] = row
    BY <1>1, <1>5, AppendProperties
  <2> QED BY <1>1, <1>4, <2>1, <2>2, <2>3
<1>7. /\ FileLength' = FileLength
      /\ \A k : FileStart(k)' = FileStart(k) /\ TableRow(k)' = TableRow(k)
  BY <1>4, FileKept
<1>8. Types'
  <2>1. foff' \in Nat
    BY <1>2, <1>3, <1>4
  <2> QED BY <1>4, <1>6, <2>1 DEF IInv, Types
<1>9. TableInv'
  <2>1. foff' = FileStart(r + 1)
    BY <1>2, <1>3, <1>4
  <2>2. ASSUME NEW k \in 1 .. r
        PROVE  table'[k] = TableRow(k)
    <3>1. CASE k = r
      BY <1>6, <3>1
    <3>2. CASE k # r
      <4>1. k \in 1 .. Len(table)
        BY <1>1, <3>2
      <4> QED BY <1>6, <3>2, <4>1 DEF IInv, TableInv
    <3> QED BY <3>1, <3>2
  <2>3. Len(table') <= Len(block') /\ pc' = "script" /\ dest' = <<>>
    BY <1>1, <1>3, <1>4, <1>6
  <2>4. foff' = FileStart(Len(table) + 1)'
    <3>1. FileStart(Len(table) + 1)' = FileStart(r + 1)
      BY <1>4, <1>6, <1>7 DEF FileStart
    <3> QED BY <2>1, <3>1
  <2>5. ASSUME NEW k \in 1 .. Len(table')
        PROVE  table'[k] = TableRow(k)'
    BY <1>6, <1>7, <2>2
  <2> QED BY <2>3, <2>4, <2>5 DEF TableInv
<1>10. (ScanInv /\ SeekInv /\ DumpedMemoryIsServed /\ UnfilledOnlyAtEnd)'
  BY <1>3, <1>4 DEF ScanInv, SeekInv, DumpedMemoryIsServed, UnfilledOnlyAtEnd, Answered
<1> QED BY <1>8, <1>9, <1>10 DEF IInv

(* A step that leaves the table alone and the script finished.             *)
LEMMA TableKept ==
  ASSUME TableInv, UNCHANGED <<block, missing, foff, table>>,
         pc # "script" \/ Len(table) = Len(block), pc' # "script"
  PROVE  TableInv'
<1>1. \A k : FileStart(k)' = FileStart(k) /\ TableRow(k)' = TableRow(k)
  BY FileKept
<1>2. foff' = FileStart(Len(table) + 1)'
  <2>1. FileStart(Len(table) + 1)' = FileStart(Len(table) + 1)
    BY FileKept DEF FileStart
  <2> QED BY <2>1 DEF TableInv
<1>3. ASSUME NEW k \in 1 .. Len(table')
      PROVE  table'[k] = TableRow(k)'
  BY <1>1 DEF TableInv
<1> QED BY <1>2, <1>3 DEF TableInv

LEMMA OpenStep == IInv /\ Open => IInv'
<1> SUFFICES ASSUME IInv, Open PROVE IInv'
  OBVIOUS
<1>1. Types'
  BY DEF IInv, Types, Open
<1>2. TableInv'
  BY TableKept DEF IInv, Open
<1>3. dest' = <<>> /\ pc' = "idle"
  BY DEF IInv, TableInv, Open
<1>4. (ScanInv /\ SeekInv /\ DumpedMemoryIsServed /\ UnfilledOnlyAtEnd)'
  BY <1>3 DEF ScanInv, SeekInv, DumpedMemoryIsServed, UnfilledOnlyAtEnd, Answered
<1> QED BY <1>1, <1>2, <1>4 DEF IInv

LEMMA RequestStep == IInv /\ Request => IInv'
<1> SUFFICES ASSUME IInv, Request PROVE IInv'
  OBVIOUS
<1>1. /\ req' \in [phys : Nat, size : Nat \ {0}]
      /\ dest' = [k \in 1..req'.size |-> Uninit]
      /\ i' = 1 /\ pc' = "scan"
      /\ UNCHANGED <<block, missing, foff, table, pos, ret>>
  BY CrashDumpAssumption DEF Request
<1>2. Types'
  <2>1. dest' \in Seq(Nat \cup {Header, Uninit})
    <3>1. req'.size \in Nat /\ dest' \in [1..req'.size -> Nat \cup {Header, Uninit}]
      BY <1>1
    <3> QED BY <3>1, SeqDef
  <2>2. i' \in 1 .. Len(block) + 1
    BY <1>1, BlockFacts DEF IInv, Types
  <2> QED BY <1>1, <2>1, <2>2 DEF IInv, Types
<1>3. TableInv'
  BY <1>1, TableKept DEF IInv, Request
<1>4. (ScanInv /\ SeekInv /\ DumpedMemoryIsServed /\ UnfilledOnlyAtEnd)'
  BY <1>1 DEF ScanInv, SeekInv, DumpedMemoryIsServed, UnfilledOnlyAtEnd, Answered
<1> QED BY <1>2, <1>3, <1>4 DEF IInv

LEMMA NextRowStep == IInv /\ NextRow => IInv'
<1> SUFFICES ASSUME IInv, NextRow PROVE IInv'
  OBVIOUS
<1>1. /\ i' = i + 1 /\ pc = "scan" /\ ~ TableEnds(i) /\ ~ Matches(table[i])
      /\ UNCHANGED <<block, missing, pc, foff, table, req, pos, dest, ret>>
  BY DEF NextRow
<1>2. /\ Len(block) \in Nat /\ Len(table) = Len(block)
      /\ i \in 1 .. Len(block)
  <2>1. Len(block) \in Nat /\ Len(table) = Len(block)
    BY <1>1, BlockFacts DEF IInv, Types, TableInv
  <2> QED BY <1>1, <2>1 DEF IInv, Types, TableEnds
<1>3. Types'
  <2>1. i' \in 1 .. Len(block') + 1
    BY <1>1, <1>2
  <2> QED BY <1>1, <2>1 DEF IInv, Types
<1>4. TableInv'
  BY <1>1, TableKept DEF IInv
<1>5. ScanInv'
  <2>1. ASSUME NEW j \in 1 .. i' - 1
        PROVE  j <= Len(table) /\ ~ Found(j)
    <3>1. j = i \/ j \in 1 .. i - 1
      BY <1>1, <1>2
    <3> QED BY <1>1, <1>2, <3>1 DEF IInv, ScanInv, Found
  <2>2. ASSUME NEW j \in 1 .. i' - 1
        PROVE  (j <= Len(table) /\ ~ Found(j))'
    BY <1>1, <2>1 DEF Found, TableEnds, Matches
  <2>3. dest' = [k \in 1..req'.size |-> Uninit]
    BY <1>1 DEF IInv, ScanInv
  <2> QED BY <2>2, <2>3 DEF ScanInv
<1>6. (SeekInv /\ DumpedMemoryIsServed /\ UnfilledOnlyAtEnd)'
  BY <1>1 DEF SeekInv, DumpedMemoryIsServed, UnfilledOnlyAtEnd, Answered
<1> QED BY <1>3, <1>4, <1>5, <1>6 DEF IInv

(* Nothing that a run covers is passed over.                               *)
LEMMA NotMappedStep == IInv /\ NotMapped => IInv'
<1> SUFFICES ASSUME IInv, NotMapped PROVE IInv'
  OBVIOUS
<1>1. /\ ret' = 1 /\ pc = "scan" /\ pc' = "idle" /\ TableEnds(i)
      /\ UNCHANGED <<block, missing, foff, table, i, req, pos, dest>>
  BY DEF NotMapped
<1>2. Types'
  BY <1>1 DEF IInv, Types
<1>3. TableInv'
  BY <1>1, TableKept DEF IInv
<1>4. ASSUME NEW q \in 1 .. Len(block), Dumped(q), Expressed(q), InRow(q)
      PROVE  FALSE
  <2>1. /\ block \in Blocks /\ Len(block) \in Nat /\ Len(table) = Len(block)
    BY <1>1, BlockFacts DEF IInv, Types, TableInv
  <2>2. Found(q)
    BY <1>4, <2>1, InRowMatches DEF IInv
  <2>3. i <= q
    <3>1. q \notin 1 .. i - 1
      BY <1>1, <2>2 DEF IInv, ScanInv
    <3> QED BY <2>1, <3>1 DEF IInv, Types
  <2>4. i \in 1 .. q /\ i \in 1 .. Len(table)
    BY <2>1, <2>3 DEF IInv, Types
  <2>5. table[i].phys # 0
    BY <1>4, <2>4, RowFacts DEF IInv
  <2> QED BY <1>1, <2>4, <2>5 DEF TableEnds
<1>5. DumpedMemoryIsServed'
  <2>1. ASSUME NEW q \in DOMAIN block', Dumped(q)', Expressed(q)', InRow(q)'
        PROVE  FALSE
    <3>1. q \in 1 .. Len(block)
      BY <1>1, BlockFacts DEF IInv, Types
    <3>2. Dumped(q) /\ Expressed(q) /\ InRow(q)
      <4>1. /\ FileStart(q)' = FileStart(q) /\ FileLength' = FileLength
            /\ FileStart(q + 1)' = FileStart(q + 1)
        BY <1>1, FileKept
      <4> QED BY <1>1, <2>1, <4>1 DEF Dumped, InRun, Expressed, InRow
    <3> QED BY <1>4, <3>1, <3>2
  <2>2. ret' # 0
    BY <1>1
  <2> QED BY <2>1, <2>2 DEF DumpedMemoryIsServed
<1>6. (ScanInv /\ SeekInv /\ UnfilledOnlyAtEnd)'
  BY <1>1 DEF ScanInv, SeekInv, UnfilledOnlyAtEnd
<1> QED BY <1>2, <1>3, <1>5, <1>6 DEF IInv

LEMMA SeekStep == IInv /\ Seek => IInv'
<1> SUFFICES ASSUME IInv, Seek PROVE IInv'
  OBVIOUS
<1>1. /\ pos' = (req.phys - table[i].phys + table[i].off) % Space
      /\ pc = "scan" /\ pc' = "read" /\ Found(i)
      /\ UNCHANGED <<block, missing, foff, table, i, req, dest, ret>>
  BY DEF Seek
<1>2. SeekInv'
  <2>1. Found(i)'
    BY <1>1 DEF Found, TableEnds, Matches
  <2> QED BY <1>1, <2>1 DEF SeekInv
<1>3. Types'
  <2>1. pos' \in Nat
    <3>1. table \in Seq(RowType) /\ i \in 1 .. Len(table) /\ req.phys \in Nat
      <4>1. table \in Seq(RowType) /\ req.phys \in Nat
        BY DEF IInv, Types
      <4>2. Len(block) \in Nat /\ Len(table) \in Nat
        BY <4>1, LenProperties, BlockFacts DEF IInv, Types
      <4> QED BY <1>1, <4>1, <4>2 DEF IInv, Types, Found, TableEnds
    <3>2. table[i] \in RowType
      BY <3>1, ElementOfSeq
    <3>3. table[i].phys \in Nat /\ table[i].off \in Nat
      BY <3>2 DEF RowType
    <3>4. req.phys - table[i].phys + table[i].off \in Nat /\ Space \in Nat \ {0}
      BY SMTT(30), <1>1, <3>1, <3>3, CrashDumpAssumption DEF Found, Matches
    <3> HIDE DEF Matches
    <3> QED BY <1>1, <3>4, RemainderFacts
  <2> QED BY <1>1, <2>1 DEF IInv, Types
<1>4. TableInv'
  BY <1>1, TableKept DEF IInv
<1>5. ScanInv'
  <2>1. ASSUME NEW j \in 1 .. i' - 1
        PROVE  (j <= Len(table) /\ ~ Found(j))'
    BY <1>1 DEF IInv, ScanInv, Found, TableEnds, Matches
  <2>2. dest' = [k \in 1..req'.size |-> Uninit]
    BY <1>1 DEF IInv, ScanInv
  <2> QED BY <2>1, <2>2 DEF ScanInv
<1>6. (DumpedMemoryIsServed /\ UnfilledOnlyAtEnd)'
  BY <1>1 DEF DumpedMemoryIsServed, UnfilledOnlyAtEnd, Answered
<1> QED BY <1>2, <1>3, <1>4, <1>5, <1>6 DEF IInv

LEMMA ReadStep == IInv /\ Read => IInv'
<1> SUFFICES ASSUME IInv, Read PROVE IInv'
  OBVIOUS
<1> USE DEF IInv
<1>1. /\ pos' = pos + Got /\ ret' = (IF Got > 0 THEN 0 ELSE 1)
      /\ pc = "read" /\ pc' = "idle"
      /\ UNCHANGED <<block, missing, foff, table, i, req>>
  BY DEF Read
<1>2. /\ pos \in Nat /\ req.size \in Nat /\ req.size # 0 /\ Got \in 0 .. req.size
      /\ FileLength \in Int
      /\ (0 < Got /\ Got < req.size => pos + Got = FileLength)
  BY GotFacts DEF Types
<1>3. /\ dest' \in Seq(Nat \cup {Header, Uninit})
      /\ \A k \in 1 .. req.size :
           dest'[k] = IF k <= Got THEN Stored(pos + k - 1) ELSE Uninit
      /\ \A k \in 1 .. Got : Stored(pos + k - 1) \in Nat \cup {Header}
  BY ReadFacts
<1>4. FileLength' = FileLength /\ \A r : FileStart(r)' = FileStart(r)
  BY <1>1, FileKept
<1>5. Types'
  BY <1>1, <1>2, <1>3 DEF Types
<1>6. TableInv'
  BY <1>1, TableKept
<1>7. DumpedMemoryIsServed'
  <2>1. ASSUME NEW q \in DOMAIN block', Dumped(q)', Expressed(q)',
               InRow(q)' \/ \A k \in q .. Len(block') : Expressed(k)'
        PROVE  ret' = 0 /\ \A k \in 1..req'.size : dest'[k] = req'.phys + k - 1
    <3>1. block \in Blocks /\ q \in 1 .. Len(block) /\ Len(block) \in Nat
      BY <1>1, BlockFacts DEF Types
    <3>2. Dumped(q)
      BY <1>1, <1>4, <2>1 DEF Dumped, InRun
    <3>8. \A k : Expressed(k)' = Expressed(k)
      BY <1>1, <1>4 DEF Expressed
    <3>9. Expressed(q) /\ (InRow(q) \/ \A k \in q .. Len(block) : Expressed(k))
      BY <1>1, <2>1, <3>8 DEF InRow
    <3>3. /\ pos = FileStart(q) + (req.phys - Base(q))
          /\ Base(q) <= req.phys /\ req.phys + req.size - 1 < Base(q) + Size(q)
          /\ pos + req.size <= FileLength
      BY <1>1, <3>1, <3>2, <3>9, CoveredIsFound, DumpedFacts
    <3>4. Got = req.size
      BY <1>2, <3>3 DEF Got
    <3>5. req.phys \in Nat /\ Base(q) \in Nat /\ Size(q) \in Nat /\ FileStart(q) \in Nat
      <4>1. q \in 1 .. Len(block) + 1
        BY <3>1
      <4> QED BY <3>1, <4>1, UnitFacts, StartFacts DEF Types
    <3>6. ASSUME NEW k \in 1 .. req.size
          PROVE  dest'[k] = req.phys + k - 1
      <4> DEFINE f == pos + k - 1
      <4>1. f \in Nat /\ f = FileStart(q) + (req.phys - Base(q)) + k - 1
        BY <1>2, <3>3
      <4>2. FileStart(q) <= f /\ f < FileStart(q) + Size(q)
        BY <1>2, <3>3, <3>5, <4>1
      <4>3. Stored(f) = Base(q) + (f - FileStart(q))
        <5> HIDE DEF f
        <5> QED BY <3>1, <4>1, <4>2, StoredInRun
      <4>4. Base(q) + (f - FileStart(q)) = req.phys + k - 1
        BY <1>2, <3>3, <3>5
      <4>5. dest'[k] = Stored(f)
        BY <1>2, <1>3, <3>4
      <4> QED BY <4>3, <4>4, <4>5
    <3>7. ret' = 0
      BY <1>1, <1>2, <3>4
    <3> QED BY <1>1, <3>6, <3>7
  <2>2. AsInMemory' <=> \A k \in 1..req'.size : dest'[k] = req'.phys + k - 1
    BY DEF AsInMemory
  <2> QED BY <2>1, <2>2 DEF DumpedMemoryIsServed
<1>8. UnfilledOnlyAtEnd'
  <2>1. ASSUME ret' = 0, NEW k \in 1..req'.size, dest'[k] = Uninit
        PROVE  pos' = FileLength'
    <3>1. Got > 0
      BY <1>1, <2>1
    <3>2. k > Got
      <4>1. SUFFICES ASSUME k <= Got PROVE FALSE
        BY <1>1, <1>2
      <4>2. k \in 1 .. req.size /\ k \in 1 .. Got
        BY <1>1, <1>2, <4>1
      <4> QED BY <1>3, <2>1, <4>1, <4>2, CrashDumpAssumption
    <3>3. Got < req.size
      BY <1>1, <1>2, <3>2
    <3> QED BY <1>1, <1>2, <1>4, <3>1, <3>3
  <2> QED BY <2>1 DEF UnfilledOnlyAtEnd
<1>9. (ScanInv /\ SeekInv)'
  BY <1>1 DEF ScanInv, SeekInv
<1> QED BY <1>5, <1>6, <1>7, <1>8, <1>9

LEMMA StutterStep == IInv /\ UNCHANGED vars => IInv'
<1> SUFFICES ASSUME IInv, UNCHANGED vars PROVE IInv'
  OBVIOUS
<1>1. UNCHANGED <<block, missing, pc, foff, table, i, req, pos, dest, ret>>
  BY DEF vars
<1>2. FileLength' = FileLength /\ \A r : FileStart(r)' = FileStart(r)
  BY <1>1, FileKept
<1>3. Types' /\ ScanInv' /\ SeekInv'
  BY <1>1 DEF IInv, Types, ScanInv, SeekInv, Found, TableEnds, Matches
<1>4. TableInv'
  <2>1. CASE pc # "script"
    BY <1>1, <2>1, TableKept DEF IInv
  <2>2. CASE pc = "script"
    <3>1. \A k : FileStart(k)' = FileStart(k) /\ TableRow(k)' = TableRow(k)
      BY <1>1, FileKept
    <3>2. FileStart(Len(table) + 1)' = FileStart(Len(table) + 1)
      BY <1>1, FileKept DEF FileStart
    <3>3. ASSUME NEW k \in 1 .. Len(table')
          PROVE  table'[k] = TableRow(k)'
      BY <1>1, <3>1 DEF IInv, TableInv
    <3>4. foff' = FileStart(Len(table) + 1)'
      BY <1>1, <3>2 DEF IInv, TableInv
    <3> QED BY <1>1, <3>3, <3>4 DEF IInv, TableInv
  <2> QED BY <2>1, <2>2
<1>5. DumpedMemoryIsServed' /\ UnfilledOnlyAtEnd'
  BY <1>1, <1>2 DEF IInv, DumpedMemoryIsServed, UnfilledOnlyAtEnd, Answered, Dumped,
     InRun, Expressed, InRow, AsInMemory
<1> QED BY <1>3, <1>4, <1>5 DEF IInv

LEMMA IInvStep == IInv /\ [Next]_vars => IInv'
  BY PrintRowStep, OpenStep, RequestStep, NextRowStep, NotMappedStep, SeekStep,
     ReadStep, StutterStep DEF Next

(* The invariant is one: it holds at first, and every step keeps it.       *)
THEOREM Invariance == Spec => []IInv
<1>1. Init => IInv
  BY InitIInv
<1>2. IInv /\ [Next]_vars => IInv'
  BY IInvStep
<1> QED BY <1>1, <1>2, PTL DEF Spec

-----------------------------------------------------------------------------
(* The properties                                                          *)

(* Every variable has its type: the reads a walker asks for and the rows   *)
(* the script prints are addresses and lengths, and the buffer holds       *)
(* memory or what it held before.                                          *)
THEOREM TypeCorrect == Spec => []TypeOK
<1>1. IInv => TypeOK
  BY DEF IInv, Types, TypeOK
<1> QED BY <1>1, Invariance, PTL

(* Every row of the table whose base was shown with 0x, and whose numbers  *)
(* have 32 bits, leads to where the file holds its run, however many rows  *)
(* were printed with a decimal base or size.                               *)
THEOREM TableCorrect == Spec => []TableMatchesFile
<1>1. IInv => TableMatchesFile
  <2> SUFFICES ASSUME IInv, NEW r \in DOMAIN table, Expressed(r),
                      NEW u \in 0 .. table[r].size - 1
               PROVE  Stored(table[r].off + u) = table[r].phys + u
    BY DEF TableMatchesFile
  <2>1. /\ block \in Blocks /\ Len(block) \in Nat
        /\ r \in 1 .. Len(table) /\ r \in 1 .. Len(block)
    <3>1. block \in Blocks /\ Len(block) \in Nat
      BY BlockFacts DEF IInv, Types
    <3>2. r \in 1 .. Len(table) /\ Len(table) \in Nat
      BY LenProperties DEF IInv, Types
    <3> QED BY <3>1, <3>2 DEF IInv, TableInv
  <2>2. /\ table[r].phys = Base(r) /\ table[r].off = FileStart(r)
        /\ table[r].size \in Nat /\ table[r].size <= RowSize(r)
    <3>1. r \in 1 .. r
      BY <2>1
    <3>2. RowBase(r) = Base(r)
      BY <2>1, UnitFacts DEF Expressed
    <3> QED BY <2>1, <3>1, <3>2, RowFacts DEF IInv
  <2>3. /\ Base(r) \in Nat /\ Size(r) \in Nat /\ RowSize(r) \in Nat
        /\ RowSize(r) <= Size(r)
    BY <2>1, UnitFacts
  <2>4. FileStart(r) \in Nat
    <3>1. r \in 1 .. Len(block) + 1
      BY <2>1
    <3> QED BY <2>1, <3>1, StartFacts
  <2>5. u \in 0 .. RowSize(r) - 1
    BY <2>2, <2>3
  <2>6. /\ FileStart(r) + u \in Nat /\ FileStart(r) <= FileStart(r) + u
        /\ FileStart(r) + u < FileStart(r) + Size(r)
    BY <2>3, <2>4, <2>5
  <2>7. Stored(FileStart(r) + u) = Base(r) + ((FileStart(r) + u) - FileStart(r))
    BY <2>1, <2>6, StoredInRun
  <2>8. (FileStart(r) + u) - FileStart(r) = u
    BY <2>4, <2>5
  <2> QED BY <2>2, <2>7, <2>8
<1> QED BY <1>1, Invariance, PTL

(* A read that lies in one run whose base the table has, and starts in the *)
(* row of the run, is answered, in full, with the memory at its address,   *)
(* whatever was read before and also when the row of the run before it,    *)
(* which ends there, is the one that matches.  With right bases behind it  *)
(* a read is refused rather than answered with other memory.               *)
THEOREM ServedCorrect == Spec => []DumpedMemoryIsServed
<1>1. IInv => DumpedMemoryIsServed
  BY DEF IInv
<1> QED BY <1>1, Invariance, PTL

(* Success with part of the buffer not filled happens at the end of the    *)
(* file only.                                                              *)
THEOREM UnfilledCorrect == Spec => []UnfilledOnlyAtEnd
<1>1. IInv => UnfilledOnlyAtEnd
  BY DEF IInv
<1> QED BY <1>1, Invariance, PTL
=============================================================================
