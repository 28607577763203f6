-------------------------- MODULE IosPtWalkerProofs --------------------------
(***************************************************************************)
(* Theorems about IosPtWalker for every memory, every map of the kernel    *)
(* and every way it changes them: types, the search for the kernel's       *)
(* region, that each line shows a word that memory held, and that a walk   *)
(* which nothing disturbs lists one page of the table completely.          *)
(***************************************************************************)
EXTENDS IosPtWalker, FiniteSetTheorems, WellFoundedInduction, TLAPS

-----------------------------------------------------------------------------
(* The search for the kernel's region finds the first large one, for every *)
(* map and every change of it.                                             *)

(* A set of naturals that is not empty has a least element.                *)
LEMMA LeastNatural ==
  ASSUME NEW S \in SUBSET Nat, S # {}
  PROVE  \E n \in S : \A m \in S : n <= m
<1> DEFINE R == {p \in Nat \X Nat : p[1] < p[2]}
<1>1. IsWellFoundedOn(R, Nat)
  BY NatLessThanWellFounded DEF OpToRel
<1>2. \E n \in S : \A m \in S : ~ (<<m, n>> \in R)
  <2> HIDE DEF R
  <2> QED BY <1>1, WFMin
<1>3. PICK n \in S : \A m \in S : ~ (<<m, n>> \in R)
  BY <1>2
<1>4. ASSUME NEW m \in S PROVE n <= m
  <2>1. <<m, n>> \notin R /\ m \in Nat /\ n \in Nat
    BY <1>3
  <2> QED BY <2>1
<1> QED BY <1>4

(* vm_region_recurse_64 gives the lowest region that does not end before.  *)
LEMMA RegionIsLowest ==
  ASSUME regions \in Maps, AtOrAfter # {}
  PROVE  /\ Region \in AtOrAfter
         /\ \A s \in AtOrAfter : Region.start <= s.start
<1> DEFINE starts == {r.start : r \in AtOrAfter}
<1>1. AtOrAfter \subseteq RegionType
  BY RegionAssumption DEF AtOrAfter
<1>2. starts \in SUBSET Nat /\ starts # {}
  BY <1>1, RegionAssumption DEF RegionType
<1>3. PICK n \in starts : \A m \in starts : n <= m
  BY <1>2, LeastNatural
<1>4. PICK r \in AtOrAfter : r.start = n
  OBVIOUS
<1>5. \A s \in AtOrAfter : r.start <= s.start
  BY <1>3, <1>4
<1> QED BY <1>4, <1>5 DEF Region

(* What holds between two questions: as long as the map stays, all that    *)
(* lies below the next address is small.                                   *)
SearchInv ==
  /\ RegionTypeOK
  /\ rpc = "looking" =>
       /\ kernel_region = 0
       /\ LargeIn(regions) \subseteq large
       /\ steady =>
            /\ large = LargeIn(regions)
            /\ \A r \in regions : r.start + r.size <= addr => r.size <= MemSize
  /\ rpc # "looking" =>
       /\ kernel_region \in large \cup {0}
       /\ steady =>
            IF large = {} THEN kernel_region = 0
            ELSE kernel_region \in large /\ \A a \in large : kernel_region <= a

LEMMA SearchGivesFirstLarge == SearchInv => RegionIsFirstLarge
BY DEF SearchInv, RegionIsFirstLarge

LEMMA SearchInit == RegionInit => SearchInv
BY RegionAssumption DEF RegionInit, SearchInv, RegionTypeOK

LEMMA LargeInType ==
  ASSUME NEW map \in Maps
  PROVE  LargeIn(map) \subseteq 0 .. AddrSpace - 1
BY RegionAssumption DEF LargeIn, RegionType

(* With the map as it was, the region asked for is the next above addr.    *)
LEMMA NextAbove ==
  ASSUME SearchInv, Looking, AtOrAfter # {}
  PROVE  /\ Region \in regions /\ Region \in RegionType
         /\ Region.start + Region.size > addr
         /\ Region.start + Region.size <= AddrSpace
         /\ \A r \in regions : r.start + r.size > addr => Region.start <= r.start
         /\ \A r \in regions \ {Region} :
              r.start + r.size > addr => Region.start + Region.size <= r.start
<1>1. regions \in Maps
  BY DEF SearchInv, RegionTypeOK
<1>2. Region \in AtOrAfter /\ \A s \in AtOrAfter : Region.start <= s.start
  BY <1>1, RegionIsLowest
<1>3. /\ regions \subseteq RegionType
      /\ \A r \in regions : r.start + r.size <= AddrSpace
      /\ \A r, s \in regions : r # s => Disjoint(r, s)
  BY <1>1, RegionAssumption
<1>4. Region \in regions /\ Region.start + Region.size > addr
  BY <1>2 DEF AtOrAfter
<1>5. \A r \in regions : r.start + r.size > addr => Region.start <= r.start
  BY <1>2 DEF AtOrAfter
<1>6. ASSUME NEW r \in regions \ {Region}, r.start + r.size > addr
      PROVE  Region.start + Region.size <= r.start
  <2>1. Region.start <= r.start /\ r \in RegionType /\ Region \in RegionType
    BY <1>3, <1>4, <1>5, <1>6
  <2>2. r.start + r.size <= Region.start \/ Region.start + Region.size <= r.start
    BY <1>3, <1>4 DEF Disjoint
  <2> QED BY <2>1, <2>2 DEF RegionType
<1> QED BY <1>3, <1>4, <1>5, <1>6

LEMMA SearchStep ==
  ASSUME SearchInv,
         CallRegion \/ Search \/ MapChanges \/ EndCall \/ UNCHANGED regionVars
  PROVE  SearchInv'
<1> USE RegionAssumption
<1>1. RegionTypeOK /\ LargeIn(regions) \subseteq 0 .. AddrSpace - 1
  BY LargeInType DEF SearchInv, RegionTypeOK
<1>2. \A r \in regions : r \in RegionType /\ r.start + r.size <= AddrSpace
  BY <1>1 DEF RegionTypeOK
<1>3. CASE CallRegion
  <2>1. CASE kernel_region # 0
    BY <1>1, <1>3, <2>1 DEF CallRegion, SearchInv, RegionTypeOK
  <2>2. CASE kernel_region = 0
    <3>1. /\ rpc' = "looking" /\ addr' = 0 /\ steady' = TRUE
          /\ large' = LargeIn(regions)
          /\ UNCHANGED <<regions, kernel_region>>
      BY <1>3, <2>2 DEF CallRegion
    <3>2. \A r \in regions : r.start + r.size > 0
      BY <1>2 DEF RegionType
    <3>3. LargeIn(regions)' = LargeIn(regions)
      BY <3>1 DEF LargeIn
    <3>4. RegionTypeOK'
      BY <1>1, <3>1 DEF RegionTypeOK
    <3> QED BY <1>2, <2>2, <3>1, <3>2, <3>3, <3>4 DEF SearchInv, RegionType
  <2> QED BY <2>1, <2>2
<1>4. CASE NoRegion
  <2>1. steady => large = {}
    <3> SUFFICES ASSUME steady PROVE LargeIn(regions) = {}
      BY <1>4 DEF NoRegion, Looking, SearchInv
    <3>1. \A r \in regions : ~ (r.start + r.size > addr)
      BY <1>4 DEF NoRegion, AtOrAfter
    <3>2. \A r \in regions : r.start + r.size <= addr => r.size <= MemSize
      BY <1>4 DEF NoRegion, Looking, SearchInv
    <3>3. \A r \in regions : ~ (r.size > MemSize)
      BY <1>1, <1>2, <3>1, <3>2 DEF RegionTypeOK, RegionType
    <3> QED BY <3>3 DEF LargeIn
  <2> QED BY <1>1, <1>4, <2>1
          DEF NoRegion, Looking, GiveAnswer, SearchInv, RegionTypeOK
<1>5. CASE TakeLarge
  <2>1. Looking /\ AtOrAfter # {} /\ Region.size > MemSize
    BY <1>5 DEF TakeLarge
  <2>2. /\ kernel_region' = Region.start /\ rpc' = "answered"
        /\ UNCHANGED <<regions, addr, steady, large>>
    BY <1>5 DEF TakeLarge, GiveAnswer
  <2>3. /\ Region \in regions /\ Region \in RegionType
        /\ \A r \in regions : r.start + r.size > addr => Region.start <= r.start
    BY <2>1, NextAbove
  <2>4. Region.start \in LargeIn(regions)
    BY <2>1, <2>3 DEF LargeIn
  <2>5. Region.start \in large
    BY <2>1, <2>4 DEF SearchInv, Looking
  <2>6. ASSUME steady, NEW a \in large PROVE Region.start <= a
    <3>1. PICK r \in regions : r.size > MemSize /\ a = r.start
      BY <2>1, <2>6 DEF SearchInv, Looking, LargeIn
    <3>2. ~ (r.start + r.size <= addr)
      BY <1>2, <2>1, <2>6, <3>1 DEF SearchInv, Looking, RegionType
    <3>3. r.start + r.size > addr
      BY <1>1, <1>2, <3>2 DEF RegionTypeOK, RegionType
    <3> QED BY <2>3, <3>1, <3>3
  <2>7. RegionTypeOK'
    BY <1>1, <2>2, <2>3 DEF RegionTypeOK, RegionType
  <2> QED BY <2>2, <2>5, <2>6, <2>7 DEF SearchInv
<1>6. CASE LastRegion
  <2>1. Looking /\ AtOrAfter # {} /\ Region.size <= MemSize
    BY <1>6 DEF LastRegion
  <2>2. /\ rpc' = "answered"
        /\ UNCHANGED <<regions, kernel_region, addr, steady, large>>
    BY <1>6 DEF LastRegion, GiveAnswer
  <2>3. /\ Region \in regions /\ Region \in RegionType
        /\ Region.start + Region.size <= AddrSpace
        /\ \A r \in regions \ {Region} :
             r.start + r.size > addr => Region.start + Region.size <= r.start
    BY <2>1, NextAbove
  <2>4. Region.start + Region.size = AddrSpace
    <3>1. (Region.start + Region.size) % AddrSpace <= Region.start
      BY <1>6 DEF LastRegion, RegionEnd
    <3> DEFINE e == Region.start + Region.size
    <3>2. e \in Nat /\ e > Region.start /\ Region.start \in Nat
      BY <2>3 DEF RegionType
    <3>3. e < AddrSpace => e % AddrSpace = e
      BY <3>2
    <3> HIDE DEF e
    <3> QED BY <2>3, <3>1, <3>2, <3>3 DEF e
  <2>5. steady => large = {}
    <3> SUFFICES ASSUME steady, NEW r \in regions, r.size > MemSize PROVE FALSE
      BY <2>1 DEF SearchInv, Looking, LargeIn
    <3>1. r # Region
      BY <1>2, <2>1, <2>3 DEF RegionType
    <3>2. ~ (r.start + r.size <= addr)
      BY <1>2, <2>1 DEF SearchInv, Looking, RegionType
    <3>3. r.start + r.size > addr
      BY <1>1, <1>2, <3>2 DEF RegionTypeOK, RegionType
    <3>4. AddrSpace <= r.start
      BY <2>3, <2>4, <3>1, <3>3
    <3> QED BY <1>2, <3>4 DEF RegionType
  <2>6. RegionTypeOK'
    BY <1>1, <2>2 DEF RegionTypeOK
  <2> QED BY <2>1, <2>2, <2>5, <2>6 DEF SearchInv, Looking
<1>7. CASE NextRegion
  <2>1. Looking /\ AtOrAfter # {} /\ Region.size <= MemSize
    BY <1>7 DEF NextRegion
  <2>2. /\ addr' = RegionEnd
        /\ UNCHANGED <<regions, kernel_region, rpc, steady, large>>
    BY <1>7 DEF NextRegion
  <2>3. /\ Region \in regions /\ Region \in RegionType
        /\ Region.start + Region.size <= AddrSpace
        /\ \A r \in regions \ {Region} :
             r.start + r.size > addr => Region.start + Region.size <= r.start
    BY <2>1, NextAbove
  <2>4. RegionEnd = Region.start + Region.size /\ RegionEnd \in 0 .. AddrSpace - 1
    <3> DEFINE e == Region.start + Region.size
    <3>1. e % AddrSpace > Region.start
      BY <1>7 DEF NextRegion, RegionEnd
    <3>2. e \in Nat /\ Region.start \in Nat /\ e <= AddrSpace
      BY <2>3 DEF RegionType
    <3>3. e < AddrSpace => e % AddrSpace = e
      BY <3>2
    <3>4. AddrSpace % AddrSpace = 0
      OBVIOUS
    <3> HIDE DEF e
    <3>5. e < AddrSpace
      BY <3>1, <3>2, <3>4
    <3> QED BY <3>2, <3>3, <3>5 DEF RegionEnd, e
  <2>5. ASSUME steady, NEW r \in regions, r.start + r.size <= RegionEnd
        PROVE  r.size <= MemSize
    <3>1. CASE r = Region
      BY <2>1, <3>1
    <3>2. CASE r # Region /\ r.start + r.size > addr
      <4>1. Region.start + Region.size <= r.start
        BY <2>3, <3>2
      <4> QED BY <1>2, <2>3, <2>4, <2>5, <4>1 DEF RegionType
    <3>3. CASE ~ (r.start + r.size > addr)
      <4>1. r.start + r.size <= addr
        BY <1>1, <1>2, <3>3 DEF RegionTypeOK, RegionType
      <4> QED BY <2>1, <2>5, <4>1 DEF SearchInv, Looking
    <3> QED BY <3>1, <3>2, <3>3
  <2>6. RegionTypeOK'
    BY <1>1, <2>2, <2>4 DEF RegionTypeOK
  <2>7. LargeIn(regions)' = LargeIn(regions)
    BY <2>2 DEF LargeIn
  <2> QED BY <2>1, <2>2, <2>5, <2>6, <2>7 DEF SearchInv, Looking
<1>8. CASE MapChanges
  <2>1. /\ rpc = "looking" /\ regions' \in Maps /\ steady' = FALSE
        /\ large' = large \cup LargeIn(regions')
        /\ UNCHANGED <<kernel_region, addr, rpc>>
    BY <1>8 DEF MapChanges, Looking
  <2>2. LargeIn(regions') \subseteq 0 .. AddrSpace - 1
    BY <2>1, LargeInType
  <2>3. RegionTypeOK'
    BY <1>1, <2>1, <2>2 DEF RegionTypeOK
  <2>4. LargeIn(regions)' = LargeIn(regions')
    BY DEF LargeIn
  <2> QED BY <2>1, <2>3, <2>4 DEF SearchInv
<1>9. CASE EndCall
  BY <1>1, <1>9 DEF EndCall, SearchInv, RegionTypeOK
<1>10. CASE UNCHANGED regionVars
  BY <1>1, <1>10 DEF regionVars, SearchInv, RegionTypeOK, LargeIn
<1> QED BY <1>3, <1>4, <1>5, <1>6, <1>7, <1>8, <1>9, <1>10 DEF Search

-----------------------------------------------------------------------------

Reading == pc \in {"chunk", "ask", "poke", "half1", "half2"}
InL2    == pc = "l2" \/ (Reading /\ rd.who = "l2")
Sizes   == {PageWords, 2 * PageWords, 3 * PageWords, 4 * PageWords}

TypeInv ==
  /\ mem \in [Words -> Descs] /\ held \in [Words -> SUBSET Descs]
  /\ \A w \in Words : mem[w] \in held[w]
  /\ writes \in 0 .. MaxWrites /\ fails \in 0 .. MaxFails
  /\ arg \in ArgType /\ arg.psize \in Sizes
  /\ injected \in BOOLEAN /\ stale \in BOOLEAN
  /\ pc \in {"main", "chunk", "ask", "poke", "half1", "half2", "l1", "l2",
             "ended", "failed", "panicked"}
  /\ rpc # "idle" => pc = "ask"
  /\ rd \in FrameType
  /\ scratch \in [1 .. PageWords -> CopyType]
  /\ pc \notin {"main", "ended"} => data \in [1 .. arg.psize -> CopyType]
  /\ data2 = <<>> \/ data2 \in [1 .. PageWords -> CopyType]
  /\ InL2 => data2 \in [1 .. PageWords -> CopyType]
  /\ i \in 0 .. arg.psize /\ j \in 0 .. L2Count
  /\ lines \in Seq(LineType)

(* The entry of the level-1 buffer that the walk of a level-2 table is of. *)
OfEntry ==
  /\ rd.who = "l2"
  /\ i < arg.psize /\ i < PageWords
  /\ data[i + 1].what.lo = 1
  /\ rd.base = data[i + 1].what.base * L2Count

(* What loopread was asked for and how far it has come.                    *)
FrameInv ==
  /\ Reading =>
       /\ rd.who = "l1" => rd.base = L1Base /\ rd.total = arg.psize
       /\ rd.who = "l2" => rd.total = PageWords
       /\ rd.sofar \in {0} \cup Sizes /\ rd.sofar <= rd.total
       /\ pc # "chunk" => rd.sofar < rd.total
       /\ pc \in {"chunk", "ask"} => rd.poked = 0
  /\ InL2 => OfEntry

(* A copy of a word of memory, or the fault that an unfilled word shows.   *)
Real(c) == c.at \in Words /\ c.what \in held[c.at]
Explained(c) == Real(c) \/ c = [at |-> -1, what |-> Nothing]

(* The buffers hold copies as far as they have been filled; of the         *)
(* level-1 buffer, that is its first page.                                 *)
CopyInv ==
  /\ \A k \in 1 .. PageWords : Explained(scratch[k])
  /\ pc \notin {"main", "ended"} =>
       \A k \in 1 .. arg.psize :
         /\ Explained(data[k])
         /\ k > PageWords => data[k] = [at |-> -1, what |-> Nothing]
  /\ (pc = "half2" /\ rd.who = "l2") => \A k \in 1 .. Half : Explained(data2[k])
  /\ (Reading /\ rd.who = "l2" /\ rd.sofar > 0) \/ pc = "l2" =>
       \A k \in 1 .. PageWords : Explained(data2[k])

Buffer == IF rd.who = "l1" THEN data ELSE data2

(* As long as every page was copied, each copy is from its place.          *)
PlaceInv ==
  ~ stale =>
    /\ pc = "poke" =>
         \A k \in 1 .. rd.poked : scratch[k].at = rd.base + rd.sofar + k - 1
    /\ pc \in {"half1", "half2"} =>
         \A k \in 1 .. PageWords : scratch[k].at = rd.base + rd.sofar + k - 1
    /\ pc = "half2" =>
         \A k \in 1 .. Half : Buffer[k].at = rd.base + rd.sofar + k - 1
    /\ (pc = "chunk" /\ rd.sofar > 0) =>
         \A k \in 1 .. PageWords :
           Buffer[k].at = rd.base + rd.sofar - PageWords + k - 1
    /\ pc = "l1" \/ InL2 =>
         \A k \in 1 .. PageWords : data[k].at = LastPage + k - 1
    /\ pc = "l2" =>
         \A k \in 1 .. PageWords : data2[k].at = rd.base + k - 1

WalkInv == TypeInv /\ FrameInv /\ CopyInv /\ PlaceInv /\ LinesExplained

-----------------------------------------------------------------------------
(* Arithmetic of the constants                                             *)

LEMMA Geometry ==
  /\ PageWords \in Nat \ {0} /\ L2Count \in Nat \ {0} /\ L2Count <= PageWords
  /\ Half \in Nat /\ 2 * Half = PageWords
  /\ MemWords \in Nat /\ MaxWrites \in Nat /\ MaxFails \in Nat
  /\ L1Words \in Nat \ {0}
<1>1. PageWords \in Nat \ {0} /\ PageWords % 2 = 0
  BY WalkerAssumption
<1>2. Half \in Nat /\ 2 * Half = PageWords
  BY <1>1 DEF Half
<1> QED BY <1>1, <1>2, WalkerAssumption

LEMMA ProductNat ==
  ASSUME NEW a \in Nat, NEW b \in Nat
  PROVE  a * b \in Nat
OBVIOUS

LEMMA VASizePositive == VASize \in Nat \ {0}
<1>1. L1Words * L2Count \in Nat /\ L1Words * L2Count # 0
  BY Geometry
<1> QED BY <1>1 DEF VASize

LEMMA RemainderNat ==
  ASSUME NEW a \in Nat, NEW m \in Nat \ {0}
  PROVE  a % m \in Nat
OBVIOUS

LEMMA TableBaseNat ==
  ASSUME NEW a \in ArgType
  PROVE  TableBase(a.pbase, a.base) \in Nat
<1> DEFINE size == IF a.base = 0 THEN L1Words \div 4 ELSE L1Words
<1>1. size \in Nat \ {0}
  BY WalkerAssumption, Geometry
<1>2. a.pbase \in Nat
  BY DEF ArgType
<1> HIDE DEF size
<1>3. a.pbase \div size \in Nat
  BY <1>1, <1>2
<1>4. (a.pbase \div size) * size \in Nat
  BY <1>1, <1>3, ProductNat
<1> QED BY <1>4 DEF TableBase, size

LEMMA VirtNat ==
  ASSUME arg \in ArgType, NEW n \in Nat, NEW m \in Nat
  PROVE  SectionVirt(n) \in Nat /\ PageVirt(n, m) \in Nat
<1>1. n * L2Count \in Nat
  BY Geometry, ProductNat
<1>2. arg.base + n * L2Count + m \in Nat
  BY <1>1 DEF ArgType
<1> QED BY <1>1, <1>2, VASizePositive, RemainderNat DEF SectionVirt, PageVirt

(* loopread reads page by page and comes to the total exactly.             *)
LEMMA PageByPage ==
  ASSUME NEW s \in {0} \cup Sizes, NEW t \in Sizes, s < t
  PROVE  /\ s + PageWords \in Sizes /\ s + PageWords <= t
         /\ t = PageWords => s = 0
BY Geometry DEF Sizes

LEMMA SizesNat == Sizes \subseteq Nat \ {0} /\ \A s \in Sizes : PageWords <= s
BY Geometry DEF Sizes

-----------------------------------------------------------------------------
(* Copies and lines                                                        *)

LEMMA ExplainedType ==
  ASSUME NEW c \in CopyType, Explained(c), c.what.lo # 0
  PROVE  Real(c)
BY DEF Explained, Nothing

(* Lines stay explained when what memory held only grows.                  *)
LEMMA LinesStay ==
  ASSUME LinesExplained, TypeInv, arg' = arg, lines' = lines,
         stale => stale',
         held' \in [Words -> SUBSET Descs],
         \A w \in Words : held[w] \subseteq held'[w]
  PROVE  LinesExplained'
<1> SUFFICES ASSUME NEW n \in DOMAIN lines
             PROVE  /\ lines[n].word.at \in Words
                    /\ lines[n].word.what \in held'[lines[n].word.at]
                    /\ lines[n].l1 < PageWords
                    /\ ~ stale' => lines[n].word.at \in PlaceOf(lines[n])'
  BY DEF LinesExplained
<1>1. /\ lines[n].word.at \in Words
      /\ lines[n].word.what \in held[lines[n].word.at]
      /\ lines[n].l1 < PageWords
      /\ ~ stale => lines[n].word.at \in PlaceOf(lines[n])
  BY DEF LinesExplained
<1>2. LastPage' = LastPage
  BY DEF LastPage, L1Base
<1>3. \A x : L1HeldAt(x) \subseteq L1HeldAt(x)'
  BY <1>2 DEF L1HeldAt
<1>4. PlaceOf(lines[n]) \subseteq PlaceOf(lines[n])'
  BY <1>2, <1>3 DEF PlaceOf, PageVirt
<1> QED BY <1>1, <1>4

(* Only OSWrite changes held, and no action takes a stale page back.       *)
LEMMA LinesKept ==
  ASSUME WalkInv, UNCHANGED <<arg, lines, held>>, stale => stale'
  PROVE  LinesExplained'
<1>1. /\ LinesExplained /\ TypeInv /\ arg' = arg /\ lines' = lines
      /\ held' \in [Words -> SUBSET Descs]
      /\ \A w \in Words : held[w] \subseteq held'[w]
  BY DEF WalkInv, TypeInv
<1> QED BY <1>1, LinesStay

-----------------------------------------------------------------------------
(* The initial states                                                      *)

LEMMA WalkInit == Init => WalkInv
<1> SUFFICES ASSUME Init PROVE WalkInv
  OBVIOUS
<1>1. PICK s \in Starts : mem = s.mem /\ arg = s.arg
  BY DEF Init
<1>2. mem \in [Words -> Descs] /\ arg \in ArgType
  BY <1>1, WalkerAssumption
<1>3. arg.psize \in Sizes
  <2>1. s.arg.psize \in {n * PageWords : n \in 1 .. 4}
    BY <1>1, WalkerAssumption
  <2>2. PICK n \in 1 .. 4 : s.arg.psize = n * PageWords
    BY <2>1
  <2>3. n = 1 \/ n = 2 \/ n = 3 \/ n = 4
    OBVIOUS
  <2> QED BY <1>1, <2>2, <2>3, Geometry DEF Sizes
<1>4. Nothing \in Descs
  BY WalkerAssumption DEF Nothing, Descs
<1>5. Filled(PageWords, Nothing) \in [1 .. PageWords -> CopyType]
  BY <1>4, Geometry DEF Filled, CopyType
<1>6. arg.psize \in Nat
  BY <1>3, SizesNat
<1>7. TypeInv
  <2>1. held \in [Words -> SUBSET Descs] /\ \A w \in Words : mem[w] \in held[w]
    BY <1>2 DEF Init
  <2>2. writes \in 0 .. MaxWrites /\ fails \in 0 .. MaxFails
        /\ i \in 0 .. arg.psize /\ j \in 0 .. L2Count
    BY <1>6, Geometry DEF Init
  <2>3. rd \in FrameType
    BY Geometry DEF Init, Frame, FrameType
  <2>4. /\ injected \in BOOLEAN /\ stale \in BOOLEAN /\ pc = "main"
        /\ rpc = "idle" /\ data2 = <<>> /\ lines = <<>>
        /\ scratch = Filled(PageWords, Nothing)
    BY DEF Init, RegionInit
  <2> QED BY <1>2, <1>3, <1>5, <2>1, <2>2, <2>3, <2>4
          DEF TypeInv, InL2, Reading
<1>8. FrameInv
  BY DEF Init, FrameInv, Reading, InL2
<1>9. CopyInv
  BY Geometry DEF Init, CopyInv, Reading, Filled, Explained
<1>10. PlaceInv
  BY DEF Init, PlaceInv, Reading, InL2
<1>11. LinesExplained
  BY DEF Init, LinesExplained
<1> QED BY <1>7, <1>8, <1>9, <1>10, <1>11 DEF WalkInv

-----------------------------------------------------------------------------
(* One lemma for each action                                               *)

LEMMA GiveUpStep ==
  ASSUME WalkInv, GiveUp
  PROVE  WalkInv'
<1> USE DEF GiveUp, kernel
<1>1. fails' \in 0 .. MaxFails
  BY Geometry DEF Fail, WalkInv, TypeInv
<1>2. TypeInv'
  BY <1>1 DEF WalkInv, TypeInv, InL2, Reading, regionVars
<1>3. FrameInv' /\ PlaceInv'
  BY DEF FrameInv, PlaceInv, Reading, InL2
<1>4. CopyInv'
  BY DEF WalkInv, CopyInv, Explained, Real, Reading
<1>5. LinesExplained'
  BY LinesKept
<1> QED BY <1>2, <1>3, <1>4, <1>5 DEF WalkInv

LEMMA NewFrame ==
  ASSUME NEW who \in {"l1", "l2"}, NEW b \in Nat, NEW t \in Nat
  PROVE  /\ Frame(who, b, t) \in FrameType
         /\ Frame(who, b, t).who = who
         /\ Frame(who, b, t).base = b /\ Frame(who, b, t).total = t
         /\ Frame(who, b, t).sofar = 0 /\ Frame(who, b, t).poked = 0
BY Geometry DEF Frame, FrameType

LEMMA DumpPagetableStep ==
  ASSUME WalkInv, DumpPagetable
  PROVE  WalkInv'
<1>1. arg.psize \in Sizes /\ arg.psize \in Nat /\ PageWords <= arg.psize
      /\ arg \in ArgType
  BY SizesNat, Geometry DEF WalkInv, TypeInv
<1>2. Nothing \in Descs
  BY WalkerAssumption DEF Nothing, Descs
<1>3. /\ data' = Filled(arg.psize, Nothing)
      /\ rd' = Frame("l1", L1Base, arg.psize)
      /\ pc = "main" /\ pc' = "chunk"
      /\ UNCHANGED <<mem, writes, held, arg, injected, scratch, data2, i, j,
                     lines, fails, stale, rpc>>
  BY DEF DumpPagetable, kernel, regionVars, L1Base
<1>4. data' \in [1 .. arg.psize -> CopyType]
  <2>1. [at |-> -1, what |-> Nothing] \in CopyType
    BY <1>2, Geometry DEF CopyType
  <2> QED BY <1>3, <2>1 DEF Filled
<1>5. L1Base \in Nat
  BY <1>1, TableBaseNat DEF L1Base
<1>6. /\ rd' \in FrameType
      /\ rd'.who = "l1" /\ rd'.base = L1Base /\ rd'.total = arg.psize
      /\ rd'.sofar = 0 /\ rd'.poked = 0
  BY <1>1, <1>3, <1>5, NewFrame
<1>7. TypeInv'
  BY <1>3, <1>4, <1>6 DEF WalkInv, TypeInv, InL2, Reading
<1>8. FrameInv'
  <2>1. L1Base' = L1Base
    BY <1>3 DEF L1Base
  <2> QED BY <1>1, <1>3, <1>6, <2>1, SizesNat DEF FrameInv, Reading, InL2
<1>9. CopyInv'
  <2>1. \A k \in 1 .. arg.psize : data'[k] = [at |-> -1, what |-> Nothing]
    BY <1>3 DEF Filled
  <2> QED BY <1>3, <1>6, <2>1 DEF WalkInv, CopyInv, Explained, Real, Reading
<1>10. PlaceInv'
  BY <1>3, <1>6 DEF PlaceInv, Reading, InL2
<1>11. LinesExplained'
  BY <1>3, LinesKept
<1> QED BY <1>7, <1>8, <1>9, <1>10, <1>11 DEF WalkInv

(* Steps that only go on in loopread.                                      *)
LEMMA NextChunkStep ==
  ASSUME WalkInv, NextChunk
  PROVE  WalkInv'
<1> USE DEF NextChunk, kernel, frames
<1>1. TypeInv'
  BY DEF WalkInv, TypeInv, InL2, Reading
<1>2. FrameInv'
  BY DEF WalkInv, FrameInv, Reading, InL2, OfEntry, L1Base
<1>3. CopyInv'
  BY DEF WalkInv, CopyInv, Explained, Real, Reading
<1>4. PlaceInv'
  BY DEF WalkInv, PlaceInv, Reading, InL2, LastPage, L1Base
<1>5. LinesExplained'
  BY LinesKept
<1> QED BY <1>1, <1>2, <1>3, <1>4, <1>5 DEF WalkInv

LEMMA SystemCallStep ==
  ASSUME WalkInv, SystemCall
  PROVE  WalkInv'
<1> USE DEF SystemCall, kernel
<1>1. pc' \in {"half1", "poke", "panicked"} /\ stale' \in BOOLEAN
      /\ (stale => stale') /\ (pc' = "half1" => stale') /\ rpc' = "idle"
  BY DEF EndCall, WalkInv, TypeInv
<1>2. TypeInv'
  BY <1>1 DEF WalkInv, TypeInv, InL2, Reading
<1>3. FrameInv'
  BY <1>1 DEF WalkInv, FrameInv, Reading, InL2, OfEntry, L1Base
<1>4. CopyInv'
  BY <1>1 DEF WalkInv, CopyInv, Explained, Real, Reading
<1>5. PlaceInv'
  <2>1. pc = "ask" => rd.poked = 0
    BY DEF WalkInv, FrameInv, Reading
  <2> QED BY <1>1, <2>1 DEF WalkInv, PlaceInv, Reading, InL2, LastPage, L1Base
<1>6. LinesExplained'
  BY <1>1, LinesKept
<1> QED BY <1>2, <1>3, <1>4, <1>5, <1>6 DEF WalkInv

LEMMA PokeWordStep ==
  ASSUME WalkInv, PokeWord
  PROVE  WalkInv'
<1> USE DEF PokeWord, kernel
<1>1. /\ rd \in FrameType /\ scratch \in [1 .. PageWords -> CopyType]
      /\ PageWords \in Nat /\ MemWords \in Nat
  BY Geometry DEF WalkInv, TypeInv
<1> DEFINE p == rd.poked + 1
           c == [at |-> PokeAt, what |-> mem[PokeAt]]
<1>2. /\ p \in 1 .. PageWords
      /\ rd' = [rd EXCEPT !.poked = p] /\ rd' \in FrameType
      /\ rd.base \in Nat /\ rd.sofar \in Nat /\ rd.poked \in Nat
  BY SMTT(30), <1>1 DEF FrameType
<1>3. c \in CopyType /\ Real(c)
  BY Geometry DEF WalkInv, TypeInv, CopyType, Real, Words
<1>4. scratch' = [scratch EXCEPT ![p] = c]
  OBVIOUS
<1>5. scratch' \in [1 .. PageWords -> CopyType]
  BY <1>1, <1>2, <1>3, <1>4
<1>6. c.at = rd.base + rd.sofar + p - 1
  BY <1>2 DEF PokeAt
<1> HIDE DEF p, c
<1>7. TypeInv'
  BY <1>2, <1>5 DEF WalkInv, TypeInv, InL2, Reading, regionVars
<1>8. /\ rd'.who = rd.who /\ rd'.base = rd.base /\ rd'.total = rd.total
      /\ rd'.sofar = rd.sofar /\ rd'.poked = p
  BY <1>1, <1>2 DEF FrameType
<1>9. FrameInv'
  BY <1>8 DEF WalkInv, FrameInv, Reading, InL2, OfEntry, L1Base
<1>10. CopyInv'
  <2>1. \A k \in 1 .. PageWords : Explained(scratch'[k])
    BY <1>1, <1>3, <1>4 DEF WalkInv, CopyInv, Explained
  <2> QED BY <1>8, <2>1 DEF WalkInv, CopyInv, Explained, Real, Reading
<1>11. PlaceInv'
  <2>1. ~ stale => \A k \in 1 .. rd.poked : scratch[k].at = rd.base + rd.sofar + k - 1
    BY DEF WalkInv, PlaceInv
  <2>2. ASSUME ~ stale, NEW k \in 1 .. p
        PROVE  scratch'[k].at = rd.base + rd.sofar + k - 1
    <3>1. CASE k = p
      BY <1>1, <1>2, <1>4, <1>6, <3>1
    <3>2. CASE k # p
      <4>1. p \in Nat /\ rd.poked \in Nat /\ p - 1 = rd.poked
        BY <1>2 DEF p
      <4>2. k \in 1 .. rd.poked /\ k \in 1 .. PageWords
        BY <1>1, <1>2, <3>2, <4>1
      <4> QED BY <1>1, <1>4, <2>1, <2>2, <3>2, <4>2
    <3> QED BY <3>1, <3>2
  <2> QED BY <1>8, <2>2 DEF WalkInv, PlaceInv, Reading, InL2, LastPage, L1Base
<1>12. LinesExplained'
  BY LinesKept
<1> QED BY <1>7, <1>9, <1>10, <1>11, <1>12 DEF WalkInv

LEMMA PokeDoneStep ==
  ASSUME WalkInv, PokeDone
  PROVE  WalkInv'
<1> USE DEF PokeDone, kernel, frames
<1>1. TypeInv'
  BY DEF WalkInv, TypeInv, InL2, Reading, regionVars
<1>2. FrameInv'
  BY DEF WalkInv, FrameInv, Reading, InL2, OfEntry, L1Base
<1>3. CopyInv'
  BY DEF WalkInv, CopyInv, Explained, Real, Reading
<1>4. PlaceInv'
  BY DEF WalkInv, PlaceInv, Reading, InL2, LastPage, L1Base
<1>5. LinesExplained'
  BY LinesKept
<1> QED BY <1>1, <1>2, <1>3, <1>4, <1>5 DEF WalkInv

LEMMA PokeFailsStep ==
  ASSUME WalkInv, PokeFails
  PROVE  WalkInv'
<1> USE DEF PokeFails, kernel
<1>1. fails' \in 0 .. MaxFails
  BY Geometry DEF Fail, WalkInv, TypeInv
<1>2. TypeInv'
  BY <1>1 DEF WalkInv, TypeInv, InL2, Reading, regionVars
<1>3. FrameInv'
  BY DEF WalkInv, FrameInv, Reading, InL2, OfEntry, L1Base
<1>4. CopyInv'
  BY DEF WalkInv, CopyInv, Explained, Real, Reading
<1>5. PlaceInv'
  BY DEF PlaceInv
<1>6. LinesExplained'
  BY LinesKept
<1> QED BY <1>2, <1>3, <1>4, <1>5, <1>6 DEF WalkInv

LEMMA PokePanicsStep ==
  ASSUME WalkInv, PokePanics
  PROVE  WalkInv'
<1> USE DEF PokePanics, kernel, frames
<1>1. TypeInv'
  BY DEF WalkInv, TypeInv, InL2, Reading, regionVars
<1>2. FrameInv' /\ PlaceInv'
  BY DEF FrameInv, PlaceInv, Reading, InL2
<1>3. CopyInv'
  BY DEF WalkInv, CopyInv, Explained, Real, Reading
<1>4. LinesExplained'
  BY LinesKept
<1> QED BY <1>1, <1>2, <1>3, <1>4 DEF WalkInv

(* What a store to a buffer leaves in it.                                  *)
LEMMA StoredWords ==
  ASSUME scratch \in [1 .. PageWords -> CopyType],
         NEW n \in Nat, PageWords <= n, NEW buf \in [1 .. n -> CopyType],
         NEW from \in Nat \ {0}, NEW to \in Nat, to <= PageWords
  PROVE  /\ Stored(buf, from, to) \in [1 .. n -> CopyType]
         /\ \A k \in 1 .. n : Stored(buf, from, to)[k]
                              = IF k \in from .. to THEN scratch[k] ELSE buf[k]
<1>1. \A k \in 1 .. n : k \in from .. to => k \in 1 .. PageWords
  BY Geometry
<1> QED BY <1>1 DEF Stored

LEMMA NextFrame ==
  ASSUME NEW r \in FrameType
  PROVE  /\ [r EXCEPT !.sofar = @ + PageWords, !.poked = 0] \in FrameType
         /\ [r EXCEPT !.sofar = @ + PageWords, !.poked = 0].who = r.who
         /\ [r EXCEPT !.sofar = @ + PageWords, !.poked = 0].base = r.base
         /\ [r EXCEPT !.sofar = @ + PageWords, !.poked = 0].total = r.total
         /\ [r EXCEPT !.sofar = @ + PageWords, !.poked = 0].sofar
              = r.sofar + PageWords
         /\ [r EXCEPT !.sofar = @ + PageWords, !.poked = 0].poked = 0
<1> DEFINE s == r.sofar + PageWords
<1>1. s \in Nat
  BY Geometry DEF FrameType
<1> HIDE DEF s
<1> DEFINE g == [r EXCEPT !.sofar = s]
<1>2. [g EXCEPT !.poked = 0] \in FrameType
  <2>1. g \in FrameType
    BY <1>1 DEF FrameType
  <2>2. 0 \in 0 .. PageWords
    BY Geometry
  <2> HIDE DEF g
  <2> QED BY <2>1, <2>2 DEF FrameType
<1>3. [r EXCEPT !.sofar = s, !.poked = 0]
        = [g EXCEPT !.poked = 0]
  BY DEF FrameType
<1> QED BY <1>2, <1>3 DEF FrameType, s

(* What is known of the buffers while a page is fetched.                   *)
LEMMA WhileFetching ==
  ASSUME WalkInv, pc \in {"half1", "half2"}
  PROVE  /\ rd \in FrameType /\ rd.who \in {"l1", "l2"}
         /\ rd.base \in Nat /\ rd.sofar \in {0} \cup Sizes /\ rd.total \in Sizes
         /\ rd.sofar < rd.total /\ rd.sofar \in Nat
         /\ rd.who = "l1" => rd.total = arg.psize
         /\ rd.who = "l2" => rd.total = PageWords /\ rd.sofar = 0
         /\ arg.psize \in Nat /\ PageWords <= arg.psize
         /\ scratch \in [1 .. PageWords -> CopyType]
         /\ data \in [1 .. arg.psize -> CopyType]
         /\ rd.who = "l2" => data2 \in [1 .. PageWords -> CopyType]
<1>1. /\ rd \in FrameType /\ rd.who \in {"l1", "l2"} /\ rd.base \in Nat
      /\ arg.psize \in Sizes /\ rd.sofar \in Nat
      /\ scratch \in [1 .. PageWords -> CopyType]
      /\ data \in [1 .. arg.psize -> CopyType]
      /\ rd.who = "l2" => data2 \in [1 .. PageWords -> CopyType]
  BY DEF WalkInv, TypeInv, FrameType, InL2, Reading
<1>2. /\ rd.who = "l1" => rd.total = arg.psize
      /\ rd.who = "l2" => rd.total = PageWords
      /\ rd.sofar \in {0} \cup Sizes /\ rd.sofar < rd.total
  BY DEF WalkInv, FrameInv, Reading
<1>3. rd.total \in Sizes
  <2>1. PageWords \in Sizes
    BY DEF Sizes
  <2> QED BY <1>1, <1>2, <2>1
<1>4. rd.who = "l2" => rd.sofar = 0
  BY <1>2, <1>3, PageByPage
<1>5. arg.psize \in Nat /\ PageWords <= arg.psize
  BY <1>1, SizesNat
<1> HIDE DEF Sizes
<1> QED BY <1>1, <1>2, <1>3, <1>4, <1>5

LEMMA ReadFirstHalfStep ==
  ASSUME WalkInv, ReadFirstHalf
  PROVE  WalkInv'
<1>1. /\ pc = "half1" /\ pc' = "half2"
      /\ UNCHANGED <<mem, writes, held, arg, injected, rd, scratch, i, j, lines,
                     fails, stale, rpc>>
      /\ rd.who = "l1" => data' = Stored(data, 1, Half) /\ data2' = data2
      /\ rd.who # "l1" => data2' = Stored(data2, 1, Half) /\ data' = data
  BY DEF ReadFirstHalf, Dest, kernel, regionVars
<1>2. /\ rd.who \in {"l1", "l2"} /\ arg.psize \in Nat /\ PageWords <= arg.psize
      /\ scratch \in [1 .. PageWords -> CopyType]
      /\ data \in [1 .. arg.psize -> CopyType]
      /\ rd.who = "l2" => data2 \in [1 .. PageWords -> CopyType] /\ rd.sofar = 0
  BY <1>1, WhileFetching
<1>3. Half \in Nat /\ Half <= PageWords /\ PageWords \in Nat /\ PageWords <= PageWords
  BY Geometry
<1>4. /\ data' \in [1 .. arg.psize -> CopyType]
      /\ \A k \in 1 .. arg.psize : data'[k] =
           IF rd.who = "l1" /\ k \in 1 .. Half THEN scratch[k] ELSE data[k]
  <2>1. CASE rd.who = "l1"
    <3>1. /\ Stored(data, 1, Half) \in [1 .. arg.psize -> CopyType]
          /\ \A k \in 1 .. arg.psize : Stored(data, 1, Half)[k]
                = IF k \in 1 .. Half THEN scratch[k] ELSE data[k]
      <4>1. /\ data \in [1 .. arg.psize -> CopyType]
            /\ \A k \in 1 .. Half : scratch[k] \in CopyType
        BY <1>2, <1>3
      <4> QED BY <4>1 DEF Stored
    <3> QED BY <1>1, <2>1, <3>1
  <2>2. CASE rd.who # "l1"
    BY <1>1, <1>2, <2>2
  <2> QED BY <2>1, <2>2
<1>5. rd.who = "l2" =>
        /\ data2' \in [1 .. PageWords -> CopyType]
        /\ \A k \in 1 .. PageWords :
             data2'[k] = IF k \in 1 .. Half THEN scratch[k] ELSE data2[k]
  <2> SUFFICES ASSUME rd.who = "l2" PROVE
        /\ data2' \in [1 .. PageWords -> CopyType]
        /\ \A k \in 1 .. PageWords :
             data2'[k] = IF k \in 1 .. Half THEN scratch[k] ELSE data2[k]
    OBVIOUS
  <2>1. /\ Stored(data2, 1, Half) \in [1 .. PageWords -> CopyType]
        /\ \A k \in 1 .. PageWords : Stored(data2, 1, Half)[k]
              = IF k \in 1 .. Half THEN scratch[k] ELSE data2[k]
    <3>1. /\ data2 \in [1 .. PageWords -> CopyType]
          /\ \A k \in 1 .. Half : scratch[k] \in CopyType
      BY <1>2, <1>3
    <3> QED BY <3>1 DEF Stored
  <2> QED BY <1>1, <2>1
<1>6. TypeInv'
  BY <1>1, <1>2, <1>4, <1>5 DEF WalkInv, TypeInv, InL2, Reading
<1>7. FrameInv'
  <2>1. L1Base' = L1Base
    BY <1>1 DEF L1Base
  <2>2. rd.who = "l2" => OfEntry'
    BY <1>1 DEF WalkInv, FrameInv, InL2, Reading, OfEntry
  <2> QED BY <1>1, <1>2, <2>1, <2>2 DEF WalkInv, FrameInv, Reading, InL2
<1>8. CopyInv'
  <2>1. \A k \in 1 .. PageWords : Explained(scratch[k]) /\ Explained(scratch[k])'
    BY <1>1 DEF WalkInv, CopyInv, Explained, Real
  <2>2. \A k \in 1 .. arg.psize :
          /\ Explained(data[k])
          /\ k > PageWords => data[k] = [at |-> -1, what |-> Nothing]
    BY <1>1 DEF WalkInv, CopyInv
  <2>3. ASSUME NEW k \in 1 .. arg.psize
        PROVE  /\ Explained(data[k])'
               /\ k > PageWords => data'[k] = [at |-> -1, what |-> Nothing]
    <3>1. CASE rd.who = "l1" /\ k \in 1 .. Half
      <4>1. k \in 1 .. PageWords /\ ~ (k > PageWords) /\ data'[k] = scratch[k]
        BY <1>3, <1>4, <3>1
      <4> QED BY <1>1, <2>1, <4>1 DEF Explained, Real
    <3>2. CASE ~ (rd.who = "l1" /\ k \in 1 .. Half)
      BY <1>1, <1>4, <2>2, <3>2 DEF Explained, Real
    <3> QED BY <3>1, <3>2
  <2>4. rd.who = "l2" => \A k \in 1 .. Half : Explained(data2[k])'
    BY <1>1, <1>3, <1>5, <2>1 DEF Explained, Real
  <2> QED BY <1>1, <1>2, <2>1, <2>3, <2>4 DEF CopyInv, Reading
<1>9. PlaceInv'
  <2>1. ASSUME ~ stale, NEW k \in 1 .. Half
        PROVE  Buffer'[k].at = rd.base + rd.sofar + k - 1
    <3>1. k \in 1 .. PageWords /\ k \in 1 .. arg.psize
      BY <1>2, <1>3
    <3>2. Buffer'[k] = scratch[k]
      BY <1>1, <1>2, <1>4, <1>5, <3>1 DEF Buffer
    <3> QED BY <1>1, <2>1, <3>1, <3>2 DEF WalkInv, PlaceInv
  <2>2. LastPage' = LastPage
    BY <1>1 DEF LastPage, L1Base
  <2>3. \A k \in 1 .. PageWords : rd.who = "l2" => data'[k] = data[k]
    BY <1>1
  <2> QED BY <1>1, <2>1, <2>2, <2>3 DEF WalkInv, PlaceInv, Reading, InL2
<1>10. LinesExplained'
  BY <1>1, LinesKept
<1> QED BY <1>6, <1>7, <1>8, <1>9, <1>10 DEF WalkInv

LEMMA ReadSecondHalfStep ==
  ASSUME WalkInv, ReadSecondHalf
  PROVE  WalkInv'
<1>1. /\ pc = "half2" /\ pc' = "chunk"
      /\ UNCHANGED <<mem, writes, held, arg, injected, scratch, i, j, lines,
                     fails, stale, rpc>>
      /\ rd' = [rd EXCEPT !.sofar = @ + PageWords, !.poked = 0]
      /\ rd.who = "l1" => data' = Stored(data, Half + 1, PageWords) /\ data2' = data2
      /\ rd.who # "l1" => data2' = Stored(data2, Half + 1, PageWords) /\ data' = data
  BY DEF ReadSecondHalf, Dest, kernel, regionVars
<1>2. /\ rd \in FrameType /\ rd.who \in {"l1", "l2"}
      /\ rd.base \in Nat /\ rd.sofar \in {0} \cup Sizes /\ rd.total \in Sizes
      /\ rd.sofar < rd.total /\ rd.sofar \in Nat
      /\ rd.who = "l1" => rd.total = arg.psize
      /\ rd.who = "l2" => rd.total = PageWords /\ rd.sofar = 0
      /\ arg.psize \in Nat /\ PageWords <= arg.psize
      /\ scratch \in [1 .. PageWords -> CopyType]
      /\ data \in [1 .. arg.psize -> CopyType]
      /\ rd.who = "l2" => data2 \in [1 .. PageWords -> CopyType]
  BY <1>1, WhileFetching
<1>3. /\ Half + 1 \in Nat \ {0} /\ PageWords \in 0 .. PageWords
      /\ PageWords \in Nat /\ PageWords <= PageWords
      /\ \A k \in 1 .. PageWords : k \in 1 .. Half \/ k \in Half + 1 .. PageWords
  BY Geometry
<1>4. /\ data' \in [1 .. arg.psize -> CopyType]
      /\ \A k \in 1 .. arg.psize : data'[k] =
           IF rd.who = "l1" /\ k \in Half + 1 .. PageWords
             THEN scratch[k] ELSE data[k]
  <2>1. CASE rd.who = "l1"
    <3>1. /\ Stored(data, Half + 1, PageWords) \in [1 .. arg.psize -> CopyType]
          /\ \A k \in 1 .. arg.psize : Stored(data, Half + 1, PageWords)[k]
                = IF k \in Half + 1 .. PageWords THEN scratch[k] ELSE data[k]
      <4>1. /\ arg.psize \in Nat /\ PageWords <= arg.psize
            /\ scratch \in [1 .. PageWords -> CopyType]
            /\ data \in [1 .. arg.psize -> CopyType]
        BY <1>2
      <4> DEFINE from == Half + 1
      <4>2. from \in Nat \ {0} /\ PageWords \in Nat /\ PageWords <= PageWords
        BY <1>3
      <4> HIDE DEF from
      <4>3. /\ Stored(data, from, PageWords) \in [1 .. arg.psize -> CopyType]
            /\ \A k \in 1 .. arg.psize : Stored(data, from, PageWords)[k]
                  = IF k \in from .. PageWords THEN scratch[k] ELSE data[k]
        <5>1. \A k \in from .. PageWords : scratch[k] \in CopyType
          BY <4>1, <4>2
        <5> QED BY <4>1, <5>1 DEF Stored
      <4> QED BY <4>3 DEF from
    <3> QED BY <1>1, <2>1, <3>1
  <2>2. CASE rd.who # "l1"
    BY <1>1, <1>2, <2>2
  <2> QED BY <2>1, <2>2
<1>5. rd.who = "l2" =>
        /\ data2' \in [1 .. PageWords -> CopyType]
        /\ \A k \in 1 .. PageWords : data2'[k] =
             IF k \in Half + 1 .. PageWords THEN scratch[k] ELSE data2[k]
  BY <1>1, <1>2, <1>3, StoredWords
<1>6. /\ rd' \in FrameType
      /\ rd'.who = rd.who /\ rd'.base = rd.base /\ rd'.total = rd.total
      /\ rd'.sofar = rd.sofar + PageWords /\ rd'.poked = 0
  BY <1>1, <1>2, NextFrame
<1>7. rd'.sofar \in Sizes /\ rd'.sofar <= rd.total
  BY <1>2, <1>6, PageByPage
<1>8. TypeInv'
  BY <1>1, <1>2, <1>4, <1>5, <1>6 DEF WalkInv, TypeInv, InL2, Reading
<1>9. FrameInv'
  <2>1. L1Base' = L1Base
    BY <1>1 DEF L1Base
  <2>2. rd.who = "l2" => OfEntry'
    BY <1>1, <1>6 DEF WalkInv, FrameInv, InL2, Reading, OfEntry
  <2> QED BY <1>1, <1>2, <1>6, <1>7, <2>1, <2>2 DEF WalkInv, FrameInv, Reading, InL2
<1>10. CopyInv'
  <2>1. \A k \in 1 .. PageWords : Explained(scratch[k]) /\ Explained(scratch[k])'
    BY <1>1 DEF WalkInv, CopyInv, Explained, Real
  <2>2. \A k \in 1 .. arg.psize :
          /\ Explained(data[k])
          /\ k > PageWords => data[k] = [at |-> -1, what |-> Nothing]
    BY <1>1 DEF WalkInv, CopyInv
  <2>3. ASSUME NEW k \in 1 .. arg.psize
        PROVE  /\ Explained(data[k])'
               /\ k > PageWords => data'[k] = [at |-> -1, what |-> Nothing]
    <3>1. CASE rd.who = "l1" /\ k \in Half + 1 .. PageWords
      <4>1. k \in 1 .. PageWords /\ ~ (k > PageWords) /\ data'[k] = scratch[k]
        BY <1>3, <1>4, <3>1, Geometry
      <4> QED BY <1>1, <2>1, <4>1 DEF Explained, Real
    <3>2. CASE ~ (rd.who = "l1" /\ k \in Half + 1 .. PageWords)
      BY <1>1, <1>4, <2>2, <3>2 DEF Explained, Real
    <3> QED BY <3>1, <3>2
  <2>4. rd.who = "l2" => \A k \in 1 .. Half : Explained(data2[k])
    BY <1>1 DEF WalkInv, CopyInv
  <2>5. rd.who = "l2" => \A k \in 1 .. PageWords : Explained(data2[k])'
    BY <1>1, <1>3, <1>5, <2>1, <2>4 DEF Explained, Real
  <2> QED BY <1>1, <1>6, <2>1, <2>3, <2>5 DEF CopyInv, Reading
<1>11. PlaceInv'
  <2>1. ASSUME ~ stale, NEW k \in 1 .. PageWords
        PROVE  Buffer'[k].at = rd'.base + rd'.sofar - PageWords + k - 1
    <3>1. k \in 1 .. arg.psize /\ k \in Nat
      BY <1>2, <1>3
    <3>2. Buffer'[k] = IF k \in Half + 1 .. PageWords THEN scratch[k] ELSE Buffer[k]
      BY <1>1, <1>2, <1>4, <1>5, <1>6, <3>1 DEF Buffer
    <3>3. k \in 1 .. Half => Buffer[k].at = rd.base + rd.sofar + k - 1
      BY <1>1, <2>1 DEF WalkInv, PlaceInv
    <3>4. scratch[k].at = rd.base + rd.sofar + k - 1
      BY <1>1, <2>1 DEF WalkInv, PlaceInv
    <3>5. Buffer'[k].at = rd.base + rd.sofar + k - 1
      BY <1>3, <3>2, <3>3, <3>4
    <3>6. rd.base + rd.sofar + k - 1 = rd'.base + rd'.sofar - PageWords + k - 1
      BY <1>2, <1>3, <1>6, <3>1
    <3> QED BY <3>5, <3>6
  <2>2. LastPage' = LastPage
    BY <1>1 DEF LastPage, L1Base
  <2>3. \A k \in 1 .. PageWords : rd.who = "l2" => data'[k] = data[k]
    BY <1>1
  <2> QED BY <1>1, <1>6, <2>1, <2>2, <2>3 DEF WalkInv, PlaceInv, Reading, InL2
<1>12. LinesExplained'
  BY <1>1, LinesKept
<1> QED BY <1>8, <1>9, <1>10, <1>11, <1>12 DEF WalkInv

LEMMA ReadFailsStep ==
  ASSUME WalkInv, ReadFails
  PROVE  WalkInv'
<1> USE DEF ReadFails, kernel
<1>1. fails' \in 0 .. MaxFails
  BY Geometry DEF Fail, WalkInv, TypeInv
<1>2. TypeInv'
  BY <1>1 DEF WalkInv, TypeInv, InL2, Reading, regionVars
<1>3. FrameInv' /\ PlaceInv'
  BY DEF FrameInv, PlaceInv, Reading, InL2
<1>4. CopyInv'
  BY DEF WalkInv, CopyInv, Explained, Real, Reading
<1>5. LinesExplained'
  BY LinesKept
<1> QED BY <1>2, <1>3, <1>4, <1>5 DEF WalkInv

LEMMA ReadReturnsStep ==
  ASSUME WalkInv, ReadReturns
  PROVE  WalkInv'
<1>1. /\ pc = "chunk" /\ rd.sofar >= rd.total /\ pc' = rd.who
      /\ UNCHANGED <<mem, writes, held, arg, injected, rd, scratch, data, data2,
                     i, j, lines, fails, stale, rpc>>
  BY DEF ReadReturns, frames, kernel, regionVars
<1>2. /\ rd \in FrameType /\ rd.who \in {"l1", "l2"} /\ rd.base \in Nat
      /\ rd.sofar \in Nat /\ rd.total \in Nat /\ arg.psize \in Sizes
  BY DEF WalkInv, TypeInv, FrameType
<1>3. /\ rd.who = "l1" => rd.base = L1Base /\ rd.total = arg.psize
      /\ rd.who = "l2" => rd.total = PageWords /\ OfEntry
      /\ rd.sofar <= rd.total
  BY <1>1 DEF WalkInv, FrameInv, Reading, InL2
<1>4. rd.sofar = rd.total /\ rd.sofar > 0
  <2>1. rd.total \in Sizes
    BY <1>2, <1>3 DEF Sizes
  <2> QED BY <1>1, <1>2, <1>3, <2>1, SizesNat
<1>5. TypeInv'
  BY <1>1, <1>2 DEF WalkInv, TypeInv, InL2, Reading
<1>6. FrameInv'
  BY <1>1, <1>2, <1>3 DEF FrameInv, Reading, InL2, OfEntry
<1>7. CopyInv'
  BY <1>1, <1>2, <1>4 DEF WalkInv, CopyInv, Explained, Real, Reading
<1>8. PlaceInv'
  <2>1. ASSUME ~ stale, NEW k \in 1 .. PageWords
        PROVE  Buffer[k].at = rd.base + rd.sofar - PageWords + k - 1
    BY <1>1, <1>4, <2>1 DEF WalkInv, PlaceInv
  <2>2. LastPage' = LastPage
    BY <1>1 DEF LastPage, L1Base
  <2>3. rd.who = "l1" => rd.base + rd.sofar - PageWords = LastPage
    BY <1>3, <1>4 DEF LastPage
  <2>4. ASSUME ~ stale, rd.who = "l2", NEW k \in 1 .. PageWords
        PROVE  data2[k].at = rd.base + k - 1
    <3>1. rd.base + rd.sofar - PageWords + k - 1 = rd.base + k - 1
      BY <1>2, <1>3, <1>4, <2>4, Geometry
    <3> QED BY <2>1, <2>4, <3>1 DEF Buffer
  <2>5. ASSUME ~ stale, NEW k \in 1 .. PageWords
        PROVE  data[k].at = LastPage + k - 1
    <3>1. CASE rd.who = "l1"
      BY <2>1, <2>3, <2>5, <3>1 DEF Buffer
    <3>2. CASE rd.who = "l2"
      BY <1>1, <2>5, <3>2 DEF WalkInv, PlaceInv, Reading, InL2
    <3> QED BY <1>2, <3>1, <3>2
  <2> QED BY <1>1, <1>2, <2>2, <2>4, <2>5 DEF PlaceInv, Reading, InL2
<1>9. LinesExplained'
  BY <1>1, LinesKept
<1> QED BY <1>5, <1>6, <1>7, <1>8, <1>9 DEF WalkInv

(* A line that is shown, for a word of one of the buffers.                 *)
LEMMA Appending ==
  ASSUME NEW S, NEW s \in Seq(S), NEW e \in S
  PROVE  /\ Append(s, e) \in Seq(S)
         /\ \A n \in DOMAIN Append(s, e) :
              \/ n \in DOMAIN s /\ Append(s, e)[n] = s[n]
              \/ Append(s, e)[n] = e
OBVIOUS

LEMMA ShowStep ==
  ASSUME WalkInv, NEW line \in LineType, Show(line),
         UNCHANGED <<arg, held, stale>>,
         Real(line.word), line.l1 < PageWords,
         ~ stale => line.word.at \in PlaceOf(line)
  PROVE  lines' \in Seq(LineType) /\ LinesExplained'
<1>1. lines \in Seq(LineType) /\ lines' = Append(lines, line)
  BY DEF WalkInv, TypeInv, Show
<1>2. /\ lines' \in Seq(LineType)
      /\ \A n \in DOMAIN lines' :
           \/ n \in DOMAIN lines /\ lines'[n] = lines[n]
           \/ lines'[n] = line
  BY <1>1, Appending
<1>3. LastPage' = LastPage
  BY DEF LastPage, L1Base
<1>4. ASSUME NEW n \in DOMAIN lines'
      PROVE  /\ lines'[n].word.at \in Words
             /\ lines'[n].word.what \in held'[lines'[n].word.at]
             /\ lines'[n].l1 < PageWords
             /\ ~ stale' => lines'[n].word.at \in PlaceOf(lines[n])'
  <2>1. CASE n \in DOMAIN lines /\ lines'[n] = lines[n]
    <3>1. /\ lines[n].word.at \in Words
          /\ lines[n].word.what \in held[lines[n].word.at]
          /\ lines[n].l1 < PageWords
          /\ ~ stale => lines[n].word.at \in PlaceOf(lines[n])
      BY <2>1 DEF WalkInv, LinesExplained
    <3>2. PlaceOf(lines[n])' = PlaceOf(lines[n])
      BY <1>3, <2>1 DEF PlaceOf, L1HeldAt, PageVirt
    <3> QED BY <2>1, <3>1, <3>2
  <2>2. CASE lines'[n] = line
    <3>1. PlaceOf(lines[n])' = PlaceOf(line)
      BY <1>3, <2>2 DEF PlaceOf, L1HeldAt, PageVirt
    <3> QED BY <2>2, <3>1 DEF Real
  <2> QED BY <1>2, <2>1, <2>2
<1> QED BY <1>2, <1>4 DEF LinesExplained

(* What is known of the entry that dump_pagetable is at.                   *)
LEMMA AtLevelOne ==
  ASSUME WalkInv, AtEntry
  PROVE  /\ i \in Nat /\ i < arg.psize /\ arg.psize \in Nat
         /\ i + 1 \in 1 .. arg.psize
         /\ data \in [1 .. arg.psize -> CopyType]
         /\ data[i + 1] \in CopyType /\ L1Entry \in Descs
         /\ Explained(data[i + 1])
         /\ L1Entry.lo # 0 =>
              /\ i < PageWords /\ Real(data[i + 1])
              /\ ~ stale => data[i + 1].at = LastPage + i
<1>1. /\ i \in Nat /\ i < arg.psize /\ arg.psize \in Nat /\ pc = "l1"
      /\ data \in [1 .. arg.psize -> CopyType]
  <2>1. arg.psize \in Nat
    BY SizesNat DEF WalkInv, TypeInv
  <2>2. /\ pc = "l1" /\ i < arg.psize /\ i \in 0 .. arg.psize
        /\ data \in [1 .. arg.psize -> CopyType]
    BY DEF WalkInv, TypeInv, AtEntry
  <2> QED BY <2>1, <2>2
<1>2. i + 1 \in 1 .. arg.psize
  BY <1>1
<1>3. data[i + 1] \in CopyType /\ L1Entry \in Descs
  BY <1>1, <1>2 DEF CopyType, L1Entry
<1>4. /\ Explained(data[i + 1])
      /\ i + 1 > PageWords => data[i + 1] = [at |-> -1, what |-> Nothing]
  BY <1>1, <1>2 DEF WalkInv, CopyInv
<1>5. ASSUME L1Entry.lo # 0
      PROVE  i < PageWords /\ i + 1 \in 1 .. PageWords /\ Real(data[i + 1])
  <2>1. ~ (i + 1 > PageWords)
    BY <1>4, <1>5 DEF L1Entry, Nothing
  <2>2. Real(data[i + 1])
    BY <1>3, <1>4, <1>5, ExplainedType DEF L1Entry
  <2> QED BY <1>1, <2>1, <2>2, Geometry
<1>6. ASSUME L1Entry.lo # 0, ~ stale
      PROVE  data[i + 1].at = LastPage + i
  <2>1. data[i + 1].at = LastPage + (i + 1) - 1
    BY <1>1, <1>5, <1>6 DEF WalkInv, PlaceInv
  <2>2. LastPage \in Int
    BY <1>1, TableBaseNat, Geometry DEF LastPage, L1Base, WalkInv, TypeInv
  <2> QED BY <1>1, <2>1, <2>2
<1> QED BY <1>1, <1>2, <1>3, <1>4, <1>5, <1>6

LEMMA AtLevelTwo ==
  ASSUME WalkInv, AtSmallEntry
  PROVE  /\ OfEntry /\ i \in Nat /\ j \in 0 .. L2Count - 1
         /\ j + 1 \in 1 .. PageWords /\ i + 1 \in 1 .. PageWords
         /\ i + 1 \in 1 .. arg.psize
         /\ data2[j + 1] \in CopyType /\ Explained(data2[j + 1])
         /\ data[i + 1] \in CopyType /\ Explained(data[i + 1])
         /\ ~ stale =>
              /\ data2[j + 1].at = rd.base + j
              /\ data[i + 1].at = LastPage + i
<1>1. /\ pc = "l2" /\ j \in Nat /\ j < L2Count /\ i \in Nat
      /\ arg.psize \in Nat /\ rd.base \in Nat /\ arg \in ArgType
      /\ data2 \in [1 .. PageWords -> CopyType]
      /\ data \in [1 .. arg.psize -> CopyType]
  <2>1. arg.psize \in Nat
    BY SizesNat DEF WalkInv, TypeInv
  <2>2. /\ pc = "l2" /\ j < L2Count /\ j \in 0 .. L2Count
        /\ i \in 0 .. arg.psize /\ arg \in ArgType /\ rd \in FrameType
        /\ data2 \in [1 .. PageWords -> CopyType]
        /\ data \in [1 .. arg.psize -> CopyType]
    BY DEF WalkInv, TypeInv, AtSmallEntry, InL2
  <2> QED BY <2>1, <2>2, Geometry DEF FrameType
<1>2. OfEntry
  BY <1>1 DEF WalkInv, FrameInv, InL2
<1>3. /\ j \in 0 .. L2Count - 1
      /\ j + 1 \in 1 .. PageWords /\ i + 1 \in 1 .. PageWords
      /\ i + 1 \in 1 .. arg.psize
  BY <1>1, <1>2, Geometry DEF OfEntry
<1>4. data2[j + 1] \in CopyType /\ data[i + 1] \in CopyType
  BY <1>1, <1>3
<1>5. Explained(data2[j + 1]) /\ Explained(data[i + 1])
  BY <1>1, <1>3 DEF WalkInv, CopyInv
<1>6. ASSUME ~ stale
      PROVE  data2[j + 1].at = rd.base + j /\ data[i + 1].at = LastPage + i
  <2>1. data2[j + 1].at = rd.base + (j + 1) - 1
    BY <1>1, <1>3, <1>6 DEF WalkInv, PlaceInv
  <2>2. data[i + 1].at = LastPage + (i + 1) - 1
    BY <1>1, <1>3, <1>6 DEF WalkInv, PlaceInv, InL2
  <2>3. LastPage \in Int
    BY <1>1, TableBaseNat, Geometry DEF LastPage, L1Base
  <2> QED BY <1>1, <2>1, <2>2, <2>3
<1> QED BY <1>1, <1>2, <1>3, <1>4, <1>5, <1>6

LEMMA SkipEntryStep ==
  ASSUME WalkInv, SkipEntry
  PROVE  WalkInv'
<1>1. /\ pc = "l1" /\ pc' = "l1" /\ i' = i + 1
      /\ UNCHANGED <<mem, writes, held, arg, injected, rd, scratch, data, data2,
                     j, lines, fails, stale, rpc>>
  BY DEF SkipEntry, AtEntry, kernel, regionVars
<1>2. i' \in 0 .. arg.psize
  BY <1>1, AtLevelOne DEF SkipEntry
<1>3. TypeInv'
  BY <1>1, <1>2 DEF WalkInv, TypeInv, InL2, Reading
<1>4. FrameInv'
  BY <1>1 DEF FrameInv, Reading, InL2
<1>5. CopyInv'
  BY <1>1 DEF WalkInv, CopyInv, Explained, Real, Reading
<1>6. PlaceInv'
  BY <1>1 DEF WalkInv, PlaceInv, Reading, InL2, LastPage, L1Base
<1>7. LinesExplained'
  BY <1>1, LinesKept
<1> QED BY <1>3, <1>4, <1>5, <1>6, <1>7 DEF WalkInv

LEMMA ShowSectionStep ==
  ASSUME WalkInv, ShowSection
  PROVE  WalkInv'
<1> DEFINE kind == IF L1Entry.super THEN "super" ELSE "section"
           line == Line(kind, SectionVirt(i), data[i + 1])
<1>1. /\ pc = "l1" /\ pc' = "l1" /\ i' = i + 1 /\ L1Entry.lo = 2
      /\ AtEntry /\ Show(line)
      /\ UNCHANGED <<mem, writes, held, arg, injected, rd, scratch, data, data2,
                     j, fails, stale, rpc>>
  BY DEF ShowSection, AtEntry, kernel, regionVars
<1>2. /\ i \in Nat /\ i < arg.psize /\ arg.psize \in Nat
      /\ data[i + 1] \in CopyType /\ i < PageWords /\ Real(data[i + 1])
      /\ ~ stale => data[i + 1].at = LastPage + i
  BY <1>1, AtLevelOne
<1>3. /\ line \in LineType
      /\ line.word = data[i + 1] /\ line.l1 = i /\ line.kind \in {"section", "super"}
  <2>1. SectionVirt(i) \in Nat
    BY <1>2, VirtNat DEF WalkInv, TypeInv
  <2>2. kind \in {"section", "super"}
    OBVIOUS
  <2> HIDE DEF kind
  <2> QED BY <1>2, <2>1, <2>2 DEF Line, LineType
<1>4. ~ stale => line.word.at \in PlaceOf(line)
  BY <1>2, <1>3 DEF PlaceOf
<1> HIDE DEF line
<1>5. lines' \in Seq(LineType) /\ LinesExplained'
  BY <1>1, <1>2, <1>3, <1>4, ShowStep
<1>6. i' \in 0 .. arg.psize
  BY <1>1, <1>2
<1>7. TypeInv'
  BY <1>1, <1>5, <1>6 DEF WalkInv, TypeInv, InL2, Reading
<1>8. FrameInv'
  BY <1>1 DEF FrameInv, Reading, InL2
<1>9. CopyInv'
  BY <1>1 DEF WalkInv, CopyInv, Explained, Real, Reading
<1>10. PlaceInv'
  BY <1>1 DEF WalkInv, PlaceInv, Reading, InL2, LastPage, L1Base
<1> QED BY <1>5, <1>7, <1>8, <1>9, <1>10 DEF WalkInv

LEMMA ReadTableStep ==
  ASSUME WalkInv, ReadTable
  PROVE  WalkInv'
<1> DEFINE base == L1Entry.base * L2Count
<1>1. /\ pc = "l1" /\ pc' = "chunk" /\ j' = 0 /\ L1Entry.lo = 1 /\ AtEntry
      /\ data2' = Filled(PageWords, Ones)
      /\ rd' = Frame("l2", base, PageWords)
      /\ UNCHANGED <<mem, writes, held, arg, injected, scratch, data, i, lines,
                     fails, stale, rpc>>
  BY DEF ReadTable, AtEntry, kernel, regionVars
<1>2. L1Entry \in Descs /\ i < PageWords /\ i < arg.psize
  BY <1>1, AtLevelOne
<1>3. base \in Nat
  <2>1. L1Entry.base \in Nat
    BY <1>2, WalkerAssumption DEF Descs
  <2> QED BY <2>1, Geometry, ProductNat
<1> HIDE DEF base
<1>4. /\ rd' \in FrameType
      /\ rd'.who = "l2" /\ rd'.base = base /\ rd'.total = PageWords
      /\ rd'.sofar = 0 /\ rd'.poked = 0
  BY <1>1, <1>3, Geometry, NewFrame
<1>5. data2' \in [1 .. PageWords -> CopyType]
  <2>1. Ones \in Descs
    BY WalkerAssumption DEF Ones, Descs
  <2>2. [at |-> -1, what |-> Ones] \in CopyType
    BY <2>1, Geometry DEF CopyType
  <2> QED BY <1>1, <2>2 DEF Filled
<1>6. TypeInv'
  <2>1. j' \in 0 .. L2Count
    BY <1>1, Geometry
  <2> QED BY <1>1, <1>4, <1>5, <2>1 DEF WalkInv, TypeInv, InL2, Reading
<1>7. FrameInv'
  <2>1. OfEntry'
    BY <1>1, <1>2, <1>4 DEF OfEntry, L1Entry, base
  <2> QED BY <1>1, <1>4, <2>1, Geometry DEF FrameInv, Reading, InL2
<1>8. CopyInv'
  BY <1>1, <1>4 DEF WalkInv, CopyInv, Explained, Real, Reading
<1>9. PlaceInv'
  BY <1>1, <1>4 DEF WalkInv, PlaceInv, Reading, InL2, LastPage, L1Base
<1>10. LinesExplained'
  BY <1>1, LinesKept
<1> QED BY <1>6, <1>7, <1>8, <1>9, <1>10 DEF WalkInv

LEMMA SkipPageStep ==
  ASSUME WalkInv, SkipPage
  PROVE  WalkInv'
<1>1. /\ pc = "l2" /\ pc' = "l2" /\ j' = j + 1 /\ AtSmallEntry
      /\ UNCHANGED <<mem, writes, held, arg, injected, rd, scratch, data, data2,
                     i, lines, fails, stale, rpc>>
  BY DEF SkipPage, AtSmallEntry, kernel, regionVars
<1>2. j' \in 0 .. L2Count
  BY <1>1, AtLevelTwo, Geometry
<1>3. TypeInv'
  BY <1>1, <1>2 DEF WalkInv, TypeInv, InL2, Reading
<1>4. FrameInv'
  BY <1>1 DEF WalkInv, FrameInv, Reading, InL2, OfEntry
<1>5. CopyInv'
  BY <1>1 DEF WalkInv, CopyInv, Explained, Real, Reading
<1>6. PlaceInv'
  BY <1>1 DEF WalkInv, PlaceInv, Reading, InL2, LastPage, L1Base
<1>7. LinesExplained'
  BY <1>1, LinesKept
<1> QED BY <1>3, <1>4, <1>5, <1>6, <1>7 DEF WalkInv

LEMMA ShowPageStep ==
  ASSUME WalkInv, ShowPage
  PROVE  WalkInv'
<1> DEFINE kind == IF L2Entry.lo = 1 THEN "large" ELSE "small"
           line == Line(kind, PageVirt(i, j), data2[j + 1])
<1>1. /\ pc = "l2" /\ pc' = "l2" /\ j' = j + 1 /\ L2Entry.lo # 0
      /\ AtSmallEntry /\ Show(line)
      /\ UNCHANGED <<mem, writes, held, arg, injected, rd, scratch, data, data2,
                     i, fails, stale, rpc>>
  BY DEF ShowPage, AtSmallEntry, kernel, regionVars
<1>2. /\ OfEntry /\ i \in Nat /\ j \in 0 .. L2Count - 1
      /\ data2[j + 1] \in CopyType /\ Explained(data2[j + 1])
      /\ data[i + 1] \in CopyType /\ Explained(data[i + 1])
      /\ ~ stale => data2[j + 1].at = rd.base + j /\ data[i + 1].at = LastPage + i
  BY <1>1, AtLevelTwo
<1>3. Real(data2[j + 1]) /\ Real(data[i + 1])
  <2>1. data2[j + 1].what.lo # 0 /\ data[i + 1].what.lo # 0
    BY <1>1, <1>2 DEF L2Entry, OfEntry
  <2> QED BY <1>2, <2>1, ExplainedType
<1>4. /\ line \in LineType
      /\ line.word = data2[j + 1] /\ line.l1 = i /\ line.virt = PageVirt(i, j)
      /\ line.kind \notin {"section", "super"}
  <2>1. PageVirt(i, j) \in Nat
    <3>1. arg \in ArgType /\ j \in Nat
      BY <1>2, Geometry DEF WalkInv, TypeInv
    <3> QED BY <1>2, <3>1, VirtNat
  <2>2. kind \in {"large", "small"}
    OBVIOUS
  <2> HIDE DEF kind
  <2> QED BY <1>2, <2>1, <2>2 DEF Line, LineType
<1> HIDE DEF line
<1>5. ASSUME ~ stale PROVE line.word.at \in PlaceOf(line)
  <2> DEFINE d == data[i + 1].what
  <2>1. d \in L1HeldAt(i) /\ d.lo = 1 /\ rd.base = d.base * L2Count
    BY <1>2, <1>3, <1>5 DEF L1HeldAt, Real, OfEntry
  <2>2. j \in {n \in 0 .. L2Count - 1 : PageVirt(i, n) = line.virt}
    BY <1>2, <1>4
  <2>3. line.word.at = d.base * L2Count + j
    BY <1>2, <1>4, <1>5, <2>1
  <2> HIDE DEF d
  <2> QED BY <1>4, <2>1, <2>2, <2>3 DEF PlaceOf
<1>6. lines' \in Seq(LineType) /\ LinesExplained'
  BY <1>1, <1>2, <1>3, <1>4, <1>5, ShowStep DEF OfEntry
<1>7. j' \in 0 .. L2Count
  BY <1>1, <1>2, Geometry
<1>8. TypeInv'
  BY <1>1, <1>6, <1>7 DEF WalkInv, TypeInv, InL2, Reading
<1>9. FrameInv'
  BY <1>1, <1>2 DEF FrameInv, Reading, InL2, OfEntry
<1>10. CopyInv'
  BY <1>1 DEF WalkInv, CopyInv, Explained, Real, Reading
<1>11. PlaceInv'
  BY <1>1 DEF WalkInv, PlaceInv, Reading, InL2, LastPage, L1Base
<1> QED BY <1>6, <1>8, <1>9, <1>10, <1>11 DEF WalkInv

LEMMA TableEndStep ==
  ASSUME WalkInv, TableEnd
  PROVE  WalkInv'
<1>1. /\ pc = "l2" /\ pc' = "l1" /\ i' = i + 1
      /\ UNCHANGED <<mem, writes, held, arg, injected, rd, scratch, data, data2,
                     j, lines, fails, stale, rpc>>
  BY DEF TableEnd, kernel, regionVars
<1>2. i' \in 0 .. arg.psize
  <2>1. i < arg.psize
    BY <1>1 DEF WalkInv, FrameInv, InL2, OfEntry
  <2>2. i \in 0 .. arg.psize /\ arg.psize \in Nat
    BY SizesNat DEF WalkInv, TypeInv
  <2> QED BY <1>1, <2>1, <2>2
<1>3. TypeInv'
  BY <1>1, <1>2 DEF WalkInv, TypeInv, InL2, Reading
<1>4. FrameInv'
  BY <1>1 DEF FrameInv, Reading, InL2
<1>5. CopyInv'
  BY <1>1 DEF WalkInv, CopyInv, Explained, Real, Reading
<1>6. PlaceInv'
  BY <1>1 DEF WalkInv, PlaceInv, Reading, InL2, LastPage, L1Base
<1>7. LinesExplained'
  BY <1>1, LinesKept
<1> QED BY <1>3, <1>4, <1>5, <1>6, <1>7 DEF WalkInv

LEMMA DoneStep ==
  ASSUME WalkInv, Done
  PROVE  WalkInv'
<1> USE DEF Done, kernel, frames
<1>1. TypeInv'
  BY DEF WalkInv, TypeInv, InL2, Reading, regionVars
<1>2. FrameInv' /\ PlaceInv'
  BY DEF FrameInv, PlaceInv, Reading, InL2
<1>3. CopyInv'
  BY DEF WalkInv, CopyInv, Explained, Real, Reading
<1>4. LinesExplained'
  BY LinesKept
<1> QED BY <1>1, <1>2, <1>3, <1>4 DEF WalkInv

(* A store of the kernel: what memory has held only grows.                 *)
LEMMA OSWriteStep ==
  ASSUME WalkInv, OSWrite
  PROVE  WalkInv'
<1>1. PICK w \in Words, d \in NewDescs :
        /\ mem' = [mem EXCEPT ![w] = d]
        /\ held' = [held EXCEPT ![w] = @ \cup {d}]
  BY DEF OSWrite
<1>2. /\ writes < MaxWrites /\ writes' = writes + 1
      /\ UNCHANGED <<arg, injected, pc, rd, scratch, data, data2, i, j, lines,
                     fails, stale, rpc>>
  BY DEF OSWrite, frames, regionVars
<1>3. /\ mem \in [Words -> Descs] /\ held \in [Words -> SUBSET Descs]
      /\ \A x \in Words : mem[x] \in held[x]
      /\ d \in Descs
  BY WalkerAssumption DEF WalkInv, TypeInv
<1>4. /\ mem' \in [Words -> Descs] /\ held' \in [Words -> SUBSET Descs]
      /\ \A x \in Words : mem'[x] \in held'[x] /\ held[x] \subseteq held'[x]
  BY <1>1, <1>3
<1>5. writes' \in 0 .. MaxWrites
  BY <1>2, Geometry DEF WalkInv, TypeInv
<1>6. TypeInv'
  BY <1>2, <1>4, <1>5 DEF WalkInv, TypeInv, InL2, Reading
<1>7. FrameInv'
  BY <1>2 DEF WalkInv, FrameInv, Reading, InL2, OfEntry, L1Base
<1>8. CopyInv'
  BY <1>2, <1>4 DEF WalkInv, CopyInv, Explained, Real, Reading
<1>9. PlaceInv'
  BY <1>2 DEF WalkInv, PlaceInv, Reading, InL2, LastPage, L1Base, Buffer
<1>10. LinesExplained'
  BY <1>2, <1>4, LinesStay DEF WalkInv
<1> QED BY <1>6, <1>7, <1>8, <1>9, <1>10 DEF WalkInv

(* A question of the search, a change of the map, and no step at all.      *)
LEMMA OtherStep ==
  ASSUME WalkInv, UNCHANGED <<pc, frames, kernel>>,
         rpc' = rpc \/ rpc = "looking"
  PROVE  WalkInv'
<1> USE DEF frames, kernel
<1>1. rpc' # "idle" => pc = "ask"
  BY DEF WalkInv, TypeInv
<1>2. TypeInv'
  BY <1>1 DEF WalkInv, TypeInv, InL2, Reading
<1>3. FrameInv'
  BY DEF WalkInv, FrameInv, Reading, InL2, OfEntry, L1Base
<1>4. CopyInv'
  BY DEF WalkInv, CopyInv, Explained, Real, Reading
<1>5. PlaceInv'
  BY DEF WalkInv, PlaceInv, Reading, InL2, LastPage, L1Base, Buffer
<1>6. LinesExplained'
  BY LinesKept
<1> QED BY <1>2, <1>3, <1>4, <1>5, <1>6 DEF WalkInv

-----------------------------------------------------------------------------
(* Theorems                                                                *)

LEMMA SearchingStep ==
  ASSUME WalkInv, Searching
  PROVE  WalkInv'
<1>1. UNCHANGED <<pc, frames, kernel>> /\ rpc = "looking"
  BY DEF Searching, Search, NoRegion, TakeLarge, LastRegion, NextRegion,
         MapChanges, Looking
<1> QED BY <1>1, OtherStep

LEMMA WalkStep == WalkInv /\ [Next]_vars => WalkInv'
<1> SUFFICES ASSUME WalkInv, [Next]_vars PROVE WalkInv'
  OBVIOUS
<1>1. CASE Walk
  BY <1>1, GiveUpStep, DumpPagetableStep, NextChunkStep, SystemCallStep,
     PokeWordStep, PokeDoneStep, PokeFailsStep, PokePanicsStep,
     ReadFirstHalfStep, ReadSecondHalfStep, ReadFailsStep, ReadReturnsStep,
     SkipEntryStep, ShowSectionStep, ReadTableStep, SkipPageStep,
     ShowPageStep, TableEndStep, DoneStep
     DEF Walk
<1>2. CASE Searching
  BY <1>2, SearchingStep
<1>3. CASE OSWrite
  BY <1>3, OSWriteStep
<1>4. CASE Finished \/ UNCHANGED vars
  <2>1. UNCHANGED <<pc, frames, kernel>> /\ rpc' = rpc
    BY <1>4 DEF Finished, vars, frames, kernel
  <2> QED BY <2>1, OtherStep
<1> QED BY <1>1, <1>2, <1>3, <1>4 DEF Next

LEMMA WalkInvariant == Spec => []WalkInv
<1>1. Init => WalkInv
  BY WalkInit
<1>2. WalkInv /\ [Next]_vars => WalkInv'
  BY WalkStep
<1> QED BY <1>1, <1>2, PTL DEF Spec

(* Every line of every walk shows a word that physical memory held: in the *)
(* walker of ptwalker.c the results that loopread and poke_mem ignore, the *)
(* kernel's stores in between and tables outside memory never make it show *)
(* anything else; and with every page copied, the word is from its place   *)
(* in the last page of the level-1 table or a table that page pointed to.  *)
THEOREM LinesCorrect == Spec => []LinesExplained
<1>1. WalkInv => LinesExplained
  BY DEF WalkInv
<1> QED BY <1>1, WalkInvariant, PTL

LEMMA SearchInvariant == Spec => []SearchInv
<1>1. Init => SearchInv
  BY SearchInit DEF Init
<1>2. SearchInv /\ [Next]_vars => SearchInv'
  <2> SUFFICES ASSUME SearchInv, [Next]_vars PROVE SearchInv'
    OBVIOUS
  <2>1. CallRegion \/ Search \/ MapChanges \/ EndCall \/ UNCHANGED regionVars
    <3>1. CASE Walk
      BY <3>1 DEF Walk, GiveUp, DumpPagetable, NextChunk, SystemCall, PokeWord,
         PokeDone, PokeFails, PokePanics, ReadFirstHalf, ReadSecondHalf,
         ReadFails, ReadReturns, SkipEntry, ShowSection, ReadTable, SkipPage,
         ShowPage, TableEnd, Done
    <3>2. CASE Searching
      BY <3>2 DEF Searching
    <3>3. CASE OSWrite
      BY <3>3 DEF OSWrite
    <3>4. CASE Finished \/ UNCHANGED vars
      BY <3>4 DEF Finished, vars, regionVars
    <3> QED BY <3>1, <3>2, <3>3, <3>4 DEF Next
  <2> QED BY <2>1, SearchStep
<1> QED BY <1>1, <1>2, PTL DEF Spec

(* The address that get_kernel_region_tfp gives the walker is that of a    *)
(* large region there was during its search, and the lowest one if the map *)
(* did not change, for every map and every change of it.                   *)
THEOREM RegionCorrect == Spec => []RegionIsFirstLarge
BY SearchInvariant, SearchGivesFirstLarge, PTL

(* Every variable of the walker keeps its type, so that no copy leaves the *)
(* buffers of main and dump_pagetable, whatever size was asked for.        *)
THEOREM TypeCorrect == Spec => []TypeOK
<1>1. WalkInv /\ SearchInv => TypeOK
  BY DEF WalkInv, TypeInv, SearchInv, TypeOK
<1> QED BY <1>1, WalkInvariant, SearchInvariant, PTL

-----------------------------------------------------------------------------
(* The listing of a walk that nothing disturbed                            *)

(* A word that no store has changed has held one descriptor.               *)
HeldInv == writes = 0 => \A w \in Words : held[w] = {mem[w]}

(* The walk has come past the m-th page of the n-th section.               *)
Passed(n, m) == n < i \/ (n = i /\ InL2 /\ m < j)

(* The lines for a page are the one that the tables give, or none.         *)
ShownRight(n, m) ==
  \/ ShownFor(n, m) = {} /\ Translation(n, m) = {}
  \/ \E k \in DOMAIN lines :
       /\ ShownFor(n, m) = {k}
       /\ Translation(n, m) = {lines[k].word.what}

Listed(n, m) ==
  IF Passed(n, m) THEN ShownRight(n, m) ELSE ShownFor(n, m) = {}

Undisturbed ==
  /\ writes = 0 /\ ~ stale
  /\ pc \notin {"main", "failed", "panicked"} /\ data # <<>>

ListInv ==
  /\ pc = "main" => data = <<>> /\ lines = <<>> /\ i = 0
  /\ pc = "ended" => data = <<>> \/ i = arg.psize
  /\ Undisturbed =>
       \A n \in 0 .. PageWords - 1, m \in 0 .. L2Count - 1 : Listed(n, m)

ListingInv == WalkInv /\ HeldInv /\ ListInv

LEMMA Division ==
  ASSUME NEW a \in Nat, NEW v \in Nat \ {0}
  PROVE  /\ a \div v \in Int /\ a % v \in Int
         /\ a = v * (a \div v) + (a % v)
OBVIOUS

(* Less than the modulus apart, two numbers have different remainders.     *)
LEMMA RemaindersDiffer ==
  ASSUME NEW a \in Nat, NEW b \in Nat, NEW v \in Nat \ {0}, a < b, b - a < v
  PROVE  a % v # b % v
<1> DEFINE p == a \div v
           q == b \div v
<1>1. /\ p \in Int /\ q \in Int /\ a % v \in Int /\ b % v \in Int
      /\ a = v * p + (a % v) /\ b = v * q + (b % v)
  BY Division
<1> SUFFICES ASSUME a % v = b % v PROVE FALSE
  OBVIOUS
<1> HIDE DEF p, q
<1>2. v * q - v * p = b - a
  BY <1>1
<1>3. v * (q - p) = b - a
  BY <1>1, <1>2
<1>4. PICK d \in Int : d = q - p
  BY <1>1
<1>5. d <= 0 => v * d <= 0
  BY <1>4
<1>6. d >= 1 => v * d >= v
  BY <1>4
<1> QED BY <1>3, <1>4, <1>5, <1>6

LEMMA PagesDiffer ==
  ASSUME arg \in ArgType, NEW n \in Nat,
         NEW m \in 0 .. L2Count - 1, NEW k \in 0 .. L2Count - 1,
         PageVirt(n, m) = PageVirt(n, k)
  PROVE  m = k
<1> DEFINE a == arg.base + n * L2Count
<1>1. a \in Nat
  <2>1. n * L2Count \in Nat
    BY Geometry, ProductNat
  <2> QED BY <2>1 DEF ArgType
<1>2. L2Count \in Nat /\ L2Count <= VASize /\ VASize \in Nat \ {0}
  <2>1. L1Words * L2Count >= L2Count
    BY Geometry
  <2> QED BY <2>1, Geometry, VASizePositive DEF VASize
<1>3. (a + m) % VASize = (a + k) % VASize
  BY DEF PageVirt
<1> HIDE DEF a
<1>4. /\ a + m \in Nat /\ a + k \in Nat /\ m \in Nat /\ k \in Nat
      /\ m < k => a + m < a + k /\ (a + k) - (a + m) < VASize
      /\ k < m => a + k < a + m /\ (a + m) - (a + k) < VASize
  BY <1>1, <1>2
<1>5. ~ (m < k)
  BY <1>2, <1>3, <1>4, RemaindersDiffer
<1>6. ~ (k < m)
  BY <1>2, <1>3, <1>4, RemaindersDiffer
<1> QED BY <1>4, <1>5, <1>6

(* In a walk without stores, the buffers hold what memory holds.           *)
LEMMA LevelOneIsMemory ==
  ASSUME WalkInv, HeldInv, writes = 0, ~ stale, pc = "l1" \/ InL2,
         NEW n \in 0 .. PageWords - 1
  PROVE  data[n + 1].what = mem[LastPage + n] /\ mem[LastPage + n] \in Descs
<1>1. n + 1 \in 1 .. PageWords /\ n \in Nat
  BY Geometry
<1>2. LastPage \in Nat
  <2>1. /\ arg \in ArgType /\ arg.psize \in Nat /\ PageWords <= arg.psize
    BY SizesNat DEF WalkInv, TypeInv
  <2>2. L1Base \in Nat
    BY <2>1, TableBaseNat DEF L1Base
  <2> QED BY <2>1, <2>2, Geometry DEF LastPage
<1>3. data[n + 1].at = LastPage + (n + 1) - 1
  BY <1>1 DEF WalkInv, PlaceInv
<1>4. data[n + 1].at = LastPage + n /\ data[n + 1].at # -1
  BY <1>1, <1>2, <1>3
<1>5. Explained(data[n + 1])
  <2>1. pc \notin {"main", "ended"}
    BY DEF InL2, Reading
  <2>2. n + 1 \in 1 .. arg.psize
    <3>1. arg.psize \in Nat /\ PageWords <= arg.psize
      BY SizesNat DEF WalkInv, TypeInv
    <3> QED BY <1>1, <3>1, Geometry
  <2> QED BY <2>1, <2>2 DEF WalkInv, CopyInv
<1>6. Real(data[n + 1])
  BY <1>4, <1>5 DEF Explained
<1> QED BY <1>4, <1>6 DEF Real, HeldInv, WalkInv, TypeInv

LEMMA LevelTwoIsMemory ==
  ASSUME WalkInv, HeldInv, writes = 0, ~ stale, AtSmallEntry
  PROVE  L2Entry = mem[rd.base + j] /\ mem[rd.base + j] \in Descs
<1>1. /\ j \in 0 .. L2Count - 1 /\ data2[j + 1].at = rd.base + j
      /\ Explained(data2[j + 1])
  BY AtLevelTwo
<1>2. rd.base \in Nat /\ j \in Nat
  BY <1>1, Geometry DEF WalkInv, TypeInv, FrameType
<1>3. data2[j + 1].at # -1
  BY <1>1, <1>2
<1>4. Real(data2[j + 1])
  BY <1>1, <1>3 DEF Explained
<1> QED BY <1>1, <1>4 DEF Real, HeldInv, WalkInv, TypeInv, L2Entry

(* Lines, memory and arguments decide what is shown and what should be.    *)
LEMMA ShownStays ==
  ASSUME UNCHANGED <<lines, mem, arg>>, NEW n, NEW m
  PROVE  /\ ShownFor(n, m)' = ShownFor(n, m)
         /\ Translation(n, m)' = Translation(n, m)
         /\ ShownRight(n, m)' <=> ShownRight(n, m)
<1>1. ShownFor(n, m)' = ShownFor(n, m)
  BY DEF ShownFor, SectionVirt, PageVirt
<1>2. Translation(n, m)' = Translation(n, m)
  BY DEF Translation, LastPage, L1Base
<1> QED BY <1>1, <1>2 DEF ShownRight

LEMMA ListedStays ==
  ASSUME UNCHANGED <<lines, mem, arg>>, NEW n, NEW m,
         Passed(n, m)' <=> Passed(n, m), Listed(n, m)
  PROVE  Listed(n, m)'
BY ShownStays DEF Listed

(* A step that adds no line and passes no page.                            *)
LEMMA ListKept ==
  ASSUME ListInv, UNCHANGED <<lines, mem, arg, i>>,
         ~ Undisturbed' \/ (Undisturbed /\ (InL2' <=> InL2) /\ j' = j),
         pc' # "main", pc' = "ended" => data' = <<>> \/ i = arg.psize
  PROVE  ListInv'
<1> SUFFICES ASSUME Undisturbed',
                    NEW n \in 0 .. PageWords - 1, NEW m \in 0 .. L2Count - 1
             PROVE  Listed(n, m)'
  BY DEF ListInv
<1>1. Passed(n, m)' <=> Passed(n, m)
  BY DEF Passed
<1>2. Listed(n, m)
  BY DEF ListInv
<1> QED BY <1>1, <1>2, ListedStays

-----------------------------------------------------------------------------
(* A line is shown for the pages that it matches.                          *)

Matches(line, n, m) ==
  /\ line.l1 = n
  /\ \/ line.kind \in {"section", "super"} /\ line.virt = SectionVirt(n)
     \/ line.kind \in {"small", "large"} /\ line.virt = PageVirt(n, m)

LEMMA ShownMatches ==
  ASSUME NEW n, NEW m
  PROVE  ShownFor(n, m) = {k \in DOMAIN lines : Matches(lines[k], n, m)}
BY DEF ShownFor, Matches

LEMMA OtherLine ==
  ASSUME lines \in Seq(LineType), NEW line \in LineType, Show(line),
         UNCHANGED <<mem, arg>>, NEW n, NEW m, ~ Matches(line, n, m)
  PROVE  /\ ShownFor(n, m)' = ShownFor(n, m)
         /\ ShownRight(n, m) => ShownRight(n, m)'
<1>1. /\ DOMAIN lines' = DOMAIN lines \cup {Len(lines) + 1}
      /\ lines'[Len(lines) + 1] = line
      /\ \A k \in DOMAIN lines : lines'[k] = lines[k]
  BY Appending DEF Show
<1>2. ASSUME NEW l PROVE Matches(l, n, m)' <=> Matches(l, n, m)
  BY DEF Matches, SectionVirt, PageVirt
<1>3. ShownFor(n, m)' = {k \in DOMAIN lines' : Matches(lines'[k], n, m)}
  BY DEF ShownFor, Matches, SectionVirt, PageVirt
<1>4. ShownFor(n, m)' = ShownFor(n, m)
  BY <1>1, <1>3, ShownMatches
<1>5. Translation(n, m)' = Translation(n, m)
  BY DEF Translation, LastPage, L1Base
<1> QED BY <1>1, <1>4, <1>5 DEF ShownRight

LEMMA FirstLine ==
  ASSUME lines \in Seq(LineType), NEW line \in LineType, Show(line),
         UNCHANGED <<mem, arg>>, NEW n, NEW m, Matches(line, n, m),
         ShownFor(n, m) = {}, Translation(n, m) = {line.word.what}
  PROVE  ShownRight(n, m)'
<1>1. /\ DOMAIN lines' = DOMAIN lines \cup {Len(lines) + 1}
      /\ lines'[Len(lines) + 1] = line
      /\ \A k \in DOMAIN lines : lines'[k] = lines[k]
  BY Appending DEF Show
<1>2. ShownFor(n, m)' = {k \in DOMAIN lines' : Matches(lines'[k], n, m)}
  BY DEF ShownFor, Matches, SectionVirt, PageVirt
<1>3. ShownFor(n, m)' = {Len(lines) + 1}
  BY <1>1, <1>2, ShownMatches
<1>4. Translation(n, m)' = Translation(n, m)
  BY DEF Translation, LastPage, L1Base
<1> QED BY <1>1, <1>3, <1>4 DEF ShownRight

-----------------------------------------------------------------------------
(* The steps that pass a page of the listing                               *)

LEMMA ListSkipEntry ==
  ASSUME ListingInv, SkipEntry
  PROVE  ListInv'
<1>1. /\ pc = "l1" /\ pc' = "l1" /\ i' = i + 1 /\ AtEntry
      /\ L1Entry.lo \in {0, 3}
      /\ UNCHANGED <<mem, writes, arg, data, j, lines, stale>>
  BY DEF SkipEntry, AtEntry, kernel
<1> SUFFICES ASSUME Undisturbed',
                    NEW n \in 0 .. PageWords - 1, NEW m \in 0 .. L2Count - 1
             PROVE  Listed(n, m)'
  BY <1>1 DEF ListInv
<1>2. Undisturbed /\ Listed(n, m)
  BY <1>1 DEF Undisturbed, ListingInv, ListInv
<1>3. i \in Nat /\ n \in Nat
  BY <1>1, AtLevelOne, Geometry DEF ListingInv
<1>4. Passed(n, m)' <=> n < i + 1
  BY <1>1 DEF Passed, InL2, Reading
<1>5. Passed(n, m) <=> n < i
  BY <1>1 DEF Passed, InL2, Reading
<1>6. CASE n = i
  <2>1. data[i + 1].what = mem[LastPage + i]
    BY <1>1, <1>2, <1>6, LevelOneIsMemory DEF ListingInv, Undisturbed
  <2>2. Translation(n, m) = {}
    BY <1>1, <1>6, <2>1 DEF Translation, L1Entry
  <2>3. ShownFor(n, m) = {}
    BY <1>2, <1>3, <1>5, <1>6 DEF Listed
  <2>4. ShownRight(n, m)'
    BY <1>1, <2>2, <2>3, ShownStays DEF ShownRight
  <2> QED BY <1>3, <1>4, <1>6, <2>4 DEF Listed
<1>7. CASE n # i
  <2>1. Passed(n, m)' <=> Passed(n, m)
    BY <1>3, <1>4, <1>5, <1>7
  <2> QED BY <1>1, <1>2, <2>1, ListedStays
<1> QED BY <1>6, <1>7

LEMMA ListShowSection ==
  ASSUME ListingInv, ShowSection
  PROVE  ListInv'
<1> DEFINE kind == IF L1Entry.super THEN "super" ELSE "section"
           line == Line(kind, SectionVirt(i), data[i + 1])
<1>1. /\ pc = "l1" /\ pc' = "l1" /\ i' = i + 1 /\ L1Entry.lo = 2
      /\ AtEntry /\ Show(line)
      /\ UNCHANGED <<mem, writes, arg, data, j, stale>>
  BY DEF ShowSection, AtEntry, kernel
<1> SUFFICES ASSUME Undisturbed',
                    NEW n \in 0 .. PageWords - 1, NEW m \in 0 .. L2Count - 1
             PROVE  Listed(n, m)'
  BY <1>1 DEF ListInv
<1>2. Undisturbed /\ Listed(n, m)
  BY <1>1 DEF Undisturbed, ListingInv, ListInv
<1>3. /\ i \in Nat /\ n \in Nat /\ data[i + 1] \in CopyType
      /\ lines \in Seq(LineType) /\ arg \in ArgType
  BY <1>1, AtLevelOne, Geometry DEF ListingInv, WalkInv, TypeInv
<1>4. /\ line \in LineType /\ line.word = data[i + 1] /\ line.l1 = i
      /\ line.kind \in {"section", "super"} /\ line.virt = SectionVirt(i)
  <2>1. SectionVirt(i) \in Nat
    BY <1>3, VirtNat
  <2>2. kind \in {"section", "super"}
    OBVIOUS
  <2> HIDE DEF kind
  <2> QED BY <1>3, <2>1, <2>2 DEF Line, LineType
<1> HIDE DEF line
<1>5. Passed(n, m)' <=> n < i + 1
  BY <1>1 DEF Passed, InL2, Reading
<1>6. Passed(n, m) <=> n < i
  BY <1>1 DEF Passed, InL2, Reading
<1>7. CASE n = i
  <2>1. data[i + 1].what = mem[LastPage + i]
    BY <1>1, <1>2, <1>7, LevelOneIsMemory DEF ListingInv, Undisturbed
  <2>2. Translation(n, m) = {line.word.what}
    BY <1>1, <1>4, <1>7, <2>1 DEF Translation, L1Entry
  <2>3. ShownFor(n, m) = {}
    BY <1>2, <1>3, <1>6, <1>7 DEF Listed
  <2>4. Matches(line, n, m)
    BY <1>4, <1>7 DEF Matches
  <2>5. ShownRight(n, m)'
    BY <1>1, <1>3, <1>4, <2>2, <2>3, <2>4, FirstLine
  <2> QED BY <1>3, <1>5, <1>7, <2>5 DEF Listed
<1>8. CASE n # i
  <2>1. Passed(n, m)' <=> Passed(n, m)
    BY <1>3, <1>5, <1>6, <1>8
  <2>2. ~ Matches(line, n, m)
    BY <1>4, <1>8 DEF Matches
  <2>3. /\ ShownFor(n, m)' = ShownFor(n, m)
        /\ ShownRight(n, m) => ShownRight(n, m)'
    BY <1>1, <1>3, <1>4, <2>2, OtherLine
  <2> QED BY <1>2, <2>1, <2>3 DEF Listed
<1> QED BY <1>7, <1>8

(* In a level-2 table, the entry that the tables give for a page.          *)
LEMMA TableTranslation ==
  ASSUME ListingInv, Undisturbed, AtSmallEntry
  PROVE  Translation(i, j) = {d \in {L2Entry} : d.lo # 0}
<1>1. OfEntry /\ i \in 0 .. PageWords - 1 /\ InL2
  BY AtLevelTwo, Geometry DEF ListingInv, OfEntry, AtSmallEntry, InL2
<1>2. data[i + 1].what = mem[LastPage + i]
  BY <1>1, LevelOneIsMemory DEF ListingInv, Undisturbed
<1>3. L2Entry = mem[rd.base + j]
  BY LevelTwoIsMemory DEF ListingInv, Undisturbed
<1>4. /\ mem[LastPage + i].lo = 1
      /\ rd.base = mem[LastPage + i].base * L2Count
  BY <1>1, <1>2 DEF OfEntry
<1> QED BY <1>3, <1>4 DEF Translation

LEMMA ListSkipPage ==
  ASSUME ListingInv, SkipPage
  PROVE  ListInv'
<1>1. /\ pc = "l2" /\ pc' = "l2" /\ j' = j + 1 /\ AtSmallEntry
      /\ L2Entry.lo = 0
      /\ UNCHANGED <<mem, writes, arg, data, i, lines, stale>>
  BY DEF SkipPage, AtSmallEntry, kernel
<1> SUFFICES ASSUME Undisturbed',
                    NEW n \in 0 .. PageWords - 1, NEW m \in 0 .. L2Count - 1
             PROVE  Listed(n, m)'
  BY <1>1 DEF ListInv
<1>2. Undisturbed /\ Listed(n, m)
  BY <1>1 DEF Undisturbed, ListingInv, ListInv
<1>3. i \in Nat /\ n \in Nat /\ j \in Nat /\ m \in Nat
  BY <1>1, AtLevelTwo, Geometry DEF ListingInv
<1>4. Passed(n, m)' <=> n < i \/ (n = i /\ m < j + 1)
  BY <1>1 DEF Passed, InL2, Reading
<1>5. Passed(n, m) <=> n < i \/ (n = i /\ m < j)
  BY <1>1 DEF Passed, InL2, Reading
<1>6. CASE n = i /\ m = j
  <2>1. Translation(n, m) = {}
    BY <1>1, <1>2, <1>6, TableTranslation
  <2>2. ShownFor(n, m) = {}
    BY <1>2, <1>3, <1>5, <1>6 DEF Listed
  <2>3. ShownRight(n, m)'
    BY <1>1, <2>1, <2>2, ShownStays DEF ShownRight
  <2> QED BY <1>3, <1>4, <1>6, <2>3 DEF Listed
<1>7. CASE ~ (n = i /\ m = j)
  <2>1. Passed(n, m)' <=> Passed(n, m)
    BY <1>3, <1>4, <1>5, <1>7
  <2> QED BY <1>1, <1>2, <2>1, ListedStays
<1> QED BY <1>6, <1>7

LEMMA ListShowPage ==
  ASSUME ListingInv, ShowPage
  PROVE  ListInv'
<1> DEFINE kind == IF L2Entry.lo = 1 THEN "large" ELSE "small"
           line == Line(kind, PageVirt(i, j), data2[j + 1])
<1>1. /\ pc = "l2" /\ pc' = "l2" /\ j' = j + 1 /\ L2Entry.lo # 0
      /\ AtSmallEntry /\ Show(line)
      /\ UNCHANGED <<mem, writes, arg, data, i, stale>>
  BY DEF ShowPage, AtSmallEntry, kernel
<1> SUFFICES ASSUME Undisturbed',
                    NEW n \in 0 .. PageWords - 1, NEW m \in 0 .. L2Count - 1
             PROVE  Listed(n, m)'
  BY <1>1 DEF ListInv
<1>2. Undisturbed /\ Listed(n, m)
  BY <1>1 DEF Undisturbed, ListingInv, ListInv
<1>3. /\ i \in Nat /\ n \in Nat /\ j \in 0 .. L2Count - 1
      /\ j \in Nat /\ m \in Nat
      /\ data2[j + 1] \in CopyType
      /\ lines \in Seq(LineType) /\ arg \in ArgType
  BY <1>1, AtLevelTwo, Geometry DEF ListingInv, WalkInv, TypeInv
<1>4. /\ line \in LineType /\ line.word = data2[j + 1] /\ line.l1 = i
      /\ line.kind \in {"small", "large"} /\ line.virt = PageVirt(i, j)
  <2>1. PageVirt(i, j) \in Nat
    BY <1>3, VirtNat
  <2>2. kind \in {"small", "large"}
    OBVIOUS
  <2> HIDE DEF kind
  <2> QED BY <1>3, <2>1, <2>2 DEF Line, LineType
<1> HIDE DEF line
<1>5. Passed(n, m)' <=> n < i \/ (n = i /\ m < j + 1)
  BY <1>1 DEF Passed, InL2, Reading
<1>6. Passed(n, m) <=> n < i \/ (n = i /\ m < j)
  BY <1>1 DEF Passed, InL2, Reading
<1>7. CASE n = i /\ m = j
  <2>1. Translation(n, m) = {line.word.what}
    BY <1>1, <1>2, <1>4, <1>7, TableTranslation DEF L2Entry
  <2>2. ShownFor(n, m) = {}
    BY <1>2, <1>3, <1>6, <1>7 DEF Listed
  <2>3. Matches(line, n, m)
    BY <1>4, <1>7 DEF Matches
  <2>4. ShownRight(n, m)'
    BY <1>1, <1>3, <1>4, <2>1, <2>2, <2>3, FirstLine
  <2> QED BY <1>3, <1>5, <1>7, <2>4 DEF Listed
<1>8. CASE ~ (n = i /\ m = j)
  <2>1. Passed(n, m)' <=> Passed(n, m)
    BY <1>3, <1>5, <1>6, <1>8
  <2>2. ~ Matches(line, n, m)
    <3>1. n = i => PageVirt(i, j) # PageVirt(n, m)
      BY <1>3, <1>8, PagesDiffer
    <3> QED BY <1>4, <3>1 DEF Matches
  <2>3. /\ ShownFor(n, m)' = ShownFor(n, m)
        /\ ShownRight(n, m) => ShownRight(n, m)'
    BY <1>1, <1>3, <1>4, <2>2, OtherLine
  <2> QED BY <1>2, <2>1, <2>3 DEF Listed
<1> QED BY <1>7, <1>8

LEMMA ListTableEnd ==
  ASSUME ListingInv, TableEnd
  PROVE  ListInv'
<1>1. /\ pc = "l2" /\ pc' = "l1" /\ i' = i + 1 /\ j = L2Count
      /\ UNCHANGED <<mem, writes, arg, data, j, lines, stale>>
  BY DEF TableEnd, kernel
<1> SUFFICES ASSUME Undisturbed',
                    NEW n \in 0 .. PageWords - 1, NEW m \in 0 .. L2Count - 1
             PROVE  Listed(n, m)'
  BY <1>1 DEF ListInv
<1>2. Undisturbed /\ Listed(n, m)
  BY <1>1 DEF Undisturbed, ListingInv, ListInv
<1>3. i \in Nat /\ n \in Nat /\ m \in Nat /\ m < L2Count
  BY SizesNat, Geometry DEF ListingInv, WalkInv, TypeInv
<1>4. Passed(n, m)' <=> n < i + 1
  BY <1>1 DEF Passed, InL2, Reading
<1>5. Passed(n, m) <=> n < i \/ (n = i /\ m < L2Count)
  BY <1>1 DEF Passed, InL2, Reading
<1>6. Passed(n, m)' <=> Passed(n, m)
  BY <1>3, <1>4, <1>5
<1> QED BY <1>1, <1>2, <1>6, ListedStays

LEMMA ListReadTable ==
  ASSUME ListingInv, ReadTable
  PROVE  ListInv'
<1>1. /\ pc = "l1" /\ pc' = "chunk" /\ j' = 0
      /\ UNCHANGED <<mem, writes, arg, data, i, lines, stale>>
  BY DEF ReadTable, AtEntry, kernel
<1> SUFFICES ASSUME Undisturbed',
                    NEW n \in 0 .. PageWords - 1, NEW m \in 0 .. L2Count - 1
             PROVE  Listed(n, m)'
  BY <1>1 DEF ListInv
<1>2. Undisturbed /\ Listed(n, m)
  BY <1>1 DEF Undisturbed, ListingInv, ListInv
<1>3. m \in Nat
  BY Geometry
<1>4. Passed(n, m)' <=> Passed(n, m)
  BY <1>1, <1>3 DEF Passed, InL2, Reading
<1> QED BY <1>1, <1>2, <1>4, ListedStays

LEMMA ListDumpPagetable ==
  ASSUME ListingInv, DumpPagetable
  PROVE  ListInv'
<1>1. /\ pc = "main" /\ pc' = "chunk" /\ lines' = <<>> /\ i' = 0
      /\ rd'.who = "l1"
  BY DEF DumpPagetable, Frame, ListingInv, ListInv
<1> SUFFICES ASSUME NEW n \in 0 .. PageWords - 1, NEW m \in 0 .. L2Count - 1
             PROVE  Listed(n, m)'
  BY <1>1 DEF ListInv
<1>2. ShownFor(n, m)' = {}
  BY <1>1 DEF ShownFor
<1>3. n \in Nat
  BY Geometry
<1>4. ~ Passed(n, m)'
  BY <1>1, <1>3 DEF Passed, InL2, Reading
<1> QED BY <1>2, <1>4 DEF Listed

-----------------------------------------------------------------------------
(* The steps that only read                                                *)

LEMMA BufferThere ==
  ASSUME WalkInv, pc \notin {"main", "ended"}
  PROVE  data # <<>>
<1>1. data \in [1 .. arg.psize -> CopyType]
  BY DEF WalkInv, TypeInv
<1>2. 1 \in DOMAIN data
  <2>1. arg.psize \in Nat \ {0}
    BY SizesNat DEF WalkInv, TypeInv
  <2>2. 1 \in 1 .. arg.psize
    BY <2>1
  <2> QED BY <1>1, <2>2
<1> QED BY <1>2

LEMMA ListReading ==
  ASSUME ListingInv,
         \/ NextChunk \/ SystemCall \/ PokeWord \/ PokeDone \/ PokeFails
         \/ PokePanics \/ ReadFirstHalf \/ ReadSecondHalf \/ ReadReturns
  PROVE  ListInv'
<1>1. rd.who \in {"l1", "l2"} /\ rd \in FrameType
  BY DEF ListingInv, WalkInv, TypeInv, FrameType
<1>2. UNCHANGED <<lines, mem, arg, i, j, writes>> /\ (stale => stale')
  <2>1. CASE NextChunk \/ PokeDone \/ PokePanics \/ ReadReturns
    BY <2>1 DEF NextChunk, PokeDone, PokePanics, ReadReturns, frames, kernel
  <2>2. CASE PokeWord \/ ReadFirstHalf \/ ReadSecondHalf
    BY <2>2 DEF PokeWord, ReadFirstHalf, ReadSecondHalf, kernel
  <2>3. CASE SystemCall
    BY <2>3 DEF SystemCall, kernel
  <2>4. CASE PokeFails
    BY <2>4 DEF PokeFails, kernel
  <2> QED BY <2>1, <2>2, <2>3, <2>4
<1>3. /\ Reading
      /\ pc' \in {"chunk", "ask", "poke", "half1", "half2", "panicked", rd.who}
  BY DEF NextChunk, SystemCall, PokeWord, PokeDone, PokeFails, PokePanics,
         ReadFirstHalf, ReadSecondHalf, ReadReturns, Reading
<1>4. rd'.who = rd.who
  BY <1>1 DEF NextChunk, SystemCall, PokeWord, PokeDone, PokeFails, PokePanics,
         ReadFirstHalf, ReadSecondHalf, ReadReturns, frames, FrameType
<1>5. pc' \in {"l1", "l2"} => pc' = rd.who
  BY <1>1, <1>3
<1>6. pc' # "panicked" => (InL2' <=> InL2)
  BY <1>1, <1>3, <1>4, <1>5 DEF InL2, Reading
<1>7. data # <<>>
  BY <1>3, BufferThere DEF Reading, ListingInv
<1>8. Undisturbed' => Undisturbed /\ pc' # "panicked"
  BY <1>2, <1>3, <1>7 DEF Undisturbed, Reading
<1>9. pc' \notin {"main", "ended"}
  BY <1>1, <1>3
<1> QED BY <1>2, <1>6, <1>8, <1>9, ListKept DEF ListingInv

LEMMA ListDone ==
  ASSUME ListingInv, Done
  PROVE  ListInv'
<1>1. /\ pc = "l1" /\ i = arg.psize /\ pc' = "ended"
      /\ UNCHANGED <<lines, mem, arg, i, j, writes, stale, data>>
  BY DEF Done, frames, kernel
<1>2. Undisturbed' => Undisturbed /\ (InL2' <=> InL2)
  BY <1>1 DEF Undisturbed, InL2, Reading
<1> QED BY <1>1, <1>2, ListKept DEF ListingInv

(* Failures: nothing is said of what was listed until then.                *)
LEMMA ListFails ==
  ASSUME ListingInv, GiveUp \/ ReadFails
  PROVE  ListInv'
<1>1. \/ pc' = "failed"
      \/ pc' = "ended" /\ data' = <<>>
  BY DEF GiveUp, ReadFails, ListingInv, ListInv
<1> QED BY <1>1 DEF ListInv, Undisturbed

LEMMA ListOSWrite ==
  ASSUME ListingInv, OSWrite
  PROVE  HeldInv' /\ ListInv'
<1>1. /\ writes' = writes + 1 /\ writes \in Nat
      /\ pc' \notin {"main", "ended"}
  BY Geometry DEF OSWrite, ListingInv, WalkInv, TypeInv
<1>2. writes' # 0
  BY <1>1
<1> QED BY <1>1, <1>2 DEF HeldInv, ListInv, Undisturbed

LEMMA ListOther ==
  ASSUME ListingInv, UNCHANGED <<pc, frames, kernel>>
  PROVE  ListInv'
<1>1. UNCHANGED <<pc, lines, mem, arg, i, j, writes, stale, data, rd>>
  BY DEF frames, kernel
<1>2. (Undisturbed' <=> Undisturbed) /\ (InL2' <=> InL2)
  BY <1>1 DEF Undisturbed, InL2, Reading
<1>3. CASE pc = "main"
  BY <1>1, <1>3 DEF ListingInv, ListInv, Undisturbed
<1>4. CASE pc # "main"
  BY <1>1, <1>2, <1>4, ListKept DEF ListingInv, ListInv
<1> QED BY <1>3, <1>4

LEMMA HeldKept ==
  ASSUME HeldInv, UNCHANGED kernel
  PROVE  HeldInv'
BY DEF HeldInv, kernel

LEMMA ListStep == ListingInv /\ [Next]_vars => ListingInv'
<1> SUFFICES ASSUME ListingInv, [Next]_vars PROVE HeldInv' /\ ListInv'
  BY WalkStep DEF ListingInv
<1>1. CASE Walk
  <2>1. UNCHANGED kernel
    BY <1>1 DEF Walk, GiveUp, DumpPagetable, NextChunk, SystemCall, PokeWord,
       PokeDone, PokeFails, PokePanics, ReadFirstHalf, ReadSecondHalf,
       ReadFails, ReadReturns, SkipEntry, ShowSection, ReadTable, SkipPage,
       ShowPage, TableEnd, Done
  <2>2. HeldInv'
    BY <2>1, HeldKept DEF ListingInv
  <2>3. ListInv'
    BY <1>1, ListFails, ListDumpPagetable, ListReading, ListSkipEntry,
       ListShowSection, ListReadTable, ListSkipPage, ListShowPage,
       ListTableEnd, ListDone
       DEF Walk
  <2> QED BY <2>2, <2>3
<1>2. CASE Searching \/ Finished \/ UNCHANGED vars
  <2>1. UNCHANGED <<pc, frames, kernel>>
    BY <1>2 DEF Searching, Finished, vars, frames, kernel
  <2> QED BY <2>1, HeldKept, ListOther DEF ListingInv
<1>3. CASE OSWrite
  BY <1>3, ListOSWrite
<1> QED BY <1>1, <1>2, <1>3 DEF Next

LEMMA ListInit == Init => ListingInv
<1> SUFFICES ASSUME Init PROVE HeldInv /\ ListInv
  BY WalkInit DEF ListingInv
<1>1. HeldInv
  BY DEF Init, HeldInv
<1>2. ListInv
  BY DEF Init, ListInv, Undisturbed
<1> QED BY <1>1, <1>2

(* At its end the walk has passed every page of a page of the table.       *)
LEMMA ListedAtEnd == ListingInv => ListingIsLastPage
<1> SUFFICES ASSUME ListingInv, pc = "ended", data # <<>>, writes = 0, ~ stale,
                    NEW n \in 0 .. PageWords - 1, NEW m \in 0 .. L2Count - 1
             PROVE  /\ {lines[k].word.what : k \in ShownFor(n, m)} = Translation(n, m)
                    /\ Cardinality(ShownFor(n, m)) <= 1
  BY DEF ListingIsLastPage
<1>1. i = arg.psize /\ Listed(n, m)
  BY DEF ListingInv, ListInv, Undisturbed
<1>2. n < i
  <2>1. arg.psize \in Nat /\ PageWords <= arg.psize
    BY SizesNat DEF ListingInv, WalkInv, TypeInv
  <2> QED BY <1>1, <2>1, Geometry
<1>3. ShownRight(n, m)
  BY <1>1, <1>2 DEF Listed, Passed
<1>4. CASE ShownFor(n, m) = {} /\ Translation(n, m) = {}
  BY <1>4, FS_EmptySet
<1>5. CASE \E k \in DOMAIN lines :
             /\ ShownFor(n, m) = {k}
             /\ Translation(n, m) = {lines[k].word.what}
  <2>1. PICK k \in DOMAIN lines :
          /\ ShownFor(n, m) = {k}
          /\ Translation(n, m) = {lines[k].word.what}
    BY <1>5
  <2>2. Cardinality({k}) = 1
    BY FS_Singleton
  <2> QED BY <2>1, <2>2
<1> QED BY <1>3, <1>4, <1>5 DEF ShownRight

(* A walk that no store of the kernel and no failed copy disturbed lists,  *)
(* at its end, each page of the last page of the level-1 table once, with  *)
(* the descriptor that the tables give, for every memory and every size:   *)
(* loopread's chunks, the two levels of dump_pagetable and the wrap-around *)
(* of its virtual addresses neither lose a page nor show one twice.        *)
THEOREM ListingCorrect == Spec => []ListingIsLastPage
<1>1. Init => ListingInv
  BY ListInit
<1>2. ListingInv /\ [Next]_vars => ListingInv'
  BY ListStep
<1>3. ListingInv => ListingIsLastPage
  BY ListedAtEnd
<1> QED BY <1>1, <1>2, <1>3, PTL DEF Spec
=============================================================================
