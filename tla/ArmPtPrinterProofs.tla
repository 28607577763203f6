------------------------- MODULE ArmPtPrinterProofs -------------------------
(***************************************************************************)
(* Theorems about ArmPtPrinter for every geometry of the tables, every     *)
(* memory and every bound: type correctness, the discipline of the two     *)
(* buffers, the order of the listing and the place of the TTBR0 lines,     *)
(* that the walk implements PageListing, that each line shows a word that  *)
(* was in the tables, and that the listing agrees with the translation.    *)
(***************************************************************************)
EXTENDS ArmPtPrinter, FiniteSetTheorems, TLAPS

(* What the loops rely on: a buffer that is being looped over is full, and *)
(* the index has not run past it.                                          *)
BuffersFull ==
  /\ pc \in {"tt_loop", "pt_read", "pt_loop", "pt_out"} =>
       Len(tt.buf) = tt.size /\ tt.i <= tt.size
  /\ pc = "tt_read" => tt.i = 0
  /\ InPT => tt.i < tt.size
  /\ pc = "pt_read" => pt.j = 0
  /\ pc = "pt_loop" => Len(pt.buf) = L2Count /\ pt.j <= L2Count

TypeInv == TypeOK /\ BuffersFull

-----------------------------------------------------------------------------
(* Euclidean division.                                                     *)
LEMMA DivMod ==
  ASSUME NEW l \in Nat, NEW k \in Nat \ {0}
  PROVE  (l \div k) \in Nat /\ l = k * (l \div k) + (l % k)
OBVIOUS

(* The number of entries chosen by the switch on TTBCR.N.                  *)
LEMMA TTWordsPositive ==
  ASSUME NEW n \in 0..MaxN
  PROVE  /\ TTWords(n) \in Nat \ {0}
         /\ TTWords(n) * 2^n = L1Count
         /\ TTWords(n) <= L1Count
<1> DEFINE k == 2^n
           q == L1Count \div k
<1>1. k \in Nat \ {0} /\ L1Count % k = 0 /\ L1Count \in Nat \ {0}
  BY GeometryAssumption
<1>2. q \in Int /\ L1Count = k * q + (L1Count % k)
  <2> HIDE DEF k
  <2> QED BY <1>1, DivMod
<1>3. q * k = L1Count
  BY <1>1, <1>2
<1>4. q > 0
  <2>1. SUFFICES ASSUME q <= 0 PROVE FALSE
    BY <1>2
  <2>2. q * k <= 0
    BY <2>1, <1>1, <1>2
  <2> QED BY <2>2, <1>1, <1>3
<1>5. q <= q * k
  BY <1>1, <1>2, <1>4
<1> QED BY <1>1, <1>2, <1>3, <1>4, <1>5 DEF TTWords

LEMMA TTBaseNat ==
  ASSUME NEW n \in 0..MaxN, NEW ttbr \in Nat
  PROVE  TTBase(ttbr, n) \in Nat
<1> DEFINE w == TTWords(n)
<1>1. w \in Nat \ {0}
  BY TTWordsPositive
<1> HIDE DEF w
<1>2. ttbr \div w \in Nat
  BY <1>1
<1>3. (ttbr \div w) * w \in Nat
  BY <1>1, <1>2
<1> QED BY <1>3 DEF TTBase, w

LEMMA VASizePositive == VASize \in Nat \ {0}
BY GeometryAssumption DEF VASize

LEMMA SectionVirtNat ==
  ASSUME NEW i \in Nat
  PROVE  SectionVirt(i) \in Nat
BY GeometryAssumption DEF SectionVirt

LEMMA SmallVirtNat ==
  ASSUME NEW voff \in Nat, NEW j \in Nat
  PROVE  SmallVirt(voff, j) \in Nat
BY VASizePositive DEF SmallVirt

LEMMA LargeVirtNat ==
  ASSUME NEW voff \in Nat, NEW j \in Nat
  PROVE  LargeVirt(voff, j) \in Nat
<1>1. j % LargeSpan \in Nat /\ j % LargeSpan <= j
  BY GeometryAssumption
<1>2. (j - (j % LargeSpan)) * LargeStep \in Nat
  BY <1>1, GeometryAssumption
<1> QED BY <1>2, VASizePositive DEF LargeVirt

-----------------------------------------------------------------------------
(* The updates of the two frames keep their types.                         *)
LEMMA FrameTTUpdates ==
  ASSUME NEW f \in FrameTT, NEW b \in Seq(Descs), NEW i \in Nat
  PROVE  /\ [f EXCEPT !.buf = b] \in FrameTT
         /\ [f EXCEPT !.i = i] \in FrameTT
         /\ [f EXCEPT !.i = i].i = i
         /\ [f EXCEPT !.i = i].size = f.size
         /\ [f EXCEPT !.i = i].buf = f.buf
         /\ [f EXCEPT !.i = i].ok = f.ok
         /\ [f EXCEPT !.i = i].table = f.table
         /\ [f EXCEPT !.i = i].voff = f.voff
BY DEF FrameTT

(* The next entry of the level-1 loop.                                     *)
LEMMA FrameTTStep ==
  ASSUME NEW f \in FrameTT
  PROVE  /\ [f EXCEPT !.i = f.i + 1] \in FrameTT
         /\ [f EXCEPT !.i = f.i + 1].i = f.i + 1
         /\ [f EXCEPT !.i = f.i + 1].size = f.size
         /\ [f EXCEPT !.i = f.i + 1].buf = f.buf
BY DEF FrameTT

LEMMA FrameTTFreed ==
  ASSUME NEW f \in FrameTT, NEW o \in BOOLEAN, NEW b \in Seq(Descs)
  PROVE  [f EXCEPT !.ok = o, !.buf = b] \in FrameTT
BY DEF FrameTT

LEMMA FramePTUpdates ==
  ASSUME NEW f \in FramePT, NEW b \in Seq(Descs), NEW j \in Nat
  PROVE  /\ [f EXCEPT !.buf = b] \in FramePT
         /\ [f EXCEPT !.j = j] \in FramePT
         /\ [f EXCEPT !.j = j].j = j
         /\ [f EXCEPT !.j = j].buf = f.buf
         /\ [f EXCEPT !.j = j].ok = f.ok
         /\ [f EXCEPT !.j = j].voff = f.voff
BY DEF FramePT

LEMMA FramePTStep ==
  ASSUME NEW f \in FramePT
  PROVE  /\ [f EXCEPT !.j = f.j + 1] \in FramePT
         /\ [f EXCEPT !.j = f.j + 1].j = f.j + 1
         /\ [f EXCEPT !.j = f.j + 1].buf = f.buf
BY DEF FramePT

(* What the loops take from a full buffer is a descriptor.                 *)
LEMMA EntryIsDesc ==
  ASSUME NEW b \in Seq(Descs), NEW k \in Nat, k < Len(b)
  PROVE  b[k + 1] \in Descs
OBVIOUS

(* A line printed for a descriptor keeps the listing well typed.           *)
LEMMA LinePrinted ==
  ASSUME NEW k \in Kinds, NEW v \in Nat, NEW d \in Descs,
         tt \in FrameTT, lines \in Seq(LineType)
  PROVE  Append(lines, Line(k, v, d)) \in Seq(LineType)
<1>1. Line(k, v, d) \in LineType
  BY DEF Line, LineType, FrameTT
<1> QED BY <1>1

LEMMA FramePTFreed ==
  ASSUME NEW f \in FramePT, NEW o \in BOOLEAN, NEW b \in Seq(Descs)
  PROVE  [f EXCEPT !.ok = o, !.buf = b] \in FramePT
BY DEF FramePT

-----------------------------------------------------------------------------
LEMMA TypeInvInit == Init => TypeInv
<1> SUFFICES ASSUME Init PROVE TypeInv
  OBVIOUS
<1>1. TypeOK
  BY GeometryAssumption, MemoryAssumption
  DEF Init, TypeOK, FrameTT, FramePT, IdleTT, IdlePT, Tables
<1>2. BuffersFull
  BY DEF Init, BuffersFull, InPT
<1> QED BY <1>1, <1>2 DEF TypeInv

LEMMA TypeInvNext == TypeInv /\ [Next]_vars => TypeInv'
<1> SUFFICES ASSUME TypeInv, [Next]_vars PROVE TypeInv'
  OBVIOUS
<1> USE DEF TypeInv, TypeOK, BuffersFull, InTT, InPT, envVars
<1>1. CASE RejectLpae
  BY <1>1 DEF RejectLpae
<1>2. CASE Accept
  BY <1>2 DEF Accept
<1>3. CASE CallTTBR0
  <2>1. PICK ok \in BOOLEAN :
          /\ Allocate(ok, TTWords(call.N))
          /\ tt' = [table |-> 0, size |-> TTWords(call.N),
                    base |-> TTBase(call.ttbr0, call.N),
                    voff |-> VirtOffset(0), ok |-> ok, i |-> 0, buf |-> <<>>]
          /\ pc' = "tt_read"
    BY <1>3 DEF CallTTBR0, EnterTT
  <2>2. call.N \in 0..MaxN /\ call.ttbr0 \in Nat
    BY DEF CallType
  <2>3. TTWords(call.N) \in Nat /\ TTBase(call.ttbr0, call.N) \in Nat
    BY <2>2, TTWordsPositive, TTBaseNat
  <2>4. tt' \in FrameTT
    BY <2>1, <2>3 DEF FrameTT, Tables, VirtOffset
  <2>5. live' \in Int /\ fails' \in 0..MaxFails
    BY <2>1, <2>3, MemoryAssumption DEF Allocate
  <2> QED BY <1>3, <2>1, <2>4, <2>5 DEF CallTTBR0
<1>4. CASE SkipTTBR0
  BY <1>4 DEF SkipTTBR0
<1>5. CASE CallTTBR1
  <2>1. PICK ok \in BOOLEAN :
          /\ Allocate(ok, TTWords(0))
          /\ tt' = [table |-> 1, size |-> TTWords(0),
                    base |-> TTBase(call.ttbr1, 0),
                    voff |-> VirtOffset(call.N), ok |-> ok, i |-> 0, buf |-> <<>>]
          /\ pc' = "tt_read"
    BY <1>5 DEF CallTTBR1, EnterTT
  <2>2. 0 \in 0..MaxN /\ call.ttbr1 \in Nat
    BY GeometryAssumption DEF CallType
  <2>3. TTWords(0) \in Nat /\ TTBase(call.ttbr1, 0) \in Nat
    BY <2>2, TTWordsPositive, TTBaseNat
  <2>4. tt' \in FrameTT
    BY <2>1, <2>3 DEF FrameTT, Tables, VirtOffset
  <2>5. live' \in Int /\ fails' \in 0..MaxFails
    BY <2>1, <2>3, MemoryAssumption DEF Allocate
  <2> QED BY <1>5, <2>1, <2>4, <2>5 DEF CallTTBR1
<1>6. CASE SkipTTBR1
  BY <1>6 DEF SkipTTBR1
<1>7. CASE TTReadWord
  <2>1. mem[tt.base + Len(tt.buf)] \in Descs
    BY <1>7 DEF TTReadWord
  <2>2. Append(tt.buf, mem[tt.base + Len(tt.buf)]) \in Seq(Descs)
    BY <2>1 DEF FrameTT
  <2>3. tt' = [tt EXCEPT !.buf = Append(tt.buf, mem[tt.base + Len(tt.buf)])]
    BY <1>7 DEF TTReadWord
  <2>4. tt' \in FrameTT /\ tt'.i = tt.i
    BY <2>2, <2>3, FrameTTUpdates DEF FrameTT
  <2> QED BY <1>7, <2>4 DEF TTReadWord
<1>8. CASE TTReadDone
  <2>1. tt.i = 0 /\ tt.size \in Nat
    BY <1>8 DEF TTReadDone, FrameTT
  <2> QED BY <1>8, <2>1 DEF TTReadDone
<1>9. CASE TTReadFails
  <2>1. fails' \in 0..MaxFails
    BY <1>9, MemoryAssumption DEF TTReadFails, ReadFails
  <2>2. <<tt.table, -1>> \in Tables \X Int
    BY DEF FrameTT
  <2> QED BY <1>9, <2>1, <2>2 DEF TTReadFails
<1>10. CASE TTFault
  <2>1. tt.i \in Nat /\ tt.size \in Nat /\ tt.i < tt.size
    BY <1>10 DEF TTFault, AtEntry, FrameTT
  <2>2. tt' = [tt EXCEPT !.i = tt.i + 1]
    BY <1>10 DEF TTFault
  <2>3. tt' \in FrameTT /\ tt'.i = tt.i + 1 /\ tt'.size = tt.size /\ tt'.buf = tt.buf
    <3>1. tt \in FrameTT
      OBVIOUS
    <3> HIDE DEF TypeInv, TypeOK, BuffersFull, InTT, InPT, envVars
    <3> QED BY <2>2, <3>1, FrameTTStep
  <2> QED BY <1>10, <2>1, <2>3 DEF TTFault, AtEntry
<1>11. CASE TTSection
  <2>1. tt.i \in Nat /\ tt.size \in Nat /\ tt.i < tt.size /\ tt.buf \in Seq(Descs)
        /\ Len(tt.buf) = tt.size
    BY <1>11 DEF TTSection, AtEntry, FrameTT
  <2>2. L1Entry \in Descs
    <3> HIDE DEF TypeInv, TypeOK, BuffersFull, InTT, InPT, envVars
    <3> QED BY <2>1, EntryIsDesc DEF L1Entry
  <2>3. lines' \in Seq(LineType)
    <3>1. tt \in FrameTT /\ lines \in Seq(LineType)
      OBVIOUS
    <3> HIDE DEF TypeInv, TypeOK, BuffersFull, InTT, InPT, envVars
    <3>2. SectionVirt(tt.i) \in Nat
      BY <2>1, SectionVirtNat
    <3>3. (IF L1Entry.super THEN "super" ELSE "section") \in Kinds
      BY DEF Kinds
    <3>4. lines' = Append(lines, Line(IF L1Entry.super THEN "super" ELSE "section",
                                      SectionVirt(tt.i), L1Entry))
      BY <1>11 DEF TTSection
    <3> QED BY <2>2, <3>1, <3>2, <3>3, <3>4, LinePrinted
  <2>4. tt' \in FrameTT /\ tt'.i = tt.i + 1 /\ tt'.size = tt.size /\ tt'.buf = tt.buf
    <3>1. tt' = [tt EXCEPT !.i = tt.i + 1]
      BY <1>11 DEF TTSection
    <3>2. tt \in FrameTT
      OBVIOUS
    <3> HIDE DEF TypeInv, TypeOK, BuffersFull, InTT, InPT, envVars
    <3> QED BY <3>1, <3>2, FrameTTStep
  <2> QED BY <1>11, <2>1, <2>3, <2>4 DEF TTSection, AtEntry
<1>12. CASE TTTable
  <2>1. tt.i \in Nat /\ tt.size \in Nat /\ tt.i < tt.size /\ tt.buf \in Seq(Descs)
        /\ Len(tt.buf) = tt.size
        /\ tt.voff \in Nat
    BY <1>12 DEF TTTable, AtEntry, FrameTT
  <2>2. L1Entry \in Descs
    <3> HIDE DEF TypeInv, TypeOK, BuffersFull, InTT, InPT, envVars
    <3> QED BY <2>1, EntryIsDesc DEF L1Entry
  <2>3. PTBase(L1Entry) \in Nat
    <3>1. L1Entry.base \in Nat
      BY <2>2, MemoryAssumption DEF Descs
    <3> QED BY <3>1, GeometryAssumption DEF PTBase
  <2>4. (tt.voff + SectionVirt(tt.i)) % VASize \in Nat
    <3>1. SectionVirt(tt.i) \in Nat
      BY <2>1, SectionVirtNat
    <3>2. tt.voff + SectionVirt(tt.i) \in Nat
      BY <2>1, <3>1
    <3> HIDE DEF TypeInv, TypeOK, BuffersFull, InTT, InPT, envVars
    <3> QED BY <3>2, VASizePositive
  <2>5. PICK ok \in BOOLEAN :
          /\ Allocate(ok, L2Count)
          /\ pt' = [base |-> PTBase(L1Entry),
                    voff |-> (tt.voff + SectionVirt(tt.i)) % VASize,
                    ok |-> ok, j |-> 0, buf |-> <<>>]
    BY <1>12 DEF TTTable
  <2>6. pt' \in FramePT
    BY <2>3, <2>4, <2>5 DEF FramePT
  <2>7. live' \in Int /\ fails' \in 0..MaxFails
    BY <2>5, GeometryAssumption, MemoryAssumption DEF Allocate
  <2> QED BY <1>12, <2>1, <2>6, <2>7 DEF TTTable, AtEntry
<1>13. CASE TTEnd
  BY <1>13 DEF TTEnd
<1>14. CASE TTReturn
  <2>1. live' \in Int
    BY <1>14 DEF TTReturn, Deallocate, FrameTT
  <2>2. tt' \in FrameTT
    <3>1. <<>> \in Seq(Descs)
      OBVIOUS
    <3>2. tt' = [tt EXCEPT !.ok = FALSE, !.buf = <<>>]
      BY <1>14 DEF TTReturn
    <3>3. FALSE \in BOOLEAN
      OBVIOUS
    <3> QED BY <3>1, <3>2, <3>3, FrameTTFreed, Zenon
  <2>3. pc' \in {"ttbr1", "done"}
    BY <1>14 DEF TTReturn
  <2> QED BY <1>14, <2>1, <2>2, <2>3 DEF TTReturn
<1>15. CASE PTReadWord
  <2>1. mem[pt.base + Len(pt.buf)] \in Descs
    BY <1>15 DEF PTReadWord
  <2>2. Append(pt.buf, mem[pt.base + Len(pt.buf)]) \in Seq(Descs)
    BY <2>1 DEF FramePT
  <2>3. pt' = [pt EXCEPT !.buf = Append(pt.buf, mem[pt.base + Len(pt.buf)])]
    BY <1>15 DEF PTReadWord
  <2>4. pt' \in FramePT /\ pt'.j = pt.j
    BY <2>2, <2>3, FramePTUpdates DEF FramePT
  <2> QED BY <1>15, <2>4 DEF PTReadWord
<1>16. CASE PTReadDone
  <2>1. pt.j <= L2Count
    BY <1>16, GeometryAssumption DEF PTReadDone
  <2> QED BY <1>16, <2>1 DEF PTReadDone
<1>17. CASE PTReadFails
  <2>1. fails' \in 0..MaxFails
    BY <1>17, MemoryAssumption DEF PTReadFails, ReadFails
  <2>2. <<tt.table, tt.i>> \in Tables \X Int
    BY DEF FrameTT
  <2> QED BY <1>17, <2>1, <2>2 DEF PTReadFails
<1>18. CASE PTFault
  <2>1. pt' \in FramePT /\ pt'.j = pt.j + 1 /\ pt'.buf = pt.buf
    <3>1. pt' = [pt EXCEPT !.j = pt.j + 1]
      BY <1>18 DEF PTFault
    <3>2. pt \in FramePT
      OBVIOUS
    <3> HIDE DEF TypeInv, TypeOK, BuffersFull, InTT, InPT, envVars
    <3> QED BY <3>1, <3>2, FramePTStep
  <2>2. pt.j \in Nat /\ pt.j < L2Count
    BY <1>18 DEF PTFault, AtSmallEntry, FramePT
  <2> QED BY <1>18, <2>1, <2>2, GeometryAssumption DEF PTFault, AtSmallEntry
<1>19. CASE PTLarge
  <2>1. pt' \in FramePT /\ pt'.j = pt.j + 1 /\ pt'.buf = pt.buf
    <3>1. pt' = [pt EXCEPT !.j = pt.j + 1]
      BY <1>19 DEF PTLarge
    <3>2. pt \in FramePT
      OBVIOUS
    <3> HIDE DEF TypeInv, TypeOK, BuffersFull, InTT, InPT, envVars
    <3> QED BY <3>1, <3>2, FramePTStep
  <2>2. pt.j \in Nat /\ pt.j < L2Count /\ pt.voff \in Nat /\ pt.buf \in Seq(Descs)
        /\ Len(pt.buf) = L2Count
    BY <1>19 DEF PTLarge, AtSmallEntry, FramePT
  <2>3. L2Entry \in Descs
    <3> HIDE DEF TypeInv, TypeOK, BuffersFull, InTT, InPT, envVars
    <3> QED BY <2>2, EntryIsDesc DEF L2Entry
  <2>4. lines' \in Seq(LineType)
    <3>1. tt \in FrameTT /\ lines \in Seq(LineType)
      OBVIOUS
    <3> HIDE DEF TypeInv, TypeOK, BuffersFull, InTT, InPT, envVars
    <3>2. LargeVirt(pt.voff, pt.j) \in Nat /\ "large" \in Kinds
      BY <2>2, LargeVirtNat DEF Kinds
    <3>3. lines' = Append(lines, Line("large", LargeVirt(pt.voff, pt.j), L2Entry))
      BY <1>19 DEF PTLarge
    <3> QED BY <2>3, <3>1, <3>2, <3>3, LinePrinted
  <2>5. TypeOK'
    BY <1>19, <2>1, <2>4 DEF PTLarge, AtSmallEntry
  <2>6. BuffersFull'
    <3>1. pt'.j <= L2Count /\ Len(pt'.buf) = L2Count
      BY <2>1, <2>2, GeometryAssumption
    <3>2. pc' = "pt_loop" /\ tt' = tt
      BY <1>19 DEF PTLarge, AtSmallEntry
    <3> QED BY <1>19, <3>1, <3>2 DEF PTLarge, AtSmallEntry
  <2> QED BY <2>5, <2>6
<1>20. CASE PTSmall
  <2>1. pt' \in FramePT /\ pt'.j = pt.j + 1 /\ pt'.buf = pt.buf
    <3>1. pt' = [pt EXCEPT !.j = pt.j + 1]
      BY <1>20 DEF PTSmall
    <3>2. pt \in FramePT
      OBVIOUS
    <3> HIDE DEF TypeInv, TypeOK, BuffersFull, InTT, InPT, envVars
    <3> QED BY <3>1, <3>2, FramePTStep
  <2>2. pt.j \in Nat /\ pt.j < L2Count /\ pt.voff \in Nat /\ pt.buf \in Seq(Descs)
        /\ Len(pt.buf) = L2Count
    BY <1>20 DEF PTSmall, AtSmallEntry, FramePT
  <2>3. L2Entry \in Descs
    <3> HIDE DEF TypeInv, TypeOK, BuffersFull, InTT, InPT, envVars
    <3> QED BY <2>2, EntryIsDesc DEF L2Entry
  <2>4. lines' \in Seq(LineType)
    <3>1. tt \in FrameTT /\ lines \in Seq(LineType)
      OBVIOUS
    <3> HIDE DEF TypeInv, TypeOK, BuffersFull, InTT, InPT, envVars
    <3>2. SmallVirt(pt.voff, pt.j) \in Nat /\ "small" \in Kinds
      BY <2>2, SmallVirtNat DEF Kinds
    <3>3. lines' = Append(lines, Line("small", SmallVirt(pt.voff, pt.j), L2Entry))
      BY <1>20 DEF PTSmall
    <3> QED BY <2>3, <3>1, <3>2, <3>3, LinePrinted
  <2>5. TypeOK'
    BY <1>20, <2>1, <2>4 DEF PTSmall, AtSmallEntry
  <2>6. BuffersFull'
    <3>1. pt'.j <= L2Count /\ Len(pt'.buf) = L2Count
      BY <2>1, <2>2, GeometryAssumption
    <3>2. pc' = "pt_loop" /\ tt' = tt
      BY <1>20 DEF PTSmall, AtSmallEntry
    <3> QED BY <1>20, <3>1, <3>2 DEF PTSmall, AtSmallEntry
  <2> QED BY <2>5, <2>6
<1>21. CASE PTEnd
  BY <1>21 DEF PTEnd
<1>22. CASE PTReturn
  <2>1. live' \in Int
    BY <1>22, GeometryAssumption DEF PTReturn, Deallocate
  <2>2. pt' \in FramePT
    <3>1. <<>> \in Seq(Descs)
      OBVIOUS
    <3>2. pt' = [pt EXCEPT !.ok = FALSE, !.buf = <<>>]
      BY <1>22 DEF PTReturn
    <3>3. FALSE \in BOOLEAN
      OBVIOUS
    <3> QED BY <3>1, <3>2, <3>3, FramePTFreed, Zenon
  <2>3. tt.i \in Nat /\ tt.size \in Nat /\ tt.i < tt.size
    BY <1>22 DEF PTReturn, FrameTT
  <2>4. tt' \in FrameTT /\ tt'.i = tt.i + 1 /\ tt'.size = tt.size /\ tt'.buf = tt.buf
    <3>1. tt' = [tt EXCEPT !.i = tt.i + 1]
      BY <1>22 DEF PTReturn
    <3>2. tt \in FrameTT
      OBVIOUS
    <3> HIDE DEF TypeInv, TypeOK, BuffersFull, InTT, InPT, envVars
    <3> QED BY <3>1, <3>2, FrameTTStep
  <2> QED BY <1>22, <2>1, <2>2, <2>3, <2>4 DEF PTReturn
<1>23. CASE OSWrite
  BY <1>23, MemoryAssumption DEF OSWrite, progVars
<1>24. CASE Finished \/ UNCHANGED vars
  BY <1>24 DEF Finished, vars
<1> QED
  BY <1>1, <1>2, <1>3, <1>4, <1>5, <1>6, <1>7, <1>8, <1>9, <1>10, <1>11,
     <1>12, <1>13, <1>14, <1>15, <1>16, <1>17, <1>18, <1>19, <1>20, <1>21,
     <1>22, <1>23, <1>24
  DEF Next, Program

(* Every variable keeps its type, for every geometry, memory and bound.    *)
THEOREM TypeCorrect == Spec => []TypeOK
<1>1. Init => TypeInv
  BY TypeInvInit
<1>2. TypeInv /\ [Next]_vars => TypeInv'
  BY TypeInvNext
<1>3. TypeInv => TypeOK
  BY DEF TypeInv
<1> QED BY <1>1, <1>2, <1>3, PTL DEF Spec

LEMMA TypeInvariance == Spec => []TypeInv
BY TypeInvInit, TypeInvNext, PTL DEF Spec

-----------------------------------------------------------------------------
(* The two buffers.                                                        *)

LEMMA HeapNext == TypeInv /\ HeapIsFrames /\ [Next]_vars => HeapIsFrames'
<1> SUFFICES ASSUME TypeInv, HeapIsFrames, [Next]_vars PROVE HeapIsFrames'
  OBVIOUS
<1> USE DEF HeapIsFrames, InTT, InPT
<1>0. live \in Int /\ tt.size \in Nat /\ tt.ok \in BOOLEAN /\ pt.ok \in BOOLEAN
  BY DEF TypeInv, TypeOK, FrameTT, FramePT
<1>1. CASE RejectLpae \/ Accept \/ SkipTTBR0 \/ SkipTTBR1
  BY <1>1 DEF RejectLpae, Accept, SkipTTBR0, SkipTTBR1
<1>2. CASE CallTTBR0
  <2>1. PICK ok \in BOOLEAN :
          /\ Allocate(ok, TTWords(call.N))
          /\ tt'.ok = ok /\ tt'.size = TTWords(call.N)
          /\ pc' = "tt_read"
    BY <1>2 DEF CallTTBR0, EnterTT
  <2>2. call.N \in 0..MaxN
    BY DEF TypeInv, TypeOK, CallType
  <2>3. TTWords(call.N) \in Nat
    BY <2>2, TTWordsPositive
  <2>4. live = 0
    BY <1>2 DEF CallTTBR0
  <2>5. live' = IF ok THEN TTWords(call.N) ELSE 0
    BY <2>1, <2>3, <2>4 DEF Allocate
  <2> QED BY <2>1, <2>3, <2>5
<1>3. CASE CallTTBR1
  <2>1. PICK ok \in BOOLEAN :
          /\ Allocate(ok, TTWords(0))
          /\ tt'.ok = ok /\ tt'.size = TTWords(0)
          /\ pc' = "tt_read"
    BY <1>3 DEF CallTTBR1, EnterTT
  <2>2. 0 \in 0..MaxN
    BY GeometryAssumption
  <2>3. TTWords(0) \in Nat
    BY <2>2, TTWordsPositive
  <2>4. live = 0
    BY <1>3 DEF CallTTBR1
  <2>5. live' = IF ok THEN TTWords(0) ELSE 0
    BY <2>1, <2>3, <2>4 DEF Allocate
  <2> QED BY <2>1, <2>3, <2>5
<1>4. CASE TTReadWord
  <2>1. tt'.ok = tt.ok /\ tt'.size = tt.size
    BY <1>4 DEF TTReadWord, TypeInv, TypeOK, FrameTT
  <2> QED BY <1>4, <2>1 DEF TTReadWord
<1>5. CASE TTReadDone \/ TTReadFails \/ TTEnd
  BY <1>5 DEF TTReadDone, TTReadFails, TTEnd
<1>6. CASE TTFault \/ TTSection
  <2>1. tt'.ok = tt.ok /\ tt'.size = tt.size
    BY <1>6 DEF TTFault, TTSection, TypeInv, TypeOK, FrameTT
  <2> QED BY <1>6, <2>1 DEF TTFault, TTSection, AtEntry
<1>7. CASE TTTable
  <2>1. PICK ok \in BOOLEAN : Allocate(ok, L2Count) /\ pt'.ok = ok
    BY <1>7 DEF TTTable
  <2>2. live = IF tt.ok THEN tt.size ELSE 0
    BY <1>0, <1>7 DEF TTTable, AtEntry
  <2>3. live' = (IF tt.ok THEN tt.size ELSE 0) + (IF ok THEN L2Count ELSE 0)
    BY <1>0, <2>1, <2>2, GeometryAssumption DEF Allocate
  <2>4. tt' = tt /\ pc' = "pt_read"
    BY <1>7 DEF TTTable
  <2> QED BY <2>1, <2>3, <2>4
<1>8. CASE TTReturn
  <2>1. live = IF tt.ok THEN tt.size ELSE 0
    BY <1>0, <1>8 DEF TTReturn
  <2>2. live' = 0
    BY <1>0, <1>8, <2>1 DEF TTReturn, Deallocate
  <2>3. pc' \in {"ttbr1", "done"}
    BY <1>8 DEF TTReturn
  <2> QED BY <2>2, <2>3
<1>9. CASE PTReadWord
  <2>1. pt'.ok = pt.ok
    BY <1>9 DEF PTReadWord, TypeInv, TypeOK, FramePT
  <2> QED BY <1>9, <2>1 DEF PTReadWord
<1>10. CASE PTReadDone \/ PTReadFails \/ PTEnd
  BY <1>10 DEF PTReadDone, PTReadFails, PTEnd
<1>11. CASE PTFault \/ PTLarge \/ PTSmall
  <2>1. pt'.ok = pt.ok
    BY <1>11 DEF PTFault, PTLarge, PTSmall, TypeInv, TypeOK, FramePT
  <2> QED BY <1>11, <2>1 DEF PTFault, PTLarge, PTSmall, AtSmallEntry
<1>12. CASE PTReturn
  <2>1. live = (IF tt.ok THEN tt.size ELSE 0) + (IF pt.ok THEN L2Count ELSE 0)
    BY <1>12 DEF PTReturn
  <2>2. live' = IF tt.ok THEN tt.size ELSE 0
    BY <1>0, <1>12, <2>1, GeometryAssumption DEF PTReturn, Deallocate
  <2>3. tt'.ok = tt.ok /\ tt'.size = tt.size
    BY <1>12 DEF PTReturn, TypeInv, TypeOK, FrameTT
  <2>4. pc' = "tt_loop"
    BY <1>12 DEF PTReturn
  <2> QED BY <1>0, <2>2, <2>3, <2>4
<1>13. CASE OSWrite \/ Finished \/ UNCHANGED vars
  BY <1>13 DEF OSWrite, Finished, vars, progVars
<1> QED
  BY <1>1, <1>2, <1>3, <1>4, <1>5, <1>6, <1>7, <1>8, <1>9, <1>10, <1>11,
     <1>12, <1>13
  DEF Next, Program

(* On every path, failed allocations and reads included, what is allocated *)
(* is what the running functions will deallocate: none is leaked or freed  *)
(* twice, and nothing is left when armPtPrint returns.                     *)
THEOREM HeapCorrect == Spec => []HeapIsFrames
<1>1. Init => HeapIsFrames
  BY DEF Init, HeapIsFrames, InTT, InPT
<1>2. TypeInv /\ HeapIsFrames /\ [Next]_vars => HeapIsFrames'
  BY HeapNext
<1> QED BY <1>1, <1>2, TypeInvariance, PTL DEF Spec

-----------------------------------------------------------------------------
(* The order of the listing.                                               *)

(* Sections and small pages of the table being walked lie below this page. *)
Cursor ==
  CASE pc = "pt_loop" -> pt.voff + pt.j
    [] pc = "pt_out"  -> SectionVirt(tt.i) + L2Count
    [] OTHER          -> SectionVirt(tt.i)

WalkPlace ==
  /\ InTT => /\ tt.voff = 0
             /\ tt.size <= L1Count
             /\ tt.table = 0 => tt.size = TTWords(call.N)
             /\ pc \notin {"tt_read", "tt_out"} => tt.i <= tt.size
  /\ InPT => pt.voff = SectionVirt(tt.i)

LinesBelowCursor ==
  \A k \in DOMAIN lines :
    (InTT /\ lines[k].table = tt.table /\ lines[k].kind # "large")
      => lines[k].virt < Cursor

LinesOfStage ==
  /\ pc \in {"start", "ttbr0"} => lines = <<>>
  /\ (pc = "ttbr1" \/ (InTT /\ tt.table = 0)) =>
        \A k \in DOMAIN lines : lines[k].table = 0

OrderInv ==
  WalkPlace /\ LinesBelowCursor /\ LinesOfStage
    /\ ListingAscends /\ TtbrZeroBelowSplit

(* Successive sections do not overlap and the last ends where the table's  *)
(* part of the address space does.                                         *)
LEMMA SectionOrder ==
  ASSUME NEW i \in Nat, NEW s \in Nat, i < s
  PROVE  /\ SectionVirt(i) + L2Count = SectionVirt(i + 1)
         /\ SectionVirt(i) + L2Count <= SectionVirt(s)
<1>1. L2Count \in Nat \ {0}
  BY GeometryAssumption
<1>2. (i + 1) * L2Count = i * L2Count + L2Count
  BY <1>1
<1>3. (i + 1) * L2Count <= s * L2Count
  <2>1. s - (i + 1) \in Nat
    OBVIOUS
  <2>2. (s - (i + 1)) * L2Count \in Nat
    BY <1>1, <2>1
  <2>3. s * L2Count = (i + 1) * L2Count + (s - (i + 1)) * L2Count
    BY <1>1
  <2>4. s * L2Count \in Nat /\ (i + 1) * L2Count \in Nat
    BY <1>1
  <2> QED BY <2>2, <2>3, <2>4
<1> QED BY <1>2, <1>3 DEF SectionVirt

LEMMA SectionsFit ==
  ASSUME NEW i \in Nat, i < L1Count
  PROVE  SectionVirt(i) + L2Count <= VASize
BY SectionOrder, GeometryAssumption DEF SectionVirt, VASize

LEMMA ModSmall ==
  ASSUME NEW a \in Nat, NEW m \in Nat, a < m
  PROVE  a % m = a
OBVIOUS

LEMMA DivExact ==
  ASSUME NEW a \in Nat, NEW k \in Nat \ {0}
  PROVE  (a * k) \div k = a
OBVIOUS

LEMMA SplitIsSectionVirt ==
  ASSUME call \in CallType
  PROVE  FirstTtbr1Page = SectionVirt(TTWords(call.N))
<1> DEFINE k == 2^call.N
           t == TTWords(call.N)
<1>1. call.N \in 0..MaxN
  BY DEF CallType
<1>2. k \in Nat \ {0} /\ t \in Nat \ {0} /\ t * k = L1Count
  BY <1>1, TTWordsPositive, GeometryAssumption
<1>3. L2Count \in Nat
  BY GeometryAssumption
<1> HIDE DEF k, t
<1>4. VASize = (t * L2Count) * k
  BY <1>2, <1>3 DEF VASize
<1>5. t * L2Count \in Nat
  BY <1>2, <1>3
<1>6. VASize \div k = t * L2Count
  BY <1>2, <1>4, <1>5, DivExact
<1> QED BY <1>6 DEF FirstTtbr1Page, SectionVirt, k, t

(* Printing a line that belongs after all the others keeps the order.      *)
LEMMA AppendKeepsOrder ==
  ASSUME lines \in Seq(LineType), NEW l \in LineType,
         lines' = Append(lines, l), call' = call,
         ListingAscends, TtbrZeroBelowSplit,
         \A k \in DOMAIN lines :
            /\ lines[k].table <= l.table
            /\ (lines[k].table = l.table /\ lines[k].kind # "large"
                  /\ l.kind # "large") => lines[k].virt < l.virt,
         l.table = 0 /\ l.kind # "large" => l.virt < FirstTtbr1Page
  PROVE  ListingAscends' /\ TtbrZeroBelowSplit'
<1>1. /\ Len(lines) \in Nat
      /\ DOMAIN lines = 1..Len(lines)
      /\ DOMAIN lines' = 1..(Len(lines) + 1)
      /\ \A k \in 1..Len(lines) : lines'[k] = lines[k]
      /\ lines'[Len(lines) + 1] = l
  OBVIOUS
<1>2. ListingAscends'
  <2> SUFFICES ASSUME NEW k \in DOMAIN lines', NEW m \in DOMAIN lines', k < m
               PROVE  /\ lines'[k].table <= lines'[m].table
                      /\ (/\ lines'[k].table = lines'[m].table
                          /\ "large" \notin {lines'[k].kind, lines'[m].kind})
                           => lines'[k].virt < lines'[m].virt
    BY DEF ListingAscends
  <2>1. k \in 1..Len(lines)
    BY <1>1
  <2>2. CASE m = Len(lines) + 1
    BY <1>1, <2>1, <2>2
  <2>3. CASE m \in 1..Len(lines)
    BY <1>1, <2>1, <2>3 DEF ListingAscends
  <2> QED BY <1>1, <2>2, <2>3
<1>3. TtbrZeroBelowSplit'
  <2>1. FirstTtbr1Page' = FirstTtbr1Page
    BY DEF FirstTtbr1Page
  <2> SUFFICES ASSUME NEW k \in DOMAIN lines',
                      lines'[k].table = 0, lines'[k].kind # "large"
               PROVE  lines'[k].virt < FirstTtbr1Page
    BY <2>1 DEF TtbrZeroBelowSplit
  <2>2. CASE k = Len(lines) + 1
    BY <1>1, <2>2
  <2>3. CASE k \in 1..Len(lines)
    BY <1>1, <2>3 DEF TtbrZeroBelowSplit
  <2> QED BY <1>1, <2>2, <2>3
<1> QED BY <1>2, <1>3

(* Steps that print nothing keep the order of what is printed.             *)
LEMMA NoPrintKeepsOrder ==
  ASSUME ListingAscends, TtbrZeroBelowSplit, UNCHANGED <<lines, call>>
  PROVE  ListingAscends' /\ TtbrZeroBelowSplit'
BY DEF ListingAscends, TtbrZeroBelowSplit, FirstTtbr1Page

LEMMA OrderInit == Init => OrderInv
<1> SUFFICES ASSUME Init PROVE OrderInv
  OBVIOUS
<1>1. lines = <<>> /\ DOMAIN lines = {} /\ ~ InTT /\ ~ InPT /\ pc = "start"
  BY DEF Init, InTT, InPT
<1> QED BY <1>1 DEF OrderInv, WalkPlace, LinesBelowCursor, LinesOfStage,
                    ListingAscends, TtbrZeroBelowSplit

LEMMA OrderNext == TypeInv /\ OrderInv /\ [Next]_vars => OrderInv'
<1> SUFFICES ASSUME TypeInv, OrderInv, [Next]_vars PROVE OrderInv'
  OBVIOUS
<1>0. /\ tt \in FrameTT /\ pt \in FramePT /\ lines \in Seq(LineType)
      /\ call \in CallType /\ BuffersFull
  BY DEF TypeInv, TypeOK
<1>t. /\ tt.i \in Nat /\ tt.size \in Nat /\ tt.table \in Tables /\ tt.voff \in Nat
      /\ pt.j \in Nat /\ pt.voff \in Nat /\ L2Count \in Nat \ {0}
      /\ call.N \in 0..MaxN
  BY <1>0, GeometryAssumption DEF FrameTT, FramePT, CallType
<1>v. /\ SectionVirt(tt.i) \in Nat
      /\ \A k \in DOMAIN lines : lines[k].virt \in Nat /\ lines[k].table \in Tables
  <2>1. \A k \in DOMAIN lines : lines[k] \in LineType
    BY <1>0
  <2> QED BY <1>t, <2>1, SectionVirtNat DEF LineType
<1>1. CASE RejectLpae \/ Accept \/ SkipTTBR0 \/ SkipTTBR1
  <2>1. UNCHANGED <<lines, call, tt, pt>> /\ ~ InTT' /\ ~ InPT'
    BY <1>1 DEF RejectLpae, Accept, SkipTTBR0, SkipTTBR1, InTT, InPT
  <2>2. LinesOfStage'
    BY <1>1, <2>1 DEF OrderInv, LinesOfStage, RejectLpae, Accept, SkipTTBR0,
       SkipTTBR1
  <2>3. ListingAscends' /\ TtbrZeroBelowSplit'
    BY <2>1, NoPrintKeepsOrder DEF OrderInv
  <2> QED BY <2>1, <2>2, <2>3 DEF OrderInv, WalkPlace, LinesBelowCursor
<1>2. CASE CallTTBR0
  <2>1. /\ tt'.table = 0 /\ tt'.size = TTWords(call.N) /\ tt'.voff = 0
        /\ tt'.i = 0 /\ pc' = "tt_read" /\ UNCHANGED <<lines, call, pt>>
    BY <1>2 DEF CallTTBR0, EnterTT, VirtOffset
  <2>2. lines = <<>> /\ DOMAIN lines = {}
    BY <1>2 DEF CallTTBR0, OrderInv, LinesOfStage
  <2>3. WalkPlace'
    BY <1>t, <2>1, TTWordsPositive DEF WalkPlace, InPT
  <2>4. ListingAscends' /\ TtbrZeroBelowSplit'
    BY <2>1, NoPrintKeepsOrder DEF OrderInv
  <2> QED BY <2>1, <2>2, <2>3, <2>4 DEF OrderInv, LinesBelowCursor, LinesOfStage
<1>3. CASE CallTTBR1
  <2>1. /\ tt'.table = 1 /\ tt'.size = TTWords(0) /\ tt'.voff = 0
        /\ tt'.i = 0 /\ pc' = "tt_read" /\ UNCHANGED <<lines, call, pt>>
    BY <1>3 DEF CallTTBR1, EnterTT, VirtOffset
  <2>2. \A k \in DOMAIN lines : lines[k].table = 0
    BY <1>3 DEF CallTTBR1, OrderInv, LinesOfStage
  <2>3. 0 \in 0..MaxN
    BY GeometryAssumption
  <2>4. WalkPlace'
    BY <2>1, <2>3, TTWordsPositive DEF WalkPlace, InPT
  <2>5. ListingAscends' /\ TtbrZeroBelowSplit'
    BY <2>1, NoPrintKeepsOrder DEF OrderInv
  <2> QED BY <2>1, <2>2, <2>4, <2>5 DEF OrderInv, LinesBelowCursor, LinesOfStage
<1>4. CASE TTReadWord \/ TTReadDone \/ TTReadFails \/ TTEnd
  <2>1. /\ tt'.table = tt.table /\ tt'.size = tt.size /\ tt'.voff = tt.voff
        /\ tt'.i = tt.i /\ UNCHANGED <<lines, call, pt>>
    BY <1>0, <1>4 DEF TTReadWord, TTReadDone, TTReadFails, TTEnd, FrameTT
  <2>2. pc \in {"tt_read", "tt_loop"} /\ pc' \in {"tt_read", "tt_loop", "tt_out"}
        /\ (pc = "tt_read" => tt.i = 0)
    BY <1>0, <1>4 DEF TTReadWord, TTReadDone, TTReadFails, TTEnd, BuffersFull
  <2>3. WalkPlace'
    BY <1>t, <2>1, <2>2 DEF OrderInv, WalkPlace, InTT, InPT
  <2>4. Cursor' = Cursor
    BY <2>1, <2>2 DEF Cursor, SectionVirt
  <2>5. LinesBelowCursor' /\ LinesOfStage'
    BY <2>1, <2>2, <2>4 DEF OrderInv, LinesBelowCursor, LinesOfStage, InTT
  <2>6. ListingAscends' /\ TtbrZeroBelowSplit'
    BY <2>1, NoPrintKeepsOrder DEF OrderInv
  <2> QED BY <2>3, <2>5, <2>6 DEF OrderInv
<1>5. CASE TTFault
  <2>1. /\ tt'.table = tt.table /\ tt'.size = tt.size /\ tt'.voff = tt.voff
        /\ tt'.i = tt.i + 1 /\ UNCHANGED <<lines, call, pt, pc>>
        /\ pc = "tt_loop" /\ tt.i < tt.size
    BY <1>0, <1>5 DEF TTFault, AtEntry, FrameTT
  <2>2. WalkPlace'
    BY <1>t, <2>1 DEF OrderInv, WalkPlace, InTT, InPT
  <2>3. Cursor = SectionVirt(tt.i) /\ Cursor' = SectionVirt(tt.i) + L2Count
    BY <1>t, <2>1, SectionOrder DEF Cursor, SectionVirt
  <2>4. LinesBelowCursor'
    BY <1>t, <1>v, <2>1, <2>3 DEF OrderInv, LinesBelowCursor, InTT
  <2>5. LinesOfStage'
    BY <2>1 DEF OrderInv, LinesOfStage, InTT
  <2>6. ListingAscends' /\ TtbrZeroBelowSplit'
    BY <2>1, NoPrintKeepsOrder DEF OrderInv
  <2> QED BY <2>2, <2>4, <2>5, <2>6 DEF OrderInv
<1>6. CASE TTSection
  <2> DEFINE l == Line(IF L1Entry.super THEN "super" ELSE "section",
                       SectionVirt(tt.i), L1Entry)
  <2>1. /\ tt'.table = tt.table /\ tt'.size = tt.size /\ tt'.voff = tt.voff
        /\ tt'.i = tt.i + 1 /\ UNCHANGED <<call, pt, pc>>
        /\ pc = "tt_loop" /\ tt.i < tt.size /\ lines' = Append(lines, l)
    BY <1>0, <1>6 DEF TTSection, AtEntry, FrameTT
  <2>2. l.virt = SectionVirt(tt.i) /\ l.table = tt.table
    BY DEF Line
  <2>3. l \in LineType
    <3>1. L1Entry \in Descs
      BY <1>0, <2>1, <1>t DEF L1Entry, BuffersFull, FrameTT
    <3> QED BY <1>t, <1>v, <3>1 DEF Line, LineType, Kinds
  <2>4. Cursor = SectionVirt(tt.i) /\ Cursor' = SectionVirt(tt.i) + L2Count
    BY <1>t, <2>1, SectionOrder DEF Cursor, SectionVirt
  <2> HIDE DEF l
  <2>5. WalkPlace'
    BY <1>t, <2>1 DEF OrderInv, WalkPlace, InTT, InPT
  <2>6. InTT /\ InTT'
    BY <2>1 DEF InTT
  <2>7. \A k \in DOMAIN lines :
          (lines[k].table = tt.table /\ lines[k].kind # "large")
             => lines[k].virt < SectionVirt(tt.i)
    BY <2>4, <2>6 DEF OrderInv, LinesBelowCursor
  <2>8. \A k \in DOMAIN lines : lines[k].table <= tt.table
    BY <1>t, <1>v, <2>6 DEF OrderInv, LinesOfStage, Tables
  <2>9. l.table = 0 => l.virt < FirstTtbr1Page
    <3>1. SUFFICES ASSUME tt.table = 0 PROVE SectionVirt(tt.i) < FirstTtbr1Page
      BY <2>2
    <3>2. tt.size = TTWords(call.N)
      BY <2>6, <3>1 DEF OrderInv, WalkPlace
    <3>3. SectionVirt(tt.i) + L2Count <= FirstTtbr1Page
      BY <1>0, <1>t, <2>1, <3>2, SectionOrder, SplitIsSectionVirt
    <3>4. FirstTtbr1Page \in Nat
      BY <1>0, <1>t, <3>2, SplitIsSectionVirt, SectionVirtNat
    <3> QED BY <1>t, <1>v, <3>3, <3>4
  <2>10. ListingAscends' /\ TtbrZeroBelowSplit'
    BY <1>0, <2>1, <2>2, <2>3, <2>7, <2>8, <2>9, AppendKeepsOrder DEF OrderInv
  <2>11. LinesBelowCursor'
    <3> SUFFICES ASSUME NEW k \in DOMAIN lines', lines'[k].table = tt.table,
                        lines'[k].kind # "large"
                 PROVE  lines'[k].virt < SectionVirt(tt.i) + L2Count
      BY <2>1, <2>4 DEF LinesBelowCursor
    <3>1. CASE k \in DOMAIN lines
      BY SMTT(30), <1>0, <1>t, <1>v, <2>1, <2>7, <3>1
    <3>2. CASE k = Len(lines) + 1
      BY <1>0, <1>t, <1>v, <2>1, <2>2, <3>2
    <3> QED BY <1>0, <2>1, <2>3, <3>1, <3>2
  <2>12. LinesOfStage'
    <3> SUFFICES ASSUME tt.table = 0, NEW k \in DOMAIN lines'
                 PROVE  lines'[k].table = 0
      BY <2>1 DEF LinesOfStage
    <3>1. \A m \in DOMAIN lines : lines[m].table = 0
      BY <2>6 DEF OrderInv, LinesOfStage
    <3> QED BY <1>0, <2>1, <2>2, <2>3, <3>1
  <2> QED BY <2>5, <2>10, <2>11, <2>12 DEF OrderInv
<1>7. CASE TTTable
  <2>1. /\ UNCHANGED <<lines, call, tt>> /\ pc = "tt_loop" /\ pc' = "pt_read"
        /\ pt'.voff = (tt.voff + SectionVirt(tt.i)) % VASize /\ tt.i < tt.size
    BY <1>7 DEF TTTable, AtEntry
  <2>2. tt.voff = 0 /\ tt.i < L1Count
    BY <1>t, <2>1, GeometryAssumption DEF OrderInv, WalkPlace, InTT
  <2>3. (0 + SectionVirt(tt.i)) % VASize = SectionVirt(tt.i)
    <3>1. SectionVirt(tt.i) \in Nat /\ SectionVirt(tt.i) + L2Count <= VASize
          /\ VASize \in Nat \ {0}
      BY <1>t, <1>v, <2>2, SectionsFit, VASizePositive
    <3> QED BY <1>t, <3>1
  <2>4. WalkPlace'
    BY <1>t, <2>1, <2>2, <2>3 DEF OrderInv, WalkPlace, InTT, InPT, SectionVirt
  <2>5. LinesBelowCursor' /\ LinesOfStage'
    BY <2>1 DEF OrderInv, LinesBelowCursor, LinesOfStage, InTT, Cursor,
       SectionVirt
  <2>6. ListingAscends' /\ TtbrZeroBelowSplit'
    BY <2>1, NoPrintKeepsOrder DEF OrderInv
  <2> QED BY <2>4, <2>5, <2>6 DEF OrderInv
<1>8. CASE TTReturn
  <2>1. /\ UNCHANGED <<lines, call, pt>> /\ ~ InTT' /\ ~ InPT'
        /\ pc = "tt_out" /\ pc' = IF tt.table = 0 THEN "ttbr1" ELSE "done"
    BY <1>8 DEF TTReturn, InTT, InPT
  <2>2. LinesOfStage'
    BY <2>1 DEF OrderInv, LinesOfStage, InTT
  <2>3. ListingAscends' /\ TtbrZeroBelowSplit'
    BY <2>1, NoPrintKeepsOrder DEF OrderInv
  <2> QED BY <2>1, <2>2, <2>3 DEF OrderInv, WalkPlace, LinesBelowCursor
<1>9. CASE PTReadWord \/ PTReadDone \/ PTReadFails \/ PTEnd
  <2>1. /\ pt'.voff = pt.voff /\ pt'.j = pt.j
        /\ UNCHANGED <<lines, call, tt>>
    BY <1>0, <1>9 DEF PTReadWord, PTReadDone, PTReadFails, PTEnd, FramePT
  <2>2. /\ pc \in {"pt_read", "pt_loop"} /\ pc' \in {"pt_read", "pt_loop", "pt_out"}
        /\ pc = "pt_read" => pt.j = 0
        /\ pc = "pt_loop" => pc' = "pt_out" /\ pt.j = L2Count
    BY <1>0, <1>9 DEF PTReadWord, PTReadDone, PTReadFails, PTEnd, BuffersFull
  <2>3. WalkPlace'
    BY <1>t, <2>1, <2>2 DEF OrderInv, WalkPlace, InTT, InPT, SectionVirt
  <2>4. pt.voff = SectionVirt(tt.i)
    BY <2>2 DEF OrderInv, WalkPlace, InPT
  <2>5. Cursor \in Nat /\ Cursor' \in Nat /\ Cursor <= Cursor'
    BY <1>t, <1>v, <2>1, <2>2, <2>4 DEF Cursor, SectionVirt
  <2>6. LinesBelowCursor'
    BY <1>v, <2>1, <2>2, <2>5 DEF OrderInv, LinesBelowCursor, InTT
  <2>7. LinesOfStage'
    BY <2>1, <2>2 DEF OrderInv, LinesOfStage, InTT
  <2>8. ListingAscends' /\ TtbrZeroBelowSplit'
    BY <2>1, NoPrintKeepsOrder DEF OrderInv
  <2> QED BY <2>3, <2>6, <2>7, <2>8 DEF OrderInv
<1>10. CASE PTFault
  <2>1. /\ pt'.voff = pt.voff /\ pt'.j = pt.j + 1
        /\ UNCHANGED <<lines, call, tt, pc>> /\ pc = "pt_loop"
    BY <1>0, <1>10 DEF PTFault, AtSmallEntry, FramePT
  <2>2. WalkPlace'
    BY <1>t, <2>1 DEF OrderInv, WalkPlace, InTT, InPT, SectionVirt
  <2>3. Cursor = pt.voff + pt.j /\ Cursor' = pt.voff + (pt.j + 1)
    BY <2>1 DEF Cursor
  <2>4. LinesBelowCursor' /\ LinesOfStage'
    BY <1>t, <1>v, <2>1, <2>3 DEF OrderInv, LinesBelowCursor, LinesOfStage, InTT
  <2>5. ListingAscends' /\ TtbrZeroBelowSplit'
    BY <2>1, NoPrintKeepsOrder DEF OrderInv
  <2> QED BY <2>2, <2>4, <2>5 DEF OrderInv
<1>11. ASSUME NEW l \in LineType, l.table = tt.table,
              l.kind = "large" \/ l.virt = SmallVirt(pt.voff, pt.j),
              pc = "pt_loop", pt.j < L2Count, lines' = Append(lines, l),
              pt'.voff = pt.voff, pt'.j = pt.j + 1, UNCHANGED <<call, tt, pc>>
       PROVE  OrderInv'
  <2>1. InTT /\ InTT' /\ InPT /\ Cursor = pt.voff + pt.j
        /\ Cursor' = pt.voff + (pt.j + 1)
    BY <1>11 DEF InTT, InPT, Cursor
  <2>2. /\ pt.voff = SectionVirt(tt.i) /\ tt.i < tt.size /\ tt.i < L1Count
        /\ tt.size <= L1Count
    BY <1>0, <1>t, <2>1, GeometryAssumption DEF OrderInv, WalkPlace, BuffersFull
  <2>3. pt.voff + L2Count <= VASize /\ pt.voff + L2Count <= SectionVirt(tt.size)
    BY <1>t, <2>2, SectionsFit, SectionOrder
  <2>4. l.kind # "large" => l.virt = pt.voff + pt.j
    <3>1. (pt.voff + pt.j) % VASize = pt.voff + pt.j
      <4>1. pt.voff + pt.j \in Nat /\ VASize \in Nat /\ pt.voff + pt.j < VASize
        BY SMTT(30), <1>t, <1>11, <2>3, VASizePositive
      <4> QED BY <4>1, ModSmall
    <3> QED BY <1>11, <3>1 DEF SmallVirt
  <2>5. WalkPlace'
    BY <1>t, <1>11 DEF OrderInv, WalkPlace, InTT, InPT, SectionVirt
  <2>6. \A k \in DOMAIN lines :
          (lines[k].table = tt.table /\ lines[k].kind # "large")
             => lines[k].virt < pt.voff + pt.j
    BY <2>1 DEF OrderInv, LinesBelowCursor
  <2>7. \A k \in DOMAIN lines : lines[k].table <= tt.table
    BY <1>t, <1>v, <2>1 DEF OrderInv, LinesOfStage, Tables
  <2>8. l.table = 0 /\ l.kind # "large" => l.virt < FirstTtbr1Page
    <3>1. SUFFICES ASSUME tt.table = 0 PROVE pt.voff + pt.j < FirstTtbr1Page
      BY <1>11, <2>4
    <3>2. tt.size = TTWords(call.N)
      BY <2>1, <3>1 DEF OrderInv, WalkPlace
    <3>3. FirstTtbr1Page = SectionVirt(tt.size)
      BY <1>0, <3>2, SplitIsSectionVirt
    <3>4. SectionVirt(tt.size) \in Nat
      BY <1>t, SectionVirtNat
    <3> QED BY <1>t, <1>11, <2>3, <3>3, <3>4
  <2>9. ListingAscends' /\ TtbrZeroBelowSplit'
    BY <1>0, <1>11, <2>4, <2>6, <2>7, <2>8, AppendKeepsOrder DEF OrderInv
  <2>10. LinesBelowCursor'
    <3> SUFFICES ASSUME NEW k \in DOMAIN lines', lines'[k].table = tt.table,
                        lines'[k].kind # "large"
                 PROVE  lines'[k].virt < pt.voff + (pt.j + 1)
      BY <1>11, <2>1 DEF LinesBelowCursor
    <3>1. CASE k \in DOMAIN lines
      BY SMTT(30), <1>0, <1>t, <1>v, <1>11, <2>6, <3>1
    <3>2. CASE k = Len(lines) + 1
      BY <1>0, <1>t, <1>11, <2>4, <3>2
    <3> QED BY <1>0, <1>11, <3>1, <3>2
  <2>11. LinesOfStage'
    <3> SUFFICES ASSUME tt.table = 0, NEW k \in DOMAIN lines'
                 PROVE  lines'[k].table = 0
      BY <1>11 DEF LinesOfStage
    <3>1. \A m \in DOMAIN lines : lines[m].table = 0
      BY <2>1 DEF OrderInv, LinesOfStage
    <3> QED BY <1>0, <1>11, <3>1
  <2> QED BY <2>5, <2>9, <2>10, <2>11 DEF OrderInv
<1>12. CASE PTLarge
  <2> DEFINE l == Line("large", LargeVirt(pt.voff, pt.j), L2Entry)
  <2>1. pc = "pt_loop" /\ pt.j < L2Count /\ lines' = Append(lines, l)
        /\ pt'.voff = pt.voff /\ pt'.j = pt.j + 1 /\ UNCHANGED <<call, tt, pc>>
    BY <1>0, <1>12 DEF PTLarge, AtSmallEntry, FramePT
  <2>2. L2Entry \in Descs
    BY <1>0, <1>t, <2>1 DEF L2Entry, BuffersFull, FramePT
  <2>3. l \in LineType /\ l.table = tt.table /\ l.kind = "large"
    BY <1>t, <2>2, LargeVirtNat DEF Line, LineType, Kinds
  <2> QED BY <1>11, <2>1, <2>3
<1>13. CASE PTSmall
  <2> DEFINE l == Line("small", SmallVirt(pt.voff, pt.j), L2Entry)
  <2>1. pc = "pt_loop" /\ pt.j < L2Count /\ lines' = Append(lines, l)
        /\ pt'.voff = pt.voff /\ pt'.j = pt.j + 1 /\ UNCHANGED <<call, tt, pc>>
    BY <1>0, <1>13 DEF PTSmall, AtSmallEntry, FramePT
  <2>2. L2Entry \in Descs
    BY <1>0, <1>t, <2>1 DEF L2Entry, BuffersFull, FramePT
  <2>3. l \in LineType /\ l.table = tt.table /\ l.virt = SmallVirt(pt.voff, pt.j)
    BY <1>t, <2>2, SmallVirtNat DEF Line, LineType, Kinds
  <2> QED BY <1>11, <2>1, <2>3
<1>14. CASE PTReturn
  <2>1. /\ tt'.table = tt.table /\ tt'.size = tt.size /\ tt'.voff = tt.voff
        /\ tt'.i = tt.i + 1 /\ UNCHANGED <<lines, call>>
        /\ pc = "pt_out" /\ pc' = "tt_loop"
    BY <1>0, <1>14 DEF PTReturn, FrameTT
  <2>2. tt.i < tt.size
    BY <1>0, <2>1 DEF BuffersFull, InPT
  <2>3. WalkPlace'
    BY <1>t, <2>1, <2>2 DEF OrderInv, WalkPlace, InTT, InPT
  <2>4. Cursor' = Cursor
    BY <1>t, <2>1, <2>2, SectionOrder DEF Cursor, SectionVirt
  <2>5. LinesBelowCursor' /\ LinesOfStage'
    BY <2>1, <2>4 DEF OrderInv, LinesBelowCursor, LinesOfStage, InTT
  <2>6. ListingAscends' /\ TtbrZeroBelowSplit'
    BY <2>1, NoPrintKeepsOrder DEF OrderInv
  <2> QED BY <2>3, <2>5, <2>6 DEF OrderInv
<1>15. CASE OSWrite \/ Finished \/ UNCHANGED vars
  BY <1>15 DEF OSWrite, Finished, vars, progVars, OrderInv, WalkPlace,
     LinesBelowCursor, LinesOfStage, ListingAscends, TtbrZeroBelowSplit, InTT,
     InPT, Cursor, SectionVirt, FirstTtbr1Page
<1> QED
  BY <1>1, <1>2, <1>3, <1>4, <1>5, <1>6, <1>7, <1>8, <1>9, <1>10, <1>12,
     <1>13, <1>14, <1>15
  DEF Next, Program

LEMMA OrderInvariance == Spec => []OrderInv
BY OrderInit, OrderNext, TypeInvariance, PTL DEF Spec

(* The listing ascends within each table, whatever the tables contain and  *)
(* however the operating system rewrites them during the walk.             *)
THEOREM ListingOrdered == Spec => []ListingAscends
<1>1. OrderInv => ListingAscends
  BY DEF OrderInv
<1> QED BY <1>1, OrderInvariance, PTL

(* The walk of TTBR0 never leaves TTBR0's part of the address space.       *)
THEOREM TtbrZeroStaysBelowSplit == Spec => []TtbrZeroBelowSplit
<1>1. OrderInv => TtbrZeroBelowSplit
  BY DEF OrderInv
<1> QED BY <1>1, OrderInvariance, PTL

-----------------------------------------------------------------------------
(* ArmPtPrinter implements PageListing: the order proved above of the      *)
(* lines is what allows the step that prints one to be a step of the       *)
(* abstract listing, and every other step is its end or leaves it as it    *)
(* is.  And what its lines show was in memory, at the place their          *)
(* addresses name.                                                         *)

LEMMA ListingInit == Init => Listing!Init
<1> SUFFICES ASSUME Init PROVE Listing!Init
  OBVIOUS
<1>1. call \in CallType
  BY MemoryAssumption DEF Init
<1>2. FirstTtbr1Page \in Nat
  BY <1>1, SplitIsSectionVirt, TTWordsPositive, SectionVirtNat DEF CallType
<1>3. Limit \in [Tables -> Nat]
  BY <1>2, VASizePositive DEF Limit
<1>4. Listed = <<>>
  BY DEF Init, Listed
<1>5. Over = FALSE
  BY DEF Init, Over
<1> QED BY <1>3, <1>4, <1>5 DEF Listing!Init

(* A step that prints a line which keeps the order adds it to the listing. *)
LEMMA PrintingAdds ==
  ASSUME lines \in Seq(LineType), NEW l \in LineType,
         lines' = Append(lines, l), call' = call,
         pc # "done", pc' # "done",
         l.virt \in 0 .. VASize - 1,
         ListingAscends', TtbrZeroBelowSplit'
  PROVE  Listing!AddLine
<1> DEFINE a == [table |-> l.table, page |-> l.virt, exact |-> l.kind # "large"]
           n == Len(lines) + 1
<1>1. /\ Len(lines) \in Nat
      /\ DOMAIN lines = 1..Len(lines)
      /\ DOMAIN lines' = 1..n
      /\ \A k \in 1..Len(lines) : lines'[k] = lines[k]
      /\ lines'[n] = l
      /\ l.table \in Tables
  BY DEF LineType
<1>2. /\ Len(Listed) = Len(lines)
      /\ \A k \in 1..Len(lines) :
           Listed[k] = [table |-> lines[k].table, page |-> lines[k].virt,
                        exact |-> lines[k].kind # "large"]
  BY <1>1 DEF Listed
<1>3. Listed' = Append(Listed, a) /\ Len(Listed') = n /\ Listed'[n] = a
  BY <1>1, <1>2 DEF Listed
<1>4. UNCHANGED <<Limit, Over>> /\ ~ Over
  BY DEF Limit, Over, FirstTtbr1Page
<1>5. \A k \in DOMAIN Listed :
        /\ Listed[k].table <= a.table
        /\ (Listed[k].table = a.table /\ Listed[k].exact /\ a.exact)
             => Listed[k].page < a.page
  <2> SUFFICES ASSUME NEW k \in 1..Len(lines)
               PROVE  /\ lines[k].table <= l.table
                      /\ (lines[k].table = l.table /\ lines[k].kind # "large"
                            /\ l.kind # "large") => lines[k].virt < l.virt
    BY <1>1, <1>2 DEF Listed
  <2>1. k \in DOMAIN lines' /\ n \in DOMAIN lines' /\ k < n
    BY <1>1
  <2> QED BY <1>1, <2>1 DEF ListingAscends
<1>6. a.exact => a.page < Limit[a.table]
  <2>1. CASE l.table = 0
    <3>1. n \in DOMAIN lines'
      BY <1>1
    <3>2. l.kind # "large" => l.virt < FirstTtbr1Page'
      BY <1>1, <2>1, <3>1 DEF TtbrZeroBelowSplit
    <3> QED BY <2>1, <3>2, <1>1 DEF Limit, FirstTtbr1Page
  <2>2. CASE l.table # 0
    BY <2>2, <1>1, VASizePositive DEF Limit
  <2> QED BY <2>1, <2>2
<1>7. a \in [table : Tables, page : 0 .. VASize - 1, exact : BOOLEAN]
  BY <1>1
<1> HIDE DEF a
<1> QED
  BY <1>2, <1>3, <1>4, <1>5, <1>6, <1>7
  DEF Listing!AddLine, Listing!ListLine, Listing!Follows, Listing!Line

LEMMA ListingNext ==
  TypeInv /\ OrderInv /\ OrderInv' /\ [Next]_vars
    => [Listing!Next]_<<Limit, Listed, Over>>
<1> SUFFICES ASSUME TypeInv, OrderInv, OrderInv', [Next]_vars
             PROVE  Listing!Next \/ UNCHANGED <<Limit, Listed, Over>>
  OBVIOUS
<1>0. /\ tt \in FrameTT /\ pt \in FramePT /\ lines \in Seq(LineType)
      /\ ListingAscends' /\ TtbrZeroBelowSplit' /\ BuffersFull
      /\ WalkPlace
  BY DEF TypeInv, TypeOK, OrderInv
<1>1. ASSUME UNCHANGED <<lines, call>>, (pc = "done") = (pc' = "done")
      PROVE  UNCHANGED <<Limit, Listed, Over>>
  BY <1>1 DEF Limit, Listed, Over, FirstTtbr1Page
<1>2. ASSUME UNCHANGED <<lines, call>>, pc # "done", pc' = "done"
      PROVE  Listing!EndListing
  BY <1>2 DEF Listing!EndListing, Limit, Listed, Over, FirstTtbr1Page
<1>3. CASE TTSection
  <2> DEFINE l == Line(IF L1Entry.super THEN "super" ELSE "section",
                       SectionVirt(tt.i), L1Entry)
  <2>1. tt.i \in Nat /\ tt.i < tt.size /\ tt.size <= L1Count /\ InTT
    BY <1>0, <1>3 DEF TTSection, AtEntry, FrameTT, WalkPlace, InTT
  <2>2. SectionVirt(tt.i) \in 0 .. VASize - 1
    <3>1. tt.i < L1Count
      BY <1>0, <2>1, GeometryAssumption DEF FrameTT
    <3>2. SectionVirt(tt.i) \in Nat /\ SectionVirt(tt.i) + L2Count <= VASize
      BY <2>1, <3>1, SectionsFit, SectionVirtNat
    <3> QED BY <3>2, VASizePositive, GeometryAssumption
  <2>3. L1Entry \in Descs
    BY <1>0, <1>3, <2>1, EntryIsDesc DEF TTSection, AtEntry, L1Entry, BuffersFull,
       FrameTT
  <2>4. l \in LineType
    BY <1>0, <2>2, <2>3 DEF LineType, Line, Kinds, FrameTT
  <2>5. l.virt \in 0 .. VASize - 1
    BY <2>2 DEF Line
  <2>6. lines' = Append(lines, l) /\ call' = call /\ pc # "done" /\ pc' # "done"
    BY <1>3 DEF TTSection, AtEntry
  <2> HIDE DEF l
  <2> QED BY <1>0, <2>4, <2>5, <2>6, PrintingAdds DEF Listing!Next
<1>4. CASE PTLarge
  <2> DEFINE l == Line("large", LargeVirt(pt.voff, pt.j), L2Entry)
  <2>1. LargeVirt(pt.voff, pt.j) \in 0 .. VASize - 1
    <3>1. LargeVirt(pt.voff, pt.j) < VASize /\ LargeVirt(pt.voff, pt.j) >= 0
      <4>1. pt.voff \in Nat /\ pt.j \in Nat
        BY <1>0 DEF FramePT
      <4>2. pt.j % LargeSpan \in Nat /\ pt.j % LargeSpan <= pt.j
        BY <4>1, GeometryAssumption
      <4>3. (pt.j - (pt.j % LargeSpan)) * LargeStep \in Nat
        BY <4>1, <4>2, GeometryAssumption
      <4> QED BY <4>1, <4>3, VASizePositive DEF LargeVirt
    <3>2. LargeVirt(pt.voff, pt.j) \in Nat
      BY <1>0, LargeVirtNat DEF FramePT
    <3> QED BY <3>1, <3>2, VASizePositive
  <2>3. L2Entry \in Descs
    BY <1>0, <1>4, EntryIsDesc DEF PTLarge, AtSmallEntry, L2Entry, BuffersFull,
       FramePT
  <2>4. l \in LineType
    BY <1>0, <2>1, <2>3, VASizePositive DEF LineType, Line, Kinds, FrameTT
  <2>5. l.virt \in 0 .. VASize - 1
    BY <2>1 DEF Line
  <2>6. lines' = Append(lines, l) /\ call' = call /\ pc # "done" /\ pc' # "done"
    BY <1>4 DEF PTLarge, AtSmallEntry
  <2> HIDE DEF l
  <2> QED BY <1>0, <2>4, <2>5, <2>6, PrintingAdds DEF Listing!Next
<1>5. CASE PTSmall
  <2> DEFINE l == Line("small", SmallVirt(pt.voff, pt.j), L2Entry)
  <2>1. SmallVirt(pt.voff, pt.j) \in 0 .. VASize - 1
    BY <1>0, VASizePositive DEF SmallVirt, FramePT
  <2>3. L2Entry \in Descs
    BY <1>0, <1>5, EntryIsDesc DEF PTSmall, AtSmallEntry, L2Entry, BuffersFull,
       FramePT
  <2>4. l \in LineType
    BY <1>0, <2>1, <2>3, VASizePositive DEF LineType, Line, Kinds, FrameTT
  <2>5. l.virt \in 0 .. VASize - 1
    BY <2>1 DEF Line
  <2>6. lines' = Append(lines, l) /\ call' = call /\ pc # "done" /\ pc' # "done"
    BY <1>5 DEF PTSmall, AtSmallEntry
  <2> HIDE DEF l
  <2> QED BY <1>0, <2>4, <2>5, <2>6, PrintingAdds DEF Listing!Next
<1>6. CASE RejectLpae \/ SkipTTBR1 \/ TTReturn
  BY <1>1, <1>2, <1>6 DEF RejectLpae, SkipTTBR1, TTReturn, Listing!Next
<1>7. CASE \/ Accept \/ CallTTBR0 \/ SkipTTBR0 \/ CallTTBR1 \/ TTReadWord
           \/ TTReadDone \/ TTReadFails \/ TTFault \/ TTTable \/ TTEnd
  BY <1>1, <1>7 DEF Accept, CallTTBR0, SkipTTBR0, CallTTBR1, EnterTT, TTReadWord,
     TTReadDone, TTReadFails, TTFault, TTTable, TTEnd, AtEntry
<1>8. CASE \/ PTReadWord \/ PTReadDone \/ PTReadFails \/ PTFault \/ PTEnd
           \/ PTReturn
  BY <1>1, <1>8 DEF PTReadWord, PTReadDone, PTReadFails, PTFault, PTEnd,
     PTReturn, AtSmallEntry
<1>9. CASE OSWrite \/ Finished \/ UNCHANGED vars
  BY <1>1, <1>9 DEF OSWrite, Finished, vars, progVars
<1> QED
  BY <1>3, <1>4, <1>5, <1>6, <1>7, <1>8, <1>9 DEF Next, Program

(* Every behaviour of the walker is one of the abstract listing, for every *)
(* geometry, memory, and number of writes and failures: lines appear one   *)
(* at a time, in order and in their table's part of the address space, and *)
(* nothing is printed after the end.                                       *)
THEOREM ImplementsListing == Spec => ListsInOrder
<1>1. Init => Listing!Init
  BY ListingInit
<1>2. TypeInv /\ OrderInv /\ OrderInv' /\ [Next]_vars
        => [Listing!Next]_<<Limit, Listed, Over>>
  BY ListingNext
<1> QED
  BY <1>1, <1>2, TypeInvariance, OrderInvariance, PTL
  DEF Spec, ListsInOrder, Listing!Spec

-----------------------------------------------------------------------------
(* What the lines show.                                                    *)

(* Where the processor's table t starts, for the registers c, and what the *)
(* history h says of an address: constant operators, so that they speak of *)
(* both states of a step.                                                  *)
Start(c, t) ==
  IF t = 0 THEN c.ttbr0 - (c.ttbr0 % TTWords(c.N)) ELSE c.ttbr1 - (c.ttbr1 % L1Count)

At(h, a) == IF a \in Words THEN h[a] ELSE {}

Copied(h, buf, base) ==
  \A k \in 1 .. Len(buf) : buf[k] \in At(h, base + (k - 1))

Pointed(h, a, base) == \E d \in At(h, a) : d.lo = 1 /\ base = d.base * L2Count

(* HeldL2 of the words that h says were at some time level-2 entry j of    *)
(* level-1 entry i, and what LinesExplained asks of one line.              *)
L2At(c, h, t, i, j) ==
  UNION {At(h, d1.base * L2Count + j) : d1 \in {d \in At(h, Start(c, t) + i) : d.lo = 1}}

Shows(c, h, l) ==
  CASE l.kind = "small" ->
         /\ l.desc.lo \in {2, 3}
         /\ l.desc \in L2At(c, h, l.table, l.virt \div L2Count, l.virt % L2Count)
    [] l.kind = "large" ->
         /\ l.desc.lo = 1
         /\ \E i \in 0 .. L1Count - 1, j \in 0 .. L2Count - 1 :
               /\ l.virt = LargeVirt(SectionVirt(i), j)
               /\ l.desc \in L2At(c, h, l.table, i, j)
    [] OTHER ->
         /\ l.virt % L2Count = 0
         /\ l.desc.lo \in {2, 3}
         /\ l.desc.super = (l.kind = "super")
         /\ l.desc \in At(h, Start(c, l.table) + (l.virt \div L2Count))

LinesShown == \A k \in DOMAIN lines : Shows(call, held, lines[k])

(* The two buffers hold words that memory held where they were read from,  *)
(* and the level-2 table lies where some level-1 entry pointed.            *)
CopiesHeld ==
  /\ \A w \in Words : mem[w] \in held[w]
  /\ InTT => /\ tt.base = Start(call, tt.table)
             /\ Copied(held, tt.buf, tt.base)
  /\ InPT => /\ Pointed(held, Start(call, tt.table) + tt.i, pt.base)
             /\ Copied(held, pt.buf, pt.base)

(* TTBASE is where the processor's tables start, and entries follow it.    *)
LEMMA TableStart ==
  ASSUME call \in CallType
  PROVE  /\ TTBase(call.ttbr0, call.N) = Start(call, 0)
         /\ TTBase(call.ttbr1, 0) = Start(call, 1)
         /\ \A t \in Tables : \A i : L1Address(t, i) = Start(call, t) + i
<1>1. call.N \in 0..MaxN /\ 0 \in 0..MaxN /\ call.ttbr0 \in Nat /\ call.ttbr1 \in Nat
  BY GeometryAssumption DEF CallType
<1>2. TTWords(0) = L1Count
  BY GeometryAssumption DEF TTWords
<1>3. \A a \in Nat, w \in Nat \ {0} : (a \div w) * w = a - (a % w)
  <2> SUFFICES ASSUME NEW a \in Nat, NEW w \in Nat \ {0}
               PROVE  (a \div w) * w = a - (a % w)
    OBVIOUS
  <2>1. a = w * (a \div w) + (a % w) /\ (a \div w) \in Nat /\ a % w \in Nat
    BY DivMod
  <2>2. (a \div w) * w = w * (a \div w) /\ w * (a \div w) \in Int
    BY <2>1
  <2> QED BY <2>1, <2>2
<1>4. TTWords(call.N) \in Nat \ {0} /\ L1Count \in Nat \ {0}
  BY <1>1, TTWordsPositive, GeometryAssumption
<1>5. TTBase(call.ttbr0, call.N) = Start(call, 0)
  BY <1>1, <1>3, <1>4 DEF TTBase, Start
<1>6. TTBase(call.ttbr1, 0) = Start(call, 1)
  <2>1. TTBase(call.ttbr1, 0) = (call.ttbr1 \div L1Count) * L1Count
    BY <1>2 DEF TTBase
  <2>2. Start(call, 1) = call.ttbr1 - (call.ttbr1 % L1Count)
    BY DEF Start
  <2> QED BY <1>1, <1>3, <1>4, <2>1, <2>2
<1>7. \A t \in Tables : \A i : L1Address(t, i) = Start(call, t) + i
  BY DEF L1Address, Start, Tables, TTWords
<1> QED BY <1>5, <1>6, <1>7

(* Entries of the address space, split into their two indices.             *)
LEMMA IndicesOfPage ==
  ASSUME NEW i \in Nat, NEW j \in Nat, j < L2Count
  PROVE  /\ (SectionVirt(i) + j) \div L2Count = i
         /\ (SectionVirt(i) + j) % L2Count = j
<1>1. L2Count \in Nat \ {0}
  BY GeometryAssumption
<1> QED BY <1>1 DEF SectionVirt

(* Nothing is forgotten: what explains a copy or a line goes on doing so.  *)
LEMMA CopiesGrow ==
  ASSUME NEW h, NEW g, \A w \in Words : h[w] \subseteq g[w]
  PROVE  /\ \A buf, base : Copied(h, buf, base) => Copied(g, buf, base)
         /\ \A a, base : Pointed(h, a, base) => Pointed(g, a, base)
         /\ \A c, l : Shows(c, h, l) => Shows(c, g, l)
<1>1. \A a : At(h, a) \subseteq At(g, a)
  BY DEF At
<1>2. \A buf, base : Copied(h, buf, base) => Copied(g, buf, base)
  BY <1>1 DEF Copied
<1>3. \A a, base : Pointed(h, a, base) => Pointed(g, a, base)
  BY <1>1 DEF Pointed
<1>4. \A c, t, i, j : L2At(c, h, t, i, j) \subseteq L2At(c, g, t, i, j)
  <2> SUFFICES ASSUME NEW c, NEW t, NEW i, NEW j, NEW d \in L2At(c, h, t, i, j)
               PROVE  d \in L2At(c, g, t, i, j)
    OBVIOUS
  <2>1. PICK d1 \in At(h, Start(c, t) + i) :
          d1.lo = 1 /\ d \in At(h, d1.base * L2Count + j)
    BY DEF L2At
  <2> QED BY <1>1, <2>1 DEF L2At
<1>5. ASSUME NEW c, NEW l, Shows(c, h, l)
      PROVE  Shows(c, g, l)
  <2>1. CASE l.kind = "small"
    BY <1>4, <1>5, <2>1 DEF Shows
  <2>2. CASE l.kind = "large"
    BY <1>4, <1>5, <2>2 DEF Shows
  <2>3. CASE l.kind \notin {"small", "large"}
    BY <1>1, <1>5, <2>3 DEF Shows
  <2> QED BY <2>1, <2>2, <2>3
<1> QED BY <1>2, <1>3, <1>5

(* One more word is read.                                                  *)
LEMMA WordCopied ==
  ASSUME NEW h, NEW b \in Seq(Descs), NEW base \in Nat, NEW d,
         base + Len(b) \in Words, d \in h[base + Len(b)], Copied(h, b, base)
  PROVE  Copied(h, Append(b, d), base)
<1> DEFINE c == Append(b, d)
           n == Len(b) + 1
<1>1. Len(b) \in Nat /\ Len(c) = n /\ c[n] = d /\ base + (n - 1) = base + Len(b)
  OBVIOUS
<1>2. \A k \in 1 .. Len(b) : c[k] = b[k]
  OBVIOUS
<1>3. \A k \in 1 .. n : k = n \/ k \in 1 .. Len(b)
  BY <1>1
<1>4. d \in At(h, base + (n - 1))
  BY <1>1 DEF At
<1> HIDE DEF c, n
<1>5. \A k \in 1 .. n : c[k] \in At(h, base + (k - 1))
  BY <1>1, <1>2, <1>3, <1>4 DEF Copied
<1> QED BY <1>1, <1>5 DEF Copied, c

LEMMA CopiesInit == Init => CopiesHeld /\ LinesShown
<1> SUFFICES ASSUME Init PROVE CopiesHeld /\ LinesShown
  OBVIOUS
<1>1. ~ InTT /\ ~ InPT /\ lines = <<>> /\ \A w \in Words : mem[w] \in held[w]
  BY DEF Init, InTT, InPT
<1> QED BY <1>1 DEF CopiesHeld, LinesShown

LEMMA CopiesNext ==
  ASSUME TypeInv, CopiesHeld, [Next]_vars
  PROVE  CopiesHeld'
<1>0. /\ tt \in FrameTT /\ pt \in FramePT /\ call \in CallType /\ BuffersFull
      /\ mem \in [Words -> Descs] /\ held \in [Words -> SUBSET Descs]
      /\ \A w \in Words : mem[w] \in held[w]
  BY DEF TypeInv, TypeOK, CopiesHeld
<1>t. /\ tt.i \in Nat /\ tt.size \in Nat /\ tt.base \in Nat /\ tt.table \in Tables
      /\ pt.base \in Nat /\ tt.buf \in Seq(Descs) /\ pt.buf \in Seq(Descs)
  BY <1>0 DEF FrameTT, FramePT
<1>k. ASSUME UNCHANGED <<mem, held, call>>, InTT,
             tt'.base = tt.base, tt'.buf = tt.buf, tt'.table = tt.table,
             InPT' => InPT /\ tt'.i = tt.i /\ pt'.base = pt.base /\ pt'.buf = pt.buf
      PROVE  CopiesHeld'
  BY <1>k DEF CopiesHeld
<1>1. CASE RejectLpae \/ Accept \/ SkipTTBR0 \/ SkipTTBR1 \/ TTReturn
  <2>1. UNCHANGED <<mem, held, call>> /\ ~ InTT' /\ ~ InPT'
    BY <1>1, <1>0 DEF RejectLpae, Accept, SkipTTBR0, SkipTTBR1, TTReturn, InTT, InPT,
       envVars
  <2> QED BY <2>1 DEF CopiesHeld
<1>2. CASE CallTTBR0 \/ CallTTBR1
  <2>1. /\ UNCHANGED <<mem, held, call>> /\ ~ InPT' /\ tt'.buf = <<>>
        /\ \/ tt'.table = 0 /\ tt'.base = TTBase(call.ttbr0, call.N)
           \/ tt'.table = 1 /\ tt'.base = TTBase(call.ttbr1, 0)
    BY <1>2 DEF CallTTBR0, CallTTBR1, EnterTT, envVars, InPT
  <2>2. tt'.base = Start(call, tt'.table)
    BY <1>0, <2>1, TableStart
  <2>3. Copied(held, tt'.buf, tt'.base)
    BY <2>1 DEF Copied
  <2> QED BY <2>1, <2>2, <2>3 DEF CopiesHeld
<1>3. CASE TTReadWord
  <2>1. /\ UNCHANGED <<mem, held, call>> /\ InTT /\ ~ InPT'
        /\ tt'.base = tt.base /\ tt'.table = tt.table
        /\ tt.base + Len(tt.buf) \in Words
        /\ tt'.buf = Append(tt.buf, mem[tt.base + Len(tt.buf)])
    BY <1>0, <1>3 DEF TTReadWord, FrameTT, envVars, InTT, InPT
  <2>2. Copied(held, tt'.buf, tt'.base)
    BY <1>0, <1>t, <2>1, WordCopied DEF CopiesHeld
  <2> QED BY <2>1, <2>2 DEF CopiesHeld
<1>4. CASE TTReadDone \/ TTReadFails \/ TTFault \/ TTSection \/ TTEnd \/ PTReturn
  <2>1. /\ UNCHANGED <<mem, held, call>> /\ InTT /\ ~ InPT'
        /\ tt'.base = tt.base /\ tt'.buf = tt.buf /\ tt'.table = tt.table
    BY <1>0, <1>4 DEF TTReadDone, TTReadFails, TTFault, TTSection, TTEnd, PTReturn,
       AtEntry, FrameTT, envVars, InTT, InPT
  <2> QED BY <1>k, <2>1
<1>5. CASE TTTable
  <2>1. /\ UNCHANGED <<mem, held, call, tt>> /\ InTT
        /\ pc = "tt_loop" /\ tt.i < tt.size /\ L1Entry.lo = 1
        /\ pt'.base = L1Entry.base * L2Count /\ pt'.buf = <<>>
    BY <1>5 DEF TTTable, AtEntry, PTBase, envVars, InTT
  <2>2. tt.i + 1 \in 1 .. Len(tt.buf) /\ (tt.i + 1) - 1 = tt.i
    BY <1>0, <1>t, <2>1 DEF BuffersFull
  <2>3. L1Entry \in At(held, Start(call, tt.table) + tt.i)
    BY <2>1, <2>2 DEF L1Entry, CopiesHeld, Copied
  <2>4. Pointed(held, Start(call, tt.table) + tt.i, pt'.base)
    BY <2>1, <2>3 DEF Pointed
  <2>5. Copied(held, pt'.buf, pt'.base)
    BY <2>1 DEF Copied
  <2> QED BY <2>1, <2>4, <2>5 DEF CopiesHeld
<1>6. CASE PTReadWord
  <2>1. /\ UNCHANGED <<mem, held, call, tt>> /\ InTT /\ InPT
        /\ pt'.base = pt.base
        /\ pt.base + Len(pt.buf) \in Words
        /\ pt'.buf = Append(pt.buf, mem[pt.base + Len(pt.buf)])
    BY <1>0, <1>6 DEF PTReadWord, FramePT, envVars, InTT, InPT
  <2>2. Copied(held, pt'.buf, pt'.base)
    BY <1>0, <1>t, <2>1, WordCopied DEF CopiesHeld
  <2> QED BY <2>1, <2>2 DEF CopiesHeld
<1>7. CASE PTReadDone \/ PTReadFails \/ PTFault \/ PTLarge \/ PTSmall \/ PTEnd
  <2>1. /\ UNCHANGED <<mem, held, call, tt>> /\ InTT /\ InPT
        /\ pt'.base = pt.base /\ pt'.buf = pt.buf
    BY <1>0, <1>7 DEF PTReadDone, PTReadFails, PTFault, PTLarge, PTSmall, PTEnd,
       AtSmallEntry, FramePT, envVars, InTT, InPT
  <2> QED BY <1>k, <2>1
<1>8. CASE OSWrite
  <2>1. /\ UNCHANGED <<call, pc, tt, pt>>
        /\ \A w \in Words : held[w] \subseteq held'[w] /\ mem'[w] \in held'[w]
    BY <1>0, <1>8 DEF OSWrite, progVars
  <2>2. InTT' = InTT /\ InPT' = InPT
    BY <2>1 DEF InTT, InPT
  <2> QED BY <2>1, <2>2, CopiesGrow DEF CopiesHeld
<1>9. CASE Finished \/ UNCHANGED vars
  BY <1>9 DEF Finished, vars, CopiesHeld, InTT, InPT
<1> QED
  BY <1>1, <1>2, <1>3, <1>4, <1>5, <1>6, <1>7, <1>8, <1>9 DEF Next, Program

(* A line is printed that shows what was where its address names.          *)
LEMMA LineAdded ==
  ASSUME lines \in Seq(LineType), LinesShown, NEW l, Shows(call, held, l),
         lines' = Append(lines, l), UNCHANGED <<call, held>>
  PROVE  LinesShown'
<1>1. /\ DOMAIN lines = 1..Len(lines) /\ DOMAIN lines' = 1..(Len(lines) + 1)
      /\ \A k \in 1..Len(lines) : lines'[k] = lines[k]
      /\ lines'[Len(lines) + 1] = l
      /\ \A k \in 1..(Len(lines) + 1) : k \in 1..Len(lines) \/ k = Len(lines) + 1
  OBVIOUS
<1> QED BY <1>1 DEF LinesShown

(* The entries that the two loops take from their buffers.                 *)
LEMMA L1EntryHeld ==
  ASSUME TypeInv, CopiesHeld, AtEntry
  PROVE  /\ L1Entry \in Descs
         /\ L1Entry \in At(held, Start(call, tt.table) + tt.i)
<1>1. /\ tt \in FrameTT /\ BuffersFull /\ InTT /\ pc = "tt_loop" /\ tt.i < tt.size
  BY DEF TypeInv, TypeOK, AtEntry, InTT
<1>2. tt.i \in Nat /\ tt.size \in Nat /\ tt.buf \in Seq(Descs) /\ Len(tt.buf) = tt.size
  BY <1>1 DEF FrameTT, BuffersFull
<1>3. tt.i + 1 \in 1 .. Len(tt.buf) /\ (tt.i + 1) - 1 = tt.i
  BY <1>1, <1>2
<1>4. L1Entry \in At(held, Start(call, tt.table) + tt.i)
  BY <1>1, <1>3 DEF L1Entry, CopiesHeld, Copied
<1> QED BY <1>1, <1>2, <1>4, EntryIsDesc DEF L1Entry

LEMMA L2EntryHeld ==
  ASSUME TypeInv, OrderInv, CopiesHeld, AtSmallEntry
  PROVE  /\ tt.i \in 0 .. L1Count - 1 /\ pt.j \in 0 .. L2Count - 1
         /\ pt.voff = SectionVirt(tt.i)
         /\ L2Entry \in L2At(call, held, tt.table, tt.i, pt.j)
<1>0. /\ tt \in FrameTT /\ pt \in FramePT /\ BuffersFull
      /\ WalkPlace /\ L2Count \in Nat \ {0}
  BY GeometryAssumption DEF TypeInv, TypeOK, OrderInv
<1>t. tt.i \in Nat /\ tt.size \in Nat /\ pt.j \in Nat /\ pt.buf \in Seq(Descs)
  BY <1>0 DEF FrameTT, FramePT
<1>1. InTT /\ InPT /\ pc = "pt_loop" /\ pt.j < L2Count
  BY DEF AtSmallEntry, InTT, InPT
<1>2. /\ tt.i < tt.size /\ tt.size <= L1Count /\ pt.voff = SectionVirt(tt.i)
      /\ Len(pt.buf) = L2Count
  BY <1>0, <1>1 DEF BuffersFull, WalkPlace
<1>3. pt.j + 1 \in 1 .. Len(pt.buf) /\ (pt.j + 1) - 1 = pt.j
  BY <1>0, <1>t, <1>1, <1>2
<1>4. PICK d \in At(held, Start(call, tt.table) + tt.i) :
        d.lo = 1 /\ pt.base = d.base * L2Count
  BY <1>1 DEF CopiesHeld, Pointed
<1>5. L2Entry \in At(held, d.base * L2Count + pt.j)
  BY <1>1, <1>3, <1>4 DEF L2Entry, CopiesHeld, Copied
<1>6. L2Entry \in L2At(call, held, tt.table, tt.i, pt.j)
  BY <1>4, <1>5 DEF L2At
<1>7. tt.i \in 0 .. L1Count - 1 /\ pt.j \in 0 .. L2Count - 1
  BY <1>0, <1>t, <1>1, <1>2, GeometryAssumption
<1> QED BY <1>2, <1>6, <1>7

(* The address of a small page's line.                                     *)
LEMMA SmallVirtExact ==
  ASSUME NEW i \in 0 .. L1Count - 1, NEW j \in 0 .. L2Count - 1
  PROVE  /\ SmallVirt(SectionVirt(i), j) = SectionVirt(i) + j
         /\ SectionVirt(i) + j \in Nat
         /\ (SectionVirt(i) + j) \div L2Count = i
         /\ (SectionVirt(i) + j) % L2Count = j
<1>1. /\ i \in Nat /\ i < L1Count /\ j \in Nat /\ j < L2Count /\ L2Count \in Nat
      /\ L1Count \in Nat
  BY GeometryAssumption
<1>2. SectionVirt(i) + L2Count <= VASize /\ SectionVirt(i) \in Nat
  BY <1>1, SectionsFit, SectionVirtNat
<1>3. SectionVirt(i) + j \in Nat /\ SectionVirt(i) + j < VASize /\ VASize \in Nat
  BY <1>1, <1>2, VASizePositive
<1>4. SmallVirt(SectionVirt(i), j) = SectionVirt(i) + j
  BY <1>3, ModSmall DEF SmallVirt
<1> QED BY <1>1, <1>3, <1>4, IndicesOfPage

(* The address of a section's line.                                        *)
LEMMA SectionIndex ==
  ASSUME NEW i \in Nat
  PROVE  SectionVirt(i) \div L2Count = i /\ SectionVirt(i) % L2Count = 0
<1>1. SectionVirt(i) \in Nat
  BY SectionVirtNat
<1>2. SectionVirt(i) + 0 = SectionVirt(i)
  BY <1>1
<1>3. 0 < L2Count /\ 0 \in Nat
  BY GeometryAssumption
<1> QED BY <1>2, <1>3, IndicesOfPage

LEMMA LinesNext ==
  ASSUME TypeInv, OrderInv, CopiesHeld, LinesShown, [Next]_vars
  PROVE  LinesShown'
<1>0. /\ tt \in FrameTT /\ lines \in Seq(LineType) /\ held \in [Words -> SUBSET Descs]
  BY DEF TypeInv, TypeOK
<1>t. tt.i \in Nat
  BY <1>0 DEF FrameTT
<1>1. CASE TTSection
  <2> DEFINE l == Line(IF L1Entry.super THEN "super" ELSE "section",
                       SectionVirt(tt.i), L1Entry)
  <2>1. /\ UNCHANGED <<call, held>> /\ AtEntry
        /\ L1Entry.lo \in {2, 3} /\ lines' = Append(lines, l)
    BY <1>1 DEF TTSection, envVars
  <2>2. L1Entry.super \in BOOLEAN /\ L1Entry \in At(held, Start(call, tt.table) + tt.i)
    BY <2>1, L1EntryHeld DEF Descs
  <2>3. /\ l.table = tt.table /\ l.virt = SectionVirt(tt.i) /\ l.desc = L1Entry
        /\ l.kind \notin {"small", "large"} /\ L1Entry.super = (l.kind = "super")
    BY <2>2 DEF Line
  <2> HIDE DEF l
  <2>4. SectionVirt(tt.i) \div L2Count = tt.i /\ SectionVirt(tt.i) % L2Count = 0
    BY <1>t, SectionIndex
  <2>5. Shows(call, held, l)
    BY <2>1, <2>2, <2>3, <2>4 DEF Shows
  <2> QED BY <1>0, <2>1, <2>5, LineAdded
<1>3. CASE PTLarge
  <2> DEFINE l == Line("large", LargeVirt(pt.voff, pt.j), L2Entry)
  <2>1. /\ UNCHANGED <<call, held>> /\ AtSmallEntry
        /\ L2Entry.lo = 1 /\ lines' = Append(lines, l)
    BY <1>3 DEF PTLarge, envVars
  <2>2. /\ l.table = tt.table /\ l.virt = LargeVirt(pt.voff, pt.j)
        /\ l.desc = L2Entry /\ l.kind = "large"
    BY DEF Line
  <2> HIDE DEF l
  <2>3. Shows(call, held, l)
    BY <2>1, <2>2, L2EntryHeld DEF Shows
  <2> QED BY <1>0, <2>1, <2>3, LineAdded
<1>4. CASE PTSmall
  <2> DEFINE l == Line("small", SmallVirt(pt.voff, pt.j), L2Entry)
  <2>1. /\ UNCHANGED <<call, held>> /\ AtSmallEntry
        /\ L2Entry.lo \in {2, 3} /\ lines' = Append(lines, l)
    BY <1>4 DEF PTSmall, envVars
  <2>2. /\ l.table = tt.table /\ l.virt = SmallVirt(pt.voff, pt.j)
        /\ l.desc = L2Entry /\ l.kind = "small"
    BY DEF Line
  <2> HIDE DEF l
  <2>3. /\ L2Entry \in L2At(call, held, tt.table, tt.i, pt.j)
        /\ l.virt \div L2Count = tt.i /\ l.virt % L2Count = pt.j
    BY <2>1, <2>2, L2EntryHeld, SmallVirtExact
  <2>4. Shows(call, held, l)
    BY <2>1, <2>2, <2>3 DEF Shows
  <2> QED BY <1>0, <2>1, <2>4, LineAdded
<1>5. CASE OSWrite
  <2>1. /\ UNCHANGED <<call, lines>>
        /\ \A w \in Words : held[w] \subseteq held'[w]
    BY <1>0, <1>5 DEF OSWrite, progVars
  <2> QED BY <2>1, CopiesGrow DEF LinesShown
<1>6. CASE UNCHANGED <<lines, call, held>>
  BY <1>6 DEF LinesShown
<1>7. CASE \/ RejectLpae \/ Accept \/ CallTTBR0 \/ SkipTTBR0 \/ CallTTBR1
           \/ SkipTTBR1 \/ TTReadWord \/ TTReadDone \/ TTReadFails
           \/ TTFault \/ TTTable \/ TTEnd \/ TTReturn
  BY <1>6, <1>7 DEF RejectLpae, Accept, CallTTBR0, SkipTTBR0, CallTTBR1, SkipTTBR1,
     TTReadWord, TTReadDone, TTReadFails, TTFault, TTTable, TTEnd, TTReturn, envVars
<1>8. CASE \/ PTReadWord \/ PTReadDone \/ PTReadFails \/ PTFault \/ PTEnd
           \/ PTReturn
  BY <1>6, <1>8 DEF PTReadWord, PTReadDone, PTReadFails, PTFault, PTEnd, PTReturn,
     envVars
<1>9. CASE Finished \/ UNCHANGED vars
  BY <1>6, <1>9 DEF Finished, vars
<1> QED
  BY <1>1, <1>3, <1>4, <1>5, <1>7, <1>8, <1>9 DEF Next, Program

LEMMA ShownIsExplained == TypeInv /\ LinesShown => LinesExplained
<1> SUFFICES ASSUME TypeInv, LinesShown, NEW k \in DOMAIN lines
             PROVE  LET l == lines[k]
                        i == l.virt \div L2Count
                    IN CASE l.kind = "small" ->
                              /\ l.desc.lo \in {2, 3}
                              /\ l.desc \in HeldL2(l.table, i, l.virt % L2Count)
                         [] l.kind = "large" ->
                              /\ l.desc.lo = 1
                              /\ \E i1 \in 0 .. L1Count - 1, j \in 0 .. L2Count - 1 :
                                    /\ l.virt = LargeVirt(SectionVirt(i1), j)
                                    /\ l.desc \in HeldL2(l.table, i1, j)
                         [] OTHER ->
                              /\ l.virt % L2Count = 0
                              /\ l.desc.lo \in {2, 3}
                              /\ l.desc.super = (l.kind = "super")
                              /\ l.desc \in HeldAt(L1Address(l.table, i))
  BY DEF LinesExplained
<1> DEFINE l == lines[k]
<1>1. l \in LineType /\ Shows(call, held, l) /\ call \in CallType
  BY DEF TypeInv, TypeOK, LinesShown
<1>2. l.table \in Tables
  BY <1>1 DEF LineType
<1> HIDE DEF l
<1>3. \A i : L1Address(l.table, i) = Start(call, l.table) + i
  BY <1>1, <1>2, TableStart
<1>4. \A a : HeldAt(a) = At(held, a)
  BY DEF HeldAt, At
<1>5. \A i, j : HeldL2(l.table, i, j) = L2At(call, held, l.table, i, j)
  BY <1>3, <1>4 DEF HeldL2, L2At
<1>6. CASE l.kind = "small"
  BY <1>1, <1>5, <1>6 DEF Shows, l
<1>7. CASE l.kind = "large"
  BY <1>1, <1>5, <1>7 DEF Shows, l
<1>8. CASE l.kind \notin {"small", "large"}
  BY <1>1, <1>3, <1>4, <1>8 DEF Shows, l
<1> QED BY <1>6, <1>7, <1>8

(* Whatever the tables hold and however they are rewritten during the      *)
(* walk, each printed line shows a descriptor that memory held at the      *)
(* place in the tables that the line's virtual address names.              *)
THEOREM LinesCorrect == Spec => []LinesExplained
<1>1. Init => CopiesHeld /\ LinesShown
  BY CopiesInit
<1>2. TypeInv /\ OrderInv /\ (CopiesHeld /\ LinesShown) /\ [Next]_vars
        => (CopiesHeld /\ LinesShown)'
  BY CopiesNext, LinesNext
<1>3. TypeInv /\ CopiesHeld /\ LinesShown => LinesExplained
  BY ShownIsExplained
<1> QED BY <1>1, <1>2, <1>3, TypeInvariance, OrderInvariance, PTL DEF Spec

-----------------------------------------------------------------------------
(* The listing and the processor's translation.  Again as constant         *)
(* operators: c the registers, m memory, L the tables not read, v a page.  *)
Own(c, v) == IF c.N = 0 \/ v < VASize \div 2^c.N THEN 0 ELSE 1

Ttbr(c, t) == IF t = 0 THEN c.ttbr0 ELSE c.ttbr1

Hidden(c, L, v) ==
  \/ Ttbr(c, Own(c, v)) = 0
  \/ <<Own(c, v), -1>> \in L
  \/ <<Own(c, v), v \div L2Count>> \in L

D1(c, m, v) == m[Start(c, Own(c, v)) + (v \div L2Count)]
D2(c, m, v) == m[(D1(c, m, v).base * L2Count) + (v % L2Count)]
Leaf(c, m, v) == IF D1(c, m, v).lo = 1 THEN D2(c, m, v) ELSE D1(c, m, v)

Cov(c, l, v) ==
  /\ l.table = Own(c, v)
  /\ \/ l.kind = "small" /\ l.virt = v
     \/ l.kind \in {"section", "super"} /\ l.virt = v - (v % L2Count)

(* How far the walk of the table is.                                       *)
Bound ==
  CASE pc = "tt_read" -> 0
    [] pc \in {"tt_loop", "pt_read"} -> SectionVirt(tt.i)
    [] pc = "pt_loop" -> SectionVirt(tt.i) + pt.j
    [] pc = "pt_out" -> SectionVirt(tt.i) + L2Count
    [] OTHER -> VASize

Passed(v) ==
  \/ pc = "done"
  \/ pc = "ttbr1" /\ Own(call, v) = 0
  \/ InTT /\ Own(call, v) < tt.table
  \/ InTT /\ Own(call, v) = tt.table /\ v < Bound

(* With tables that do not change, each page that the walk has passed is   *)
(* hidden by a table that was not read, not mapped, or covered by a line.  *)
Complete ==
  (writes = 0 /\ ~ call.lpae) =>
    \A v \in 0 .. VASize - 1 :
      Passed(v) => \/ Hidden(call, lost, v)
                   \/ Leaf(call, mem, v).lo \notin {2, 3}
                   \/ \E k \in DOMAIN lines : Cov(call, lines[k], v)

(* Tables are found unreadable in the order of the walk, and what they     *)
(* would have shown is not listed.                                         *)
LostInv ==
  /\ pc \in {"start", "ttbr0"} => lost = {}
  /\ (pc = "ttbr1" \/ (InTT /\ tt.table = 0)) => \A x : <<1, x>> \notin lost
  /\ InTT => /\ Ttbr(call, tt.table) # 0
             /\ \A x : <<tt.table, x>> \in lost =>
                   \/ pc = "tt_out"
                   \/ x \in 0 .. tt.i - 1
                   \/ x = tt.i /\ pc = "pt_out"
  /\ \A k \in DOMAIN lines :
       lines[k].kind # "large" =>
         /\ Ttbr(call, lines[k].table) # 0
         /\ <<lines[k].table, -1>> \notin lost
         /\ <<lines[k].table, lines[k].virt \div L2Count>> \notin lost

OnlyStored == writes = 0 => \A w \in Words : held[w] = {mem[w]}

FullTtbr1 == (InTT /\ tt.table = 1) => tt.size = L1Count

TranslationInv == OnlyStored /\ LostInv /\ FullTtbr1 /\ Complete

LEMMA TranslationInit == Init => TranslationInv
<1> SUFFICES ASSUME Init PROVE TranslationInv
  OBVIOUS
<1>1. ~ InTT /\ pc = "start" /\ lines = <<>> /\ DOMAIN lines = {} /\ lost = {}
  BY DEF Init, InTT
<1>2. OnlyStored
  BY DEF Init, OnlyStored
<1>3. LostInv
  BY <1>1 DEF LostInv
<1>4. Complete
  BY <1>1 DEF Complete, Passed
<1>5. FullTtbr1
  BY <1>1 DEF FullTtbr1
<1> QED BY <1>2, <1>3, <1>4, <1>5 DEF TranslationInv

LEMMA FullNext ==
  ASSUME TypeInv, FullTtbr1, [Next]_vars
  PROVE  FullTtbr1'
<1>1. CASE CallTTBR0 \/ CallTTBR1
  <2>1. TTWords(0) = L1Count
    BY GeometryAssumption DEF TTWords
  <2>2. tt'.table = 0 \/ tt'.size = TTWords(0)
    BY <1>1 DEF CallTTBR0, CallTTBR1, EnterTT
  <2> QED BY <2>1, <2>2 DEF FullTtbr1
<1>2. CASE UNCHANGED <<pc, tt>>
  BY <1>2 DEF FullTtbr1, InTT
<1>3. CASE RejectLpae \/ Accept \/ SkipTTBR0 \/ SkipTTBR1 \/ TTReturn
  BY <1>3 DEF RejectLpae, Accept, SkipTTBR0, SkipTTBR1, TTReturn, FullTtbr1, InTT
<1>4. CASE \/ TTReadWord \/ TTReadDone \/ TTReadFails \/ TTFault \/ TTSection
           \/ TTTable \/ TTEnd
  <2>1. InTT /\ tt'.table = tt.table /\ tt'.size = tt.size
    BY <1>4 DEF TypeInv, TypeOK, FrameTT, TTReadWord, TTReadDone, TTReadFails,
       TTFault, TTSection, TTTable, TTEnd, AtEntry, InTT
  <2> QED BY <2>1 DEF FullTtbr1
<1>5. CASE \/ PTReadWord \/ PTReadDone \/ PTReadFails \/ PTFault \/ PTLarge
           \/ PTSmall \/ PTEnd \/ PTReturn
  <2>1. InTT /\ tt'.table = tt.table /\ tt'.size = tt.size
    BY <1>5 DEF TypeInv, TypeOK, FrameTT, PTReadWord, PTReadDone, PTReadFails,
       PTFault, PTLarge, PTSmall, PTEnd, PTReturn, AtSmallEntry, InTT
  <2> QED BY <2>1 DEF FullTtbr1
<1>6. CASE OSWrite \/ Finished \/ UNCHANGED vars
  BY <1>2, <1>6 DEF OSWrite, progVars, Finished, vars
<1> QED
  BY <1>1, <1>3, <1>4, <1>5, <1>6 DEF Next, Program

LEMMA StoredNext ==
  ASSUME TypeInv, OnlyStored, [Next]_vars
  PROVE  OnlyStored'
<1>1. CASE OSWrite
  <2>1. writes' = writes + 1 /\ writes \in Nat
    BY <1>1, MemoryAssumption DEF OSWrite, TypeInv, TypeOK
  <2>2. writes' # 0
    BY <2>1
  <2> QED BY <2>2 DEF OnlyStored
<1>2. CASE UNCHANGED <<mem, writes, held>>
  BY <1>2 DEF OnlyStored
<1>3. CASE Program
  BY <1>2, <1>3 DEF Program, RejectLpae, Accept, CallTTBR0, SkipTTBR0, CallTTBR1,
     SkipTTBR1, TTReadWord, TTReadDone, TTReadFails, TTFault, TTSection, TTTable,
     TTEnd, TTReturn, PTReadWord, PTReadDone, PTReadFails, PTFault, PTLarge, PTSmall,
     PTEnd, PTReturn, envVars
<1>4. CASE Finished \/ UNCHANGED vars
  BY <1>2, <1>4 DEF Finished, vars
<1> QED BY <1>1, <1>3, <1>4 DEF Next

(* The pages of one section.                                               *)
LEMMA PagesOfSection ==
  ASSUME NEW i \in Nat, NEW v \in Nat
  PROVE  /\ (SectionVirt(i) <= v /\ v < SectionVirt(i) + L2Count)
              => v \div L2Count = i /\ v % L2Count = v - SectionVirt(i)
         /\ v - (v % L2Count) = SectionVirt(v \div L2Count)
         /\ v \div L2Count \in Nat /\ v % L2Count \in Nat
<1>1. L2Count \in Nat \ {0} /\ SectionVirt(i) \in Nat
  BY GeometryAssumption, SectionVirtNat
<1>2. ASSUME SectionVirt(i) <= v, v < SectionVirt(i) + L2Count
      PROVE  v \div L2Count = i /\ v % L2Count = v - SectionVirt(i)
  <2> DEFINE j == v - SectionVirt(i)
  <2>1. j \in Nat /\ j < L2Count /\ SectionVirt(i) + j = v
    BY <1>1, <1>2
  <2> HIDE DEF j
  <2>2. v \div L2Count = i /\ v % L2Count = j
    BY <2>1, IndicesOfPage
  <2> QED BY <2>2 DEF j
<1>3. v \div L2Count \in Nat /\ v = L2Count * (v \div L2Count) + (v % L2Count)
      /\ v % L2Count \in Nat
  BY <1>1, DivMod
<1>4. v - (v % L2Count) = SectionVirt(v \div L2Count)
  <2>1. L2Count * (v \div L2Count) = (v \div L2Count) * L2Count
        /\ L2Count * (v \div L2Count) \in Nat
    BY <1>1, <1>3
  <2> QED BY <1>3, <2>1 DEF SectionVirt
<1> QED BY <1>2, <1>3, <1>4

(* Lines of the table being walked are of level-1 entries passed already.  *)
LEMMA LinesAreBehind ==
  ASSUME TypeInv, OrderInv, InTT, pc # "pt_out", pc # "pt_loop",
         NEW k \in DOMAIN lines, lines[k].kind # "large", lines[k].table = tt.table
  PROVE  lines[k].virt \div L2Count # tt.i /\ pc # "tt_read"
<1>1. /\ tt \in FrameTT /\ lines \in Seq(LineType) /\ BuffersFull
      /\ L2Count \in Nat \ {0}
  BY GeometryAssumption DEF TypeInv, TypeOK
<1>2. tt.i \in Nat /\ lines[k].virt \in Nat /\ (pc = "tt_read" => tt.i = 0)
  <2>1. lines[k] \in LineType
    BY <1>1
  <2> QED BY <1>1, <2>1 DEF FrameTT, LineType, BuffersFull
<1>3. lines[k].virt < SectionVirt(tt.i) /\ SectionVirt(tt.i) \in Nat
  BY <1>2, SectionVirtNat DEF OrderInv, LinesBelowCursor, Cursor
<1>4. pc # "tt_read"
  <2> SUFFICES ASSUME tt.i = 0 PROVE FALSE
    BY <1>2
  <2>1. SectionVirt(tt.i) = 0
    BY <1>1 DEF SectionVirt
  <2> QED BY <1>2, <1>3, <2>1
<1>5. lines[k].virt \div L2Count # tt.i
  <2> SUFFICES ASSUME lines[k].virt \div L2Count = tt.i PROVE FALSE
    OBVIOUS
  <2>1. lines[k].virt - (lines[k].virt % L2Count) = SectionVirt(tt.i)
    BY <1>2, PagesOfSection
  <2>2. lines[k].virt % L2Count \in Nat
    BY <1>2, PagesOfSection
  <2> QED BY <1>2, <1>3, <2>1, <2>2
<1> QED BY <1>4, <1>5

(* A line of a level-1 entry whose tables were read.                       *)
LEMMA LineOfReadTable ==
  ASSUME lines \in Seq(LineType), LostInv, InTT, tt.i \in Nat,
         pc \in {"tt_loop", "pt_loop"},
         NEW l, lines' = Append(lines, l), UNCHANGED <<call, lost>>,
         l.kind # "large" => l.table = tt.table /\ l.virt \div L2Count = tt.i
  PROVE  \A k \in DOMAIN lines' :
           lines'[k].kind # "large" =>
             /\ Ttbr(call', lines'[k].table) # 0
             /\ <<lines'[k].table, -1>> \notin lost'
             /\ <<lines'[k].table, lines'[k].virt \div L2Count>> \notin lost'
<1>1. /\ DOMAIN lines = 1..Len(lines) /\ DOMAIN lines' = 1..(Len(lines) + 1)
      /\ \A k \in 1..Len(lines) : lines'[k] = lines[k]
      /\ lines'[Len(lines) + 1] = l
      /\ \A k \in 1..(Len(lines) + 1) : k \in 1..Len(lines) \/ k = Len(lines) + 1
  OBVIOUS
<1>2. /\ Ttbr(call, tt.table) # 0
      /\ <<tt.table, -1>> \notin lost /\ <<tt.table, tt.i>> \notin lost
  <2>1. \A x : <<tt.table, x>> \in lost => x \in 0 .. tt.i - 1
    BY DEF LostInv
  <2>2. -1 \notin 0 .. tt.i - 1 /\ tt.i \notin 0 .. tt.i - 1
    OBVIOUS
  <2> QED BY <2>1, <2>2 DEF LostInv
<1> QED BY <1>1, <1>2 DEF LostInv

LEMMA LostNext ==
  ASSUME TypeInv, OrderInv, LostInv, [Next]_vars
  PROVE  LostInv'
<1>0. /\ tt \in FrameTT /\ pt \in FramePT /\ lines \in Seq(LineType) /\ BuffersFull
      /\ L2Count \in Nat \ {0}
  BY GeometryAssumption DEF TypeInv, TypeOK
<1>t. tt.i \in Nat /\ tt.size \in Nat /\ tt.table \in Tables
  BY <1>0 DEF FrameTT
<1>k. ASSUME UNCHANGED <<lines, call, lost>>
      PROVE  \A k \in DOMAIN lines' :
               lines'[k].kind # "large" =>
                 /\ Ttbr(call', lines'[k].table) # 0
                 /\ <<lines'[k].table, -1>> \notin lost'
                 /\ <<lines'[k].table, lines'[k].virt \div L2Count>> \notin lost'
  BY <1>k DEF LostInv
<1>1. CASE RejectLpae \/ Accept \/ SkipTTBR0 \/ SkipTTBR1 \/ TTReturn
  <2>1. /\ UNCHANGED <<lines, call, lost>> /\ ~ InTT'
        /\ pc' = "ttbr0" => pc = "start"
        /\ pc' = "ttbr1" => pc = "ttbr0" \/ (InTT /\ tt.table = 0)
        /\ pc' # "start"
    BY <1>1 DEF RejectLpae, Accept, SkipTTBR0, SkipTTBR1, TTReturn, InTT
  <2> QED BY <1>k, <2>1 DEF LostInv
<1>2. CASE CallTTBR0
  <2>1. /\ UNCHANGED <<lines, call, lost>> /\ pc' = "tt_read" /\ lost = {}
        /\ tt'.table = 0 /\ Ttbr(call, 0) # 0
    BY <1>2 DEF CallTTBR0, EnterTT, LostInv, Ttbr
  <2> QED BY <1>k, <2>1 DEF LostInv
<1>3. CASE CallTTBR1
  <2>1. /\ UNCHANGED <<lines, call, lost>> /\ pc' = "tt_read"
        /\ \A x : <<1, x>> \notin lost
        /\ tt'.table = 1 /\ Ttbr(call, 1) # 0
    BY <1>3 DEF CallTTBR1, EnterTT, LostInv, Ttbr
  <2> QED BY <1>k, <2>1 DEF LostInv
<1>4. CASE TTReadFails
  <2>1. /\ UNCHANGED <<lines, call, tt>> /\ pc = "tt_read" /\ pc' = "tt_out" /\ InTT
        /\ lost' = lost \cup {<<tt.table, -1>>}
    BY <1>4 DEF TTReadFails, InTT
  <2>2. \A k \in DOMAIN lines : lines[k].kind # "large" => lines[k].table # tt.table
    BY <2>1, LinesAreBehind
  <2>3. \A k \in DOMAIN lines' :
          lines'[k].kind # "large" =>
            /\ Ttbr(call', lines'[k].table) # 0
            /\ <<lines'[k].table, -1>> \notin lost'
            /\ <<lines'[k].table, lines'[k].virt \div L2Count>> \notin lost'
    BY <2>1, <2>2 DEF LostInv
  <2>4. ASSUME tt.table = 0, NEW x
        PROVE  <<1, x>> \notin lost'
    <3>1. <<1, x>> \notin lost
      BY <2>1, <2>4 DEF LostInv
    <3>2. <<1, x>> # <<tt.table, -1>>
      BY <2>4
    <3> QED BY <2>1, <3>1, <3>2
  <2> QED BY <2>1, <2>3, <2>4 DEF LostInv
<1>5. CASE TTFault \/ TTSection \/ PTReturn
  <2>1. /\ UNCHANGED <<call, lost>> /\ InTT /\ pc' = "tt_loop"
        /\ pc \in {"tt_loop", "pt_out"}
        /\ tt'.table = tt.table /\ tt'.i = tt.i + 1
    BY <1>0, <1>5 DEF TTFault, TTSection, PTReturn, AtEntry, FrameTT, InTT
  <2>2. \A x : <<tt.table, x>> \in lost => x \in 0 .. tt'.i - 1
    <3> SUFFICES ASSUME NEW x, <<tt.table, x>> \in lost PROVE x \in 0 .. tt.i
      BY <1>t, <2>1
    <3>1. x \in 0 .. tt.i - 1 \/ x = tt.i
      BY <2>1 DEF LostInv
    <3> QED BY <1>t, <3>1
  <2>3. \A k \in DOMAIN lines' :
          lines'[k].kind # "large" =>
            /\ Ttbr(call', lines'[k].table) # 0
            /\ <<lines'[k].table, -1>> \notin lost'
            /\ <<lines'[k].table, lines'[k].virt \div L2Count>> \notin lost'
    <3>1. CASE TTSection
      <4> DEFINE l == Line(IF L1Entry.super THEN "super" ELSE "section",
                           SectionVirt(tt.i), L1Entry)
      <4>1. lines' = Append(lines, l) /\ pc = "tt_loop"
        BY <3>1 DEF TTSection, AtEntry
      <4>2. l.table = tt.table /\ l.virt = SectionVirt(tt.i)
        BY DEF Line
      <4> HIDE DEF l
      <4>3. l.virt \div L2Count = tt.i
        BY <1>t, <4>2, SectionIndex
      <4> QED BY <1>0, <1>t, <2>1, <4>1, <4>2, <4>3, LineOfReadTable
    <3>2. CASE TTFault \/ PTReturn
      BY <1>k, <2>1, <3>2 DEF TTFault, PTReturn
    <3> QED BY <1>5, <3>1, <3>2
  <2> QED BY <2>1, <2>2, <2>3 DEF LostInv
<1>6. CASE TTReadWord \/ TTReadDone \/ TTTable \/ TTEnd
  <2>1. /\ UNCHANGED <<lines, call, lost>> /\ InTT
        /\ pc \in {"tt_read", "tt_loop"}
        /\ pc' \in {"tt_read", "tt_loop", "tt_out", "pt_read"}
        /\ tt'.table = tt.table /\ tt'.i = tt.i
    BY <1>0, <1>6 DEF TTReadWord, TTReadDone, TTTable, TTEnd, AtEntry, FrameTT, InTT
  <2> QED BY <1>k, <2>1 DEF LostInv
<1>7. CASE PTReadFails
  <2>1. /\ UNCHANGED <<lines, call, tt>> /\ pc = "pt_read" /\ pc' = "pt_out" /\ InTT
        /\ lost' = lost \cup {<<tt.table, tt.i>>}
    BY <1>7 DEF PTReadFails, InTT
  <2>2. \A k \in DOMAIN lines :
          lines[k].kind # "large" /\ lines[k].table = tt.table
             => lines[k].virt \div L2Count # tt.i
    BY <2>1, LinesAreBehind
  <2>3. -1 # tt.i
    BY <1>t
  <2>4. \A k \in DOMAIN lines' :
          lines'[k].kind # "large" =>
            /\ Ttbr(call', lines'[k].table) # 0
            /\ <<lines'[k].table, -1>> \notin lost'
            /\ <<lines'[k].table, lines'[k].virt \div L2Count>> \notin lost'
    BY <2>1, <2>2, <2>3 DEF LostInv
  <2>5. ASSUME tt.table = 0, NEW x
        PROVE  <<1, x>> \notin lost'
    <3>1. <<1, x>> \notin lost
      BY <2>1, <2>5 DEF LostInv
    <3>2. <<1, x>> # <<tt.table, tt.i>>
      BY <2>5
    <3> QED BY <2>1, <3>1, <3>2
  <2> QED BY <2>1, <2>4, <2>5 DEF LostInv
<1>8. CASE PTReadWord \/ PTReadDone \/ PTFault \/ PTEnd
  <2>1. /\ UNCHANGED <<lines, call, lost, tt>> /\ InTT
        /\ pc \in {"pt_read", "pt_loop"} /\ pc' \in {"pt_read", "pt_loop", "pt_out"}
    BY <1>8 DEF PTReadWord, PTReadDone, PTFault, PTEnd, AtSmallEntry, InTT
  <2> QED BY <1>k, <2>1 DEF LostInv
<1>9. CASE PTLarge \/ PTSmall
  <2>1. /\ UNCHANGED <<call, lost, tt>> /\ InTT /\ AtSmallEntry
        /\ pc = "pt_loop" /\ pc' = "pt_loop"
    BY <1>9 DEF PTLarge, PTSmall, AtSmallEntry, InTT
  <2>2. PICK l : /\ lines' = Append(lines, l)
                 /\ l.kind # "large" => l.table = tt.table
                                        /\ l.virt = SmallVirt(pt.voff, pt.j)
    BY <1>9 DEF PTLarge, PTSmall, Line
  <2>3. SmallVirt(pt.voff, pt.j) \div L2Count = tt.i
    <3>1. /\ tt.i \in 0 .. L1Count - 1 /\ pt.j \in 0 .. L2Count - 1
          /\ pt.voff = SectionVirt(tt.i)
      <4>1. WalkPlace /\ InPT /\ pt.j < L2Count /\ tt.i < tt.size
        BY <1>0, <2>1 DEF OrderInv, AtSmallEntry, InPT, BuffersFull
      <4>2. tt.size <= L1Count /\ pt.voff = SectionVirt(tt.i) /\ pt.j \in Nat
        BY <1>0, <2>1, <4>1 DEF WalkPlace, FramePT
      <4> QED BY <1>0, <1>t, <4>1, <4>2, GeometryAssumption
    <3> QED BY <3>1, SmallVirtExact
  <2>4. \A k \in DOMAIN lines' :
          lines'[k].kind # "large" =>
            /\ Ttbr(call', lines'[k].table) # 0
            /\ <<lines'[k].table, -1>> \notin lost'
            /\ <<lines'[k].table, lines'[k].virt \div L2Count>> \notin lost'
    BY <1>0, <1>t, <2>1, <2>2, <2>3, LineOfReadTable
  <2> QED BY <2>1, <2>4 DEF LostInv
<1>10. CASE OSWrite \/ Finished \/ UNCHANGED vars
  <2>1. UNCHANGED <<call, pc, tt, pt, lost, lines>>
    BY <1>10 DEF OSWrite, progVars, Finished, vars
  <2> QED BY <1>k, <2>1 DEF LostInv, InTT
<1> QED
  BY <1>1, <1>2, <1>3, <1>4, <1>5, <1>6, <1>7, <1>8, <1>9, <1>10
  DEF Next, Program

(* While nothing is stored, what the loops look at is what memory holds.   *)
LEMMA L1EntryIsD1 ==
  ASSUME TypeInv, CopiesHeld, OnlyStored, writes = 0, AtEntry,
         NEW v \in Nat, Own(call, v) = tt.table,
         SectionVirt(tt.i) <= v, v < SectionVirt(tt.i) + L2Count
  PROVE  D1(call, mem, v) = L1Entry /\ v \div L2Count = tt.i
         /\ v - (v % L2Count) = SectionVirt(tt.i)
<1>1. tt.i \in Nat
  BY DEF TypeInv, TypeOK, FrameTT
<1>2. v \div L2Count = tt.i /\ v - (v % L2Count) = SectionVirt(tt.i)
  BY <1>1, PagesOfSection
<1> DEFINE a == Start(call, tt.table) + tt.i
<1>3. L1Entry \in At(held, a)
  BY L1EntryHeld
<1>4. D1(call, mem, v) = mem[a]
  BY <1>2 DEF D1
<1> HIDE DEF a
<1>5. L1Entry = mem[a]
  BY <1>3 DEF At, OnlyStored
<1> QED BY <1>2, <1>4, <1>5

LEMMA L2EntryIsLeaf ==
  ASSUME TypeInv, OrderInv, CopiesHeld, OnlyStored, writes = 0, AtSmallEntry,
         NEW v \in Nat, Own(call, v) = tt.table, v = SectionVirt(tt.i) + pt.j
  PROVE  Leaf(call, mem, v) = L2Entry
<1>1. /\ tt.i \in 0 .. L1Count - 1 /\ pt.j \in 0 .. L2Count - 1
      /\ L2Entry \in L2At(call, held, tt.table, tt.i, pt.j)
  BY L2EntryHeld
<1>2. v \div L2Count = tt.i /\ v % L2Count = pt.j
  BY <1>1, SmallVirtExact
<1>3. \A a : \A d \in At(held, a) : d = mem[a]
  BY DEF At, OnlyStored
<1> DEFINE a == Start(call, tt.table) + tt.i
<1>4. PICK d \in At(held, a) :
        d.lo = 1 /\ L2Entry \in At(held, d.base * L2Count + pt.j)
  BY <1>1 DEF L2At
<1>5. d = mem[a] /\ L2Entry = mem[d.base * L2Count + pt.j]
  BY <1>3, <1>4
<1>6. D1(call, mem, v) = d
  BY <1>2, <1>5 DEF D1
<1>7. D2(call, mem, v) = L2Entry
  BY <1>2, <1>5, <1>6 DEF D2
<1> QED BY <1>4, <1>6, <1>7 DEF Leaf

(* What a step has to show: the pages it passes.                           *)
LEMMA CompleteKept ==
  ASSUME Complete, UNCHANGED <<mem, writes, call>>, lost \subseteq lost',
         \A k \in DOMAIN lines : k \in DOMAIN lines' /\ lines'[k] = lines[k],
         ASSUME writes = 0, ~ call.lpae, NEW v \in 0 .. VASize - 1,
                Passed(v)', ~ Passed(v)
         PROVE  \/ Hidden(call, lost', v)
                \/ Leaf(call, mem, v).lo \notin {2, 3}
                \/ \E k \in DOMAIN lines' : Cov(call, lines'[k], v)
  PROVE  Complete'
<1>1. ASSUME writes = 0, ~ call.lpae, NEW v \in 0 .. VASize - 1, Passed(v)'
      PROVE  \/ Hidden(call, lost', v)
             \/ Leaf(call, mem, v).lo \notin {2, 3}
             \/ \E k \in DOMAIN lines' : Cov(call, lines'[k], v)
  <2>1. CASE ~ Passed(v)
    BY <1>1, <2>1
  <2>2. CASE Passed(v)
    <3>1. \/ Hidden(call, lost, v)
          \/ Leaf(call, mem, v).lo \notin {2, 3}
          \/ \E k \in DOMAIN lines : Cov(call, lines[k], v)
      BY <1>1, <2>2 DEF Complete
    <3>2. Hidden(call, lost, v) => Hidden(call, lost', v)
      BY DEF Hidden
    <3> QED BY <3>1, <3>2
  <2> QED BY <2>1, <2>2
<1> QED BY <1>1 DEF Complete

LEMMA LineIsLast ==
  ASSUME lines \in Seq(LineType), NEW l, lines' = Append(lines, l)
  PROVE  /\ \A k \in DOMAIN lines : k \in DOMAIN lines' /\ lines'[k] = lines[k]
         /\ \E k \in DOMAIN lines' : lines'[k] = l
<1>1. Len(lines) + 1 \in DOMAIN lines' /\ lines'[Len(lines) + 1] = l
  OBVIOUS
<1>2. \A k \in DOMAIN lines : k \in DOMAIN lines' /\ lines'[k] = lines[k]
  OBVIOUS
<1> QED BY <1>1, <1>2

LEMMA CompleteNext ==
  ASSUME TypeInv, OrderInv, CopiesHeld, TranslationInv, [Next]_vars
  PROVE  Complete'
<1>0. /\ tt \in FrameTT /\ pt \in FramePT /\ lines \in Seq(LineType) /\ BuffersFull
      /\ WalkPlace /\ Complete /\ OnlyStored /\ call \in CallType
      /\ L2Count \in Nat \ {0} /\ VASize \in Nat
  BY GeometryAssumption, VASizePositive
  DEF TypeInv, TypeOK, OrderInv, TranslationInv
<1>t. /\ tt.i \in Nat /\ tt.size \in Nat /\ tt.table \in Tables /\ pt.j \in Nat
      /\ SectionVirt(tt.i) \in Nat
  BY <1>0, SectionVirtNat DEF FrameTT, FramePT
<1>o. \A v : Own(call, v) \in Tables
  BY DEF Own, Tables
<1>k. ASSUME UNCHANGED <<mem, writes, call, lines, lost>>,
             \A v \in 0 .. VASize - 1 : Passed(v)' => Passed(v)
      PROVE  Complete'
  BY <1>0, <1>k, CompleteKept
<1>1. CASE RejectLpae
  BY <1>1 DEF RejectLpae, Complete
<1>2. CASE Accept \/ CallTTBR0
  <2>1. /\ UNCHANGED <<mem, writes, call, lines, lost>>
        /\ \/ ~ InTT' /\ pc' = "ttbr0"
           \/ tt'.table = 0 /\ pc' = "tt_read"
    BY <1>2 DEF Accept, CallTTBR0, EnterTT, envVars, InTT
  <2>2. \A v \in 0 .. VASize - 1 : ~ Passed(v)'
    BY <1>o, <2>1 DEF Passed, Bound, Tables
  <2> QED BY <1>k, <2>1, <2>2
<1>3. CASE SkipTTBR0
  <2>1. /\ UNCHANGED <<mem, writes, call, lines, lost>>
        /\ pc' = "ttbr1" /\ ~ InTT' /\ call.ttbr0 = 0
    BY <1>3 DEF SkipTTBR0, envVars, InTT
  <2>2. ASSUME NEW v, Passed(v)'
        PROVE  Hidden(call, lost', v)
    BY <2>1, <2>2 DEF Passed, Hidden, Ttbr
  <2> QED BY <1>0, <2>1, <2>2, CompleteKept
<1>4. CASE CallTTBR1
  <2>1. /\ UNCHANGED <<mem, writes, call, lines, lost>> /\ pc = "ttbr1"
        /\ tt'.table = 1 /\ pc' = "tt_read"
    BY <1>4 DEF CallTTBR1, EnterTT, envVars
  <2>2. \A v \in 0 .. VASize - 1 : Passed(v)' => Passed(v)
    BY <1>o, <2>1 DEF Passed, Bound, Tables
  <2> QED BY <1>k, <2>1, <2>2
<1>5. CASE SkipTTBR1
  <2>1. /\ UNCHANGED <<mem, writes, call, lines, lost>> /\ pc = "ttbr1"
        /\ call.N = 0 \/ call.ttbr1 = 0
    BY <1>5 DEF SkipTTBR1, envVars
  <2>2. ASSUME NEW v, ~ Passed(v)
        PROVE  Hidden(call, lost', v)
    BY <1>o, <2>1, <2>2 DEF Passed, Hidden, Ttbr, Own, Tables
  <2> QED BY <1>0, <2>1, <2>2, CompleteKept
<1>6. CASE TTReadWord \/ TTReadDone \/ TTTable
  <2>1. /\ UNCHANGED <<mem, writes, call, lines, lost>> /\ InTT
        /\ tt'.table = tt.table /\ tt'.i = tt.i
        /\ \/ pc = "tt_read" /\ pc' \in {"tt_read", "tt_loop"} /\ tt.i = 0
           \/ pc = "tt_loop" /\ pc' = "pt_read"
    BY <1>0, <1>6 DEF TTReadWord, TTReadDone, TTTable, AtEntry, FrameTT, envVars,
       InTT, BuffersFull
  <2>2. SectionVirt(0) = 0
    BY <1>0 DEF SectionVirt
  <2>3. Bound' = Bound
    BY <2>1, <2>2 DEF Bound, SectionVirt
  <2>4. \A v \in 0 .. VASize - 1 : Passed(v)' => Passed(v)
    BY <2>1, <2>3 DEF Passed
  <2> QED BY <1>k, <2>1, <2>4
<1>7. CASE TTReadFails
  <2>1. /\ UNCHANGED <<mem, writes, call, lines, tt>> /\ InTT /\ pc' = "tt_out"
        /\ lost' = lost \cup {<<tt.table, -1>>}
    BY <1>7 DEF TTReadFails, envVars, InTT
  <2>2. ASSUME NEW v, Passed(v)', ~ Passed(v)
        PROVE  Hidden(call, lost', v)
    BY <2>1, <2>2 DEF Passed, Hidden
  <2> QED BY <1>0, <2>1, <2>2, CompleteKept
<1>8. CASE TTFault \/ TTSection
  <2>1. /\ UNCHANGED <<mem, writes, call, lost>> /\ InTT /\ AtEntry
        /\ pc = "tt_loop" /\ pc' = "tt_loop"
        /\ tt'.table = tt.table /\ tt'.i = tt.i + 1
    BY <1>0, <1>8 DEF TTFault, TTSection, AtEntry, FrameTT, envVars, InTT
  <2>2. Bound = SectionVirt(tt.i) /\ Bound' = SectionVirt(tt.i) + L2Count
    BY <1>t, <2>1, SectionOrder DEF Bound, SectionVirt
  <2>3. ASSUME writes = 0, NEW v \in 0 .. VASize - 1, Passed(v)', ~ Passed(v)
        PROVE  /\ Own(call, v) = tt.table
               /\ D1(call, mem, v) = L1Entry
               /\ v - (v % L2Count) = SectionVirt(tt.i)
    <3>1. /\ Own(call, v) = tt.table
          /\ v < SectionVirt(tt.i) + L2Count /\ ~ (v < SectionVirt(tt.i))
      BY <2>1, <2>2, <2>3 DEF Passed
    <3>2. v \in Nat /\ SectionVirt(tt.i) <= v
      BY <1>0, <1>t, <3>1
    <3> QED BY <1>0, <2>1, <2>3, <3>1, <3>2, L1EntryIsD1
  <2>4. CASE TTFault
    <3>1. L1Entry.lo = 0 /\ lines' = lines
      BY <2>4 DEF TTFault
    <3>2. ASSUME writes = 0, NEW v \in 0 .. VASize - 1, Passed(v)', ~ Passed(v)
          PROVE  Leaf(call, mem, v).lo \notin {2, 3}
      BY <2>3, <3>1, <3>2 DEF Leaf
    <3> QED BY <1>0, <2>1, <3>1, <3>2, CompleteKept
  <2>5. CASE TTSection
    <3> DEFINE l == Line(IF L1Entry.super THEN "super" ELSE "section",
                         SectionVirt(tt.i), L1Entry)
    <3>1. lines' = Append(lines, l)
      BY <2>5 DEF TTSection
    <3>2. /\ l.table = tt.table /\ l.virt = SectionVirt(tt.i)
          /\ l.kind \in {"section", "super"}
      BY DEF Line
    <3> HIDE DEF l
    <3>3. /\ \A k \in DOMAIN lines : k \in DOMAIN lines' /\ lines'[k] = lines[k]
          /\ \E k \in DOMAIN lines' : lines'[k] = l
      BY <1>0, <3>1, LineIsLast
    <3>4. ASSUME writes = 0, NEW v \in 0 .. VASize - 1, Passed(v)', ~ Passed(v)
          PROVE  \E k \in DOMAIN lines' : Cov(call, lines'[k], v)
      <4>1. Cov(call, l, v)
        BY <2>3, <3>2, <3>4 DEF Cov
      <4> QED BY <3>3, <4>1
    <3> QED BY <1>0, <2>1, <3>3, <3>4, CompleteKept
  <2> QED BY <1>8, <2>4, <2>5
<1>9. CASE TTEnd
  <2>1. /\ UNCHANGED <<mem, writes, call, lines, lost, tt>> /\ InTT
        /\ pc = "tt_loop" /\ pc' = "tt_out" /\ tt.i = tt.size
    BY <1>9 DEF TTEnd, envVars, InTT
  <2>2. Bound = SectionVirt(tt.size)
    BY <2>1 DEF Bound
  <2>3. tt.table = 0 => SectionVirt(tt.size) = VASize \div 2^call.N
    BY <1>0, <2>1, SplitIsSectionVirt DEF WalkPlace, FirstTtbr1Page
  <2>4. tt.table = 1 => SectionVirt(tt.size) = VASize
    BY <2>1 DEF TranslationInv, FullTtbr1, SectionVirt, VASize
  <2>5. ASSUME NEW v \in 0 .. VASize - 1, Passed(v)'
        PROVE  Passed(v)
    <3>1. Own(call, v) < tt.table \/ Own(call, v) = tt.table
      BY <2>1, <2>5 DEF Passed
    <3>2. CASE Own(call, v) < tt.table
      BY <2>1, <3>2 DEF Passed
    <3>3. CASE Own(call, v) = tt.table /\ tt.table = 1
      BY <1>0, <2>1, <2>2, <2>4, <3>3 DEF Passed
    <3>4. CASE Own(call, v) = tt.table /\ tt.table = 0
      <4>1. call.N = 0 => VASize \div 2^call.N = VASize
        <5>1. 2^0 = 1
          OBVIOUS
        <5>2. VASize \div 1 = VASize
          BY <1>0
        <5> QED BY <5>1, <5>2
      <4>2. v < VASize \div 2^call.N
        BY <1>0, <3>4, <4>1 DEF Own
      <4> QED BY <2>1, <2>2, <2>3, <3>4, <4>2 DEF Passed
    <3> QED BY <1>t, <3>1, <3>2, <3>3, <3>4 DEF Tables
  <2> QED BY <1>k, <2>1, <2>5
<1>10. CASE TTReturn
  <2>1. /\ UNCHANGED <<mem, writes, call, lines, lost>> /\ InTT /\ ~ InTT'
        /\ pc = "tt_out" /\ pc' = IF tt.table = 0 THEN "ttbr1" ELSE "done"
    BY <1>10 DEF TTReturn, envVars, InTT
  <2>2. Bound = VASize
    BY <2>1 DEF Bound
  <2>3. ASSUME NEW v \in 0 .. VASize - 1, Passed(v)'
        PROVE  Passed(v)
    <3>1. Own(call, v) < tt.table \/ Own(call, v) = tt.table
      BY <1>o, <1>t, <2>1, <2>3 DEF Passed, Tables
    <3>2. v < Bound
      BY <1>0, <2>2
    <3> QED BY <2>1, <3>1, <3>2 DEF Passed
  <2> QED BY <1>k, <2>1, <2>3
<1>11. CASE PTReadWord \/ PTReadDone \/ PTEnd \/ PTReturn
  <2>1. /\ UNCHANGED <<mem, writes, call, lines, lost>> /\ InTT
        /\ tt'.table = tt.table
        /\ \/ pc = "pt_read" /\ pc' = "pt_read" /\ tt'.i = tt.i
           \/ pc = "pt_read" /\ pc' = "pt_loop" /\ tt'.i = tt.i /\ pt'.j = 0
           \/ pc = "pt_loop" /\ pc' = "pt_out" /\ tt'.i = tt.i /\ pt.j = L2Count
           \/ pc = "pt_out" /\ pc' = "tt_loop" /\ tt'.i = tt.i + 1
    BY <1>0, <1>11 DEF PTReadWord, PTReadDone, PTEnd, PTReturn, FrameTT, FramePT,
       envVars, InTT, BuffersFull
  <2>2. SectionVirt(tt.i + 1) = SectionVirt(tt.i) + L2Count
    BY <1>t, SectionOrder
  <2>3. Bound' = Bound
    BY <1>t, <2>1, <2>2 DEF Bound, SectionVirt
  <2>4. \A v \in 0 .. VASize - 1 : Passed(v)' => Passed(v)
    BY <2>1, <2>3 DEF Passed
  <2> QED BY <1>k, <2>1, <2>4
<1>12. CASE PTReadFails
  <2>1. /\ UNCHANGED <<mem, writes, call, lines, tt>> /\ InTT
        /\ pc = "pt_read" /\ pc' = "pt_out"
        /\ lost' = lost \cup {<<tt.table, tt.i>>}
    BY <1>12 DEF PTReadFails, envVars, InTT
  <2>2. Bound = SectionVirt(tt.i) /\ Bound' = SectionVirt(tt.i) + L2Count
    BY <2>1 DEF Bound, SectionVirt
  <2>3. ASSUME NEW v \in 0 .. VASize - 1, Passed(v)', ~ Passed(v)
        PROVE  Hidden(call, lost', v)
    <3>1. /\ Own(call, v) = tt.table
          /\ v < SectionVirt(tt.i) + L2Count /\ ~ (v < SectionVirt(tt.i))
      BY <2>1, <2>2, <2>3 DEF Passed
    <3>2. v \in Nat /\ SectionVirt(tt.i) <= v
      BY <1>0, <1>t, <3>1
    <3>3. v \div L2Count = tt.i
      BY <1>t, <3>1, <3>2, PagesOfSection
    <3> QED BY <2>1, <3>1, <3>3 DEF Hidden
  <2> QED BY <1>0, <2>1, <2>3, CompleteKept
<1>13. CASE PTFault \/ PTLarge \/ PTSmall
  <2>1. /\ UNCHANGED <<mem, writes, call, lost, tt>> /\ InTT /\ AtSmallEntry
        /\ pc = "pt_loop" /\ pc' = "pt_loop" /\ pt'.j = pt.j + 1
    BY <1>0, <1>13 DEF PTFault, PTLarge, PTSmall, AtSmallEntry, FramePT, envVars, InTT
  <2>2. Bound = SectionVirt(tt.i) + pt.j /\ Bound' = SectionVirt(tt.i) + (pt.j + 1)
    BY <2>1 DEF Bound, SectionVirt
  <2>3. ASSUME writes = 0, NEW v \in 0 .. VASize - 1, Passed(v)', ~ Passed(v)
        PROVE  /\ Own(call, v) = tt.table
               /\ v = SectionVirt(tt.i) + pt.j
               /\ Leaf(call, mem, v) = L2Entry
    <3>1. /\ Own(call, v) = tt.table
          /\ v < SectionVirt(tt.i) + (pt.j + 1) /\ ~ (v < SectionVirt(tt.i) + pt.j)
      BY <2>1, <2>2, <2>3 DEF Passed
    <3>2. v \in Nat /\ v = SectionVirt(tt.i) + pt.j
      BY SMTT(30), <1>0, <1>t, <3>1
    <3> QED BY <1>0, <2>1, <2>3, <3>1, <3>2, L2EntryIsLeaf
  <2>4. CASE PTFault
    <3>1. L2Entry.lo = 0 /\ lines' = lines
      BY <2>4 DEF PTFault
    <3>2. ASSUME writes = 0, NEW v \in 0 .. VASize - 1, Passed(v)', ~ Passed(v)
          PROVE  Leaf(call, mem, v).lo \notin {2, 3}
      BY <2>3, <3>1, <3>2
    <3> QED BY <1>0, <2>1, <3>1, <3>2, CompleteKept
  <2>5. CASE PTLarge
    <3>1. L2Entry.lo = 1
      BY <2>5 DEF PTLarge
    <3>2. PICK l : lines' = Append(lines, l)
      BY <2>5 DEF PTLarge
    <3>3. \A k \in DOMAIN lines : k \in DOMAIN lines' /\ lines'[k] = lines[k]
      BY <1>0, <3>2, LineIsLast
    <3>4. ASSUME writes = 0, NEW v \in 0 .. VASize - 1, Passed(v)', ~ Passed(v)
          PROVE  Leaf(call, mem, v).lo \notin {2, 3}
      BY <2>3, <3>1, <3>4
    <3> QED BY <1>0, <2>1, <3>3, <3>4, CompleteKept
  <2>6. CASE PTSmall
    <3> DEFINE l == Line("small", SmallVirt(pt.voff, pt.j), L2Entry)
    <3>1. lines' = Append(lines, l)
      BY <2>6 DEF PTSmall
    <3>2. l.table = tt.table /\ l.kind = "small" /\ l.virt = SmallVirt(pt.voff, pt.j)
      BY DEF Line
    <3> HIDE DEF l
    <3>3. l.virt = SectionVirt(tt.i) + pt.j
      BY <2>1, <3>2, L2EntryHeld, SmallVirtExact
    <3>4. /\ \A k \in DOMAIN lines : k \in DOMAIN lines' /\ lines'[k] = lines[k]
          /\ \E k \in DOMAIN lines' : lines'[k] = l
      BY <1>0, <3>1, LineIsLast
    <3>5. ASSUME writes = 0, NEW v \in 0 .. VASize - 1, Passed(v)', ~ Passed(v)
          PROVE  \E k \in DOMAIN lines' : Cov(call, lines'[k], v)
      <4>1. Cov(call, l, v)
        BY <2>3, <3>2, <3>3, <3>5 DEF Cov
      <4> QED BY <3>4, <4>1
    <3> QED BY <1>0, <2>1, <3>4, <3>5, CompleteKept
  <2> QED BY <1>13, <2>4, <2>5, <2>6
<1>14. CASE OSWrite
  <2>1. writes' = writes + 1 /\ writes \in Nat
    BY <1>14, MemoryAssumption DEF OSWrite, TypeInv, TypeOK
  <2>2. writes' # 0
    BY <2>1
  <2> QED BY <2>2 DEF Complete
<1>15. CASE Finished \/ UNCHANGED vars
  <2>1. UNCHANGED <<mem, writes, call, lines, lost, pc, tt, pt>>
    BY <1>15 DEF Finished, vars
  <2>2. \A v \in 0 .. VASize - 1 : Passed(v)' => Passed(v)
    BY <2>1 DEF Passed, Bound, SectionVirt, InTT
  <2> QED BY <1>k, <2>1, <2>2
<1> QED
  BY <1>1, <1>2, <1>3, <1>4, <1>5, <1>6, <1>7, <1>8, <1>9, <1>10, <1>11, <1>12,
     <1>13, <1>14, <1>15
  DEF Next, Program

LEMMA TranslationNext ==
  ASSUME TypeInv, OrderInv, CopiesHeld, TranslationInv, [Next]_vars
  PROVE  TranslationInv'
BY StoredNext, LostNext, FullNext, CompleteNext DEF TranslationInv

(* What the covering lines show: each the page's own descriptor.           *)
LEMMA CoveringLineIsLeaf ==
  ASSUME TypeInv, OnlyStored, LinesShown, writes = 0,
         NEW v \in 0 .. VASize - 1, NEW k \in DOMAIN lines, Cov(call, lines[k], v)
  PROVE  /\ lines[k].desc = Leaf(call, mem, v)
         /\ Leaf(call, mem, v).lo \in {2, 3}
         /\ lines[k].kind = "small" <=> D1(call, mem, v).lo = 1
         /\ lines[k].virt \div L2Count = v \div L2Count
<1> DEFINE l == lines[k]
           a == Start(call, Own(call, v)) + (v \div L2Count)
<1>1. v \in Nat /\ Shows(call, held, l) /\ l.table = Own(call, v)
  BY VASizePositive DEF LinesShown, Cov
<1>2. v \div L2Count \in Nat /\ v - (v % L2Count) = SectionVirt(v \div L2Count)
  BY <1>1, PagesOfSection
<1>3. \A b : \A d \in At(held, b) : d = mem[b]
  BY DEF At, OnlyStored
<1>4. D1(call, mem, v) = mem[a]
  BY DEF D1
<1>c. Cov(call, l, v)
  OBVIOUS
<1> HIDE DEF l
<1>5. CASE l.kind = "small"
  <2>1. l.virt = v /\ l.desc.lo \in {2, 3}
    BY <1>1, <1>5, <1>c DEF Cov, Shows
  <2>2. l.desc \in L2At(call, held, Own(call, v), v \div L2Count, v % L2Count)
    BY <1>1, <1>5, <2>1 DEF Shows
  <2>3. PICK d \in At(held, a) :
          d.lo = 1 /\ l.desc \in At(held, d.base * L2Count + (v % L2Count))
    BY <2>2 DEF L2At
  <2>4. d = D1(call, mem, v) /\ l.desc = mem[d.base * L2Count + (v % L2Count)]
    BY <1>3, <1>4, <2>3
  <2>5. l.desc = D2(call, mem, v)
    BY <2>4 DEF D2
  <2> QED BY <1>5, <2>1, <2>3, <2>4, <2>5 DEF Leaf, l
<1>6. CASE l.kind \in {"section", "super"}
  <2>1. l.virt = SectionVirt(v \div L2Count)
    BY <1>2, <1>6, <1>c DEF Cov
  <2>2. l.virt \div L2Count = v \div L2Count
    BY <1>2, <2>1, SectionIndex
  <2>3. l.desc.lo \in {2, 3} /\ l.desc \in At(held, a)
    BY <1>1, <1>6, <2>2 DEF Shows
  <2>4. l.desc = D1(call, mem, v)
    BY <1>3, <1>4, <2>3
  <2> QED BY <1>6, <2>2, <2>3, <2>4 DEF Leaf, l
<1> QED BY <1>5, <1>6, <1>c DEF Cov

LEMMA DoneMatches ==
  ASSUME TypeInv, OrderInv, LinesShown, TranslationInv
  PROVE  ListingMatchesTranslation
<1> SUFFICES ASSUME pc = "done", writes = 0, ~ call.lpae,
                    NEW v \in 0 .. VASize - 1
             PROVE  /\ {lines[k].desc : k \in Shown(v)}
                         = IF Unread(v) THEN {} ELSE Translation(v)
                    /\ Cardinality(Shown(v)) <= 1
  BY DEF ListingMatchesTranslation
<1> DEFINE f == Leaf(call, mem, v)
<1>0. /\ lines \in Seq(LineType) /\ call \in CallType /\ OnlyStored /\ LostInv
      /\ ListingAscends
  BY DEF TypeInv, TypeOK, TranslationInv, OrderInv
<1>1. /\ Owner(v) = Own(call, v) /\ Own(call, v) \in Tables
      /\ Unread(v) <=> Hidden(call, lost, v)
  BY DEF Owner, Own, FirstTtbr1Page, Tables, Unread, Hidden, Ttbr
<1>2. \A k \in DOMAIN lines : k \in Shown(v) <=> Cov(call, lines[k], v)
  BY <1>1 DEF Shown, Covers, Cov
<1>3. Translation(v) = {d \in {f} : d.lo \in {2, 3}}
  <2>1. L1Address(Owner(v), v \div L2Count)
          = Start(call, Own(call, v)) + (v \div L2Count)
    BY <1>0, <1>1, TableStart
  <2> QED BY <2>1 DEF Translation, Leaf, D1, D2
<1>4. ASSUME NEW k \in Shown(v)
      PROVE  /\ k \in DOMAIN lines /\ Cov(call, lines[k], v)
             /\ lines[k].desc = f /\ f.lo \in {2, 3}
             /\ lines[k].kind = "small" <=> D1(call, mem, v).lo = 1
             /\ ~ Hidden(call, lost, v)
  <2>1. k \in DOMAIN lines /\ Cov(call, lines[k], v)
    BY <1>2 DEF Shown
  <2>2. /\ lines[k].desc = f /\ f.lo \in {2, 3}
        /\ lines[k].kind = "small" <=> D1(call, mem, v).lo = 1
        /\ lines[k].virt \div L2Count = v \div L2Count
    BY <1>0, <2>1, CoveringLineIsLeaf
  <2>3. lines[k].kind # "large" /\ lines[k].table = Own(call, v)
    BY <2>1 DEF Cov
  <2>4. ~ Hidden(call, lost, v)
    BY <1>0, <2>1, <2>2, <2>3 DEF LostInv, Hidden
  <2> QED BY <2>1, <2>2, <2>4
<1>5. ASSUME NEW k \in Shown(v), NEW m \in Shown(v)
      PROVE  k = m
  <2>1. /\ Cov(call, lines[k], v) /\ Cov(call, lines[m], v)
        /\ (lines[k].kind = "small") = (lines[m].kind = "small")
        /\ k \in DOMAIN lines /\ m \in DOMAIN lines
    BY <1>4
  <2>2. /\ lines[k].table = lines[m].table /\ lines[k].virt = lines[m].virt
        /\ "large" \notin {lines[k].kind, lines[m].kind}
    BY <2>1 DEF Cov
  <2>3. lines[k].virt \in Nat /\ k \in Nat /\ m \in Nat
    <3>1. lines[k] \in LineType
      BY <1>0, <2>1
    <3> QED BY <1>0, <2>1, <3>1 DEF LineType
  <2>4. ~ (lines[k].virt < lines[m].virt) /\ ~ (lines[m].virt < lines[k].virt)
    BY <2>2, <2>3
  <2>5. ~ (k < m) /\ ~ (m < k)
    BY <1>0, <2>1, <2>2, <2>4 DEF ListingAscends
  <2> QED BY <2>3, <2>5
<1>6. CASE Shown(v) = {}
  <2>1. ~ Unread(v) => f.lo \notin {2, 3}
    BY <1>1, <1>2, <1>6 DEF TranslationInv, Complete, Passed
  <2>2. Cardinality(Shown(v)) = 0
    BY <1>6, FS_EmptySet
  <2>3. {lines[k].desc : k \in Shown(v)} = {}
    BY <1>6
  <2>4. ~ Unread(v) => Translation(v) = {}
    BY <1>3, <2>1
  <2> QED BY <2>2, <2>3, <2>4
<1>7. CASE Shown(v) # {}
  <2>1. PICK k \in Shown(v) : TRUE
    BY <1>7
  <2>2. Shown(v) = {k}
    BY <1>5, <2>1
  <2>3. Cardinality(Shown(v)) = 1
    BY <2>2, FS_Singleton
  <2>4. lines[k].desc = f /\ f.lo \in {2, 3} /\ ~ Unread(v)
    BY <1>1, <1>4, <2>1
  <2>5. {lines[m].desc : m \in Shown(v)} = {f}
    BY <2>2, <2>4
  <2>6. Translation(v) = {f}
    BY <1>3, <2>4
  <2> QED BY <2>3, <2>4, <2>5, <2>6
<1> QED BY <1>6, <1>7

(* While memory does not change, the finished listing is the processor's   *)
(* own translation of every page by sections and small pages, for tables   *)
(* of any geometry and content: the page's descriptor on one such line if  *)
(* one of them maps it and its tables could be read, and no such line if   *)
(* not.  Large pages are left out: their addresses are wrong.              *)
THEOREM TranslationCorrect == Spec => []ListingMatchesTranslation
<1> DEFINE Inv == CopiesHeld /\ LinesShown /\ TranslationInv
<1>1. Init => Inv
  BY CopiesInit, TranslationInit
<1>2. TypeInv /\ OrderInv /\ Inv /\ [Next]_vars => Inv'
  BY CopiesNext, LinesNext, TranslationNext
<1>3. TypeInv /\ OrderInv /\ Inv => ListingMatchesTranslation
  BY DoneMatches
<1> QED BY <1>1, <1>2, <1>3, TypeInvariance, OrderInvariance, PTL DEF Spec
=============================================================================
