--------------------------- MODULE X86WalkProofs ---------------------------
(***************************************************************************)
(* Theorems about X86Walk for tables of any size, every memory and every   *)
(* number of writes and failures: types, the order of the lines, that each *)
(* line shows an entry that memory held at the place it names, and that    *)
(* the listing of memory that does not change is its translation.          *)
(***************************************************************************)
EXTENDS X86Walk, SequenceTheorems, TLAPS

(* The tables above the running function's are full copies, and their      *)
(* functions wait at an entry; those below have not begun.                 *)
Place ==
  /\ \A m \in Levels :
       m > level => frame[m].i < Entries /\ Len(frame[m].buf) = Entries
  /\ \A m \in 1..3 : m < level => frame[m].i = 0
  /\ pc = "loop" => Len(frame[level].buf) = Entries
  /\ pc = "read" => frame[level].i = 0 /\ Len(frame[level].buf) <= Entries

Typed == TypeOK /\ Place

LEMMA Constants ==
  /\ Entries \in Nat \ {0} /\ 0 \in Indices /\ Indices \subseteq Nat
  /\ 0 \in Frames /\ Frames \subseteq Nat
  /\ MaxWrites \in Nat /\ MaxFails \in Nat
  /\ Zero \in EntryType
BY WalkAssumption DEF Indices, Zero, EntryType

LEMMA AddressType ==
  ASSUME NEW e \in EntryType
  PROVE  Address(e) \in [avail : 0..1, base : Nat]
BY Constants DEF Address, EntryType

LEMMA FreshFrame ==
  ASSUME NEW a \in [avail : 0..1, base : Nat], NEW f \in FrameType
  PROVE  LET g == [f EXCEPT !.addr = a]
         IN  g \in FrameType /\ g.addr = a /\ g.i = f.i /\ g.buf = f.buf
BY DEF FrameType

LEMMA MovedFrame ==
  ASSUME NEW f \in FrameType
  PROVE  LET g == [f EXCEPT !.i = @ + 1]
         IN  /\ g.i = f.i + 1 /\ g.buf = f.buf /\ g.addr = f.addr
             /\ f.i < Entries => g \in FrameType
<1> DEFINE g == [f EXCEPT !.i = @ + 1]
<1>1. g.i = f.i + 1 /\ g.buf = f.buf /\ g.addr = f.addr
  BY DEF FrameType
<1>2. ASSUME f.i < Entries PROVE g \in FrameType
  <2>1. f.i + 1 \in 0 .. Entries
    BY <1>2, Constants DEF FrameType
  <2> QED BY <2>1 DEF FrameType
<1> QED BY <1>1, <1>2

LEMMA IdleType ==
  Idle \in FrameType /\ Idle.i = 0 /\ Idle.buf = <<>> /\ Len(Idle.buf) = 0
<1>1. Address(Zero) \in [avail : 0..1, base : Nat]
  BY AddressType, Constants
<1>2. <<>> \in Seq(EntryType) /\ 0 \in 0 .. Entries
  BY Constants
<1> QED BY <1>1, <1>2 DEF Idle, FrameType

LEMMA PathType ==
  ASSUME Typed, NEW l \in Levels, l >= level
  PROVE  /\ PathTo(l) \in Seq(Indices) /\ Len(PathTo(l)) = 4 - l
         /\ \A k \in 1 .. 4 - l : PathTo(l)[k] = frame[5 - k].i
<1>1. \A k \in 1 .. 4 - l : frame[5 - k].i \in Indices
  <2> SUFFICES ASSUME NEW k \in 1 .. 4 - l PROVE frame[5 - k].i \in Indices
    OBVIOUS
  <2>1. 5 - k \in Levels /\ 5 - k > level
    BY DEF Levels, Typed, TypeOK
  <2>2. frame[5 - k].i < Entries /\ frame[5 - k].i \in 0 .. Entries
    BY <2>1 DEF Typed, TypeOK, Place, FrameType
  <2> QED BY <2>2, Constants DEF Indices
<1>2. 4 - l \in Nat
  BY DEF Levels
<1> QED BY <1>1, <1>2 DEF PathTo

(* What the running function reads from its copy.                          *)
LEMMA EntryTyped ==
  ASSUME Typed, AtEntry
  PROVE  /\ level \in Levels /\ Current.i \in Indices /\ Entry \in EntryType
         /\ Append(PathTo(level), Current.i) \in Seq(Indices)
<1>1. level \in Levels
  BY DEF Typed, TypeOK, AtEntry, Levels
<1>2. /\ Current.i \in 0 .. Entries /\ Current.i < Entries
      /\ Current.buf \in Seq(EntryType) /\ Len(Current.buf) = Entries
  BY <1>1 DEF Typed, TypeOK, AtEntry, Place, Current, FrameType
<1>3. Entry \in EntryType
  BY <1>2, Constants, ElementOfSeq DEF Entry
<1>4. Current.i \in Indices
  BY <1>2, Constants DEF Indices
<1> QED BY <1>1, <1>3, <1>4, PathType, AppendProperties DEF Levels

LEMMA LineTyped ==
  ASSUME Typed, AtEntry, NEW kind \in {"table", "page"}
  PROVE  Line(kind) \in LineType
BY EntryTyped DEF Line, LineType

-----------------------------------------------------------------------------
(* What the steps that change the frames do to them                        *)

LEMMA AdvanceFrames ==
  ASSUME TypeOK, level \in Levels, Advance
  PROVE  /\ DOMAIN frame' = Levels
         /\ frame'[level].i = frame[level].i + 1
         /\ frame'[level].buf = frame[level].buf
         /\ frame'[level].addr = frame[level].addr
         /\ \A m \in Levels \ {level} : frame'[m] = frame[m]
         /\ frame[level].i < Entries => frame' \in [Levels -> FrameType]
<1>1. frame \in [Levels -> FrameType] /\ frame[level] \in FrameType
  BY DEF TypeOK
<1>2. frame' = [frame EXCEPT ![level] = [frame[level] EXCEPT !.i = @ + 1]]
  BY <1>1 DEF Advance
<1> DEFINE f == [frame[level] EXCEPT !.i = @ + 1]
<1>3. /\ f.i = frame[level].i + 1 /\ f.buf = frame[level].buf
      /\ f.addr = frame[level].addr
      /\ frame[level].i < Entries => f \in FrameType
  BY <1>1, MovedFrame
<1> HIDE DEF f
<1> QED BY <1>1, <1>2, <1>3 DEF f

LEMMA DescendFrames ==
  ASSUME Typed, level \in Levels \ {1}, Entry \in EntryType, Descend
  PROVE  /\ level' = level - 1 /\ level' \in Levels /\ pc' = "read"
         /\ frame' \in [Levels -> FrameType]
         /\ frame'[level - 1].addr = Address(Entry)
         /\ frame'[level - 1].i = 0 /\ frame'[level - 1].buf = <<>>
         /\ \A m \in Levels \ {level - 1} : frame'[m] = frame[m]
<1>1. frame \in [Levels -> FrameType] /\ level - 1 \in Levels
  BY DEF Typed, TypeOK, Levels
<1> DEFINE f == [Idle EXCEPT !.addr = Address(Entry)]
<1>2. /\ f \in FrameType /\ f.addr = Address(Entry) /\ f.i = 0 /\ f.buf = <<>>
  BY AddressType, IdleType, FreshFrame
<1>3. frame' = [frame EXCEPT ![level - 1] = f] /\ level' = level - 1 /\ pc' = "read"
  BY DEF Descend
<1> HIDE DEF f
<1> QED BY <1>1, <1>2, <1>3

LEMMA ResumeFrames ==
  ASSUME Typed, NEW l \in 1..3, l = level, Resume(l)
  PROVE  /\ level' = l + 1 /\ level' \in Levels /\ pc' = "loop"
         /\ frame' \in [Levels -> FrameType]
         /\ frame'[l].i = 0
         /\ frame'[l + 1].i = frame[l + 1].i + 1
         /\ frame'[l + 1].buf = frame[l + 1].buf
         /\ frame'[l + 1].addr = frame[l + 1].addr
         /\ \A m \in Levels \ {l, l + 1} : frame'[m] = frame[m]
<1>1. /\ frame \in [Levels -> FrameType] /\ l \in Levels /\ l + 1 \in Levels
      /\ frame[l + 1] \in FrameType /\ frame[l + 1].i < Entries
  BY DEF Typed, TypeOK, Place, Levels
<1> DEFINE f == [frame[l + 1] EXCEPT !.i = @ + 1]
<1>2. /\ f.i = frame[l + 1].i + 1 /\ f.buf = frame[l + 1].buf
      /\ f.addr = frame[l + 1].addr /\ f \in FrameType
  BY <1>1, MovedFrame
<1>3. frame' = [frame EXCEPT ![l + 1].i = @ + 1, ![l] = Idle]
      /\ level' = l + 1 /\ pc' = "loop"
  BY DEF Resume
<1>4. [frame EXCEPT ![l + 1].i = @ + 1] = [frame EXCEPT ![l + 1] = f]
  BY <1>1
<1> HIDE DEF f
<1>5. frame' = [[frame EXCEPT ![l + 1] = f] EXCEPT ![l] = Idle]
  BY <1>3, <1>4
<1>6. Idle \in FrameType /\ Idle.i = 0
  BY IdleType
<1> QED BY <1>1, <1>2, <1>3, <1>5, <1>6
-----------------------------------------------------------------------------
(* Types                                                                   *)

LEMMA ResumeTyped ==
  ASSUME Typed, level \in Levels, Resume(level)
  PROVE  /\ frame' \in [Levels -> FrameType] /\ level' \in 1..5
         /\ pc' \in {"loop", "done"}
         /\ level' = 5 <=> pc' = "done"
         /\ Place'
<1>1. CASE level = 4
  <2>1. level' = 5 /\ pc' = "done" /\ frame' = frame
    BY <1>1 DEF Resume
  <2> QED BY <1>1, <2>1 DEF Typed, TypeOK, Place, Levels
<1>2. CASE level \in 1..3
  <2> DEFINE l == level
  <2>1. /\ level' = l + 1 /\ level' \in Levels /\ pc' = "loop"
        /\ frame' \in [Levels -> FrameType]
        /\ frame'[l].i = 0
        /\ frame'[l + 1].buf = frame[l + 1].buf
        /\ \A m \in Levels \ {l, l + 1} : frame'[m] = frame[m]
    BY <1>2, ResumeFrames
  <2>2. l + 1 \in Levels /\ Len(frame[l + 1].buf) = Entries
    BY <1>2 DEF Typed, Place, Levels
  <2>3. \A m \in Levels :
          m > l + 1 => frame'[m].i < Entries /\ Len(frame'[m].buf) = Entries
    BY <1>2, <2>1 DEF Typed, Place, Levels
  <2>4. \A m \in 1..3 : m < l + 1 => frame'[m].i = 0
    BY <1>2, <2>1 DEF Typed, Place, Levels
  <2> HIDE DEF l
  <2> QED BY <2>1, <2>2, <2>3, <2>4 DEF Place, Levels
<1> QED BY <1>1, <1>2 DEF Levels

LEMMA AdvanceTyped ==
  ASSUME Typed, AtEntry, pc' = pc, level' = level, Advance
  PROVE  frame' \in [Levels -> FrameType] /\ Place'
<1>1. /\ level \in Levels /\ pc = "loop" /\ frame[level].i < Entries
      /\ Len(frame[level].buf) = Entries
  BY DEF Typed, TypeOK, Place, AtEntry, Current, Levels
<1>2. /\ frame' \in [Levels -> FrameType]
      /\ frame'[level].buf = frame[level].buf
      /\ \A m \in Levels \ {level} : frame'[m] = frame[m]
  BY <1>1, AdvanceFrames DEF Typed
<1> QED BY <1>1, <1>2 DEF Typed, Place, Levels

LEMMA DescendTyped ==
  ASSUME Typed, AtEntry, Entry.p, ~ IsLeaf, Descend
  PROVE  /\ frame' \in [Levels -> FrameType] /\ level' \in Levels /\ pc' = "read"
         /\ Place'
<1>1. /\ level \in Levels \ {1} /\ pc = "loop" /\ frame[level].i < Entries
      /\ Len(frame[level].buf) = Entries /\ Entry \in EntryType
  BY EntryTyped DEF Typed, TypeOK, Place, AtEntry, Current, IsLeaf
<1>2. /\ level' = level - 1 /\ level' \in Levels /\ pc' = "read"
      /\ frame' \in [Levels -> FrameType]
      /\ frame'[level - 1].i = 0 /\ frame'[level - 1].buf = <<>>
      /\ \A m \in Levels \ {level - 1} : frame'[m] = frame[m]
  BY <1>1, DescendFrames
<1>3. \A m \in Levels :
        m > level - 1 => frame'[m].i < Entries /\ Len(frame'[m].buf) = Entries
  BY <1>1, <1>2 DEF Typed, Place, Levels
<1>4. \A m \in 1..3 : m < level - 1 => frame'[m].i = 0
  BY <1>1, <1>2 DEF Typed, Place, Levels
<1>5. Len(frame'[level - 1].buf) <= Entries
  BY <1>2, Constants
<1> QED BY <1>2, <1>3, <1>4, <1>5 DEF Place

(* A step that fills the copy of the running function.                     *)
LEMMA FillTyped ==
  ASSUME Typed, pc = "read", pc' \in {"read", "loop"}, level' = level,
         NEW b \in Seq(EntryType), frame' = [frame EXCEPT ![level].buf = b],
         pc' = "read" => Len(b) <= Entries,
         pc' = "loop" => Len(b) = Entries
  PROVE  frame' \in [Levels -> FrameType] /\ Place'
<1>1. level \in Levels /\ frame \in [Levels -> FrameType]
  BY DEF Typed, TypeOK, Levels
<1> DEFINE f == [frame[level] EXCEPT !.buf = b]
<1>2. f \in FrameType /\ f.buf = b /\ f.i = frame[level].i
  BY <1>1 DEF FrameType
<1>3. frame' = [frame EXCEPT ![level] = f]
  BY <1>1
<1> HIDE DEF f
<1>4. /\ frame' \in [Levels -> FrameType] /\ frame'[level] = f
      /\ \A m \in Levels \ {level} : frame'[m] = frame[m]
  BY <1>1, <1>2, <1>3
<1> QED BY <1>1, <1>2, <1>4 DEF Typed, Place, Levels

LEMMA MemoryTyped ==
  ASSUME Typed, level \in Levels, PageOf(Current.addr) \in TablePages,
         Len(Current.buf) < Entries
  PROVE  mem[PageOf(Current.addr)][Len(Current.buf)] \in EntryType
<1>1. Len(Current.buf) \in Indices
  BY Constants DEF Typed, TypeOK, Current, FrameType, Indices
<1> QED BY <1>1 DEF Typed, TypeOK, TableType

LEMMA TypedInit == Init => Typed
<1> SUFFICES ASSUME Init PROVE Typed
  OBVIOUS
<1>1. PICK s \in Starts :
        /\ program = s.program
        /\ mem = s.mem
        /\ frame = [l \in Levels |-> IF l = 4
                     THEN [Idle EXCEPT !.addr = [avail |-> 0, base |-> s.root]]
                     ELSE Idle]
  BY DEF Init
<1>2. s \in [program : Programs, mem : [TablePages -> TableType], root : Frames]
  BY WalkAssumption
<1> DEFINE a == [avail |-> 0, base |-> s.root]
           f == [Idle EXCEPT !.addr = a]
<1>3. a \in [avail : 0..1, base : Nat]
  <2>1. s.root \in Frames /\ s.root \in Nat
    BY <1>2, Constants
  <2> QED BY <2>1
<1> HIDE DEF a
<1>4. f \in FrameType /\ f.i = 0 /\ f.buf = <<>>
  BY <1>3, IdleType, FreshFrame
<1>5. frame = [l \in Levels |-> IF l = 4 THEN f ELSE Idle]
  BY <1>1 DEF a
<1> HIDE DEF f
<1>6. frame \in [Levels -> FrameType] /\ \A l \in Levels : frame[l].i = 0
  BY <1>4, <1>5, IdleType
<1>7. held \in [TablePages \X Indices -> SUBSET EntryType]
  <2>1. \A w \in TablePages \X Indices : {mem[w[1]][w[2]]} \in SUBSET EntryType
    BY <1>1, <1>2 DEF TableType
  <2> QED BY <2>1 DEF Init
<1>8. Len(frame[4].buf) = 0
  BY <1>4, <1>5 DEF Levels
<1>9. Place
  BY <1>6, <1>8, Constants DEF Init, Place, Levels
<1> QED BY <1>1, <1>2, <1>6, <1>7, <1>9, Constants DEF Typed, TypeOK, Init

LEMMA TypedStep == Typed /\ [Next]_vars => Typed'
<1> SUFFICES ASSUME Typed, [Next]_vars PROVE Typed'
  OBVIOUS
<1>0. /\ mem \in [TablePages -> TableType] /\ program \in Programs
      /\ pc \in {"read", "loop", "done", "crashed"}
      /\ level \in 1..5
      /\ level = 5 <=> pc = "done"
      /\ frame \in [Levels -> FrameType]
      /\ heap \in Int /\ lines \in Seq(LineType)
      /\ failed \subseteq unread /\ writes \in 0..MaxWrites
      /\ held \in [TablePages \X Indices -> SUBSET EntryType]
      /\ unread \subseteq Levels \X Seq(Indices)
      /\ Place
      /\ pc # "done" => level \in Levels
      /\ MaxFails \in Nat /\ MaxWrites \in Nat
  BY Constants DEF Typed, TypeOK, Levels
<1>1. level \in Levels =>
        unread \cup {<<level, PathTo(level)>>} \subseteq Levels \X Seq(Indices)
  BY <1>0, PathType DEF Levels
<1>2. CASE RejectAddress
  <2>1. level \in Levels /\ Resume(level)
    BY <1>0, <1>2 DEF RejectAddress
  <2>2. /\ frame' \in [Levels -> FrameType] /\ level' \in 1..5
        /\ pc' \in {"loop", "done"}
        /\ level' = 5 <=> pc' = "done"
        /\ Place'
    BY <2>1, ResumeTyped
  <2> QED BY <1>0, <1>1, <1>2, <2>1, <2>2 DEF RejectAddress, Unread, Table, Typed, TypeOK
<1>3. CASE Return
  <2>1. level \in Levels /\ Resume(level)
    BY <1>0, <1>3 DEF Return
  <2>2. /\ frame' \in [Levels -> FrameType] /\ level' \in 1..5
        /\ pc' \in {"loop", "done"}
        /\ level' = 5 <=> pc' = "done"
        /\ Place'
    BY <2>1, ResumeTyped
  <2> QED BY <1>0, <1>3, <2>2 DEF Return, Typed, TypeOK
<1>4. CASE ReadEntry
  <2> DEFINE b == Append(Current.buf, mem[PageOf(Current.addr)][Len(Current.buf)])
  <2>1. /\ level \in Levels /\ pc = "read" /\ pc' = pc /\ level' = level
        /\ PageOf(Current.addr) \in TablePages /\ Len(Current.buf) < Entries
        /\ Current.buf \in Seq(EntryType)
    BY <1>0, <1>4 DEF ReadEntry, Current, FrameType
  <2>2. mem[PageOf(Current.addr)][Len(Current.buf)] \in EntryType
    BY <2>1, MemoryTyped
  <2>3. b \in Seq(EntryType) /\ Len(b) = Len(Current.buf) + 1
    BY <2>1, <2>2, AppendProperties
  <2>4. Len(b) <= Entries
    BY <2>1, <2>3, Constants
  <2>5. frame' = [frame EXCEPT ![level].buf = b]
    BY <1>0, <1>4, <2>1 DEF ReadEntry, Current
  <2> HIDE DEF b
  <2>6. frame' \in [Levels -> FrameType] /\ Place'
    BY <2>1, <2>3, <2>4, <2>5, FillTyped
  <2> QED BY <1>0, <1>4, <2>1, <2>6 DEF ReadEntry, Typed, TypeOK
<1>5. CASE ReadDone
  <2>1. Place'
    BY <1>0, <1>5 DEF ReadDone, Place, Current
  <2> QED BY <1>0, <1>5, <2>1 DEF ReadDone, Typed, TypeOK
<1>6. ASSUME NoData, Unread PROVE failed' \subseteq unread'
  BY <1>0, <1>6 DEF NoData, Unread
<1>7. CASE ReadCallFails
  <2>1. Place'
    BY <1>0, <1>7 DEF ReadCallFails, Place
  <2>2. failed' \subseteq unread'
    BY <1>6, <1>7 DEF ReadCallFails
  <2> QED BY <1>0, <1>1, <1>7, <2>1, <2>2 DEF ReadCallFails, Unread, Table, Typed, TypeOK
<1>8. CASE ReadLeavesGarbage
  <2> DEFINE c == frame[level].buf
             b(g) == [k \in 1..Entries |-> IF k <= Len(c) THEN c[k] ELSE g[k - 1]]
  <2>1. PICK g \in Garbage : frame' = [frame EXCEPT ![level].buf = b(g)]
    BY <1>0, <1>8 DEF ReadLeavesGarbage
  <2>2. b(g) \in Seq(EntryType) /\ Len(b(g)) = Entries
    <3>1. \A k \in 1..Entries : g[k - 1] \in EntryType
      <4>1. \A k \in 1..Entries : k - 1 \in Indices
        BY Constants DEF Indices
      <4>2. g \in TableType
        BY WalkAssumption
      <4> QED BY <4>1, <4>2 DEF TableType
    <3>2. c \in Seq(EntryType)
      BY <1>0, <1>8 DEF ReadLeavesGarbage, FrameType
    <3>3. \A k \in 1..Entries : k <= Len(c) => c[k] \in EntryType
      BY <3>2, Constants
    <3> HIDE DEF c
    <3> QED BY <3>1, <3>3, Constants
  <2>3. frame' = [frame EXCEPT ![level].buf = b(g)]
    BY <2>1
  <2>4. pc = "read" /\ pc' = "loop" /\ level' = level
    BY <1>8 DEF ReadLeavesGarbage
  <2> HIDE DEF b
  <2>5. frame' \in [Levels -> FrameType] /\ Place'
    BY <2>2, <2>3, <2>4, FillTyped
  <2>6. failed' \subseteq unread'
    BY <1>6, <1>8 DEF ReadLeavesGarbage
  <2>7. /\ unread' \subseteq Levels \X Seq(Indices)
        /\ UNCHANGED <<mem, program, level, lines, writes, held>>
        /\ heap' = heap + 1
    BY <1>0, <1>1, <1>8 DEF ReadLeavesGarbage, Unread, Table
  <2> QED BY <1>0, <2>4, <2>5, <2>6, <2>7 DEF Typed, TypeOK
<1>9. CASE SkipEntry
  <2>1. frame' \in [Levels -> FrameType] /\ Place'
    BY <1>9, AdvanceTyped DEF SkipEntry
  <2> QED BY <1>0, <1>9, <2>1 DEF SkipEntry, Typed, TypeOK
<1>10. CASE ShowAbsent
  <2>1. frame' \in [Levels -> FrameType] /\ Place'
    BY <1>10, AdvanceTyped DEF ShowAbsent
  <2>2. lines' \in Seq(LineType)
    BY <1>0, <1>10, LineTyped, AppendProperties DEF ShowAbsent
  <2> QED BY <1>0, <1>10, <2>1, <2>2 DEF ShowAbsent, Typed, TypeOK
<1>11. CASE ShowPage
  <2>1. frame' \in [Levels -> FrameType] /\ Place'
    BY <1>11, AdvanceTyped DEF ShowPage
  <2>2. lines' \in Seq(LineType)
    BY <1>0, <1>11, LineTyped, AppendProperties DEF ShowPage
  <2> QED BY <1>0, <1>11, <2>1, <2>2 DEF ShowPage, Typed, TypeOK
<1>12. CASE ShowTable
  <2>1. /\ frame' \in [Levels -> FrameType] /\ level' \in Levels /\ pc' = "read"
        /\ Place'
    BY <1>12, DescendTyped DEF ShowTable
  <2>2. lines' \in Seq(LineType)
    BY <1>0, <1>12, LineTyped, AppendProperties DEF ShowTable
  <2> QED BY <1>0, <1>12, <2>1, <2>2 DEF ShowTable, Typed, TypeOK, Levels
<1>13. CASE OSWrite
  <2>1. PICK w \in TablePages \X Indices, e \in NewEntries :
          /\ mem' = [mem EXCEPT ![w[1]][w[2]] = e]
          /\ held' = [held EXCEPT ![w] = @ \cup {e}]
    BY <1>13 DEF OSWrite
  <2>2. e \in EntryType
    BY WalkAssumption
  <2>3. mem' \in [TablePages -> TableType]
    BY <1>0, <2>1, <2>2 DEF TableType
  <2>4. held' \in [TablePages \X Indices -> SUBSET EntryType]
    BY <1>0, <2>1, <2>2
  <2>5. writes' \in 0..MaxWrites /\ UNCHANGED progVars
    BY <1>0, <1>13 DEF OSWrite
  <2>6. Place'
    BY <1>0, <2>5 DEF Place, progVars
  <2> QED BY <1>0, <2>3, <2>4, <2>5, <2>6 DEF progVars, Typed, TypeOK
<1>14. CASE Finished \/ UNCHANGED vars
  BY <1>0, <1>14 DEF Finished, vars, Typed, TypeOK, Place
<1> QED
  BY <1>2, <1>3, <1>4, <1>5, <1>7, <1>8, <1>9, <1>10, <1>11, <1>12, <1>13, <1>14
  DEF Next, Walk

THEOREM TypedInvariance == Spec => []Typed
BY TypedInit, TypedStep, PTL DEF Spec

(* Every reachable state is well typed: no function reads its copy beyond  *)
(* the table's end, whatever the tables hold.                              *)
THEOREM TypeCorrect == Spec => []TypeOK
<1>1. Typed => TypeOK
  BY DEF Typed
<1> QED BY <1>1, TypedInvariance, PTL
-----------------------------------------------------------------------------
(* The order of the lines                                                  *)

Number(a, b, c, d) == ((a * Entries + b) * Entries + c) * Entries + d

(* The first virtual page of the entry the walk is at.                     *)
Pos == Number(frame[4].i, frame[3].i, frame[2].i, frame[1].i)

(* The pages listed lie before it.                                         *)
OrderInv ==
  \A k \in DOMAIN lines : lines[k].kind = "page" => Virt(lines[k].path) < Pos

LEMMA DigitNat ==
  ASSUME NEW x \in Nat, NEW d \in Nat
  PROVE  x * Entries + d \in Nat
BY Constants

LEMMA DigitOne ==
  ASSUME NEW x \in Nat
  PROVE  (x + 1) * Entries = x * Entries + Entries
BY Constants

LEMMA DigitGrows ==
  ASSUME NEW x \in Nat, NEW y \in Nat, NEW d \in Nat, x <= y
  PROVE  /\ x * Entries + d <= y * Entries + d
         /\ x < y => x * Entries + d < y * Entries + d
<1> DEFINE z == y - x
<1>1. z \in Nat /\ y = x + z
  OBVIOUS
<1> HIDE DEF z
<1>2. y * Entries = x * Entries + z * Entries
  BY <1>1, Constants
<1>3. z * Entries \in Nat /\ x * Entries \in Nat /\ y * Entries \in Nat
  BY <1>1, Constants
<1>4. z # 0 => z * Entries # 0
  BY <1>1, Constants
<1>5. x < y => z # 0
  BY <1>1
<1> HIDE DEF z
<1> QED BY <1>2, <1>3, <1>4, <1>5

LEMMA DigitCarry ==
  ASSUME NEW x \in Nat, NEW d \in 0 .. Entries
  PROVE  x * Entries + d <= (x + 1) * Entries + 0
<1>1. x * Entries \in Nat
  BY Constants
<1> QED BY <1>1, DigitOne, Constants

LEMMA DigitBound ==
  ASSUME NEW x \in Nat, NEW y \in Nat, NEW d \in Indices, x < y
  PROVE  x * Entries + d < y * Entries
<1>1. x + 1 \in Nat /\ x + 1 <= y
  OBVIOUS
<1>2. (x + 1) * Entries + 0 <= y * Entries + 0
  BY <1>1, DigitGrows
<1>3. x * Entries \in Nat /\ y * Entries \in Nat /\ (x + 1) * Entries \in Nat
  BY <1>1, Constants
<1>4. (x + 1) * Entries = x * Entries + Entries
  BY DigitOne
<1>5. d < Entries /\ d \in Nat /\ Entries \in Nat
  BY Constants DEF Indices
<1> HIDE <1>1
<1> QED BY <1>2, <1>3, <1>4, <1>5

LEMMA NumberNat ==
  ASSUME NEW a \in Nat, NEW b \in Nat, NEW c \in Nat, NEW d \in Nat
  PROVE  Number(a, b, c, d) \in Nat
<1>1. a * Entries + b \in Nat
  BY DigitNat
<1>2. (a * Entries + b) * Entries + c \in Nat
  BY <1>1, DigitNat
<1> QED BY <1>2, DigitNat DEF Number

LEMMA NumberBound ==
  ASSUME NEW a \in Indices, NEW b \in Indices, NEW c \in Indices, NEW d \in Indices
  PROVE  Number(a, b, c, d) \in 0 .. VASize - 1
<1> DEFINE x == a * Entries + b
           y == x * Entries + c
           e2 == Entries * Entries
           e3 == e2 * Entries
           e4 == e3 * Entries
<1>0. Entries \in Nat /\ \A n \in Indices : n \in Nat /\ n < Entries
  BY Constants DEF Indices
<1>1. e2 \in Nat /\ x \in Nat /\ x < e2
  BY <1>0, DigitBound, DigitNat
<1> HIDE DEF x, e2
<1>2. e3 \in Nat /\ y \in Nat /\ y < e3
  BY <1>0, <1>1, DigitBound, DigitNat
<1> HIDE DEF y, e3
<1>3. e4 \in Nat /\ y * Entries + d \in Nat /\ y * Entries + d < e4
  BY <1>0, <1>2, DigitBound, DigitNat
<1>4. Number(a, b, c, d) = y * Entries + d
  BY DEF Number, x, y
<1>5. VASize = e4
  BY DEF VASize, e2, e3
<1> HIDE DEF e4
<1> QED BY <1>3, <1>4, <1>5

LEMMA LowDigits ==
  ASSUME NEW x \in Nat, NEW y \in Nat, NEW c \in Nat, NEW d \in Nat, x <= y
  PROVE  /\ (x * Entries + c) * Entries + d <= (y * Entries + c) * Entries + d
         /\ x < y =>
              (x * Entries + c) * Entries + d < (y * Entries + c) * Entries + d
<1> DEFINE u == x * Entries + c
           v == y * Entries + c
<1>1. u \in Nat /\ v \in Nat /\ u <= v /\ (x < y => u < v)
  BY DigitNat, DigitGrows
<1> HIDE DEF u, v
<1>2. /\ u * Entries + d <= v * Entries + d
      /\ u < v => u * Entries + d < v * Entries + d
  BY <1>1, DigitGrows
<1> QED BY <1>1, <1>2 DEF u, v

(* One digit more, and a digit that is carried.                            *)
LEMMA NumberGrows ==
  ASSUME NEW a \in Nat, NEW b \in Nat, NEW c \in Nat, NEW d \in Nat
  PROVE  /\ Number(a, b, c, d) < Number(a + 1, b, c, d)
         /\ Number(a, b, c, d) < Number(a, b + 1, c, d)
         /\ Number(a, b, c, d) < Number(a, b, c + 1, d)
         /\ Number(a, b, c, d) < Number(a, b, c, d + 1)
         /\ b <= Entries => Number(a, b, c, d) <= Number(a + 1, 0, c, d)
         /\ c <= Entries => Number(a, b, c, d) <= Number(a, b + 1, 0, d)
         /\ d <= Entries => Number(a, b, c, d) <= Number(a, b, c + 1, 0)
<1> DEFINE x == a * Entries + b
           y == x * Entries + c
<1>1. x \in Nat
  BY DigitNat
<1>2. a * Entries + (b + 1) = x + 1
  BY Constants
<1>3. a + 1 \in Nat /\ a <= a + 1 /\ a < a + 1 /\ 0 \in Nat
  OBVIOUS
<1>4. \A e \in Nat : (a + 1) * Entries + e \in Nat
  BY <1>3, DigitNat
<1>5. x < (a + 1) * Entries + b
  BY <1>3, DigitGrows
<1>6. b <= Entries => x <= (a + 1) * Entries + 0
  BY Constants, DigitCarry
<1>7. \A e, f \in Nat : /\ Number(a, b, e, f) = (x * Entries + e) * Entries + f
                        /\ Number(a, b + 1, e, f) = ((x + 1) * Entries + e) * Entries + f
  BY <1>2 DEF Number
<1> HIDE DEF x
<1>8. Number(a, b, c, d) < Number(a + 1, b, c, d)
  <2> DEFINE z == (a + 1) * Entries + b
  <2>1. z \in Nat /\ x < z /\ x <= z
    BY <1>1, <1>4, <1>5
  <2>2. Number(a + 1, b, c, d) = (z * Entries + c) * Entries + d
    BY DEF Number
  <2> HIDE DEF z
  <2>3. (x * Entries + c) * Entries + d < (z * Entries + c) * Entries + d
    BY <1>1, <2>1, LowDigits
  <2> QED BY <1>7, <2>2, <2>3
<1>9. b <= Entries => Number(a, b, c, d) <= Number(a + 1, 0, c, d)
  <2> SUFFICES ASSUME b <= Entries PROVE Number(a, b, c, d) <= Number(a + 1, 0, c, d)
    OBVIOUS
  <2> DEFINE z == (a + 1) * Entries + 0
  <2>1. z \in Nat /\ x <= z
    BY <1>3, <1>4, <1>6
  <2>2. Number(a + 1, 0, c, d) = (z * Entries + c) * Entries + d
    BY DEF Number
  <2> HIDE DEF z
  <2>3. (x * Entries + c) * Entries + d <= (z * Entries + c) * Entries + d
    BY <1>1, <2>1, LowDigits
  <2> QED BY <1>7, <2>2, <2>3
<1>10. y \in Nat
  BY <1>1, DigitNat
<1>11. x + 1 \in Nat /\ x < x + 1 /\ x <= x + 1
  BY <1>1
<1>12. Number(a, b, c, d) < Number(a, b + 1, c, d)
  <2>1. (x * Entries + c) * Entries + d < ((x + 1) * Entries + c) * Entries + d
    BY <1>1, <1>11, LowDigits
  <2> QED BY <1>7, <2>1
<1>13. c <= Entries => Number(a, b, c, d) <= Number(a, b + 1, 0, d)
  <2> SUFFICES ASSUME c <= Entries PROVE Number(a, b, c, d) <= Number(a, b + 1, 0, d)
    OBVIOUS
  <2> DEFINE z == (x + 1) * Entries + 0
  <2>1. z \in Nat
    BY <1>3, <1>11, DigitNat
  <2>2. y <= z
    BY <1>1, Constants, DigitCarry
  <2> HIDE DEF y, z
  <2>3. y * Entries + d <= z * Entries + d
    BY <1>10, <2>1, <2>2, DigitGrows
  <2> QED BY <1>3, <1>7, <2>3 DEF y, z
<1>14. x * Entries + (c + 1) = y + 1
  BY <1>1, Constants
<1>15. \A f \in Nat : /\ Number(a, b, c, f) = y * Entries + f
                      /\ Number(a, b, c + 1, f) = (y + 1) * Entries + f
  BY <1>7, <1>14
<1> HIDE DEF y
<1>16. y + 1 \in Nat /\ y < y + 1 /\ y <= y + 1
  BY <1>10
<1>17. Number(a, b, c, d) < Number(a, b, c + 1, d)
  <2>1. y * Entries + d < (y + 1) * Entries + d
    BY <1>10, <1>16, DigitGrows
  <2> QED BY <1>15, <2>1
<1>18. d <= Entries => Number(a, b, c, d) <= Number(a, b, c + 1, 0)
  <2> SUFFICES ASSUME d <= Entries PROVE Number(a, b, c, d) <= Number(a, b, c + 1, 0)
    OBVIOUS
  <2>1. y * Entries + d <= (y + 1) * Entries + 0
    BY <1>10, Constants, DigitCarry
  <2> QED BY <1>3, <1>15, <2>1
<1>19. Number(a, b, c, d) < Number(a, b, c, d + 1)
  <2> DEFINE w == y * Entries
  <2>1. w \in Nat
    BY <1>10, Constants
  <2>2. d + 1 \in Nat /\ Number(a, b, c, d) = w + d /\ Number(a, b, c, d + 1) = w + (d + 1)
    BY <1>15
  <2> HIDE DEF w
  <2> QED BY <2>1, <2>2
<1> QED BY <1>8, <1>9, <1>12, <1>13, <1>17, <1>18, <1>19

LEMMA PosNat == TypeOK => Pos \in Nat /\ \A m \in Levels : frame[m].i \in Nat
<1> SUFFICES ASSUME TypeOK PROVE Pos \in Nat /\ \A m \in Levels : frame[m].i \in Nat
  OBVIOUS
<1>1. \A m \in Levels : frame[m].i \in Nat
  BY Constants DEF TypeOK, FrameType
<1>2. /\ frame[1].i \in Nat /\ frame[2].i \in Nat
      /\ frame[3].i \in Nat /\ frame[4].i \in Nat
  BY <1>1 DEF Levels
<1> QED BY <1>1, <1>2, NumberNat DEF Pos

LEMMA PosNatNext == TypeOK' => Pos' \in Nat
<1> SUFFICES ASSUME TypeOK' PROVE Pos' \in Nat
  OBVIOUS
<1>1. \A m \in Levels : frame'[m].i \in Nat
  BY Constants DEF TypeOK, FrameType
<1>2. /\ frame'[1].i \in Nat /\ frame'[2].i \in Nat
      /\ frame'[3].i \in Nat /\ frame'[4].i \in Nat
  BY <1>1 DEF Levels
<1> QED BY <1>2, NumberNat DEF Pos

(* The path of the entry the walk is at is its place in the walk.          *)
LEMMA PathIsPos ==
  ASSUME Typed, AtEntry
  PROVE  Virt(Append(PathTo(level), Current.i)) = Pos
<1> DEFINE p == Append(PathTo(level), Current.i)
<1>1. /\ level \in Levels /\ PathTo(level) \in Seq(Indices)
      /\ Len(PathTo(level)) = 4 - level
      /\ \A k \in 1 .. 4 - level : PathTo(level)[k] = frame[5 - k].i
      /\ Current.i \in Indices
  <2>1. level \in Levels /\ level >= level /\ Current.i \in Indices
    BY EntryTyped DEF Levels
  <2> QED BY <2>1, PathType
<1>2. /\ Len(p) = 5 - level
      /\ \A k \in 1 .. 4 - level : p[k] = frame[5 - k].i
      /\ p[5 - level] = frame[level].i
  <2> DEFINE q == PathTo(level)
             n == Current.i
  <2>1. q \in Seq(Indices) /\ Len(q) = 4 - level /\ n \in Indices /\ 4 - level \in Nat
    BY <1>1 DEF Levels
  <2> HIDE DEF q, n
  <2>2. /\ Len(Append(q, n)) = (4 - level) + 1
        /\ Append(q, n)[(4 - level) + 1] = n
        /\ \A k \in 1 .. 4 - level : Append(q, n)[k] = q[k]
    BY <2>1, AppendProperties
  <2>3. (4 - level) + 1 = 5 - level
    BY <1>1 DEF Levels
  <2> QED BY <1>1, <2>2, <2>3 DEF q, n, Current
<1> HIDE DEF p
<1>3. \A m \in Levels : IndexAt(p, 5 - m) = frame[m].i
  <2> SUFFICES ASSUME NEW m \in Levels PROVE IndexAt(p, 5 - m) = frame[m].i
    OBVIOUS
  <2>1. CASE m >= level
    <3>1. 5 - m <= Len(p) /\ (m # level => 5 - m \in 1 .. 4 - level)
      BY <1>1, <1>2, <2>1 DEF Levels
    <3>2. 5 - (5 - m) = m
      BY DEF Levels
    <3> QED BY <1>2, <3>1, <3>2 DEF IndexAt
  <2>2. CASE m < level
    <3>1. ~ (5 - m <= Len(p)) /\ m \in 1..3
      BY <1>1, <1>2, <2>2 DEF Levels
    <3> QED BY <2>2, <3>1 DEF IndexAt, Typed, Place
  <2> QED BY <1>1, <2>1, <2>2 DEF Levels
<1>4. /\ IndexAt(p, 1) = frame[4].i /\ IndexAt(p, 2) = frame[3].i
      /\ IndexAt(p, 3) = frame[2].i /\ IndexAt(p, 4) = frame[1].i
  BY <1>3 DEF Levels
<1>5. Virt(p) = Pos
  BY <1>4 DEF Virt, Pos, Number
<1> QED BY <1>5 DEF p

LEMMA AdvancePos ==
  ASSUME Typed, AtEntry, Advance
  PROVE  Pos < Pos'
<1>1. /\ level \in Levels
      /\ frame'[level].i = frame[level].i + 1
      /\ \A m \in Levels \ {level} : frame'[m] = frame[m]
  BY EntryTyped, AdvanceFrames DEF Typed
<1> DEFINE a == frame[4].i
           b == frame[3].i
           c == frame[2].i
           d == frame[1].i
<1>2. a \in Nat /\ b \in Nat /\ c \in Nat /\ d \in Nat /\ Pos = Number(a, b, c, d)
  BY PosNat DEF Typed, Levels, Pos
<1>3. \/ Pos' = Number(a + 1, b, c, d)
      \/ Pos' = Number(a, b + 1, c, d)
      \/ Pos' = Number(a, b, c + 1, d)
      \/ Pos' = Number(a, b, c, d + 1)
  BY <1>1 DEF Pos, Levels
<1> HIDE DEF a, b, c, d
<1> QED BY ZenonT(60), <1>2, <1>3, NumberGrows

LEMMA ResumePos ==
  ASSUME Typed, level \in Levels, Resume(level)
  PROVE  Pos <= Pos' /\ Pos' \in Int
<1>1. CASE level = 4
  <2>1. frame' = frame
    BY <1>1 DEF Resume
  <2>2. Pos' = Pos /\ Pos \in Nat
    BY <2>1, PosNat DEF Pos, Typed
  <2> QED BY <2>2
<1>2. CASE level \in 1..3
  <2> DEFINE l == level
  <2>1. /\ frame'[l].i = 0
        /\ frame'[l + 1].i = frame[l + 1].i + 1
        /\ \A m \in Levels \ {l, l + 1} : frame'[m] = frame[m]
    BY <1>2, ResumeFrames
  <2> DEFINE a == frame[4].i
             b == frame[3].i
             c == frame[2].i
             d == frame[1].i
  <2>2. /\ a \in Nat /\ b \in Nat /\ c \in Nat /\ d \in Nat
        /\ Pos = Number(a, b, c, d)
        /\ b <= Entries /\ c <= Entries /\ d <= Entries
    <3>1. \A m \in Levels : frame[m].i \in 0 .. Entries
      BY DEF Typed, TypeOK, FrameType
    <3>2. a \in 0 .. Entries /\ b \in 0 .. Entries /\ c \in 0 .. Entries /\ d \in 0 .. Entries
      BY <3>1 DEF Levels
    <3>3. Pos = Number(a, b, c, d)
      BY DEF Pos
    <3> HIDE DEF a, b, c, d
    <3> QED BY <3>2, <3>3, Constants
  <2>3. \/ Pos' = Number(a + 1, 0, c, d)
        \/ Pos' = Number(a, b + 1, 0, d)
        \/ Pos' = Number(a, b, c + 1, 0)
    BY <1>2, <2>1 DEF Pos, Levels
  <2> HIDE DEF a, b, c, d
  <2>4. Pos' \in Nat
    <3>1. a + 1 \in Nat /\ b + 1 \in Nat /\ c + 1 \in Nat /\ 0 \in Nat
      BY <2>2
    <3>2. Number(a + 1, 0, c, d) \in Nat
      BY <2>2, <3>1, NumberNat
    <3>3. Number(a, b + 1, 0, d) \in Nat
      BY <2>2, <3>1, NumberNat
    <3>4. Number(a, b, c + 1, 0) \in Nat
      BY <2>2, <3>1, NumberNat
    <3> QED BY <2>3, <3>2, <3>3, <3>4
  <2>5. Pos <= Pos'
    BY <2>2, <2>3, NumberGrows
  <2> QED BY <2>4, <2>5
<1> QED BY <1>1, <1>2 DEF Levels

LEMMA DescendPos ==
  ASSUME Typed, AtEntry, Entry.p, ~ IsLeaf, Descend
  PROVE  Pos' = Pos
<1>1. level \in Levels \ {1} /\ Entry \in EntryType
  BY EntryTyped DEF IsLeaf
<1>2. /\ frame'[level - 1].i = 0
      /\ \A m \in Levels \ {level - 1} : frame'[m] = frame[m]
  BY <1>1, DescendFrames
<1>3. level - 1 \in 1..3 /\ frame[level - 1].i = 0
  BY <1>1 DEF Typed, Place, Levels
<1>4. \A m \in Levels : frame'[m].i = frame[m].i
  BY <1>2, <1>3
<1> QED BY <1>4 DEF Pos, Levels

LEMMA VirtBound ==
  ASSUME NEW path \in Seq(Indices)
  PROVE  Virt(path) \in 0 .. VASize - 1
<1>1. \A k \in 1..4 : IndexAt(path, k) \in Indices
  BY Constants DEF IndexAt
<1>2. Virt(path) = Number(IndexAt(path, 1), IndexAt(path, 2), IndexAt(path, 3),
                          IndexAt(path, 4))
  BY DEF Virt, Number
<1> QED BY <1>1, <1>2, NumberBound

LEMMA VASizeNat == VASize \in Nat
<1>1. Entries * Entries \in Nat
  BY Constants
<1>2. Entries * Entries * Entries \in Nat
  BY <1>1, Constants
<1> QED BY <1>2, Constants DEF VASize

LEMMA LineBound ==
  ASSUME Typed, NEW k \in DOMAIN lines
  PROVE  /\ lines[k] \in LineType
         /\ Virt(lines[k].path) \in 0 .. VASize - 1
         /\ Virt(lines[k].path) \in Int
<1>1. lines[k] \in LineType
  BY DEF Typed, TypeOK
<1>2. lines[k].path \in Seq(Indices)
  BY <1>1 DEF LineType
<1> QED BY <1>1, <1>2, VirtBound

LEMMA OrderInit == Init => OrderInv
BY DEF Init, OrderInv

(* The line of a page is that of the first page of its entry.              *)
LEMMA OrderShown ==
  ASSUME Typed, Typed', OrderInv, AtEntry, Advance,
         NEW kind \in {"table", "page"}, lines' = Append(lines, Line(kind))
  PROVE  OrderInv'
<1>1. lines \in Seq(LineType) /\ Line(kind) \in LineType
  BY LineTyped DEF Typed, TypeOK
<1>2. Pos < Pos' /\ Pos \in Nat /\ Pos' \in Nat
  <2>1. Pos' \in Nat
    BY PosNatNext DEF Typed
  <2> QED BY <2>1, AdvancePos, PosNat DEF Typed
<1>3. Virt(Line(kind).path) = Pos
  BY PathIsPos DEF Line
<1>4. /\ DOMAIN lines' = 1 .. Len(lines) + 1
      /\ DOMAIN lines = 1 .. Len(lines)
      /\ Len(lines) \in Nat
      /\ \A k \in 1 .. Len(lines) : lines'[k] = lines[k]
      /\ lines'[Len(lines) + 1] = Line(kind)
  BY <1>1
<1>5. SUFFICES ASSUME NEW k \in DOMAIN lines', lines'[k].kind = "page"
               PROVE  Virt(lines'[k].path) < Pos'
  BY DEF OrderInv, Virt, IndexAt
<1>6. CASE k \in DOMAIN lines
  <2>1. Virt(lines[k].path) \in Int /\ Virt(lines[k].path) < Pos
    BY <1>4, <1>5, <1>6, LineBound DEF OrderInv
  <2> QED BY <1>2, <1>4, <1>6, <2>1
<1>7. CASE k = Len(lines) + 1
  BY <1>2, <1>3, <1>4, <1>7
<1> QED BY <1>4, <1>6, <1>7

LEMMA OrderStep == Typed /\ Typed' /\ OrderInv /\ [Next]_vars => OrderInv'
<1> SUFFICES ASSUME Typed, Typed', OrderInv, [Next]_vars PROVE OrderInv'
  OBVIOUS
<1>1. ASSUME lines' = lines, Pos <= Pos' PROVE OrderInv'
  <2>1. Pos \in Nat
    BY PosNat DEF Typed
  <2>2. Pos' \in Nat
    BY PosNatNext DEF Typed
  <2> SUFFICES ASSUME NEW k \in DOMAIN lines, lines[k].kind = "page"
               PROVE  Virt(lines[k].path) < Pos'
    BY <1>1 DEF OrderInv, Virt, IndexAt
  <2>3. Virt(lines[k].path) \in Int /\ Virt(lines[k].path) < Pos
    BY LineBound DEF OrderInv
  <2> QED BY <1>1, <2>1, <2>2, <2>3
<1>2. ASSUME \A m \in Levels : frame'[m].i = frame[m].i
      PROVE  Pos' = Pos /\ Pos \in Nat
  BY <1>2, PosNat DEF Pos, Levels, Typed
<1>3. CASE RejectAddress \/ Return
  <2>1. level \in Levels /\ Resume(level) /\ lines' = lines
    BY <1>3 DEF RejectAddress, Return, Typed, TypeOK, Levels
  <2> QED BY <1>1, <2>1, ResumePos
<1>4. CASE SkipEntry
  <2>1. Pos < Pos' /\ Pos \in Nat /\ lines' = lines
    BY <1>4, AdvancePos, PosNat DEF SkipEntry, Typed
  <2>2. Pos' \in Nat
    BY PosNatNext DEF Typed
  <2> QED BY <1>1, <2>1, <2>2
<1>5. CASE ShowAbsent
  BY <1>5, OrderShown DEF ShowAbsent
<1>6. CASE ShowPage
  BY <1>6, OrderShown DEF ShowPage
<1>7. CASE ShowTable
  <2>1. AtEntry /\ lines' = Append(lines, Line("table"))
    BY <1>7 DEF ShowTable
  <2>2. Pos' = Pos
    BY <1>7, DescendPos DEF ShowTable
  <2>3. lines \in Seq(LineType) /\ Line("table") \in LineType
        /\ Line("table").kind = "table"
    BY <2>1, LineTyped DEF Typed, TypeOK, Line
  <2>4. /\ DOMAIN lines' = 1 .. Len(lines) + 1
        /\ DOMAIN lines = 1 .. Len(lines)
        /\ Len(lines) \in Nat
        /\ \A k \in 1 .. Len(lines) : lines'[k] = lines[k]
        /\ lines'[Len(lines) + 1] = Line("table")
    BY <2>1, <2>3
  <2> SUFFICES ASSUME NEW k \in DOMAIN lines', lines'[k].kind = "page"
               PROVE  Virt(lines'[k].path) < Pos'
    BY DEF OrderInv, Virt, IndexAt
  <2>5. k \in DOMAIN lines
    <3>1. lines'[k] # Line("table")
      BY <2>3
    <3>2. k \in 1 .. Len(lines) + 1 /\ k # Len(lines) + 1 /\ Len(lines) \in Nat
      BY <2>4, <3>1
    <3> QED BY <2>4, <3>2
  <2> QED BY <2>2, <2>4, <2>5 DEF OrderInv
<1>8. CASE ReadEntry
  <2>1. \A m \in Levels : frame'[m].i = frame[m].i
    BY <1>8 DEF ReadEntry, Typed, TypeOK, FrameType
  <2> QED BY <1>1, <1>2, <1>8, <2>1 DEF ReadEntry
<1>9. CASE ReadLeavesGarbage
  <2>1. \A m \in Levels : frame'[m].i = frame[m].i
    BY <1>9 DEF ReadLeavesGarbage, Typed, TypeOK, FrameType
  <2> QED BY <1>1, <1>2, <1>9, <2>1 DEF ReadLeavesGarbage
<1>10. CASE ReadDone \/ ReadCallFails \/ OSWrite \/ Finished \/ UNCHANGED vars
  <2>1. frame' = frame /\ lines' = lines
    BY <1>10 DEF ReadDone, ReadCallFails, OSWrite, Finished, progVars, vars
  <2> QED BY <1>1, <1>2, <2>1
<1> QED BY <1>3, <1>4, <1>5, <1>6, <1>7, <1>8, <1>9, <1>10 DEF Next, Walk

THEOREM OrderInvariance == Spec => []OrderInv
<1>1. Init => OrderInv
  BY OrderInit
<1>2. Typed /\ Typed' /\ OrderInv /\ [Next]_vars => OrderInv'
  BY OrderStep
<1> QED BY <1>1, <1>2, TypedInvariance, PTL DEF Spec

-----------------------------------------------------------------------------
(* The walk implements PageListing                                         *)

LEMMA ListingInit == Init => Listing!Init
<1> SUFFICES ASSUME Init PROVE Listing!Init
  OBVIOUS
<1>1. Limit \in [{0} -> Nat]
  BY VASizeNat DEF Limit
<1>2. Listed = <<>> /\ Over = FALSE
  BY DEF Init, Listed, Over
<1> QED BY <1>1, <1>2 DEF Listing!Init

(* A step that prints the line of the entry the walk is at adds it to the  *)
(* listing.                                                                *)
LEMMA PrintingAdds ==
  ASSUME Typed, OrderInv, AtEntry, pc' \in {"loop", "read"},
         NEW kind \in {"table", "page"}, lines' = Append(lines, Line(kind))
  PROVE  Listing!AddLine
<1> DEFINE l == Line(kind)
           a == [table |-> 0, page |-> Virt(l.path), exact |-> l.kind = "page"]
           n == Len(lines) + 1
<1>1. lines \in Seq(LineType) /\ l \in LineType /\ l.path \in Seq(Indices)
      /\ Virt(l.path) = Pos
  BY LineTyped, EntryTyped, PathIsPos DEF Typed, TypeOK, Line, LineType
<1>2. Virt(l.path) \in 0 .. VASize - 1
  BY <1>1, VirtBound
<1>3. lines' = Append(lines, l)
  OBVIOUS
<1> HIDE DEF l
<1>4. /\ Len(lines) \in Nat
      /\ DOMAIN lines = 1..Len(lines) /\ DOMAIN lines' = 1..n
      /\ \A k \in 1..Len(lines) : lines'[k] = lines[k]
      /\ lines'[n] = l
  BY <1>1, <1>3
<1>5. Listed' = [k \in 1..n |-> [table |-> 0, page |-> Virt(lines'[k].path),
                                 exact |-> lines'[k].kind = "page"]]
  BY <1>4 DEF Listed, Virt, IndexAt
<1>6. /\ Listed = [k \in 1..Len(lines) |->
                     [table |-> 0, page |-> Virt(lines[k].path),
                      exact |-> lines[k].kind = "page"]]
      /\ Len(Listed) = Len(lines) /\ DOMAIN Listed = 1..Len(lines)
  BY <1>4 DEF Listed
<1>7. Listed' = Append(Listed, a) /\ Len(Listed') = n /\ Listed'[n] = a
  BY <1>4, <1>5, <1>6
<1>8. UNCHANGED <<Limit, Over>> /\ ~ Over
  BY DEF Limit, Over, AtEntry
<1>9. \A k \in DOMAIN Listed :
        /\ Listed[k].table <= a.table
        /\ (Listed[k].table = a.table /\ Listed[k].exact /\ a.exact)
             => Listed[k].page < a.page
  <2> SUFFICES ASSUME NEW k \in 1..Len(lines)
               PROVE  lines[k].kind = "page" => Virt(lines[k].path) < Virt(l.path)
    <3>1. \A k \in 1..Len(lines) :
            /\ Listed[k].table = 0 /\ Listed[k].page = Virt(lines[k].path)
            /\ Listed[k].exact => lines[k].kind = "page"
      BY <1>6
    <3>2. a.table = 0 /\ a.page = Virt(l.path)
      OBVIOUS
    <3> HIDE DEF a
    <3> QED BY <1>6, <3>1, <3>2
  <2> QED BY <1>1, <1>4 DEF OrderInv
<1>10. a.page < Limit[a.table]
  BY <1>2, VASizeNat DEF Limit
<1>11. a \in [table : {0}, page : 0 .. VASize - 1, exact : BOOLEAN]
  BY <1>2
<1> HIDE DEF a
<1> QED
  BY <1>4, <1>6, <1>7, <1>8, <1>9, <1>10, <1>11
  DEF Listing!AddLine, Listing!ListLine, Listing!Follows, Listing!Line

LEMMA ListingNext ==
  Typed /\ OrderInv /\ [Next]_vars => [Listing!Next]_<<Limit, Listed, Over>>
<1> SUFFICES ASSUME Typed, OrderInv, [Next]_vars
             PROVE  Listing!Next \/ UNCHANGED <<Limit, Listed, Over>>
  OBVIOUS
<1>1. ASSUME lines' = lines, Over' = Over
      PROVE  UNCHANGED <<Limit, Listed, Over>>
  BY <1>1 DEF Limit, Listed, Virt, IndexAt
<1>2. ASSUME lines' = lines, ~ Over, Over'
      PROVE  Listing!EndListing
  <2>1. Over = FALSE /\ Over' = TRUE
    BY <1>2 DEF Over
  <2> QED BY <1>2, <2>1 DEF Listing!EndListing, Limit, Listed, Virt, IndexAt
<1>3. CASE RejectAddress \/ Return
  <2>1. pc \in {"read", "loop"} /\ pc' \in {"loop", "done"} /\ lines' = lines
    BY <1>3 DEF RejectAddress, Return, Resume
  <2>2. ~ Over /\ (pc' = "done" => Over') /\ (pc' = "loop" => Over' = Over)
    BY <2>1 DEF Over
  <2> QED BY <1>1, <1>2, <2>1, <2>2 DEF Listing!Next
<1>4. CASE ReadCallFails
  <2>1. lines' = lines /\ ~ Over /\ Over'
    BY <1>4 DEF ReadCallFails, Over
  <2> QED BY <1>2, <2>1 DEF Listing!Next
<1>5. CASE ReadEntry \/ ReadDone \/ ReadLeavesGarbage \/ SkipEntry
  <2>1. lines' = lines /\ pc \in {"read", "loop"} /\ pc' \in {"read", "loop"}
    BY <1>5 DEF ReadEntry, ReadDone, ReadLeavesGarbage, SkipEntry, AtEntry
  <2>2. Over' = Over
    BY <2>1 DEF Over
  <2> QED BY <1>1, <2>1, <2>2
<1>6. CASE ShowAbsent
  BY <1>6, PrintingAdds DEF ShowAbsent, AtEntry, Listing!Next
<1>7. CASE ShowPage
  BY <1>7, PrintingAdds DEF ShowPage, AtEntry, Listing!Next
<1>8. CASE ShowTable
  BY <1>8, PrintingAdds DEF ShowTable, Descend, AtEntry, Listing!Next
<1>9. CASE OSWrite \/ Finished \/ UNCHANGED vars
  <2>1. lines' = lines /\ pc' = pc
    BY <1>9 DEF OSWrite, Finished, vars, progVars
  <2> QED BY <1>1, <2>1 DEF Over
<1> QED BY <1>3, <1>4, <1>5, <1>6, <1>7, <1>8, <1>9 DEF Next, Walk

(* Every walk is a behaviour of the abstract listing, for tables of any    *)
(* size, self-maps, failed reads and stores during the walk included.      *)
THEOREM ImplementsListing == Spec => ListsInOrder
<1>1. Init => Listing!Init
  BY ListingInit
<1>2. Typed /\ OrderInv /\ [Next]_vars => [Listing!Next]_<<Limit, Listed, Over>>
  BY ListingNext
<1> QED
  BY <1>1, <1>2, TypedInvariance, OrderInvariance, PTL
  DEF Spec, ListsInOrder, Listing!Spec

-----------------------------------------------------------------------------
(* Each line shows what memory held                                        *)

EntryOf(m) == frame[m].buf[frame[m].i + 1]

(* A table on the way to the running level's, or this itself, was not read.*)
Lost(m) == \E l \in Levels : l >= m /\ <<l, PathTo(l)>> \in unread

(* The words copied so far were held where the path to them leads.         *)
Copied(m) ==
  \A k \in 1 .. Len(frame[m].buf) :
    frame[m].buf[k] \in HeldOn(Append(PathTo(m), k - 1))

MemoryHeld == \A w \in TablePages \X Indices : mem[w[1]][w[2]] \in held[w]

CopiesHeld ==
  pc \in {"read", "loop"} =>
    /\ \A m \in Levels : m >= level => Lost(m) \/ Copied(m)
    /\ \A m \in 1..3 :
         m >= level => EntryOf(m + 1).p /\ frame[m].addr = Address(EntryOf(m + 1))

PathsFit == \A k \in DOMAIN lines : Len(lines[k].path) \in 1..4

ExplainInv == MemoryHeld /\ CopiesHeld /\ PathsFit /\ LinesExplained

(* What the program may see of a table's word.                             *)
SeenAt(base, i) == HeldAt(LookedForAt(base), i)

(* What a step leaves of memory, of what it held, and of the root.         *)
Grows ==
  /\ program' = program
  /\ \A w \in TablePages \X Indices : held[w] \subseteq held'[w]
  /\ unread \subseteq unread'
  /\ frame'[4].addr = frame[4].addr

LEMMA SeenAtGrows ==
  ASSUME Grows, NEW b, NEW i \in Indices
  PROVE  SeenAt(b, i) \subseteq SeenAt(b, i)'
BY DEF Grows, SeenAt, LookedForAt, HeldAt

(* HeldOn, one index after the other.                                      *)
Below(es, i) == UNION {SeenAt(e.base, i) : e \in {f \in es : f.p}}

LEMMA HeldOnLevels ==
  ASSUME NEW p
  PROVE  LET h4 == SeenAt(frame[4].addr.base, p[1])
             h3 == Below(h4, p[2])
             h2 == Below(h3, p[3])
             h1 == Below(h2, p[4])
         IN  /\ Len(p) = 1 => HeldOn(p) = h4
             /\ Len(p) = 2 => HeldOn(p) = h3
             /\ Len(p) = 3 => HeldOn(p) = h2
             /\ Len(p) = 4 => HeldOn(p) = h1
BY DEF HeldOn, Below, SeenAt

LEMMA BelowGrows ==
  ASSUME Grows, NEW es, NEW fs, es \subseteq fs, NEW i \in Indices
  PROVE  Below(es, i) \subseteq Below(fs, i)'
<1> SUFFICES ASSUME NEW x, x \in Below(es, i) PROVE x \in Below(fs, i)'
  OBVIOUS
<1>1. PICK e \in es : e.p /\ x \in SeenAt(e.base, i)
  BY DEF Below
<1>2. x \in SeenAt(e.base, i)'
  BY <1>1, SeenAtGrows
<1> QED BY <1>1, <1>2 DEF Below

LEMMA HeldOnGrows ==
  ASSUME Grows, NEW p \in Seq(Indices), Len(p) \in 1..4
  PROVE  HeldOn(p) \subseteq HeldOn(p)'
<1> DEFINE h4 == SeenAt(frame[4].addr.base, p[1])
           h3 == Below(h4, p[2])
           h2 == Below(h3, p[3])
           h1 == Below(h2, p[4])
<1>1. \A k \in 1 .. Len(p) : p[k] \in Indices
  OBVIOUS
<1>2. h4 \subseteq h4'
  BY <1>1, SeenAtGrows DEF Grows
<1>3. Len(p) >= 2 => h3 \subseteq h3'
  BY <1>1, <1>2, BelowGrows
<1>4. Len(p) >= 3 => h2 \subseteq h2'
  BY <1>1, <1>3, BelowGrows
<1>5. Len(p) = 4 => h1 \subseteq h1'
  BY <1>1, <1>4, BelowGrows
<1>6. /\ Len(p) = 1 => HeldOn(p) = h4 /\ HeldOn(p)' = h4'
      /\ Len(p) = 2 => HeldOn(p) = h3 /\ HeldOn(p)' = h3'
      /\ Len(p) = 3 => HeldOn(p) = h2 /\ HeldOn(p)' = h2'
      /\ Len(p) = 4 => HeldOn(p) = h1 /\ HeldOn(p)' = h1'
  BY DEF HeldOn, Below, SeenAt
<1>7. Len(p) = 1 \/ Len(p) = 2 \/ Len(p) = 3 \/ Len(p) = 4
  OBVIOUS
<1> HIDE DEF h4, h3, h2, h1
<1> QED BY <1>2, <1>3, <1>4, <1>5, <1>6, <1>7

(* A table reached through an entry that memory held.                      *)
LEMMA HeldOnNext ==
  ASSUME NEW p \in Seq(Indices), Len(p) \in 1..3, NEW i \in Indices,
         NEW e \in HeldOn(p), e.p, NEW x \in SeenAt(e.base, i)
  PROVE  x \in HeldOn(Append(p, i))
<1> DEFINE q == Append(p, i)
<1>1. /\ Len(q) = Len(p) + 1 /\ q[Len(p) + 1] = i
      /\ \A k \in 1 .. Len(p) : q[k] = p[k]
  BY AppendProperties
<1> HIDE DEF q
<1>2. x \in Below(HeldOn(p), i)
  BY DEF Below
<1>3. CASE Len(p) = 1
  <2>1. Len(q) = 2 /\ q[1] = p[1] /\ q[2] = i
    BY <1>1, <1>3
  <2>2. HeldOn(p) = SeenAt(frame[4].addr.base, p[1])
    BY <1>3, HeldOnLevels
  <2>3. HeldOn(q) = Below(SeenAt(frame[4].addr.base, q[1]), q[2])
    BY <2>1, HeldOnLevels
  <2> QED BY <1>2, <2>1, <2>2, <2>3 DEF q
<1>4. CASE Len(p) = 2
  <2>1. Len(q) = 3 /\ q[1] = p[1] /\ q[2] = p[2] /\ q[3] = i
    BY <1>1, <1>4
  <2>2. HeldOn(p) = Below(SeenAt(frame[4].addr.base, p[1]), p[2])
    BY <1>4, HeldOnLevels
  <2>3. HeldOn(q) = Below(Below(SeenAt(frame[4].addr.base, q[1]), q[2]), q[3])
    BY <2>1, HeldOnLevels
  <2> QED BY <1>2, <2>1, <2>2, <2>3 DEF q
<1>5. CASE Len(p) = 3
  <2>1. Len(q) = 4 /\ q[1] = p[1] /\ q[2] = p[2] /\ q[3] = p[3] /\ q[4] = i
    BY <1>1, <1>5
  <2>2. HeldOn(p) = Below(Below(SeenAt(frame[4].addr.base, p[1]), p[2]), p[3])
    BY <1>5, HeldOnLevels
  <2>3. HeldOn(q)
          = Below(Below(Below(SeenAt(frame[4].addr.base, q[1]), q[2]), q[3]), q[4])
    BY <2>1, HeldOnLevels
  <2> QED BY <1>2, <2>1, <2>2, <2>3 DEF q
<1> QED BY <1>3, <1>4, <1>5

-----------------------------------------------------------------------------
(* Paths                                                                   *)

LEMMA PathNext ==
  ASSUME Typed, NEW m \in 1..3, m >= level
  PROVE  /\ PathTo(m) = Append(PathTo(m + 1), frame[m + 1].i)
         /\ frame[m + 1].i \in Indices
<1>1. m + 1 \in Levels /\ m + 1 > level /\ m \in Levels
  BY DEF Typed, TypeOK, Levels
<1>2. frame[m + 1].i \in Indices
  BY <1>1, Constants DEF Typed, TypeOK, Place, FrameType, Indices
<1> DEFINE p == PathTo(m + 1)
           q == PathTo(m)
           n == frame[m + 1].i
<1>3. /\ p \in Seq(Indices) /\ Len(p) = 4 - (m + 1)
      /\ \A k \in 1 .. 4 - (m + 1) : p[k] = frame[5 - k].i
  BY SMTT(30), <1>1, PathType DEF Typed, TypeOK
<1>4. /\ q \in Seq(Indices) /\ Len(q) = 4 - m
      /\ \A k \in 1 .. 4 - m : q[k] = frame[5 - k].i
  BY <1>1, PathType
<1>5. q[4 - m] = n
  <2>1. 4 - m \in 1 .. 4 - m /\ 5 - (4 - m) = m + 1
    OBVIOUS
  <2> QED BY <1>4, <2>1
<1> HIDE DEF p, q, n
<1>6. /\ Len(Append(p, n)) = 4 - m
      /\ Append(p, n) \in Seq(Indices)
      /\ Append(p, n)[4 - m] = n
      /\ \A k \in 1 .. 4 - (m + 1) : Append(p, n)[k] = p[k]
  <2>1. n \in Indices /\ Len(p) + 1 = 4 - m
    BY <1>2, <1>3 DEF n
  <2> QED BY <1>3, <2>1, AppendProperties
<1>7. \A k \in 1 .. 4 - m : q[k] = Append(p, n)[k]
  BY <1>3, <1>4, <1>5, <1>6
<1>8. q = Append(p, n)
  BY <1>4, <1>6, <1>7
<1> QED BY <1>2, <1>8 DEF p, q, n

(* The prefixes of the path of an entry are the paths of the tables above. *)
LEMMA PathPrefix ==
  ASSUME Typed, AtEntry, NEW l \in Levels, l >= level
  PROVE  Prefix(Append(PathTo(level), Current.i), 4 - l) = PathTo(l)
<1> DEFINE p == PathTo(level)
           q == Append(p, Current.i)
<1>1. level \in Levels /\ Current.i \in Indices
  BY EntryTyped
<1>2. /\ p \in Seq(Indices) /\ Len(p) = 4 - level
      /\ \A k \in 1 .. 4 - level : p[k] = frame[5 - k].i
  BY <1>1, PathType DEF Levels
<1>3. /\ PathTo(l) \in Seq(Indices) /\ Len(PathTo(l)) = 4 - l
      /\ \A k \in 1 .. 4 - l : PathTo(l)[k] = frame[5 - k].i
  BY PathType
<1> HIDE DEF p
<1>4. /\ q \in Seq(Indices) /\ Len(q) = (4 - level) + 1
      /\ \A k \in 1 .. 4 - level : q[k] = p[k]
  BY <1>1, <1>2, AppendProperties
<1>5. 4 - l \in 0 .. Len(q) /\ 4 - l <= 4 - level
  BY <1>1, <1>4 DEF Levels
<1> DEFINE s == SubSeq(q, 1, 4 - l)
<1> HIDE DEF q
<1>6. s \in Seq(Indices) /\ Len(s) = 4 - l /\ \A k \in 1 .. 4 - l : s[k] = q[k]
  <2>1. PICK n \in Nat : n = 4 - l
    BY <1>5
  <2>2. \A k \in 1 .. n : q[k] \in Indices
    BY <1>4, <1>5, <2>1
  <2>3. /\ SubSeq(q, 1, n) \in Seq(Indices)
        /\ Len(SubSeq(q, 1, n)) = IF 1 <= n THEN n - 1 + 1 ELSE 0
        /\ \A k \in 1 .. n - 1 + 1 : SubSeq(q, 1, n)[k] = q[1 + k - 1]
    BY <2>1, <2>2, SubSeqProperties
  <2>4. /\ Len(SubSeq(q, 1, n)) = n
        /\ \A k \in 1 .. n : SubSeq(q, 1, n)[k] = q[k]
    BY <2>1, <2>3
  <2> QED BY <2>1, <2>3, <2>4
<1> HIDE DEF s
<1>7. \A k \in 1 .. 4 - l : s[k] = PathTo(l)[k]
  <2> SUFFICES ASSUME NEW k \in 1 .. 4 - l PROVE s[k] = PathTo(l)[k]
    OBVIOUS
  <2>1. k \in 1 .. 4 - level
    BY <1>1, <1>5 DEF Levels
  <2> QED BY <1>2, <1>3, <1>4, <1>6, <2>1
<1>8. s = PathTo(l)
  BY <1>3, <1>6, <1>7
<1> QED BY <1>8 DEF s, q, p, Prefix

(* Behind a table that was not read.                                       *)
LEMMA LostIsBehind ==
  ASSUME Typed, AtEntry, Lost(level)
  PROVE  BehindUnread(Append(PathTo(level), Current.i), 5 - level)
<1> DEFINE q == Append(PathTo(level), Current.i)
<1>1. PICK l \in Levels : l >= level /\ <<l, PathTo(l)>> \in unread
  BY DEF Lost
<1>2. Prefix(q, 4 - l) = PathTo(l)
  BY <1>1, PathPrefix
<1> HIDE DEF q
<1>3. 5 - l \in 1 .. 5 - level /\ 5 - (5 - l) = l /\ (5 - l) - 1 = 4 - l
  BY <1>1, EntryTyped DEF Levels
<1>4. <<5 - (5 - l), Prefix(q, (5 - l) - 1)>> \in unread
  BY <1>1, <1>2, <1>3
<1> QED BY <1>3, <1>4 DEF BehindUnread, q

-----------------------------------------------------------------------------
(* What a step keeps of what was copied                                    *)

LEMMA PathKept ==
  ASSUME NEW m \in Levels, \A l \in Levels : l > m => frame'[l].i = frame[l].i
  PROVE  \A l \in Levels : l >= m => PathTo(l)' = PathTo(l)
<1> SUFFICES ASSUME NEW l \in Levels, l >= m PROVE PathTo(l)' = PathTo(l)
  OBVIOUS
<1>1. \A k \in 1 .. 4 - l : frame'[5 - k].i = frame[5 - k].i
  BY DEF Levels
<1> QED BY <1>1 DEF PathTo

LEMMA LostKept ==
  ASSUME Grows, NEW m \in Levels, Lost(m),
         \A l \in Levels : l > m => frame'[l].i = frame[l].i
  PROVE  Lost(m)'
BY PathKept DEF Lost, Grows

LEMMA CopyKept ==
  ASSUME Typed, Grows, pc \in {"read", "loop"}, NEW m \in Levels, m >= level,
         \A l \in Levels : l > m => frame'[l].i = frame[l].i,
         NEW k \in 1 .. Len(frame[m].buf),
         frame[m].buf[k] \in HeldOn(Append(PathTo(m), k - 1))
  PROVE  frame[m].buf[k] \in HeldOn(Append(PathTo(m), k - 1))'
<1>1. Len(frame[m].buf) \in 0 .. Entries
  <2>1. frame[m].buf \in Seq(EntryType)
    BY DEF Typed, TypeOK, FrameType
  <2>2. Len(frame[m].buf) <= Entries
    BY Constants DEF Typed, TypeOK, Place, Levels
  <2> QED BY <2>1, <2>2, Constants
<1>2. k - 1 \in Indices
  BY <1>1, Constants DEF Indices
<1>3. PathTo(m) \in Seq(Indices) /\ Len(PathTo(m)) = 4 - m
  BY PathType
<1> DEFINE q == Append(PathTo(m), k - 1)
<1>4. q \in Seq(Indices) /\ Len(q) \in 1..4
  BY <1>2, <1>3, AppendProperties DEF Levels
<1>5. q' = q
  BY PathKept DEF Levels
<1>6. PICK p : p = q
  OBVIOUS
<1> HIDE DEF q
<1>7. HeldOn(p) \subseteq HeldOn(p)'
  BY <1>4, <1>6, HeldOnGrows
<1>8. HeldOn(p) = HeldOn(q) /\ HeldOn(p)' = HeldOn(q)'
  BY <1>5, <1>6
<1> QED BY <1>7, <1>8 DEF q

LEMMA CopiedKept ==
  ASSUME Typed, Grows, pc \in {"read", "loop"}, NEW m \in Levels, m >= level,
         \A l \in Levels : l > m => frame'[l].i = frame[l].i,
         frame'[m].buf = frame[m].buf, Lost(m) \/ Copied(m)
  PROVE  (Lost(m) \/ Copied(m))'
<1>1. CASE Lost(m)
  BY <1>1, LostKept
<1>2. CASE Copied(m)
  <2> SUFFICES ASSUME NEW k \in 1 .. Len(frame[m].buf)
               PROVE  frame[m].buf[k] \in HeldOn(Append(PathTo(m), k - 1))'
    BY DEF Copied
  <2>1. frame[m].buf[k] \in HeldOn(Append(PathTo(m), k - 1))
    BY <1>2 DEF Copied
  <2> QED BY <2>1, CopyKept
<1> QED BY <1>1, <1>2

(* The word that is copied next was held where the path leads.             *)
LEMMA WordHeld ==
  ASSUME Typed, MemoryHeld, CopiesHeld, pc = "read",
         PageOf(Current.addr) \in TablePages, Len(Current.buf) < Entries
  PROVE  \/ Lost(level)
         \/ mem[PageOf(Current.addr)][Len(Current.buf)]
              \in HeldOn(Append(PathTo(level), Len(Current.buf)))
<1> DEFINE n == Len(Current.buf)
           b == LookedForAt(Current.addr.base)
           x == mem[b][n]
<1>1. level \in Levels /\ n \in Indices
  <2>1. level \in Levels
    BY DEF Typed, TypeOK, Levels
  <2>2. Current.buf \in Seq(EntryType)
    BY <2>1 DEF Typed, TypeOK, Current, FrameType
  <2>3. n \in Nat /\ n < Entries
    BY <2>2
  <2> QED BY <2>1, <2>3, Constants DEF Indices
<1>2. PageOf(Current.addr) = b /\ b \in TablePages
  BY WalkAssumption DEF PageOf, LookedForAt, TablePages
<1>3. x \in HeldAt(b, n)
  BY <1>1, <1>2 DEF MemoryHeld, HeldAt
<1>4. PathTo(level) \in Seq(Indices) /\ Len(PathTo(level)) = 4 - level
  BY <1>1, PathType DEF Levels
<1>5. CASE level = 4
  <2> DEFINE q == Append(PathTo(level), n)
  <2>1. Len(q) = 1 /\ q[1] = n
    BY <1>1, <1>4, <1>5, AppendProperties
  <2>2. b = LookedForAt(frame[4].addr.base)
    BY <1>5 DEF Current
  <2> HIDE DEF n, b, x, q
  <2>3. HeldOn(q) = SeenAt(frame[4].addr.base, q[1])
    BY <2>1, HeldOnLevels
  <2>4. x \in HeldOn(q)
    BY <1>3, <2>1, <2>2, <2>3 DEF SeenAt
  <2> QED BY <1>2, <2>4 DEF n, b, x, q
<1>6. CASE level \in 1..3
  <2> DEFINE e == EntryOf(level + 1)
             p == PathTo(level)
             k == frame[level + 1].i + 1
  <2>1. /\ level + 1 \in Levels /\ level + 1 > level
        /\ e.p /\ Current.addr = Address(e)
        /\ Lost(level + 1) \/ Copied(level + 1)
    BY <1>6 DEF CopiesHeld, Levels, Current
  <2>2. LookedForAt(e.base) = b
    BY <2>1 DEF Address
  <2>3. CASE Lost(level + 1)
    BY <1>6, <2>1, <2>3 DEF Lost, Levels
  <2>4. CASE Copied(level + 1)
    <3>1. /\ p = Append(PathTo(level + 1), frame[level + 1].i)
          /\ frame[level + 1].i \in Indices
      BY <1>6, PathNext
    <3>2. k \in 1 .. Len(frame[level + 1].buf) /\ k - 1 = frame[level + 1].i
      BY SMTT(30), <2>1, <3>1, Constants DEF Typed, Place, Indices
    <3>3. e = frame[level + 1].buf[k]
      BY DEF EntryOf
    <3> HIDE DEF e, p, k
    <3>4. e \in HeldOn(p)
      BY <2>4, <3>1, <3>2, <3>3 DEF Copied
    <3>5. p \in Seq(Indices) /\ Len(p) \in 1..3
      BY <1>4, <1>6 DEF p
    <3> HIDE DEF n, b, x
    <3>6. x \in SeenAt(e.base, n)
      BY <1>3, <2>2 DEF SeenAt
    <3>7. x \in HeldOn(Append(p, n))
      BY <1>1, <2>1, <3>4, <3>5, <3>6, HeldOnNext
    <3> QED BY <1>2, <3>7 DEF x, p, n
  <2> QED BY <2>1, <2>3, <2>4
<1> QED BY <1>1, <1>5, <1>6 DEF Levels

LEMMA LinesKept ==
  ASSUME Typed, Grows, PathsFit, LinesExplained, lines' = lines
  PROVE  PathsFit' /\ LinesExplained'
<1>1. PathsFit'
  BY DEF PathsFit
<1>2. SUFFICES ASSUME NEW k \in DOMAIN lines
               PROVE  \/ BehindUnread(lines[k].path, Len(lines[k].path))'
                      \/ lines[k].entry \in HeldOn(lines[k].path)'
  BY <1>1 DEF LinesExplained
<1>3. PICK p : p = lines[k].path
  OBVIOUS
<1>4. p \in Seq(Indices) /\ Len(p) \in 1..4
  BY <1>3, LineBound DEF PathsFit, LineType
<1>5. HeldOn(p) \subseteq HeldOn(p)'
  BY <1>4, HeldOnGrows
<1>6. BehindUnread(p, Len(p)) => BehindUnread(p, Len(p))'
  BY DEF BehindUnread, Grows
<1>7. BehindUnread(p, Len(p)) \/ lines[k].entry \in HeldOn(p)
  BY <1>3 DEF LinesExplained
<1>8. lines'[k].path = p
  BY <1>3
<1> QED BY <1>3, <1>5, <1>6, <1>7, <1>8

(* The line of the entry the walk is at shows what memory held there.      *)
LEMMA LineAdded ==
  ASSUME Typed, Grows, ExplainInv, AtEntry, unread' = unread, held' = held,
         NEW kind \in {"table", "page"}, lines' = Append(lines, Line(kind))
  PROVE  PathsFit' /\ LinesExplained'
<1> DEFINE q == Append(PathTo(level), Current.i)
<1>1. /\ level \in Levels /\ q \in Seq(Indices) /\ Current.i \in Indices
      /\ Line(kind).path = q /\ Line(kind).entry = Entry
  BY EntryTyped DEF Line
<1>2. Len(q) = 5 - level /\ Len(q) \in 1..4
  <2>1. PathTo(level) \in Seq(Indices) /\ Len(PathTo(level)) = 4 - level
    BY SMTT(30), <1>1, PathType DEF Levels
  <2> QED BY <1>1, <2>1, AppendProperties DEF Levels
<1>3. BehindUnread(q, Len(q)) \/ Entry \in HeldOn(q)
  <2>1. Lost(level) \/ Copied(level)
    BY <1>1 DEF ExplainInv, CopiesHeld, AtEntry, Levels
  <2>2. CASE Lost(level)
    BY <1>2, <2>2, LostIsBehind
  <2>3. CASE Copied(level)
    <3>1. /\ Current.i + 1 \in 1 .. Len(frame[level].buf)
          /\ (Current.i + 1) - 1 = Current.i
      BY <1>1, Constants DEF AtEntry, Typed, Place, Indices
    <3>2. Entry = frame[level].buf[Current.i + 1]
      BY DEF Entry, Current
    <3> QED BY <2>3, <3>1, <3>2 DEF Copied
  <2> QED BY <2>1, <2>2, <2>3
<1>4. \A p : /\ BehindUnread(p, Len(p))' = BehindUnread(p, Len(p))
             /\ HeldOn(p)' = HeldOn(p)
  BY DEF BehindUnread, HeldOn, HeldAt, LookedForAt, Grows
<1> HIDE DEF q
<1>5. /\ Len(lines) \in Nat /\ DOMAIN lines = 1 .. Len(lines)
      /\ DOMAIN lines' = 1 .. Len(lines) + 1
      /\ \A k \in 1 .. Len(lines) : lines'[k] = lines[k]
      /\ lines'[Len(lines) + 1] = Line(kind)
  BY LineTyped DEF Typed, TypeOK
<1>6. \A k \in DOMAIN lines' :
        \/ k \in DOMAIN lines /\ lines'[k] = lines[k]
        \/ lines'[k] = Line(kind)
  BY <1>5
<1>7. PathsFit'
  BY <1>1, <1>2, <1>6 DEF PathsFit, ExplainInv
<1>8. LinesExplained'
  <2> SUFFICES ASSUME NEW k \in DOMAIN lines'
               PROVE  (\/ BehindUnread(lines[k].path, Len(lines[k].path))
                       \/ lines[k].entry \in HeldOn(lines[k].path))'
    BY DEF LinesExplained
  <2>1. PICK p, e : p = lines'[k].path /\ e = lines'[k].entry
    OBVIOUS
  <2>2. BehindUnread(p, Len(p)) \/ e \in HeldOn(p)
    <3>1. CASE lines'[k] = Line(kind)
      BY <1>1, <1>3, <2>1, <3>1
    <3>2. CASE k \in DOMAIN lines /\ lines'[k] = lines[k]
      BY <2>1, <3>2 DEF ExplainInv, LinesExplained
    <3> QED BY <1>6, <3>1, <3>2
  <2>3. BehindUnread(p, Len(p))' \/ e \in HeldOn(p)'
    BY <1>4, <2>2
  <2> QED BY <2>1, <2>3
<1> QED BY <1>7, <1>8

LEMMA ExplainInit == Init => ExplainInv
<1> SUFFICES ASSUME Init PROVE ExplainInv
  OBVIOUS
<1>1. Typed
  BY TypedInit
<1>2. pc = "read" /\ level = 4 /\ lines = <<>>
      /\ held = [w \in TablePages \X Indices |-> {mem[w[1]][w[2]]}]
  BY DEF Init
<1>3. MemoryHeld
  BY <1>2 DEF MemoryHeld
<1>4. Copied(4)
  <2>1. PICK s \in Starts :
          frame = [l \in Levels |-> IF l = 4
                     THEN [Idle EXCEPT !.addr = [avail |-> 0, base |-> s.root]]
                     ELSE Idle]
    BY DEF Init
  <2>2. frame[4].buf = <<>>
    BY <2>1 DEF Levels, Idle
  <2> QED BY <2>2 DEF Copied
<1>5. CopiesHeld
  BY <1>2, <1>4 DEF CopiesHeld, Levels
<1> QED BY <1>2, <1>3, <1>5 DEF ExplainInv, PathsFit, LinesExplained

(* The frames from level n on keep what they have copied and their tables. *)
LEMMA CopiesKept ==
  ASSUME Typed, Grows, CopiesHeld, pc \in {"read", "loop"}, NEW n \in Levels,
         n >= level,
         \A m \in Levels : m >= n => frame'[m].buf = frame[m].buf
                                       /\ frame'[m].addr = frame[m].addr,
         \A m \in Levels : m > n => frame'[m].i = frame[m].i
  PROVE  /\ \A m \in Levels : m >= n => (Lost(m) \/ Copied(m))'
         /\ \A m \in 1..3 :
              m >= n => EntryOf(m + 1).p' /\ frame'[m].addr = Address(EntryOf(m + 1))'
<1>1. ASSUME NEW m \in Levels, m >= n PROVE (Lost(m) \/ Copied(m))'
  <2>1. /\ m >= level /\ frame'[m].buf = frame[m].buf
        /\ \A l \in Levels : l > m => frame'[l].i = frame[l].i
    BY <1>1 DEF Levels, Typed, TypeOK
  <2>2. Lost(m) \/ Copied(m)
    BY <1>1, <2>1 DEF CopiesHeld
  <2> QED BY <2>1, <2>2, CopiedKept
<1>2. ASSUME NEW m \in 1..3, m >= n
      PROVE  EntryOf(m + 1).p' /\ frame'[m].addr = Address(EntryOf(m + 1))'
  <2>1. /\ m \in Levels /\ m + 1 \in Levels /\ m + 1 > n /\ m + 1 >= n /\ m >= level
    BY <1>2 DEF Levels, Typed, TypeOK
  <2>2. EntryOf(m + 1)' = EntryOf(m + 1) /\ frame'[m].addr = frame[m].addr
    BY <1>2, <2>1 DEF EntryOf
  <2>3. EntryOf(m + 1).p /\ frame[m].addr = Address(EntryOf(m + 1))
    BY <1>2, <2>1 DEF CopiesHeld
  <2> QED BY <2>2, <2>3 DEF Address
<1> QED BY <1>1, <1>2

LEMMA AdvanceExplained ==
  ASSUME Typed, ExplainInv, AtEntry, Advance, pc' = pc, level' = level,
         UNCHANGED <<mem, program, held, unread>>
  PROVE  Grows /\ MemoryHeld' /\ CopiesHeld'
<1>1. /\ level \in Levels /\ pc = "loop"
      /\ frame'[level].buf = frame[level].buf
      /\ frame'[level].addr = frame[level].addr
      /\ \A m \in Levels \ {level} : frame'[m] = frame[m]
  BY EntryTyped, AdvanceFrames DEF Typed, AtEntry
<1>2. Grows
  BY <1>1 DEF Grows, Levels
<1>3. MemoryHeld'
  BY DEF ExplainInv, MemoryHeld
<1>4. /\ \A m \in Levels : m >= level => frame'[m].buf = frame[m].buf
                                       /\ frame'[m].addr = frame[m].addr
      /\ \A m \in Levels : m > level => frame'[m].i = frame[m].i
      /\ level >= level
  BY <1>1 DEF Levels
<1>5. /\ \A m \in Levels : m >= level => (Lost(m) \/ Copied(m))'
      /\ \A m \in 1..3 :
           m >= level => EntryOf(m + 1).p' /\ frame'[m].addr = Address(EntryOf(m + 1))'
  BY <1>1, <1>2, <1>4, CopiesKept DEF ExplainInv
<1>6. CopiesHeld'
  BY <1>5 DEF CopiesHeld
<1> QED BY <1>2, <1>3, <1>6

LEMMA DescendExplained ==
  ASSUME Typed, ExplainInv, AtEntry, Entry.p, ~ IsLeaf, Descend,
         UNCHANGED <<mem, program, held, unread>>
  PROVE  Grows /\ MemoryHeld' /\ CopiesHeld'
<1>1. level \in Levels \ {1} /\ Entry \in EntryType /\ pc = "loop"
  BY EntryTyped DEF IsLeaf, AtEntry
<1>2. /\ level' = level - 1 /\ pc' = "read"
      /\ frame'[level - 1].addr = Address(Entry)
      /\ frame'[level - 1].buf = <<>>
      /\ \A m \in Levels \ {level - 1} : frame'[m] = frame[m]
  BY <1>1, DescendFrames
<1>3. Grows
  BY <1>1, <1>2 DEF Grows, Levels
<1>4. MemoryHeld'
  BY DEF ExplainInv, MemoryHeld
<1>5. /\ \A m \in Levels : m >= level => frame'[m].buf = frame[m].buf
                                       /\ frame'[m].addr = frame[m].addr
      /\ \A m \in Levels : m > level => frame'[m].i = frame[m].i
      /\ level >= level
  BY <1>1, <1>2 DEF Levels
<1>6. /\ \A m \in Levels : m >= level => (Lost(m) \/ Copied(m))'
      /\ \A m \in 1..3 :
           m >= level => EntryOf(m + 1).p' /\ frame'[m].addr = Address(EntryOf(m + 1))'
  BY <1>1, <1>3, <1>5, CopiesKept DEF ExplainInv
<1>7. PICK l \in 1..3 : l = level - 1 /\ l + 1 = level
  BY <1>1 DEF Levels
<1>8. (Lost(l) \/ Copied(l))'
  BY <1>2, <1>7 DEF Copied
<1>9. EntryOf(l + 1)' = Entry /\ Entry.p /\ frame'[l].addr = Address(Entry)
  <2>1. frame'[l + 1] = frame[level]
    BY <1>1, <1>2, <1>7 DEF Levels
  <2> QED BY <1>2, <1>7, <2>1 DEF EntryOf, Entry, Current
<1>10. \A m \in Levels : m >= l => m = l \/ m >= level
  BY <1>1, <1>7 DEF Levels
<1>11. \A m \in Levels : m >= l => (Lost(m) \/ Copied(m))'
  BY <1>6, <1>8, <1>10
<1>12. \A m \in 1..3 :
         m >= l => EntryOf(m + 1).p' /\ frame'[m].addr = Address(EntryOf(m + 1))'
  <2> SUFFICES ASSUME NEW m \in 1..3, m >= l
               PROVE  EntryOf(m + 1).p' /\ frame'[m].addr = Address(EntryOf(m + 1))'
    OBVIOUS
  <2>1. CASE m = l
    BY <1>9, <2>1 DEF Address
  <2>2. CASE m >= level
    BY <1>6, <2>2
  <2> QED BY <1>10, <2>1, <2>2 DEF Levels
<1>13. CopiesHeld'
  BY <1>2, <1>7, <1>11, <1>12 DEF CopiesHeld
<1> QED BY <1>3, <1>4, <1>13

LEMMA ResumeExplained ==
  ASSUME Typed, ExplainInv, pc \in {"read", "loop"}, Resume(level),
         UNCHANGED <<mem, program, held, lines>>, unread \subseteq unread'
  PROVE  Grows /\ MemoryHeld' /\ CopiesHeld'
<1>1. level \in Levels
  BY DEF Typed, TypeOK, Levels
<1>2. MemoryHeld'
  BY DEF ExplainInv, MemoryHeld
<1>3. CASE level = 4
  <2>1. pc' = "done" /\ frame' = frame
    BY <1>3 DEF Resume
  <2> QED BY <1>2, <2>1 DEF Grows, CopiesHeld
<1>4. CASE level \in 1..3
  <2>1. /\ level' = level + 1
        /\ frame'[level + 1].buf = frame[level + 1].buf
        /\ frame'[level + 1].addr = frame[level + 1].addr
        /\ \A m \in Levels \ {level, level + 1} : frame'[m] = frame[m]
    BY <1>4, ResumeFrames
  <2>2. PICK n \in Levels : n = level + 1
    BY <1>4 DEF Levels
  <2>3. Grows
    BY <1>4, <2>1 DEF Grows, Levels
  <2>4. /\ \A m \in Levels : m >= n => frame'[m].buf = frame[m].buf
                                     /\ frame'[m].addr = frame[m].addr
        /\ \A m \in Levels : m > n => frame'[m].i = frame[m].i
        /\ n >= level
    BY <1>4, <2>1, <2>2 DEF Levels
  <2>5. /\ \A m \in Levels : m >= n => (Lost(m) \/ Copied(m))'
        /\ \A m \in 1..3 :
             m >= n => EntryOf(m + 1).p' /\ frame'[m].addr = Address(EntryOf(m + 1))'
    BY <2>3, <2>4, CopiesKept DEF ExplainInv
  <2>6. CopiesHeld'
    BY <2>1, <2>2, <2>5 DEF CopiesHeld
  <2> QED BY <1>2, <2>3, <2>6
<1> QED BY <1>1, <1>3, <1>4 DEF Levels

(* A step that fills the copy of the running function from its own table,  *)
(* or fails to.                                                            *)
LEMMA FillExplained ==
  ASSUME Typed, ExplainInv, pc = "read", level' = level,
         UNCHANGED <<mem, program, held>>, unread \subseteq unread',
         NEW b, frame' = [frame EXCEPT ![level].buf = b],
         NEW l \in Levels, l = level, (Lost(l) \/ Copied(l))'
  PROVE  Grows /\ MemoryHeld' /\ CopiesHeld'
<1>1. /\ \A m \in Levels : /\ frame'[m].addr = frame[m].addr
                           /\ frame'[m].i = frame[m].i
                           /\ m # l => frame'[m] = frame[m]
  BY DEF Typed, TypeOK, FrameType
<1>2. Grows
  BY <1>1 DEF Grows, Levels
<1>3. MemoryHeld'
  BY DEF ExplainInv, MemoryHeld
<1>4. ASSUME NEW m \in Levels, m >= l PROVE (Lost(m) \/ Copied(m))'
  <2>1. CASE m # l
    <3>1. Lost(m) \/ Copied(m)
      BY <1>4 DEF ExplainInv, CopiesHeld
    <3>2. frame'[m].buf = frame[m].buf
      BY <1>1, <2>1
    <3> QED BY <1>1, <1>2, <1>4, <3>1, <3>2, CopiedKept
  <2> QED BY <2>1
<1>5. ASSUME NEW m \in 1..3, m >= l
      PROVE  EntryOf(m + 1).p' /\ frame'[m].addr = Address(EntryOf(m + 1))'
  <2>1. m + 1 \in Levels /\ m \in Levels /\ m + 1 # l
    BY <1>5 DEF Levels
  <2>2. EntryOf(m + 1)' = EntryOf(m + 1) /\ frame'[m].addr = frame[m].addr
    BY <1>1, <2>1 DEF EntryOf
  <2>3. EntryOf(m + 1).p /\ frame[m].addr = Address(EntryOf(m + 1))
    BY <1>5 DEF ExplainInv, CopiesHeld
  <2> QED BY <2>2, <2>3 DEF Address
<1> QED BY <1>2, <1>3, <1>4, <1>5 DEF CopiesHeld

LEMMA ReadEntryExplained ==
  ASSUME Typed, ExplainInv, ReadEntry
  PROVE  Grows /\ MemoryHeld' /\ CopiesHeld'
<1> DEFINE buf == Current.buf
           x == mem[PageOf(Current.addr)][Len(buf)]
<1>1. /\ pc = "read" /\ level' = level /\ UNCHANGED <<mem, program, held, unread, lines>>
      /\ PageOf(Current.addr) \in TablePages /\ Len(buf) < Entries
      /\ frame' = [frame EXCEPT ![level].buf = Append(@, mem[PageOf(Current.addr)][Len(@)])]
  BY DEF ReadEntry
<1>2. PICK l \in Levels : l = level
  BY <1>1 DEF Typed, TypeOK, Levels
<1>3. frame[l] \in FrameType /\ buf = frame[l].buf /\ buf \in Seq(EntryType)
  BY <1>2 DEF Typed, TypeOK, FrameType, Current
<1>4. frame' = [frame EXCEPT ![level].buf = Append(buf, x)]
  BY <1>1, <1>2, <1>3 DEF Typed, TypeOK
<1>5. Lost(l) \/ x \in HeldOn(Append(PathTo(l), Len(buf)))
  BY <1>1, <1>2, WordHeld DEF ExplainInv
<1>6. Lost(l) \/ Copied(l)
  BY <1>1, <1>2 DEF ExplainInv, CopiesHeld, Levels
<1>7. \A m \in Levels : frame'[m].i = frame[m].i /\ frame'[m].addr = frame[m].addr
  BY <1>4, <1>2, <1>3 DEF Typed, TypeOK, FrameType
<1>8. Grows
  BY <1>1, <1>7 DEF Grows, Levels
<1>9. CASE Lost(l)
  <2>1. Lost(l)'
    BY <1>7, <1>8, <1>9, LostKept
  <2> QED BY <1>1, <1>2, <1>4, <2>1, FillExplained
<1>10. CASE Copied(l) /\ ~ Lost(l)
  <2>1. \A q : HeldOn(q)' = HeldOn(q)
    <3>1. frame'[4].addr = frame[4].addr /\ held' = held /\ program' = program
      BY <1>1, <1>8 DEF Grows
    <3> QED BY <3>1 DEF HeldOn, HeldAt, LookedForAt
  <2>2. PathTo(l)' = PathTo(l)
    BY <1>2, <1>7, PathKept DEF Levels
  <2> DEFINE n == Len(buf)
  <2>3. x \in EntryType
    BY <1>1, <1>2, MemoryTyped
  <2>4. frame'[l].buf = Append(buf, x)
    BY <1>2, <1>3, <1>4 DEF Typed, TypeOK
  <2>5. x \in HeldOn(Append(PathTo(l), n))
    BY <1>5, <1>10
  <2>6. \A k \in 1 .. n : buf[k] \in HeldOn(Append(PathTo(l), k - 1))
    BY <1>3, <1>10 DEF Copied
  <2> HIDE DEF x, buf
  <2>7. n \in Nat /\ Len(Append(buf, x)) = n + 1 /\ Append(buf, x)[n + 1] = x
        /\ \A k \in 1 .. n : Append(buf, x)[k] = buf[k]
    BY <1>3, <2>3, AppendProperties
  <2> HIDE DEF n
  <2>8. \A k \in 1 .. n + 1 : Append(buf, x)[k] \in HeldOn(Append(PathTo(l), k - 1))
    <3> SUFFICES ASSUME NEW k \in 1 .. n + 1
                 PROVE  Append(buf, x)[k] \in HeldOn(Append(PathTo(l), k - 1))
      OBVIOUS
    <3>1. CASE k = n + 1
      <4>1. k - 1 = n
        BY <2>7, <3>1
      <4> QED BY <2>5, <2>7, <3>1, <4>1
    <3>2. CASE k \in 1 .. n
      BY <2>6, <2>7, <3>2
    <3> QED BY <2>7, <3>1, <3>2
  <2>9. Copied(l)'
    <3> SUFFICES ASSUME NEW k \in 1 .. n + 1
                 PROVE  frame'[l].buf[k] \in HeldOn(Append(PathTo(l), k - 1))'
      BY <2>4, <2>7 DEF Copied
    <3>1. PICK q : q = Append(PathTo(l), k - 1)
      OBVIOUS
    <3>2. frame'[l].buf[k] \in HeldOn(q)'
      BY <2>1, <2>4, <2>8, <3>1
    <3>3. q = Append(PathTo(l), k - 1)'
      BY <2>2, <3>1
    <3> QED BY <3>2, <3>3
  <2> QED BY <1>1, <1>2, <1>4, <2>9, FillExplained
<1> QED BY <1>6, <1>9, <1>10

LEMMA GarbageExplained ==
  ASSUME Typed, ExplainInv, ReadLeavesGarbage
  PROVE  Grows /\ MemoryHeld' /\ CopiesHeld'
<1>1. PICK b : frame' = [frame EXCEPT ![level].buf = b]
  BY DEF ReadLeavesGarbage, Typed, TypeOK, Levels
<1>2. /\ pc = "read" /\ level' = level /\ UNCHANGED <<mem, program, held, lines>>
      /\ unread' = unread \cup {<<level, PathTo(level)>>}
  BY DEF ReadLeavesGarbage, Unread, Table
<1>3. PICK l \in Levels : l = level
  BY <1>2 DEF Typed, TypeOK, Levels
<1>4. \A m \in Levels : frame'[m].i = frame[m].i
  BY <1>1 DEF Typed, TypeOK, FrameType
<1>5. PathTo(l)' = PathTo(l)
  BY <1>3, <1>4, PathKept DEF Levels
<1>6. Lost(l)'
  BY <1>2, <1>3, <1>5 DEF Lost, Levels
<1> QED BY <1>1, <1>2, <1>3, <1>6, FillExplained

LEMMA ExplainStep == Typed /\ ExplainInv /\ [Next]_vars => ExplainInv'
<1> SUFFICES ASSUME Typed, ExplainInv, [Next]_vars PROVE ExplainInv'
  OBVIOUS
<1>1. ASSUME Grows, MemoryHeld', CopiesHeld', lines' = lines PROVE ExplainInv'
  BY <1>1, LinesKept DEF ExplainInv
<1>2. ASSUME Grows, MemoryHeld', CopiesHeld', AtEntry, UNCHANGED <<held, unread>>,
             NEW kind \in {"table", "page"}, lines' = Append(lines, Line(kind))
      PROVE  ExplainInv'
  BY <1>2, LineAdded DEF ExplainInv
<1>3. CASE RejectAddress \/ Return
  <2>1. /\ pc \in {"read", "loop"} /\ Resume(level)
        /\ UNCHANGED <<mem, program, held, lines>> /\ unread \subseteq unread'
    BY <1>3 DEF RejectAddress, Unread, Return
  <2> QED BY <1>1, <2>1, ResumeExplained
<1>4. CASE ReadEntry
  BY <1>1, <1>4, ReadEntryExplained DEF ReadEntry
<1>5. CASE ReadDone
  <2>1. /\ pc = "read" /\ pc' = "loop"
        /\ UNCHANGED <<mem, program, level, frame, held, unread, lines>>
    BY <1>5 DEF ReadDone
  <2>2. Grows /\ MemoryHeld'
    BY <2>1 DEF Grows, ExplainInv, MemoryHeld
  <2>3. ASSUME NEW m \in Levels, m >= level PROVE (Lost(m) \/ Copied(m))'
    <3>1. Lost(m) \/ Copied(m)
      BY <2>1, <2>3 DEF ExplainInv, CopiesHeld
    <3> QED BY <2>1, <2>2, <2>3, <3>1, CopiedKept
  <2>4. CopiesHeld'
    BY <2>1, <2>3 DEF ExplainInv, CopiesHeld, EntryOf, Address
  <2> QED BY <1>1, <2>1, <2>2, <2>4
<1>6. CASE ReadCallFails
  <2>1. /\ pc' = "crashed" /\ UNCHANGED <<mem, program, frame, held, lines>>
        /\ unread \subseteq unread'
    BY <1>6 DEF ReadCallFails, Unread
  <2> QED BY <1>1, <2>1 DEF Grows, ExplainInv, MemoryHeld, CopiesHeld
<1>7. CASE ReadLeavesGarbage
  BY <1>1, <1>7, GarbageExplained DEF ReadLeavesGarbage
<1>8. CASE SkipEntry
  BY <1>1, <1>8, AdvanceExplained DEF SkipEntry
<1>9. CASE ShowAbsent
  <2>1. Grows /\ MemoryHeld' /\ CopiesHeld'
    BY <1>9, AdvanceExplained DEF ShowAbsent
  <2> QED BY <1>2, <1>9, <2>1 DEF ShowAbsent
<1>10. CASE ShowPage
  <2>1. Grows /\ MemoryHeld' /\ CopiesHeld'
    BY <1>10, AdvanceExplained DEF ShowPage
  <2> QED BY <1>2, <1>10, <2>1 DEF ShowPage
<1>11. CASE ShowTable
  <2>1. Grows /\ MemoryHeld' /\ CopiesHeld'
    BY <1>11, DescendExplained DEF ShowTable
  <2> QED BY <1>2, <1>11, <2>1 DEF ShowTable
<1>12. CASE OSWrite
  <2>1. PICK w \in TablePages \X Indices, e \in NewEntries :
          /\ mem' = [mem EXCEPT ![w[1]][w[2]] = e]
          /\ held' = [held EXCEPT ![w] = @ \cup {e}]
    BY <1>12 DEF OSWrite
  <2>2. UNCHANGED <<program, pc, level, frame, lines, unread>>
    BY <1>12 DEF OSWrite, progVars
  <2>3. Grows
    BY <2>1, <2>2 DEF Grows, Typed, TypeOK
  <2>4. MemoryHeld'
    <3> SUFFICES ASSUME NEW v \in TablePages \X Indices
                 PROVE  mem'[v[1]][v[2]] \in held'[v]
      BY DEF MemoryHeld
    <3>1. mem[v[1]][v[2]] \in held[v]
      BY DEF ExplainInv, MemoryHeld
    <3>2. CASE v = w
      <4>1. mem'[w[1]][w[2]] = e
        BY <2>1 DEF Typed, TypeOK, TableType
      <4>2. e \in held'[w]
        BY <2>1 DEF Typed, TypeOK
      <4> QED BY <3>2, <4>1, <4>2
    <3>3. CASE v # w
      <4>1. v[1] # w[1] \/ v[2] # w[2]
        BY <3>3
      <4>2. mem'[v[1]][v[2]] = mem[v[1]][v[2]]
        BY <2>1, <4>1 DEF Typed, TypeOK, TableType
      <4>3. held'[v] = held[v]
        BY <2>1, <3>3 DEF Typed, TypeOK
      <4> QED BY <3>1, <4>2, <4>3
    <3> QED BY <3>2, <3>3
  <2>5. ASSUME NEW m \in Levels, m >= level, pc \in {"read", "loop"}
        PROVE  (Lost(m) \/ Copied(m))'
    <3>1. Lost(m) \/ Copied(m)
      BY <2>5 DEF ExplainInv, CopiesHeld
    <3> QED BY <2>2, <2>3, <2>5, <3>1, CopiedKept
  <2>6. CopiesHeld'
    BY <2>2, <2>5 DEF ExplainInv, CopiesHeld, EntryOf, Address
  <2> QED BY <1>1, <2>2, <2>3, <2>4, <2>6
<1>13. CASE Finished \/ UNCHANGED vars
  <2>1. UNCHANGED <<mem, program, pc, level, frame, lines, held, unread>>
    BY <1>13 DEF Finished, vars
  <2>2. Grows /\ MemoryHeld'
    BY <2>1 DEF Grows, ExplainInv, MemoryHeld
  <2>3. ASSUME NEW m \in Levels, m >= level, pc \in {"read", "loop"}
        PROVE  (Lost(m) \/ Copied(m))'
    <3>1. Lost(m) \/ Copied(m)
      BY <2>3 DEF ExplainInv, CopiesHeld
    <3> QED BY <2>1, <2>2, <2>3, <3>1, CopiedKept
  <2>4. CopiesHeld'
    BY <2>1, <2>3 DEF ExplainInv, CopiesHeld, EntryOf, Address
  <2> QED BY <1>1, <2>1, <2>2, <2>4
<1> QED
  BY <1>3, <1>4, <1>5, <1>6, <1>7, <1>8, <1>9, <1>10, <1>11, <1>12, <1>13
  DEF Next, Walk

(* However the tables change during the walk and whatever reads fail, each *)
(* line shows an entry that memory held where its indices lead the program *)
(* (in win8 modulo 4 GB), or lies behind a table that was not read.        *)
THEOREM LinesCorrect == Spec => []LinesExplained
<1>1. Init => ExplainInv
  BY ExplainInit
<1>2. Typed /\ ExplainInv /\ [Next]_vars => ExplainInv'
  BY ExplainStep
<1>3. ExplainInv => LinesExplained
  BY DEF ExplainInv
<1> QED BY <1>1, <1>2, <1>3, TypedInvariance, PTL DEF Spec

-----------------------------------------------------------------------------
(* The listing is a translation: the processor's, if it looked for its     *)
(* tables where the program does                                           *)

(* The virtual page lies below the entries the levels above l wait at.     *)
Under(v, l)  == \A m \in Levels : m > l => v[5 - m] = frame[m].i
Within(v, l) == \A m \in Levels : m >= l => v[5 - m] = frame[m].i

(* The walk is done with what maps the virtual page.                       *)
Passed(v) ==
  \E l \in Levels : l >= level /\ Under(v, l) /\ v[5 - l] < frame[l].i

Shown(v) == {<<lines[k].path, lines[k].entry>> : k \in ShownFor(v)}

(* The word that is read at a level, and the page that is found.           *)
Word4(v) == mem[LookedForAt(frame[4].addr.base)][v[1]]
Word3(v) == mem[LookedForAt(Word4(v).base)][v[2]]
Word2(v) == mem[LookedForAt(Word3(v).base)][v[3]]
Word1(v) == mem[LookedForAt(Word2(v).base)][v[4]]

SeenPage(v) ==
  CASE ~ Word4(v).p -> {}
    [] Word4(v).p /\ (~ Word3(v).p \/ Word3(v).ps) ->
         {x \in {<<Prefix(v, 2), Word3(v)>>} : Word3(v).p}
    [] Word4(v).p /\ Word3(v).p /\ ~ Word3(v).ps /\ (~ Word2(v).p \/ Word2(v).ps) ->
         {x \in {<<Prefix(v, 3), Word2(v)>>} : Word2(v).p}
    [] OTHER -> {x \in {<<v, Word1(v)>>} : Word1(v).p}

Right(v) ==
  BehindUnread(v, 4) \/ Shown(v) = SeenPage(v)

Steady == \A w \in TablePages \X Indices : held[w] = {mem[w[1]][w[2]]}

(* The levels above the running one wait at entries that refer to tables.  *)
Referring ==
  pc \in {"read", "loop"} =>
    \A m \in {2, 3} : m > level => ~ EntryOf(m).ps

(* While nothing is written: the pages passed are listed as that processor *)
(* would find them, the others not yet, and at the end all are passed.     *)
TranslationInv ==
  /\ Referring
  /\ writes = 0 =>
       /\ Steady
       /\ pc \in {"read", "loop"} =>
            \A v \in VirtualPages :
              IF Passed(v) THEN Right(v) ELSE ShownFor(v) = {}
       /\ pc = "done" => \A v \in VirtualPages : Right(v)

LEMMA VirtualSeq ==
  ASSUME NEW v \in VirtualPages, NEW n \in 0..4
  PROVE  /\ Prefix(v, n) \in Seq(Indices) /\ Len(Prefix(v, n)) = n
         /\ \A k \in 1..n : Prefix(v, n)[k] = v[k]
         /\ \A k \in 1..4 : v[k] \in Indices
         /\ v \in Seq(Indices) /\ Len(v) = 4
<1>1. /\ v \in Seq(Indices) /\ Len(v) = 4
      /\ \A k \in 1..4 : v[k] \in Indices
  <2>1. v \in [1..4 -> Indices]
    BY DEF VirtualPages
  <2>2. v \in Seq(Indices)
    BY <2>1, SeqDef
  <2>3. DOMAIN v = 1..4 /\ DOMAIN v = 1 .. Len(v) /\ Len(v) \in Nat
    BY <2>1, <2>2, LenProperties
  <2>4. Len(v) = 4
    BY <2>3
  <2> QED BY <2>1, <2>2, <2>4
<1>2. \A k \in 1..n : v[k] \in Indices
  BY <1>1
<1>3. /\ SubSeq(v, 1, n) \in Seq(Indices)
      /\ Len(SubSeq(v, 1, n)) = IF 1 <= n THEN n - 1 + 1 ELSE 0
      /\ \A k \in 1 .. n - 1 + 1 : SubSeq(v, 1, n)[k] = v[1 + k - 1]
  BY <1>1, <1>2, SubSeqProperties
<1>4. \A k \in 1..n : SubSeq(v, 1, n)[k] = v[k]
  BY <1>3
<1>5. Len(SubSeq(v, 1, n)) = n
  BY <1>3
<1>6. Prefix(v, n) = SubSeq(v, 1, n)
  BY DEF Prefix
<1> QED BY <1>1, <1>3, <1>4, <1>5, <1>6

LEMMA IndexOfPage ==
  ASSUME NEW v \in VirtualPages, NEW m \in Levels
  PROVE  v[5 - m] \in Indices /\ v[5 - m] \in Nat
<1>1. 5 - m \in 1..4
  BY DEF Levels
<1> QED BY <1>1, Constants DEF VirtualPages

LEMMA UnderPath ==
  ASSUME Typed, NEW v \in VirtualPages, NEW l \in Levels, l >= level, Under(v, l)
  PROVE  Prefix(v, 4 - l) = PathTo(l)
<1>1. 4 - l \in 0..4 /\ \A k \in 1 .. 4 - l : 5 - k \in Levels /\ 5 - k > l /\ 5 - (5 - k) = k
  BY DEF Levels
<1>2. /\ Prefix(v, 4 - l) \in Seq(Indices) /\ Len(Prefix(v, 4 - l)) = 4 - l
      /\ \A k \in 1 .. 4 - l : Prefix(v, 4 - l)[k] = v[k]
  BY <1>1, VirtualSeq
<1>3. /\ PathTo(l) \in Seq(Indices) /\ Len(PathTo(l)) = 4 - l
      /\ \A k \in 1 .. 4 - l : PathTo(l)[k] = frame[5 - k].i
  BY PathType
<1>4. \A k \in 1 .. 4 - l : v[k] = frame[5 - k].i
  BY <1>1 DEF Under
<1>5. \A k \in 1 .. 4 - l : Prefix(v, 4 - l)[k] = PathTo(l)[k]
  BY <1>2, <1>3, <1>4
<1> QED BY <1>2, <1>3, <1>5

(* The path of the current entry is a prefix of the pages within it.       *)
LEMMA WithinPath ==
  ASSUME Typed, NEW l \in Levels, l >= level, frame[l].i \in Indices,
         NEW v \in VirtualPages
  PROVE  LET q == Append(PathTo(l), frame[l].i)
         IN  /\ Len(q) = 5 - l
             /\ Within(v, l) <=> q = Prefix(v, 5 - l)
<1> DEFINE q == Append(PathTo(l), frame[l].i)
<1>1. /\ PathTo(l) \in Seq(Indices) /\ Len(PathTo(l)) = 4 - l
      /\ \A k \in 1 .. 4 - l : PathTo(l)[k] = frame[5 - k].i
  BY PathType
<1>2. /\ q \in Seq(Indices) /\ Len(q) = (4 - l) + 1
      /\ \A k \in 1 .. 4 - l : q[k] = PathTo(l)[k]
      /\ q[(4 - l) + 1] = frame[l].i
  BY <1>1, AppendProperties
<1> HIDE DEF q
<1>3. PICK n \in 1..4 : n \in 0..4 /\ n = 5 - l /\ l = 5 - n /\ n = (4 - l) + 1 /\ 4 - l = n - 1
  BY DEF Levels
<1>4. \A k \in 1..n : q[k] = frame[5 - k].i
  <2> SUFFICES ASSUME NEW k \in 1..n PROVE q[k] = frame[5 - k].i
    OBVIOUS
  <2>1. CASE k = n
    BY <1>2, <1>3, <2>1
  <2>2. CASE k \in 1 .. n - 1
    BY <1>1, <1>2, <1>3, <2>2
  <2> QED BY <1>3, <2>1, <2>2
<1>5. /\ Prefix(v, n) \in Seq(Indices) /\ Len(Prefix(v, n)) = n
      /\ \A k \in 1..n : Prefix(v, n)[k] = v[k]
  BY <1>3, VirtualSeq
<1>6. Within(v, l) <=> \A k \in 1..n : v[k] = frame[5 - k].i
  <2>1. \A m \in Levels : m >= l => 5 - m \in 1..n /\ 5 - (5 - m) = m
    BY <1>3 DEF Levels
  <2>2. \A k \in 1..n : 5 - k \in Levels /\ 5 - k >= l /\ 5 - (5 - k) = k
    BY <1>3 DEF Levels
  <2> QED BY <2>1, <2>2 DEF Within
<1>7. q = Prefix(v, n) <=> \A k \in 1..n : q[k] = Prefix(v, n)[k]
  BY <1>2, <1>3, <1>5
<1>8. Within(v, l) <=> q = Prefix(v, n)
  BY <1>4, <1>5, <1>6, <1>7
<1> QED BY <1>2, <1>3, <1>8 DEF q

(* What lies under a table that was not read.                              *)
LEMMA UnderLost ==
  ASSUME Typed, NEW v \in VirtualPages, NEW l \in Levels, l >= level, Under(v, l),
         Lost(l)
  PROVE  BehindUnread(v, 4)
<1>1. PICK m \in Levels : m >= l /\ <<m, PathTo(m)>> \in unread
  BY DEF Lost
<1>2. m >= level /\ Under(v, m)
  BY <1>1 DEF Under, Levels, Typed, TypeOK
<1>3. Prefix(v, 4 - m) = PathTo(m)
  BY <1>1, <1>2, UnderPath
<1>4. 5 - m \in 1..4 /\ 5 - (5 - m) = m /\ (5 - m) - 1 = 4 - m
  BY DEF Levels
<1>5. <<5 - (5 - m), Prefix(v, (5 - m) - 1)>> \in unread
  BY <1>1, <1>3, <1>4
<1> QED BY <1>4, <1>5 DEF BehindUnread

-----------------------------------------------------------------------------
(* The entries the walk waits at are those that processor would follow     *)

Word(v, l) ==
  CASE l = 4 -> Word4(v) [] l = 3 -> Word3(v) [] l = 2 -> Word2(v) [] OTHER -> Word1(v)

LEMMA SteadyHeld ==
  ASSUME Steady, NEW b, NEW i \in Indices
  PROVE  SeenAt(b, i) \subseteq {mem[LookedForAt(b)][i]}
<1> DEFINE c == LookedForAt(b)
<1> HIDE DEF c
<1>1. CASE c \in TablePages
  <2>1. <<c, i>> \in TablePages \X Indices
    BY <1>1
  <2>2. held[<<c, i>>] = {mem[<<c, i>>[1]][<<c, i>>[2]]}
    BY <2>1 DEF Steady
  <2> QED BY <1>1, <2>2 DEF SeenAt, HeldAt, c
<1>2. CASE c \notin TablePages
  BY <1>2 DEF SeenAt, HeldAt, c
<1> QED BY <1>1, <1>2

LEMMA SteadyBelow ==
  ASSUME Steady, NEW es, NEW e, es \subseteq {e}, NEW i \in Indices
  PROVE  Below(es, i) \subseteq {mem[LookedForAt(e.base)][i]}
<1>1. SeenAt(e.base, i) \subseteq {mem[LookedForAt(e.base)][i]}
  BY SteadyHeld
<1> QED BY <1>1 DEF Below

LEMMA HeldIsWord ==
  ASSUME Steady, NEW v \in VirtualPages, NEW l \in Levels
  PROVE  HeldOn(Prefix(v, 5 - l)) \subseteq {Word(v, l)}
<1> DEFINE h4 == SeenAt(frame[4].addr.base, v[1])
           h3 == Below(h4, v[2])
           h2 == Below(h3, v[3])
           h1 == Below(h2, v[4])
<1>1. v[1] \in Indices /\ v[2] \in Indices /\ v[3] \in Indices /\ v[4] \in Indices
  BY VirtualSeq
<1>2. h4 \subseteq {Word4(v)}
  BY <1>1, SteadyHeld DEF Word4
<1>3. h3 \subseteq {Word3(v)}
  <2> HIDE DEF h4
  <2>1. \A i \in Indices : Below(h4, i) \subseteq {mem[LookedForAt(Word4(v).base)][i]}
    BY <1>2, SteadyBelow
  <2> QED BY <1>1, <2>1 DEF Word3
<1>4. h2 \subseteq {Word2(v)}
  <2> HIDE DEF h3
  <2>1. \A i \in Indices : Below(h3, i) \subseteq {mem[LookedForAt(Word3(v).base)][i]}
    BY <1>3, SteadyBelow
  <2> QED BY <1>1, <2>1 DEF Word2
<1>5. h1 \subseteq {Word1(v)}
  <2> HIDE DEF h2
  <2>1. \A i \in Indices : Below(h2, i) \subseteq {mem[LookedForAt(Word2(v).base)][i]}
    BY <1>4, SteadyBelow
  <2> QED BY <1>1, <2>1 DEF Word1
<1>6. PICK n \in 1..4 : n \in 0..4 /\ n = 5 - l /\ l = 5 - n
  BY DEF Levels
<1> DEFINE p == Prefix(v, n)
<1>7. Len(p) = n /\ \A k \in 1..n : p[k] = v[k]
  BY <1>6, VirtualSeq
<1> HIDE DEF p
<1>8. /\ n = 1 => HeldOn(p) = SeenAt(frame[4].addr.base, p[1])
      /\ n = 2 => HeldOn(p) = Below(SeenAt(frame[4].addr.base, p[1]), p[2])
      /\ n = 3 => HeldOn(p) = Below(Below(SeenAt(frame[4].addr.base, p[1]), p[2]), p[3])
      /\ n = 4 => HeldOn(p)
           = Below(Below(Below(SeenAt(frame[4].addr.base, p[1]), p[2]), p[3]), p[4])
  BY <1>7, HeldOnLevels
<1>9. CASE n = 1
  <2>1. p[1] = v[1] /\ l = 4
    BY <1>6, <1>7, <1>9
  <2> QED BY <1>2, <1>6, <1>8, <1>9, <2>1 DEF Word, p
<1>10. CASE n = 2
  <2>1. p[1] = v[1] /\ p[2] = v[2] /\ l = 3
    BY <1>6, <1>7, <1>10
  <2> QED BY <1>3, <1>6, <1>8, <1>10, <2>1 DEF Word, p
<1>11. CASE n = 3
  <2>1. p[1] = v[1] /\ p[2] = v[2] /\ p[3] = v[3] /\ l = 2
    BY <1>6, <1>7, <1>11
  <2> QED BY <1>4, <1>6, <1>8, <1>11, <2>1 DEF Word, p
<1>12. CASE n = 4
  <2>1. p[1] = v[1] /\ p[2] = v[2] /\ p[3] = v[3] /\ p[4] = v[4] /\ l = 1
    BY <1>6, <1>7, <1>12
  <2> QED BY <1>5, <1>6, <1>8, <1>12, <2>1 DEF Word, p
<1> QED BY <1>9, <1>10, <1>11, <1>12

LEMMA EntryIsWord ==
  ASSUME Typed, ExplainInv, Steady, pc \in {"read", "loop"},
         NEW v \in VirtualPages, NEW l \in Levels, l >= level,
         frame[l].i < Entries, Len(frame[l].buf) = Entries,
         Within(v, l), ~ Lost(l)
  PROVE  EntryOf(l) = Word(v, l) /\ EntryOf(l) \in EntryType
<1>1. /\ frame[l].i \in Indices /\ frame[l].i + 1 \in 1 .. Len(frame[l].buf)
      /\ (frame[l].i + 1) - 1 = frame[l].i
      /\ frame[l].buf \in Seq(EntryType)
  BY Constants DEF Typed, TypeOK, FrameType, Indices
<1>2. Copied(l)
  BY DEF ExplainInv, CopiesHeld
<1>3. EntryOf(l) \in HeldOn(Append(PathTo(l), frame[l].i))
  BY <1>1, <1>2 DEF Copied, EntryOf
<1>4. Append(PathTo(l), frame[l].i) = Prefix(v, 5 - l)
  BY <1>1, WithinPath
<1>5. EntryOf(l) \in {Word(v, l)}
  BY <1>3, <1>4, HeldIsWord
<1>6. EntryOf(l) \in EntryType
  BY <1>1, ElementOfSeq DEF EntryOf
<1> QED BY <1>5, <1>6

(* What it finds for the pages within the entry the walk is at.            *)
LEMMA EntryTranslates ==
  ASSUME Typed, ExplainInv, Referring, Steady, AtEntry,
         NEW v \in VirtualPages, Within(v, level)
  PROVE  \/ BehindUnread(v, 4)
         \/ /\ ~ Entry.p => SeenPage(v) = {}
            /\ Entry.p /\ IsLeaf =>
                 SeenPage(v)
                   = {<<Append(PathTo(level), Current.i), Entry>>}
<1>1. PICK l \in Levels : l = level
  BY EntryTyped
<1>2. pc = "loop" /\ Entry = EntryOf(l) /\ Current = frame[l] /\ frame[l].i \in Indices
  BY <1>1, EntryTyped DEF AtEntry, Entry, EntryOf, Current
<1>3. \A m \in Levels : m >= l => /\ frame[m].i < Entries
                                  /\ Len(frame[m].buf) = Entries
                                  /\ Within(v, m)
  BY <1>1, <1>2 DEF Typed, Place, AtEntry, Within, Levels
<1>4. CASE Lost(l)
  <2>1. Under(v, l)
    BY <1>1 DEF Under, Within, Levels
  <2> QED BY <1>1, <1>4, <2>1, UnderLost DEF Levels
<1>5. CASE ~ Lost(l)
  <2>1. \A m \in Levels : m >= l => ~ Lost(m)
    BY <1>5 DEF Lost, Levels
  <2>2. \A m \in Levels :
          m >= l => EntryOf(m) = Word(v, m) /\ EntryOf(m) \in EntryType
    BY <1>1, <1>2, <1>3, <2>1, EntryIsWord
  <2>3. \A m \in Levels : m > l => EntryOf(m).p
    <3> SUFFICES ASSUME NEW m \in Levels, m > l PROVE EntryOf(m).p
      OBVIOUS
    <3>1. PICK k \in 1..3 : k + 1 = m /\ k >= level
      BY <1>1 DEF Levels
    <3> QED BY <1>2, <3>1 DEF ExplainInv, CopiesHeld
  <2>4. \A m \in {2, 3} : m > l => ~ EntryOf(m).ps
    BY <1>1, <1>2 DEF Referring
  <2>5. Append(PathTo(l), frame[l].i) = Prefix(v, 5 - l)
    BY <1>1, <1>2, <1>3, WithinPath DEF Levels
  <2> DEFINE e == EntryOf(l)
             hw == SeenPage(v)
             e4 == Word4(v)
             e3 == Word3(v)
             e2 == Word2(v)
             e1 == Word1(v)
  <2>6. hw = CASE ~ e4.p -> {}
             [] e4.p /\ (~ e3.p \/ e3.ps) ->
                  {x \in {<<Prefix(v, 2), e3>>} : e3.p}
             [] e4.p /\ e3.p /\ ~ e3.ps /\ (~ e2.p \/ e2.ps) ->
                  {x \in {<<Prefix(v, 3), e2>>} : e2.p}
             [] OTHER -> {x \in {<<v, e1>>} : e1.p}
    BY DEF SeenPage
  <2>7. Word(v, 4) = e4 /\ Word(v, 3) = e3 /\ Word(v, 2) = e2 /\ Word(v, 1) = e1
    BY DEF Word
  <2> HIDE DEF hw, e1, e2, e3, e4, e
  <2>8. \A x \in EntryType : x.p \in BOOLEAN /\ x.ps \in BOOLEAN
    BY DEF EntryType
  <2>9. e = Word(v, l) /\ e.p \in BOOLEAN /\ e.ps \in BOOLEAN
    BY <2>2, <2>8 DEF e, Levels
  <2>10. CASE l = 4
    <3>1. ~ e.p => hw = {}
      BY <2>6, <2>7, <2>9, <2>10
    <3>2. ~ IsLeaf
      BY <1>1, <2>10 DEF IsLeaf
    <3> QED BY <1>2, <3>1, <3>2 DEF e, hw
  <2>11. CASE l = 3
    <3>1. e4.p /\ e4.p \in BOOLEAN /\ e = e3
      BY <2>2, <2>3, <2>7, <2>8, <2>9, <2>11 DEF Levels
    <3>2. ~ e.p => hw = {}
      BY <2>6, <2>9, <3>1
    <3>3. e.p /\ e.ps => hw = {<<Prefix(v, 2), e>>}
      BY <2>6, <2>9, <3>1
    <3>4. IsLeaf <=> Entry.ps
      BY <1>1, <2>11 DEF IsLeaf
    <3>5. 5 - l = 2
      BY <2>11
    <3> QED BY <1>1, <1>2, <2>5, <3>2, <3>3, <3>4, <3>5 DEF e, hw
  <2>12. CASE l = 2
    <3>1. e4.p /\ e4.p \in BOOLEAN /\ e3.p /\ e3.p \in BOOLEAN
          /\ ~ e3.ps /\ e3.ps \in BOOLEAN /\ e = e2
      BY <2>2, <2>3, <2>4, <2>7, <2>8, <2>9, <2>12 DEF Levels
    <3>2. ~ e.p => hw = {}
      BY <2>6, <2>9, <3>1
    <3>3. e.p /\ e.ps => hw = {<<Prefix(v, 3), e>>}
      BY <2>6, <2>9, <3>1
    <3>4. IsLeaf <=> Entry.ps
      BY <1>1, <2>12 DEF IsLeaf
    <3>5. 5 - l = 3
      BY <2>12
    <3> QED BY <1>1, <1>2, <2>5, <3>2, <3>3, <3>4, <3>5 DEF e, hw
  <2>13. CASE l = 1
    <3>1. e4.p /\ e4.p \in BOOLEAN /\ e3.p /\ e3.p \in BOOLEAN
          /\ ~ e3.ps /\ e3.ps \in BOOLEAN /\ e2.p /\ e2.p \in BOOLEAN
          /\ ~ e2.ps /\ e2.ps \in BOOLEAN /\ e = e1
      BY <2>2, <2>3, <2>4, <2>7, <2>8, <2>9, <2>13 DEF Levels
    <3>2. ~ e.p => hw = {}
      BY <2>6, <2>9, <3>1
    <3>3. e.p => hw = {<<v, e>>}
      BY <2>6, <2>9, <3>1
    <3>4. Prefix(v, 4) = v
      <4>1. /\ Prefix(v, 4) \in Seq(Indices) /\ Len(Prefix(v, 4)) = 4
            /\ \A k \in 1..4 : Prefix(v, 4)[k] = v[k]
            /\ v \in Seq(Indices) /\ Len(v) = 4
        BY VirtualSeq
      <4> QED BY <4>1
    <3>5. 5 - l = 4
      BY <2>13
    <3> QED BY <1>1, <1>2, <2>5, <3>2, <3>3, <3>4, <3>5 DEF e, hw
  <2> QED BY <2>10, <2>11, <2>12, <2>13 DEF Levels
<1> QED BY <1>4, <1>5

-----------------------------------------------------------------------------
(* Which pages a step passes                                               *)

LEMMA WithinNotPassed ==
  ASSUME Typed, NEW v \in VirtualPages, Within(v, level)
  PROVE  ~ Passed(v)
BY SMTT(30) DEF Passed, Within, Typed, TypeOK, FrameType, Levels

LEMMA PassedAdvance ==
  ASSUME Typed, AtEntry, Advance, level' = level, NEW v \in VirtualPages
  PROVE  Passed(v)' <=> Passed(v) \/ Within(v, level)
<1>1. /\ level \in Levels /\ frame'[level].i = frame[level].i + 1
      /\ \A m \in Levels \ {level} : frame'[m] = frame[m]
  BY EntryTyped, AdvanceFrames DEF Typed
<1>2. \A l \in Levels : l >= level => Under(v, l)' = Under(v, l)
  BY <1>1 DEF Under, Levels
<1>3. v[5 - level] \in Nat /\ frame[level].i \in Nat
  BY <1>1, IndexOfPage DEF Typed, TypeOK, FrameType
<1>4. v[5 - level] < frame'[level].i
        <=> v[5 - level] < frame[level].i \/ v[5 - level] = frame[level].i
  BY <1>1, <1>3
<1>5. Within(v, level) <=> Under(v, level) /\ v[5 - level] = frame[level].i
  BY <1>1 DEF Within, Under, Levels
<1>6. \A l \in Levels : l # level => (v[5 - l] < frame'[l].i <=> v[5 - l] < frame[l].i)
  BY <1>1
<1>7. Passed(v)' <=> \E l \in Levels : /\ l >= level /\ Under(v, l)
                                      /\ v[5 - l] < frame'[l].i
  BY <1>2 DEF Passed
<1>8. level >= level
  BY <1>1 DEF Levels
<1> QED BY <1>1, <1>4, <1>5, <1>6, <1>7, <1>8 DEF Passed

LEMMA PassedDescend ==
  ASSUME Typed, AtEntry, level # 1, Descend, NEW v \in VirtualPages
  PROVE  Passed(v)' <=> Passed(v)
<1>1. PICK n \in 1..3 : n = level - 1 /\ n + 1 = level /\ n \in Levels
  BY EntryTyped DEF Levels
<1>2. /\ level' = n /\ frame'[n].i = 0
      /\ \A m \in Levels \ {n} : frame'[m] = frame[m]
  BY <1>1, EntryTyped, DescendFrames
<1>3. \A l \in Levels : l >= level => /\ Under(v, l)' = Under(v, l)
                                     /\ frame'[l].i = frame[l].i
  BY <1>1, <1>2 DEF Under, Levels
<1>4. v[5 - n] \in Nat
  BY <1>1, IndexOfPage
<1>5. ~ (v[5 - n] < frame'[n].i)
  BY <1>2, <1>4
<1>6. \A l \in Levels : l >= n <=> l = n \/ l >= level
  BY <1>1 DEF Levels
<1> QED BY <1>1, <1>2, <1>3, <1>5, <1>6 DEF Passed

LEMMA PassedResume ==
  ASSUME Typed, NEW n \in 1..3, n = level, Resume(level), NEW v \in VirtualPages
  PROVE  Passed(v)' <=> Passed(v) \/ Within(v, n + 1)
<1>1. /\ level' = n + 1
      /\ frame'[n + 1].i = frame[n + 1].i + 1
      /\ \A m \in Levels \ {n, n + 1} : frame'[m] = frame[m]
  BY ResumeFrames
<1>2. PICK u \in Levels : u = n + 1 /\ n \in Levels /\ u # n /\ u >= u
  BY DEF Levels
<1>3. \A l \in Levels : l >= u => Under(v, l)' = Under(v, l)
  BY <1>1, <1>2 DEF Under, Levels
<1>4. v[5 - u] \in Nat /\ frame[u].i \in Nat
  BY <1>2, IndexOfPage DEF Typed, TypeOK, FrameType
<1>5. v[5 - u] < frame'[u].i <=> v[5 - u] < frame[u].i \/ v[5 - u] = frame[u].i
  BY <1>1, <1>2, <1>4
<1>6. Within(v, u) <=> Under(v, u) /\ v[5 - u] = frame[u].i
  BY <1>2 DEF Within, Under, Levels
<1>7. \A l \in Levels : l > u => frame'[l].i = frame[l].i
  BY <1>1, <1>2 DEF Levels
<1>8. Under(v, n) <=> Within(v, u)
  BY <1>2 DEF Within, Under, Levels
<1>9. \A l \in Levels : /\ l >= n <=> l = n \/ l >= u
                        /\ l >= u <=> l = u \/ l > u
  BY <1>2 DEF Levels
<1>10. Passed(v)' <=> \E l \in Levels : /\ l >= u /\ Under(v, l)
                                       /\ v[5 - l] < frame'[l].i
  BY <1>1, <1>2, <1>3 DEF Passed
<1>11. Passed(v)' <=> (\E l \in Levels : l >= u /\ Under(v, l) /\ v[5 - l] < frame[l].i)
                      \/ Within(v, u)
  BY <1>2, <1>5, <1>6, <1>7, <1>9, <1>10
<1>12. Passed(v) <=> (\E l \in Levels : l >= u /\ Under(v, l) /\ v[5 - l] < frame[l].i)
                     \/ (Under(v, n) /\ v[5 - n] < frame[n].i)
  BY <1>2, <1>9 DEF Passed
<1> QED BY <1>2, <1>8, <1>11, <1>12

(* A table whose last entry is done leaves no page within it unpassed.     *)
LEMMA TableDone ==
  ASSUME Typed, level \in Levels, frame[level].i = Entries,
         NEW v \in VirtualPages, Under(v, level)
  PROVE  Passed(v)
<1>1. v[5 - level] \in Indices
  BY IndexOfPage
<1>2. v[5 - level] < frame[level].i
  BY <1>1, Constants DEF Indices
<1> QED BY <1>2 DEF Passed, Levels

LEMMA RightKept ==
  ASSUME NEW v, Right(v), mem' = mem, program' = program, frame'[4].addr = frame[4].addr,
         unread \subseteq unread', Shown(v)' = Shown(v)
  PROVE  Right(v)'
<1>1. BehindUnread(v, 4) => BehindUnread(v, 4)'
  BY DEF BehindUnread
<1>2. SeenPage(v)' = SeenPage(v)
  BY DEF SeenPage, Word4, Word3, Word2, Word1, LookedForAt
<1> QED BY <1>1, <1>2 DEF Right

LEMMA SameLines ==
  ASSUME lines' = lines, NEW v
  PROVE  Shown(v)' = Shown(v) /\ ShownFor(v)' = ShownFor(v)
BY DEF Shown, ShownFor

(* A line that is not of a page shows no page.                             *)
LEMMA TableLine ==
  ASSUME Typed, AtEntry, lines' = Append(lines, Line("table")), NEW v
  PROVE  Shown(v)' = Shown(v) /\ ShownFor(v)' = ShownFor(v)
<1>1. /\ Len(lines) \in Nat /\ DOMAIN lines = 1 .. Len(lines)
      /\ DOMAIN lines' = 1 .. Len(lines) + 1
      /\ \A k \in 1 .. Len(lines) : lines'[k] = lines[k]
      /\ lines'[Len(lines) + 1] = Line("table")
  BY LineTyped DEF Typed, TypeOK
<1>2. lines'[Len(lines) + 1].kind # "page"
  BY <1>1 DEF Line
<1>3. \A k : k \in ShownFor(v)' <=> k \in ShownFor(v)
  BY <1>1, <1>2 DEF ShownFor
<1>4. ShownFor(v)' = ShownFor(v)
  BY <1>3
<1>5. \A k \in ShownFor(v) : lines'[k] = lines[k]
  BY <1>1 DEF ShownFor
<1> QED BY <1>4, <1>5 DEF Shown

(* A line of a page shows the pages within the entry.                      *)
LEMMA PageLine ==
  ASSUME Typed, AtEntry, lines' = Append(lines, Line("page")),
         NEW v \in VirtualPages
  PROVE  /\ ~ Within(v, level) => Shown(v)' = Shown(v) /\ ShownFor(v)' = ShownFor(v)
         /\ Within(v, level) /\ ShownFor(v) = {} =>
              Shown(v)' = {<<Append(PathTo(level), Current.i), Entry>>}
<1> DEFINE q == Append(PathTo(level), Current.i)
           n == Len(lines) + 1
<1>1. /\ Len(lines) \in Nat /\ DOMAIN lines = 1 .. Len(lines)
      /\ DOMAIN lines' = 1 .. n
      /\ \A k \in 1 .. Len(lines) : lines'[k] = lines[k]
      /\ lines'[n] = Line("page")
  BY LineTyped DEF Typed, TypeOK
<1>2. Line("page").kind = "page" /\ Line("page").path = q /\ Line("page").entry = Entry
  BY DEF Line
<1>3. Len(q) = 5 - level /\ (Within(v, level) <=> q = Prefix(v, 5 - level))
  <2>1. PICK l \in Levels : l = level /\ l >= level /\ frame[l].i \in Indices
    BY EntryTyped DEF Current, Levels
  <2> QED BY <2>1, WithinPath DEF Current
<1> HIDE DEF q
<1>4. \A k : k \in ShownFor(v)' <=> k \in ShownFor(v) \/ (k = n /\ Within(v, level))
  BY <1>1, <1>2, <1>3 DEF ShownFor
<1>5. \A k \in ShownFor(v) : lines'[k] = lines[k]
  BY <1>1 DEF ShownFor
<1>6. ASSUME ~ Within(v, level)
      PROVE  Shown(v)' = Shown(v) /\ ShownFor(v)' = ShownFor(v)
  <2>1. ShownFor(v)' = ShownFor(v)
    BY <1>4, <1>6
  <2> QED BY <1>5, <2>1 DEF Shown
<1>7. ASSUME Within(v, level), ShownFor(v) = {} PROVE Shown(v)' = {<<q, Entry>>}
  <2>1. ShownFor(v)' = {n}
    BY <1>4, <1>7
  <2>2. lines'[n].path = q /\ lines'[n].entry = Entry
    BY <1>1, <1>2
  <2> QED BY <2>1, <2>2 DEF Shown
<1> QED BY <1>6, <1>7 DEF q

-----------------------------------------------------------------------------
(* The invariant is kept                                                   *)

LEMMA ReferringKept ==
  ASSUME Typed, Referring, pc \in {"read", "loop"}, level' \in Levels, level' >= level,
         \A m \in Levels : m > level' => /\ frame'[m].i = frame[m].i
                                         /\ frame'[m].buf = frame[m].buf
  PROVE  Referring'
<1> SUFFICES ASSUME NEW m \in {2, 3}, m > level' PROVE ~ EntryOf(m).ps'
  BY DEF Referring
<1>1. m \in Levels /\ m > level
  BY DEF Levels, Typed, TypeOK
<1>2. EntryOf(m)' = EntryOf(m)
  BY <1>1 DEF EntryOf
<1> QED BY <1>1, <1>2 DEF Referring

(* A step passes pages it leaves right, and leaves the others as they are. *)
LEMMA StepPasses ==
  ASSUME TranslationInv, Referring', pc \in {"read", "loop"}, pc' # "done",
         UNCHANGED <<mem, program, held, writes>>, frame'[4].addr = frame[4].addr,
         unread \subseteq unread',
         \A v \in VirtualPages :
           \/ /\ Passed(v)' <=> Passed(v)
              /\ Shown(v)' = Shown(v) /\ ShownFor(v)' = ShownFor(v)
           \/ Passed(v)' /\ (writes = 0 => Right(v)')
  PROVE  TranslationInv'
<1>1. ASSUME writes = 0, NEW v \in VirtualPages
      PROVE  IF Passed(v)' THEN Right(v)' ELSE ShownFor(v)' = {}
  <2>1. IF Passed(v) THEN Right(v) ELSE ShownFor(v) = {}
    BY <1>1 DEF TranslationInv
  <2>2. CASE /\ Passed(v)' <=> Passed(v)
             /\ Shown(v)' = Shown(v) /\ ShownFor(v)' = ShownFor(v)
    <3>1. Right(v) => Right(v)'
      BY <2>2, RightKept
    <3> QED BY <2>1, <2>2, <3>1
  <2>3. CASE Passed(v)' /\ Right(v)'
    BY <2>3
  <2> QED BY <1>1, <2>2, <2>3
<1>2. writes = 0 => Steady'
  BY DEF TranslationInv, Steady
<1> QED BY <1>1, <1>2 DEF TranslationInv

(* The end of an entry that is no page: nothing is mapped through it.      *)
LEMMA AdvanceTranslated ==
  ASSUME Typed, ExplainInv, TranslationInv, AtEntry, ~ Entry.p, Advance,
         UNCHANGED <<mem, program, pc, level, held, unread, writes>>,
         lines' = lines \/ lines' = Append(lines, Line("table"))
  PROVE  TranslationInv'
<1>1. /\ level \in Levels /\ pc = "loop" /\ level >= level
      /\ frame'[level].addr = frame[level].addr
      /\ \A m \in Levels \ {level} : frame'[m] = frame[m]
  BY EntryTyped, AdvanceFrames DEF Typed, AtEntry, Levels
<1>2. frame'[4].addr = frame[4].addr
  BY <1>1 DEF Levels
<1>3. Referring'
  BY <1>1, ReferringKept DEF TranslationInv, Levels
<1>4. \A v : Shown(v)' = Shown(v) /\ ShownFor(v)' = ShownFor(v)
  BY SameLines, TableLine
<1>5. ASSUME NEW v \in VirtualPages, Within(v, level), writes = 0
      PROVE  Right(v)'
  <2>1. ShownFor(v) = {}
    BY <1>1, <1>5, WithinNotPassed DEF TranslationInv
  <2>2. Shown(v) = {}
    BY <2>1 DEF Shown
  <2>3. BehindUnread(v, 4) \/ SeenPage(v) = {}
    BY <1>5, EntryTranslates DEF TranslationInv
  <2>4. Right(v)
    BY <2>2, <2>3 DEF Right
  <2> QED BY <1>2, <1>4, <2>4, RightKept
<1>6. \A v \in VirtualPages :
        \/ /\ Passed(v)' <=> Passed(v)
           /\ Shown(v)' = Shown(v) /\ ShownFor(v)' = ShownFor(v)
        \/ Passed(v)' /\ (writes = 0 => Right(v)')
  BY <1>4, <1>5, PassedAdvance
<1> QED BY <1>1, <1>2, <1>3, <1>6, StepPasses

LEMMA PageTranslated ==
  ASSUME Typed, ExplainInv, TranslationInv, ShowPage
  PROVE  TranslationInv'
<1>1. /\ AtEntry /\ Entry.p /\ IsLeaf /\ Advance /\ lines' = Append(lines, Line("page"))
      /\ UNCHANGED <<mem, program, pc, level, held, unread, writes>>
  BY DEF ShowPage
<1>2. /\ level \in Levels /\ pc = "loop" /\ level >= level
      /\ frame'[level].addr = frame[level].addr
      /\ \A m \in Levels \ {level} : frame'[m] = frame[m]
  BY <1>1, EntryTyped, AdvanceFrames DEF Typed, AtEntry, Levels
<1>3. frame'[4].addr = frame[4].addr
  BY <1>2 DEF Levels
<1>4. Referring'
  BY <1>1, <1>2, ReferringKept DEF TranslationInv, Levels
<1>5. ASSUME NEW v \in VirtualPages, Within(v, level), writes = 0
      PROVE  Right(v)'
  <2>1. ShownFor(v) = {}
    BY <1>2, <1>5, WithinNotPassed DEF TranslationInv
  <2>2. Shown(v)' = {<<Append(PathTo(level), Current.i), Entry>>}
    BY <1>1, <1>5, <2>1, PageLine
  <2>3. \/ BehindUnread(v, 4)
        \/ SeenPage(v)
             = {<<Append(PathTo(level), Current.i), Entry>>}
    BY <1>1, <1>5, EntryTranslates DEF TranslationInv
  <2>4. SeenPage(v)' = SeenPage(v)
    BY <1>1, <1>3 DEF SeenPage, Word4, Word3, Word2, Word1, LookedForAt
  <2>5. BehindUnread(v, 4)' = BehindUnread(v, 4)
    BY <1>1 DEF BehindUnread
  <2> QED BY <2>2, <2>3, <2>4, <2>5 DEF Right
<1>6. \A v \in VirtualPages :
        \/ /\ Passed(v)' <=> Passed(v)
           /\ Shown(v)' = Shown(v) /\ ShownFor(v)' = ShownFor(v)
        \/ Passed(v)' /\ (writes = 0 => Right(v)')
  BY <1>1, <1>5, PassedAdvance, PageLine
<1> QED BY <1>1, <1>2, <1>3, <1>4, <1>6, StepPasses

LEMMA TableTranslated ==
  ASSUME Typed, ExplainInv, TranslationInv, ShowTable
  PROVE  TranslationInv'
<1>1. /\ AtEntry /\ Entry.p /\ ~ IsLeaf /\ Descend /\ lines' = Append(lines, Line("table"))
      /\ UNCHANGED <<mem, program, held, unread, writes>>
  BY DEF ShowTable
<1>2. level \in Levels \ {1} /\ pc = "loop" /\ Entry \in EntryType
  BY <1>1, EntryTyped DEF IsLeaf, AtEntry
<1>3. /\ level' = level - 1 /\ pc' = "read"
      /\ \A m \in Levels \ {level - 1} : frame'[m] = frame[m]
  BY <1>1, <1>2, DescendFrames
<1>4. frame'[4].addr = frame[4].addr
  BY <1>2, <1>3 DEF Levels
<1>5. Referring'
  <2> SUFFICES ASSUME NEW m \in {2, 3}, m > level - 1 PROVE ~ EntryOf(m).ps'
    BY <1>3 DEF Referring
  <2>1. EntryOf(m)' = EntryOf(m)
    BY <1>2, <1>3 DEF EntryOf, Levels
  <2>2. CASE m = level
    BY <1>1, <2>1, <2>2 DEF IsLeaf, Entry, Current, EntryOf
  <2>3. CASE m > level
    BY <1>2, <2>1, <2>3 DEF TranslationInv, Referring
  <2> QED BY <1>2, <2>2, <2>3 DEF Levels
<1>6. \A v \in VirtualPages :
        /\ Passed(v)' <=> Passed(v)
        /\ Shown(v)' = Shown(v) /\ ShownFor(v)' = ShownFor(v)
  BY <1>1, <1>2, PassedDescend, TableLine
<1> QED BY <1>1, <1>2, <1>3, <1>4, <1>5, <1>6, StepPasses

(* The caller goes on: the pages within its entry are passed, or lie       *)
(* behind a table that was not read.                                       *)
LEMMA ResumeTranslated ==
  ASSUME Typed, TranslationInv, pc \in {"read", "loop"}, Resume(level),
         UNCHANGED <<mem, program, held, lines, writes>>, unread \subseteq unread',
         \/ frame[level].i = Entries
         \/ <<level, PathTo(level)>> \in unread'
  PROVE  TranslationInv'
<1>1. level \in Levels /\ level >= level
  BY DEF Typed, TypeOK, Levels
<1>2. ASSUME NEW v \in VirtualPages, Under(v, level)
      PROVE  Passed(v) \/ BehindUnread(v, 4)'
  <2>1. CASE frame[level].i = Entries
    BY <1>1, <1>2, <2>1, TableDone
  <2>2. CASE <<level, PathTo(level)>> \in unread'
    <3>1. Prefix(v, 4 - level) = PathTo(level)
      BY <1>1, <1>2, UnderPath
    <3>2. 5 - level \in 1..4 /\ 5 - (5 - level) = level /\ (5 - level) - 1 = 4 - level
      BY <1>1 DEF Levels
    <3>3. <<5 - (5 - level), Prefix(v, (5 - level) - 1)>> \in unread'
      BY <2>2, <3>1, <3>2
    <3> QED BY <3>2, <3>3 DEF BehindUnread
  <2> QED BY <2>1, <2>2
<1>3. \A v : Shown(v)' = Shown(v) /\ ShownFor(v)' = ShownFor(v)
  BY SameLines
<1>4. CASE level = 4
  <2>1. pc' = "done" /\ frame' = frame
    BY <1>4 DEF Resume
  <2>2. ASSUME writes = 0, NEW v \in VirtualPages PROVE Right(v)'
    <3>1. Under(v, level)
      BY <1>4 DEF Under, Levels
    <3>2. CASE Passed(v)
      <4>1. Right(v)
        BY <2>2, <3>2 DEF TranslationInv
      <4> QED BY <1>3, <2>1, <4>1, RightKept
    <3>3. CASE BehindUnread(v, 4)'
      BY <3>3 DEF Right
    <3> QED BY <1>2, <3>1, <3>2, <3>3
  <2>3. writes = 0 => Steady'
    BY DEF TranslationInv, Steady
  <2> QED BY <2>1, <2>2, <2>3 DEF TranslationInv, Referring
<1>5. CASE level \in 1..3
  <2>1. PICK n \in 1..3 : n = level
    BY <1>5
  <2>2. /\ level' = n + 1 /\ level' \in Levels /\ pc' = "loop"
        /\ frame'[n + 1].addr = frame[n + 1].addr
        /\ \A m \in Levels \ {n, n + 1} : frame'[m] = frame[m]
    BY <2>1, ResumeFrames
  <2>3. frame'[4].addr = frame[4].addr
    BY <2>2 DEF Levels
  <2>4. Referring'
    BY <2>1, <2>2, ReferringKept DEF TranslationInv, Levels
  <2>5. ASSUME NEW v \in VirtualPages
        PROVE  \/ Passed(v)' <=> Passed(v)
               \/ Passed(v)' /\ Right(v)'
    <3>1. Passed(v)' <=> Passed(v) \/ Within(v, n + 1)
      BY <2>1, PassedResume
    <3>2. Within(v, n + 1) => Under(v, level)
      BY <2>1 DEF Within, Under, Levels
    <3>3. Within(v, n + 1) => Passed(v) \/ Right(v)'
      BY <1>2, <3>2 DEF Right
    <3> QED BY <3>1, <3>3
  <2> QED BY <1>3, <2>2, <2>3, <2>4, <2>5, StepPasses
<1> QED BY <1>1, <1>4, <1>5 DEF Levels

(* A step of a read passes no page.                                        *)
LEMMA ReadTranslated ==
  ASSUME Typed, TranslationInv, pc = "read", pc' \in {"read", "loop", "crashed"},
         UNCHANGED <<mem, program, level, held, lines, writes>>, unread \subseteq unread',
         \/ UNCHANGED frame
         \/ \E b : frame' = [frame EXCEPT ![level].buf = b]
  PROVE  TranslationInv'
<1>1. level \in Levels /\ level >= level /\ level' \in Levels
  BY DEF Typed, TypeOK, Levels
<1>2. \A m \in Levels : /\ frame'[m].i = frame[m].i
                        /\ frame'[m].addr = frame[m].addr
                        /\ m # level => frame'[m].buf = frame[m].buf
  BY <1>1 DEF Typed, TypeOK, FrameType
<1>3. frame'[4].addr = frame[4].addr
  BY <1>2 DEF Levels
<1>4. Referring'
  BY <1>1, <1>2, ReferringKept DEF TranslationInv, Levels
<1>5. \A v \in VirtualPages :
        /\ Passed(v)' <=> Passed(v)
        /\ Shown(v)' = Shown(v) /\ ShownFor(v)' = ShownFor(v)
  BY <1>2, SameLines DEF Passed, Under
<1> QED BY <1>3, <1>4, <1>5, StepPasses

LEMMA TranslationInit == Init => TranslationInv
<1> SUFFICES ASSUME Init PROVE TranslationInv
  OBVIOUS
<1>1. /\ Typed /\ pc = "read" /\ level = 4 /\ lines = <<>>
      /\ held = [w \in TablePages \X Indices |-> {mem[w[1]][w[2]]}]
  BY TypedInit DEF Init
<1>2. Steady
  BY <1>1 DEF Steady
<1>3. Referring
  BY <1>1 DEF Referring
<1>4. ASSUME NEW v \in VirtualPages PROVE ~ Passed(v) /\ ShownFor(v) = {}
  <2>1. frame[4].i = 0
    BY <1>1 DEF Typed, Place
  <2>2. v[5 - 4] \in Nat
    BY IndexOfPage DEF Levels
  <2>3. \A l \in Levels : l >= level => l = 4
    BY <1>1 DEF Levels
  <2> QED BY <1>1, <2>1, <2>2, <2>3 DEF Passed, ShownFor
<1> QED BY <1>1, <1>2, <1>3, <1>4 DEF TranslationInv

LEMMA TranslationStep ==
  Typed /\ ExplainInv /\ TranslationInv /\ [Next]_vars => TranslationInv'
<1> SUFFICES ASSUME Typed, ExplainInv, TranslationInv, [Next]_vars
             PROVE  TranslationInv'
  OBVIOUS
<1>1. CASE RejectAddress
  BY <1>1, ResumeTranslated DEF RejectAddress, Unread, Table
<1>2. CASE Return
  BY <1>2, ResumeTranslated DEF Return, Current
<1>3. CASE ReadEntry
  <2>1. \E b : frame' = [frame EXCEPT ![level].buf = b]
    <3>1. frame' = [frame EXCEPT ![level].buf =
                      Append(frame[level].buf,
                             mem[PageOf(Current.addr)][Len(frame[level].buf)])]
      BY <1>3 DEF ReadEntry, Typed, TypeOK, Levels
    <3> QED BY <3>1
  <2> QED BY <1>3, <2>1, ReadTranslated DEF ReadEntry
<1>4. CASE ReadDone
  BY <1>4, ReadTranslated DEF ReadDone
<1>5. CASE ReadCallFails
  BY <1>5, ReadTranslated DEF ReadCallFails, Unread
<1>6. CASE ReadLeavesGarbage
  <2>1. \E b : frame' = [frame EXCEPT ![level].buf = b]
    BY <1>6 DEF ReadLeavesGarbage
  <2> QED BY <1>6, <2>1, ReadTranslated DEF ReadLeavesGarbage, Unread
<1>7. CASE SkipEntry
  <2>1. ~ Entry.p
    BY <1>7 DEF SkipEntry, Skipped, Zero
  <2> QED BY <1>7, <2>1, AdvanceTranslated DEF SkipEntry
<1>8. CASE ShowAbsent
  BY <1>8, AdvanceTranslated DEF ShowAbsent
<1>9. CASE ShowPage
  BY <1>9, PageTranslated
<1>10. CASE ShowTable
  BY <1>10, TableTranslated
<1>11. CASE OSWrite
  <2>1. writes' = writes + 1 /\ writes \in Nat /\ UNCHANGED <<pc, level, frame>>
    BY <1>11, Constants DEF OSWrite, progVars, Typed, TypeOK
  <2>2. writes' # 0
    BY <2>1
  <2>3. Referring'
    BY <2>1 DEF TranslationInv, Referring, EntryOf
  <2> QED BY <2>2, <2>3 DEF TranslationInv
<1>12. CASE Finished \/ UNCHANGED vars
  <2>1. UNCHANGED vars
    BY <1>12 DEF Finished
  <2>2. Referring' /\ (Steady <=> Steady')
    BY <2>1 DEF TranslationInv, Referring, EntryOf, Steady, vars
  <2>3. pc' = pc /\ writes' = writes
    BY <2>1 DEF vars
  <2>4. ASSUME NEW v \in VirtualPages, Right(v) PROVE Right(v)'
    <3>1. Shown(v)' = Shown(v)
      BY <2>1, SameLines DEF vars
    <3> QED BY <2>1, <2>4, <3>1, RightKept DEF vars
  <2>5. ASSUME writes = 0, pc \in {"read", "loop"}, NEW v \in VirtualPages
        PROVE  IF Passed(v)' THEN Right(v)' ELSE ShownFor(v)' = {}
    <3>1. IF Passed(v) THEN Right(v) ELSE ShownFor(v) = {}
      BY <2>5 DEF TranslationInv
    <3>2. Passed(v)' <=> Passed(v)
      BY <2>1 DEF Passed, Under, vars
    <3>3. ShownFor(v)' = ShownFor(v)
      BY <2>1, SameLines DEF vars
    <3> QED BY <2>4, <3>1, <3>2, <3>3
  <2>6. ASSUME writes = 0, pc = "done", NEW v \in VirtualPages PROVE Right(v)'
    <3>1. Right(v)
      BY <2>6 DEF TranslationInv
    <3> QED BY <2>4, <3>1
  <2>7. writes = 0 => Steady'
    BY <2>2 DEF TranslationInv
  <2> QED BY <2>2, <2>3, <2>5, <2>6, <2>7 DEF TranslationInv
<1> QED
  BY <1>1, <1>2, <1>3, <1>4, <1>5, <1>6, <1>7, <1>8, <1>9, <1>10, <1>11, <1>12
  DEF Next, Walk

-----------------------------------------------------------------------------
(* What the program misses of the processor's walk                         *)

Root == [Zero EXCEPT !.base = frame[4].addr.base]

(* The words the processor reads.                                          *)
Hw4(v) == mem[frame[4].addr.base][v[1]]
Hw3(v) == mem[Hw4(v).base][v[2]]
Hw2(v) == mem[Hw3(v).base][v[3]]
Hw1(v) == mem[Hw2(v).base][v[4]]

(* Missed for another cause than a failed read.                            *)
Strays(e) ==
  \/ e.base \notin TablePages
  \/ program = "win8" /\ e.base >= Span
  \/ program = "uptdump" /\ e.avail = 1

(* Hidden, if the reads f failed.                                          *)
HiddenWith(f, v) ==
  \/ Strays(Root) \/ <<4, Prefix(v, 0)>> \in f
  \/ /\ Hw4(v).p
     /\ Strays(Hw4(v)) \/ <<3, Prefix(v, 1)>> \in f
  \/ /\ Hw4(v).p /\ Hw3(v).p /\ ~ Hw3(v).ps
     /\ Strays(Hw3(v)) \/ <<2, Prefix(v, 2)>> \in f
  \/ /\ Hw4(v).p /\ Hw3(v).p /\ ~ Hw3(v).ps /\ Hw2(v).p /\ ~ Hw2(v).ps
     /\ Strays(Hw2(v)) \/ <<1, Prefix(v, 3)>> \in f

(* While nothing is written, what lies behind a table that was not read    *)
(* lies behind one that the program misses.                                *)
HiddenInv ==
  /\ frame[4].addr.avail = 0
  /\ writes = 0 =>
       \A v \in VirtualPages : BehindUnread(v, 4) => HiddenWith(failed, v)

LEMMA HiddenNow ==
  ASSUME NEW v
  PROVE  Hidden(mem, frame[4].addr.base, v) <=> HiddenWith(failed, v)
<1>1. 5 - 1 = 4 /\ 5 - 2 = 3 /\ 5 - 3 = 2 /\ 5 - 4 = 1 /\ 1 - 1 = 0 /\ 2 - 1 = 1
      /\ 3 - 1 = 2 /\ 4 - 1 = 3
  OBVIOUS
<1>2. \A e : /\ Missed(e, v, 1) <=> Strays(e) \/ <<4, Prefix(v, 0)>> \in failed
             /\ Missed(e, v, 2) <=> Strays(e) \/ <<3, Prefix(v, 1)>> \in failed
             /\ Missed(e, v, 3) <=> Strays(e) \/ <<2, Prefix(v, 2)>> \in failed
             /\ Missed(e, v, 4) <=> Strays(e) \/ <<1, Prefix(v, 3)>> \in failed
  BY <1>1 DEF Missed, Strays
<1> QED BY <1>2, Zenon DEF Hidden, HiddenWith, Root, Hw4, Hw3, Hw2

LEMMA HiddenGrows ==
  ASSUME NEW v, NEW f, NEW g, f \subseteq g, HiddenWith(f, v)
  PROVE  HiddenWith(g, v)
BY DEF HiddenWith

LEMMA HiddenKept ==
  ASSUME NEW v, UNCHANGED <<mem, program>>, frame'[4].addr = frame[4].addr, NEW f
  PROVE  HiddenWith(f, v)' <=> HiddenWith(f, v)
BY DEF HiddenWith, Strays, Root, Hw4, Hw3, Hw2, Zero

LEMMA SmallRemainder ==
  ASSUME NEW n \in Nat, NEW m \in Nat \ {0}, n < m
  PROVE  n % m = n
OBVIOUS

(* A table that does not stray is looked for where it is, and found.       *)
LEMMA FoundInPlace ==
  ASSUME NEW e, ~ Strays(e)
  PROVE  e.base \in TablePages /\ LookedForAt(e.base) = e.base
<1>1. e.base \in TablePages /\ e.base \in Nat
  BY WalkAssumption DEF Strays, TablePages
<1>2. CASE program = "win8"
  <2>1. e.base < Span
    BY <1>1, <1>2, WalkAssumption DEF Strays
  <2>2. e.base % Span = e.base
    BY <1>1, <2>1, SmallRemainder, WalkAssumption
  <2> QED BY <1>1, <1>2, <2>2 DEF LookedForAt
<1>3. CASE program # "win8"
  BY <1>1, <1>3 DEF LookedForAt
<1> QED BY <1>2, <1>3

(* Only a table that strays is not found.                                  *)
LEMMA NotFoundStrays ==
  ASSUME program \in Programs, NEW e, e.avail \in 0..1,
         Address(e) = Invalid \/ PageOf(Address(e)) \notin TablePages
  PROVE  Strays(e)
<1> SUFFICES ASSUME ~ Strays(e) PROVE FALSE
  OBVIOUS
<1>1. e.base \in TablePages /\ LookedForAt(e.base) = e.base
  BY FoundInPlace
<1>2. Address(e).base = e.base /\ Address(e).avail = e.avail
  BY DEF Address
<1>3. e.base # AllOnes
  BY <1>1, WalkAssumption
<1>4. Address(e) # Invalid
  BY <1>2, <1>3 DEF Invalid
<1>5. PageOf(Address(e)) = e.base
  BY <1>1, <1>2 DEF Strays, PageOf, LookedForAt, Programs
<1> QED BY <1>1, <1>4, <1>5

LEMMA HwTyped ==
  ASSUME Typed, NEW v \in VirtualPages
  PROVE  /\ frame[4].addr.base \in TablePages => Hw4(v) \in EntryType
         /\ Hw4(v).base \in TablePages => Hw3(v) \in EntryType
         /\ Hw3(v).base \in TablePages => Hw2(v) \in EntryType
         /\ Hw2(v).base \in TablePages => Hw1(v) \in EntryType
<1>1. v[1] \in Indices /\ v[2] \in Indices /\ v[3] \in Indices /\ v[4] \in Indices
  BY VirtualSeq
<1>2. \A pg \in TablePages, i \in Indices : mem[pg][i] \in EntryType
  BY DEF Typed, TypeOK, TableType
<1> QED BY <1>1, <1>2 DEF Hw4, Hw3, Hw2, Hw1

(* As far as nothing is missed, the program reads the processor's words.   *)
LEMMA SeenIsHw ==
  ASSUME Typed, NEW v \in VirtualPages, ~ HiddenWith(failed, v)
  PROVE  /\ Word4(v) = Hw4(v) /\ Hw4(v) \in EntryType
         /\ Hw4(v).p => Word3(v) = Hw3(v) /\ Hw3(v) \in EntryType
         /\ Hw4(v).p /\ Hw3(v).p /\ ~ Hw3(v).ps =>
              Word2(v) = Hw2(v) /\ Hw2(v) \in EntryType
         /\ Hw4(v).p /\ Hw3(v).p /\ ~ Hw3(v).ps /\ Hw2(v).p /\ ~ Hw2(v).ps =>
              Word1(v) = Hw1(v) /\ Hw1(v) \in EntryType
<1>1. Word4(v) = Hw4(v) /\ Hw4(v) \in EntryType
  <2>1. ~ Strays(Root)
    BY DEF HiddenWith
  <2>2. Root.base = frame[4].addr.base
    BY DEF Root, Zero
  <2> QED BY <2>1, <2>2, FoundInPlace, HwTyped DEF Word4, Hw4
<1>2. ASSUME Hw4(v).p PROVE Word3(v) = Hw3(v) /\ Hw3(v) \in EntryType
  <2>1. ~ Strays(Hw4(v))
    BY <1>2 DEF HiddenWith
  <2> QED BY <1>1, <2>1, FoundInPlace, HwTyped DEF Word3, Hw3
<1>3. ASSUME Hw4(v).p, Hw3(v).p, ~ Hw3(v).ps
      PROVE  Word2(v) = Hw2(v) /\ Hw2(v) \in EntryType
  <2>1. ~ Strays(Hw3(v))
    BY <1>3 DEF HiddenWith
  <2> QED BY <1>2, <1>3, <2>1, FoundInPlace, HwTyped DEF Word2, Hw2
<1>4. ASSUME Hw4(v).p, Hw3(v).p, ~ Hw3(v).ps, Hw2(v).p, ~ Hw2(v).ps
      PROVE  Word1(v) = Hw1(v) /\ Hw1(v) \in EntryType
  <2>1. ~ Strays(Hw2(v))
    BY <1>4 DEF HiddenWith
  <2> QED BY <1>3, <1>4, <2>1, FoundInPlace, HwTyped DEF Word1, Hw1
<1> QED BY <1>1, <1>2, <1>3, <1>4

(* So it finds the processor's page.                                       *)
LEMMA SeenPageIsHw ==
  ASSUME Typed, NEW v \in VirtualPages, ~ HiddenWith(failed, v)
  PROVE  SeenPage(v) = HwPage(mem, frame[4].addr.base, v)
<1> DEFINE e4 == Hw4(v)
           e3 == Hw3(v)
           e2 == Hw2(v)
           e1 == Hw1(v)
           w3 == Word3(v)
           w2 == Word2(v)
           w1 == Word1(v)
           hw == HwPage(mem, frame[4].addr.base, v)
<1>1. hw = CASE ~ e4.p -> {}
             [] e4.p /\ (~ e3.p \/ e3.ps) ->
                  {x \in {<<Prefix(v, 2), e3>>} : e3.p}
             [] e4.p /\ e3.p /\ ~ e3.ps /\ (~ e2.p \/ e2.ps) ->
                  {x \in {<<Prefix(v, 3), e2>>} : e2.p}
             [] OTHER -> {x \in {<<v, e1>>} : e1.p}
  BY DEF HwPage, Hw4, Hw3, Hw2, Hw1
<1>2. SeenPage(v)
        = CASE ~ e4.p -> {}
            [] e4.p /\ (~ w3.p \/ w3.ps) ->
                 {x \in {<<Prefix(v, 2), w3>>} : w3.p}
            [] e4.p /\ w3.p /\ ~ w3.ps /\ (~ w2.p \/ w2.ps) ->
                 {x \in {<<Prefix(v, 3), w2>>} : w2.p}
            [] OTHER -> {x \in {<<v, w1>>} : w1.p}
  BY SeenIsHw DEF SeenPage
<1>3. /\ e4.p => w3 = e3
      /\ e4.p /\ e3.p /\ ~ e3.ps => w2 = e2
      /\ e4.p /\ e3.p /\ ~ e3.ps /\ e2.p /\ ~ e2.ps => w1 = e1
  BY SeenIsHw
<1> HIDE DEF e4, e3, e2, e1, w3, w2, w1, hw
<1>4. CASE ~ e4.p
  BY <1>1, <1>2, <1>4 DEF hw
<1>5. CASE e4.p /\ (~ e3.p \/ e3.ps)
  BY <1>1, <1>2, <1>3, <1>5 DEF hw
<1>6. CASE e4.p /\ e3.p /\ ~ e3.ps /\ (~ e2.p \/ e2.ps)
  BY <1>1, <1>2, <1>3, <1>6 DEF hw
<1>7. CASE e4.p /\ e3.p /\ ~ e3.ps /\ e2.p /\ ~ e2.ps
  BY <1>1, <1>2, <1>3, <1>7 DEF hw
<1> QED BY <1>4, <1>5, <1>6, <1>7

LEMMA PathUnder ==
  ASSUME NEW v \in VirtualPages, NEW l \in Levels, Prefix(v, 4 - l) = PathTo(l)
  PROVE  Under(v, l)
<1> SUFFICES ASSUME NEW m \in Levels, m > l PROVE v[5 - m] = frame[m].i
  BY DEF Under
<1>1. PICK k \in 1 .. 4 - l : k = 5 - m /\ m = 5 - k /\ 4 - l \in 0..4
  BY DEF Levels
<1>2. Prefix(v, 4 - l)[k] = v[k]
  BY <1>1, VirtualSeq
<1>3. PathTo(l)[k] = frame[5 - k].i
  BY <1>1 DEF PathTo
<1> QED BY <1>1, <1>2, <1>3

(* The table read next is that which the processor goes through.           *)
LEMMA TableFollowed ==
  ASSUME Typed, ExplainInv, Referring, Steady, pc = "read",
         NEW v \in VirtualPages, Under(v, level), ~ Lost(level),
         ~ HiddenWith(failed, v)
  PROVE  /\ level = 3 => Hw4(v).p /\ Current.addr = Address(Hw4(v))
         /\ level = 2 => /\ Hw4(v).p /\ Hw3(v).p /\ ~ Hw3(v).ps
                         /\ Current.addr = Address(Hw3(v))
         /\ level = 1 => /\ Hw4(v).p /\ Hw3(v).p /\ ~ Hw3(v).ps
                         /\ Hw2(v).p /\ ~ Hw2(v).ps
                         /\ Current.addr = Address(Hw2(v))
<1>1. PICK l \in Levels : l = level
  BY DEF Typed, TypeOK, Levels
<1>2. \A m \in Levels : m > l => EntryOf(m) = Word(v, m)
  <2> SUFFICES ASSUME NEW m \in Levels, m > l PROVE EntryOf(m) = Word(v, m)
    OBVIOUS
  <2>1. frame[m].i < Entries /\ Len(frame[m].buf) = Entries
    BY <1>1 DEF Typed, Place
  <2>2. Within(v, m) /\ ~ Lost(m) /\ m >= level
    BY <1>1 DEF Within, Under, Lost, Levels
  <2> QED BY <2>1, <2>2, EntryIsWord
<1>3. /\ \A m \in 1..3 : m >= l => /\ EntryOf(m + 1).p
                                   /\ frame[m].addr = Address(EntryOf(m + 1))
      /\ \A m \in {2, 3} : m > l => ~ EntryOf(m).ps
      /\ Current = frame[l]
  BY <1>1 DEF ExplainInv, CopiesHeld, Referring, Current
<1>4. Word(v, 4) = Word4(v) /\ Word(v, 3) = Word3(v) /\ Word(v, 2) = Word2(v)
  BY DEF Word
<1>5. l <= 3 => EntryOf(4) = Hw4(v) /\ Hw4(v).p
  BY <1>2, <1>3, <1>4, SeenIsHw DEF Levels
<1>6. l <= 2 => EntryOf(3) = Hw3(v) /\ Hw3(v).p /\ ~ Hw3(v).ps
  <2>1. l <= 2 => EntryOf(3) = Word3(v) /\ EntryOf(3).p /\ ~ EntryOf(3).ps
    BY <1>2, <1>3, <1>4 DEF Levels
  <2>2. Hw4(v).p => Word3(v) = Hw3(v)
    BY SeenIsHw
  <2> QED BY <1>5, <2>1, <2>2 DEF Levels
<1>7. l <= 1 => EntryOf(2) = Hw2(v) /\ Hw2(v).p /\ ~ Hw2(v).ps
  <2>1. l <= 1 => EntryOf(2) = Word2(v) /\ EntryOf(2).p /\ ~ EntryOf(2).ps
    BY <1>2, <1>3, <1>4 DEF Levels
  <2>2. Hw4(v).p /\ Hw3(v).p /\ ~ Hw3(v).ps => Word2(v) = Hw2(v)
    BY SeenIsHw
  <2> QED BY <1>5, <1>6, <2>1, <2>2 DEF Levels
<1>8. /\ l = 3 => Current.addr = Address(EntryOf(4))
      /\ l = 2 => Current.addr = Address(EntryOf(3))
      /\ l = 1 => Current.addr = Address(EntryOf(2))
  BY <1>3
<1> QED BY <1>1, <1>5, <1>6, <1>7, <1>8 DEF Levels

(* A table that is not read strays or fails, or an earlier one did.        *)
LEMMA UnreadHidden ==
  ASSUME Typed, ExplainInv, Referring, Steady, HiddenInv, pc = "read",
         NEW f, failed \subseteq f, writes = 0,
         \/ Current.addr = Invalid
         \/ PageOf(Current.addr) \notin TablePages
         \/ Table \in f,
         NEW v \in VirtualPages, Under(v, level)
  PROVE  HiddenWith(f, v)
<1> SUFFICES ASSUME ~ HiddenWith(f, v) PROVE FALSE
  OBVIOUS
<1>1. ~ HiddenWith(failed, v)
  BY HiddenGrows
<1>2. level \in Levels /\ level >= level /\ program \in Programs
  BY DEF Typed, TypeOK, Levels
<1>3. ~ Lost(level)
  BY <1>1, <1>2, UnderLost DEF HiddenInv
<1>4. Table = <<level, Prefix(v, 4 - level)>>
  BY <1>2, UnderPath DEF Table
<1>5. /\ Hw4(v) \in EntryType
      /\ Hw4(v).p => Hw3(v) \in EntryType
      /\ Hw4(v).p /\ Hw3(v).p /\ ~ Hw3(v).ps => Hw2(v) \in EntryType
  BY <1>1, SeenIsHw
<1>6. \A e \in EntryType :
        Current.addr = Address(e) => Strays(e) \/ Table \in f
  <2> SUFFICES ASSUME NEW e \in EntryType, Current.addr = Address(e), Table \notin f
               PROVE  Strays(e)
    OBVIOUS
  <2>1. e.avail \in 0..1
    BY DEF EntryType
  <2> QED BY <1>2, <2>1, NotFoundStrays
<1>7. CASE level = 4
  <2>1. Root.avail = 0 /\ Root.base = frame[4].addr.base
    BY DEF Root, Zero
  <2>2. frame[4].addr = [avail |-> 0, base |-> frame[4].addr.base]
    BY SMTT(30) DEF HiddenInv, Typed, TypeOK, FrameType, Levels
  <2>3. Current.addr = Address(Root)
    BY <1>7, <2>1, <2>2 DEF Current, Address
  <2>4. Strays(Root) \/ Table \in f
    BY <1>2, <2>1, <2>3, NotFoundStrays
  <2>5. 4 - level = 0
    BY <1>7
  <2> QED BY <1>4, <1>7, <2>4, <2>5 DEF HiddenWith
<1>8. CASE level = 3
  <2>1. Hw4(v).p /\ Current.addr = Address(Hw4(v)) /\ 4 - level = 1
    BY <1>1, <1>3, <1>8, TableFollowed
  <2> QED BY <1>4, <1>5, <1>6, <1>8, <2>1 DEF HiddenWith
<1>9. CASE level = 2
  <2>1. /\ Hw4(v).p /\ Hw3(v).p /\ ~ Hw3(v).ps
        /\ Current.addr = Address(Hw3(v)) /\ 4 - level = 2
    BY <1>1, <1>3, <1>9, TableFollowed
  <2> QED BY <1>4, <1>5, <1>6, <1>9, <2>1 DEF HiddenWith
<1>10. CASE level = 1
  <2>1. /\ Hw4(v).p /\ Hw3(v).p /\ ~ Hw3(v).ps /\ Hw2(v).p /\ ~ Hw2(v).ps
        /\ Current.addr = Address(Hw2(v)) /\ 4 - level = 3
    BY <1>1, <1>3, <1>10, TableFollowed
  <2> QED BY <1>4, <1>5, <1>6, <1>10, <2>1 DEF HiddenWith
<1> QED BY <1>2, <1>7, <1>8, <1>9, <1>10 DEF Levels

LEMMA RootKept == Typed /\ [Next]_vars => frame'[4].addr = frame[4].addr
<1> SUFFICES ASSUME Typed, [Next]_vars PROVE frame'[4].addr = frame[4].addr
  OBVIOUS
<1>1. 4 \in Levels /\ frame \in [Levels -> FrameType]
  BY DEF Typed, TypeOK, Levels
<1>2. CASE RejectAddress \/ Return
  <2>1. level \in Levels /\ Resume(level)
    BY <1>2 DEF RejectAddress, Return, Typed, TypeOK, Levels
  <2>2. CASE level = 4
    BY <2>1, <2>2 DEF Resume
  <2>3. CASE level \in 1..3
    BY <1>1, <2>1, <2>3, ResumeFrames DEF Levels
  <2> QED BY <2>1, <2>2, <2>3 DEF Levels
<1>3. ASSUME NEW b, frame' = [frame EXCEPT ![level].buf = b]
      PROVE  frame'[4].addr = frame[4].addr
  BY <1>1, <1>3 DEF FrameType
<1>4. CASE ReadEntry
  <2>1. frame' = [frame EXCEPT ![level].buf =
                    Append(frame[level].buf,
                           mem[PageOf(Current.addr)][Len(frame[level].buf)])]
    BY <1>1, <1>4 DEF ReadEntry, Typed, TypeOK, Levels
  <2> QED BY <1>3, <2>1
<1>5. CASE ReadLeavesGarbage
  BY <1>3, <1>5 DEF ReadLeavesGarbage
<1>6. CASE SkipEntry \/ ShowAbsent \/ ShowPage
  <2>1. AtEntry /\ Advance
    BY <1>6 DEF SkipEntry, ShowAbsent, ShowPage
  <2> QED BY <1>1, <2>1, EntryTyped, AdvanceFrames DEF Typed, AtEntry, Levels
<1>7. CASE ShowTable
  <2>1. AtEntry /\ Descend /\ level \in Levels \ {1} /\ Entry \in EntryType
    BY <1>7, EntryTyped DEF ShowTable, IsLeaf, AtEntry
  <2> QED BY <2>1, DescendFrames DEF AtEntry, Levels
<1>8. CASE ReadDone \/ ReadCallFails \/ OSWrite \/ Finished \/ UNCHANGED vars
  BY <1>8 DEF ReadDone, ReadCallFails, OSWrite, progVars, Finished, vars
<1> QED BY <1>2, <1>4, <1>5, <1>6, <1>7, <1>8 DEF Next, Walk

LEMMA HiddenInit == Init => HiddenInv
<1> SUFFICES ASSUME Init PROVE HiddenInv
  OBVIOUS
<1>1. frame[4].addr.avail = 0
  BY DEF Init, Levels, Idle
<1>2. unread = {}
  BY DEF Init
<1> QED BY <1>1, <1>2 DEF HiddenInv, BehindUnread

LEMMA HiddenStep ==
  Typed /\ ExplainInv /\ TranslationInv /\ HiddenInv /\ [Next]_vars => HiddenInv'
<1> SUFFICES ASSUME Typed, ExplainInv, TranslationInv, HiddenInv, [Next]_vars
             PROVE  HiddenInv'
  OBVIOUS
<1>1. frame'[4].addr = frame[4].addr
  BY RootKept
<1>2. ASSUME UNCHANGED <<mem, program, writes, failed, unread>> PROVE HiddenInv'
  <2>1. \A v \in VirtualPages :
          /\ HiddenWith(failed, v)' <=> HiddenWith(failed, v)
          /\ BehindUnread(v, 4)' <=> BehindUnread(v, 4)
    <3> TAKE v \in VirtualPages
    <3>1. BehindUnread(v, 4)' <=> BehindUnread(v, 4)
      BY <1>2 DEF BehindUnread
    <3>2. HiddenWith(failed, v)' <=> HiddenWith(failed, v)
      BY <1>1, <1>2 DEF HiddenWith, Strays, Root, Hw4, Hw3, Hw2, Zero
    <3> QED BY <3>1, <3>2
  <2> QED BY <1>1, <1>2, <2>1 DEF HiddenInv
<1>3. ASSUME pc = "read", Unread, UNCHANGED <<mem, program, writes>>,
             failed \subseteq failed',
             \/ Current.addr = Invalid
             \/ PageOf(Current.addr) \notin TablePages
             \/ Table \in failed'
      PROVE  HiddenInv'
  <2> SUFFICES ASSUME writes = 0, NEW v \in VirtualPages, BehindUnread(v, 4)'
               PROVE  HiddenWith(failed, v)'
    BY <1>1, <1>3 DEF HiddenInv
  <2>1. PICK f : f = failed'
    OBVIOUS
  <2>2. HiddenWith(f, v)
    <3>1. CASE BehindUnread(v, 4)
      <4>1. HiddenWith(failed, v)
        BY <3>1 DEF HiddenInv
      <4> QED BY <1>3, <2>1, <4>1, HiddenGrows
    <3>2. CASE ~ BehindUnread(v, 4)
      <4>1. PICK k \in 1..4 : <<5 - k, Prefix(v, k - 1)>> \in unread'
        BY DEF BehindUnread
      <4>2. <<5 - k, Prefix(v, k - 1)>> = <<level, PathTo(level)>>
        BY <1>3, <3>2, <4>1 DEF BehindUnread, Unread, Table
      <4>3. level \in Levels /\ k - 1 = 4 - level
        BY <4>2 DEF Levels
      <4>4. Prefix(v, 4 - level) = PathTo(level)
        BY <4>2, <4>3
      <4>5. Under(v, level)
        BY <4>3, <4>4, PathUnder
      <4>6. Referring /\ Steady
        BY DEF TranslationInv
      <4> QED BY <1>3, <2>1, <4>5, <4>6, UnreadHidden
    <3> QED BY <3>1, <3>2
  <2>3. HiddenWith(f, v)'
    BY <1>1, <1>3, <2>2, HiddenKept
  <2> QED BY <2>1, <2>3 DEF HiddenWith
<1>4. CASE RejectAddress
  BY <1>3, <1>4 DEF RejectAddress
<1>5. ASSUME NoData
      PROVE  /\ failed \subseteq failed'
             /\ PageOf(Current.addr) \notin TablePages \/ Table \in failed'
  BY <1>5 DEF NoData
<1>6. CASE ReadCallFails
  BY <1>3, <1>5, <1>6 DEF ReadCallFails
<1>7. CASE ReadLeavesGarbage
  BY <1>3, <1>5, <1>7 DEF ReadLeavesGarbage
<1>8. CASE Return \/ ReadEntry \/ ReadDone \/ SkipEntry \/ ShowAbsent \/ ShowPage
        \/ ShowTable \/ Finished \/ UNCHANGED vars
  BY <1>2, <1>8 DEF Return, ReadEntry, ReadDone, SkipEntry, ShowAbsent, ShowPage,
                    ShowTable, Finished, vars
<1>9. CASE OSWrite
  <2>1. writes' # 0
    BY <1>9, Constants DEF OSWrite, Typed, TypeOK
  <2> QED BY <1>1, <2>1 DEF HiddenInv
<1> QED BY <1>4, <1>6, <1>7, <1>8, <1>9 DEF Next, Walk

(* With tables that do not change, the listing shows every virtual page as *)
(* the processor translates it, by the entry of its own level, unless the  *)
(* program misses a table of the processor's walk: one outside memory or   *)
(* at an address that 32 bits or the mask spoil, or whose read failed.     *)
THEOREM TranslationCorrect == Spec => []ListingMatchesTranslation
<1>1. Init => ExplainInv /\ TranslationInv /\ HiddenInv
  BY ExplainInit, TranslationInit, HiddenInit
<1>2. Typed /\ ExplainInv /\ TranslationInv /\ HiddenInv /\ [Next]_vars
        => ExplainInv' /\ TranslationInv' /\ HiddenInv'
  BY ExplainStep, TranslationStep, HiddenStep
<1>3. Typed /\ TranslationInv /\ HiddenInv => ListingMatchesTranslation
  <2> SUFFICES ASSUME Typed, TranslationInv, HiddenInv, pc = "done", writes = 0,
                      NEW v \in VirtualPages,
                      ~ Hidden(mem, frame[4].addr.base, v)
               PROVE  Shown(v) = HwPage(mem, frame[4].addr.base, v)
    BY DEF ListingMatchesTranslation, Shown
  <2>1. ~ HiddenWith(failed, v)
    BY HiddenNow
  <2>2. ~ BehindUnread(v, 4)
    BY <2>1 DEF HiddenInv
  <2>3. Right(v)
    BY DEF TranslationInv
  <2> QED BY <2>1, <2>2, <2>3, SeenPageIsHw DEF Right
<1> QED BY <1>1, <1>2, <1>3, TypedInvariance, PTL DEF Spec
=============================================================================
