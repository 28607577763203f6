---------------------------- MODULE PtWindowsProofs ----------------------------
(***************************************************************************)
(* Theorems about PtWindows for all listings, window sizes and ranges: the *)
(* type invariant, that a window shows the rights of one page that lies in *)
(* it, that every page of an ascending listing is seen in every window it  *)
(* lies in, and that the program fails on a page that reaches behind the   *)
(* last window and on no other.                                            *)
(***************************************************************************)
EXTENDS PtWindows, SequenceTheorems, TLAPS

-----------------------------------------------------------------------------
(* Multiples of the size of a window                                       *)

LEMMA DivMod ==
  ASSUME NEW w \in Nat \ {0}, NEW a \in Nat
  PROVE  /\ a \div w \in Nat /\ a % w \in 0 .. w - 1
         /\ a = w * (a \div w) + (a % w)
OBVIOUS

LEMMA ModOfMultiple ==
  ASSUME NEW w \in Nat \ {0}, NEW q \in Nat
  PROVE  w * q \in Nat /\ (w * q) % w = 0 /\ (w * q) \div w = q
<1> DEFINE a == w * q
           d == a \div w
           m == a % w
<1>1. a \in Nat
  OBVIOUS
<1>2. d \in Nat /\ m \in 0 .. w - 1 /\ a = w * d + m
  <2> HIDE DEF a
  <2> QED BY <1>1, DivMod DEF d, m
<1>3. w * q = w * d + m
  BY <1>2
<1> HIDE DEF d, m
<1>4. ~ (d < q)
  <2>1. SUFFICES ASSUME d < q PROVE FALSE
    OBVIOUS
  <2>2. d + 1 <= q
    BY <1>2, <2>1
  <2>3. w * (d + 1) <= w * q
    BY <1>2, <2>2
  <2>4. w * (d + 1) = w * d + w
    BY <1>2
  <2> QED BY <1>2, <1>3, <2>3, <2>4
<1>5. ~ (q < d)
  <2>1. SUFFICES ASSUME q < d PROVE FALSE
    OBVIOUS
  <2>2. q + 1 <= d
    BY <1>2, <2>1
  <2>3. w * (q + 1) <= w * d
    BY <1>2, <2>2
  <2>4. w * (q + 1) = w * q + w
    OBVIOUS
  <2>5. w * d \in Nat /\ w * q \in Nat
    BY <1>2
  <2> QED BY <1>2, <1>3, <2>3, <2>4, <2>5
<1>6. d = q
  BY <1>2, <1>4, <1>5
<1>7. m = 0
  <2>1. w * q \in Nat
    OBVIOUS
  <2> QED BY <1>2, <1>3, <1>6, <2>1
<1> QED BY <1>1, <1>6, <1>7 DEF d, m

LEMMA MultipleIs ==
  ASSUME NEW w \in Nat \ {0}, NEW a \in Nat, a % w = 0
  PROVE  \E q \in Nat : a = w * q
<1>1. a \div w \in Nat /\ a = w * (a \div w)
  BY DivMod
<1> QED BY <1>1

(* The next multiple.                                                      *)
LEMMA MultipleNext ==
  ASSUME NEW w \in Nat \ {0}, NEW a \in Nat, a % w = 0
  PROVE  (a + w) % w = 0
<1>1. PICK q \in Nat : a = w * q
  BY MultipleIs
<1>2. a + w = w * (q + 1)
  BY <1>1
<1>3. (w * (q + 1)) % w = 0
  <2>1. q + 1 \in Nat
    OBVIOUS
  <2> QED BY <2>1, ModOfMultiple
<1> QED BY <1>2, <1>3

(* Two multiples differ by the size or more.                               *)
LEMMA MultipleOrder ==
  ASSUME NEW w \in Nat \ {0}, NEW a \in Nat, NEW b \in Nat,
         a % w = 0, b % w = 0, a < b + w
  PROVE  a <= b
<1>1. PICK q \in Nat : a = w * q
  BY MultipleIs
<1>2. PICK r \in Nat : b = w * r
  BY MultipleIs
<1>3. SUFFICES ASSUME r < q PROVE FALSE
  <2>1. q <= r => w * q <= w * r
    OBVIOUS
  <2> QED BY <1>1, <1>2, <2>1
<1>4. r + 1 <= q
  BY <1>3
<1>5. w * (r + 1) <= w * q
  BY <1>4
<1>6. w * (r + 1) = w * r + w
  OBVIOUS
<1> QED BY <1>1, <1>2, <1>5, <1>6

(* A difference of multiples is one.                                       *)
LEMMA MultipleDifference ==
  ASSUME NEW w \in Nat \ {0}, NEW a \in Nat, NEW b \in Nat,
         a % w = 0, b % w = 0, b <= a
  PROVE  /\ (a - b) \div w \in Nat
         /\ a - b = ((a - b) \div w) * w
<1>1. PICK q \in Nat : a = w * q
  BY MultipleIs
<1>2. PICK r \in Nat : b = w * r
  BY MultipleIs
<1>3. r <= q
  <2>1. SUFFICES ASSUME q + 1 <= r PROVE FALSE
    OBVIOUS
  <2>2. w * (q + 1) <= w * r
    BY <2>1
  <2>3. w * (q + 1) = w * q + w
    OBVIOUS
  <2> QED BY <1>1, <1>2, <2>2, <2>3
<1>4. q - r \in Nat /\ a - b = w * (q - r)
  BY <1>1, <1>2, <1>3
<1>5. (w * (q - r)) \div w = q - r
  BY <1>4, ModOfMultiple
<1>6. w * (q - r) = (q - r) * w
  BY <1>4
<1> QED BY <1>4, <1>5, <1>6

LEMMA RoundDownFacts ==
  ASSUME win \in Nat \ {0}, NEW a \in Nat
  PROVE  /\ RoundDown(a) \in Nat /\ RoundDown(a) <= a /\ a < RoundDown(a) + win
         /\ RoundDown(a) % win = 0
<1> DEFINE w == win
           d == a \div w
           m == a % w
<1>1. d \in Nat /\ m \in 0 .. w - 1 /\ a = w * d + m
  BY DivMod
<1>2. (w * d) \in Nat /\ (w * d) % w = 0
  BY <1>1, ModOfMultiple
<1>3. RoundDown(a) = a - m
  BY DEF RoundDown
<1> HIDE DEF d, m
<1>4. RoundDown(a) = w * d
  BY <1>1, <1>2, <1>3
<1> QED BY <1>1, <1>2, <1>4

-----------------------------------------------------------------------------
(* Pages, range and windows                                                *)

LEMMA ListingFacts ==
  ASSUME listing \in ArmListings \cup Ia32eListings
  PROVE  /\ Len(listing) \in Nat /\ DOMAIN listing = 1 .. Len(listing)
         /\ \A k \in 1 .. Len(listing) : listing[k].at \in Nat
<1> DEFINE ArmLine   == [kind : STRING, at : Nat, ap : STRING, xn : BOOLEAN]
           Ia32eLine == [kind : STRING, at : Nat, flags : SUBSET STRING]
<1>1. CASE listing \in ArmListings
  <2>1. listing \in Seq(ArmLine)
    BY <1>1, WindowsAssumption
  <2>2. Len(listing) \in Nat /\ DOMAIN listing = 1 .. Len(listing)
    <3> HIDE DEF ArmLine
    <3> QED BY <2>1, LenProperties
  <2>3. ASSUME NEW k \in 1 .. Len(listing) PROVE listing[k].at \in Nat
    <3>1. listing[k] \in ArmLine
      <4> HIDE DEF ArmLine
      <4> QED BY <2>1, ElementOfSeq
    <3> QED BY <3>1
  <2> QED BY <2>2, <2>3
<1>2. CASE listing \in Ia32eListings
  <2>1. listing \in Seq(Ia32eLine)
    BY <1>2, WindowsAssumption
  <2>2. Len(listing) \in Nat /\ DOMAIN listing = 1 .. Len(listing)
    <3> HIDE DEF Ia32eLine
    <3> QED BY <2>1, LenProperties
  <2>3. ASSUME NEW k \in 1 .. Len(listing) PROVE listing[k].at \in Nat
    <3>1. listing[k] \in Ia32eLine
      <4> HIDE DEF Ia32eLine
      <4> QED BY <2>1, ElementOfSeq
    <3> QED BY <3>1
  <2> QED BY <2>2, <2>3
<1> QED BY <1>1, <1>2

Letters == {"ru", "rs", "wu", "ws", "xu", "xs"}

(* The page of a line is not empty, and its rights are not the mark of an  *)
(* empty window.                                                           *)
LEMMA PageFacts ==
  ASSUME NEW line, line.at \in Nat
  PROVE  /\ PageOf(line) \in PageType
         /\ PageOf(line).start < PageOf(line).end
         /\ PageOf(line).rights # Empty
<1> DEFINE p == PageOf(line)
<1>1. /\ PageUnits \in Nat \ {0} /\ LargeUnits \in Nat \ {0}
      /\ LowHalf \in Nat /\ FullSpace \in Nat /\ 2 * LowHalf <= FullSpace
  BY WindowsAssumption
<1>2. p.start \in Nat
  <2>1. SignExtend(line.at) \in Nat
    BY <1>1 DEF SignExtend
  <2> QED BY <2>1 DEF PageOf
<1>3. p.end = p.start + PageUnits \/ p.end = p.start + LargeUnits
  BY DEF PageOf
<1>4. p.rights \in SUBSET Letters
  <2>1. ArmRights(line.ap, line.xn) \in SUBSET Letters
    BY DEF ArmRights, Letters
  <2>2. Ia32eRights(line.flags) \in SUBSET Letters
    BY DEF Ia32eRights, Letters
  <2> QED BY <2>1, <2>2 DEF PageOf
<1>5. p = [start |-> p.start, end |-> p.end, rights |-> p.rights]
  BY DEF PageOf
<1>6. p.end \in Nat /\ p.start < p.end
  BY <1>1, <1>2, <1>3
<1>7. p.rights # Empty
  BY <1>4 DEF Letters, Empty
<1> HIDE DEF p
<1>8. p \in PageType
  BY <1>2, <1>4, <1>5, <1>6 DEF PageType, Letters
<1> QED BY <1>6, <1>7, <1>8 DEF p

(* Keys are addresses from the start of the page on, and the start is one. *)
LEMMA KeyFacts ==
  ASSUME NEW line, line.at \in Nat
  PROVE  /\ \A k \in Keys(line) : k \in Nat /\ PageOf(line).start <= k
         /\ Keys(line) # {} => Parsed(line)
         /\ Parsed(line) => PageOf(line).start \in Keys(line)
<1> DEFINE s == PageOf(line).start
           l == LargeUnits \div PageUnits
<1>1. s \in Nat
  BY PageFacts DEF PageType
<1>2. PageUnits \in Nat /\ l \in Nat
  BY DivMod, WindowsAssumption
<1>3. Keys(line) = IF ~ Parsed(line) THEN {}
                   ELSE IF func = "arm" /\ line.kind = "section"
                          THEN {s + PageUnits * k : k \in 0 .. l}
                          ELSE {s}
  BY DEF Keys
<1> HIDE DEF s, l
<1>4. ASSUME NEW k \in 0 .. l
      PROVE  s + PageUnits * k \in Nat /\ s <= s + PageUnits * k
  <2>1. PageUnits * k \in Nat
    BY <1>2
  <2> QED BY <1>1, <2>1
<1>5. s = s + PageUnits * 0 /\ 0 \in 0 .. l
  BY <1>1, <1>2
<1>6. \A k \in Keys(line) : k \in Nat /\ s <= k
  BY <1>1, <1>3, <1>4
<1>7. Keys(line) # {} => Parsed(line)
  BY <1>3
<1>8. Parsed(line) => s \in Keys(line)
  BY <1>3, <1>5
<1> QED BY <1>6, <1>7, <1>8 DEF s

LEMMA RangeFacts ==
  ASSUME win \in WindowSizes, range \in RangesOf(func)
  PROVE  /\ win \in Nat \ {0} /\ range.start \in Nat /\ range.stop \in Nat
         /\ range.stop = 0 => range.start = 0
         /\ Origin = range.start /\ DoLen \in Nat
<1>1. win \in Nat \ {0} /\ ArmSpace \in Nat /\ LowHalf \in Nat
  BY WindowsAssumption
<1>2. /\ range.start \in Nat /\ range.stop \in Nat
      /\ range.start <= range.stop
      /\ range.stop = 0 => range.start = 0
  <2>1. CASE range \in Ranges
    <3>1. range \in [start : Nat, stop : Nat \ {0}] /\ range.start < range.stop
      BY <2>1, WindowsAssumption
    <3> QED BY <3>1
  <2>2. CASE range \notin Ranges
    <3>1. range = [start |-> 0, stop |-> ArmSpace] \/ range = [start |-> 0, stop |-> 0]
      BY <2>2 DEF RangesOf
    <3> QED BY <1>1, <3>1
  <2> QED BY <2>1, <2>2
<1>3. Origin = range.start
  BY <1>2 DEF Origin
<1>4. DoLen \in Nat
  <2>1. 2 * LowHalf \in Nat /\ range.stop - range.start \in Nat
    BY <1>1, <1>2
  <2>2. (2 * LowHalf) \div win \in Nat /\ (range.stop - range.start) \div win \in Nat
    BY <1>1, <2>1, DivMod
  <2> QED BY <2>2 DEF DoLen
<1> QED BY <1>1, <1>2, <1>3, <1>4

(* The index of an address from the start of the range on.                 *)
LEMMA IndexFacts ==
  ASSUME win \in WindowSizes, range \in RangesOf(func),
         NEW a \in Nat, range.start <= a
  PROVE  /\ Index(a) \in Nat /\ Place(Index(a)) = Index(a)
         /\ FirstOf(Index(a)) \in Nat
         /\ FirstOf(Index(a)) <= a /\ a < FirstOf(Index(a)) + win
<1>1. /\ win \in Nat \ {0} /\ Origin = range.start /\ range.start \in Nat
  BY RangeFacts
<1> DEFINE d == a - range.start
           q == d \div win
           m == d % win
<1>2. d \in Nat
  BY <1>1
<1>3. q \in Nat /\ m \in 0 .. win - 1 /\ d = win * q + m
  <2> HIDE DEF d
  <2> QED BY <1>1, <1>2, DivMod
<1>4. Index(a) = q /\ FirstOf(Index(a)) = range.start + q * win
  BY <1>1 DEF Index, FirstOf
<1>5. a = range.start + d
  BY <1>1
<1> HIDE DEF d, q, m
<1>6. q * win = win * q /\ win * q \in Nat
  BY <1>1, <1>3
<1>7. FirstOf(Index(a)) <= a /\ a < FirstOf(Index(a)) + win /\ FirstOf(Index(a)) \in Nat
  BY <1>1, <1>3, <1>4, <1>5, <1>6
<1>8. Place(Index(a)) = Index(a)
  BY <1>3, <1>4 DEF Place
<1> QED BY <1>3, <1>4, <1>7, <1>8

(* Later windows start at higher addresses.                                *)
LEMMA FirstOrder ==
  ASSUME win \in WindowSizes, range \in RangesOf(func),
         NEW k \in Nat, NEW l \in Nat
  PROVE  /\ FirstOf(k) \in Nat /\ range.start <= FirstOf(k)
         /\ k <= l => FirstOf(k) <= FirstOf(l)
         /\ k < l => FirstOf(k) + win <= FirstOf(l)
<1>1. win \in Nat \ {0} /\ Origin = range.start /\ range.start \in Nat
  BY RangeFacts
<1>2. FirstOf(k) = range.start + k * win /\ FirstOf(l) = range.start + l * win
  BY <1>1 DEF FirstOf
<1>3. k * win \in Nat /\ l * win \in Nat
  BY <1>1
<1>4. k <= l => k * win <= l * win
  BY <1>1
<1>5. k < l => k * win + win <= l * win
  <2>1. SUFFICES ASSUME k < l PROVE k * win + win <= l * win
    OBVIOUS
  <2>2. (k + 1) * win <= l * win
    BY <1>1, <2>1
  <2>3. (k + 1) * win = k * win + win
    BY <1>1
  <2> QED BY <2>2, <2>3
<1> QED BY <1>1, <1>2, <1>3, <1>4, <1>5

(* Where windows are aligned, the start of one is a multiple of the size.  *)
LEMMA AlignedFirst ==
  ASSUME win \in WindowSizes, range \in RangesOf(func), range.start % win = 0
  PROVE  /\ \A k \in Nat : FirstOf(k) % win = 0
         /\ \A a \in Nat : a % win = 0 /\ range.start <= a => FirstOf(Index(a)) = a
<1>1. win \in Nat \ {0} /\ Origin = range.start /\ range.start \in Nat
  BY RangeFacts
<1>2. ASSUME NEW k \in Nat PROVE FirstOf(k) % win = 0
  <2>1. PICK q \in Nat : range.start = win * q
    BY <1>1, MultipleIs
  <2>2. FirstOf(k) = win * (q + k)
    BY <1>1, <2>1 DEF FirstOf
  <2>3. (win * (q + k)) % win = 0
    <3>1. q + k \in Nat
      OBVIOUS
    <3> QED BY <1>1, <3>1, ModOfMultiple
  <2> QED BY <2>2, <2>3
<1>3. ASSUME NEW a \in Nat, a % win = 0, range.start <= a
      PROVE  FirstOf(Index(a)) = a
  <2>1. a - range.start = ((a - range.start) \div win) * win
    BY <1>1, <1>3, MultipleDifference
  <2>2. FirstOf(Index(a)) = range.start + ((a - range.start) \div win) * win
    BY <1>1 DEF FirstOf, Index
  <2> QED BY <1>1, <2>1, <2>2
<1> QED BY <1>2, <1>3

(* The stretch of a window starts at the one multiple in it.               *)
LEMMA StretchFacts ==
  ASSUME win \in WindowSizes, range \in RangesOf(func), NEW k \in Nat
  PROVE  /\ Stretch(k) \in Nat /\ Stretch(k) % win = 0 /\ Index(Stretch(k)) = k
         /\ FirstOf(k) <= Stretch(k) /\ Stretch(k) < FirstOf(k) + win
<1> DEFINE f == FirstOf(k)
           s == Stretch(k)
           j == Index(s)
<1>1. win \in Nat \ {0}
  BY RangeFacts
<1>2. f \in Nat /\ range.start <= f /\ range.start \in Nat
  BY FirstOrder, RangeFacts
<1>3. s \in Nat /\ s <= f + win - 1 /\ f + win - 1 < s + win /\ s % win = 0
  <2>1. f + win - 1 \in Nat
    BY <1>1, <1>2
  <2> QED BY <1>1, <2>1, RoundDownFacts DEF Stretch
<1> HIDE DEF s, f
<1>4. f <= s /\ s < f + win /\ range.start <= s
  BY <1>1, <1>2, <1>3
<1>5. j \in Nat /\ FirstOf(j) \in Nat /\ FirstOf(j) <= s /\ s < FirstOf(j) + win
  BY <1>3, <1>4, IndexFacts
<1> HIDE DEF j
<1>6. ~ (j < k)
  <2>1. j < k => FirstOf(j) + win <= f
    BY <1>5, FirstOrder DEF f
  <2> QED BY <1>1, <1>2, <1>3, <1>4, <1>5, <2>1
<1>7. ~ (k < j)
  <2>1. k < j => f + win <= FirstOf(j)
    BY <1>5, FirstOrder DEF f
  <2> QED BY <1>1, <1>2, <1>3, <1>4, <1>5, <2>1
<1>8. j = k
  BY <1>5, <1>6, <1>7
<1> QED BY <1>3, <1>4, <1>8 DEF s, f, j

-----------------------------------------------------------------------------
(* The inductive invariant                                                 *)

(* The dictionary holds pages of lines only; a page of an ascending        *)
(* listing stands under its start, whatever sections came before it.       *)
PagesInv ==
  /\ \A k \in DOMAIN pages : \E line \in Lines : pages[k] = PageOf(line)
  /\ Ascending =>
       \A j \in 1 .. n - 1 : Parsed(listing[j]) =>
         LET p == PageOf(listing[j])
         IN p.start \in DOMAIN pages /\ pages[p.start] = p
  /\ pc # "parse" => n > Len(listing)

(* The page that is being marked is one of the dictionary and not skipped. *)
PageInv ==
  /\ pc \in {"mark", "error"} =>
       /\ \E k \in DOMAIN pages : page = pages[k]
       /\ ~ Skipped(RoundDown(page.start))
       /\ RoundDown(page.start) <= addr
  /\ pc = "error" => page.end > Stretch(DoLen)
  /\ pc = "done" => todo = {}

(* The windows of the page p below the address b are marked.               *)
MarkedTo(p, b) ==
  \A a \in RoundDown(p.start) .. b - 1 :
    a % win = 0 => Index(a) \in DOMAIN windows /\ windows[Index(a)] # Empty

MarkedInv ==
  /\ pc # "parse" =>
       \A k \in DOMAIN pages \ todo :
         \/ Skipped(RoundDown(pages[k].start))
         \/ pc \in {"mark", "error"} /\ page = pages[k]
         \/ MarkedTo(pages[k], pages[k].end)
  /\ pc = "mark" => MarkedTo(page, addr)

IInv == TypeOK /\ PagesInv /\ PageInv /\ MarkedInv /\ RightsOfOnePage

-----------------------------------------------------------------------------
(* What a step leaves as it is                                             *)

LEMMA LineFacts ==
  ASSUME listing \in ArmListings \cup Ia32eListings, NEW line \in Lines
  PROVE  /\ line.at \in Nat /\ Parsed(line)
         /\ \E k \in 1 .. Len(listing) : line = listing[k]
<1>1. PICK k \in DOMAIN listing : Parsed(listing[k]) /\ line = listing[k]
  BY DEF Lines
<1> QED BY <1>1, ListingFacts

LEMMA ListingKept ==
  ASSUME UNCHANGED <<func, listing>>
  PROVE  /\ \A line : PageOf(line)' = PageOf(line)
         /\ Lines' = Lines /\ Ascending' = Ascending
<1>1. ASSUME NEW line PROVE PageOf(line)' = PageOf(line)
  BY DEF PageOf
<1>2. Lines' = Lines
  BY DEF Lines
<1>3. Ascending' = Ascending
  BY DEF Ascending, PageOf
<1> QED BY <1>1, <1>2, <1>3

LEMMA RangeKept ==
  ASSUME UNCHANGED <<func, win, range>>
  PROVE  /\ DoLen' = DoLen /\ RangesOf(func)' = RangesOf(func)
         /\ \A a : RoundDown(a)' = RoundDown(a) /\ Skipped(a)' = Skipped(a)
         /\ \A a : Index(a)' = Index(a) /\ FirstOf(a)' = FirstOf(a)
<1>1. DoLen' = DoLen /\ RangesOf(func)' = RangesOf(func)
  BY DEF DoLen, RangesOf
<1>2. ASSUME NEW a PROVE RoundDown(a)' = RoundDown(a)
  BY DEF RoundDown
<1>3. ASSUME NEW a PROVE Skipped(a)' = Skipped(a)
  BY DEF Skipped
<1>4. ASSUME NEW a PROVE Index(a)' = Index(a) /\ FirstOf(a)' = FirstOf(a)
  BY DEF Index, FirstOf, Origin
<1> QED BY <1>1, <1>2, <1>3, <1>4

LEMMA PagesKept ==
  ASSUME PagesInv, UNCHANGED <<func, listing, n, pages>>,
         pc' # "parse" => pc # "parse" \/ n > Len(listing)
  PROVE  PagesInv'
<1>1. \A k \in DOMAIN pages' : \E line \in Lines' : pages'[k] = PageOf(line)'
  BY ListingKept DEF PagesInv
<1>2. ASSUME Ascending', NEW j \in 1 .. n' - 1, Parsed(listing[j])'
      PROVE  /\ PageOf(listing[j])'.start \in DOMAIN pages'
             /\ pages'[PageOf(listing[j])'.start] = PageOf(listing[j])'
  <2>1. Ascending /\ Parsed(listing[j]) /\ j \in 1 .. n - 1
    BY <1>2, ListingKept DEF Parsed
  <2>2. PageOf(listing[j])' = PageOf(listing[j])
    BY DEF PageOf
  <2> QED BY <2>1, <2>2 DEF PagesInv
<1> QED BY <1>1, <1>2 DEF PagesInv

LEMMA RightsKept ==
  ASSUME RightsOfOnePage, UNCHANGED <<func, listing, win, range, windows>>,
         pc # "parse"
  PROVE  RightsOfOnePage'
<1>1. ASSUME NEW idx \in DOMAIN windows', windows'[idx] # Empty
      PROVE  \E line \in Lines' :
               /\ PageOf(line)'.rights = windows'[idx]
               /\ IF range'.start % win' = 0
                    THEN /\ PageOf(line)'.start < FirstOf(idx)' + win'
                         /\ PageOf(line)'.end > FirstOf(idx)'
                    ELSE Reaches(PageOf(line), idx)'
  <2>1. PICK line \in Lines :
          /\ PageOf(line).rights = windows[idx]
          /\ IF range.start % win = 0
               THEN /\ PageOf(line).start < FirstOf(idx) + win
                    /\ PageOf(line).end > FirstOf(idx)
               ELSE Reaches(PageOf(line), idx)
    BY <1>1 DEF RightsOfOnePage
  <2>2. /\ line \in Lines' /\ PageOf(line)' = PageOf(line)
        /\ FirstOf(idx)' = FirstOf(idx)
    BY ListingKept, RangeKept
  <2>3. Reaches(PageOf(line), idx) => Reaches(PageOf(line), idx)'
    BY <2>2 DEF Reaches, RoundDown, Index, Origin
  <2> QED BY <2>1, <2>2, <2>3
<1> QED BY <1>1 DEF RightsOfOnePage, Empty

LEMMA MarkedKept ==
  ASSUME UNCHANGED <<win, range, windows>>, NEW p, NEW b, MarkedTo(p, b)
  PROVE  \A a \in RoundDown(p.start) .. b - 1 :
           a % win' = 0 => Index(a)' \in DOMAIN windows' /\ windows'[Index(a)'] # Empty
<1>1. \A a : Index(a)' = Index(a)
  BY DEF Index, Origin
<1> QED BY <1>1 DEF MarkedTo

-----------------------------------------------------------------------------
(* Steps                                                                   *)

LEMMA InitIInv == Init => IInv
<1> SUFFICES ASSUME Init PROVE IInv
  OBVIOUS
<1>1. /\ listing \in ArmListings \cup Ia32eListings /\ func \in {"arm", "ia32e"}
      /\ win \in WindowSizes /\ range \in RangesOf(func)
      /\ n = 1 /\ pc = "parse" /\ todo = {} /\ page = NoPage /\ addr = 0
      /\ DOMAIN pages = {}
  BY DEF Init
<1>2. TypeOK
  <2>1. n \in 1 .. Len(listing) + 1
    BY <1>1, ListingFacts
  <2>2. page \in PageType
    BY <1>1 DEF NoPage, PageType
  <2>3. addr \in Nat /\ addr % win = 0
    <3>1. win \in Nat \ {0}
      BY <1>1, RangeFacts
    <3> QED BY <1>1, <3>1
  <2> QED BY <1>1, <2>1, <2>2, <2>3 DEF TypeOK
<1>3. PagesInv
  BY <1>1 DEF PagesInv
<1>4. PageInv /\ MarkedInv /\ RightsOfOnePage
  BY <1>1 DEF PageInv, MarkedInv, RightsOfOnePage
<1> QED BY <1>2, <1>3, <1>4 DEF IInv

LEMMA ParseLineStep == IInv /\ ParseLine => IInv'
<1> SUFFICES ASSUME IInv, ParseLine PROVE IInv'
  OBVIOUS
<1> DEFINE line == listing[n]
<1>1. /\ pc = "parse" /\ n' = n + 1 /\ n <= Len(listing)
      /\ pages' = [k \in DOMAIN pages \cup Keys(line) |->
                     IF k \in Keys(line) THEN PageOf(line) ELSE pages[k]]
      /\ UNCHANGED <<func, listing, win, range, pc, todo, page, addr, windows>>
  BY DEF ParseLine
<1>2. /\ listing \in ArmListings \cup Ia32eListings
      /\ Len(listing) \in Nat /\ DOMAIN listing = 1 .. Len(listing)
      /\ n \in 1 .. Len(listing) /\ line.at \in Nat
      /\ win \in WindowSizes /\ range \in RangesOf(func)
  <2>1. listing \in ArmListings \cup Ia32eListings /\ n \in 1 .. Len(listing) + 1
    BY DEF IInv, TypeOK
  <2>2. Len(listing) \in Nat /\ n \in 1 .. Len(listing)
    BY <1>1, <2>1, ListingFacts
  <2> QED BY <2>1, <2>2, ListingFacts DEF IInv, TypeOK
<1>3. /\ PageOf(line) \in PageType /\ PageOf(line).start < PageOf(line).end
      /\ \A k \in Keys(line) : k \in Nat /\ PageOf(line).start <= k
      /\ Keys(line) # {} => Parsed(line)
      /\ Parsed(line) => PageOf(line).start \in Keys(line)
  BY <1>2, PageFacts, KeyFacts
<1>4. Parsed(line) => line \in Lines
  BY <1>2 DEF Lines
<1>5. /\ \A l : PageOf(l)' = PageOf(l)
      /\ Lines' = Lines /\ Ascending' = Ascending
  BY <1>1, ListingKept
<1>6. TypeOK'
  <2>1. n' \in 1 .. Len(listing') + 1
    BY <1>1, <1>2
  <2>2. DOMAIN pages' \subseteq Nat
    BY <1>1, <1>3 DEF IInv, TypeOK
  <2>3. \A k \in DOMAIN pages' : pages'[k] \in PageType
    <3> HIDE DEF line
    <3> QED BY <1>1, <1>3 DEF IInv, TypeOK
  <2>4. todo' \subseteq DOMAIN pages'
    BY <1>1 DEF IInv, TypeOK
  <2>5. DoLen' = DoLen /\ RangesOf(func)' = RangesOf(func)
    BY <1>1, RangeKept
  <2> QED BY <1>1, <2>1, <2>2, <2>3, <2>4, <2>5 DEF IInv, TypeOK
<1>7. PagesInv'
  <2>1. ASSUME NEW k \in DOMAIN pages'
        PROVE  \E l \in Lines' : pages'[k] = PageOf(l)'
    <3>1. CASE k \in Keys(line)
      <4>1. pages'[k] = PageOf(line) /\ line \in Lines
        <5> HIDE DEF line
        <5> QED BY <1>1, <1>3, <1>4, <3>1
      <4> QED BY <1>5, <4>1
    <3>2. CASE k \notin Keys(line)
      <4>1. k \in DOMAIN pages /\ pages'[k] = pages[k]
        <5> HIDE DEF line
        <5> QED BY <1>1, <3>2
      <4> QED BY <1>5, <4>1 DEF IInv, PagesInv
    <3> QED BY <3>1, <3>2
  <2>2. ASSUME Ascending, NEW j \in 1 .. n' - 1, Parsed(listing[j])
        PROVE  /\ PageOf(listing[j]).start \in DOMAIN pages'
               /\ pages'[PageOf(listing[j]).start] = PageOf(listing[j])
    <3> DEFINE s == PageOf(listing[j]).start
    <3>1. j \in 1 .. Len(listing) /\ (j < n \/ j = n)
      BY <1>1, <1>2
    <3>2. CASE j = n
      <4>1. s \in Keys(line) /\ PageOf(listing[j]) = PageOf(line)
        BY <1>3, <2>2, <3>2
      <4> HIDE DEF s, line
      <4> QED BY <1>1, <4>1 DEF s
    <3>3. CASE j < n
      <4>1. s \in DOMAIN pages /\ pages[s] = PageOf(listing[j])
        <5>1. j \in 1 .. n - 1
          BY <1>2, <3>1, <3>3
        <5> QED BY <2>2, <5>1 DEF IInv, PagesInv
      <4>2. s \notin Keys(line)
        <5>1. SUFFICES ASSUME s \in Keys(line) PROVE FALSE
          OBVIOUS
        <5>2. Parsed(line) /\ PageOf(line).start <= s
          BY <1>3, <5>1
        <5>3. PageOf(listing[j]).end <= PageOf(line).start
          BY <1>2, <2>2, <3>1, <3>3, <5>2 DEF Ascending
        <5>4. listing[j].at \in Nat
          BY <1>2, <3>1, ListingFacts
        <5>5. /\ s \in Nat /\ PageOf(listing[j]).end \in Nat /\ s < PageOf(listing[j]).end
          BY <5>4, PageFacts DEF PageType
        <5>6. PageOf(line).start \in Nat
          BY <1>3 DEF PageType
        <5> HIDE DEF s, line
        <5> QED BY <5>2, <5>3, <5>5, <5>6
      <4> HIDE DEF s, line
      <4> QED BY <1>1, <4>1, <4>2 DEF s
    <3> QED BY <3>1, <3>2, <3>3
  <2>3. ASSUME Ascending', NEW j \in 1 .. n' - 1, Parsed(listing[j])'
        PROVE  /\ PageOf(listing[j])'.start \in DOMAIN pages'
               /\ pages'[PageOf(listing[j])'.start] = PageOf(listing[j])'
    <3>1. PageOf(listing[j])' = PageOf(listing[j])
      BY <1>1 DEF PageOf
    <3>2. Ascending /\ Parsed(listing[j])
      BY <1>1, <1>5, <2>3 DEF Parsed
    <3> QED BY <2>2, <3>1, <3>2
  <2> QED BY <1>1, <2>1, <2>3 DEF PagesInv
<1>8. (PageInv /\ MarkedInv /\ RightsOfOnePage)'
  BY <1>1 DEF PageInv, MarkedInv, RightsOfOnePage
<1> QED BY <1>6, <1>7, <1>8 DEF IInv

LEMMA MakeWindowsStep == IInv /\ MakeWindows => IInv'
<1> SUFFICES ASSUME IInv, MakeWindows PROVE IInv'
  OBVIOUS
<1>1. /\ pc = "parse" /\ pc' = "pages" /\ n > Len(listing) /\ todo' = DOMAIN pages
      /\ windows' = [k \in 0 .. DoLen - 1 |-> Empty]
      /\ UNCHANGED <<func, listing, n, pages, win, range, page, addr>>
  BY DEF MakeWindows
<1>2. TypeOK'
  <2>1. DoLen' = DoLen /\ RangesOf(func)' = RangesOf(func)
    BY <1>1, RangeKept
  <2>2. DOMAIN windows' = 0 .. DoLen - 1
    BY <1>1
  <2> QED BY <1>1, <2>1, <2>2 DEF IInv, TypeOK
<1>3. PagesInv'
  BY <1>1, PagesKept DEF IInv
<1>4. PageInv' /\ MarkedInv'
  BY <1>1 DEF PageInv, MarkedInv
<1>5. RightsOfOnePage'
  <2>1. \A idx \in DOMAIN windows' : windows'[idx] = Empty
    BY <1>1
  <2> QED BY <2>1 DEF RightsOfOnePage, Empty
<1> QED BY <1>2, <1>3, <1>4, <1>5 DEF IInv

LEMMA NothingBelow ==
  ASSUME NEW m \in Int
  PROVE  m .. m - 1 = {}
OBVIOUS

LEMMA NextPageStep == IInv /\ NextPage => IInv'
<1> SUFFICES ASSUME IInv, NextPage PROVE IInv'
  OBVIOUS
<1>1. pc = "pages" /\ UNCHANGED <<func, listing, n, pages, win, range, windows>>
  BY DEF NextPage
<1>2. PICK k \in todo :
        /\ todo' = todo \ {k} /\ page' = pages[k]
        /\ addr' = RoundDown(pages[k].start)
        /\ pc' = IF Skipped(RoundDown(pages[k].start)) THEN "pages" ELSE "mark"
  BY DEF NextPage
<1>3. k \in DOMAIN pages /\ pages[k] \in PageType /\ win \in Nat \ {0}
  BY RangeFacts DEF IInv, TypeOK
<1>4. addr' \in Nat /\ addr' % win = 0
  <2>1. pages[k].start \in Nat
    BY <1>3 DEF PageType
  <2> QED BY <1>2, <1>3, <2>1, RoundDownFacts
<1>5. /\ DoLen' = DoLen /\ RangesOf(func)' = RangesOf(func)
      /\ \A a : RoundDown(a)' = RoundDown(a) /\ Skipped(a)' = Skipped(a)
      /\ \A a : Index(a)' = Index(a)
  BY <1>1, RangeKept
<1>6. pc' \in {"pages", "mark"}
  BY <1>2
<1>7. TypeOK'
  BY <1>1, <1>2, <1>3, <1>4, <1>5, <1>6 DEF IInv, TypeOK
<1>8. PagesInv'
  BY <1>1, <1>6, PagesKept DEF IInv
<1>9. PageInv'
  <2>1. ASSUME pc' = "mark"
        PROVE  /\ \E l \in DOMAIN pages' : page' = pages'[l]
               /\ ~ Skipped(RoundDown(page.start))'
               /\ RoundDown(page.start)' <= addr'
    <3>1. ~ Skipped(RoundDown(pages[k].start))
      BY <1>2, <2>1
    <3>2. RoundDown(page.start)' = RoundDown(pages[k].start)
      BY <1>1, <1>2 DEF RoundDown
    <3>3. ~ Skipped(RoundDown(page.start))'
      BY <1>1, <3>1, <3>2 DEF Skipped
    <3> QED BY <1>1, <1>2, <1>3, <1>4, <3>2, <3>3
  <2> QED BY <1>6, <2>1 DEF PageInv
<1>10. MarkedInv'
  <2>1. ASSUME NEW l \in DOMAIN pages' \ todo'
        PROVE  \/ Skipped(RoundDown(pages[l].start))'
               \/ pc' \in {"mark", "error"} /\ page' = pages'[l]
               \/ MarkedTo(pages[l], pages[l].end)'
    <3>1. CASE l = k
      <4>1. Skipped(RoundDown(pages[k].start))' = Skipped(RoundDown(pages[k].start))
        BY <1>1 DEF Skipped, RoundDown
      <4> QED BY <1>1, <1>2, <3>1, <4>1
    <3>2. CASE l # k
      <4>1. l \in DOMAIN pages \ todo
        BY <1>1, <1>2, <2>1, <3>2
      <4>2. \/ Skipped(RoundDown(pages[l].start))
            \/ MarkedTo(pages[l], pages[l].end)
        BY <1>1, <4>1 DEF IInv, MarkedInv
      <4>3. Skipped(RoundDown(pages[l].start)) => Skipped(RoundDown(pages[l].start))'
        BY <1>1 DEF Skipped, RoundDown
      <4>4. MarkedTo(pages[l], pages[l].end) => MarkedTo(pages[l], pages[l].end)'
        BY <1>1 DEF MarkedTo, RoundDown, Index, Origin, Empty
      <4> QED BY <4>2, <4>3, <4>4
    <3> QED BY <3>1, <3>2
  <2>2. ASSUME pc' = "mark" PROVE MarkedTo(page, addr)'
    <3>1. RoundDown(page.start)' = addr'
      BY <1>1, <1>2 DEF RoundDown
    <3>2. addr' \in Int
      BY <1>4
    <3>3. addr' .. addr' - 1 = {}
      BY <3>2, NothingBelow
    <3>4. RoundDown(page.start)' .. addr' - 1 = {}
      BY <3>1, <3>3
    <3> QED BY <3>4 DEF MarkedTo
  <2> QED BY <2>1, <2>2 DEF MarkedInv
<1>11. RightsOfOnePage'
  BY <1>1, RightsKept DEF IInv
<1> QED BY <1>7, <1>8, <1>9, <1>10, <1>11 DEF IInv

(* While a page is marked it is that of a line, and the address is not     *)
(* below the range.                                                        *)
LEMMA MarkFacts ==
  ASSUME TypeOK, PagesInv, PageInv, pc = "mark"
  PROVE  /\ \E line \in Lines : page = PageOf(line)
         /\ page.start \in Nat /\ page.end \in Nat
         /\ page.start < page.end /\ page.rights # Empty
         /\ RoundDown(page.start) \in Nat /\ range.start <= RoundDown(page.start)
         /\ range.start <= addr
<1>1. PICK line \in Lines : page = PageOf(line)
  BY DEF PageInv, PagesInv
<1>2. line.at \in Nat
  BY LineFacts DEF TypeOK
<1>3. /\ page.start \in Nat /\ page.end \in Nat
      /\ page.start < page.end /\ page.rights # Empty
  BY <1>1, <1>2, PageFacts DEF PageType
<1>4. win \in Nat \ {0} /\ range.start \in Nat /\ (range.stop = 0 => range.start = 0)
  BY RangeFacts DEF TypeOK
<1>5. RoundDown(page.start) \in Nat
  BY <1>3, <1>4, RoundDownFacts
<1>6. range.start <= RoundDown(page.start)
  BY <1>4, <1>5 DEF PageInv, Skipped
<1>7. range.start <= addr
  BY <1>4, <1>5, <1>6 DEF PageInv, TypeOK
<1> QED BY <1>1, <1>3, <1>5, <1>6, <1>7

LEMMA MergedFacts ==
  ASSUME NEW shown, NEW rights, rights # Empty
  PROVE  /\ Merged(shown, rights) # Empty
         /\ \/ Merged(shown, rights) = rights
            \/ Merged(shown, rights) = shown /\ shown # Empty
<1> DEFINE New == {"ws", "wu", "xu", "ru"} \cap (rights \ shown) # {}
<1>1. Merged(shown, rights) = IF shown = Empty \/ New THEN rights ELSE shown
  BY DEF Merged
<1> HIDE DEF New
<1> QED BY <1>1

LEMMA MarkWindowStep == IInv /\ MarkWindow => IInv'
<1> SUFFICES ASSUME IInv, MarkWindow PROVE IInv'
  OBVIOUS
<1> DEFINE x == Index(addr)
<1>1. /\ pc = "mark" /\ addr < page.end /\ Place(x) \in DOMAIN windows
      /\ windows' = [windows EXCEPT ![Place(x)] = Merged(@, page.rights)]
      /\ addr' = addr + win
      /\ UNCHANGED <<func, listing, n, pages, win, range, pc, todo, page>>
  BY DEF MarkWindow
<1>2. TypeOK /\ PagesInv /\ PageInv /\ MarkedInv /\ RightsOfOnePage
  BY DEF IInv
<1>3. /\ \E line \in Lines : page = PageOf(line)
      /\ page.start \in Nat /\ page.end \in Nat
      /\ page.start < page.end /\ page.rights # Empty
      /\ RoundDown(page.start) \in Nat /\ range.start <= addr
  BY <1>1, <1>2, MarkFacts
<1>4. /\ addr \in Nat /\ addr % win = 0 /\ win \in Nat \ {0}
      /\ win \in WindowSizes /\ range \in RangesOf(func) /\ range.start \in Nat
      /\ DOMAIN windows = 0 .. DoLen - 1
  BY <1>1, <1>2, RangeFacts DEF TypeOK
<1>5. Place(x) = x /\ x \in Nat
  BY <1>3, <1>4, IndexFacts
<1> HIDE DEF x
<1>6. /\ x \in DOMAIN windows /\ DOMAIN windows' = DOMAIN windows
      /\ windows'[x] = Merged(windows[x], page.rights)
      /\ \A k \in DOMAIN windows \ {x} : windows'[k] = windows[k]
  BY <1>1, <1>5
<1>7. /\ windows'[x] # Empty
      /\ \/ windows'[x] = page.rights
         \/ windows'[x] = windows[x] /\ windows[x] # Empty
  BY <1>3, <1>6, MergedFacts
<1>8. addr' \in Nat /\ addr' % win = 0
  BY <1>1, <1>4, MultipleNext
<1>9. /\ DoLen' = DoLen /\ RangesOf(func)' = RangesOf(func)
      /\ Lines' = Lines
  BY <1>1, RangeKept, ListingKept
<1>10. TypeOK'
  BY <1>1, <1>2, <1>6, <1>8, <1>9 DEF TypeOK
<1>11. PagesInv'
  BY <1>1, <1>2, PagesKept
<1>12. PageInv'
  <2>1. RoundDown(page.start)' = RoundDown(page.start)
    BY <1>1 DEF RoundDown
  <2>2. ~ Skipped(RoundDown(page.start))'
    BY <1>1, <1>2, <2>1 DEF PageInv, Skipped
  <2>3. RoundDown(page.start)' <= addr'
    BY <1>1, <1>2, <1>3, <1>4, <2>1 DEF PageInv
  <2>4. \E k \in DOMAIN pages' : page' = pages'[k]
    BY <1>1, <1>2 DEF PageInv
  <2> QED BY <1>1, <2>2, <2>3, <2>4 DEF PageInv
<1>13. MarkedInv'
  <2>1. ASSUME NEW k \in DOMAIN windows, windows[k] # Empty
        PROVE  k \in DOMAIN windows' /\ windows'[k] # Empty
    BY <1>6, <1>7, <2>1
  <2>2. ASSUME NEW l \in DOMAIN pages' \ todo'
        PROVE  \/ Skipped(RoundDown(pages[l].start))'
               \/ pc' \in {"mark", "error"} /\ page' = pages'[l]
               \/ MarkedTo(pages[l], pages[l].end)'
    <3>1. \/ Skipped(RoundDown(pages[l].start))
          \/ page = pages[l]
          \/ MarkedTo(pages[l], pages[l].end)
      BY <1>1, <1>2, <2>2 DEF MarkedInv
    <3>2. Skipped(RoundDown(pages[l].start)) => Skipped(RoundDown(pages[l].start))'
      BY <1>1 DEF Skipped, RoundDown
    <3>3. MarkedTo(pages[l], pages[l].end) => MarkedTo(pages[l], pages[l].end)'
      BY <1>1, <2>1 DEF MarkedTo, RoundDown, Index, Origin, Empty
    <3> QED BY <1>1, <3>1, <3>2, <3>3
  <2>3. ASSUME NEW a \in RoundDown(page.start) .. addr' - 1, a % win = 0
        PROVE  Index(a) \in DOMAIN windows' /\ windows'[Index(a)] # Empty
    <3>1. a \in Nat /\ a < addr + win
      BY <1>1, <1>3, <1>4
    <3>2. a <= addr
      BY <1>4, <2>3, <3>1, MultipleOrder
    <3>3. CASE a = addr
      BY <1>6, <1>7, <3>3 DEF x
    <3>4. CASE a < addr
      <4>1. a \in RoundDown(page.start) .. addr - 1
        BY <1>3, <1>4, <3>1, <3>4
      <4>2. Index(a) \in DOMAIN windows /\ windows[Index(a)] # Empty
        BY <1>1, <1>2, <2>3, <4>1 DEF MarkedInv, MarkedTo
      <4> QED BY <2>1, <4>2
    <3> QED BY <1>4, <3>1, <3>2, <3>3, <3>4
  <2>4. MarkedTo(page, addr)'
    BY <1>1, <2>3 DEF MarkedTo, RoundDown, Index, Origin, Empty
  <2> QED BY <2>2, <2>4 DEF MarkedInv
<1>14. RightsOfOnePage'
  <2>1. ASSUME NEW idx \in DOMAIN windows, windows'[idx] # Empty
        PROVE  \E line \in Lines :
                 /\ PageOf(line).rights = windows'[idx]
                 /\ IF range.start % win = 0
                      THEN /\ PageOf(line).start < FirstOf(idx) + win
                           /\ PageOf(line).end > FirstOf(idx)
                      ELSE Reaches(PageOf(line), idx)
    <3>1. CASE windows'[idx] = windows[idx]
      BY <1>1, <1>2, <2>1, <3>1 DEF RightsOfOnePage
    <3>2. CASE windows'[idx] # windows[idx]
      <4>1. idx = x /\ windows'[idx] = page.rights
        BY <1>6, <1>7, <3>2
      <4>2. PICK line \in Lines : page = PageOf(line)
        BY <1>3
      <4>3. CASE range.start % win = 0
        <5>1. FirstOf(idx) = addr
          BY <1>3, <1>4, <4>1, <4>3, AlignedFirst DEF x
        <5>2. page.start < RoundDown(page.start) + win
          BY <1>3, <1>4, RoundDownFacts
        <5>3. page.start < addr + win
          BY <1>1, <1>2, <1>3, <1>4, <5>2 DEF PageInv
        <5> QED BY <1>1, <1>3, <1>4, <4>1, <4>2, <4>3, <5>1, <5>3
      <4>4. CASE range.start % win # 0
        <5>1. addr \in RoundDown(page.start) .. page.end - 1
          BY <1>1, <1>2, <1>3, <1>4 DEF PageInv
        <5>2. Reaches(page, idx)
          BY <1>4, <4>1, <5>1 DEF Reaches, x
        <5> QED BY <4>1, <4>2, <4>4, <5>2
      <4> QED BY <4>3, <4>4
    <3> QED BY <3>1, <3>2
  <2>2. ASSUME NEW idx \in DOMAIN windows', windows'[idx] # Empty
        PROVE  \E line \in Lines' :
                 /\ PageOf(line)'.rights = windows'[idx]
                 /\ IF range'.start % win' = 0
                      THEN /\ PageOf(line)'.start < FirstOf(idx)' + win'
                           /\ PageOf(line)'.end > FirstOf(idx)'
                      ELSE Reaches(PageOf(line), idx)'
    <3>1. PICK line \in Lines :
             /\ PageOf(line).rights = windows'[idx]
             /\ IF range.start % win = 0
                  THEN /\ PageOf(line).start < FirstOf(idx) + win
                       /\ PageOf(line).end > FirstOf(idx)
                  ELSE Reaches(PageOf(line), idx)
      BY <1>6, <2>1, <2>2
    <3>2. PageOf(line)' = PageOf(line) /\ FirstOf(idx)' = FirstOf(idx)
      BY <1>1, ListingKept, RangeKept
    <3>3. Reaches(PageOf(line), idx) => Reaches(PageOf(line), idx)'
      BY <1>1, <3>2 DEF Reaches, RoundDown, Index, Origin
    <3> QED BY <1>1, <1>9, <3>1, <3>2, <3>3
  <2> QED BY <2>2 DEF RightsOfOnePage, Empty
<1> QED BY <1>10, <1>11, <1>12, <1>13, <1>14 DEF IInv

(* A step that only moves on in the loop.                                  *)
LEMMA LoopMoves ==
  ASSUME IInv, pc # "parse", pc' \in {"pages", "mark", "done", "error"},
         UNCHANGED <<func, listing, n, pages, win, range, todo, page, addr, windows>>
  PROVE  TypeOK' /\ PagesInv' /\ RightsOfOnePage'
<1>1. DoLen' = DoLen /\ RangesOf(func)' = RangesOf(func)
  BY RangeKept
<1>2. TypeOK'
  BY <1>1 DEF IInv, TypeOK
<1>3. PagesInv'
  BY PagesKept DEF IInv
<1>4. RightsOfOnePage'
  BY RightsKept DEF IInv
<1> QED BY <1>2, <1>3, <1>4

(* The pages that are marked stay so.                                      *)
LEMMA PagesStayMarked ==
  ASSUME UNCHANGED <<pages, win, range, windows>>, NEW l
  PROVE  /\ Skipped(RoundDown(pages[l].start))' = Skipped(RoundDown(pages[l].start))
         /\ MarkedTo(pages[l], pages[l].end) => MarkedTo(pages[l], pages[l].end)'
<1>1. Skipped(RoundDown(pages[l].start))' = Skipped(RoundDown(pages[l].start))
  BY DEF Skipped, RoundDown
<1>2. MarkedTo(pages[l], pages[l].end) => MarkedTo(pages[l], pages[l].end)'
  BY DEF MarkedTo, RoundDown, Index, Origin, Empty
<1> QED BY <1>1, <1>2

LEMMA IndexFailsStep == IInv /\ IndexFails => IInv'
<1> SUFFICES ASSUME IInv, IndexFails PROVE IInv'
  OBVIOUS
<1>1. /\ pc = "mark" /\ pc' = "error" /\ addr < page.end
      /\ Place(Index(addr)) \notin DOMAIN windows
      /\ UNCHANGED <<func, listing, n, pages, win, range, todo, page, addr, windows>>
  BY DEF IndexFails
<1>2. TypeOK' /\ PagesInv' /\ RightsOfOnePage'
  BY <1>1, LoopMoves
<1>3. page.end > Stretch(DoLen)
  <2> DEFINE x == Index(addr)
             l == Stretch(DoLen)
  <2>1. range.start <= addr /\ page.end \in Nat
    BY <1>1, MarkFacts DEF IInv
  <2>2. /\ addr \in Nat /\ addr % win = 0
        /\ win \in WindowSizes /\ range \in RangesOf(func)
        /\ DOMAIN windows = 0 .. DoLen - 1
    BY <1>1 DEF IInv, TypeOK
  <2>3. Place(x) = x /\ x \in Nat /\ FirstOf(x) \in Nat /\ FirstOf(x) <= addr
    BY <2>1, <2>2, IndexFacts
  <2>4. DoLen \in Nat /\ win \in Nat \ {0}
    BY <2>2, RangeFacts
  <2>5. DoLen <= x
    <3> HIDE DEF x
    <3> QED BY <1>1, <2>2, <2>3, <2>4 DEF x
  <2>6. FirstOf(DoLen) <= FirstOf(x) /\ FirstOf(DoLen) \in Nat
    <3> HIDE DEF x
    <3> QED BY <2>2, <2>3, <2>4, <2>5, FirstOrder
  <2>7. l \in Nat /\ l % win = 0 /\ l < FirstOf(DoLen) + win
    BY <2>2, <2>4, StretchFacts
  <2> HIDE DEF x, l
  <2>8. l < addr + win
    BY <2>2, <2>3, <2>4, <2>6, <2>7
  <2>9. l <= addr
    BY <2>2, <2>4, <2>7, <2>8, MultipleOrder
  <2> QED BY <1>1, <2>1, <2>2, <2>7, <2>9 DEF l
<1>4. PageInv'
  <2>1. Stretch(DoLen)' = Stretch(DoLen)
    <3>1. DoLen' = DoLen
      BY <1>1, RangeKept
    <3> QED BY <1>1, <3>1 DEF Stretch, RoundDown, FirstOf, Origin
  <2>2. RoundDown(page.start)' = RoundDown(page.start)
    BY <1>1 DEF RoundDown
  <2>3. Skipped(RoundDown(page.start))' = Skipped(RoundDown(page.start))
    BY <1>1, <2>2 DEF Skipped
  <2> QED BY <1>1, <1>3, <2>1, <2>2, <2>3 DEF IInv, PageInv
<1>5. MarkedInv'
  <2>1. ASSUME NEW l \in DOMAIN pages' \ todo'
        PROVE  \/ Skipped(RoundDown(pages[l].start))'
               \/ pc' \in {"mark", "error"} /\ page' = pages'[l]
               \/ MarkedTo(pages[l], pages[l].end)'
    <3>1. \/ Skipped(RoundDown(pages[l].start))
          \/ page = pages[l]
          \/ MarkedTo(pages[l], pages[l].end)
      BY <1>1, <2>1 DEF IInv, MarkedInv
    <3> QED BY <1>1, <3>1, PagesStayMarked
  <2> QED BY <1>1, <2>1 DEF MarkedInv
<1> QED BY <1>2, <1>4, <1>5 DEF IInv

LEMMA PageDoneStep == IInv /\ PageDone => IInv'
<1> SUFFICES ASSUME IInv, PageDone PROVE IInv'
  OBVIOUS
<1>1. /\ pc = "mark" /\ pc' = "pages" /\ addr >= page.end
      /\ UNCHANGED <<func, listing, n, pages, win, range, todo, page, addr, windows>>
  BY DEF PageDone
<1>2. TypeOK' /\ PagesInv' /\ RightsOfOnePage'
  BY <1>1, LoopMoves
<1>3. PageInv'
  BY <1>1 DEF PageInv
<1>4. MarkedTo(page, page.end)
  <2>1. /\ page.end \in Nat /\ addr \in Nat /\ RoundDown(page.start) \in Nat
    BY <1>1, MarkFacts DEF IInv, TypeOK
  <2>2. \A a \in RoundDown(page.start) .. page.end - 1 :
          a \in RoundDown(page.start) .. addr - 1
    BY <1>1, <2>1
  <2> QED BY <1>1, <2>2 DEF IInv, MarkedInv, MarkedTo
<1>5. MarkedInv'
  <2>1. ASSUME NEW l \in DOMAIN pages' \ todo'
        PROVE  \/ Skipped(RoundDown(pages[l].start))'
               \/ MarkedTo(pages[l], pages[l].end)'
    <3>1. \/ Skipped(RoundDown(pages[l].start))
          \/ page = pages[l]
          \/ MarkedTo(pages[l], pages[l].end)
      BY <1>1, <2>1 DEF IInv, MarkedInv
    <3> QED BY <1>1, <1>4, <3>1, PagesStayMarked
  <2> QED BY <1>1, <2>1 DEF MarkedInv
<1> QED BY <1>2, <1>3, <1>5 DEF IInv

LEMMA AllDoneStep == IInv /\ AllDone => IInv'
<1> SUFFICES ASSUME IInv, AllDone PROVE IInv'
  OBVIOUS
<1>1. /\ pc = "pages" /\ pc' = "done" /\ todo = {}
      /\ UNCHANGED <<func, listing, n, pages, win, range, todo, page, addr, windows>>
  BY DEF AllDone
<1>2. TypeOK' /\ PagesInv' /\ RightsOfOnePage'
  BY <1>1, LoopMoves
<1>3. PageInv'
  BY <1>1 DEF PageInv
<1>4. MarkedInv'
  <2>1. ASSUME NEW l \in DOMAIN pages' \ todo'
        PROVE  \/ Skipped(RoundDown(pages[l].start))'
               \/ MarkedTo(pages[l], pages[l].end)'
    <3>1. \/ Skipped(RoundDown(pages[l].start))
          \/ MarkedTo(pages[l], pages[l].end)
      BY <1>1, <2>1 DEF IInv, MarkedInv
    <3> QED BY <1>1, <3>1, PagesStayMarked
  <2> QED BY <1>1, <2>1 DEF MarkedInv
<1> QED BY <1>2, <1>3, <1>4 DEF IInv

LEMMA StutterStep == IInv /\ UNCHANGED vars => IInv'
<1> SUFFICES ASSUME IInv, UNCHANGED vars PROVE IInv'
  OBVIOUS
<1>1. /\ UNCHANGED <<func, listing, win, range>>
      /\ UNCHANGED <<n, pages, pc, todo, page, addr, windows>>
  BY DEF vars
<1>2. /\ DoLen' = DoLen /\ RangesOf(func)' = RangesOf(func)
      /\ RoundDown(page.start)' = RoundDown(page.start)
      /\ Stretch(DoLen)' = Stretch(DoLen)
  <2>1. DoLen' = DoLen
    BY <1>1, RangeKept
  <2> QED BY <1>1, <2>1 DEF RangesOf, RoundDown, Stretch, FirstOf, Origin
<1>3. TypeOK'
  BY <1>1, <1>2 DEF IInv, TypeOK
<1>4. PagesInv'
  BY <1>1, PagesKept DEF IInv, PagesInv
<1>5. PageInv'
  <2>1. Skipped(RoundDown(page.start))' = Skipped(RoundDown(page.start))
    BY <1>1, <1>2 DEF Skipped
  <2> QED BY <1>1, <1>2, <2>1 DEF IInv, PageInv
<1>6. MarkedInv'
  <2>1. ASSUME pc' # "parse", NEW l \in DOMAIN pages' \ todo'
        PROVE  \/ Skipped(RoundDown(pages[l].start))'
               \/ pc' \in {"mark", "error"} /\ page' = pages'[l]
               \/ MarkedTo(pages[l], pages[l].end)'
    <3>1. \/ Skipped(RoundDown(pages[l].start))
          \/ pc \in {"mark", "error"} /\ page = pages[l]
          \/ MarkedTo(pages[l], pages[l].end)
      BY <1>1, <2>1 DEF IInv, MarkedInv
    <3> QED BY <1>1, <3>1, PagesStayMarked
  <2>2. MarkedTo(page, addr) => MarkedTo(page, addr)'
    BY <1>1 DEF MarkedTo, RoundDown, Index, Origin, Empty
  <2> QED BY <1>1, <2>1, <2>2 DEF IInv, MarkedInv
<1>7. RightsOfOnePage'
  <2>1. CASE pc = "parse"
    BY <1>1, <2>1 DEF RightsOfOnePage
  <2>2. CASE pc # "parse"
    BY <1>1, <2>2, RightsKept DEF IInv
  <2> QED BY <2>1, <2>2
<1> QED BY <1>3, <1>4, <1>5, <1>6, <1>7 DEF IInv

LEMMA IInvStep == IInv /\ [Next]_vars => IInv'
  BY ParseLineStep, MakeWindowsStep, NextPageStep, MarkWindowStep, IndexFailsStep,
     PageDoneStep, AllDoneStep, StutterStep DEF Next, Program

(* The invariant is one: it holds at first, and every step keeps it.       *)
THEOREM Invariance == Spec => []IInv
<1>1. Init => IInv
  BY InitIInv
<1>2. IInv /\ [Next]_vars => IInv'
  BY IInvStep
<1> QED BY <1>1, <1>2, PTL DEF Spec

-----------------------------------------------------------------------------
(* The properties                                                          *)

(* Every variable has its type: there is a window for every multiple of    *)
(* the size in the range, and the marking is at a multiple of it.          *)
THEOREM TypeCorrect == Spec => []TypeOK
<1>1. IInv => TypeOK
  BY DEF IInv
<1> QED BY <1>1, Invariance, PTL

(* A window shows nothing or the rights of one page that lies in it, or    *)
(* reaches it where the range is not aligned, whatever order the           *)
(* dictionary is gone through in.                                          *)
THEOREM RightsCorrect == Spec => []RightsOfOnePage
<1>1. IInv => RightsOfOnePage
  BY DEF IInv
<1> QED BY <1>1, Invariance, PTL

(* Every window whose stretch a page of an ascending listing lies in shows *)
(* one, when the program has finished: the sections before a page, which   *)
(* are also entered under its address, do not hide it.                     *)
THEOREM MappedCorrect == Spec => []MappedIsShown
<1>1. IInv => MappedIsShown
  <2> SUFFICES ASSUME IInv, pc = "done", Ascending, NEW line \in Lines,
                      RoundDown(PageOf(line).start) >= Origin,
                      range.stop = 0 \/ RoundDown(PageOf(line).start) <= range.stop,
                      NEW idx \in DOMAIN windows,
                      PageOf(line).start < Stretch(idx) + win,
                      PageOf(line).end > Stretch(idx)
               PROVE  windows[idx] # Empty
    BY DEF MappedIsShown, Empty
  <2> DEFINE p == PageOf(line)
             r == RoundDown(p.start)
             a == Stretch(idx)
  <2>1. /\ listing \in ArmListings \cup Ia32eListings
        /\ win \in WindowSizes /\ range \in RangesOf(func)
        /\ win \in Nat \ {0} /\ range.start \in Nat /\ range.stop \in Nat
        /\ Origin = range.start /\ DoLen \in Nat
        /\ DOMAIN windows = 0 .. DoLen - 1
    BY RangeFacts DEF IInv, TypeOK
  <2>2. idx \in Nat
    BY <2>1
  <2>3. p.start \in DOMAIN pages /\ pages[p.start] = p
    <3>1. PICK j \in 1 .. Len(listing) : line = listing[j]
      BY <2>1, LineFacts
    <3>2. Parsed(listing[j])
      BY <2>1, <3>1, LineFacts
    <3>3. j \in 1 .. n - 1
      <4>1. n > Len(listing) /\ n \in 1 .. Len(listing) + 1 /\ Len(listing) \in Nat
        BY <2>1, ListingFacts DEF IInv, TypeOK, PagesInv
      <4> QED BY <4>1
    <3> QED BY <3>1, <3>2, <3>3 DEF IInv, PagesInv
  <2>4. p.start \in Nat /\ p.end \in Nat
    BY <2>1, LineFacts, PageFacts DEF PageType
  <2>5. r \in Nat /\ r <= p.start /\ r % win = 0
    <3> HIDE DEF p
    <3> QED BY <2>1, <2>4, RoundDownFacts
  <2>6. a \in Nat /\ a % win = 0 /\ Index(a) = idx
    BY <2>1, <2>2, StretchFacts
  <2>7. ~ Skipped(r)
    <3>1. r >= range.start /\ (range.stop = 0 \/ r <= range.stop)
      BY <2>1
    <3> HIDE DEF r
    <3> QED BY <2>1, <2>5, <3>1 DEF Skipped
  <2> HIDE DEF p, r, a
  <2>8. MarkedTo(p, p.end)
    <3>1. todo = {}
      BY DEF IInv, PageInv
    <3> QED BY <2>3, <2>7, <3>1 DEF IInv, MarkedInv, r
  <2>9. r <= a
    <3>1. r < a + win
      BY <2>1, <2>4, <2>5, <2>6 DEF p, a
    <3> QED BY <2>1, <2>5, <2>6, <3>1, MultipleOrder
  <2>10. a \in r .. p.end - 1
    BY <2>4, <2>5, <2>6, <2>9 DEF p, a
  <2> QED BY <2>6, <2>8, <2>10 DEF MarkedTo, r
<1> QED BY <1>1, Invariance, PTL

(* The program fails on a page that is not skipped and reaches behind the  *)
(* start of the stretch after the last window's, on every such page and on *)
(* no other.                                                               *)
THEOREM FailureCorrect == Spec => []FailsAtTheEnd
<1>1. ASSUME IInv, pc = "error"
      PROVE  \E line \in Lines :
               /\ page = PageOf(line)
               /\ page.end > Stretch(DoLen)
               /\ ~ Skipped(RoundDown(page.start))
  <2>1. PICK line \in Lines : page = PageOf(line)
    BY <1>1 DEF IInv, PageInv, PagesInv
  <2> QED BY <1>1, <2>1 DEF IInv, PageInv
<1>2. ASSUME IInv, pc = "done", NEW k \in DOMAIN pages,
             ~ Skipped(RoundDown(pages[k].start)), ~ (pages[k].end <= Stretch(DoLen))
      PROVE  FALSE
  <2> DEFINE p == pages[k]
             r == RoundDown(p.start)
             a == Stretch(DoLen)
             f == FirstOf(DoLen)
  <2>1. /\ listing \in ArmListings \cup Ia32eListings
        /\ win \in WindowSizes /\ range \in RangesOf(func)
        /\ win \in Nat \ {0} /\ range.start \in Nat /\ DoLen \in Nat
        /\ (range.stop = 0 => range.start = 0)
        /\ DOMAIN windows = 0 .. DoLen - 1
    BY <1>2, RangeFacts DEF IInv, TypeOK
  <2>2. p.start \in Nat /\ p.end \in Nat /\ p.start < p.end
    <3>1. PICK line \in Lines : p = PageOf(line)
      BY <1>2 DEF IInv, PagesInv
    <3> QED BY <2>1, <3>1, LineFacts, PageFacts DEF PageType
  <2>3. r \in Nat /\ r <= p.start /\ r % win = 0
    <3> HIDE DEF p
    <3> QED BY <2>1, <2>2, RoundDownFacts
  <2>4. a \in Nat /\ a % win = 0 /\ Index(a) = DoLen /\ f <= a /\ f \in Nat
    BY <2>1, StretchFacts, FirstOrder
  <2>5. MarkedTo(p, p.end)
    BY <1>2 DEF IInv, PageInv, MarkedInv
  <2>6. a < p.end
    BY <1>2, <2>2, <2>4
  <2>7. range.start <= r
    BY <1>2, <2>1, <2>3 DEF Skipped
  <2> HIDE DEF p, r, a, f
  <2>8. CASE r <= a
    <3>1. a \in r .. p.end - 1
      BY <2>2, <2>3, <2>4, <2>6, <2>8
    <3>2. DoLen \in DOMAIN windows
      BY <2>4, <2>5, <3>1 DEF MarkedTo, r
    <3> QED BY <2>1, <3>2
  <2>9. CASE a < r
    <3> DEFINE x == Index(r)
    <3>1. r \in r .. p.end - 1
      BY <2>2, <2>3
    <3>2. x \in DOMAIN windows
      BY <2>3, <2>5, <3>1 DEF MarkedTo, r
    <3>3. x \in Nat /\ FirstOf(x) \in Nat /\ r < FirstOf(x) + win
      BY <2>1, <2>3, <2>7, IndexFacts
    <3> HIDE DEF x
    <3>4. x < DoLen
      BY <2>1, <3>2
    <3>5. FirstOf(x) + win <= f
      BY <2>1, <3>3, <3>4, FirstOrder DEF f
    <3> QED BY <2>1, <2>3, <2>4, <2>9, <3>3, <3>5
  <2> QED BY <2>3, <2>4, <2>8, <2>9
<1>3. IInv => FailsAtTheEnd
  <2>1. ASSUME IInv, pc = "done", NEW k \in DOMAIN pages
        PROVE  Skipped(RoundDown(pages[k].start)) \/ pages[k].end <= Stretch(DoLen)
    BY <1>2, <2>1
  <2> QED BY <1>1, <2>1 DEF FailsAtTheEnd
<1> QED BY <1>3, Invariance, PTL
=============================================================================
