--------------------------- MODULE PhysAllocProofs ---------------------------
(***************************************************************************)
(* Proofs about the frame allocator, for every table of regions, every     *)
(* page size and every set of sizes.  The parts of IInv need each          *)
(* other: the release of a block clears no bit of another block because    *)
(* blocks are disjoint, and a new block is disjoint from the others        *)
(* because their bits are set.                                             *)
(***************************************************************************)
EXTENDS PhysAlloc, WellFoundedInduction, TLAPS

\* What Alloc does with the run that it found.
Takes(f, pages, size) ==
    /\ bitmap' = bitmap \cup Run(f, pages)
    /\ last_alloc_page' = f + pages
    /\ live' = live \cup {[first |-> f, pages |-> pages, size |-> size]}

IInv == TypeOK /\ LiveDisjoint /\ BitmapExact

-----------------------------------------------------------------------------
(* Page numbers are integers. *)
LEMMA PagesAreInts ==
    /\ \A size \in Sizes : PagesNeeded(size) \in Int
    /\ \A i \in DOMAIN Regions : StartPage(i) \in Int /\ EndPage(i) \in Int
<1>1. ASSUME NEW v \in Nat
      PROVE  Align4k(v) \in Int
  <2>1. v + PageSize \in Int
    BY RegionsAssumption
  <2>. QED
    BY <2>1, RegionsAssumption DEF Align4k
<1>2. ASSUME NEW v \in Int
      PROVE  v \div PageSize \in Int
  BY RegionsAssumption
<1>3. \A size \in Sizes : PagesNeeded(size) \in Int
  BY <1>1, <1>2, RegionsAssumption DEF PagesNeeded
<1>4. ASSUME NEW i \in DOMAIN Regions
      PROVE  Regions[i].base \in Nat /\ Regions[i].limit \in Nat
  <2>1. Regions[i] \in [base : Nat, limit : Nat]
    BY RegionsAssumption
  <2>. QED
    BY <2>1
<1>. QED
  BY <1>1, <1>2, <1>3, <1>4 DEF StartPage, EndPage

(* A run that the search may choose lies in the region and is free.        *)
LEMMA FitIsFree ==
    ASSUME TypeOK, NEW i \in DOMAIN Regions, NEW pages \in Int, pages > 0,
           NEW f \in Fits(i, pages)
    PROVE  /\ f \in Frames
           /\ f + pages \in 0..BitmapPages
           /\ Run(f, pages) \subseteq Frames
           /\ Run(f, pages) \cap bitmap = {}
<1>1. /\ From(i) \in Int /\ StartPage(i) \in Int /\ EndPage(i) \in Int
      /\ StartPage(i) <= From(i)
  BY PagesAreInts, RegionsAssumption DEF From, TypeOK
<1>2. f \in From(i)..(EndPage(i) - pages) /\ Run(f, pages) \cap bitmap = {}
  BY DEF Fits
<1>3. f \in Int /\ StartPage(i) <= f /\ f + pages <= EndPage(i)
  BY <1>1, <1>2
<1>4. Run(f, pages) \subseteq StartPage(i)..(EndPage(i) - 1)
  BY <1>1, <1>3 DEF Run
<1>5. Run(f, pages) \subseteq Frames
  BY <1>4 DEF Frames
<1>6. f \in Run(f, pages)
  BY <1>3 DEF Run
<1>7. f + pages \in 0..BitmapPages
  BY <1>1, <1>3, RegionsAssumption
<1>. QED
  BY <1>2, <1>5, <1>6, <1>7

LEMMA FramesAreInts == Frames \subseteq Int
BY PagesAreInts DEF Frames

-----------------------------------------------------------------------------
LEMMA InitHolds == Init => IInv
BY RegionsAssumption DEF Init, IInv, TypeOK, LiveDisjoint, BitmapExact

LEMMA AllocKeeps ==
    ASSUME IInv, NEW size \in Sizes, Alloc(size)
    PROVE  IInv'
<1>. DEFINE pages == PagesNeeded(size)
<1>1. pages \in Int /\ pages > 0
  BY PagesAreInts DEF Alloc
<1>0a. PICK i \in DOMAIN Regions : \E f \in Fits(i, pages) : Takes(f, pages, size)
  BY DEF Alloc, Takes
<1>0b. PICK f \in Fits(i, pages) : Takes(f, pages, size)
  BY <1>0a
<1>2. /\ bitmap' = bitmap \cup Run(f, pages)
      /\ last_alloc_page' = f + pages
      /\ live' = live \cup {[first |-> f, pages |-> pages, size |-> size]}
  BY <1>0b DEF Takes
<1>. DEFINE block == [first |-> f, pages |-> pages, size |-> size]
<1>3. /\ f \in Frames /\ f \in Int
      /\ f + pages \in 0..BitmapPages
      /\ Run(f, pages) \subseteq Frames
      /\ Run(f, pages) \cap bitmap = {}
  <2>1. TypeOK
    BY DEF IInv
  <2>. HIDE DEF pages
  <2>. QED
    BY <1>1, <2>1, FitIsFree, FramesAreInts
<1>4. FramesOf(block) = Run(f, pages)
  BY DEF FramesOf
<1>5. block \in [first : Frames, pages : Nat \ {0}, size : Sizes]
  BY <1>1, <1>3
<1>6. live' = live \cup {block}
  BY <1>2
<1>. HIDE DEF block, pages
<1>7. refused' = 0
  BY DEF Alloc
<1>8. TypeOK'
  BY <1>2, <1>3, <1>5, <1>6, <1>7 DEF IInv, TypeOK
<1>9. \A b \in live : FramesOf(b) \cap FramesOf(block) = {}
  BY <1>3, <1>4 DEF IInv, BitmapExact
<1>10. LiveDisjoint'
  BY <1>3, <1>4, <1>6, <1>9 DEF IInv, LiveDisjoint, FramesOf
<1>11. BitmapExact'
  BY <1>2, <1>4, <1>6 DEF IInv, BitmapExact, FramesOf
<1>. QED
  BY <1>8, <1>10, <1>11 DEF IInv

LEMMA ReleaseKeeps ==
    ASSUME IInv, NEW block \in live, Release(block)
    PROVE  IInv'
<1>1. /\ bitmap' = bitmap \ FramesOf(block)
      /\ live' = live \ {block}
      /\ last_alloc_page' = last_alloc_page
      /\ refused' = 0
  BY DEF Release, FramesOf
<1>2. TypeOK' /\ LiveDisjoint'
  BY <1>1 DEF IInv, TypeOK, LiveDisjoint, FramesOf
<1>3. \A b \in live' : FramesOf(b) \cap FramesOf(block) = {}
  BY <1>1 DEF IInv, LiveDisjoint
<1>4. BitmapExact'
  BY <1>1, <1>3 DEF IInv, BitmapExact, FramesOf
<1>. QED
  BY <1>1, <1>2, <1>4 DEF IInv

LEMMA IdleKeeps ==
    ASSUME IInv, UNCHANGED <<bitmap, last_alloc_page, live>>, refused' \in Nat
    PROVE  IInv'
BY DEF IInv, TypeOK, LiveDisjoint, BitmapExact, FramesOf

LEMMA Inductive == Spec => []IInv
<1>1. Init => IInv
  BY InitHolds
<1>2. IInv /\ [Next]_vars => IInv'
  <2>. SUFFICES ASSUME IInv, [Next]_vars
                PROVE  IInv'
    OBVIOUS
  <2>1. ASSUME NEW size \in Sizes, AllocNothing(size)
        PROVE  IInv'
    BY <2>1, IdleKeeps DEF AllocNothing
  <2>2. ASSUME NEW size \in Sizes, Alloc(size)
        PROVE  IInv'
    BY <2>2, AllocKeeps
  <2>3. ASSUME NEW size \in Sizes, AllocRefused(size)
        PROVE  IInv'
    <3>1. PagesNeeded(size) \in Nat
      BY <2>3, PagesAreInts DEF AllocRefused
    <3>. QED
      BY <2>3, <3>1, IdleKeeps DEF AllocRefused
  <2>4. ASSUME NEW block \in live, Release(block)
        PROVE  IInv'
    BY <2>4, ReleaseKeeps
  <2>5. CASE UNCHANGED vars
    BY <2>5, IdleKeeps DEF vars, IInv, TypeOK
  <2>. QED
    BY <2>1, <2>2, <2>3, <2>4, <2>5 DEF Next
<1>. QED
  BY <1>1, <1>2, PTL DEF Spec

(* Type correctness: also, last_alloc_page never leaves the bitmap.        *)
THEOREM TypeCorrect == Spec => []TypeOK
<1>1. IInv => TypeOK
  BY DEF IInv
<1>. QED
  BY <1>1, Inductive, PTL

(* What avmf_alloc_phys_contiguous hands out is the caller's own: no frame *)
(* is in two blocks, and every frame lies in a usable region.              *)
THEOREM LiveDisjointHolds == Spec => []LiveDisjoint
<1>1. IInv => LiveDisjoint
  BY DEF IInv
<1>. QED
  BY <1>1, Inductive, PTL

(* After any sequence of allocations and releases exactly the frames in    *)
(* use have their bit set: avmf_free gives back all a block took.          *)
THEOREM BitmapExactHolds == Spec => []BitmapExact
<1>1. IInv => BitmapExact
  BY DEF IInv
<1>. QED
  BY <1>1, Inductive, PTL

-----------------------------------------------------------------------------
(* The arithmetic of Align4k *)

(* Division is exact to within one page, and undoes a multiplication. *)
LEMMA DivBounds ==
    ASSUME NEW a \in Nat, NEW p \in Nat \ {0}
    PROVE  /\ a \div p \in Nat
           /\ (a \div p) * p <= a
           /\ a < (a \div p) * p + p
BY SMTT(30)

LEMMA DivTimes ==
    ASSUME NEW q \in Nat, NEW p \in Nat \ {0}
    PROVE  (q * p) \div p = q
BY SMTT(30)

LEMMA ModOnce ==
    ASSUME NEW a \in Nat, NEW w \in Nat \ {0}, a < 2 * w
    PROVE  a % w = IF a < w THEN a ELSE a - w
BY SMTT(30)

(* A size whose rounding does not overflow gets enough pages, any other    *)
(* gets none.                                                              *)
LEMMA PagesHoldSize ==
    ASSUME NEW size \in Sizes, PagesNeeded(size) > 0
    PROVE  size <= PagesNeeded(size) * PageSize
<1>. DEFINE p == PageSize
            up == (size + p) - 1
            a == up % Word
<1>1. /\ p \in Nat \ {0} /\ Word \in Nat \ {0} /\ p <= Word
      /\ size \in Nat /\ size < Word
  BY RegionsAssumption
<1>2. up \in Nat /\ up < 2 * Word
  BY <1>1
<1>3. a = IF up < Word THEN up ELSE up - Word
  BY <1>1, <1>2, ModOnce
<1>4. a \in Nat
  BY <1>1, <1>2, <1>3
<1>. DEFINE q == a \div p
<1>5. q \in Nat /\ q * p <= a /\ a < q * p + p
  BY <1>1, <1>4, DivBounds
<1>6. PagesNeeded(size) = q
  <2>1. (q * p) \div p = q
    BY <1>1, <1>5, DivTimes
  <2>. QED
    BY <2>1 DEF PagesNeeded, Align4k
<1>. HIDE DEF p, q, a
<1>7. CASE up < Word
  BY <1>1, <1>3, <1>5, <1>6, <1>7 DEF p
<1>8. CASE Word <= up
  <2>1. a < p
    BY <1>1, <1>3, <1>8
  <2>2. q \in Nat /\ q > 0 => p <= q * p
    BY <1>1, <1>5
  <2>. QED
    BY <1>1, <1>4, <1>5, <1>6, <2>1, <2>2
<1>. QED
  BY <1>2, <1>1, <1>7, <1>8

(* A block holds what its caller asked for, whatever the size is: a size   *)
(* in the last page of the address space is refused, not cut.              *)
THEOREM LargeEnoughHolds == Spec => []LargeEnough
<1>1. Init => LargeEnough
  BY DEF Init, LargeEnough
<1>2. LargeEnough /\ [Next]_vars => LargeEnough'
  <2>. SUFFICES ASSUME LargeEnough, [Next]_vars
                PROVE  LargeEnough'
    OBVIOUS
  <2>1. ASSUME NEW size \in Sizes, Alloc(size)
        PROVE  LargeEnough'
    <3>. DEFINE pages == PagesNeeded(size)
    <3>1. \E i \in DOMAIN Regions : \E f \in Fits(i, pages) : Takes(f, pages, size)
      BY <2>1 DEF Alloc, Takes
    <3>2. PICK f : live' = live \cup {[first |-> f, pages |-> pages, size |-> size]}
      BY <3>1 DEF Takes
    <3>3. size <= pages * PageSize
      BY <2>1, PagesHoldSize DEF Alloc
    <3>. HIDE DEF pages
    <3>. QED
      BY <3>2, <3>3 DEF LargeEnough
  <2>2. ASSUME NEW block \in live, Release(block)
        PROVE  LargeEnough'
    BY <2>2 DEF Release, LargeEnough
  <2>3. CASE UNCHANGED live
    BY <2>3 DEF LargeEnough
  <2>. QED
    BY <2>1, <2>2, <2>3 DEF Next, AllocNothing, AllocRefused, vars
<1>. QED
  BY <1>1, <1>2, PTL DEF Spec

-----------------------------------------------------------------------------
(* The search.  The loop is a recursive function of the frame it looks at  *)
(* and of run_len; what it computes is shown by downward induction on the  *)
(* frame, as the absence of a least counterexample.                        *)

LEMMA NatMin ==
    ASSUME NEW S \in SUBSET Nat, S # {}
    PROVE  \E m \in S : \A n \in S : m <= n
<1>1. IsWellFoundedOn(OpToRel(<, Nat), Nat)
  BY NatLessThanWellFounded
<1>2. PICK m \in S : \A n \in S : ~ (<<n, m>> \in OpToRel(<, Nat))
  BY <1>1, WFMin, Zenon
<1>3. ASSUME NEW n \in S PROVE m <= n
  <2>1. ~ (<<n, m>> \in OpToRel(<, Nat))
    BY <1>2
  <2>2. n < m => <<n, m>> \in OpToRel(<, Nat)
    BY DEF OpToRel
  <2>3. ~ (n < m)
    BY <2>1, <2>2, Zenon
  <2>. QED
    BY <2>3
<1>. QED
  BY <1>3

\* One turn of the loop of Scan, with s for the turns that follow.
Turn(end, pages, s) ==
    [p \in Nat |-> [run_len \in Nat |->
        IF p >= end THEN {}
        ELSE IF p \in bitmap THEN s[p + 1][0]
        ELSE IF run_len + 1 >= pages THEN {p - run_len}
        ELSE s[p + 1][run_len + 1]]]

LEMMA TurnAt ==
    ASSUME NEW end, NEW pages, NEW s, NEW p \in Nat, NEW r \in Nat
    PROVE  Turn(end, pages, s)[p][r] =
               IF p >= end THEN {}
               ELSE IF p \in bitmap THEN s[p + 1][0]
               ELSE IF r + 1 >= pages THEN {p - r}
               ELSE s[p + 1][r + 1]
BY DEF Turn

\* Turns that look at the same turns after them are the same.
LEMMA SameTurns ==
    ASSUME NEW end, NEW pages, NEW s, NEW t, NEW p \in Nat, s[p + 1] = t[p + 1]
    PROVE  Turn(end, pages, s)[p] = Turn(end, pages, t)[p]
BY DEF Turn

\* The recursion is well defined: the loop ends at the end of the region.
LEMMA ScanExists ==
    ASSUME NEW end \in Nat, NEW pages
    PROVE  \E s : s = Turn(end, pages, s)
<1> DEFINE Last(s, k) == \A p \in Nat : p + k >= end => s[p] = Turn(end, pages, s)[p]
           Bad == {k \in Nat : ~ \E s : Last(s, k)}
<1>1. \E s : Last(s, 0)
  <2>1. PICK s : s = [p \in Nat |-> [r \in Nat |-> {}]]
    OBVIOUS
  <2>2. ASSUME NEW p \in Nat, p >= end
        PROVE  s[p] = Turn(end, pages, s)[p]
    BY <2>1, <2>2 DEF Turn
  <2>. QED
    BY <2>2
<1>2. ASSUME NEW k \in Nat, NEW s, Last(s, k)
      PROVE  Last(Turn(end, pages, s), k + 1)
  <2>1. PICK t : t = Turn(end, pages, s)
    OBVIOUS
  <2>2. ASSUME NEW p \in Nat, p + (k + 1) >= end
        PROVE  t[p] = Turn(end, pages, t)[p]
    <3>1. s[p + 1] = t[p + 1]
      BY <1>2, <2>1, <2>2
    <3>2. Turn(end, pages, s)[p] = Turn(end, pages, t)[p]
      BY <3>1, SameTurns
    <3>. QED
      BY <2>1, <3>2
  <2>. QED
    BY <2>1, <2>2
<1>3. Bad = {}
  <2>. SUFFICES ASSUME Bad # {} PROVE FALSE
    OBVIOUS
  <2>1. PICK m \in Bad : \A k \in Bad : m <= k
    BY NatMin
  <2>2. m \in Nat /\ m # 0
    BY <1>1
  <2>3. PICK k \in Nat : m = k + 1
    BY <2>2
  <2>4. k \notin Bad
    <3>1. ~(m <= k)
      BY <2>3
    <3>. HIDE DEF Bad
    <3>. QED
      BY <2>1, <3>1
  <2>. HIDE DEF Last
  <2>. QED
    BY <1>2, <2>1, <2>3, <2>4
<1>4. PICK s : Last(s, end)
  BY <1>3
<1>5. PICK t : t = Turn(end, pages, s)
  OBVIOUS
<1>6. \A p \in Nat : t[p] = s[p]
  BY <1>4, <1>5
<1>7. t = Turn(end, pages, t)
  <2>1. \A p \in Nat : Turn(end, pages, s)[p] = Turn(end, pages, t)[p]
    BY <1>6, SameTurns
  <2>2. \A u : Turn(end, pages, u) = [p \in Nat |-> Turn(end, pages, u)[p]]
    BY DEF Turn
  <2>. QED
    BY <1>5, <2>1, <2>2
<1>. QED
  BY <1>7

FitsIn(first, end, pages) == {f \in first..(end - pages) : Run(f, pages) \cap bitmap = {}}

\* What the loop returns from the first frame on; Claim says what it returns
\* where it stands at frame p with run_len free frames behind it.
LEMMA ScanFinds ==
    ASSUME NEW end \in Nat, NEW first \in Nat, NEW pages \in Nat \ {0},
           NEW s, s = Turn(end, pages, s)
    PROVE  /\ s[first][0] \subseteq FitsIn(first, end, pages)
           /\ s[first][0] = {} => FitsIn(first, end, pages) = {}
           /\ \A f \in s[first][0], g \in FitsIn(first, end, pages) : f <= g
<1>0. PICK fits : fits = FitsIn(first, end, pages)
  OBVIOUS
<1> DEFINE Right(found) == /\ found \subseteq fits
                           /\ found = {} => fits = {}
                           /\ \A f \in found, g \in fits : f <= g
           Before(p, r) == /\ r < pages /\ first + r <= p
                           /\ \A q \in Nat : p - r <= q /\ q < p => q \notin bitmap
                           /\ \A g \in fits : p - r <= g
           Claim(p) == \A r \in Nat : Before(p, r) => Right(s[p][r])
<1>1. \A f : f \in fits <=> /\ f \in Nat /\ first <= f /\ f + pages <= end
                            /\ \A q \in Nat : f <= q /\ q < f + pages => q \notin bitmap
  BY <1>0 DEF Run, FitsIn
<1>2. ASSUME NEW p \in Nat, NEW r \in Nat
      PROVE  s[p][r] = IF p >= end THEN {}
                       ELSE IF p \in bitmap THEN s[p + 1][0]
                       ELSE IF r + 1 >= pages THEN {p - r}
                       ELSE s[p + 1][r + 1]
  <2>1. PICK t : t = Turn(end, pages, s)
    OBVIOUS
  <2>2. t[p][r] = IF p >= end THEN {}
                  ELSE IF p \in bitmap THEN s[p + 1][0]
                  ELSE IF r + 1 >= pages THEN {p - r}
                  ELSE s[p + 1][r + 1]
    BY <2>1 DEF Turn
  <2>. QED
    BY <2>1, <2>2
<1>3. ASSUME NEW p \in Nat, p >= end PROVE Claim(p)
  <2>. SUFFICES ASSUME NEW r \in Nat, Before(p, r) PROVE Right(s[p][r])
    OBVIOUS
  <2>1. fits = {}
    <3>1. \A g \in fits : g \in Nat /\ g + pages <= end /\ p - r <= g /\ r < pages
      BY <1>1
    <3>. QED
      BY <1>3, <3>1
  <2>2. s[p][r] = {}
    BY <1>2, <1>3
  <2>. QED
    BY <2>1, <2>2
<1>4. ASSUME NEW p \in Nat, p < end, Claim(p + 1) PROVE Claim(p)
  <2>. SUFFICES ASSUME NEW r \in Nat, Before(p, r) PROVE Right(s[p][r])
    OBVIOUS
  <2>0. s[p][r] = IF p \in bitmap THEN s[p + 1][0]
                  ELSE IF r + 1 >= pages THEN {p - r}
                  ELSE s[p + 1][r + 1]
    <3>1. ~(p >= end)
      BY <1>4
    <3>. QED
      BY <1>2, <3>1
  <2>1. CASE p \in bitmap
    <3>1. ASSUME NEW g \in fits PROVE p + 1 <= g
      <4>1. g \in Nat /\ p - r <= g /\ r < pages
        BY <1>1
      <4>2. ~(g <= p /\ p < g + pages)
        BY <1>1, <2>1
      <4>. QED
        BY <4>1, <4>2
    <3>2. Before(p + 1, 0)
      BY <3>1
    <3>3. s[p][r] = s[p + 1][0]
      BY <2>0, <2>1
    <3>. QED
      BY <1>4, <3>2, <3>3
  <2>2. CASE p \notin bitmap /\ r + 1 >= pages
    <3>1. r = pages - 1 /\ s[p][r] = {p - r}
      BY <2>0, <2>2
    <3>2. p - r \in fits
      <4>1. p - r \in Nat /\ first <= p - r /\ (p - r) + pages = p + 1 /\ p + 1 <= end
        BY <1>4, <3>1
      <4>2. ASSUME NEW q \in Nat, p - r <= q, q < (p - r) + pages PROVE q \notin bitmap
        <5>1. q = p \/ q < p
          BY <4>1, <4>2
        <5>. QED
          BY <2>2, <4>2, <5>1
      <4>. QED
        BY <1>1, <4>1, <4>2
    <3>. QED
      BY <3>1, <3>2
  <2>3. CASE p \notin bitmap /\ ~(r + 1 >= pages)
    <3>1. s[p][r] = s[p + 1][r + 1]
      BY <2>0, <2>3
    <3>2. Before(p + 1, r + 1)
      <4>1. ASSUME NEW q \in Nat, (p + 1) - (r + 1) <= q, q < p + 1 PROVE q \notin bitmap
        <5>1. p - r <= q /\ (q = p \/ q < p)
          BY <4>1
        <5>. QED
          BY <2>3, <5>1
      <4>2. ASSUME NEW g \in fits PROVE (p + 1) - (r + 1) <= g
        OBVIOUS
      <4>. QED
        BY <2>3, <4>1, <4>2
    <3>. QED
      BY <1>4, <3>1, <3>2
  <2>. QED
    BY <2>1, <2>2, <2>3
<1>. HIDE DEF Claim
<1> DEFINE Bad == {k \in Nat : \E p \in Nat : p + k >= end /\ ~Claim(p)}
<1>5. Bad = {}
  <2>. SUFFICES ASSUME Bad # {} PROVE FALSE
    OBVIOUS
  <2>1. PICK m \in Bad : \A k \in Bad : m <= k
    BY NatMin
  <2>2. PICK p \in Nat : p + m >= end /\ ~Claim(p)
    OBVIOUS
  <2>3. p < end
    BY <1>3, <2>2
  <2>4. m - 1 \in Nat /\ (p + 1) + (m - 1) >= end
    BY <2>2, <2>3
  <2>5. m - 1 \notin Bad
    <3>1. ~(m <= m - 1)
      BY <2>4
    <3>. HIDE DEF Bad
    <3>. QED
      BY <2>1, <3>1
  <2>6. Claim(p + 1)
    BY <2>4, <2>5
  <2>. QED
    BY <1>4, <2>2, <2>3, <2>6
<1>6. Claim(first)
  <2>1. end \in Nat /\ first + end >= end
    OBVIOUS
  <2>. QED
    BY <1>5, <2>1
<1>7. Before(first, 0)
  BY <1>1
<1>8. Right(s[first][0])
  BY <1>6, <1>7 DEF Claim
<1>. QED
  BY <1>0, <1>8

(* The loop finds a run exactly when there is one, and then the lowest: in *)
(* every region, for every bitmap and every place to start from.           *)
THEOREM ScanIsFirstFitHolds == Spec => []ScanIsFirstFit
<1>1. TypeOK => ScanIsFirstFit
  <2>. SUFFICES ASSUME TypeOK, NEW i \in DOMAIN Regions, NEW size \in Sizes,
                       PagesNeeded(size) > 0
                PROVE  /\ Scan(i, PagesNeeded(size)) \subseteq Fits(i, PagesNeeded(size))
                       /\ Scan(i, PagesNeeded(size)) = {} => Fits(i, PagesNeeded(size)) = {}
                       /\ \A f \in Scan(i, PagesNeeded(size)), g \in Fits(i, PagesNeeded(size)) : f <= g
    BY DEF ScanIsFirstFit
  <2>1. PICK pages \in Nat \ {0} : pages = PagesNeeded(size)
    BY PagesAreInts
  <2>2. EndPage(i) \in Nat /\ From(i) \in Nat
    <3>1. StartPage(i) \in Int /\ StartPage(i) > 0
      BY PagesAreInts, RegionsAssumption
    <3>2. From(i) \in Nat
      BY <3>1, RegionsAssumption DEF From, TypeOK
    <3>3. Regions[i].limit \in Nat
      <4>1. Regions[i] \in [base : Nat, limit : Nat]
        BY RegionsAssumption
      <4>. QED
        BY <4>1
    <3>4. EndPage(i) \in Nat
      BY <3>3, RegionsAssumption, DivBounds DEF EndPage
    <3>. QED
      BY <3>2, <3>4
  <2>3. PICK end \in Nat, first \in Nat : end = EndPage(i) /\ first = From(i)
    BY <2>2
  <2> DEFINE s == CHOOSE s : s = Turn(EndPage(i), pages, s)
  <2>4. s = Turn(end, pages, s)
    BY <2>3, ScanExists
  <2>5. Scan(i, pages) = s[first][0]
    BY <2>3 DEF Scan, Turn
  <2>. HIDE DEF s
  <2>6. Fits(i, pages) = FitsIn(first, end, pages)
    BY <2>3 DEF Fits, FitsIn
  <2>7. /\ s[first][0] \subseteq FitsIn(first, end, pages)
        /\ s[first][0] = {} => FitsIn(first, end, pages) = {}
        /\ \A f \in s[first][0], g \in FitsIn(first, end, pages) : f <= g
    BY <2>4, ScanFinds
  <2>. QED
    BY <2>1, <2>5, <2>6, <2>7
<1>. QED
  BY <1>1, TypeCorrect, PTL

-----------------------------------------------------------------------------
(* The refinement *)

(* Giving one block back removes its frames and nobody else's.             *)
LEMMA GiveOne ==
    ASSUME IInv, NEW block \in live
    PROVE  {FramesOf(b) : b \in live \ {block}}
             = {FramesOf(b) : b \in live} \ {FramesOf(block)}
<1>1. ASSUME NEW b \in live, b # block
      PROVE  FramesOf(b) # FramesOf(block)
  <2>1. FramesOf(b) \cap FramesOf(block) = {}
    BY <1>1 DEF IInv, LiveDisjoint
  <2>2. b.first \in FramesOf(b)
    <3>1. b.first \in Int /\ b.pages \in Int /\ b.pages > 0
      <4>1. b \in [first : Frames, pages : Nat \ {0}, size : Sizes]
        BY DEF IInv, TypeOK
      <4>2. b.first \in Frames /\ b.pages \in Nat \ {0}
        BY <4>1
      <4>3. b.first \in Int
        BY <4>2, FramesAreInts, Zenon
      <4>4. \A n \in Nat \ {0} : n \in Int /\ n > 0
        OBVIOUS
      <4>. QED
        BY <4>2, <4>3, <4>4, Zenon
    <3>. QED
      BY <3>1 DEF FramesOf, Run
  <2>. QED
    BY <2>1, <2>2
<1>. QED
  BY <1>1

LEMMA AllocIsTake ==
    ASSUME IInv, NEW size \in Sizes, Alloc(size)
    PROVE  Abstract!Next
<1>. DEFINE pages == PagesNeeded(size)
<1>1. pages \in Int /\ pages > 0
  BY PagesAreInts DEF Alloc
<1>0a. PICK i \in DOMAIN Regions : \E f \in Fits(i, pages) : Takes(f, pages, size)
  BY DEF Alloc, Takes
<1>0b. PICK f \in Fits(i, pages) : Takes(f, pages, size)
  BY <1>0a
<1>2. live' = live \cup {[first |-> f, pages |-> pages, size |-> size]}
  BY <1>0b DEF Takes
<1>. DEFINE block == [first |-> f, pages |-> pages, size |-> size]
            last == f + pages - 1
<1>3. /\ f \in Frames /\ f \in Int
      /\ f + pages \in 0..BitmapPages
      /\ Run(f, pages) \subseteq Frames
      /\ Run(f, pages) \cap bitmap = {}
  <2>1. TypeOK
    BY DEF IInv
  <2>. HIDE DEF pages
  <2>. QED
    BY <1>1, <2>1, FitIsFree, FramesAreInts
<1>4. FramesOf(block) = f..last
  BY <1>1, <1>3 DEF FramesOf, Run
<1>5. f <= last /\ f \in Frames /\ last \in Frames
  <2>1. f <= last /\ f \in f..last /\ last \in f..last
    BY <1>1, <1>3
  <2>2. Run(f, pages) = f..last
    BY <1>1, <1>3 DEF Run
  <2>. QED
    BY <2>1, <2>2, <1>3
<1>6. live' = live \cup {block}
  BY <1>2
<1>7. FramesOf(block) \subseteq Frames /\ FramesOf(block) \cap bitmap = {}
  BY <1>3 DEF FramesOf
<1>. HIDE DEF block, pages, last
<1>8. \A other \in {FramesOf(b) : b \in live} : other \cap (f..last) = {}
  BY <1>4, <1>7 DEF IInv, BitmapExact
<1>9. {FramesOf(b) : b \in live}' = {FramesOf(b) : b \in live} \cup {f..last}
  BY <1>4, <1>6 DEF FramesOf
<1>10. Abstract!Take(f..last)
  BY <1>4, <1>7, <1>8, <1>9 DEF Abstract!Take
<1>. QED
  BY <1>5, <1>10 DEF Abstract!Next

(* For every table of regions the bitmap allocator implements              *)
(* FrameAllocator: an allocation takes free frames, a release gives one    *)
(* block back, and a refused or empty request changes nothing.             *)
THEOREM FramesImplemented == Spec => ImplementsFrames
<1>1. Init => Abstract!Init
  BY DEF Init, Abstract!Init
<1>2. IInv /\ [Next]_vars => [Abstract!Next]_({FramesOf(b) : b \in live})
  <2>. SUFFICES ASSUME IInv, [Next]_vars
                PROVE  \/ Abstract!Next
                       \/ {FramesOf(b) : b \in live}' = {FramesOf(b) : b \in live}
    OBVIOUS
  <2>1. ASSUME UNCHANGED live
        PROVE  {FramesOf(b) : b \in live}' = {FramesOf(b) : b \in live}
    BY <2>1 DEF FramesOf
  <2>2. ASSUME NEW size \in Sizes, AllocNothing(size) \/ AllocRefused(size)
        PROVE  UNCHANGED live
    BY <2>2 DEF AllocNothing, AllocRefused
  <2>3. ASSUME NEW size \in Sizes, Alloc(size)
        PROVE  Abstract!Next
    BY <2>3, AllocIsTake
  <2>4. ASSUME NEW block \in live, Release(block)
        PROVE  Abstract!Next
    <3>1. {FramesOf(b) : b \in live}' = {FramesOf(b) : b \in live \ {block}}
      BY <2>4 DEF Release, FramesOf
    <3>2. Abstract!Give(FramesOf(block))
      BY <3>1, GiveOne DEF Abstract!Give
    <3>. QED
      BY <3>2 DEF Abstract!Next
  <2>5. CASE UNCHANGED vars
    BY <2>1, <2>5 DEF vars
  <2>. QED
    BY <2>1, <2>2, <2>3, <2>4, <2>5 DEF Next
<1>. QED
  BY <1>1, <1>2, Inductive, PTL DEF Spec, ImplementsFrames, Abstract!Spec
=============================================================================
