-------------------------- MODULE PageTablesProofs --------------------------
(* Proof that the tree of page tables translates every page as the calls of *)
(* pager_map_range and pager_unmap add up to, and that every walk of        *)
(* pager_map stands on tables, for tables of any size and any number of     *)
(* processors.                                                              *)
EXTENDS PageTables, WellFoundedInduction, TLAPS

-----------------------------------------------------------------------------
(* Numbers.  Two pages are below one entry of a table of level k iff they  *)
(* are in one slot of Span[k] pages.                                       *)

SameSlot(p, q, k) == p \div Span[k] = q \div Span[k]

LEMMA NatMin ==
    ASSUME NEW S \in SUBSET Nat, S # {}
    PROVE  \E m \in S : \A n \in S : m <= n
<1>1. IsWellFoundedOn(OpToRel(<, Nat), Nat)
  BY NatLessThanWellFounded
<1>2. PICK m \in S : \A n \in S : ~ (<<n, m>> \in OpToRel(<, Nat))
  BY <1>1, WFMin, Zenon
<1>3. ASSUME NEW n \in S PROVE m <= n
  <2>1. ~ (<<n, m>> \in OpToRel(<, Nat))
    BY <1>2
  <2>2. n < m => <<n, m>> \in OpToRel(<, Nat)
    BY DEF OpToRel
  <2>3. ~ (n < m)
    BY <2>1, <2>2, Zenon
  <2> QED
    BY <2>3
<1> QED
  BY <1>3

LEMMA RootIsFrame == root \in Frames
<1>1. \E f \in Frames : \A g \in Frames : f <= g
  BY NatMin, PagingAssumption
<1> QED
  BY <1>1 DEF root

LEMMA DivBounds ==
    ASSUME NEW a \in Nat, NEW n \in Nat \ {0}
    PROVE  /\ a \div n \in Nat /\ a % n \in 0..(n - 1)
           /\ a = n * (a \div n) + (a % n)
<1>1. a \div n \in Nat /\ a % n \in 0..(n - 1)
  BY SMTT(30)
<1>2. a = n * (a \div n) + (a % n)
  BY SMTT(30)
<1> QED
  BY <1>1, <1>2

LEMMA DivUnique ==
    ASSUME NEW n \in Nat \ {0}, NEW q \in Nat, NEW r \in 0..(n - 1), NEW a \in Nat,
           a = n * q + r
    PROVE  a \div n = q /\ a % n = r
BY SMTT(30)

\* Dividing twice is dividing by the product.
LEMMA DivDiv ==
    ASSUME NEW a \in Nat, NEW m \in Nat \ {0}, NEW n \in Nat \ {0}
    PROVE  a \div (m * n) = (a \div m) \div n
<1> DEFINE q == a \div m
           r == a % m
           u == q \div n
           v == q % n
<1>1. /\ q \in Nat /\ r \in 0..(m - 1) /\ a = m * q + r
      /\ u \in Nat /\ v \in 0..(n - 1) /\ q = n * u + v
  BY DivBounds
<1> HIDE DEF q, r, u, v
<1>2. a = (m * n) * u + (m * v + r)
  BY <1>1
<1>3. m * v + r \in 0..(m * n - 1)
  <2>1. v <= n - 1 /\ v \in Nat /\ r \in Nat /\ r <= m - 1
    BY <1>1
  <2>2. m * v <= m * (n - 1)
    BY <2>1
  <2>3. m * (n - 1) = m * n - m
    OBVIOUS
  <2>4. m * v \in Nat
    BY <2>1
  <2> QED
    BY <2>1, <2>2, <2>3, <2>4
<1>4. m * n \in Nat \ {0}
  OBVIOUS
<1>5. a \div (m * n) = u
  BY <1>1, <1>2, <1>3, <1>4, DivUnique
<1> QED
  BY <1>5 DEF u, q

LEMMA SpanValues ==
    /\ Fan \in Nat /\ Fan > 1
    /\ Span[1] = 1 /\ Span[2] = Fan
    /\ \A l \in 1..5 : Span[l] \in Nat \ {0}
    /\ \A l \in 1..4 : Span[l + 1] = Span[l] * Fan
<1>1. Fan \in Nat /\ Fan > 1
  BY PagingAssumption
<1>2. /\ Fan * Fan \in Nat \ {0} /\ Fan * Fan * Fan \in Nat \ {0}
      /\ Fan * Fan * Fan * Fan \in Nat \ {0}
  <2>1. \A m, n \in Nat \ {0} : m * n \in Nat \ {0}
    OBVIOUS
  <2> QED
    BY <1>1, <2>1
<1>3. /\ Span[1] = 1 /\ Span[2] = Fan /\ Span[3] = Fan * Fan /\ Span[4] = Fan * Fan * Fan
      /\ Span[5] = Fan * Fan * Fan * Fan
  BY DEF Span
<1> QED
  BY <1>1, <1>2, <1>3

LEMMA PagesAreNat == Pages \subseteq Nat
  BY SpanValues DEF Pages

\* The entry of a page is found from the slot below it.
LEMMA SlotStep ==
    ASSUME NEW p \in Pages, NEW l \in 1..4
    PROVE  /\ p \div Span[l] \in Nat
           /\ Index(p, l) \in 0..(Fan - 1)
           /\ p \div Span[l] = Fan * (p \div Span[l + 1]) + Index(p, l)
<1>1. p \in Nat /\ Span[l] \in Nat \ {0} /\ Fan \in Nat \ {0}
  BY SpanValues, PagesAreNat
<1>2. p \div Span[l] \in Nat
  BY <1>1, DivBounds
<1>3. p \div Span[l + 1] = (p \div Span[l]) \div Fan
  <2>1. p \div (Span[l] * Fan) = (p \div Span[l]) \div Fan
    BY <1>1, DivDiv
  <2>2. Span[l + 1] = Span[l] * Fan
    BY SpanValues
  <2> QED
    BY <2>1, <2>2
<1> QED
  BY <1>1, <1>2, <1>3, DivBounds DEF Index

LEMMA SlotSplit ==
    ASSUME NEW p \in Pages, NEW q \in Pages, NEW l \in 1..4
    PROVE  SameSlot(p, q, l) <=> SameSlot(p, q, l + 1) /\ Index(p, l) = Index(q, l)
<1>1. SameSlot(p, q, l) => SameSlot(p, q, l + 1) /\ Index(p, l) = Index(q, l)
  <2>1. /\ p \div Span[l + 1] = (p \div Span[l]) \div Fan
        /\ q \div Span[l + 1] = (q \div Span[l]) \div Fan
    <3>1. ASSUME NEW r \in Pages PROVE r \div Span[l + 1] = (r \div Span[l]) \div Fan
      <4>1. r \div (Span[l] * Fan) = (r \div Span[l]) \div Fan
        BY DivDiv, SpanValues, PagesAreNat
      <4>2. Span[l + 1] = Span[l] * Fan
        BY SpanValues
      <4> QED
        BY <4>1, <4>2
    <3> QED
      BY <3>1
  <2> QED
    BY <2>1 DEF SameSlot, Index
<1>2. SameSlot(p, q, l + 1) /\ Index(p, l) = Index(q, l) => SameSlot(p, q, l)
  BY SlotStep DEF SameSlot
<1> QED
  BY <1>1, <1>2

LEMMA OneSpace == ASSUME NEW p \in Pages, NEW q \in Pages PROVE SameSlot(p, q, 5)
<1>1. ASSUME NEW r \in Pages PROVE r \div Span[5] = 0
  <2>1. r \in 0..(Span[5] - 1) /\ Span[5] \in Nat \ {0}
    BY SpanValues DEF Pages
  <2> QED
    BY <2>1, DivUnique
<1> QED
  BY <1>1 DEF SameSlot

LEMMA LowSlots ==
    ASSUME NEW p \in Pages, NEW q \in Pages
    PROVE  /\ SameSlot(p, q, 1) <=> p = q
           /\ p % Span[1] = 0
           /\ SameSlot(p, q, 2) /\ q % Fan = 0 =>
                p \in Run(q, Fan) /\ p % Span[2] = p - q
           /\ q % Fan = 0 /\ p \in Run(q, Fan) => SameSlot(p, q, 2)
<1>1. p \in Nat /\ q \in Nat /\ Fan \in Nat \ {0} /\ Span[1] = 1 /\ Span[2] = Fan
  BY SpanValues, PagesAreNat
<1>2. /\ p = Fan * (p \div Fan) + (p % Fan) /\ p % Fan \in 0..(Fan - 1) /\ p \div Fan \in Nat
      /\ q = Fan * (q \div Fan) + (q % Fan) /\ q \div Fan \in Nat
  BY <1>1, DivBounds
<1>3. SameSlot(p, q, 1) <=> p = q
  BY <1>1 DEF SameSlot
<1>4. p % Span[1] = 0
  BY <1>1
<1>5. SameSlot(p, q, 2) /\ q % Fan = 0 => p \in Run(q, Fan) /\ p % Span[2] = p - q
  BY <1>1, <1>2 DEF SameSlot, Run
<1>6. ASSUME q % Fan = 0, p \in Run(q, Fan) PROVE SameSlot(p, q, 2)
  <2>1. p - q \in 0..(Fan - 1)
    BY <1>1, <1>6 DEF Run
  <2>2. PICK u \in Nat, r \in 0..(Fan - 1) : u = q \div Fan /\ r = p - q
    BY <1>2, <2>1
  <2>3. q = Fan * u
    BY <1>1, <1>2, <1>6, <2>2
  <2>4. p = Fan * u + r
    BY <1>1, <2>2, <2>3
  <2>5. p \div Fan = u
    BY <1>1, <2>4, DivUnique
  <2> QED
    BY <1>1, <2>2, <2>5 DEF SameSlot
<1> QED
  BY <1>3, <1>4, <1>5, <1>6

-----------------------------------------------------------------------------
(* The way to a page. *)

LEMMA Way ==
    ASSUME NEW p
    PROVE  /\ TableOn(p, 4) = {root}
           /\ \A l \in 1..3 : \A f : f \in TableOn(p, l) <=>
                \E t \in TableOn(p, l + 1) : LET e == table[t][Index(p, l + 1)]
                                             IN  e.present /\ ~e.huge /\ f = e.frame
<1>1. /\ TableOn(p, 4) = {root} /\ TableOn(p, 3) = Under(TableOn(p, 4), p, 4)
      /\ TableOn(p, 2) = Under(TableOn(p, 3), p, 3) /\ TableOn(p, 1) = Under(TableOn(p, 2), p, 2)
  BY DEF TableOn, Pt, Pd, Pdpt
<1>2. ASSUME NEW tables, NEW l, NEW f
      PROVE  f \in Under(tables, p, l) <=>
                \E t \in tables : LET e == table[t][Index(p, l)]
                                  IN  e.present /\ ~e.huge /\ f = e.frame
  BY DEF Under
<1>3. ASSUME NEW l \in 1..3 PROVE TableOn(p, l) = Under(TableOn(p, l + 1), p, l + 1)
  BY <1>1
<1> QED
  BY <1>1, <1>2, <1>3

LEMMA WayNext ==
    ASSUME NEW p
    PROVE  /\ TableOn(p, 4)' = {root}
           /\ \A l \in 1..3 : \A f : f \in TableOn(p, l)' <=>
                \E t \in TableOn(p, l + 1)' : LET e == table'[t][Index(p, l + 1)]
                                              IN  e.present /\ ~e.huge /\ f = e.frame
<1>1. /\ TableOn(p, 4)' = {root} /\ TableOn(p, 3)' = Under(TableOn(p, 4), p, 4)'
      /\ TableOn(p, 2)' = Under(TableOn(p, 3), p, 3)' /\ TableOn(p, 1)' = Under(TableOn(p, 2), p, 2)'
  BY DEF TableOn, Pt, Pd, Pdpt
<1>2. ASSUME NEW l \in 2..4, NEW f
      PROVE  f \in Under(TableOn(p, l), p, l)' <=>
                \E t \in TableOn(p, l)' : LET e == table'[t][Index(p, l)]
                                          IN  e.present /\ ~e.huge /\ f = e.frame
  BY DEF Under
<1>3. ASSUME NEW l \in 1..3 PROVE TableOn(p, l)' = Under(TableOn(p, l + 1), p, l + 1)'
  BY <1>1
<1> QED
  BY <1>1, <1>2, <1>3

\* On a way there is at most one table of each level, and pages of one slot
\* share it.
LEMMA OneTable ==
    ASSUME NEW p \in Pages, NEW q \in Pages, NEW l \in 1..4,
           NEW t \in TableOn(p, l), SameSlot(p, q, l + 1)
    PROVE  TableOn(q, l) = {t}
<1> DEFINE Same(k) == \A a, b \in Pages : SameSlot(a, b, k + 1) =>
                         \A u \in TableOn(a, k) : TableOn(b, k) = {u}
<1>1. Same(4)
  BY Way
<1>2. ASSUME NEW k \in 1..3, Same(k + 1) PROVE Same(k)
  <2> SUFFICES ASSUME NEW a \in Pages, NEW b \in Pages, SameSlot(a, b, k + 1),
                      NEW u \in TableOn(a, k)
               PROVE  TableOn(b, k) = {u}
    OBVIOUS
  <2>1. SameSlot(a, b, k + 2) /\ Index(a, k + 1) = Index(b, k + 1)
    BY SlotSplit
  <2>2. PICK w \in TableOn(a, k + 1) :
          LET e == table[w][Index(a, k + 1)] IN e.present /\ ~e.huge /\ u = e.frame
    BY Way
  <2>3. TableOn(b, k + 1) = {w}
    BY <1>2, <2>1, <2>2
  <2>4. \A f : f \in TableOn(b, k) <=> LET e == table[w][Index(b, k + 1)]
                                       IN  e.present /\ ~e.huge /\ f = e.frame
    BY <2>3, Way
  <2> QED
    BY <2>1, <2>2, <2>4
<1>3. Same(3)
  BY <1>1, <1>2
<1>4. Same(2)
  BY <1>2, <1>3
<1>5. Same(1)
  BY <1>2, <1>4
<1>6. Same(l)
  BY <1>1, <1>3, <1>4, <1>5
<1> QED
  BY <1>6

\* The entry of table t for page p is a link to a table f.
Leads(t, p, l, f) == LET e == table[t][Index(p, l)]
                     IN  e.present /\ ~e.huge /\ f = e.frame

\* When every entry on the way to a page leads where it led, so does the way.
LEMMA SameTree ==
    ASSUME \A p \in Pages, l \in 2..4 : \A t \in TableOn(p, l) : \A f :
              Leads(t, p, l, f)' <=> Leads(t, p, l, f)
    PROVE  \A p \in Pages, l \in 1..4 : TableOn(p, l)' = TableOn(p, l)
<1> SUFFICES ASSUME NEW p \in Pages PROVE \A l \in 1..4 : TableOn(p, l)' = TableOn(p, l)
  OBVIOUS
<1>1. TableOn(p, 4)' = TableOn(p, 4)
  BY Way, WayNext
<1>2. ASSUME NEW l \in 1..3, TableOn(p, l + 1)' = TableOn(p, l + 1)
      PROVE  TableOn(p, l)' = TableOn(p, l)
  <2>1. \A f : f \in TableOn(p, l) <=> \E t \in TableOn(p, l + 1) : Leads(t, p, l + 1, f)
    BY Way DEF Leads
  <2>2. \A f : f \in TableOn(p, l)' <=> \E t \in TableOn(p, l + 1) : Leads(t, p, l + 1, f)'
    BY <1>2, WayNext DEF Leads
  <2>3. \A t \in TableOn(p, l + 1) : \A f : Leads(t, p, l + 1, f)' <=> Leads(t, p, l + 1, f)
    OBVIOUS
  <2> QED
    BY <2>1, <2>2, <2>3
<1>3. TableOn(p, 3)' = TableOn(p, 3)
  BY <1>1, <1>2
<1>4. TableOn(p, 2)' = TableOn(p, 2)
  BY <1>2, <1>3
<1>5. TableOn(p, 1)' = TableOn(p, 1)
  BY <1>2, <1>4
<1> QED
  BY <1>1, <1>3, <1>4, <1>5

\* A table has one place in the tree.
OnePlace == \A p, q \in Pages, l, m \in 1..4 :
               TableOn(p, l) \cap TableOn(q, m) # {} => l = m /\ SameSlot(p, q, l + 1)

\* A link to an empty table, in an entry that was not present, adds that
\* table to the ways of the pages below the entry and changes no other way.
LEMMA InstallTree ==
    ASSUME OnePlace, NEW v \in Pages, NEW lv \in 2..4, NEW cur, NEW new,
           TableOn(v, lv) = {cur}, ~table[cur][Index(v, lv)].present,
           table'[cur][Index(v, lv)] = Link(new),
           \A i \in 0..(Fan - 1) : table'[new][i] = Absent,
           \A p \in Pages, l \in 2..4 : \A t \in TableOn(p, l) :
              t # cur \/ Index(p, l) # Index(v, lv)
                 => table'[t][Index(p, l)] = table[t][Index(p, l)]
    PROVE  \A p \in Pages, l \in 1..4 :
              /\ l < lv /\ SameSlot(p, v, lv) =>
                    TableOn(p, l) = {} /\ TableOn(p, l)' = IF l = lv - 1 THEN {new} ELSE {}
              /\ ~(l < lv /\ SameSlot(p, v, lv)) => TableOn(p, l)' = TableOn(p, l)
<1> DEFINE Below(p, l) == l < lv /\ SameSlot(p, v, lv)
           Claim(p, l) ==
             /\ Below(p, l) =>
                   TableOn(p, l) = {} /\ TableOn(p, l)' = IF l = lv - 1 THEN {new} ELSE {}
             /\ ~Below(p, l) => TableOn(p, l)' = TableOn(p, l)
<1> SUFFICES ASSUME NEW p \in Pages PROVE \A l \in 1..4 : Claim(p, l)
  OBVIOUS
<1>1. Claim(p, 4)
  <2>1. TableOn(p, 4)' = TableOn(p, 4)
    BY Way, WayNext
  <2>2. ~Below(p, 4)
    OBVIOUS
  <2> QED
    BY <2>1, <2>2
<1>2. ASSUME NEW l \in 1..3, Claim(p, l + 1) PROVE Claim(p, l)
  <2>1. \A f : f \in TableOn(p, l) <=> \E t \in TableOn(p, l + 1) : Leads(t, p, l + 1, f)
    BY Way DEF Leads
  <2>2. \A f : f \in TableOn(p, l)' <=> \E t \in TableOn(p, l + 1)' : Leads(t, p, l + 1, f)'
    BY WayNext DEF Leads
  <2>3. ASSUME Below(p, l), l = lv - 1
        PROVE  TableOn(p, l) = {} /\ TableOn(p, l)' = {new}
    <3>1. SameSlot(v, p, lv + 1) /\ Index(p, lv) = Index(v, lv)
      BY <2>3, SlotSplit DEF SameSlot
    <3>2. TableOn(p, lv) = {cur}
      BY <3>1, OneTable
    <3>3. TableOn(p, lv)' = {cur}
      BY <1>2, <2>3, <3>2
    <3>4. \A f : ~Leads(cur, p, lv, f) /\ (Leads(cur, p, lv, f)' <=> f = new)
      BY <3>1 DEF Leads, Link
    <3> QED
      BY <2>1, <2>2, <2>3, <3>2, <3>3, <3>4
  <2>4. ASSUME Below(p, l), l # lv - 1
        PROVE  TableOn(p, l) = {} /\ TableOn(p, l)' = {}
    <3>1. Below(p, l + 1)
      BY <2>4
    <3>2. TableOn(p, l + 1) = {} /\ TableOn(p, l + 1)' \subseteq {new}
      BY <1>2, <3>1
    <3>3. Index(p, l + 1) \in 0..(Fan - 1)
      BY SlotStep
    <3>4. \A f : ~ (Leads(new, p, l + 1, f)')
      BY <3>3 DEF Leads, Absent
    <3> QED
      BY <2>1, <2>2, <3>2, <3>4
  <2>5. ASSUME ~Below(p, l) PROVE TableOn(p, l)' = TableOn(p, l)
    <3>1. TableOn(p, l + 1)' = TableOn(p, l + 1)
      BY <1>2, <2>5
    <3>2. ASSUME NEW t \in TableOn(p, l + 1), NEW f
          PROVE  Leads(t, p, l + 1, f)' <=> Leads(t, p, l + 1, f)
      <4>1. t # cur \/ Index(p, l + 1) # Index(v, lv)
        <5> SUFFICES ASSUME t = cur, Index(p, l + 1) = Index(v, lv) PROVE FALSE
          OBVIOUS
        <5>1. TableOn(p, l + 1) \cap TableOn(v, lv) # {}
          OBVIOUS
        <5>2. l + 1 = lv /\ SameSlot(p, v, lv + 1)
          BY <5>1 DEF OnePlace
        <5>3. SameSlot(p, v, lv)
          BY <5>2, SlotSplit
        <5> QED
          BY <2>5, <5>2, <5>3
      <4>2. table'[t][Index(p, l + 1)] = table[t][Index(p, l + 1)]
        BY <4>1
      <4> QED
        BY <4>2 DEF Leads
    <3> QED
      BY <2>1, <2>2, <3>1, <3>2
  <2> QED
    BY <2>3, <2>4, <2>5
<1>3. Claim(p, 3)
  BY <1>1, <1>2
<1>4. Claim(p, 2)
  BY <1>2, <1>3
<1>5. Claim(p, 1)
  BY <1>2, <1>4
<1> QED
  BY <1>1, <1>3, <1>4, <1>5

-----------------------------------------------------------------------------
(* The invariant.  A walk stands on a table of the tree only as long as no *)
(* entry above it is overwritten: not by a link, which would have raced,   *)
(* and not by a huge page, because the pages below a huge entry are all of *)
(* one call that still has to map them, while below a link there is always *)
(* a page that was given out and that nobody still has to map.             *)

Entries == [present : BOOLEAN, huge : BOOLEAN, frame : Nat]
Calls == [virt : Nat, phys : Nat, size : Nat, offset : Nat, level : 1..4,
          cur : Nat, new : Nat]

Types ==
    /\ DOMAIN table \subseteq Nat
    /\ table \in [DOMAIN table -> [0..(Fan - 1) -> Entries]]
    /\ heap_ptr \in Nat
    /\ pc \in [Mappers -> {"idle", "walk", "install"}]
    /\ arg \in [Mappers -> Calls]
    /\ blocks \subseteq [virt : Nat, phys : Nat, size : Nat]
    /\ raced \in BOOLEAN /\ oom \in BOOLEAN

Busy(c) == pc[c] # "idle"
Held(c) == Run(arg[c].phys, arg[c].size)
Kept(b) == Run(b.phys, b.size)
Left(c) == Run(Virt(c), arg[c].size - arg[c].offset)

\* The frames of calls and blocks are in use once, and hold no table.
FramesInv ==
    /\ root \in DOMAIN table /\ DOMAIN table \subseteq taken
    /\ \A c \in Mappers : Busy(c) => Held(c) \subseteq taken \ DOMAIN table
    /\ \A b \in blocks : Kept(b) \subseteq taken \ DOMAIN table
    /\ \A c, d \in Mappers : Busy(c) /\ Busy(d) /\ c # d => Held(c) \cap Held(d) = {}
    /\ \A c \in Mappers, b \in blocks : Busy(c) => Held(c) \cap Kept(b) = {}
    /\ \A b, d \in blocks : b # d => Kept(b) \cap Kept(d) = {}

BlocksInv == \A b \in blocks : b.virt \in Pages

\* A call is within the pages given out, and its walk above its leaf.
CallInv ==
    \A c \in Mappers : Busy(c) =>
        /\ arg[c].offset < arg[c].size
        /\ arg[c].virt + arg[c].size <= heap_ptr
        /\ arg[c].virt + arg[c].size <= LastPage + 1
        /\ pc[c] = "walk" => arg[c].level >= LeafLevel(c)
        /\ pc[c] = "install" => arg[c].level > LeafLevel(c)

WalkInv == \A c \in Mappers : Busy(c) => TableOn(Virt(c), arg[c].level) = {arg[c].cur}

\* A table that is not yet linked is empty, not in the tree and of one call.
NewInv ==
    \A c \in Mappers : pc[c] = "install" =>
        /\ arg[c].new \in DOMAIN table /\ table[arg[c].new] = Zeroed
        /\ \A p \in Pages, l \in 1..4 : arg[c].new \notin TableOn(p, l)
        /\ \A d \in Mappers : d # c /\ pc[d] = "install" => arg[c].new # arg[d].new

AloneInv == \A c, d \in Mappers : Busy(c) /\ Busy(d) /\ c # d => Left(c) \cap Left(d) = {}

TreeInv == \A p \in Pages, l \in 1..4 : TableOn(p, l) \subseteq DOMAIN table

\* A huge entry, present or not, is of level 2, and no call still has to map
\* a page below it.
HugeInv ==
    \A q \in Pages, l \in 2..4 : \A t \in TableOn(q, l) :
        table[t][Index(q, l)].huge =>
            /\ l = 2 /\ q < heap_ptr
            /\ \A c \in Mappers : Busy(c) => q \notin Left(c)

\* Below a link of level 2 is a page that was given out and that no call
\* still has to map, unless the call maps it now and with an entry of its own.
LinkInv ==
    \A q \in Pages : \A t \in TableOn(q, 2) :
        table[t][Index(q, 2)].present /\ ~table[t][Index(q, 2)].huge =>
            \E r \in Pages :
                /\ SameSlot(r, q, 2) /\ r < heap_ptr
                /\ \A c \in Mappers : Busy(c) /\ r \in Left(c) => r = Virt(c) /\ ~Huge(c)

SpaceInv == \A p \in Pages : Translation(p) = IF p \in DOMAIN space THEN {space[p]} ELSE {}

Tree == FramesInv /\ BlocksInv /\ CallInv /\ WalkInv /\ NewInv /\ AloneInv /\ TreeInv /\ OnePlace
          /\ HugeInv /\ LinkInv /\ SpaceInv
IInv == Types /\ (Sound => Tree)

-----------------------------------------------------------------------------
(* A call *)

LEMMA HugeInNumbers ==
    ASSUME NEW c \in Mappers, arg[c] \in Calls
    PROVE  LeafLevel(c) \in {1, 2} /\ (LeafLevel(c) = 2 <=> Huge(c))
BY DEF LeafLevel

\* The page a call stands at is left to map, and in the address space.
LEMMA PageOfCall ==
    ASSUME Types, CallInv, NEW c \in Mappers, Busy(c)
    PROVE  /\ Virt(c) \in Pages /\ Virt(c) \in Left(c)
           /\ \A p \in Left(c) : p \in Pages /\ p < heap_ptr
<1>1. arg[c] \in Calls
  BY DEF Types
<1>2. /\ arg[c].virt \in Nat /\ arg[c].size \in Nat /\ arg[c].offset \in Nat
      /\ arg[c].offset < arg[c].size /\ arg[c].virt + arg[c].size <= heap_ptr
      /\ arg[c].virt + arg[c].size <= LastPage + 1 /\ heap_ptr \in Nat
  BY <1>1 DEF CallInv, Calls, Types
<1>3. LastPage \in 0..(Span[5] - 1) /\ Span[5] \in Nat
  BY PagingAssumption, SpanValues DEF Pages
<1> QED
  BY <1>2, <1>3 DEF Virt, Left, Run, Pages

\* A call with the same locals has the same pages and frames.
LEMMA OtherCall ==
    ASSUME NEW c, arg'[c] = arg[c], pc'[c] = pc[c]
    PROVE  /\ Busy(c)' = Busy(c) /\ Held(c)' = Held(c) /\ Left(c)' = Left(c)
           /\ Virt(c)' = Virt(c) /\ Huge(c)' = Huge(c) /\ LeafLevel(c)' = LeafLevel(c)
BY DEF Busy, Held, Left, Virt, Huge, LeafLevel, Run, Phys

\* What a page is translated to follows from the entries on its way.
LEMMA SameTarget ==
    ASSUME NEW p, \A l \in {1, 2} : TableOn(p, l)' = TableOn(p, l),
           \A l \in {1, 2} : \A t \in TableOn(p, l) :
              table'[t][Index(p, l)] = table[t][Index(p, l)]
    PROVE  Target(p)' = Target(p) /\ Translation(p)' = Translation(p)
<1>1. Target(p)' = Target(p)
  BY DEF Target
<1>2. \A e \in Target(p) : e.level \in {1, 2} /\ e.table \in TableOn(p, e.level)
  BY DEF Target
<1>3. \A e \in Target(p) : table'[e.table][Index(p, e.level)] = table[e.table][Index(p, e.level)]
  BY <1>2
<1> QED
  BY <1>1, <1>3 DEF Translation

\* With the tables untouched, so is the tree.
LEMMA TableStays ==
    ASSUME table' = table
    PROVE  /\ \A p \in Pages, l \in 1..4 : TableOn(p, l)' = TableOn(p, l)
           /\ \A p \in Pages : Translation(p)' = Translation(p)
<1>1. \A p \in Pages, l \in 1..4 : TableOn(p, l)' = TableOn(p, l)
  <2>1. \A p \in Pages, l \in 2..4 : \A t \in TableOn(p, l) : \A f :
           Leads(t, p, l, f)' <=> Leads(t, p, l, f)
    BY DEF Leads
  <2> QED
    BY <2>1, SameTree
<1>2. ASSUME NEW p \in Pages PROVE Translation(p)' = Translation(p)
  <2>1. \A l \in {1, 2} : TableOn(p, l)' = TableOn(p, l)
    BY <1>1
  <2> QED
    BY <2>1, SameTarget
<1> QED
  BY <1>1, <1>2

-----------------------------------------------------------------------------
(* The steps *)

LEMMA BeginKeeps ==
    ASSUME Types, Tree, NEW c \in Mappers, NEW n \in Sizes, Begin(c, n)
    PROVE  Types' /\ Tree'
<1> USE DEF Tree
<1>1. PICK f \in Frames :
        /\ Run(f, n) \subseteq Frames \ taken
        /\ taken' = taken \cup Run(f, n)
        /\ arg' = [arg EXCEPT ![c] = [NoCall EXCEPT !.virt = heap_ptr, !.phys = f,
                                                    !.size = n, !.cur = root]]
  BY DEF Begin
<1>2. /\ ~Busy(c) /\ heap_ptr + n - 1 <= LastPage /\ heap_ptr' = heap_ptr + n
      /\ pc' = [pc EXCEPT ![c] = "walk"]
      /\ table' = table /\ blocks' = blocks /\ space' = space /\ raced' = raced /\ oom' = oom
  BY DEF Begin, Busy
<1>3. n \in Nat \ {0} /\ f \in Nat /\ root \in Nat /\ LastPage \in Nat /\ heap_ptr \in Nat
  BY PagingAssumption, RootIsFrame, PagesAreNat DEF Types
<1>4. ASSUME NEW d \in Mappers, d # c
      PROVE  arg'[d] = arg[d] /\ pc'[d] = pc[d]
  BY <1>1, <1>2, <1>4 DEF Types
<1>5. /\ arg'[c] = [virt |-> heap_ptr, phys |-> f, size |-> n, offset |-> 0, level |-> 4,
                    cur |-> root, new |-> 0]
      /\ pc'[c] = "walk"
  BY <1>1, <1>2 DEF Types, NoCall
<1>6. /\ Busy(c)' /\ Held(c)' = Run(f, n) /\ Virt(c)' = heap_ptr
      /\ Left(c)' = heap_ptr..(heap_ptr + n - 1) /\ LeafLevel(c)' \in {1, 2}
  <2>1. Busy(c)' /\ Held(c)' = Run(f, n) /\ Virt(c)' = heap_ptr
    BY <1>3, <1>5 DEF Busy, Held, Virt, Run
  <2>2. Left(c)' = Run(heap_ptr, n)
    BY <1>3, <1>5, <2>1 DEF Left, Run
  <2>3. Left(c)' = heap_ptr..(heap_ptr + n - 1)
    BY <1>3, <2>2 DEF Run
  <2>4. LeafLevel(c)' \in {1, 2}
    BY DEF LeafLevel
  <2> QED
    BY <2>1, <2>3, <2>4
<1>7. /\ \A p \in Pages, l \in 1..4 : TableOn(p, l)' = TableOn(p, l)
      /\ \A p \in Pages : Translation(p)' = Translation(p)
  BY <1>2, TableStays
<1>8. Types'
  <2>1. arg'[c] \in Calls
    BY <1>3, <1>5 DEF Calls
  <2>2. arg' \in [Mappers -> Calls] /\ pc' \in [Mappers -> {"idle", "walk", "install"}]
    BY <1>1, <1>2, <2>1, <1>5 DEF Types
  <2> QED
    BY <1>2, <1>3, <2>2 DEF Types
<1>9. FramesInv'
  <2>1. Run(f, n) \subseteq taken' \ DOMAIN table' /\ Run(f, n) \cap taken = {}
    BY <1>1, <1>2 DEF FramesInv
  <2>2. ASSUME NEW d \in Mappers, Busy(d)', d # c
        PROVE  Held(d)' = Held(d) /\ Held(d) \subseteq taken \ DOMAIN table
    BY <1>4, <2>2, OtherCall DEF FramesInv
  <2>3. \A d \in Mappers : Busy(d)' => Held(d)' \subseteq taken' \ DOMAIN table'
    BY <1>1, <1>2, <1>6, <2>1, <2>2
  <2>4. \A b \in blocks : Kept(b)' = Kept(b) /\ Kept(b) \subseteq taken \ DOMAIN table
    BY DEF FramesInv, Kept
  <2>5. ASSUME NEW d \in Mappers, NEW e \in Mappers, Busy(d)', Busy(e)', d # e
        PROVE  Held(d)' \cap Held(e)' = {}
    <3>1. CASE d = c
      BY <1>6, <2>1, <2>2, <2>5, <3>1
    <3>2. CASE e = c
      BY <1>6, <2>1, <2>2, <2>5, <3>2
    <3>3. CASE d # c /\ e # c
      BY <1>4, <2>5, <3>3, OtherCall DEF FramesInv
    <3> QED
      BY <3>1, <3>2, <3>3
  <2>6. ASSUME NEW d \in Mappers, NEW b \in blocks, Busy(d)'
        PROVE  Held(d)' \cap Kept(b)' = {}
    <3>1. CASE d = c
      BY <1>6, <2>1, <2>4, <3>1
    <3>2. CASE d # c
      BY <1>4, <2>4, <2>6, <3>2, OtherCall DEF FramesInv
    <3> QED
      BY <3>1, <3>2
  <2> QED
    BY <1>1, <1>2, <2>3, <2>4, <2>5, <2>6 DEF FramesInv
<1>10. CallInv'
  <2>1. ASSUME NEW d \in Mappers, d # c, Busy(d)'
        PROVE  /\ arg'[d].offset < arg'[d].size
               /\ arg'[d].virt + arg'[d].size <= heap_ptr'
               /\ arg'[d].virt + arg'[d].size <= LastPage + 1
               /\ pc'[d] = "walk" => arg'[d].level >= LeafLevel(d)'
               /\ pc'[d] = "install" => arg'[d].level > LeafLevel(d)'
    <3>1. /\ arg'[d] = arg[d] /\ pc'[d] = pc[d] /\ Busy(d) /\ LeafLevel(d)' = LeafLevel(d)
          /\ arg[d] \in Calls
      BY <1>4, <2>1, OtherCall DEF Types
    <3> QED
      BY <1>2, <1>3, <3>1 DEF CallInv, Calls
  <2>2. /\ arg'[c].offset < arg'[c].size
        /\ arg'[c].virt + arg'[c].size <= heap_ptr'
        /\ arg'[c].virt + arg'[c].size <= LastPage + 1
        /\ arg'[c].level >= LeafLevel(c)'
    BY <1>2, <1>3, <1>5, <1>6
  <2> QED
    BY <1>5, <2>1, <2>2 DEF CallInv
<1>11. WalkInv'
  <2>1. ASSUME NEW d \in Mappers, d # c, Busy(d)'
        PROVE  TableOn(Virt(d), arg[d].level)' = {arg'[d].cur}
    <3>1. arg'[d] = arg[d] /\ Busy(d) /\ Virt(d)' = Virt(d) /\ arg[d] \in Calls
      BY <1>4, <2>1, OtherCall DEF Types
    <3>2. Virt(d) \in Pages /\ arg[d].level \in 1..4
      BY <3>1, PageOfCall DEF Calls
    <3>3. TableOn(Virt(d), arg[d].level)' = TableOn(Virt(d), arg[d].level)
      <4>1. PICK v \in Pages, l \in 1..4 : v = Virt(d) /\ l = arg[d].level
        BY <3>2
      <4> QED
        BY <1>7, <3>1, <4>1
    <3> QED
      BY <3>1, <3>3 DEF WalkInv
  <2>2. TableOn(Virt(c), arg[c].level)' = {arg'[c].cur}
    BY <1>5, WayNext
  <2> QED
    BY <2>1, <2>2 DEF WalkInv
<1>12. NewInv'
  BY <1>2, <1>4, <1>5, <1>7 DEF NewInv
<1>13. AloneInv'
  <2>1. ASSUME NEW d \in Mappers, d # c, Busy(d)'
        PROVE  Left(d)' = Left(d) /\ Busy(d) /\ Left(c)' \cap Left(d)' = {}
    <3>1. Left(d)' = Left(d) /\ Busy(d)
      BY <1>4, <2>1, OtherCall
    <3>2. \A p \in Left(d) : p \in Nat /\ p < heap_ptr
      BY <3>1, PageOfCall, PagesAreNat
    <3> QED
      BY <1>3, <1>6, <3>1, <3>2
  <2> QED
    BY <2>1 DEF AloneInv
<1>14. TreeInv' /\ OnePlace'
  BY <1>2, <1>7 DEF TreeInv, OnePlace, SameSlot
<1>15. HugeInv'
  <2> SUFFICES ASSUME NEW q \in Pages, NEW l \in 2..4, NEW t \in TableOn(q, l),
                      table[t][Index(q, l)].huge
               PROVE  /\ l = 2 /\ q < heap_ptr'
                      /\ \A d \in Mappers : Busy(d)' => q \notin Left(d)'
    BY <1>2, <1>7 DEF HugeInv
  <2>1. l = 2 /\ q < heap_ptr /\ \A d \in Mappers : Busy(d) => q \notin Left(d)
    BY DEF HugeInv
  <2>2. q \in Nat
    BY PagesAreNat
  <2>3. q \notin Left(c)'
    BY <1>3, <1>6, <2>1, <2>2
  <2>4. \A d \in Mappers : d # c /\ Busy(d)' => q \notin Left(d)'
    BY <1>4, <2>1, OtherCall
  <2> QED
    BY <1>2, <1>3, <2>1, <2>2, <2>3, <2>4
<1>16. LinkInv'
  <2> SUFFICES ASSUME NEW q \in Pages, NEW t \in TableOn(q, 2),
                      table[t][Index(q, 2)].present, ~table[t][Index(q, 2)].huge
               PROVE  \E r \in Pages :
                         /\ SameSlot(r, q, 2) /\ r < heap_ptr'
                         /\ \A d \in Mappers : Busy(d)' /\ r \in Left(d)' =>
                               r = Virt(d)' /\ ~ (Huge(d)')
    BY <1>2, <1>7 DEF LinkInv, SameSlot
  <2>1. PICK r \in Pages :
          /\ SameSlot(r, q, 2) /\ r < heap_ptr
          /\ \A d \in Mappers : Busy(d) /\ r \in Left(d) => r = Virt(d) /\ ~Huge(d)
    BY DEF LinkInv
  <2>2. r \in Nat
    BY PagesAreNat
  <2>3. r \notin Left(c)'
    BY <1>3, <1>6, <2>1, <2>2
  <2>4. \A d \in Mappers : d # c /\ Busy(d)' /\ r \in Left(d)' => r = Virt(d)' /\ ~ (Huge(d)')
    BY <1>4, <2>1, OtherCall
  <2> QED
    BY <1>2, <1>3, <2>1, <2>2, <2>3, <2>4
<1>17. SpaceInv'
  BY <1>2, <1>7 DEF SpaceInv
<1>18. BlocksInv'
  BY <1>2 DEF BlocksInv
<1> QED
  BY <1>8, <1>9, <1>10, <1>11, <1>12, <1>13, <1>14, <1>15, <1>16, <1>17, <1>18

\* A step that leaves the entries on every way and the pages of every call
\* leaves what is said of the pages.
SameCall(c) == Busy(c)' = Busy(c) /\ Held(c)' = Held(c) /\ Left(c)' = Left(c)
                 /\ Virt(c)' = Virt(c) /\ Huge(c)' = Huge(c) /\ LeafLevel(c)' = LeafLevel(c)
SameEntries == \A p \in Pages, l \in 1..4 : \A t \in TableOn(p, l) :
                  table'[t][Index(p, l)] = table[t][Index(p, l)]

LEMMA SameWays ==
    ASSUME SameEntries
    PROVE  /\ \A p \in Pages, l \in 1..4 : TableOn(p, l)' = TableOn(p, l)
           /\ \A p \in Pages : Translation(p)' = Translation(p)
<1>1. \A p \in Pages, l \in 1..4 : TableOn(p, l)' = TableOn(p, l)
  <2>1. \A p \in Pages, l \in 2..4 : \A t \in TableOn(p, l) : \A f :
           Leads(t, p, l, f)' <=> Leads(t, p, l, f)
    BY DEF Leads, SameEntries
  <2> QED
    BY <2>1, SameTree
<1>2. ASSUME NEW p \in Pages PROVE Translation(p)' = Translation(p)
  <2>1. \A l \in {1, 2} : TableOn(p, l)' = TableOn(p, l)
    BY <1>1
  <2>2. \A l \in {1, 2} : \A t \in TableOn(p, l) :
           table'[t][Index(p, l)] = table[t][Index(p, l)]
    BY DEF SameEntries
  <2> QED
    BY <2>1, <2>2, SameTarget
<1> QED
  BY <1>1, <1>2

LEMMA PagesStay ==
    ASSUME AloneInv, OnePlace, HugeInv, LinkInv, SpaceInv, SameEntries,
           \A c \in Mappers : SameCall(c), heap_ptr' = heap_ptr, space' = space
    PROVE  AloneInv' /\ OnePlace' /\ HugeInv' /\ LinkInv' /\ SpaceInv'
<1>1. /\ \A p \in Pages, l \in 1..4 : TableOn(p, l)' = TableOn(p, l)
      /\ \A p \in Pages : Translation(p)' = Translation(p)
  BY SameWays
<1>2. AloneInv'
  BY DEF AloneInv, SameCall
<1>3. OnePlace'
  BY <1>1 DEF OnePlace, SameSlot
<1>4. HugeInv'
  <2> SUFFICES ASSUME NEW q \in Pages, NEW l \in 2..4, NEW t \in TableOn(q, l),
                      table[t][Index(q, l)].huge
               PROVE  /\ l = 2 /\ q < heap_ptr'
                      /\ \A d \in Mappers : Busy(d)' => q \notin Left(d)'
    BY <1>1 DEF HugeInv, SameEntries
  <2> QED
    BY DEF HugeInv, SameCall
<1>5. LinkInv'
  <2> SUFFICES ASSUME NEW q \in Pages, NEW t \in TableOn(q, 2),
                      table[t][Index(q, 2)].present, ~table[t][Index(q, 2)].huge
               PROVE  \E r \in Pages :
                         /\ SameSlot(r, q, 2) /\ r < heap_ptr'
                         /\ \A d \in Mappers : Busy(d)' /\ r \in Left(d)' =>
                               r = Virt(d)' /\ ~ (Huge(d)')
    BY <1>1 DEF LinkInv, SameSlot, SameEntries
  <2> QED
    BY DEF LinkInv, SameCall
<1>6. SpaceInv'
  BY <1>1 DEF SpaceInv
<1> QED
  BY <1>2, <1>3, <1>4, <1>5, <1>6

\* The entry at which a call stands does not map a huge page as long as the
\* call has to go further down.
LEMMA EntryIsNotHuge ==
    ASSUME Types, Tree, NEW c \in Mappers, Busy(c), arg[c].level > LeafLevel(c)
    PROVE  /\ arg[c].level \in 2..4 /\ arg[c].level - 1 \in 1..3
           /\ arg[c].cur \in DOMAIN table /\ Virt(c) \in Pages
           /\ EntryOf(c) \in Entries /\ ~EntryOf(c).huge
<1> USE DEF Tree
<1>1. arg[c] \in Calls /\ LeafLevel(c) \in {1, 2} /\ Virt(c) \in Pages /\ Virt(c) \in Left(c)
  <2>1. arg[c] \in Calls
    BY DEF Types
  <2> QED
    BY <2>1, PageOfCall, HugeInNumbers
<1>2. arg[c].level \in 2..4 /\ arg[c].level - 1 \in 1..3
  BY <1>1 DEF Calls
<1>3. TableOn(Virt(c), arg[c].level) = {arg[c].cur}
  BY DEF WalkInv
<1>4. arg[c].cur \in DOMAIN table
  BY <1>1, <1>2, <1>3 DEF TreeInv
<1>5. EntryOf(c) \in Entries
  <2>1. Index(Virt(c), arg[c].level) \in 0..(Fan - 1)
    BY <1>1, <1>2, SlotStep
  <2> QED
    BY <1>4, <2>1 DEF Types, EntryOf
<1>6. ~EntryOf(c).huge
  BY <1>1, <1>2, <1>3 DEF HugeInv, EntryOf
<1> QED
  BY <1>1, <1>2, <1>4, <1>5, <1>6

LEMMA DescendKeeps ==
    ASSUME Types, Tree, NEW c \in Mappers, Descend(c)
    PROVE  Types' /\ Tree'
<1> USE DEF Tree
<1> DEFINE lv == arg[c].level
<1>1. /\ pc[c] = "walk" /\ lv > LeafLevel(c) /\ EntryOf(c).present
      /\ arg' = [arg EXCEPT ![c].cur = EntryOf(c).frame, ![c].level = @ - 1]
      /\ table' = table /\ taken' = taken /\ heap_ptr' = heap_ptr /\ pc' = pc
      /\ blocks' = blocks /\ space' = space /\ raced' = raced /\ oom' = oom
  BY DEF Descend
<1>2. Busy(c)
  BY <1>1 DEF Busy
<1>3. /\ lv \in 2..4 /\ lv - 1 \in 1..3 /\ arg[c].cur \in DOMAIN table /\ Virt(c) \in Pages
      /\ EntryOf(c) \in Entries /\ ~EntryOf(c).huge
  BY <1>1, <1>2, EntryIsNotHuge
<1>4. /\ arg'[c] = [arg[c] EXCEPT !.cur = EntryOf(c).frame, !.level = lv - 1]
      /\ arg[c] \in Calls
      /\ \A d \in Mappers : d # c => arg'[d] = arg[d]
  BY <1>1 DEF Types
<1>5. /\ arg'[c].virt = arg[c].virt /\ arg'[c].phys = arg[c].phys
      /\ arg'[c].size = arg[c].size /\ arg'[c].offset = arg[c].offset
      /\ arg'[c].new = arg[c].new
      /\ arg'[c].cur = EntryOf(c).frame /\ arg'[c].level = lv - 1
  BY <1>4 DEF Calls
<1>6. \A d \in Mappers : SameCall(d)
  <2>1. SameCall(c)
    BY <1>1, <1>5 DEF SameCall, Busy, Held, Left, Virt, Huge, LeafLevel, Run, Phys
  <2>2. ASSUME NEW d \in Mappers, d # c PROVE SameCall(d)
    BY <1>1, <1>4, <2>2, OtherCall DEF SameCall
  <2> QED
    BY <2>1, <2>2
<1>7. SameEntries
  BY <1>1 DEF SameEntries
<1>8. \A p \in Pages, l \in 1..4 : TableOn(p, l)' = TableOn(p, l)
  BY <1>7, SameWays
<1>9. Types'
  <2>1. arg'[c] \in Calls
    <3>1. EntryOf(c).frame \in Nat
      BY <1>3 DEF Entries
    <3>2. lv - 1 \in 1..4
      BY <1>3
    <3> HIDE DEF lv
    <3> QED
      BY <1>4, <3>1, <3>2 DEF Calls
  <2>2. arg' \in [Mappers -> Calls]
    BY <1>1, <2>1 DEF Types
  <2> QED
    BY <1>1, <2>2 DEF Types
<1>10. FramesInv'
  BY <1>1, <1>6 DEF FramesInv, SameCall, Kept
<1>11. CallInv'
  <2>1. LeafLevel(c) \in {1, 2}
    BY <1>4, HugeInNumbers
  <2>2. lv - 1 >= LeafLevel(c)
    BY <1>1, <1>3, <2>1
  <2>3. LeafLevel(c)' = LeafLevel(c) /\ pc'[c] = "walk"
    BY <1>1, <1>6 DEF SameCall
  <2>4. /\ arg'[c].offset < arg'[c].size
        /\ arg'[c].virt + arg'[c].size <= heap_ptr'
        /\ arg'[c].virt + arg'[c].size <= LastPage + 1
        /\ arg'[c].level >= LeafLevel(c)'
    BY <1>1, <1>2, <1>5, <2>2, <2>3 DEF CallInv
  <2>5. ASSUME NEW d \in Mappers, d # c, Busy(d)'
        PROVE  /\ arg'[d] = arg[d] /\ pc'[d] = pc[d] /\ Busy(d) /\ LeafLevel(d)' = LeafLevel(d)
    BY <1>1, <1>4, <1>6, <2>5 DEF SameCall
  <2> QED
    BY <1>1, <2>3, <2>4, <2>5 DEF CallInv
<1>12. WalkInv'
  <2>1. TableOn(Virt(c), lv - 1) = {EntryOf(c).frame}
    <3>1. TableOn(Virt(c), lv) = {arg[c].cur}
      BY <1>2 DEF WalkInv
    <3>2. \A f : f \in TableOn(Virt(c), lv - 1) <=>
             \E t \in TableOn(Virt(c), lv) : LET e == table[t][Index(Virt(c), lv)]
                                             IN  e.present /\ ~e.huge /\ f = e.frame
      <4>1. PICK l \in 1..3 : l = lv - 1 /\ l + 1 = lv
        BY <1>3
      <4> HIDE DEF lv
      <4>2. PICK k : k = l + 1
        OBVIOUS
      <4>3. \A f : f \in TableOn(Virt(c), l) <=>
               \E t \in TableOn(Virt(c), k) : LET e == table[t][Index(Virt(c), k)]
                                              IN  e.present /\ ~e.huge /\ f = e.frame
        BY <4>2, Way
      <4> QED
        BY <4>1, <4>2, <4>3
    <3> QED
      BY <1>1, <1>3, <3>1, <3>2 DEF EntryOf
  <2>2. TableOn(Virt(c), arg[c].level)' = TableOn(Virt(c), lv - 1)
    <3>1. PICK v \in Pages, l \in 1..4 : v = Virt(c) /\ l = lv - 1
      BY <1>3
    <3>2. Virt(c)' = v /\ arg'[c].level = l
      BY <1>5, <1>6, <3>1 DEF SameCall
    <3> QED
      BY <1>8, <3>1, <3>2
  <2>3. ASSUME NEW d \in Mappers, d # c, Busy(d)'
        PROVE  TableOn(Virt(d), arg[d].level)' = {arg'[d].cur}
    <3>1. arg'[d] = arg[d] /\ Busy(d) /\ Virt(d)' = Virt(d) /\ arg[d] \in Calls
      BY <1>4, <1>6, <2>3 DEF SameCall, Types
    <3>2. PICK v \in Pages, l \in 1..4 : v = Virt(d) /\ l = arg[d].level
      BY <3>1, PageOfCall DEF Calls
    <3> QED
      BY <1>8, <3>1, <3>2 DEF WalkInv
  <2> QED
    BY <1>5, <2>1, <2>2, <2>3 DEF WalkInv
<1>13. NewInv'
  <2>1. \A d \in Mappers : arg'[d].new = arg[d].new
    BY <1>4, <1>5
  <2>2. Zeroed' = Zeroed
    BY DEF Zeroed, Absent
  <2>3. ASSUME NEW d \in Mappers, pc'[d] = "install"
        PROVE  /\ arg'[d].new \in DOMAIN table' /\ table'[arg'[d].new] = Zeroed
               /\ \A p \in Pages, l \in 1..4 : arg'[d].new \notin TableOn(p, l)'
               /\ \A e \in Mappers : e # d /\ pc'[e] = "install" => arg'[d].new # arg'[e].new
    <3>1. /\ arg[d].new \in DOMAIN table /\ table[arg[d].new] = Zeroed
          /\ \A p \in Pages, l \in 1..4 : arg[d].new \notin TableOn(p, l)
          /\ \A e \in Mappers : e # d /\ pc[e] = "install" => arg[d].new # arg[e].new
      BY <1>1, <2>3 DEF NewInv
    <3> QED
      BY <1>1, <1>8, <2>1, <3>1
  <2> QED
    BY <2>2, <2>3 DEF NewInv
<1>14. TreeInv'
  BY <1>1, <1>8 DEF TreeInv
<1>15. BlocksInv'
  BY <1>1 DEF BlocksInv
<1> QED
  BY <1>1, <1>6, <1>7, <1>9, <1>10, <1>11, <1>12, <1>13, <1>14, <1>15, PagesStay

LEMMA AllocPageTableKeeps ==
    ASSUME Types, Tree, NEW c \in Mappers, AllocPageTable(c)
    PROVE  Types' /\ (Sound' => Tree')
<1> USE DEF Tree
<1>1. /\ pc[c] = "walk" /\ arg[c].level > LeafLevel(c)
      /\ heap_ptr' = heap_ptr /\ pc' = [pc EXCEPT ![c] = "install"]
      /\ blocks' = blocks /\ space' = space /\ raced' = raced
  BY DEF AllocPageTable
<1>2. PICK f \in IF Frames \subseteq taken THEN {0} ELSE Frames \ taken :
        /\ taken' = taken \cup ({f} \ {0})
        /\ table' = [g \in DOMAIN table \cup {f} |-> IF g = f THEN Zeroed ELSE table[g]]
        /\ arg' = [arg EXCEPT ![c].new = f]
        /\ oom' = (oom \/ f = 0)
  BY DEF AllocPageTable
<1>3. f \in Nat
  BY <1>2, PagingAssumption
<1>4. /\ arg[c] \in Calls /\ arg'[c] = [arg[c] EXCEPT !.new = f] /\ pc'[c] = "install"
      /\ \A d \in Mappers : d # c => arg'[d] = arg[d] /\ pc'[d] = pc[d]
  BY <1>1, <1>2 DEF Types
<1>5. /\ arg'[c].virt = arg[c].virt /\ arg'[c].phys = arg[c].phys
      /\ arg'[c].size = arg[c].size /\ arg'[c].offset = arg[c].offset
      /\ arg'[c].level = arg[c].level /\ arg'[c].cur = arg[c].cur /\ arg'[c].new = f
      /\ arg'[c] \in Calls
  BY <1>3, <1>4 DEF Calls
<1>6. Busy(c)
  BY <1>1 DEF Busy
<1>7. Types'
  <2>1. Zeroed \in [0..(Fan - 1) -> Entries]
    BY DEF Zeroed, Absent, Entries
  <2>2. DOMAIN table' \subseteq Nat /\ table' \in [DOMAIN table' -> [0..(Fan - 1) -> Entries]]
    BY <1>2, <1>3, <2>1 DEF Types
  <2>3. arg' \in [Mappers -> Calls]
    BY <1>2, <1>5 DEF Types
  <2>4. pc' \in [Mappers -> {"idle", "walk", "install"}]
    BY <1>1 DEF Types
  <2>5. oom' \in BOOLEAN
    BY <1>2 DEF Types
  <2> QED
    BY <1>1, <2>2, <2>3, <2>4, <2>5 DEF Types
<1> SUFFICES ASSUME Sound' PROVE Tree'
  BY <1>7
<1>8. f \in Frames \ taken /\ f # 0 /\ f \notin DOMAIN table
  <2>1. f # 0
    BY <1>2 DEF Sound
  <2> QED
    BY <1>2, <2>1 DEF FramesInv
<1>9. /\ DOMAIN table' = DOMAIN table \cup {f} /\ table'[f] = Zeroed
      /\ \A t \in DOMAIN table : table'[t] = table[t]
  BY <1>2, <1>8
<1>10. SameEntries
  BY <1>9 DEF SameEntries, TreeInv
<1>11. \A p \in Pages, l \in 1..4 : TableOn(p, l)' = TableOn(p, l)
  BY <1>10, SameWays
<1>12. \A d \in Mappers : SameCall(d)
  <2>1. SameCall(c)
    BY <1>1, <1>4, <1>5 DEF SameCall, Busy, Held, Left, Virt, Huge, LeafLevel, Run, Phys
  <2>2. ASSUME NEW d \in Mappers, d # c PROVE SameCall(d)
    BY <1>4, <2>2, OtherCall DEF SameCall
  <2> QED
    BY <2>1, <2>2
<1>13. FramesInv'
  <2>1. taken' = taken \cup {f}
    BY <1>2, <1>8
  <2>2. \A d \in Mappers : Busy(d)' => Held(d)' \subseteq taken' \ DOMAIN table'
    BY <1>8, <1>9, <1>12, <2>1 DEF FramesInv, SameCall
  <2>3. \A b \in blocks' : Kept(b)' \subseteq taken' \ DOMAIN table'
    BY <1>1, <1>8, <1>9, <2>1 DEF FramesInv, Kept
  <2>4. /\ \A d, e \in Mappers : Busy(d)' /\ Busy(e)' /\ d # e => Held(d)' \cap Held(e)' = {}
        /\ \A d \in Mappers, b \in blocks' : Busy(d)' => Held(d)' \cap Kept(b)' = {}
        /\ \A b, d \in blocks' : b # d => Kept(b)' \cap Kept(d)' = {}
    BY <1>1, <1>12 DEF FramesInv, SameCall, Kept
  <2>5. root \in DOMAIN table' /\ DOMAIN table' \subseteq taken'
    BY <1>9, <2>1 DEF FramesInv
  <2> QED
    BY <2>2, <2>3, <2>4, <2>5 DEF FramesInv
<1>14. CallInv'
  <2>1. LeafLevel(c)' = LeafLevel(c)
    BY <1>12 DEF SameCall
  <2>2. /\ arg'[c].offset < arg'[c].size
        /\ arg'[c].virt + arg'[c].size <= heap_ptr'
        /\ arg'[c].virt + arg'[c].size <= LastPage + 1
        /\ arg'[c].level > LeafLevel(c)'
    BY <1>1, <1>5, <1>6, <2>1 DEF CallInv
  <2>3. ASSUME NEW d \in Mappers, d # c, Busy(d)'
        PROVE  /\ arg'[d] = arg[d] /\ pc'[d] = pc[d] /\ Busy(d) /\ LeafLevel(d)' = LeafLevel(d)
    BY <1>4, <1>12, <2>3 DEF SameCall
  <2> QED
    BY <1>1, <1>4, <2>2, <2>3 DEF CallInv
<1>15. WalkInv'
  <2> SUFFICES ASSUME NEW d \in Mappers, Busy(d)'
               PROVE  TableOn(Virt(d), arg[d].level)' = {arg'[d].cur}
    BY DEF WalkInv
  <2>1. /\ arg'[d].level = arg[d].level /\ arg'[d].cur = arg[d].cur /\ Busy(d)
        /\ Virt(d)' = Virt(d) /\ arg[d] \in Calls
    BY <1>4, <1>5, <1>12 DEF SameCall, Types
  <2>2. PICK v \in Pages, l \in 1..4 : v = Virt(d) /\ l = arg[d].level
    BY <2>1, PageOfCall DEF Calls
  <2> QED
    BY <1>11, <2>1, <2>2 DEF WalkInv
<1>16. NewInv'
  <2>1. /\ arg'[c].new \in DOMAIN table' /\ table'[arg'[c].new] = Zeroed
        /\ \A p \in Pages, l \in 1..4 : arg'[c].new \notin TableOn(p, l)'
    BY <1>5, <1>8, <1>9, <1>11 DEF TreeInv
  <2>2. ASSUME NEW d \in Mappers, d # c, pc'[d] = "install"
        PROVE  /\ arg'[d].new = arg[d].new /\ pc[d] = "install"
               /\ arg'[d].new \in DOMAIN table' /\ table'[arg'[d].new] = Zeroed
               /\ \A p \in Pages, l \in 1..4 : arg'[d].new \notin TableOn(p, l)'
               /\ arg'[d].new # f
    BY <1>4, <1>8, <1>9, <1>11, <2>2 DEF NewInv
  <2>3. Zeroed' = Zeroed
    BY DEF Zeroed, Absent
  <2>4. ASSUME NEW d \in Mappers, pc'[d] = "install", NEW e \in Mappers, e # d,
               pc'[e] = "install"
        PROVE  arg'[d].new # arg'[e].new
    <3>1. CASE d = c
      BY <1>5, <2>2, <2>4, <3>1
    <3>2. CASE e = c
      BY <1>5, <2>2, <2>4, <3>2
    <3>3. CASE d # c /\ e # c
      BY <2>2, <2>4, <3>3 DEF NewInv
    <3> QED
      BY <3>1, <3>2, <3>3
  <2>5. ASSUME NEW d \in Mappers, pc'[d] = "install"
        PROVE  /\ arg'[d].new \in DOMAIN table' /\ table'[arg'[d].new] = Zeroed
               /\ \A p \in Pages, l \in 1..4 : arg'[d].new \notin TableOn(p, l)'
    BY <2>1, <2>2, <2>5
  <2> QED
    BY <2>3, <2>4, <2>5 DEF NewInv
<1>17. TreeInv'
  BY <1>9, <1>11 DEF TreeInv
<1>18. BlocksInv'
  BY <1>1 DEF BlocksInv
<1> QED
  BY <1>1, <1>10, <1>12, <1>13, <1>14, <1>15, <1>16, <1>17, <1>18, PagesStay

LEMMA NoVirtualRangeKeeps ==
    ASSUME Types, NEW c \in Mappers, NoVirtualRange(c)
    PROVE  Types' /\ ~Sound'
<1>1. arg[c] \in Calls /\ [arg[c] EXCEPT !.new = 0] \in Calls
  BY DEF Types, Calls
<1>2. arg' \in [Mappers -> Calls]
  BY <1>1 DEF NoVirtualRange, Types
<1> QED
  BY <1>2 DEF NoVirtualRange, Types, Sound

LEMMA InstallKeeps ==
    ASSUME Types, Tree, NEW c \in Mappers, Install(c)
    PROVE  Types' /\ (Sound' => Tree')
<1> USE DEF Tree
<1>1. /\ pc[c] = "install" /\ raced' = (raced \/ EntryOf(c).present)
      /\ table' = Write(c, Link(arg[c].new))
      /\ arg' = [arg EXCEPT ![c].cur = arg[c].new, ![c].level = @ - 1]
      /\ pc' = [pc EXCEPT ![c] = "walk"]
      /\ taken' = taken /\ heap_ptr' = heap_ptr /\ blocks' = blocks /\ space' = space
      /\ oom' = oom
  BY DEF Install
<1>2. Busy(c) /\ arg[c].level > LeafLevel(c) /\ arg[c] \in Calls
  BY <1>1 DEF Busy, CallInv, Types
<1>3. PICK v \in Pages, lv \in 2..4, cur \in DOMAIN table, new \in DOMAIN table :
        /\ v = Virt(c) /\ lv = arg[c].level /\ cur = arg[c].cur /\ new = arg[c].new
  <2>1. arg[c].new \in DOMAIN table
    BY <1>1 DEF NewInv
  <2> QED
    BY <1>2, <2>1, EntryIsNotHuge
<1>4. /\ TableOn(v, lv) = {cur} /\ table[new] = Zeroed /\ cur # new
      /\ \A p \in Pages, l \in 1..4 : new \notin TableOn(p, l)
  <2>1. TableOn(v, lv) = {cur}
    BY <1>2, <1>3 DEF WalkInv
  <2>2. table[new] = Zeroed /\ \A p \in Pages, l \in 1..4 : new \notin TableOn(p, l)
    BY <1>1, <1>3 DEF NewInv
  <2> QED
    BY <2>1, <2>2
<1>5. LeafLevel(c) \in {1, 2} /\ lv - 1 \in 1..3 /\ lv - 1 >= LeafLevel(c)
  <2>1. LeafLevel(c) \in {1, 2}
    BY <1>2, HugeInNumbers
  <2> QED
    BY <1>2, <1>3, <2>1
<1>6. Index(v, lv) \in 0..(Fan - 1)
  BY SlotStep
<1>7. /\ table' = [table EXCEPT ![cur][Index(v, lv)] = Link(new)]
      /\ DOMAIN table' = DOMAIN table
      /\ \A t \in DOMAIN table : t # cur => table'[t] = table[t]
      /\ table'[cur] = [table[cur] EXCEPT ![Index(v, lv)] = Link(new)]
      /\ table[cur] \in [0..(Fan - 1) -> Entries]
  <2>1. table' = [table EXCEPT ![cur][Index(v, lv)] = Link(new)]
    BY <1>1, <1>3 DEF Write
  <2> QED
    BY <2>1 DEF Types
<1>8. /\ table'[cur][Index(v, lv)] = Link(new) /\ Link(new) \in Entries
      /\ \A i \in 0..(Fan - 1) : i # Index(v, lv) => table'[cur][i] = table[cur][i]
  <2>1. new \in Nat
    BY DEF Types
  <2> QED
    BY <1>6, <1>7, <2>1 DEF Link, Entries
<1>9. /\ arg'[c] = [arg[c] EXCEPT !.cur = new, !.level = lv - 1] /\ pc'[c] = "walk"
      /\ \A d \in Mappers : d # c => arg'[d] = arg[d] /\ pc'[d] = pc[d]
  BY <1>1, <1>3 DEF Types
<1>10. /\ arg'[c].virt = arg[c].virt /\ arg'[c].phys = arg[c].phys
       /\ arg'[c].size = arg[c].size /\ arg'[c].offset = arg[c].offset
       /\ arg'[c].cur = new /\ arg'[c].level = lv - 1 /\ arg'[c] \in Calls
  <2>1. lv - 1 \in 1..4 /\ new \in Nat
    BY <1>5 DEF Types
  <2> QED
    BY <1>2, <1>9, <2>1 DEF Calls
<1>11. Types'
  <2>1. table' \in [DOMAIN table' -> [0..(Fan - 1) -> Entries]]
    <3>1. table'[cur] \in [0..(Fan - 1) -> Entries]
      BY <1>7, <1>8
    <3> QED
      BY <1>7, <3>1 DEF Types
  <2>2. arg' \in [Mappers -> Calls]
    BY <1>1, <1>10 DEF Types
  <2>3. pc' \in [Mappers -> {"idle", "walk", "install"}]
    BY <1>1 DEF Types
  <2>4. raced' \in BOOLEAN
    <3>1. EntryOf(c) \in Entries
      BY <1>2, EntryIsNotHuge
    <3> QED
      BY <1>1, <3>1 DEF Types, Entries
  <2> QED
    BY <1>1, <1>7, <2>1, <2>2, <2>3, <2>4 DEF Types
<1> SUFFICES ASSUME Sound' PROVE Tree'
  BY <1>11
<1>12. ~table[cur][Index(v, lv)].present
  <2>1. ~EntryOf(c).present
    BY <1>1 DEF Sound
  <2> QED
    BY <1>3, <2>1 DEF EntryOf
<1>13. \A i \in 0..(Fan - 1) : table'[new][i] = Absent
  BY <1>4, <1>7 DEF Zeroed
<1>14. \A p \in Pages, l \in 1..4 : \A t \in TableOn(p, l) :
          t # cur \/ Index(p, l) # Index(v, lv) => table'[t][Index(p, l)] = table[t][Index(p, l)]
  BY <1>7, <1>8, SlotStep DEF TreeInv
<1> DEFINE Below(p, l) == l < lv /\ SameSlot(p, v, lv)
<1>15. \A p \in Pages, l \in 1..4 :
          /\ Below(p, l) =>
                TableOn(p, l) = {} /\ TableOn(p, l)' = IF l = lv - 1 THEN {new} ELSE {}
          /\ ~Below(p, l) => TableOn(p, l)' = TableOn(p, l)
  <2>1. \A p \in Pages, l \in 2..4 : \A t \in TableOn(p, l) :
           t # cur \/ Index(p, l) # Index(v, lv) => table'[t][Index(p, l)] = table[t][Index(p, l)]
    BY <1>14
  <2> QED
    BY <1>4, <1>8, <1>12, <1>13, <2>1, InstallTree
<1> HIDE DEF Below
<1>16. \A p \in Pages, l \in 1..4 : \A t \in TableOn(p, l)' :
          \/ t \in TableOn(p, l) /\ t # new /\ TableOn(p, l)' = TableOn(p, l)
          \/ t = new /\ l = lv - 1 /\ SameSlot(p, v, lv)
  BY <1>4, <1>15 DEF Below
<1>17. \A p \in Pages, l \in 1..4 : TableOn(p, l) # {} => TableOn(p, l)' = TableOn(p, l)
  BY <1>15
<1>18. \A d \in Mappers : SameCall(d)
  <2>1. SameCall(c)
    BY <1>1, <1>9, <1>10 DEF SameCall, Busy, Held, Left, Virt, Huge, LeafLevel, Run, Phys
  <2>2. ASSUME NEW d \in Mappers, d # c PROVE SameCall(d)
    BY <1>9, <2>2, OtherCall DEF SameCall
  <2> QED
    BY <2>1, <2>2
<1>19. FramesInv'
  BY <1>1, <1>7, <1>18 DEF FramesInv, SameCall, Kept
<1>20. CallInv'
  <2>1. LeafLevel(c)' = LeafLevel(c)
    BY <1>18 DEF SameCall
  <2>2. /\ arg'[c].offset < arg'[c].size
        /\ arg'[c].virt + arg'[c].size <= heap_ptr'
        /\ arg'[c].virt + arg'[c].size <= LastPage + 1
        /\ arg'[c].level >= LeafLevel(c)'
    BY <1>1, <1>2, <1>5, <1>10, <2>1 DEF CallInv
  <2>3. ASSUME NEW d \in Mappers, d # c, Busy(d)'
        PROVE  /\ arg'[d] = arg[d] /\ pc'[d] = pc[d] /\ Busy(d) /\ LeafLevel(d)' = LeafLevel(d)
    BY <1>9, <1>18, <2>3 DEF SameCall
  <2> QED
    BY <1>1, <1>9, <2>2, <2>3 DEF CallInv
<1>21. WalkInv'
  <2>1. ASSUME NEW d \in Mappers, d # c, Busy(d)'
        PROVE  TableOn(Virt(d), arg[d].level)' = {arg'[d].cur}
    <3>1. /\ arg'[d] = arg[d] /\ Busy(d) /\ Virt(d)' = Virt(d) /\ arg[d] \in Calls
      BY <1>9, <1>18, <2>1 DEF SameCall, Types
    <3>2. PICK w \in Pages, l \in 1..4 : w = Virt(d) /\ l = arg[d].level
      BY <3>1, PageOfCall DEF Calls
    <3>3. TableOn(w, l) = {arg[d].cur}
      BY <3>1, <3>2 DEF WalkInv
    <3>4. TableOn(w, l)' = {arg[d].cur}
      BY <1>17, <3>3
    <3> QED
      BY <3>1, <3>2, <3>4
  <2>2. TableOn(Virt(c), arg[c].level)' = {arg'[c].cur}
    <3>1. PICK l \in 1..3 : l = lv - 1
      BY <1>5
    <3>2. TableOn(v, l)' = {new}
      BY <1>15, <3>1 DEF Below, SameSlot
    <3>3. Virt(c)' = v /\ arg'[c].level = l /\ arg'[c].cur = new
      BY <1>3, <1>10, <1>18, <3>1 DEF SameCall
    <3> QED
      BY <3>2, <3>3
  <2> QED
    BY <2>1, <2>2 DEF WalkInv
<1>22. NewInv'
  <2> SUFFICES ASSUME NEW d \in Mappers, pc'[d] = "install"
               PROVE  /\ arg'[d].new \in DOMAIN table' /\ table'[arg'[d].new] = Zeroed
                      /\ \A p \in Pages, l \in 1..4 : arg'[d].new \notin TableOn(p, l)'
                      /\ \A e \in Mappers : e # d /\ pc'[e] = "install" => arg'[d].new # arg'[e].new
    BY DEF NewInv, Zeroed, Absent
  <2>1. d # c /\ arg'[d] = arg[d] /\ pc[d] = "install"
    BY <1>9
  <2>2. arg[d].new \in DOMAIN table /\ table[arg[d].new] = Zeroed /\ arg[d].new # new
    BY <1>1, <1>3, <2>1 DEF NewInv
  <2>3. arg[d].new # cur
    BY <1>4, <2>1 DEF NewInv
  <2>4. \A p \in Pages, l \in 1..4 : arg[d].new \notin TableOn(p, l)'
    BY <1>16, <2>1, <2>2 DEF NewInv
  <2>5. \A e \in Mappers : e # d /\ pc'[e] = "install" => arg[d].new # arg'[e].new
    BY <1>9, <2>1 DEF NewInv
  <2> QED
    BY <1>7, <2>1, <2>2, <2>3, <2>4, <2>5
<1>23. AloneInv'
  BY <1>18 DEF AloneInv, SameCall
<1>24. TreeInv'
  BY <1>7, <1>16 DEF TreeInv
<1>25. OnePlace'
  <2> SUFFICES ASSUME NEW p \in Pages, NEW q \in Pages, NEW l \in 1..4, NEW m \in 1..4,
                      NEW t, t \in TableOn(p, l)', t \in TableOn(q, m)'
               PROVE  l = m /\ SameSlot(p, q, l + 1)
    BY DEF OnePlace, SameSlot
  <2>1. CASE t = new
    <3>1. /\ l = lv - 1 /\ SameSlot(p, v, lv)
          /\ m = lv - 1 /\ SameSlot(q, v, lv)
      BY <1>16, <2>1
    <3> QED
      BY <3>1 DEF SameSlot
  <2>2. CASE t # new
    BY <1>16, <2>2 DEF OnePlace
  <2> QED
    BY <2>1, <2>2
<1>26. HugeInv'
  <2> SUFFICES ASSUME NEW q \in Pages, NEW l \in 2..4, NEW t \in TableOn(q, l)',
                      table'[t][Index(q, l)].huge
               PROVE  /\ l = 2 /\ q < heap_ptr
                      /\ \A d \in Mappers : Busy(d) => q \notin Left(d)
    BY <1>1, <1>18 DEF HugeInv, SameCall
  <2>1. t # new
    BY <1>13, SlotStep DEF Absent
  <2>2. t \in TableOn(q, l)
    BY <1>16, <2>1
  <2>3. ~(t = cur /\ Index(q, l) = Index(v, lv))
    BY <1>8 DEF Link
  <2>4. table[t][Index(q, l)].huge
    BY <1>14, <2>2, <2>3
  <2> QED
    BY <2>2, <2>4 DEF HugeInv
<1>27. LinkInv'
  <2> SUFFICES ASSUME NEW q \in Pages, NEW t \in TableOn(q, 2)',
                      table'[t][Index(q, 2)].present, ~table'[t][Index(q, 2)].huge
               PROVE  \E r \in Pages :
                         /\ SameSlot(r, q, 2) /\ r < heap_ptr
                         /\ \A d \in Mappers : Busy(d) /\ r \in Left(d) => r = Virt(d) /\ ~Huge(d)
    BY <1>1, <1>18 DEF LinkInv, SameCall, SameSlot
  <2>1. t # new
    BY <1>13, SlotStep DEF Absent
  <2>2. t \in TableOn(q, 2)
    BY <1>16, <2>1
  <2>3. CASE t = cur /\ Index(q, 2) = Index(v, lv)
    <3>1. TableOn(q, 2) \cap TableOn(v, lv) # {}
      BY <1>4, <2>2, <2>3
    <3>2. lv = 2 /\ SameSlot(q, v, 3)
      BY <3>1 DEF OnePlace
    <3>3. SameSlot(v, q, 2)
      BY <2>3, <3>2, SlotSplit DEF SameSlot
    <3>4. v < heap_ptr /\ v \in Left(c)
      BY <1>2, <1>3, PageOfCall
    <3>5. ~Huge(c)
      BY <1>2, <1>3, <1>5, <3>2, HugeInNumbers
    <3>6. \A d \in Mappers : Busy(d) /\ v \in Left(d) => d = c
      BY <1>2, <3>4 DEF AloneInv
    <3> QED
      BY <1>3, <3>3, <3>4, <3>5, <3>6
  <2>4. CASE ~(t = cur /\ Index(q, 2) = Index(v, lv))
    <3>1. table'[t][Index(q, 2)] = table[t][Index(q, 2)]
      BY <1>14, <2>2, <2>4
    <3> QED
      BY <2>2, <3>1 DEF LinkInv
  <2> QED
    BY <2>3, <2>4
<1>28. SpaceInv'
  <2> SUFFICES ASSUME NEW p \in Pages PROVE Translation(p)' = Translation(p)
    BY <1>1 DEF SpaceInv
  <2>1. CASE \A l \in {1, 2} : ~Below(p, l) /\ \A t \in TableOn(p, l) :
                t # cur \/ Index(p, l) # Index(v, lv)
    <3>1. \A l \in {1, 2} : TableOn(p, l)' = TableOn(p, l)
      BY <1>15, <2>1
    <3>2. \A l \in {1, 2} : \A t \in TableOn(p, l) :
             table'[t][Index(p, l)] = table[t][Index(p, l)]
      BY <1>14, <2>1
    <3> QED
      BY <3>1, <3>2, SameTarget
  <2>2. CASE \E l \in {1, 2} : \/ Below(p, l)
                               \/ \E t \in TableOn(p, l) : t = cur /\ Index(p, l) = Index(v, lv)
    <3>1. SameSlot(p, v, lv)
      <4>1. ASSUME NEW l \in {1, 2}, cur \in TableOn(p, l), Index(p, l) = Index(v, lv)
            PROVE  SameSlot(p, v, lv)
        <5>1. TableOn(p, l) \cap TableOn(v, lv) # {}
          BY <1>4, <4>1
        <5>2. l = lv /\ SameSlot(p, v, lv + 1)
          BY <5>1 DEF OnePlace
        <5> QED
          BY <4>1, <5>2, SlotSplit
      <4> QED
        BY <2>2, <4>1 DEF Below
    <3>2. /\ TableOn(p, 1) = {} /\ TableOn(p, 1)' \subseteq {new}
      <4>1. Below(p, 1)
        BY <3>1 DEF Below
      <4> QED
        BY <1>15, <4>1
    <3>3. /\ \A t \in TableOn(p, 2) : ~table[t][Index(p, 2)].present
          /\ \A t \in TableOn(p, 2)' : ~(table'[t][Index(p, 2)].present /\ table'[t][Index(p, 2)].huge)
      <4>1. CASE lv = 2
        <5>1. SameSlot(v, p, 3) /\ Index(p, 2) = Index(v, 2)
          BY <3>1, <4>1, SlotSplit DEF SameSlot
        <5>2. TableOn(p, 2) = {cur}
          BY <1>4, <4>1, <5>1, OneTable
        <5>3. TableOn(p, 2)' = {cur}
          BY <1>17, <5>2
        <5> QED
          BY <1>8, <1>12, <4>1, <5>1, <5>2, <5>3 DEF Link
      <4>2. CASE lv # 2
        <5>1. Below(p, 2)
          BY <3>1, <4>2 DEF Below
        <5>2. TableOn(p, 2) = {} /\ TableOn(p, 2)' \subseteq {new}
          BY <1>15, <5>1
        <5> QED
          BY <1>13, <5>2, SlotStep DEF Absent
      <4> QED
        BY <4>1, <4>2
    <3>4. \A t \in TableOn(p, 1)' : ~table'[t][Index(p, 1)].present
      BY <1>13, <3>2, SlotStep DEF Absent
    <3>5. Target(p) = {}
      BY <3>2, <3>3 DEF Target
    <3>6. Target(p)' = {}
      BY <3>3, <3>4 DEF Target
    <3> QED
      BY <3>5, <3>6 DEF Translation
  <2> QED
    BY <2>1, <2>2
<1>29. BlocksInv'
  BY <1>1 DEF BlocksInv
<1> QED
  BY <1>19, <1>20, <1>21, <1>22, <1>23, <1>24, <1>25, <1>26, <1>27, <1>28, <1>29

LEMMA WriteLeafKeeps ==
    ASSUME Types, Tree, NEW c \in Mappers, WriteLeaf(c)
    PROVE  Types' /\ Tree'
<1> USE DEF Tree
<1>1. pc[c] = "walk" /\ arg[c].level = LeafLevel(c) /\ Busy(c) /\ arg[c] \in Calls
  BY DEF WriteLeaf, Busy, Types
<1>2. PICK v \in Pages, lv \in {1, 2}, cur \in DOMAIN table :
        /\ v = Virt(c) /\ lv = arg[c].level /\ cur = arg[c].cur
        /\ TableOn(v, lv) = {cur}
  <2>1. Virt(c) \in Pages /\ LeafLevel(c) \in {1, 2}
    BY <1>1, PageOfCall, HugeInNumbers
  <2>2. TableOn(Virt(c), arg[c].level) = {arg[c].cur}
    BY <1>1 DEF WalkInv
  <2>3. arg[c].cur \in DOMAIN table
    BY <1>1, <2>1, <2>2 DEF TreeInv
  <2> QED
    BY <1>1, <2>1, <2>2, <2>3
<1>3. lv = 2 <=> Huge(c)
  BY <1>1, <1>2, HugeInNumbers
<1>4. PICK n \in Nat \ {0}, left \in Nat : /\ n = IF Huge(c) THEN Fan ELSE 1
                                         /\ left = arg[c].size - arg[c].offset /\ left >= n
  <2>1. Fan \in Nat \ {0} /\ arg[c].offset < arg[c].size
    BY <1>1, SpanValues DEF CallInv
  <2>2. arg[c].offset \in Nat /\ arg[c].size \in Nat
    BY <1>1 DEF Calls
  <2>3. CASE Huge(c)
    BY <2>1, <2>2, <2>3 DEF Huge
  <2>4. CASE ~Huge(c)
    BY <2>1, <2>2, <2>4
  <2> QED
    BY <2>3, <2>4
<1>4a. PICK off \in Nat : off = arg[c].offset + n
  BY <1>1, <1>4 DEF Calls
<1>4b. PICK next : next = [arg[c] EXCEPT !.offset = off, !.level = 4, !.cur = root]
  OBVIOUS
<1>4c. /\ next \in Calls
       /\ next.virt = arg[c].virt /\ next.phys = arg[c].phys /\ next.size = arg[c].size
       /\ next.offset = off /\ next.level = 4 /\ next.cur = root /\ next.new = arg[c].new
  <2>1. root \in Nat
    BY RootIsFrame, PagingAssumption
  <2> QED
    <3>1. /\ next.virt = arg[c].virt /\ next.phys = arg[c].phys /\ next.size = arg[c].size
          /\ next.new = arg[c].new
      BY <1>1, <1>4b DEF Calls
    <3>2. next.offset = off /\ next.level = 4 /\ next.cur = root
      BY <1>1, <1>4b DEF Calls
    <3>3. next \in Calls
      <4>1. PICK a : a = [arg[c] EXCEPT !.offset = off]
        OBVIOUS
      <4>2. a \in Calls
        BY <1>1, <4>1 DEF Calls
      <4>3. PICK b : b = [a EXCEPT !.level = 4]
        OBVIOUS
      <4>4. b \in Calls
        BY <4>2, <4>3 DEF Calls
      <4>5. next = [b EXCEPT !.cur = root]
        BY <1>4b, <4>1, <4>3
      <4> QED
        BY <2>1, <4>4, <4>5 DEF Calls
    <3> QED
      BY <3>1, <3>2, <3>3
<1>4d. next = [arg[c] EXCEPT !.offset = @ + n, !.level = 4, !.cur = root]
  BY <1>4a, <1>4b
<1>5. PICK done \in BOOLEAN :
        /\ done <=> arg[c].offset + n >= arg[c].size
        /\ pc' = [pc EXCEPT ![c] = IF done THEN "idle" ELSE "walk"]
        /\ arg' = [arg EXCEPT ![c] = IF done THEN NoCall ELSE next]
        /\ blocks' = IF ~done THEN blocks
                     ELSE blocks \cup {[virt |-> arg[c].virt, phys |-> arg[c].phys,
                                        size |-> arg[c].size]}
        /\ space' = [p \in DOMAIN space \cup Run(v, n) |->
                        IF p \in Run(v, n) THEN Phys(c) + (p - v) ELSE space[p]]
  <2>1. PICK done \in BOOLEAN :
          /\ done <=> arg[c].offset + n >= arg[c].size
          /\ pc' = [pc EXCEPT ![c] = IF done THEN "idle" ELSE "walk"]
          /\ arg' = [arg EXCEPT ![c] = IF done THEN NoCall
                       ELSE [arg[c] EXCEPT !.offset = @ + n, !.level = 4, !.cur = root]]
          /\ blocks' = IF ~done THEN blocks
                       ELSE blocks \cup {[virt |-> arg[c].virt, phys |-> arg[c].phys,
                                          size |-> arg[c].size]}
          /\ space' = [p \in DOMAIN space \cup Run(v, n) |->
                          IF p \in Run(v, n) THEN Phys(c) + (p - v) ELSE space[p]]
    BY <1>2, <1>4 DEF WriteLeaf
  <2>2. arg' = [arg EXCEPT ![c] = IF done THEN NoCall ELSE next]
    BY <1>4d, <2>1
  <2> QED
    BY <2>1, <2>2
<1>6. table' = Write(c, [present |-> TRUE, huge |-> Huge(c), frame |-> Phys(c)])
      /\ taken' = taken /\ heap_ptr' = heap_ptr /\ raced' = raced /\ oom' = oom
  BY DEF WriteLeaf
<1>7. PICK leaf \in Entries : /\ leaf.present /\ (leaf.huge <=> lv = 2) /\ leaf.frame = Phys(c)
                              /\ leaf = [present |-> TRUE, huge |-> Huge(c), frame |-> Phys(c)]
  <2>1. Phys(c) \in Nat
    BY <1>1 DEF Phys, Calls
  <2>2. Huge(c) \in BOOLEAN
    BY DEF Huge
  <2> QED
    BY <1>3, <2>1, <2>2 DEF Entries
<1>8. Index(v, lv) \in 0..(Fan - 1)
  BY SlotStep
<1>9. /\ DOMAIN table' = DOMAIN table
      /\ \A t \in DOMAIN table : t # cur => table'[t] = table[t]
      /\ table'[cur] = [table[cur] EXCEPT ![Index(v, lv)] = leaf]
      /\ table[cur] \in [0..(Fan - 1) -> Entries]
      /\ table' = [table EXCEPT ![cur][Index(v, lv)] = leaf]
  <2>1. table' = [table EXCEPT ![cur][Index(v, lv)] = leaf]
    BY <1>2, <1>6, <1>7 DEF Write
  <2> QED
    BY <2>1 DEF Types
<1>10. /\ table'[cur][Index(v, lv)] = leaf
       /\ \A i \in 0..(Fan - 1) : i # Index(v, lv) => table'[cur][i] = table[cur][i]
  BY <1>8, <1>9
<1>11. \A d \in Mappers : d # c => arg'[d] = arg[d] /\ pc'[d] = pc[d]
  BY <1>5 DEF Types
<1>12. ASSUME done
       PROVE  /\ pc'[c] = "idle" /\ arg'[c] = NoCall /\ ~ (Busy(c)')
              /\ blocks' = blocks \cup {[virt |-> arg[c].virt, phys |-> arg[c].phys,
                                         size |-> arg[c].size]}
  BY <1>5, <1>12 DEF Types, Busy
<1>13. ASSUME ~done
       PROVE  /\ arg'[c] = next
              /\ arg'[c].virt = arg[c].virt /\ arg'[c].phys = arg[c].phys
              /\ arg'[c].size = arg[c].size /\ arg'[c].offset = arg[c].offset + n
              /\ arg'[c].level = 4 /\ arg'[c].cur = root /\ arg'[c].new = arg[c].new
              /\ blocks' = blocks /\ pc'[c] = "walk" /\ Busy(c)'
  <2>1. arg'[c] = next /\ pc'[c] = "walk" /\ blocks' = blocks
    BY <1>5, <1>13 DEF Types
  <2> QED
    BY <1>4a, <1>4c, <2>1 DEF Busy
<1>14. Types'
  <2>1. table' \in [DOMAIN table' -> [0..(Fan - 1) -> Entries]]
    <3>1. table'[cur] \in [0..(Fan - 1) -> Entries]
      BY <1>8, <1>9
    <3> QED
      BY <1>9, <3>1 DEF Types
  <2>2. arg'[c] \in Calls
    <3>1. CASE done
      BY <1>12, <3>1 DEF NoCall, Calls
    <3>2. CASE ~done
      BY <1>4c, <1>13, <3>2
    <3> QED
      BY <3>1, <3>2
  <2>3. arg' \in [Mappers -> Calls]
    BY <1>5, <2>2 DEF Types
  <2>4. pc' \in [Mappers -> {"idle", "walk", "install"}]
    BY <1>5 DEF Types
  <2>5. blocks' \subseteq [virt : Nat, phys : Nat, size : Nat]
    <3>1. [virt |-> arg[c].virt, phys |-> arg[c].phys, size |-> arg[c].size]
             \in [virt : Nat, phys : Nat, size : Nat]
      BY <1>1 DEF Calls
    <3> QED
      BY <1>5, <3>1 DEF Types
  <2> QED
    BY <1>6, <1>9, <2>1, <2>3, <2>4, <2>5 DEF Types
\* What the written entry is the entry of.
<1>15. ASSUME NEW p \in Pages, NEW l \in 1..4, cur \in TableOn(p, l), Index(p, l) = Index(v, lv)
       PROVE  l = lv /\ SameSlot(p, v, lv)
  <2>1. TableOn(p, l) \cap TableOn(v, lv) # {}
    BY <1>2, <1>15
  <2>2. l = lv /\ SameSlot(p, v, lv + 1)
    BY <2>1 DEF OnePlace
  <2> QED
    BY <1>15, <2>2, SlotSplit
<1>16. \A p \in Pages, l \in 1..4 : \A t \in TableOn(p, l) :
          t # cur \/ Index(p, l) # Index(v, lv) => table'[t][Index(p, l)] = table[t][Index(p, l)]
  BY <1>9, <1>10, SlotStep DEF TreeInv
<1>17. ASSUME lv = 2
       PROVE  /\ v % Fan = 0 /\ n = Fan /\ Run(v, Fan) \subseteq Left(c)
              /\ \A p \in Pages : SameSlot(p, v, 2) <=> p \in Run(v, Fan)
  <2>1. v % Fan = 0 /\ n = Fan
    BY <1>2, <1>3, <1>4, <1>17 DEF Huge
  <2>2. v \in Nat /\ Fan \in Nat
    BY PagesAreNat, SpanValues
  <2>3. Run(v, Fan) \subseteq Left(c)
    BY <1>2, <1>4, <2>1, <2>2 DEF Left, Run
  <2> QED
    BY <2>1, <2>3, LowSlots
<1>18. ASSUME lv = 2
       PROVE  ~(table[cur][Index(v, 2)].present /\ ~table[cur][Index(v, 2)].huge)
  <2> SUFFICES ASSUME table[cur][Index(v, 2)].present, ~table[cur][Index(v, 2)].huge
               PROVE  FALSE
    OBVIOUS
  <2>1. cur \in TableOn(v, 2)
    BY <1>2, <1>18
  <2>2. PICK r \in Pages :
          /\ SameSlot(r, v, 2)
          /\ \A d \in Mappers : Busy(d) /\ r \in Left(d) => r = Virt(d) /\ ~Huge(d)
    BY <2>1 DEF LinkInv
  <2>3. r \in Left(c)
    BY <1>17, <1>18, <2>2
  <2> QED
    BY <1>1, <1>3, <1>18, <2>2, <2>3
<1>19. \A p \in Pages, l \in 1..4 : TableOn(p, l)' = TableOn(p, l)
  <2>1. ASSUME NEW p \in Pages, NEW l \in 2..4, NEW t \in TableOn(p, l), NEW f
        PROVE  Leads(t, p, l, f)' <=> Leads(t, p, l, f)
    <3>1. CASE t = cur /\ Index(p, l) = Index(v, lv)
      <4>1. lv = 2 /\ l = 2
        BY <1>15, <3>1
      <4>2. ~Leads(t, p, l, f)
        BY <1>18, <3>1, <4>1 DEF Leads
      <4>3. ~ (Leads(t, p, l, f)')
        BY <1>7, <1>10, <3>1, <4>1 DEF Leads
      <4> QED
        BY <4>2, <4>3
    <3>2. CASE ~(t = cur /\ Index(p, l) = Index(v, lv))
      <4>1. table'[t][Index(p, l)] = table[t][Index(p, l)]
        BY <1>16, <3>2
      <4> QED
        BY <4>1 DEF Leads
    <3> QED
      BY <3>1, <3>2
  <2> QED
    BY <2>1, SameTree
\* What is left of the call.
<1>20. \A d \in Mappers : d # c => SameCall(d)
  BY <1>11, OtherCall DEF SameCall
<1>21. ASSUME ~done
       PROVE  /\ Virt(c)' = v + n /\ left - n \in Nat \ {0} /\ Held(c)' = Held(c)
              /\ Left(c)' = Run(v + n, left - n) /\ LeafLevel(c)' \in {1, 2}
  <2>1. arg[c].offset \in Nat /\ arg[c].size \in Nat /\ arg[c].virt \in Nat
    BY <1>1 DEF Calls
  <2>2. Virt(c)' = v + n
    BY <1>2, <1>13, <1>21, <2>1 DEF Virt
  <2>3. left - n \in Nat \ {0}
    BY <1>4, <1>5, <1>21, <2>1
  <2>4. arg'[c].size - arg'[c].offset = left - n
    BY <1>4, <1>13, <1>21, <2>1
  <2>5. Left(c)' = Run(v + n, left - n)
    BY <2>2, <2>4 DEF Left, Run
  <2>6. Held(c)' = Held(c)
    BY <1>13, <1>21 DEF Held, Run
  <2>7. LeafLevel(c)' \in {1, 2}
    BY DEF LeafLevel
  <2> QED
    BY <2>2, <2>3, <2>5, <2>6, <2>7
<1>22. Left(c) = Run(v, left) /\ v \in Nat
  BY <1>2, <1>4, PagesAreNat DEF Left
<1>23. ASSUME Busy(c)'
       PROVE  /\ ~done /\ Left(c)' \subseteq Left(c)
              /\ \A p \in Run(v, n) : p \notin Left(c)'
  <2>1. ~done
    BY <1>12, <1>23
  <2> QED
    BY <1>4, <1>21, <1>22, <2>1 DEF Run
<1>24. FramesInv'
  <2>1. ASSUME NEW d \in Mappers, Busy(d)'
        PROVE  Busy(d) /\ Held(d)' = Held(d)
    BY <1>1, <1>20, <1>21, <1>23, <2>1 DEF SameCall
  <2>2. PICK mine : mine = [virt |-> arg[c].virt, phys |-> arg[c].phys, size |-> arg[c].size]
    OBVIOUS
  <2>3. Kept(mine) = Held(c)
    BY <2>2 DEF Kept, Held
  <2>4. \A b \in blocks' : b \in blocks \/ (done /\ b = mine)
    BY <1>5, <2>2
  <2>5. \A b \in blocks' : Kept(b)' = Kept(b) /\ Kept(b) \subseteq taken \ DOMAIN table
    <3>1. \A b \in blocks' : Kept(b)' = Kept(b)
      BY DEF Kept
    <3> QED
      BY <1>1, <2>3, <2>4, <3>1 DEF FramesInv
  <2>6. ASSUME NEW d \in Mappers, NEW b \in blocks', Busy(d)'
        PROVE  Held(d)' \cap Kept(b)' = {}
    <3>1. CASE b \in blocks
      BY <2>1, <2>5, <2>6, <3>1 DEF FramesInv
    <3>2. CASE done /\ b = mine
      <4>1. d # c
        BY <1>12, <2>6, <3>2
      <4> QED
        BY <1>1, <2>1, <2>3, <2>5, <2>6, <3>2, <4>1 DEF FramesInv
    <3> QED
      BY <2>4, <3>1, <3>2
  <2>7. ASSUME NEW b \in blocks', NEW d \in blocks', b # d
        PROVE  Kept(b)' \cap Kept(d)' = {}
    <3>1. CASE b \in blocks /\ d \in blocks
      BY <2>5, <2>7, <3>1 DEF FramesInv
    <3>2. CASE b = mine /\ d \in blocks
      BY <1>1, <2>3, <2>5, <3>2 DEF FramesInv
    <3>3. CASE d = mine /\ b \in blocks
      BY <1>1, <2>3, <2>5, <3>3 DEF FramesInv
    <3> QED
      BY <2>4, <2>7, <3>1, <3>2, <3>3
  <2>8. ASSUME NEW d \in Mappers, NEW e \in Mappers, Busy(d)', Busy(e)', d # e
        PROVE  Held(d)' \cap Held(e)' = {}
    BY <2>1, <2>8 DEF FramesInv
  <2>9. \A d \in Mappers : Busy(d)' => Held(d)' \subseteq taken' \ DOMAIN table'
    <3>1. \A d \in Mappers : Busy(d) => Held(d) \subseteq taken \ DOMAIN table
      BY DEF FramesInv
    <3>2. taken' \ DOMAIN table' = taken \ DOMAIN table
      BY <1>6, <1>9
    <3> QED
      BY <2>1, <3>1, <3>2
  <2>10. root \in DOMAIN table' /\ DOMAIN table' \subseteq taken'
    BY <1>6, <1>9 DEF FramesInv
  <2> QED
    BY <1>6, <1>9, <2>5, <2>6, <2>7, <2>8, <2>9, <2>10 DEF FramesInv
<1>25. CallInv'
  <2>1. ASSUME NEW d \in Mappers, d # c, Busy(d)'
        PROVE  /\ arg'[d] = arg[d] /\ pc'[d] = pc[d] /\ Busy(d) /\ LeafLevel(d)' = LeafLevel(d)
    BY <1>11, <1>20, <2>1 DEF SameCall
  <2>2. ASSUME Busy(c)'
        PROVE  /\ arg'[c].offset < arg'[c].size
               /\ arg'[c].virt + arg'[c].size <= heap_ptr'
               /\ arg'[c].virt + arg'[c].size <= LastPage + 1
               /\ arg'[c].level >= LeafLevel(c)' /\ pc'[c] = "walk"
    <3>1. ~done
      BY <1>23, <2>2
    <3>2. arg[c].offset + n < arg[c].size
      BY <1>1, <1>4, <1>5, <3>1 DEF Calls
    <3> QED
      BY <1>1, <1>6, <1>13, <1>21, <3>1, <3>2 DEF CallInv
  <2> QED
    BY <1>6, <2>1, <2>2 DEF CallInv
<1>26. WalkInv'
  <2>1. ASSUME NEW d \in Mappers, d # c, Busy(d)'
        PROVE  TableOn(Virt(d), arg[d].level)' = {arg'[d].cur}
    <3>1. /\ arg'[d] = arg[d] /\ Busy(d) /\ Virt(d)' = Virt(d) /\ arg[d] \in Calls
      BY <1>11, <1>20, <2>1 DEF SameCall, Types
    <3>2. PICK w \in Pages, l \in 1..4 : w = Virt(d) /\ l = arg[d].level
      BY <3>1, PageOfCall DEF Calls
    <3> QED
      BY <1>19, <3>1, <3>2 DEF WalkInv
  <2>2. ASSUME Busy(c)'
        PROVE  TableOn(Virt(c), arg[c].level)' = {arg'[c].cur}
    <3>1. ~done
      BY <1>23, <2>2
    <3>2. arg'[c].level = 4 /\ arg'[c].cur = root
      BY <1>13, <3>1
    <3> QED
      BY <3>2, WayNext
  <2> QED
    BY <2>1, <2>2 DEF WalkInv
<1>27. NewInv'
  <2>1. ASSUME NEW d \in Mappers, pc'[d] = "install"
        PROVE  d # c /\ arg'[d] = arg[d] /\ pc[d] = "install"
    BY <1>11, <1>12, <1>13, <2>1
  <2>2. ASSUME NEW d \in Mappers, pc'[d] = "install"
        PROVE  arg[d].new # cur
    BY <1>2, <2>1, <2>2 DEF NewInv
  <2>3. ASSUME NEW d \in Mappers, pc'[d] = "install"
        PROVE  /\ arg'[d].new \in DOMAIN table' /\ table'[arg'[d].new] = Zeroed
               /\ \A p \in Pages, l \in 1..4 : arg'[d].new \notin TableOn(p, l)'
               /\ \A e \in Mappers : e # d /\ pc'[e] = "install" => arg'[d].new # arg'[e].new
    BY <1>9, <1>19, <2>1, <2>2, <2>3 DEF NewInv
  <2>4. Zeroed' = Zeroed
    BY DEF Zeroed, Absent
  <2> QED
    BY <2>3, <2>4 DEF NewInv
<1>28. AloneInv'
  <2>1. ASSUME NEW d \in Mappers, Busy(d)'
        PROVE  Busy(d) /\ Left(d)' \subseteq Left(d)
    BY <1>1, <1>20, <1>23, <2>1 DEF SameCall
  <2> QED
    BY <2>1 DEF AloneInv
<1>29. TreeInv' /\ OnePlace'
  BY <1>9, <1>19 DEF TreeInv, OnePlace, SameSlot
<1>30. HugeInv'
  <2> SUFFICES ASSUME NEW q \in Pages, NEW l \in 2..4, NEW t \in TableOn(q, l)',
                      table'[t][Index(q, l)].huge
               PROVE  /\ l = 2 /\ q < heap_ptr
                      /\ \A d \in Mappers : Busy(d)' => q \notin Left(d)'
    BY <1>6 DEF HugeInv
  <2>0. t \in TableOn(q, l)
    BY <1>19
  <2>1. CASE t = cur /\ Index(q, l) = Index(v, lv)
    <3>1. lv = 2 /\ l = 2 /\ SameSlot(q, v, 2)
      BY <1>15, <2>0, <2>1
    <3>2. q \in Run(v, n) /\ q \in Left(c)
      BY <1>17, <3>1
    <3>3. q < heap_ptr
      BY <1>1, <3>2, PageOfCall
    <3>4. \A d \in Mappers : d # c /\ Busy(d)' => q \notin Left(d)'
      BY <1>1, <1>20, <3>2 DEF AloneInv, SameCall
    <3> QED
      BY <1>23, <3>1, <3>2, <3>3, <3>4
  <2>2. CASE ~(t = cur /\ Index(q, l) = Index(v, lv))
    <3>1. table[t][Index(q, l)].huge
      BY <1>16, <2>0, <2>2
    <3>2. l = 2 /\ q < heap_ptr /\ \A d \in Mappers : Busy(d) => q \notin Left(d)
      BY <2>0, <3>1 DEF HugeInv
    <3> QED
      BY <1>1, <1>20, <1>23, <3>2 DEF SameCall
  <2> QED
    BY <2>1, <2>2
<1>31. LinkInv'
  <2> SUFFICES ASSUME NEW q \in Pages, NEW t \in TableOn(q, 2),
                      table'[t][Index(q, 2)].present, ~table'[t][Index(q, 2)].huge
               PROVE  \E r \in Pages :
                         /\ SameSlot(r, q, 2) /\ r < heap_ptr
                         /\ \A d \in Mappers : Busy(d)' /\ r \in Left(d)' =>
                               r = Virt(d)' /\ ~ (Huge(d)')
    BY <1>6, <1>19 DEF LinkInv, SameSlot
  <2>1. ~(t = cur /\ Index(q, 2) = Index(v, lv))
    BY <1>7, <1>10, <1>15
  <2>2. table'[t][Index(q, 2)] = table[t][Index(q, 2)]
    BY <1>16, <2>1
  <2>3. PICK r \in Pages :
          /\ SameSlot(r, q, 2) /\ r < heap_ptr
          /\ \A d \in Mappers : Busy(d) /\ r \in Left(d) => r = Virt(d) /\ ~Huge(d)
    BY <2>2 DEF LinkInv
  <2>4. ASSUME Busy(c)', r \in Left(c)'
        PROVE  FALSE
    <3>1. r = v
      BY <1>1, <1>2, <1>23, <2>3, <2>4
    <3>2. v \in Run(v, n)
      BY <1>4, <1>22 DEF Run
    <3> QED
      BY <1>23, <2>4, <3>1, <3>2
  <2>5. \A d \in Mappers : d # c /\ Busy(d)' /\ r \in Left(d)' => r = Virt(d)' /\ ~ (Huge(d)')
    BY <1>20, <2>3 DEF SameCall
  <2> QED
    BY <2>3, <2>4, <2>5
<1>32. SpaceInv'
  <2> SUFFICES ASSUME NEW p \in Pages
               PROVE  Translation(p)' = IF p \in DOMAIN space' THEN {space'[p]} ELSE {}
    BY DEF SpaceInv
  <2>1. p \in Run(v, n) <=> SameSlot(p, v, lv)
    <3>1. CASE lv = 2
      BY <1>17, <3>1
    <3>2. CASE lv = 1
      <4>1. n = 1 /\ p \in Nat
        BY <1>3, <1>4, <3>2, PagesAreNat
      <4> QED
        BY <1>22, <3>2, <4>1, LowSlots DEF Run
    <3> QED
      BY <3>1, <3>2
  <2>2. CASE p \notin Run(v, n)
    <3>1. \A l \in {1, 2} : \A t \in TableOn(p, l) :
             table'[t][Index(p, l)] = table[t][Index(p, l)]
      BY <1>15, <1>16, <2>1, <2>2
    <3>2. Translation(p)' = Translation(p)
      BY <1>19, <3>1, SameTarget
    <3>3. (p \in DOMAIN space' <=> p \in DOMAIN space) /\ (p \in DOMAIN space => space'[p] = space[p])
      BY <1>5, <2>2
    <3> QED
      BY <3>2, <3>3 DEF SpaceInv
  <2>3. CASE p \in Run(v, n)
    <3>1. SameSlot(v, p, lv + 1) /\ Index(p, lv) = Index(v, lv)
      BY <2>1, <2>3, SlotSplit DEF SameSlot
    <3>2. TableOn(p, lv)' = {cur}
      BY <1>2, <1>19, <3>1, OneTable
    <3>3. table'[cur][Index(p, lv)] = leaf
      BY <1>10, <3>1
    <3>4. Target(p)' = {[table |-> cur, level |-> lv]}
      <4>1. CASE lv = 1
        <5>1. \A t \in TableOn(p, 2)' : ~(table'[t][Index(p, 2)].present /\ table'[t][Index(p, 2)].huge)
          <6>1. PICK t \in TableOn(p, 2)' : LET e == table'[t][Index(p, 2)]
                                            IN  e.present /\ ~e.huge /\ cur = e.frame
            <7>1. cur \in TableOn(p, 1)'
              BY <3>2, <4>1
            <7>2. \A f : f \in TableOn(p, 1)' <=>
                     \E t \in TableOn(p, 2)' : LET e == table'[t][Index(p, 2)]
                                               IN  e.present /\ ~e.huge /\ f = e.frame
              BY WayNext
            <7> QED
              BY <7>1, <7>2
          <6>2. t \in TableOn(p, 2) /\ \A u \in TableOn(p, 2)' : u = t
            BY <1>19, <6>1, OneTable DEF SameSlot
          <6> QED
            BY <6>1, <6>2
        <5> QED
          BY <1>7, <3>2, <3>3, <4>1, <5>1 DEF Target
      <4>2. CASE lv = 2
        <5>1. TableOn(p, 1)' = {}
          <6>1. \A f : f \in TableOn(p, 1)' <=>
                   \E t \in TableOn(p, 2)' : LET e == table'[t][Index(p, 2)]
                                             IN  e.present /\ ~e.huge /\ f = e.frame
            BY WayNext
          <6> QED
            BY <1>7, <3>2, <3>3, <4>2, <6>1
        <5> QED
          BY <1>7, <3>2, <3>3, <4>2, <5>1 DEF Target
      <4> QED
        BY <4>1, <4>2
    <3>5. Translation(p)' = {leaf.frame + (p % Span[lv])}
      BY <3>3, <3>4 DEF Translation
    <3>6. p % Span[lv] = p - v
      <4>1. CASE lv = 1
        BY <1>22, <2>1, <2>3, <4>1, LowSlots
      <4>2. CASE lv = 2
        BY <1>17, <2>1, <2>3, <4>2, LowSlots
      <4> QED
        BY <4>1, <4>2
    <3>7. p \in DOMAIN space' /\ space'[p] = Phys(c) + (p - v)
      BY <1>5, <2>3
    <3> QED
      BY <1>7, <3>5, <3>6, <3>7
  <2> QED
    BY <2>2, <2>3
<1>33. BlocksInv'
  <2>1. arg[c].virt \in Pages
    <3>1. /\ arg[c].virt \in Nat /\ arg[c].size \in Nat /\ arg[c].offset \in Nat
          /\ arg[c].offset < arg[c].size /\ arg[c].virt + arg[c].size <= LastPage + 1
      BY <1>1 DEF CallInv, Calls
    <3>2. LastPage \in 0..(Span[5] - 1) /\ Span[5] \in Nat
      BY PagingAssumption, SpanValues DEF Pages
    <3> QED
      BY <3>1, <3>2 DEF Pages
  <2> QED
    BY <1>5, <2>1 DEF BlocksInv
<1> QED
  BY <1>14, <1>24, <1>25, <1>26, <1>27, <1>28, <1>29, <1>30, <1>31, <1>32, <1>33

LEMMA UnmapKeeps ==
    ASSUME Types, Tree, NEW b \in blocks, Unmap(b)
    PROVE  Types' /\ Tree'
<1> USE DEF Tree
<1> DEFINE Cleared(t, i) == \E e \in Target(b.virt) : e.table = t /\ Index(b.virt, e.level) = i
<1>1. /\ taken' = taken \ Run(b.phys, b.size) /\ blocks' = blocks \ {b}
      /\ table' = [t \in DOMAIN table |->
                     [i \in 0..(Fan - 1) |->
                        IF Cleared(t, i) THEN [table[t][i] EXCEPT !.present = FALSE]
                                         ELSE table[t][i]]]
      /\ space' = [p \in {p \in DOMAIN space :
                            \A e \in Target(b.virt) :
                               p \div Span[e.level] # b.virt \div Span[e.level]} |-> space[p]]
      /\ heap_ptr' = heap_ptr /\ pc' = pc /\ arg' = arg /\ raced' = raced /\ oom' = oom
  BY DEF Unmap
<1>2. b.virt \in Pages
  BY DEF BlocksInv
<1>3. \A e \in Target(b.virt) :
         /\ e.level \in {1, 2} /\ e.table \in TableOn(b.virt, e.level)
         /\ table[e.table][Index(b.virt, e.level)].present
         /\ e.level = 1 \/ table[e.table][Index(b.virt, e.level)].huge
  BY DEF Target
<1>4. DOMAIN table' = DOMAIN table
  BY <1>1
<1>5. \A t \in DOMAIN table, i \in 0..(Fan - 1) :
         /\ table'[t][i] \in Entries
         /\ table'[t][i].huge = table[t][i].huge /\ table'[t][i].frame = table[t][i].frame
         /\ Cleared(t, i) => ~table'[t][i].present
         /\ ~Cleared(t, i) => table'[t][i] = table[t][i]
  <2> SUFFICES ASSUME NEW t \in DOMAIN table, NEW i \in 0..(Fan - 1)
               PROVE  /\ table'[t][i] \in Entries
                      /\ table'[t][i].huge = table[t][i].huge
                      /\ table'[t][i].frame = table[t][i].frame
                      /\ Cleared(t, i) => ~table'[t][i].present
                      /\ ~Cleared(t, i) => table'[t][i] = table[t][i]
    OBVIOUS
  <2>1. table[t][i] \in Entries
    BY DEF Types
  <2> HIDE DEF Cleared
  <2>2. table'[t][i] = IF Cleared(t, i) THEN [table[t][i] EXCEPT !.present = FALSE]
                                        ELSE table[t][i]
    BY <1>1
  <2> QED
    BY <2>1, <2>2 DEF Entries
<1>6. ASSUME NEW p \in Pages, NEW l \in 1..4, NEW t \in TableOn(p, l), Cleared(t, Index(p, l))
      PROVE  \E e \in Target(b.virt) : e.level = l /\ e.table = t /\ SameSlot(p, b.virt, l)
  <2>1. PICK e \in Target(b.virt) : e.table = t /\ Index(b.virt, e.level) = Index(p, l)
    BY <1>6
  <2>2. PICK m \in {1, 2} : m = e.level /\ t \in TableOn(b.virt, m)
    BY <1>3, <2>1
  <2>3. l = m /\ SameSlot(p, b.virt, l + 1)
    BY <1>2, <2>2 DEF OnePlace
  <2>4. SameSlot(p, b.virt, l)
    BY <1>2, <2>1, <2>2, <2>3, SlotSplit
  <2> QED
    BY <2>1, <2>2, <2>3, <2>4
<1> HIDE DEF Cleared
<1>7. \A p \in Pages, l \in 1..4 : \A t \in TableOn(p, l) :
         t \in DOMAIN table /\ Index(p, l) \in 0..(Fan - 1)
  BY SlotStep DEF TreeInv
<1>8. \A p \in Pages, l \in 1..4 : TableOn(p, l)' = TableOn(p, l)
  <2>1. ASSUME NEW p \in Pages, NEW l \in 2..4, NEW t \in TableOn(p, l), NEW f
        PROVE  Leads(t, p, l, f)' <=> Leads(t, p, l, f)
    <3>1. t \in DOMAIN table /\ Index(p, l) \in 0..(Fan - 1)
      BY <1>7
    <3>2. CASE Cleared(t, Index(p, l))
      <4>1. PICK e \in Target(b.virt) : e.level = l /\ e.table = t /\ SameSlot(p, b.virt, l)
        BY <1>6, <3>2
      <4>2. Index(p, l) = Index(b.virt, l)
        BY <1>2, <4>1, SlotSplit
      <4>3. table[t][Index(p, l)].huge
        BY <1>3, <4>1, <4>2
      <4> QED
        BY <1>5, <3>1, <3>2, <4>3 DEF Leads
    <3>3. CASE ~Cleared(t, Index(p, l))
      BY <1>5, <3>1, <3>3 DEF Leads
    <3> QED
      BY <3>2, <3>3
  <2> QED
    BY <2>1, SameTree
<1>9. Types'
  <2>1. table' \in [DOMAIN table' -> [0..(Fan - 1) -> Entries]]
    <3>1. ASSUME NEW t \in DOMAIN table PROVE table'[t] \in [0..(Fan - 1) -> Entries]
      <4>1. DOMAIN table'[t] = 0..(Fan - 1)
             /\ table'[t] = [i \in 0..(Fan - 1) |-> table'[t][i]]
        BY <1>1
      <4> QED
        BY <1>5, <4>1
    <3> QED
      BY <1>1, <3>1
  <2> QED
    BY <1>1, <1>4, <2>1 DEF Types
<1>10. \A d \in Mappers : SameCall(d)
  BY <1>1, OtherCall DEF SameCall
<1>11. FramesInv'
  <2>1. Kept(b) \subseteq taken \ DOMAIN table /\ taken' = taken \ Kept(b)
    BY <1>1 DEF FramesInv, Kept
  <2>2. root \in DOMAIN table' /\ DOMAIN table' \subseteq taken'
    BY <1>4, <2>1 DEF FramesInv
  <2>3. \A d \in Mappers : Busy(d)' => Held(d)' \subseteq taken' \ DOMAIN table'
    BY <1>4, <1>10, <2>1 DEF FramesInv, SameCall
  <2>4. \A d \in blocks' : Kept(d)' \subseteq taken' \ DOMAIN table'
    <3>1. \A d \in blocks' : d \in blocks /\ d # b /\ Kept(d)' = Kept(d)
      BY <1>1 DEF Kept
    <3> QED
      BY <1>4, <2>1, <3>1 DEF FramesInv
  <2>5. /\ \A d, e \in Mappers : Busy(d)' /\ Busy(e)' /\ d # e => Held(d)' \cap Held(e)' = {}
        /\ \A d \in Mappers, e \in blocks' : Busy(d)' => Held(d)' \cap Kept(e)' = {}
        /\ \A d, e \in blocks' : d # e => Kept(d)' \cap Kept(e)' = {}
    BY <1>1, <1>10 DEF FramesInv, SameCall, Kept
  <2> QED
    BY <2>2, <2>3, <2>4, <2>5 DEF FramesInv
<1>12. BlocksInv'
  BY <1>1 DEF BlocksInv
<1>13. CallInv'
  BY <1>1, <1>10 DEF CallInv, SameCall
<1>14. WalkInv'
  <2> SUFFICES ASSUME NEW d \in Mappers, Busy(d)'
               PROVE  TableOn(Virt(d), arg[d].level)' = {arg'[d].cur}
    BY DEF WalkInv
  <2>1. arg'[d] = arg[d] /\ Busy(d) /\ Virt(d)' = Virt(d) /\ arg[d] \in Calls
    BY <1>1, <1>10 DEF SameCall, Types
  <2>2. PICK v \in Pages, l \in 1..4 : v = Virt(d) /\ l = arg[d].level
    BY <2>1, PageOfCall DEF Calls
  <2> QED
    BY <1>8, <2>1, <2>2 DEF WalkInv
<1>15. NewInv'
  <2>1. ASSUME NEW d \in Mappers, pc[d] = "install"
        PROVE  table'[arg[d].new] = Zeroed
    <3>1. PICK t \in DOMAIN table : t = arg[d].new /\ table[t] = Zeroed
      BY <2>1 DEF NewInv
    <3>2. \A i : ~Cleared(t, i)
      BY <1>2, <1>3, <2>1, <3>1 DEF NewInv, Cleared
    <3>3. table'[t] = [i \in 0..(Fan - 1) |-> table[t][i]]
      BY <1>1, <3>2
    <3> QED
      BY <3>1, <3>3 DEF Zeroed
  <2>2. Zeroed' = Zeroed
    BY DEF Zeroed, Absent
  <2> QED
    BY <1>1, <1>4, <1>8, <2>1, <2>2 DEF NewInv
<1>16. AloneInv'
  BY <1>10 DEF AloneInv, SameCall
<1>17. TreeInv' /\ OnePlace'
  BY <1>4, <1>8 DEF TreeInv, OnePlace, SameSlot
<1>18. HugeInv'
  <2> SUFFICES ASSUME NEW q \in Pages, NEW l \in 2..4, NEW t \in TableOn(q, l)',
                      table'[t][Index(q, l)].huge
               PROVE  /\ l = 2 /\ q < heap_ptr
                      /\ \A d \in Mappers : Busy(d) => q \notin Left(d)
    BY <1>1, <1>10 DEF HugeInv, SameCall
  <2>1. t \in TableOn(q, l)
    BY <1>8
  <2>2. table[t][Index(q, l)].huge
    BY <1>5, <1>7, <2>1
  <2> QED
    BY <2>1, <2>2 DEF HugeInv
<1>19. LinkInv'
  <2> SUFFICES ASSUME NEW q \in Pages, NEW t \in TableOn(q, 2)',
                      table'[t][Index(q, 2)].present, ~table'[t][Index(q, 2)].huge
               PROVE  \E r \in Pages :
                         /\ SameSlot(r, q, 2) /\ r < heap_ptr
                         /\ \A d \in Mappers : Busy(d) /\ r \in Left(d) => r = Virt(d) /\ ~Huge(d)
    BY <1>1, <1>10 DEF LinkInv, SameCall, SameSlot
  <2>1. t \in TableOn(q, 2)
    BY <1>8
  <2>2. table'[t][Index(q, 2)] = table[t][Index(q, 2)]
    BY <1>5, <1>7, <2>1
  <2> QED
    BY <2>1, <2>2 DEF LinkInv
<1>20. SpaceInv'
  <2> SUFFICES ASSUME NEW p \in Pages
               PROVE  Translation(p)' = IF p \in DOMAIN space' THEN {space'[p]} ELSE {}
    BY DEF SpaceInv
  <2>1. CASE \A e \in Target(b.virt) : ~SameSlot(p, b.virt, e.level)
    <3>1. \A l \in {1, 2} : \A t \in TableOn(p, l) : ~Cleared(t, Index(p, l))
      BY <1>6, <2>1
    <3>2. \A l \in {1, 2} : \A t \in TableOn(p, l) :
             table'[t][Index(p, l)] = table[t][Index(p, l)]
      BY <1>5, <1>7, <3>1
    <3>3. Translation(p)' = Translation(p)
      BY <1>8, <3>2, SameTarget
    <3>4. (p \in DOMAIN space' <=> p \in DOMAIN space) /\ (p \in DOMAIN space => space'[p] = space[p])
      BY <1>1, <2>1 DEF SameSlot
    <3> QED
      BY <3>3, <3>4 DEF SpaceInv
  <2>2. CASE \E e \in Target(b.virt) : SameSlot(p, b.virt, e.level)
    <3>1. PICK e \in Target(b.virt) : SameSlot(p, b.virt, e.level)
      BY <2>2
    <3>2. PICK m \in {1, 2}, t \in DOMAIN table :
            /\ m = e.level /\ t = e.table /\ t \in TableOn(b.virt, m) /\ SameSlot(p, b.virt, m)
            /\ table[t][Index(b.virt, m)].present
            /\ m = 1 \/ table[t][Index(b.virt, m)].huge
      BY <1>2, <1>3, <1>7, <3>1
    <3>3. SameSlot(b.virt, p, m + 1) /\ Index(p, m) = Index(b.virt, m)
      BY <1>2, <3>2, SlotSplit DEF SameSlot
    <3>4. TableOn(p, m) = {t}
      BY <1>2, <3>2, <3>3, OneTable
    <3>5. Cleared(t, Index(p, m))
      BY <3>1, <3>2, <3>3 DEF Cleared
    <3>6. ~table'[t][Index(p, m)].present
      BY <1>5, <1>7, <3>4, <3>5
    <3>7. Target(p)' = {}
      <4>1. CASE m = 1
        <5>1. \A u \in TableOn(p, 2) : ~table[u][Index(p, 2)].huge
          <6>1. PICK u \in TableOn(p, 2) : LET g == table[u][Index(p, 2)]
                                           IN  g.present /\ ~g.huge /\ t = g.frame
            BY <3>4, <4>1, Way
          <6>2. \A w \in TableOn(p, 2) : w = u
            BY <6>1, OneTable DEF SameSlot
          <6> QED
            BY <6>1, <6>2
        <5>2. \A u \in TableOn(p, 2) : ~table'[u][Index(p, 2)].huge
          BY <1>5, <1>7, <5>1
        <5> QED
          BY <1>8, <3>4, <3>6, <4>1, <5>2 DEF Target
      <4>2. CASE m = 2
        <5>1. TableOn(p, 1) = {}
          <6>1. \A f : f \in TableOn(p, 1) <=>
                   \E u \in TableOn(p, 2) : LET g == table[u][Index(p, 2)]
                                            IN  g.present /\ ~g.huge /\ f = g.frame
            BY Way
          <6> QED
            BY <3>2, <3>3, <3>4, <4>2, <6>1
        <5> QED
          BY <1>8, <3>4, <3>6, <4>2, <5>1 DEF Target
      <4> QED
        BY <4>1, <4>2
    <3>8. Translation(p)' = {}
      BY <3>7 DEF Translation
    <3>9. p \notin DOMAIN space'
      BY <1>1, <3>1 DEF SameSlot
    <3> QED
      BY <3>8, <3>9
  <2> QED
    BY <2>1, <2>2
<1> QED
  BY <1>9, <1>11, <1>12, <1>13, <1>14, <1>15, <1>16, <1>17, <1>18, <1>19, <1>20

-----------------------------------------------------------------------------
(* The theorems *)

LEMMA IInvInit == Init => IInv
<1> SUFFICES ASSUME Init PROVE IInv
  OBVIOUS
<1> USE DEF Init
<1>1. root \in Nat /\ Fan \in Nat
  BY RootIsFrame, PagingAssumption
<1>2. Zeroed \in [0..(Fan - 1) -> Entries] /\ NoCall \in Calls
  BY DEF Zeroed, Absent, Entries, NoCall, Calls
<1>3. /\ DOMAIN table = {root} /\ table[root] = Zeroed /\ blocks = {} /\ DOMAIN space = {}
      /\ \A c \in Mappers : pc[c] = "idle" /\ ~Busy(c)
  BY DEF Busy
<1>4. Types
  BY <1>1, <1>2, <1>3, PagingAssumption DEF Types
<1>5. \A p \in Pages : TableOn(p, 4) = {root} /\ TableOn(p, 3) = {} /\ TableOn(p, 2) = {}
                         /\ TableOn(p, 1) = {}
  <2> SUFFICES ASSUME NEW p \in Pages
               PROVE  TableOn(p, 4) = {root} /\ TableOn(p, 3) = {} /\ TableOn(p, 2) = {}
                         /\ TableOn(p, 1) = {}
    OBVIOUS
  <2>1. ~table[root][Index(p, 4)].present
    BY <1>3, SlotStep DEF Zeroed, Absent
  <2>2. TableOn(p, 4) = {root}
    BY Way
  <2>3. TableOn(p, 3) = {}
    <3>1. \A f : f \in TableOn(p, 3) <=>
             \E t \in TableOn(p, 4) : LET e == table[t][Index(p, 4)]
                                      IN  e.present /\ ~e.huge /\ f = e.frame
      BY Way
    <3> QED
      BY <2>1, <2>2, <3>1
  <2>4. TableOn(p, 2) = {}
    <3>1. \A f : f \in TableOn(p, 2) <=>
             \E t \in TableOn(p, 3) : LET e == table[t][Index(p, 3)]
                                      IN  e.present /\ ~e.huge /\ f = e.frame
      BY Way
    <3> QED
      BY <2>3, <3>1
  <2>5. TableOn(p, 1) = {}
    <3>1. \A f : f \in TableOn(p, 1) <=>
             \E t \in TableOn(p, 2) : LET e == table[t][Index(p, 2)]
                                      IN  e.present /\ ~e.huge /\ f = e.frame
      BY Way
    <3> QED
      BY <2>4, <3>1
  <2> QED
    BY <2>2, <2>3, <2>4, <2>5
<1>6. FramesInv /\ BlocksInv /\ CallInv /\ WalkInv /\ NewInv /\ AloneInv
  BY <1>3 DEF FramesInv, BlocksInv, CallInv, WalkInv, NewInv, AloneInv
<1>7. \A p \in Pages, l \in 1..4 : (l = 4 /\ TableOn(p, l) = {root}) \/ (l # 4 /\ TableOn(p, l) = {})
  BY <1>5
<1>8. TreeInv
  BY <1>3, <1>7 DEF TreeInv
<1>9. OnePlace
  <2> SUFFICES ASSUME NEW p \in Pages, NEW q \in Pages, NEW l \in 1..4, NEW m \in 1..4,
                      TableOn(p, l) \cap TableOn(q, m) # {}
               PROVE  l = m /\ SameSlot(p, q, l + 1)
    BY DEF OnePlace
  <2>1. l = 4 /\ m = 4
    BY <1>7
  <2> QED
    BY <2>1, OneSpace
<1>10. HugeInv /\ LinkInv
  <2>1. ASSUME NEW q \in Pages, NEW l \in 2..4, NEW t \in TableOn(q, l)
        PROVE  ~table[t][Index(q, l)].huge /\ ~table[t][Index(q, l)].present
    <3>1. t = root
      BY <1>7
    <3> QED
      BY <1>3, <3>1, SlotStep DEF Zeroed, Absent
  <2> QED
    BY <2>1 DEF HugeInv, LinkInv
<1>11. SpaceInv
  <2>1. ASSUME NEW p \in Pages PROVE Target(p) = {}
    BY <1>5 DEF Target
  <2> QED
    BY <1>3, <2>1 DEF SpaceInv, Translation
<1> QED
  BY <1>4, <1>6, <1>8, <1>9, <1>10, <1>11 DEF IInv, Tree

LEMMA IInvNext == IInv /\ [Next]_vars => IInv'
<1> SUFFICES ASSUME IInv, [Next]_vars PROVE IInv'
  OBVIOUS
<1>1. CASE Next
  <2>1. Types /\ Tree
    BY <1>1 DEF IInv, Next, Sound
  <2>2. ASSUME NEW c \in Mappers, NEW n \in Sizes, Begin(c, n) PROVE IInv'
    BY <2>1, <2>2, BeginKeeps DEF IInv
  <2>3. ASSUME NEW c \in Mappers, Descend(c) PROVE IInv'
    BY <2>1, <2>3, DescendKeeps DEF IInv
  <2>4. ASSUME NEW c \in Mappers, AllocPageTable(c) PROVE IInv'
    BY <2>1, <2>4, AllocPageTableKeeps DEF IInv
  <2>8. ASSUME NEW c \in Mappers, NoVirtualRange(c) PROVE IInv'
    BY <2>1, <2>8, NoVirtualRangeKeeps DEF IInv
  <2>5. ASSUME NEW c \in Mappers, Install(c) PROVE IInv'
    BY <2>1, <2>5, InstallKeeps DEF IInv
  <2>6. ASSUME NEW c \in Mappers, WriteLeaf(c) PROVE IInv'
    BY <2>1, <2>6, WriteLeafKeeps DEF IInv
  <2>7. ASSUME NEW b \in blocks, Unmap(b) PROVE IInv'
    BY <2>1, <2>7, UnmapKeeps DEF IInv
  <2> QED
    BY <1>1, <2>2, <2>3, <2>4, <2>5, <2>6, <2>7, <2>8 DEF Next
<1>2. CASE UNCHANGED vars
  <2>1. /\ table' = table /\ taken' = taken /\ heap_ptr' = heap_ptr /\ pc' = pc /\ arg' = arg
        /\ blocks' = blocks /\ space' = space /\ raced' = raced /\ oom' = oom
    BY <1>2 DEF vars
  <2>2. Types'
    BY <2>1 DEF IInv, Types
  <2>3. ASSUME Sound, Tree PROVE Tree'
    <3> USE DEF Tree
    <3>1. SameEntries
      BY <2>1 DEF SameEntries
    <3>2. \A p \in Pages, l \in 1..4 : TableOn(p, l)' = TableOn(p, l)
      BY <3>1, SameWays
    <3>3. \A d \in Mappers : SameCall(d)
      BY <2>1, OtherCall DEF SameCall
    <3>4. FramesInv' /\ BlocksInv' /\ CallInv' /\ TreeInv'
      BY <2>1, <2>3, <3>2, <3>3 DEF FramesInv, BlocksInv, CallInv, TreeInv, SameCall, Kept
    <3>5. WalkInv'
      <4> SUFFICES ASSUME NEW d \in Mappers, Busy(d)'
                   PROVE  TableOn(Virt(d), arg[d].level)' = {arg'[d].cur}
        BY DEF WalkInv
      <4>1. arg'[d] = arg[d] /\ Busy(d) /\ Virt(d)' = Virt(d) /\ arg[d] \in Calls
        BY <2>1, <3>3 DEF SameCall, IInv, Types
      <4>2. PICK v \in Pages, l \in 1..4 : v = Virt(d) /\ l = arg[d].level
        BY <2>3, <4>1, PageOfCall DEF Calls, IInv
      <4> QED
        BY <2>3, <3>2, <4>1, <4>2 DEF WalkInv
    <3>6. NewInv'
      <4>1. Zeroed' = Zeroed
        BY DEF Zeroed, Absent
      <4> QED
        BY <2>1, <2>3, <3>2, <4>1 DEF NewInv
    <3> QED
      BY <2>1, <2>3, <3>1, <3>3, <3>4, <3>5, <3>6, PagesStay
  <2> QED
    BY <2>1, <2>2, <2>3 DEF IInv, Sound
<1> QED
  BY <1>1, <1>2

LEMMA IInvHolds == Spec => []IInv
BY IInvInit, IInvNext, PTL DEF Spec

\* pager_map walks only through tables of the tree, although it takes every
\* present entry for a table: no walk comes to a huge page, whichever other
\* walks and unmaps it meets.
THEOREM WalkInTablesHolds == Spec => []WalkInTables
<1>1. IInv => WalkInTables
  BY DEF IInv, Tree, WalkInv, WalkInTables, Busy
<1> QED
  BY <1>1, IInvHolds, PTL

\* The tables translate every page of the address space as the calls of
\* pager_map_range and pager_unmap add up to, at every step of every walk.
THEOREM AddressSpaceRightHolds == Spec => []AddressSpaceRight
<1>1. IInv => AddressSpaceRight
  BY DEF IInv, Tree, SpaceInv, AddressSpaceRight
<1> QED
  BY <1>1, IInvHolds, PTL

\* A frame that pager_map_range maps, or that is mapped, is of one block and
\* holds no table.
BlocksDoNotHoldTables ==
    Sound => /\ \A b \in blocks : Kept(b) \subseteq taken \ DOMAIN table
             /\ \A b, d \in blocks : b # d => Kept(b) \cap Kept(d) = {}

THEOREM BlocksDoNotHoldTablesHolds == Spec => []BlocksDoNotHoldTables
<1>1. IInv => BlocksDoNotHoldTables
  BY DEF IInv, Tree, FramesInv, BlocksDoNotHoldTables
<1> QED
  BY <1>1, IInvHolds, PTL
=============================================================================
