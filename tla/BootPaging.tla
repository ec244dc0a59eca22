------------------------------ MODULE BootPaging ------------------------------
(***************************************************************************)
(* pager_init over the memory map of e820.c, at its real size: which pages *)
(* are mapped when CR3 is loaded.  One step is one call of pager_map.      *)
(*                                                                         *)
(* All mappings are virt = phys + a constant: space "identity" (PML4 slot  *)
(* 0) and space "direct" (slot 256, AOS_DIRECT_MAP_BASE).  Units are pages *)
(* of 4 KB.  A processor that runs in 64-bit mode has at least 36 physical *)
(* address bits and the map ends at 2^32, so the tests of cpu_phys_bits    *)
(* (119, 151, 175) never fire and are left out.                            *)
(***************************************************************************)
EXTENDS Integers, Sequences

HugePages == 512        \* pages of a huge page, entries of a table
GigaPages == 262144     \* pages below one level-2 table

\* init_basic_e820
E820 ==
    << [base |-> 0,       len |-> 768,   ram |-> FALSE],    \* stack, VGA, data
       [base |-> 768,     len |-> 64768, ram |-> TRUE],     \* up to 256 MB
       [base |-> 917504,  len |-> 65536, ram |-> FALSE],    \* PCIe ECAM
       [base |-> 1043456, len |-> 1,     ram |-> FALSE],    \* IOAPIC
       [base |-> 1043968, len |-> 1,     ram |-> FALSE],    \* LAPIC
       [base |-> 1044480, len |-> 4096,  ram |-> FALSE] >>  \* firmware code

End(i) == IF i = 0 THEN 0 ELSE E820[i].base + E820[i].len

\* Mutant of DirectStart: a gap in front of an entry stays unmapped.
DirectStartNoGap(i) == E820[i].base

\* The direct map also covers the gap in front of an entry (last_map_end).
DirectStart(i) == IF E820[i].base > End(i - 1) THEN End(i - 1) ELSE E820[i].base

\* The calls of pager_map_range, in order.  The size of the firmware's range,
\* 0x00FFFFFF, is one byte short of its last page.
Ranges ==
    [i \in 1..Len(E820) |-> [space |-> "direct", first |-> DirectStart(i),
                             pages |-> End(i) - DirectStart(i), short |-> FALSE]]
    \o << [space |-> "identity", first |-> 1044480, pages |-> 4096, short |-> TRUE],
          [space |-> "identity", first |-> 0, pages |-> 128, short |-> FALSE],
          [space |-> "identity", first |-> 256, pages |-> 512, short |-> FALSE] >>

VARIABLES
    range, offset,    \* the call of pager_map_range and its loop variable
    small, huge,      \* pages, and runs of HugePages pages, that are mapped
    tables,           \* page tables: level and number within the space
    loaded            \* CR3 has been loaded

vars == <<range, offset, small, huge, tables, loaded>>

Init ==
    /\ range = 1 /\ offset = 0
    /\ small = {} /\ huge = {}
    /\ tables = {<<4, "root", 0>>}
    /\ loaded = FALSE
-----------------------------------------------------------------------------
Page == Ranges[range].first + offset

IsHuge ==
    /\ Page % HugePages = 0
    /\ IF Ranges[range].short THEN Ranges[range].pages - offset > HugePages
       ELSE Ranges[range].pages - offset >= HugePages

\* pager_map, with the tables it adds, and the step of pager_map_range.
MapNext ==
    LET r == Ranges[range]
        step == IF IsHuge THEN HugePages ELSE 1
    IN
    /\ range <= Len(Ranges)
    /\ tables' = tables \cup {<<3, r.space, 0>>, <<2, r.space, Page \div GigaPages>>}
                        \cup (IF IsHuge THEN {} ELSE {<<1, r.space, Page \div HugePages>>})
    /\ IF IsHuge
       THEN /\ huge' = huge \cup {<<r.space, Page \div HugePages>>}
            /\ UNCHANGED small
       ELSE /\ small' = small \cup {<<r.space, Page>>}
            /\ UNCHANGED huge
    /\ IF offset + step < r.pages
       THEN offset' = offset + step /\ UNCHANGED range
       ELSE offset' = 0 /\ range' = range + 1
    /\ UNCHANGED loaded

PagerLoad ==
    /\ range = Len(Ranges) + 1 /\ ~loaded
    /\ loaded' = TRUE
    /\ UNCHANGED <<range, offset, small, huge, tables>>

Next == MapNext \/ PagerLoad

Spec == Init /\ [][Next]_vars

-----------------------------------------------------------------------------
(* Properties *)

Mapped(space, page) ==
    <<space, page>> \in small \/ <<space, page \div HugePages>> \in huge

(* Once CR3 is loaded, the direct map covers every address from 0 to the   *)
(* end of the map, devices and gaps included, and so the RAM from which    *)
(* the tables below the root were taken, which pager_map and pager_unmap   *)
(* reach through it; and no slot of a level-2 table ever was a huge page   *)
(* and the home of a table at once (pager.c:205, 212).  Of the root, which *)
(* is used by its physical address (180), nothing is said: the identity    *)
(* ranges do not reach it.                                                 *)
DirectMapComplete ==
    /\ loaded => \A page \in 0..(End(Len(E820)) - 1) : Mapped("direct", page)
    /\ \A h \in huge : <<1, h[1], h[2]>> \notin tables
=============================================================================
