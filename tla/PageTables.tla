------------------------------ MODULE PageTables ------------------------------
(***************************************************************************)
(* pager_map_range, pager_map and pager_unmap of pager.c: four levels of   *)
(* tables, huge pages at the second, no lock.  One step is one read or one *)
(* write of an entry, with what the processor does alone around it.        *)
(*                                                                         *)
(* Tables have Fan entries.  The ranges to map come from avmf_alloc: pages *)
(* that were never mapped before (heap pointers only grow), frames that    *)
(* are nobody else's (FramesExclusive and PagesExclusive of Avmf).         *)
(***************************************************************************)
EXTENDS Integers

CONSTANTS
    Fan,          \* entries in a table
    Mappers,      \* processors
    Frames,       \* usable frames
    FirstPage, LastPage,   \* the heap that is mapped
    Sizes         \* pages of a block

\* The pages that one entry of a table of each level covers; the last number
\* is that of the whole address space.
Span == <<1, Fan, Fan * Fan, Fan * Fan * Fan, Fan * Fan * Fan * Fan>>
Pages == 0..(Span[5] - 1)

\* Frame 0 is below the RAM that the memory map offers; the heap lies within
\* the address space.
ASSUME PagingAssumption ==
    /\ Fan \in Nat \ {0, 1}
    /\ Frames \subseteq Nat \ {0} /\ Frames # {}
    /\ FirstPage \in Nat /\ LastPage \in Pages
    /\ Sizes \subseteq Nat \ {0}

VARIABLES
    table,        \* for each frame that holds a table, its entries
    taken,        \* frames in use (the bitmap)
    heap_ptr,     \* first page not given out
    pc, arg,      \* of each processor: place in pager_map_range, its locals
    blocks,       \* blocks mapped and in use
    space,        \* history variable: the mappings asked for and not undone
    raced, oom    \* history variables: two processors installed one table;
                  \* a table was put on frame 0, or is taken to be there

vars == <<table, taken, heap_ptr, pc, arg, blocks, space, raced, oom>>

Absent == [present |-> FALSE, huge |-> FALSE, frame |-> 0]
Zeroed == [i \in 0..(Fan - 1) |-> Absent]
Link(frame) == [present |-> TRUE, huge |-> FALSE, frame |-> frame]

Index(page, level) == (page \div Span[level]) % Fan
Run(first, pages) == first..((first + pages) - 1)

NoCall == [virt |-> 0, phys |-> 0, size |-> 0, offset |-> 0, level |-> 4, cur |-> 0, new |-> 0]

root == CHOOSE f \in Frames : \A g \in Frames : f <= g   \* firmware_pml4

Init ==
    /\ table = [f \in {root} |-> Zeroed]
    /\ taken = {root}
    /\ heap_ptr = FirstPage
    /\ pc = [c \in Mappers |-> "idle"]
    /\ arg = [c \in Mappers |-> NoCall]
    /\ blocks = {}
    /\ space = <<>>
    /\ raced = FALSE /\ oom = FALSE

-----------------------------------------------------------------------------
(* The call that c is in *)

Virt(c) == arg[c].virt + arg[c].offset
Phys(c) == arg[c].phys + arg[c].offset

\* Mutant of Huge: what remains of the range is not compared.
HugeAligned(c) == Virt(c) % Fan = 0 /\ Phys(c) % Fan = 0

\* The next piece of the range is mapped by one entry of a level-2 table.
Huge(c) ==
    /\ arg[c].size - arg[c].offset >= Fan
    /\ Virt(c) % Fan = 0 /\ Phys(c) % Fan = 0

LeafLevel(c) == IF Huge(c) THEN 2 ELSE 1
EntryOf(c) == table[arg[c].cur][Index(Virt(c), arg[c].level)]

\* c writes entry e at the place where its walk stands.
Write(c, e) ==
    [table EXCEPT ![arg[c].cur][Index(Virt(c), arg[c].level)] = e]

-----------------------------------------------------------------------------
\* avmf_alloc has taken a range and frames and calls pager_map_range.
Begin(c, n) ==
    /\ pc[c] = "idle" /\ heap_ptr + n - 1 <= LastPage
    /\ pc' = [pc EXCEPT ![c] = "walk"]
    /\ heap_ptr' = heap_ptr + n
    /\ \E f \in Frames :
        /\ Run(f, n) \subseteq Frames \ taken
        /\ taken' = taken \cup Run(f, n)
        /\ arg' = [arg EXCEPT ![c] = [NoCall EXCEPT !.virt = heap_ptr, !.phys = f,
                                                    !.size = n, !.cur = root]]
    /\ UNCHANGED <<table, blocks, space, raced, oom>>

Descend(c) ==
    /\ pc[c] = "walk" /\ arg[c].level > LeafLevel(c)
    /\ EntryOf(c).present
    /\ arg' = [arg EXCEPT ![c].cur = EntryOf(c).frame, ![c].level = @ - 1]
    /\ UNCHANGED <<table, taken, heap_ptr, pc, blocks, space, raced, oom>>

\* alloc_page_table, once the entry was seen missing, takes the first free
\* frame.  It is not compared with 0: with none left the table is on frame 0.
AllocPageTable(c) ==
    /\ pc[c] = "walk" /\ arg[c].level > LeafLevel(c)
    /\ ~EntryOf(c).present
    /\ \E f \in IF Frames \subseteq taken THEN {0} ELSE Frames \ taken :
        /\ \A g \in Frames \ taken : f <= g
        /\ taken' = taken \cup ({f} \ {0})
        /\ table' = [g \in DOMAIN table \cup {f} |-> IF g = f THEN Zeroed ELSE table[g]]
        /\ arg' = [arg EXCEPT ![c].new = f]
        /\ oom' = (oom \/ f = 0)
    /\ pc' = [pc EXCEPT ![c] = "install"]
    /\ UNCHANGED <<heap_ptr, blocks, space, raced>>

\* No virtual range is left for a table: alloc_page_table returns NULL, which
\* pager_map does not test either, and the frame it took is lost.
NoVirtualRange(c) ==
    /\ pc[c] = "walk" /\ arg[c].level > LeafLevel(c)
    /\ ~EntryOf(c).present
    /\ taken' = taken \cup {f \in Frames \ taken : \A g \in Frames \ taken : f <= g}
    /\ arg' = [arg EXCEPT ![c].new = 0]
    /\ oom' = TRUE
    /\ pc' = [pc EXCEPT ![c] = "install"]
    /\ UNCHANGED <<table, heap_ptr, blocks, space, raced>>

Install(c) ==
    /\ pc[c] = "install"
    /\ raced' = (raced \/ EntryOf(c).present)
    /\ table' = Write(c, Link(arg[c].new))
    /\ arg' = [arg EXCEPT ![c].cur = arg[c].new, ![c].level = @ - 1]
    /\ pc' = [pc EXCEPT ![c] = "walk"]
    /\ UNCHANGED <<taken, heap_ptr, blocks, space, oom>>

\* The leaf of one page or of Fan pages, and the step of the loop.
WriteLeaf(c) ==
    LET n == IF Huge(c) THEN Fan ELSE 1
        mapped == Run(Virt(c), n)
        done == arg[c].offset + n >= arg[c].size
    IN
    /\ pc[c] = "walk" /\ arg[c].level = LeafLevel(c)
    /\ table' = Write(c, [present |-> TRUE, huge |-> Huge(c), frame |-> Phys(c)])
    /\ space' = [p \in DOMAIN space \cup mapped |->
                    IF p \in mapped THEN Phys(c) + (p - Virt(c)) ELSE space[p]]
    /\ pc' = [pc EXCEPT ![c] = IF done THEN "idle" ELSE "walk"]
    /\ arg' = [arg EXCEPT ![c] = IF done THEN NoCall
                 ELSE [arg[c] EXCEPT !.offset = @ + n, !.level = 4, !.cur = root]]
    /\ blocks' = IF ~done THEN blocks
                 ELSE blocks \cup {[virt |-> arg[c].virt, phys |-> arg[c].phys,
                                    size |-> arg[c].size]}
    /\ UNCHANGED <<taken, heap_ptr, raced, oom>>

\* The tables that the entries of the given ones for a page lead to, and so
\* the tables of each level on the way to a page, if any.
Under(tables, page, level) ==
    {e.frame : e \in {e \in {table[t][Index(page, level)] : t \in tables} :
                       e.present /\ ~e.huge}}
Pdpt(page) == Under({root}, page, 4)
Pd(page) == Under(Pdpt(page), page, 3)
Pt(page) == Under(Pd(page), page, 2)
TableOn(page, level) == <<Pt(page), Pd(page), Pdpt(page), {root}>>[level]

\* Where pager_unmap ends up for a page: the table and the level of the entry
\* whose present bit it clears, or nothing.
Target(page) ==
    UNION {{[table |-> t, level |-> l] :
              t \in {t \in TableOn(page, l) : LET e == table[t][Index(page, l)]
                                           IN  e.present /\ (l = 1 \/ e.huge)}} : l \in {1, 2}}

\* Mutant of Unmap: a huge page is not recognised and only the page goes.
UnmapPage(b) ==
    /\ taken' = taken \ Run(b.phys, b.size)
    /\ blocks' = blocks \ {b}
    /\ table' = [t \in DOMAIN table |->
                    [i \in 0..(Fan - 1) |->
                        IF \E e \in Target(b.virt) : e.table = t /\ e.level = 1 /\ Index(b.virt, 1) = i
                        THEN [table[t][i] EXCEPT !.present = FALSE] ELSE table[t][i]]]
    /\ space' = [p \in {p \in DOMAIN space :
                          \A e \in Target(b.virt) :
                             p \div Span[e.level] # b.virt \div Span[e.level]} |-> space[p]]
    /\ UNCHANGED <<heap_ptr, pc, arg, raced, oom>>

\* avmf_free: the frames are free, and pager_unmap clears the entry that maps
\* the block's first page, a huge one as well.
Unmap(b) ==
    /\ taken' = taken \ Run(b.phys, b.size)
    /\ blocks' = blocks \ {b}
    /\ table' = [t \in DOMAIN table |->
                    [i \in 0..(Fan - 1) |->
                        IF \E e \in Target(b.virt) : e.table = t /\ Index(b.virt, e.level) = i
                        THEN [table[t][i] EXCEPT !.present = FALSE] ELSE table[t][i]]]
    /\ space' = [p \in {p \in DOMAIN space :
                          \A e \in Target(b.virt) :
                             p \div Span[e.level] # b.virt \div Span[e.level]} |-> space[p]]
    /\ UNCHANGED <<heap_ptr, pc, arg, raced, oom>>

\* What follows a race or a table on frame 0 is not described any further.
Next ==
    /\ ~raced /\ ~oom
    /\ \/ \E c \in Mappers :
            \/ \E n \in Sizes : Begin(c, n)
            \/ Descend(c) \/ AllocPageTable(c) \/ NoVirtualRange(c)
            \/ Install(c) \/ WriteLeaf(c)
       \/ \E b \in blocks : Unmap(b)

Spec == Init /\ [][Next]_vars

-----------------------------------------------------------------------------
(* Properties *)

Sound == ~raced /\ ~oom

\* What the processor makes of a page: its frame, or nothing.
Translation(page) ==
    {table[e.table][Index(page, e.level)].frame + (page % Span[e.level]) : e \in Target(page)}

(* The tree of tables, half-built branches and entries that are no longer  *)
(* present included, translates every page of the address space as the     *)
(* calls of pager_map_range and pager_unmap add up to: adding a table or a *)
(* leaf disturbs no other page, at whatever point of its walk another      *)
(* processor stands.                                                       *)
AddressSpaceRight ==
    Sound =>
        \A p \in Pages :
            Translation(p) = IF p \in DOMAIN space THEN {space[p]} ELSE {}

(* pager_map follows a present entry without a look at its PAGE_HUGE bit;  *)
(* still a walk stands, at every level, on the table that the processor    *)
(* itself uses for the page, never on the frame of a huge page.            *)
WalkInTables ==
    Sound =>
        \A c \in Mappers :
            pc[c] # "idle" => TableOn(Virt(c), arg[c].level) = {arg[c].cur}
=============================================================================
