------------------------------ MODULE PhysAlloc ------------------------------
(***************************************************************************)
(* The allocator of physical frames in avmf.c: one bit per frame, a        *)
(* first-fit search that starts at last_alloc_page, and the release of the *)
(* frames of a region header.  Each operation runs under avmf_lock with    *)
(* interrupts off, so it is one step whichever core makes it.              *)
(*                                                                         *)
(* A frame is its number (address >> PAGE_SHIFT).  Release is called for   *)
(* blocks that are in use: what happens to a caller that frees a block     *)
(* twice depends on the region headers, which are not part of this module. *)
(***************************************************************************)
EXTENDS Integers

CONSTANTS
    PageSize,      \* bytes in a frame
    Word,          \* 2^64: sizes are computed modulo Word
    BitmapPages,   \* frames that the bitmap covers (BITMAP_SIZE)
    Regions,       \* sequence of [base, limit]: avmf_base and avmf_limit
    Sizes          \* the sizes, in bytes, that callers ask for

\* Mutant of Align4k: the size is rounded down.
Align4kDown(value) == (value \div PageSize) * PageSize

\* Rounded up in 64-bit arithmetic: a value in the last page of the address
\* space becomes 0.
Align4k(value) == ((((value + PageSize) - 1) % Word) \div PageSize) * PageSize

PagesNeeded(size) == Align4k(size) \div PageSize

StartPage(i) == Align4k(Regions[i].base) \div PageSize
EndPage(i) == Regions[i].limit \div PageSize

Run(first, pages) == first..((first + pages) - 1)
Frames == UNION {StartPage(i)..(EndPage(i) - 1) : i \in DOMAIN Regions}

\* Frame 0 is never usable, so the address 0 means failure and nothing else,
\* and the bitmap has a bit for every usable frame (e820.c:17-23).  A size is
\* a 64-bit number.
ASSUME RegionsAssumption ==
    /\ PageSize \in Nat \ {0}
    /\ Word \in Nat /\ PageSize <= Word
    /\ BitmapPages \in Nat
    /\ Sizes \subseteq 0..(Word - 1)
    /\ \A i \in DOMAIN Regions : /\ Regions[i] \in [base : Nat, limit : Nat]
                                /\ 0 < StartPage(i) /\ EndPage(i) <= BitmapPages

VARIABLES
    bitmap,            \* the frames whose bit is set
    last_alloc_page,   \* where the next search starts
    live,              \* history variable: the blocks in use
    refused            \* history variable: the pages that the last call was
                       \* refused with "Out of physical memory", or 0

vars == <<bitmap, last_alloc_page, live, refused>>

FramesOf(block) == Run(block.first, block.pages)

TypeOK ==
    /\ bitmap \in SUBSET Frames
    /\ last_alloc_page \in 0..BitmapPages
    /\ live \in SUBSET [first : Frames, pages : Nat \ {0}, size : Sizes]
    /\ refused \in Nat

\* State after avmf_init, which pager_init calls once.
Init ==
    /\ bitmap = {}
    /\ last_alloc_page = 0
    /\ live = {}
    /\ refused = 0

-----------------------------------------------------------------------------
(* The search *)

From(i) ==
    IF StartPage(i) <= last_alloc_page /\ last_alloc_page < EndPage(i)
    THEN last_alloc_page
    ELSE StartPage(i)

\* Mutant of Fits: only the first frame of the run is tested.
FitsHead(i, pages) ==
    {f \in From(i)..(EndPage(i) - pages) : f \notin bitmap}

\* Where a run of free frames starts in region i at or after From(i); the
\* search of the code finds the lowest (ScanIsFirstFit).
Fits(i, pages) ==
    {f \in From(i)..(EndPage(i) - pages) : Run(f, pages) \cap bitmap = {}}

\* Mutant of Scan: a frame in use does not reset run_len.
ScanNoReset(i, pages) ==
    LET scan[p \in Nat] == [run_len \in Nat |->
            IF p >= EndPage(i) THEN {}
            ELSE IF p \in bitmap THEN scan[p + 1][run_len]
            ELSE IF run_len + 1 >= pages THEN {p - run_len}
            ELSE scan[p + 1][run_len + 1]]
    IN  scan[From(i)][0]

\* The loop as it is written, with run_start = p - run_len: the start of the
\* run it finds in region i, if any.
Scan(i, pages) ==
    LET scan[p \in Nat] == [run_len \in Nat |->
            IF p >= EndPage(i) THEN {}
            ELSE IF p \in bitmap THEN scan[p + 1][0]
            ELSE IF run_len + 1 >= pages THEN {p - run_len}
            ELSE scan[p + 1][run_len + 1]]
    IN  scan[From(i)][0]

-----------------------------------------------------------------------------
(* avmf_alloc_phys_contiguous *)

\* A size that rounds to no page at all returns 0.
AllocNothing(size) ==
    /\ PagesNeeded(size) = 0
    /\ refused' = 0
    /\ UNCHANGED <<bitmap, last_alloc_page, live>>

\* The lowest run of the first region that has one.
Alloc(size) ==
    LET pages == PagesNeeded(size) IN
    /\ pages > 0
    /\ \E i \in DOMAIN Regions :
        /\ \A j \in 1..(i - 1) : Fits(j, pages) = {}
        /\ \E f \in Fits(i, pages) :
            /\ \A g \in Fits(i, pages) : f <= g
            /\ bitmap' = bitmap \cup Run(f, pages)
            /\ last_alloc_page' = f + pages
            /\ live' = live \cup {[first |-> f, pages |-> pages, size |-> size]}
    /\ refused' = 0

\* "Out of physical memory".
AllocRefused(size) ==
    /\ PagesNeeded(size) > 0
    /\ \A i \in DOMAIN Regions : Fits(i, PagesNeeded(size)) = {}
    /\ refused' = PagesNeeded(size)
    /\ UNCHANGED <<bitmap, last_alloc_page, live>>

(* avmf_free and avmf_free_phys, for a block in use *)

\* Mutant of Release: the last frame of the block keeps its bit.
ReleaseShort(block) ==
    /\ bitmap' = bitmap \ Run(block.first, block.pages - 1)
    /\ live' = live \ {block}
    /\ refused' = 0
    /\ UNCHANGED last_alloc_page

Release(block) ==
    /\ bitmap' = bitmap \ Run(block.first, block.pages)
    /\ live' = live \ {block}
    /\ refused' = 0
    /\ UNCHANGED last_alloc_page

Next ==
    \/ \E size \in Sizes : AllocNothing(size) \/ Alloc(size) \/ AllocRefused(size)
    \/ \E block \in live : Release(block)

Spec == Init /\ [][Next]_vars

-----------------------------------------------------------------------------
(* Properties *)

(* No frame belongs to two blocks, and every frame of a block lies in a    *)
(* region: what avmf_alloc_phys_contiguous hands out is the caller's own.  *)
LiveDisjoint ==
    /\ \A b \in live : FramesOf(b) \subseteq Frames
    /\ \A b, d \in live : b # d => FramesOf(b) \cap FramesOf(d) = {}

(* A bit is set exactly for the frames of the blocks in use, after any mix *)
(* of allocations and releases: no frame leaks and none is free twice.     *)
BitmapExact == bitmap = UNION {FramesOf(b) : b \in live}

(* A block holds the bytes that were asked for, also for sizes that are no *)
(* multiple of a page and for sizes whose rounding overflows.              *)
LargeEnough == \A b \in live : b.size <= b.pages * PageSize

(* Whatever the bitmap and last_alloc_page, the loop of the code with its  *)
(* run_start and run_len finds a run exactly when there is one to find,    *)
(* and then the lowest.                                                    *)
ScanIsFirstFit ==
    \A i \in DOMAIN Regions, size \in Sizes :
        LET pages == PagesNeeded(size) IN
        pages > 0 =>
            /\ Scan(i, pages) \subseteq Fits(i, pages)
            /\ Scan(i, pages) = {} => Fits(i, pages) = {}
            /\ \A f \in Scan(i, pages), g \in Fits(i, pages) : f <= g

Abstract == INSTANCE FrameAllocator WITH held <- {FramesOf(b) : b \in live}

(* Every step is a step of FrameAllocator, or leaves the blocks alone.     *)
ImplementsFrames == Abstract!Spec

(* The log line of avmf.c:125 says what it says: a request is refused with *)
(* "Out of physical memory" only when no region has such a run of free     *)
(* frames.                                                                 *)
OutOfMemoryIsTrue ==
    refused > 0 =>
        \A i \in DOMAIN Regions : \A f \in StartPage(i)..(EndPage(i) - refused) :
            Run(f, refused) \cap bitmap # {}
=============================================================================
