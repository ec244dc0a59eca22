--------------------------------- MODULE Avmf ---------------------------------
(***************************************************************************)
(* avmf_alloc and avmf_free: the virtual heaps, the list of region headers *)
(* and its cache last_found, over frames that are handed out as            *)
(* FrameAllocator promises.  A step is what one processor does between two *)
(* points at which another can interfere: a locked section, or one access  *)
(* to shared data outside the locks.                                       *)
(*                                                                         *)
(* Addresses are counted in pages and frames, and a 64-bit word of the     *)
(* code counts Word pages.  A header is appended after all earlier ones,   *)
(* so the order of the list is the order of the slots and linked, the set  *)
(* of slots that can be reached from avmf_head, is the list.               *)
(* avmf_alloc_phys_contiguous is one locked step, the page tables are      *)
(* a function.                                                             *)
(***************************************************************************)
EXTENDS Integers, Sequences

CONSTANTS
    Callers,             \* the processors
    Heaps,               \* MALLOC_TYPE_...: the virtual heaps
    HeapBase, HeapEnd,   \* first page of each heap, and of what follows it
    Frames,              \* usable frames, 0 not among them
    MaxSlots,            \* AVMF_STATIC_SIZE
    Word,                \* pages of the whole address space: 2^52
    Sizes                \* pages that are asked for

Run(first, pages) == first..((first + pages) - 1)

ASSUME AvmfAssumption ==
    /\ Heaps # {}
    /\ HeapBase \in [Heaps -> Nat \ {0}] /\ HeapEnd \in [Heaps -> Nat]
    /\ Word \in Nat
    /\ \A h \in Heaps : HeapBase[h] <= HeapEnd[h] /\ HeapEnd[h] < Word
    /\ \A g, h \in Heaps : g # h => \/ HeapEnd[g] <= HeapBase[h]
                                    \/ HeapEnd[h] <= HeapBase[g]
    /\ Frames \subseteq Nat \ {0}
    /\ MaxSlots \in Nat
    /\ Sizes \subseteq 1..(Word - 1)

VARIABLES
    heap_ptr,     \* heap_kernel, heap_driver, heap_user, heap_sensitive
    bitmap,       \* frames in use
    header,       \* static_headers[0..header_index - 1]
    linked,       \* slots on the list
    last_found,   \* slot, or 0 for NULL
    pages,        \* the page tables: the frame of each mapped page
    pc, arg,      \* of each processor: place in a call, its locals
    blocks,       \* history variable: the blocks in use
    wrapped,      \* history variable: a heap pointer has gone round
    raced         \* history variable: two processors have met in a window

vars == <<heap_ptr, bitmap, header, linked, last_found, pages, pc, arg, blocks, wrapped,
          raced>>

Blocks == [virt : Nat, frame : Nat, size : Nat, slot : Nat]
NoCall == [heap |-> CHOOSE h \in Heaps : TRUE, op |-> "none",
           virt |-> 0, frame |-> 0, size |-> 0, slot |-> 0]

TypeOK ==
    /\ heap_ptr \in [Heaps -> Nat]
    /\ bitmap \in SUBSET Frames
    /\ header \in Seq([virt : Nat, frame : Nat, size : Nat])
    /\ linked \subseteq 1..Len(header)
    /\ last_found \in 0..Len(header)
    /\ pc \in [Callers -> {"idle", "virt_read", "virt_add", "phys", "tail", "bound",
                           "append", "map", "find", "cached", "found"}]
    /\ arg \in [Callers -> [heap : Heaps, op : {"none", "alloc", "free", "translate"},
                            virt : Nat, frame : Nat, size : Nat, slot : Nat]]
    /\ blocks \subseteq Blocks
    /\ wrapped \in BOOLEAN
    /\ raced \in BOOLEAN

Init ==
    /\ heap_ptr = HeapBase
    /\ bitmap = {} /\ header = <<>> /\ linked = {} /\ last_found = 0
    /\ pages = <<>>
    /\ pc = [c \in Callers |-> "idle"]
    /\ arg = [c \in Callers |-> NoCall]
    /\ blocks = {}
    /\ wrapped = FALSE
    /\ raced = FALSE

Goto(c, from, to) == pc[c] = from /\ pc' = [pc EXCEPT ![c] = to]

-----------------------------------------------------------------------------
(* avmf_alloc.  Where it returns 0 it gives back nothing of what it holds. *)

\* The sum of two 64-bit words.
Plus(a, b) == IF a + b < Word THEN a + b ELSE (a + b) - Word

\* The test is made on the sum as it comes out: a size that takes the pointer
\* past 2^64 passes.
VirtCheck(c, h, n) ==
    /\ Plus(heap_ptr[h], n) <= HeapEnd[h]
    /\ Goto(c, "idle", "virt_read")
    /\ arg' = [arg EXCEPT ![c] = [NoCall EXCEPT !.heap = h, !.size = n, !.op = "alloc"]]
    /\ UNCHANGED <<heap_ptr, bitmap, header, linked, last_found, pages, blocks, wrapped>>

VirtRead(c) ==
    /\ Goto(c, "virt_read", "virt_add")
    /\ arg' = [arg EXCEPT ![c].virt = heap_ptr[arg[c].heap]]
    /\ UNCHANGED <<heap_ptr, bitmap, header, linked, last_found, pages, blocks, wrapped>>

\* Mutant of VirtAdd: the pointer advances by one page whatever the size.
VirtAddOne(c) ==
    /\ Goto(c, "virt_add", "phys")
    /\ heap_ptr' = [heap_ptr EXCEPT ![arg[c].heap] = @ + 1]
    /\ UNCHANGED <<bitmap, header, linked, last_found, pages, arg, blocks, wrapped>>

VirtAdd(c) ==
    /\ Goto(c, "virt_add", "phys")
    /\ heap_ptr' = [heap_ptr EXCEPT ![arg[c].heap] = Plus(@, arg[c].size)]
    /\ wrapped' = (heap_ptr[arg[c].heap] + arg[c].size >= Word)
    /\ UNCHANGED <<bitmap, header, linked, last_found, pages, arg, blocks>>

TakeFrames(c) ==
    /\ Goto(c, "phys", "tail")
    /\ \E f \in Frames :
        /\ Run(f, arg[c].size) \subseteq Frames \ bitmap
        /\ bitmap' = bitmap \cup Run(f, arg[c].size)
        /\ arg' = [arg EXCEPT ![c].frame = f]
    /\ UNCHANGED <<heap_ptr, header, linked, last_found, pages, blocks, wrapped>>

NoFrames(c) ==
    /\ Goto(c, "phys", "idle")
    /\ arg' = [arg EXCEPT ![c] = NoCall]
    /\ UNCHANGED <<heap_ptr, bitmap, header, linked, last_found, pages, blocks, wrapped>>

\* The last node of the list, or NULL.
FindTail(c) ==
    /\ Goto(c, "tail", "bound")
    /\ \E s \in linked \cup {0} :
        /\ \A t \in linked : t <= s
        /\ s = 0 => linked = {}
        /\ arg' = [arg EXCEPT ![c].slot = s]
    /\ UNCHANGED <<heap_ptr, bitmap, header, linked, last_found, pages, blocks, wrapped>>

HeadersLeft(c) ==
    /\ Len(header) < MaxSlots
    /\ Goto(c, "bound", "append")
    /\ UNCHANGED <<heap_ptr, bitmap, header, linked, last_found, pages, arg, blocks, wrapped>>

NoHeaders(c) ==
    /\ Len(header) >= MaxSlots
    /\ Goto(c, "bound", "idle")
    /\ arg' = [arg EXCEPT ![c] = NoCall]
    /\ UNCHANGED <<heap_ptr, bitmap, header, linked, last_found, pages, blocks, wrapped>>

\* Mutant of Linked: the head is taken for the tail.
LinkedAtHead(tail, node) ==
    IF linked = {} THEN {node} ELSE {s \in linked : \A t \in linked : s <= t} \cup {node}

\* What the list holds once node is linked behind tail.  What was appended
\* behind tail since it was found is cut off; behind a node that is not on the
\* list itself, or behind NULL, the new one is never seen.
Linked(tail, node) ==
    IF linked = {} THEN {node}
    ELSE IF tail \in linked THEN {s \in linked : s <= tail} \cup {node}
    ELSE linked

AppendHeader(c) ==
    /\ Goto(c, "append", "map")
    /\ header' = Append(header, [virt |-> arg[c].virt, frame |-> arg[c].frame,
                                 size |-> arg[c].size])
    /\ linked' = Linked(arg[c].slot, Len(header) + 1)
    /\ arg' = [arg EXCEPT ![c].slot = Len(header) + 1]
    /\ UNCHANGED <<heap_ptr, bitmap, last_found, pages, blocks, wrapped>>

\* pager_map_range, and the return to the caller.
Map(c) ==
    LET new == Run(arg[c].virt, arg[c].size) IN
    /\ Goto(c, "map", "idle")
    /\ pages' = [p \in DOMAIN pages \cup new |->
                    IF p \in new THEN arg[c].frame + (p - arg[c].virt) ELSE pages[p]]
    /\ blocks' = blocks \cup {[virt |-> arg[c].virt, frame |-> arg[c].frame,
                               size |-> arg[c].size, slot |-> arg[c].slot]}
    /\ arg' = [arg EXCEPT ![c] = NoCall]
    /\ UNCHANGED <<heap_ptr, bitmap, header, linked, last_found, wrapped>>

-----------------------------------------------------------------------------
(* avmf_find, and its callers avmf_free and avmf_virt_to_phys *)

Holds(s, v) == v \in Run(header[s].virt, header[s].size)

\* Mutant of Cached: the upper end of the cached region is not tested.
CachedBelow(v) == last_found # 0 /\ header[last_found].virt <= v

Cached(v) == last_found # 0 /\ Holds(last_found, v)

\* avmf_free of a block by its owner, which has no further use of it.
Free(c, b) ==
    /\ Goto(c, "idle", "find")
    /\ arg' = [arg EXCEPT ![c] = [NoCall EXCEPT !.op = "free", !.virt = b.virt,
                                                !.frame = b.frame, !.size = b.size]]
    /\ blocks' = blocks \ {b}
    /\ UNCHANGED <<heap_ptr, bitmap, header, linked, last_found, pages, wrapped>>

\* avmf_virt_to_phys of an address inside a block.
Translate(c, b, v) ==
    /\ v \in Run(b.virt, b.size)
    /\ Goto(c, "idle", "find")
    /\ arg' = [arg EXCEPT ![c] = [NoCall EXCEPT !.op = "translate", !.virt = v,
                                                !.frame = b.frame + (v - b.virt)]]
    /\ UNCHANGED <<heap_ptr, bitmap, header, linked, last_found, pages, blocks, wrapped>>

FindCached(c) ==
    /\ Cached(arg[c].virt)
    /\ Goto(c, "find", "cached")
    /\ UNCHANGED <<heap_ptr, bitmap, header, linked, last_found, pages, arg, blocks, wrapped>>

\* The pointer is read again for the return.
ReturnCached(c) ==
    /\ Goto(c, "cached", "found")
    /\ arg' = [arg EXCEPT ![c].slot = last_found]
    /\ UNCHANGED <<heap_ptr, bitmap, header, linked, last_found, pages, blocks, wrapped>>

FindWalk(c) ==
    /\ ~Cached(arg[c].virt)
    /\ Goto(c, "find", "found")
    /\ \E s \in linked :
        /\ Holds(s, arg[c].virt)
        /\ \A t \in linked : Holds(t, arg[c].virt) => s <= t
        /\ last_found' = s
        /\ arg' = [arg EXCEPT ![c].slot = s]
    /\ UNCHANGED <<heap_ptr, bitmap, header, linked, pages, blocks, wrapped>>

\* avmf_find returns NULL, and its caller does nothing.
FindNothing(c) ==
    /\ ~Cached(arg[c].virt)
    /\ \A s \in linked : ~Holds(s, arg[c].virt)
    /\ Goto(c, "find", "idle")
    /\ arg' = [arg EXCEPT ![c] = NoCall]
    /\ UNCHANGED <<heap_ptr, bitmap, header, linked, last_found, pages, blocks, wrapped>>

\* Mutant of FreeFound: no page is unmapped, as in avmf_free_phys.
FreeFoundPhys(c) ==
    LET h == header[arg[c].slot] IN
    /\ arg[c].op = "free"
    /\ Goto(c, "found", "idle")
    /\ bitmap' = bitmap \ Run(h.frame, h.size)
    /\ arg' = [arg EXCEPT ![c] = NoCall]
    /\ UNCHANGED <<heap_ptr, header, linked, last_found, pages, blocks, wrapped>>

\* Mutant of FreeFound: the last frame keeps its bit.
FreeFoundShort(c) ==
    LET h == header[arg[c].slot] IN
    /\ arg[c].op = "free"
    /\ Goto(c, "found", "idle")
    /\ bitmap' = bitmap \ Run(h.frame, h.size - 1)
    /\ pages' = [p \in DOMAIN pages \ {arg[c].virt} |-> pages[p]]
    /\ arg' = [arg EXCEPT ![c] = NoCall]
    /\ UNCHANGED <<heap_ptr, header, linked, last_found, blocks, wrapped>>

\* The header stays on the list, and only the first page is unmapped.
FreeFound(c) ==
    LET h == header[arg[c].slot] IN
    /\ arg[c].op = "free"
    /\ Goto(c, "found", "idle")
    /\ bitmap' = bitmap \ Run(h.frame, h.size)
    /\ pages' = [p \in DOMAIN pages \ {arg[c].virt} |-> pages[p]]
    /\ arg' = [arg EXCEPT ![c] = NoCall]
    /\ UNCHANGED <<heap_ptr, header, linked, last_found, blocks, wrapped>>

Translated(c) ==
    /\ arg[c].op = "translate"
    /\ Goto(c, "found", "idle")
    /\ arg' = [arg EXCEPT ![c] = NoCall]
    /\ UNCHANGED <<heap_ptr, bitmap, header, linked, last_found, pages, blocks, wrapped>>

-----------------------------------------------------------------------------
\* Two processors between a look at shared data and the use made of it: at
\* one heap pointer, at the end of the list, or at last_found.
Overlap ==
    \E c, d \in Callers :
        /\ c # d
        /\ \/ {pc[c], pc[d]} \subseteq {"virt_read", "virt_add"} /\ arg[c].heap = arg[d].heap
           \/ {pc[c], pc[d]} \subseteq {"bound", "append"}
           \/ {pc[c], pc[d]} \subseteq {"find", "cached"}

Alloc(c) ==
    \/ \E h \in Heaps, n \in Sizes : VirtCheck(c, h, n)
    \/ VirtRead(c) \/ VirtAdd(c) \/ TakeFrames(c) \/ NoFrames(c)
    \/ FindTail(c) \/ HeadersLeft(c) \/ NoHeaders(c) \/ AppendHeader(c) \/ Map(c)

Find(c) ==
    \/ \E b \in blocks : Free(c, b) \/ \E v \in Run(b.virt, b.size) : Translate(c, b, v)
    \/ FindCached(c) \/ ReturnCached(c) \/ FindWalk(c) \/ FindNothing(c)
    \/ FreeFound(c) \/ Translated(c)

\* What happens after a race, or with a heap pointer that has gone round, is
\* not described any further.
Next ==
    /\ ~raced /\ ~wrapped
    /\ \E c \in Callers : Alloc(c) \/ Find(c)
    /\ raced' = Overlap'

Spec == Init /\ [][Next]_vars
-----------------------------------------------------------------------------
(* Properties.  The windows are not locked: two processors that meet in    *)
(* one (raced) may be given one range, lose a header or find the wrong     *)
(* block, and nothing is claimed from then on.  Start-up never gets there  *)
(* (AllocAlone of SmpBoot); calls that overlap in any other way may.       *)
(*                                                                         *)
(* Nor is anything claimed once a heap pointer has gone round (wrapped):   *)
(* it then points below its heap, and the next blocks lie in another's     *)
(* range, or in none.  A single call does it, one whose size, added to the *)
(* pointer, reaches 2^64: a few TB for the heaps at the top.  It gets no   *)
(* block, as there are no frames for it, but the pointer has moved.        *)

Sound == ~raced /\ ~wrapped

FramesOf(b) == Run(b.frame, b.size)
PagesOf(b) == Run(b.virt, b.size)

Freeing(c) == arg[c].op = "free" /\ pc[c] \in {"find", "cached", "found"}
FramesInHand(c) ==
    IF Freeing(c) \/ pc[c] \in {"tail", "bound", "append", "map"}
    THEN FramesOf(arg[c]) ELSE {}
PagesInHand(c) ==
    IF pc[c] \in {"phys", "tail", "bound", "append", "map"}
    THEN PagesOf(arg[c]) ELSE {}

(* A frame has one user, a block or a call that is under way, and its bit  *)
(* is set as long as it has one: avmf_free of a block never clears a bit   *)
(* of another.                                                             *)
FramesExclusive ==
    Sound =>
        /\ \A b \in blocks : FramesOf(b) \subseteq bitmap
        /\ \A c \in Callers : FramesInHand(c) \subseteq bitmap
        /\ \A b, d \in blocks : b # d => FramesOf(b) \cap FramesOf(d) = {}
        /\ \A b \in blocks, c \in Callers : FramesOf(b) \cap FramesInHand(c) = {}
        /\ \A c, d \in Callers : c # d => FramesInHand(c) \cap FramesInHand(d) = {}

(* Each page of a virtual heap is given out once, and no heap grows into   *)
(* the range that begins at its end, as long as no size takes a pointer    *)
(* past the end of the address space.                                      *)
PagesExclusive ==
    Sound =>
        /\ \A b \in blocks : \E h \in Heaps : PagesOf(b) \subseteq HeapBase[h]..(HeapEnd[h] - 1)
        /\ \A b, d \in blocks : b # d => PagesOf(b) \cap PagesOf(d) = {}
        /\ \A b \in blocks, c \in Callers : PagesOf(b) \cap PagesInHand(c) = {}
        /\ \A c, d \in Callers : c # d => PagesInHand(c) \cap PagesInHand(d) = {}

(* avmf_alloc_region loses no node, so each block in use has its header   *)
(* on the list; and avmf_find, through last_found or through the list,     *)
(* which still holds the headers of freed blocks, returns the region of    *)
(* the block that was asked for, and avmf_virt_to_phys its frame.          *)
LookupRight ==
    Sound =>
        /\ \A b \in blocks :
              b.slot \in linked
              /\ header[b.slot] = [virt |-> b.virt, frame |-> b.frame, size |-> b.size]
        /\ \A c \in Callers :
              pc[c] = "found" =>
                  LET h == header[arg[c].slot] IN
                  /\ arg[c].virt \in Run(h.virt, h.size)
                  /\ arg[c].frame = h.frame + (arg[c].virt - h.virt)

(* A block's pages are mapped to its own frames, however many blocks have  *)
(* come and gone.  avmf_free unmaps the first page of a block only, so     *)
(* later pages of a freed block may still reach a frame that is in use     *)
(* again; no first page ever does.                                         *)
AliasesAreTails ==
    Sound =>
        \A b \in blocks :
            /\ \A p \in PagesOf(b) : p \in DOMAIN pages /\ pages[p] = b.frame + (p - b.virt)
            /\ \A p \in DOMAIN pages \ PagesOf(b) :
                  pages[p] \in FramesOf(b) => \A s \in 1..Len(header) : p # header[s].virt

(* The failure paths of avmf_alloc leak frames only once the table of      *)
(* headers is full, and it is never overrun: before that every bit belongs *)
(* to a block or to a call that is under way.                              *)
NoLeakBeforeFull ==
    Sound =>
        /\ Len(header) <= MaxSlots
        /\ Len(header) < MaxSlots =>
              bitmap = UNION ({FramesOf(b) : b \in blocks} \cup {FramesInHand(c) : c \in Callers})
=============================================================================
