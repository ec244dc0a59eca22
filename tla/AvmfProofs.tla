------------------------------ MODULE AvmfProofs ------------------------------
(***************************************************************************)
(* Proofs about avmf_alloc and avmf_free, for any number of processors,    *)
(* heaps, frames and headers.                                              *)
(*                                                                         *)
(* Next stops in the first state in which two processors have met in a     *)
(* window (raced), and what the invariant says still holds there: no step  *)
(* of IInv is conditional on raced.  That no two processors were in a      *)
(* window before the step is what makes the unlocked sections safe.  It    *)
(* also stops when a heap pointer has gone round (wrapped), and there the  *)
(* invariant says nothing but types.                                       *)
(***************************************************************************)
EXTENDS Avmf, TLAPS

Region(s) == Run(header[s].virt, header[s].size)

\* r lies in the used part of a heap.
Placed(r) ==
    \E h \in Heaps : HeapBase[h] <= r.virt /\ r.virt + r.size <= heap_ptr[h]

Describes(r) ==
    /\ r.slot \in 1..Len(header)
    /\ header[r.slot] = [virt |-> r.virt, frame |-> r.frame, size |-> r.size]

AtHeap == {"virt_read", "virt_add"}
Pending == {"phys", "tail", "bound", "append"}
Searching == {"find", "cached", "found"}

\* What a processor has read of its heap pointer is still true.
HeapOk(c) ==
    /\ pc[c] \in AtHeap => Plus(heap_ptr[arg[c].heap], arg[c].size) <= HeapEnd[arg[c].heap]
    /\ pc[c] = "virt_add" => arg[c].virt = heap_ptr[arg[c].heap]
    /\ pc[c] \in AtHeap \cup Pending => arg[c].size > 0

HeapsInv ==
    /\ \A h \in Heaps : HeapBase[h] <= heap_ptr[h] /\ heap_ptr[h] <= HeapEnd[h]
    /\ \A c \in Callers : HeapOk(c)

\* Ranges that were ever given out, freed ones too.
RegionsInv ==
    /\ \A s \in 1..Len(header) : Placed(header[s]) /\ header[s].size > 0
    /\ \A s, t \in 1..Len(header) : s # t => Region(s) \cap Region(t) = {}
    /\ \A c \in Callers : pc[c] \in Pending =>
          Placed(arg[c]) /\ \A s \in 1..Len(header) : PagesOf(arg[c]) \cap Region(s) = {}
    /\ \A c, d \in Callers : c # d /\ pc[c] \in Pending /\ pc[d] \in Pending =>
          PagesOf(arg[c]) \cap PagesOf(arg[d]) = {}

\* Each block, and each that is about to be one, has a header of its own.
SlotsInv ==
    /\ \A b \in blocks : Describes(b)
    /\ \A c \in Callers : pc[c] = "map" => Describes(arg[c])
    /\ \A b, d \in blocks : b # d => b.slot # d.slot
    /\ \A b \in blocks, c \in Callers : pc[c] = "map" => arg[c].slot # b.slot
    /\ \A c, d \in Callers : c # d /\ pc[c] = "map" /\ pc[d] = "map" =>
          arg[c].slot # arg[d].slot

ListOk(c) ==
    /\ pc[c] \in {"bound", "append"} => arg[c].slot = Len(header)
    /\ pc[c] = "append" => Len(header) < MaxSlots

ListInv ==
    /\ linked = 1..Len(header)
    /\ Len(header) <= MaxSlots
    /\ \A c \in Callers : ListOk(c)

\* The header that a search is meant to find.
Sought(r, s) ==
    /\ s \in 1..Len(header)
    /\ Holds(s, r.virt)
    /\ r.frame = header[s].frame + (r.virt - header[s].virt)
    /\ r.op = "free" => r.virt = header[s].virt /\ r.size = header[s].size

SearchOk(c) ==
    /\ pc[c] \in Searching => \E s \in 1..Len(header) : Sought(arg[c], s)
    /\ pc[c] = "cached" => Cached(arg[c].virt)
    /\ pc[c] = "found" => arg[c].slot \in 1..Len(header) /\ Holds(arg[c].slot, arg[c].virt)

SearchInv == \A c \in Callers : SearchOk(c)

FramesInv ==
    /\ \A b \in blocks : FramesOf(b) \subseteq bitmap
    /\ \A c \in Callers : FramesInHand(c) \subseteq bitmap
    /\ \A b, d \in blocks : b # d => FramesOf(b) \cap FramesOf(d) = {}
    /\ \A b \in blocks, c \in Callers : FramesOf(b) \cap FramesInHand(c) = {}
    /\ \A c, d \in Callers : c # d => FramesInHand(c) \cap FramesInHand(d) = {}

NoStray ==
    Len(header) < MaxSlots =>
        \A f \in bitmap : \/ \E b \in blocks : f \in FramesOf(b)
                          \/ \E c \in Callers : f \in FramesInHand(c)

Inv == HeapsInv /\ RegionsInv /\ SlotsInv /\ ListInv /\ SearchInv /\ FramesInv /\ NoStray

IInv == TypeOK /\ (raced <=> Overlap) /\ (~wrapped => Inv)

-----------------------------------------------------------------------------
(* Types *)

Calls == [heap : Heaps, op : {"none", "alloc", "free", "translate"},
          virt : Nat, frame : Nat, size : Nat, slot : Nat]

LEMMA NoCallTyped == NoCall \in Calls
BY AvmfAssumption DEF NoCall, Calls

LEMMA FieldTypes ==
    ASSUME TypeOK
    PROVE  /\ \A c \in Callers : /\ arg[c] \in Calls /\ arg[c].heap \in Heaps
                                 /\ arg[c].virt \in Nat /\ arg[c].frame \in Nat
                                 /\ arg[c].size \in Nat /\ arg[c].slot \in Nat
           /\ \A h \in Heaps : heap_ptr[h] \in Nat
           /\ \A b \in blocks : /\ b \in Blocks /\ b.virt \in Nat /\ b.frame \in Nat
                                /\ b.size \in Nat /\ b.slot \in Nat
           /\ Len(header) \in Nat
           /\ \A s \in 1..Len(header) : /\ header[s] \in [virt : Nat, frame : Nat, size : Nat]
                                        /\ header[s].virt \in Nat /\ header[s].frame \in Nat
                                        /\ header[s].size \in Nat
<1>1. \A c \in Callers : arg[c] \in Calls
  BY DEF TypeOK, Calls
<1>2. \A b \in blocks : b \in Blocks
  BY DEF TypeOK
<1>3. \A s \in 1..Len(header) : header[s] \in [virt : Nat, frame : Nat, size : Nat]
  <2>1. ASSUME NEW R, NEW q \in Seq(R), NEW s \in 1..Len(q) PROVE q[s] \in R
    OBVIOUS
  <2>. QED
    BY <2>1 DEF TypeOK
<1>. QED
  BY <1>1, <1>2, <1>3 DEF TypeOK, Blocks, Calls

LEMMA FieldUpdates ==
    ASSUME NEW r \in Calls, NEW n \in Nat
    PROVE  /\ [r EXCEPT !.virt = n] \in Calls
           /\ [r EXCEPT !.frame = n] \in Calls
           /\ [r EXCEPT !.slot = n] \in Calls
BY DEF Calls

LEMMA SizesTyped == \A n \in Sizes : n \in Nat /\ n > 0
BY AvmfAssumption

LEMMA PlusTyped ==
    ASSUME NEW a \in Nat, NEW b \in Nat
    PROVE  /\ Plus(a, b) \in Nat
           /\ a + b < Word => Plus(a, b) = a + b
BY AvmfAssumption DEF Plus

LEMMA OverlapBoolean == Overlap \in BOOLEAN
BY DEF Overlap

LEMMA TypeKept == TypeOK /\ [Next]_vars => TypeOK'
<1>. SUFFICES ASSUME TypeOK, Next PROVE TypeOK'
  BY DEF TypeOK, vars
<1>. PICK c \in Callers : Alloc(c) \/ Find(c)
  BY DEF Next
<1>0. raced' \in BOOLEAN
  BY OverlapBoolean DEF Next, Overlap
<1>w. wrapped' \in BOOLEAN
  <2>1. CASE VirtAdd(c)
    BY <2>1 DEF VirtAdd
  <2>2. CASE wrapped' = wrapped
    BY <2>2 DEF TypeOK
  <2>. QED
    BY <2>1, <2>2 DEF Alloc, Find, VirtCheck, VirtRead, TakeFrames, NoFrames, FindTail,
       HeadersLeft, NoHeaders, AppendHeader, Map, Free, Translate, FindCached, ReturnCached,
       FindWalk, FindNothing, FreeFound, Translated
<1>a. \A r \in Calls : [arg EXCEPT ![c] = r] \in [Callers -> Calls]
  BY FieldTypes DEF TypeOK, Calls
<1>b. /\ arg[c] \in Calls
      /\ pc \in [Callers -> {"idle", "virt_read", "virt_add", "phys", "tail", "bound",
                             "append", "map", "find", "cached", "found"}]
  BY FieldTypes DEF TypeOK
<1>. DEFINE Rest == /\ heap_ptr' \in [Heaps -> Nat] /\ bitmap' \in SUBSET Frames
                    /\ header' \in Seq([virt : Nat, frame : Nat, size : Nat])
                    /\ linked' \subseteq 1..Len(header') /\ last_found' \in 0..Len(header')
                    /\ blocks' \subseteq Blocks
            PcTyped == pc' \in [Callers -> {"idle", "virt_read", "virt_add", "phys", "tail",
                                  "bound", "append", "map", "find", "cached", "found"}]
<1>c. ASSUME Rest, PcTyped, arg' \in [Callers -> Calls] PROVE TypeOK'
  BY <1>0, <1>w, <1>c DEF TypeOK, Calls
<1>. HIDE DEF Rest, PcTyped
<1>d. ASSUME UNCHANGED <<heap_ptr, bitmap, header, linked, last_found, blocks>> PROVE Rest
  BY <1>d DEF TypeOK, Rest
<1>1. ASSUME NEW h \in Heaps, NEW n \in Sizes, VirtCheck(c, h, n) PROVE TypeOK'
  <2>1. [NoCall EXCEPT !.heap = h, !.size = n, !.op = "alloc"] \in Calls
    BY NoCallTyped, SizesTyped DEF Calls
  <2>2. arg' \in [Callers -> Calls]
    BY <1>1, <1>a, <2>1 DEF VirtCheck
  <2>3. PcTyped
    BY <1>1, <1>b DEF VirtCheck, Goto, PcTyped
  <2>. QED
    BY <1>1, <1>c, <1>d, <2>2, <2>3 DEF VirtCheck
<1>2. CASE VirtRead(c)
  <2>1. arg' = [arg EXCEPT ![c] = [arg[c] EXCEPT !.virt = heap_ptr[arg[c].heap]]]
    BY <1>2 DEF VirtRead
  <2>2. arg' \in [Callers -> Calls]
    BY <1>a, <1>b, <2>1, FieldTypes, FieldUpdates
  <2>3. PcTyped
    BY <1>2, <1>b DEF VirtRead, Goto, PcTyped
  <2>. QED
    BY <1>2, <1>c, <1>d, <2>2, <2>3 DEF VirtRead
<1>3. CASE VirtAdd(c)
  <2>0. heap_ptr' \in [Heaps -> Nat]
    <3>1. arg[c].heap \in Heaps /\ Plus(heap_ptr[arg[c].heap], arg[c].size) \in Nat
      BY FieldTypes, PlusTyped
    <3>. QED
      BY <1>3, <3>1 DEF VirtAdd, TypeOK
  <2>1. Rest
    BY <1>3, <2>0 DEF VirtAdd, TypeOK, Rest
  <2>2. PcTyped /\ arg' \in [Callers -> Calls]
    BY <1>3, <1>b DEF VirtAdd, Goto, PcTyped, TypeOK, Calls
  <2>. QED
    BY <1>c, <2>1, <2>2
<1>4. CASE TakeFrames(c)
  <2>1. PICK f \in Frames : /\ Run(f, arg[c].size) \subseteq Frames \ bitmap
                            /\ bitmap' = bitmap \cup Run(f, arg[c].size)
                            /\ arg' = [arg EXCEPT ![c] = [arg[c] EXCEPT !.frame = f]]
    BY <1>4 DEF TakeFrames
  <2>2. arg' \in [Callers -> Calls]
    BY <1>a, <1>b, <2>1, FieldUpdates, AvmfAssumption
  <2>3. Rest
    BY <1>4, <2>1 DEF TakeFrames, TypeOK, Rest
  <2>4. PcTyped
    BY <1>4, <1>b DEF TakeFrames, Goto, PcTyped
  <2>. QED
    BY <1>c, <2>2, <2>3, <2>4
<1>6. CASE FindTail(c)
  <2>1. PICK s \in linked \cup {0} : arg' = [arg EXCEPT ![c] = [arg[c] EXCEPT !.slot = s]]
    BY <1>6 DEF FindTail
  <2>2. s \in Nat
    BY FieldTypes DEF TypeOK
  <2>3. arg' \in [Callers -> Calls]
    BY <1>a, <1>b, <2>1, <2>2, FieldUpdates
  <2>4. PcTyped
    BY <1>6, <1>b DEF FindTail, Goto, PcTyped
  <2>. QED
    BY <1>6, <1>c, <1>d, <2>3, <2>4 DEF FindTail
<1>7. CASE HeadersLeft(c) \/ FindCached(c)
  <2>1. PcTyped /\ arg' \in [Callers -> Calls]
    BY <1>7, <1>b DEF HeadersLeft, FindCached, Goto, PcTyped, TypeOK, Calls
  <2>. QED
    BY <1>7, <1>c, <1>d, <2>1 DEF HeadersLeft, FindCached
<1>8. CASE NoFrames(c) \/ NoHeaders(c) \/ FindNothing(c) \/ Translated(c)
  <2>1. PcTyped
    BY <1>8, <1>b DEF NoFrames, NoHeaders, FindNothing, Translated, Goto, PcTyped
  <2>2. arg' \in [Callers -> Calls]
    BY <1>8, <1>a, NoCallTyped DEF NoFrames, NoHeaders, FindNothing, Translated
  <2>. QED
    BY <1>8, <1>c, <1>d, <2>1, <2>2 DEF NoFrames, NoHeaders, FindNothing, Translated
<1>9. CASE AppendHeader(c)
  <2>1. arg' = [arg EXCEPT ![c] = [arg[c] EXCEPT !.slot = Len(header) + 1]]
    BY <1>9 DEF AppendHeader
  <2>2. Len(header) \in Nat /\ Len(header) + 1 \in Nat
    BY FieldTypes
  <2>3. arg' \in [Callers -> Calls]
    BY <1>a, <1>b, <2>1, <2>2, FieldUpdates
  <2>4. [virt |-> arg[c].virt, frame |-> arg[c].frame, size |-> arg[c].size]
           \in [virt : Nat, frame : Nat, size : Nat]
    BY FieldTypes
  <2>5. /\ header' \in Seq([virt : Nat, frame : Nat, size : Nat])
        /\ Len(header') = Len(header) + 1
    BY <1>9, <2>4 DEF AppendHeader, TypeOK
  <2>6. linked' \subseteq linked \cup {Len(header) + 1}
    BY <1>9 DEF AppendHeader, Linked
  <2>7. linked' \subseteq 1..Len(header')
    <3>1. 1..Len(header) \subseteq 1..Len(header') /\ Len(header) + 1 \in 1..Len(header')
      BY <2>2, <2>5
    <3>2. linked \subseteq 1..Len(header)
      BY DEF TypeOK
    <3>. QED
      BY <2>6, <3>1, <3>2
  <2>8. Rest
    BY <1>9, <2>2, <2>5, <2>7 DEF AppendHeader, TypeOK, Rest
  <2>9. PcTyped
    BY <1>9, <1>b DEF AppendHeader, Goto, PcTyped
  <2>. QED
    BY <1>c, <2>3, <2>8, <2>9
<1>10. CASE Map(c)
  <2>1. [virt |-> arg[c].virt, frame |-> arg[c].frame, size |-> arg[c].size,
         slot |-> arg[c].slot] \in Blocks
    BY FieldTypes DEF Blocks
  <2>2. Rest
    BY <1>10, <2>1 DEF Map, TypeOK, Rest
  <2>3. PcTyped
    BY <1>10, <1>b DEF Map, Goto, PcTyped
  <2>4. arg' \in [Callers -> Calls]
    BY <1>10, <1>a, NoCallTyped DEF Map
  <2>. QED
    BY <1>c, <2>2, <2>3, <2>4
<1>11. ASSUME NEW b \in blocks, Free(c, b) PROVE TypeOK'
  <2>1. [NoCall EXCEPT !.op = "free", !.virt = b.virt, !.frame = b.frame, !.size = b.size]
           \in Calls
    BY NoCallTyped, FieldTypes DEF Calls
  <2>2. arg' \in [Callers -> Calls]
    BY <1>11, <1>a, <2>1 DEF Free
  <2>3. PcTyped
    BY <1>11, <1>b DEF Free, Goto, PcTyped
  <2>4. Rest
    BY <1>11 DEF Free, TypeOK, Rest
  <2>. QED
    BY <1>c, <2>2, <2>3, <2>4
<1>12. ASSUME NEW b \in blocks, NEW v \in Run(b.virt, b.size), Translate(c, b, v) PROVE TypeOK'
  <2>1. v \in Nat /\ b.frame + (v - b.virt) \in Nat
    BY FieldTypes DEF Run
  <2>2. [NoCall EXCEPT !.op = "translate", !.virt = v, !.frame = b.frame + (v - b.virt)]
           \in Calls
    BY <2>1, NoCallTyped DEF Calls
  <2>3. arg' \in [Callers -> Calls]
    BY <1>12, <1>a, <2>2 DEF Translate
  <2>4. PcTyped
    BY <1>12, <1>b DEF Translate, Goto, PcTyped
  <2>. QED
    BY <1>12, <1>c, <1>d, <2>3, <2>4 DEF Translate
<1>14. CASE ReturnCached(c)
  <2>1. arg' = [arg EXCEPT ![c] = [arg[c] EXCEPT !.slot = last_found]]
    BY <1>14 DEF ReturnCached
  <2>2. last_found \in Nat
    BY FieldTypes DEF TypeOK
  <2>3. arg' \in [Callers -> Calls]
    BY <1>a, <1>b, <2>1, <2>2, FieldUpdates
  <2>4. PcTyped
    BY <1>14, <1>b DEF ReturnCached, Goto, PcTyped
  <2>. QED
    BY <1>14, <1>c, <1>d, <2>3, <2>4 DEF ReturnCached
<1>15. CASE FindWalk(c)
  <2>1. PICK s \in linked : /\ last_found' = s
                            /\ arg' = [arg EXCEPT ![c] = [arg[c] EXCEPT !.slot = s]]
    BY <1>15 DEF FindWalk
  <2>2. s \in Nat /\ s \in 0..Len(header)
    BY FieldTypes DEF TypeOK
  <2>3. arg' \in [Callers -> Calls]
    BY <1>a, <1>b, <2>1, <2>2, FieldUpdates
  <2>4. PcTyped
    BY <1>15, <1>b DEF FindWalk, Goto, PcTyped
  <2>5. Rest
    BY <1>15, <2>1, <2>2 DEF FindWalk, TypeOK, Rest
  <2>. QED
    BY <1>c, <2>3, <2>4, <2>5
<1>17. CASE FreeFound(c)
  <2>1. PcTyped
    BY <1>17, <1>b DEF FreeFound, Goto, PcTyped
  <2>2. arg' \in [Callers -> Calls]
    BY <1>17, <1>a, NoCallTyped DEF FreeFound
  <2>3. Rest
    BY <1>17 DEF FreeFound, TypeOK, Rest
  <2>. QED
    BY <1>c, <2>1, <2>2, <2>3
<1>. QED
  BY <1>1, <1>2, <1>3, <1>4, <1>6, <1>7, <1>8, <1>9, <1>10, <1>11, <1>12,
     <1>14, <1>15, <1>17 DEF Alloc, Find

-----------------------------------------------------------------------------
(* One lemma for the steps that change nothing but the place and the       *)
(* locals of their processor, and one for each of the others.              *)

Others(c) == \A d \in Callers \ {c} : pc'[d] = pc[d] /\ arg'[d] = arg[d]

LEMMA LocalKeeps ==
    ASSUME TypeOK, Inv, NEW c \in Callers, Others(c),
           UNCHANGED <<heap_ptr, bitmap, header, linked, blocks>>,
           last_found' = last_found \/ \A d \in Callers \ {c} : pc[d] # "cached",
           FramesInHand(c)' \subseteq FramesInHand(c),
           FramesInHand(c)' = FramesInHand(c) \/ Len(header) >= MaxSlots,
           pc'[c] # "map",
           pc'[c] \in Pending => /\ pc[c] \in Pending
                                 /\ arg'[c].virt = arg[c].virt /\ arg'[c].size = arg[c].size,
           HeapOk(c)', ListOk(c)', SearchOk(c)'
    PROVE  Inv'
<1>. USE DEF Inv
<1>0. /\ \A r : Placed(r)' <=> Placed(r)
      /\ \A r : Describes(r)' <=> Describes(r)
      /\ \A s : Region(s)' = Region(s)
      /\ \A r, s : Sought(r, s)' <=> Sought(r, s)
  BY DEF Placed, Describes, Region, Sought, Holds
<1>1. HeapsInv'
  BY DEF HeapsInv, HeapOk, Others
<1>2. RegionsInv'
  <2>1. \A d \in Callers : pc'[d] \in Pending =>
            /\ pc[d] \in Pending
            /\ PagesOf(arg'[d]) = PagesOf(arg[d])
            /\ Placed(arg'[d]) <=> Placed(arg[d])
    BY DEF Others, PagesOf, Placed
  <2>. QED
    BY <1>0, <2>1 DEF RegionsInv, PagesOf
<1>3. SlotsInv'
  BY <1>0 DEF SlotsInv, Others
<1>4. ListInv'
  BY DEF ListInv, ListOk, Others
<1>5. SearchInv'
  <2>1. ASSUME NEW d \in Callers \ {c} PROVE SearchOk(d)'
    BY <1>0 DEF SearchInv, SearchOk, Others, Cached, Holds
  <2>. QED
    BY <2>1 DEF SearchInv
<1>6. \A d \in Callers : FramesInHand(d)' \subseteq FramesInHand(d)
  BY DEF Others, FramesInHand, Freeing, FramesOf
<1>7. FramesInv'
  BY <1>6 DEF FramesInv, FramesOf
<1>8. NoStray'
  <2>1. \A d \in Callers \ {c} : FramesInHand(d)' = FramesInHand(d)
    BY DEF Others, FramesInHand, Freeing, FramesOf
  <2>2. CASE Len(header) >= MaxSlots
    BY <2>2, FieldTypes, AvmfAssumption DEF NoStray
  <2>3. CASE FramesInHand(c)' = FramesInHand(c)
    BY <2>1, <2>3 DEF NoStray, FramesOf
  <2>. QED
    BY <2>2, <2>3
<1>. QED
  BY <1>1, <1>2, <1>3, <1>4, <1>5, <1>7, <1>8
\* What a caller that leaves avmf_alloc or avmf_find still has: nothing.
LEMMA LeaveKeeps ==
    ASSUME TypeOK, Inv, NEW c \in Callers, Others(c),
           UNCHANGED <<heap_ptr, bitmap, header, linked, last_found, blocks>>,
           pc'[c] = "idle", arg'[c] = NoCall,
           FramesInHand(c) = {} \/ Len(header) >= MaxSlots
    PROVE  Inv'
<1>1. FramesInHand(c)' = {}
  BY DEF FramesInHand, Freeing
<1>2. HeapOk(c)' /\ ListOk(c)' /\ SearchOk(c)'
  BY DEF HeapOk, ListOk, SearchOk, AtHeap, Pending, Searching
<1>. QED
  BY <1>1, <1>2, LocalKeeps DEF Pending

LEMMA VirtSteps ==
    ASSUME TypeOK, Inv, NEW c \in Callers,
           VirtRead(c) \/ \E h \in Heaps, n \in Sizes : VirtCheck(c, h, n)
    PROVE  Inv'
<1>0. Others(c) /\ UNCHANGED <<heap_ptr, bitmap, header, linked, last_found, blocks>>
  BY DEF VirtRead, VirtCheck, Goto, Others, TypeOK
<1>1. pc'[c] \in AtHeap /\ FramesInHand(c)' = {} /\ FramesInHand(c) = {}
  BY DEF VirtRead, VirtCheck, Goto, FramesInHand, Freeing, TypeOK, AtHeap
<1>2. HeapOk(c)'
  <2>1. ASSUME NEW h \in Heaps, NEW n \in Sizes, VirtCheck(c, h, n) PROVE HeapOk(c)'
    <3>1. pc'[c] = "virt_read" /\ arg'[c].heap = h /\ arg'[c].size = n /\ heap_ptr' = heap_ptr
      BY <2>1 DEF VirtCheck, Goto, NoCall, TypeOK
    <3>2. Plus(heap_ptr[h], n) <= HeapEnd[h]
      BY <2>1 DEF VirtCheck
    <3>3. n \in Nat /\ n > 0
      BY SizesTyped
    <3>. QED
      BY <3>1, <3>2, <3>3 DEF HeapOk
  <2>2. ASSUME VirtRead(c) PROVE HeapOk(c)'
    <3>1. /\ pc[c] = "virt_read" /\ pc'[c] = "virt_add" /\ heap_ptr' = heap_ptr
          /\ arg'[c].heap = arg[c].heap /\ arg'[c].size = arg[c].size
          /\ arg'[c].virt = heap_ptr[arg[c].heap]
      BY <2>2, FieldTypes DEF VirtRead, Goto, TypeOK, Calls
    <3>. QED
      BY <3>1 DEF Inv, HeapsInv, HeapOk, AtHeap
  <2>. QED
    BY <2>1, <2>2
<1>3. ListOk(c)' /\ SearchOk(c)' /\ pc'[c] # "map" /\ pc'[c] \notin Pending
  BY <1>1 DEF ListOk, SearchOk, AtHeap, Pending, Searching
<1>. QED
  BY <1>0, <1>1, <1>2, <1>3, LocalKeeps

LEMMA TailSteps ==
    ASSUME TypeOK, Inv, NEW c \in Callers, FindTail(c) \/ HeadersLeft(c)
    PROVE  Inv'
<1>0. Others(c) /\ UNCHANGED <<heap_ptr, bitmap, header, linked, last_found, blocks>>
  BY DEF FindTail, HeadersLeft, Goto, Others, TypeOK
<1>1. /\ pc[c] \in {"tail", "bound"} /\ pc'[c] \in {"bound", "append"}
      /\ arg'[c].virt = arg[c].virt /\ arg'[c].size = arg[c].size
      /\ arg'[c].frame = arg[c].frame /\ arg'[c].heap = arg[c].heap
  <2>1. CASE FindTail(c)
    <3>1. PICK s : arg' = [arg EXCEPT ![c].slot = s]
      BY <2>1 DEF FindTail
    <3>. QED
      BY <2>1, <3>1, FieldTypes DEF FindTail, Goto, TypeOK, Calls
  <2>2. CASE HeadersLeft(c)
    BY <2>2 DEF HeadersLeft, Goto, TypeOK
  <2>. QED
    BY <2>1, <2>2
<1>2. FramesInHand(c)' = FramesInHand(c)
  BY <1>1 DEF FramesInHand, FramesOf
<1>3. HeapOk(c)'
  BY <1>0, <1>1 DEF Inv, HeapsInv, HeapOk, AtHeap, Pending
<1>4. SearchOk(c)' /\ pc'[c] # "map" /\ pc[c] \in Pending
  BY <1>1 DEF SearchOk, Searching, Pending
<1>5. ListOk(c)'
  <2>1. CASE FindTail(c)
    <3>1. PICK s \in linked \cup {0} : /\ \A t \in linked : t <= s
                                       /\ s = 0 => linked = {}
                                       /\ arg' = [arg EXCEPT ![c].slot = s]
      BY <2>1 DEF FindTail
    <3>2. s = Len(header)
      <4>1. linked = 1..Len(header) /\ Len(header) \in Nat
        BY FieldTypes DEF Inv, ListInv
      <4>2. Len(header) # 0 => Len(header) \in linked
        BY <4>1
      <4>. QED
        BY <3>1, <4>1, <4>2
    <3>3. arg'[c].slot = s
      BY <3>1, FieldTypes DEF TypeOK, Calls
    <3>4. pc'[c] = "bound"
      BY <2>1 DEF FindTail, Goto, TypeOK
    <3>. QED
      BY <1>0, <3>2, <3>3, <3>4 DEF ListOk
  <2>2. CASE HeadersLeft(c)
    BY <1>0, <2>2 DEF HeadersLeft, Goto, TypeOK, ListOk, Inv, ListInv
  <2>. QED
    BY <2>1, <2>2
<1>. QED
  BY <1>0, <1>1, <1>2, <1>3, <1>4, <1>5, LocalKeeps
LEMMA NoFramesKeeps == ASSUME TypeOK, Inv, NEW c \in Callers, NoFrames(c) PROVE Inv'
<1>1. FramesInHand(c) = {}
  BY DEF NoFrames, Goto, FramesInHand, Freeing
<1>. QED
  BY <1>1, LeaveKeeps DEF NoFrames, Goto, Others, TypeOK

LEMMA NoHeadersKeeps == ASSUME TypeOK, Inv, NEW c \in Callers, NoHeaders(c) PROVE Inv'
BY LeaveKeeps DEF NoHeaders, Goto, Others, TypeOK

\* Whoever searches for a block in use finds a header: the block's own.
LEMMA FindNothingKeeps == ASSUME TypeOK, Inv, NEW c \in Callers, FindNothing(c) PROVE Inv'
<1>1. PICK s \in 1..Len(header) : Sought(arg[c], s)
  BY DEF FindNothing, Goto, Inv, SearchInv, SearchOk, Searching
<1>. QED
  BY <1>1 DEF FindNothing, Inv, ListInv, Sought

LEMMA TranslatedKeeps == ASSUME TypeOK, Inv, NEW c \in Callers, Translated(c) PROVE Inv'
<1>1. FramesInHand(c) = {}
  BY DEF Translated, Goto, FramesInHand, Freeing
<1>. QED
  BY <1>1, LeaveKeeps DEF Translated, Goto, Others, TypeOK

LEMMA TranslateKeeps ==
    ASSUME TypeOK, Inv, NEW c \in Callers, NEW b \in blocks, NEW v \in Run(b.virt, b.size),
           Translate(c, b, v)
    PROVE  Inv'
<1>0. Others(c) /\ UNCHANGED <<heap_ptr, bitmap, header, linked, last_found, blocks>>
  BY DEF Translate, Goto, Others, TypeOK
<1>1. /\ pc[c] = "idle" /\ pc'[c] = "find" /\ arg'[c].op = "translate"
      /\ arg'[c].virt = v /\ arg'[c].frame = b.frame + (v - b.virt)
  BY DEF Translate, Goto, NoCall, TypeOK
<1>2. FramesInHand(c) = {} /\ FramesInHand(c)' = {}
  BY <1>1 DEF FramesInHand, Freeing
<1>3. Sought(arg'[c], b.slot)
  <2>1. Describes(b)
    BY DEF Inv, SlotsInv
  <2>. QED
    BY <1>1, <2>1 DEF Sought, Describes, Holds
<1>4. SearchOk(c)'
  <2>1. Sought(arg[c], b.slot)' /\ b.slot \in 1..Len(header')
    BY <1>0, <1>3 DEF Sought, Holds
  <2>. QED
    BY <1>1, <2>1 DEF SearchOk
<1>5. HeapOk(c)' /\ ListOk(c)' /\ pc'[c] # "map" /\ pc'[c] \notin Pending
  BY <1>1 DEF HeapOk, ListOk, AtHeap, Pending
<1>. QED
  BY <1>0, <1>2, <1>4, <1>5, LocalKeeps

\* The test and the second read of last_found, and the walk.
LEMMA FindSteps ==
    ASSUME TypeOK, Inv, ~Overlap, NEW c \in Callers,
           FindCached(c) \/ ReturnCached(c) \/ FindWalk(c)
    PROVE  Inv'
<1>0. Others(c) /\ UNCHANGED <<heap_ptr, bitmap, header, linked, blocks>>
  BY DEF FindCached, ReturnCached, FindWalk, Goto, Others, TypeOK
<1>1. /\ pc[c] \in {"find", "cached"} /\ pc'[c] \in {"cached", "found"}
      /\ arg'[c].virt = arg[c].virt /\ arg'[c].size = arg[c].size
      /\ arg'[c].frame = arg[c].frame /\ arg'[c].op = arg[c].op
  <2>1. CASE FindCached(c)
    BY <2>1 DEF FindCached, Goto, TypeOK
  <2>2. CASE ReturnCached(c)
    BY <2>2, FieldTypes DEF ReturnCached, Goto, TypeOK, Calls
  <2>3. CASE FindWalk(c)
    <3>1. PICK s : arg' = [arg EXCEPT ![c].slot = s]
      BY <2>3 DEF FindWalk
    <3>. QED
      BY <2>3, <3>1, FieldTypes DEF FindWalk, Goto, TypeOK, Calls
  <2>. QED
    BY <2>1, <2>2, <2>3
<1>2. last_found' = last_found \/ \A d \in Callers \ {c} : pc[d] # "cached"
  BY DEF FindCached, ReturnCached, FindWalk, Goto, Overlap
<1>3. FramesInHand(c)' = FramesInHand(c)
  BY <1>1 DEF FramesInHand, Freeing, FramesOf
<1>4. HeapOk(c)' /\ ListOk(c)' /\ pc'[c] # "map" /\ pc'[c] \notin Pending
  BY <1>1 DEF HeapOk, ListOk, AtHeap, Pending
<1>5. PICK s \in 1..Len(header) : Sought(arg[c], s)
  BY <1>1 DEF Inv, SearchInv, SearchOk, Searching
<1>6. Sought(arg[c], s)' /\ s \in 1..Len(header')
  BY <1>0, <1>1, <1>5 DEF Sought, Holds
<1>7. pc'[c] = "cached" => Cached(arg[c].virt)'
  BY <1>0, <1>1 DEF FindCached, ReturnCached, FindWalk, Goto, Cached, Holds, TypeOK
<1>8. pc'[c] = "found" => (arg[c].slot \in 1..Len(header) /\ Holds(arg[c].slot, arg[c].virt))'
  <2>1. CASE FindCached(c)
    BY <2>1 DEF FindCached, Goto, TypeOK
  <2>2. CASE ReturnCached(c)
    <3>1. arg'[c].slot = last_found
      BY <2>2, FieldTypes DEF ReturnCached, TypeOK, Calls
    <3>2. Cached(arg[c].virt)
      BY <2>2 DEF ReturnCached, Goto, Inv, SearchInv, SearchOk
    <3>3. last_found \in 1..Len(header)
      BY <3>2, FieldTypes DEF Cached, TypeOK
    <3>. QED
      BY <1>0, <1>1, <3>1, <3>2, <3>3 DEF Cached, Holds
  <2>3. CASE FindWalk(c)
    <3>1. PICK t \in linked : Holds(t, arg[c].virt) /\ arg' = [arg EXCEPT ![c].slot = t]
      BY <2>3 DEF FindWalk
    <3>2. arg'[c].slot = t
      BY <3>1, FieldTypes DEF TypeOK, Calls
    <3>. QED
      BY <1>0, <1>1, <3>1, <3>2 DEF Holds, Inv, ListInv
  <2>. QED
    BY <2>1, <2>2, <2>3
<1>9. SearchOk(c)'
  BY <1>6, <1>7, <1>8 DEF SearchOk
<1>. QED
  BY <1>0, <1>1, <1>2, <1>3, <1>4, <1>9, LocalKeeps
\* A range at the heap pointer is apart from whatever lies below one.
LEMMA FreshRange ==
    ASSUME TypeOK, Inv, NEW c \in Callers, pc[c] = "virt_add",
           heap_ptr[arg[c].heap] + arg[c].size < Word,
           NEW r, r.virt \in Nat, r.size \in Nat, Placed(r)
    PROVE  PagesOf(arg[c]) \cap PagesOf(r) = {}
<1>. DEFINE h == arg[c].heap
<1>0. h \in Heaps /\ heap_ptr[h] \in Nat /\ arg[c].size \in Nat
  BY FieldTypes
<1>1. /\ h \in Heaps /\ arg[c].virt = heap_ptr[h] /\ arg[c].virt \in Nat /\ arg[c].size \in Nat
      /\ HeapBase[h] <= heap_ptr[h]
      /\ heap_ptr[h] + arg[c].size <= HeapEnd[h]
  <2>1. Plus(heap_ptr[h], arg[c].size) = heap_ptr[h] + arg[c].size
    BY <1>0, PlusTyped
  <2>. QED
    BY <1>0, <2>1, FieldTypes DEF Inv, HeapsInv, HeapOk, AtHeap
<1>2. PICK g \in Heaps : HeapBase[g] <= r.virt /\ r.virt + r.size <= heap_ptr[g]
  BY DEF Placed
<1>3. heap_ptr[g] <= HeapEnd[g] /\ heap_ptr[g] \in Nat
  BY FieldTypes DEF Inv, HeapsInv
<1>4. \A i \in Heaps : HeapBase[i] \in Nat /\ HeapEnd[i] \in Nat
  BY AvmfAssumption
<1>5. g # h => HeapEnd[g] <= HeapBase[h] \/ HeapEnd[h] <= HeapBase[g]
  BY <1>1, AvmfAssumption
<1>6. r.virt + r.size <= arg[c].virt \/ arg[c].virt + arg[c].size <= r.virt
  BY <1>1, <1>2, <1>3, <1>4, <1>5
<1>. QED
  BY <1>1, <1>6 DEF PagesOf, Run

LEMMA VirtAddKeeps ==
    ASSUME TypeOK, Inv, ~Overlap, NEW c \in Callers, VirtAdd(c), ~wrapped'
    PROVE  Inv'
<1>. DEFINE h == arg[c].heap
<1>w. /\ heap_ptr[h] + arg[c].size < Word
      /\ Plus(heap_ptr[h], arg[c].size) = heap_ptr[h] + arg[c].size
  <2>1. h \in Heaps /\ heap_ptr[h] \in Nat /\ arg[c].size \in Nat /\ Word \in Nat
    BY FieldTypes, AvmfAssumption
  <2>2. ~(heap_ptr[h] + arg[c].size >= Word)
    BY Zenon DEF VirtAdd
  <2>3. heap_ptr[h] + arg[c].size < Word
    BY <2>1, <2>2
  <2>4. Plus(heap_ptr[h], arg[c].size) = heap_ptr[h] + arg[c].size
    BY <2>1, <2>3, PlusTyped
  <2>. QED
    BY <2>3, <2>4
<1>0. /\ pc[c] = "virt_add" /\ pc'[c] = "phys"
      /\ \A d \in Callers \ {c} : pc'[d] = pc[d]
      /\ UNCHANGED <<bitmap, header, linked, last_found, arg, blocks>>
      /\ heap_ptr'[h] = heap_ptr[h] + arg[c].size
      /\ \A g \in Heaps \ {h} : heap_ptr'[g] = heap_ptr[g]
  BY <1>w, FieldTypes DEF VirtAdd, Goto, TypeOK
<1>1. /\ h \in Heaps /\ arg[c].virt = heap_ptr[h] /\ heap_ptr[h] \in Nat
      /\ arg[c].virt \in Nat /\ arg[c].size \in Nat /\ arg[c].size > 0
      /\ HeapBase[h] <= heap_ptr[h] /\ heap_ptr[h] + arg[c].size <= HeapEnd[h]
  BY <1>0, <1>w, FieldTypes DEF Inv, HeapsInv, HeapOk, AtHeap
<1>2. \A g \in Heaps : heap_ptr[g] \in Nat /\ heap_ptr'[g] \in Nat /\ heap_ptr[g] <= heap_ptr'[g]
  <2>1. \A g \in Heaps : heap_ptr[g] \in Nat
    BY FieldTypes
  <2>. QED
    BY <1>0, <1>1, <2>1
<1>3. ASSUME NEW r, r.virt \in Nat, r.size \in Nat, Placed(r) PROVE Placed(r)'
  <2>1. PICK g \in Heaps : HeapBase[g] <= r.virt /\ r.virt + r.size <= heap_ptr[g]
    BY <1>3 DEF Placed
  <2>. QED
    BY <1>2, <1>3, <2>1 DEF Placed
<1>4. HeapsInv'
  <2>1. \A g \in Heaps : HeapBase[g] <= heap_ptr'[g] /\ heap_ptr'[g] <= HeapEnd[g]
    <3>1. \A g \in Heaps : HeapBase[g] <= heap_ptr[g] /\ heap_ptr[g] <= HeapEnd[g]
      BY DEF Inv, HeapsInv
    <3>2. HeapBase[h] \in Nat
      BY <1>1, AvmfAssumption
    <3>. QED
      BY <1>0, <1>1, <3>1, <3>2
  <2>2. ASSUME NEW d \in Callers \ {c}, pc[d] \in AtHeap PROVE arg[d].heap # h
    BY <1>0, <2>2 DEF Overlap, AtHeap
  <2>3. ASSUME NEW d \in Callers \ {c} PROVE HeapOk(d)'
    <3>1. pc'[d] = pc[d] /\ arg'[d] = arg[d] /\ HeapOk(d) /\ arg[d].heap \in Heaps
      BY <1>0, FieldTypes DEF Inv, HeapsInv
    <3>2. pc[d] \in AtHeap => heap_ptr'[arg[d].heap] = heap_ptr[arg[d].heap]
      BY <1>0, <2>2, <3>1
    <3>. QED
      BY <3>1, <3>2 DEF HeapOk, AtHeap
  <2>4. HeapOk(c)'
    BY <1>0, <1>1 DEF HeapOk, AtHeap
  <2>. QED
    BY <2>1, <2>3, <2>4 DEF HeapsInv
<1>5. RegionsInv'
  <2>1. Placed(arg[c])'
    BY <1>0, <1>1 DEF Placed
  <2>2. \A s \in 1..Len(header) : Placed(header[s])'
    <3>. SUFFICES ASSUME NEW s \in 1..Len(header) PROVE Placed(header[s])'
      OBVIOUS
    <3>1. Placed(header[s]) /\ header[s].virt \in Nat /\ header[s].size \in Nat
      BY FieldTypes DEF Inv, RegionsInv
    <3>. DEFINE r == header[s]
    <3>2. PICK g \in Heaps : HeapBase[g] <= r.virt /\ r.virt + r.size <= heap_ptr[g]
      BY <3>1 DEF Placed
    <3>3. header'[s] = header[s]
      BY <1>0
    <3>4. HeapBase[g] <= r.virt /\ r.virt + r.size <= heap_ptr'[g]
      BY <1>2, <3>1, <3>2
    <3>. QED
      BY <3>3, <3>4 DEF Placed
  <2>3. \A s \in 1..Len(header) : PagesOf(arg[c]) \cap Region(s) = {}
    BY <1>0, <1>w, FreshRange, FieldTypes DEF Inv, RegionsInv, Region, PagesOf
  <2>4. ASSUME NEW d \in Callers, pc[d] \in Pending
        PROVE  Placed(arg[d])' /\ PagesOf(arg[c]) \cap PagesOf(arg[d]) = {}
    <3>1. Placed(arg[d]) /\ arg[d].virt \in Nat /\ arg[d].size \in Nat
      BY <2>4, FieldTypes DEF Inv, RegionsInv
    <3>. QED
      BY <1>0, <1>3, <1>w, <3>1, FreshRange
  <2>5. /\ \A s \in 1..Len(header') : Placed(header[s])' /\ header'[s].size > 0
        /\ \A s, t \in 1..Len(header') : s # t => Region(s)' \cap Region(t)' = {}
    BY <1>0, <2>2 DEF Inv, RegionsInv, Region
  <2>6. \A d \in Callers : pc'[d] \in Pending =>
            Placed(arg[d])' /\ \A s \in 1..Len(header') : PagesOf(arg'[d]) \cap Region(s)' = {}
    BY <1>0, <2>1, <2>3, <2>4 DEF Inv, RegionsInv, Region
  <2>7. \A d, e \in Callers : d # e /\ pc'[d] \in Pending /\ pc'[e] \in Pending =>
            PagesOf(arg'[d]) \cap PagesOf(arg'[e]) = {}
    BY <1>0, <2>4 DEF Inv, RegionsInv
  <2>. QED
    BY <2>5, <2>6, <2>7 DEF RegionsInv, PagesOf
<1>6. SlotsInv'
  BY <1>0 DEF Inv, SlotsInv, Describes
<1>7. ListInv'
  BY <1>0 DEF Inv, ListInv, ListOk
<1>8. SearchInv'
  BY <1>0 DEF Inv, SearchInv, SearchOk, Searching, Sought, Holds, Cached
<1>9. \A d \in Callers : FramesInHand(d)' = FramesInHand(d)
  BY <1>0 DEF FramesInHand, Freeing, FramesOf
<1>10. FramesInv'
  BY <1>0, <1>9 DEF Inv, FramesInv, FramesOf
<1>11. NoStray'
  BY <1>0, <1>9 DEF Inv, NoStray, FramesOf
<1>. QED
  BY <1>4, <1>5, <1>6, <1>7, <1>8, <1>10, <1>11 DEF Inv

LEMMA TakeFramesKeeps ==
    ASSUME TypeOK, Inv, NEW c \in Callers, TakeFrames(c)
    PROVE  Inv'
<1>0. PICK f \in Frames :
          /\ Run(f, arg[c].size) \cap bitmap = {}
          /\ bitmap' = bitmap \cup Run(f, arg[c].size)
          /\ arg' = [arg EXCEPT ![c].frame = f]
  BY DEF TakeFrames
<1>1. /\ pc[c] = "phys" /\ pc'[c] = "tail"
      /\ Others(c)
      /\ UNCHANGED <<heap_ptr, header, linked, last_found, blocks>>
      /\ arg'[c].frame = f /\ arg'[c].virt = arg[c].virt /\ arg'[c].size = arg[c].size
  BY <1>0, FieldTypes DEF TakeFrames, Goto, TypeOK, Others, Calls
<1>2. FramesInHand(c)' = Run(f, arg[c].size) /\ FramesInHand(c) = {}
  BY <1>1 DEF FramesInHand, Freeing, FramesOf
<1>3. \A d \in Callers \ {c} : FramesInHand(d)' = FramesInHand(d)
  BY <1>1 DEF FramesInHand, Freeing, FramesOf, Others
<1>4. HeapsInv' /\ ListInv'
  BY <1>1 DEF Inv, HeapsInv, HeapOk, AtHeap, Pending, ListInv, ListOk, Others
<1>5. RegionsInv'
  <2>1. \A d \in Callers : /\ pc'[d] \in Pending <=> pc[d] \in Pending
                           /\ PagesOf(arg'[d]) = PagesOf(arg[d])
                           /\ Placed(arg[d])' <=> Placed(arg[d])
    BY <1>1 DEF Pending, PagesOf, Placed, Others
  <2>. QED
    BY <1>1, <2>1 DEF Inv, RegionsInv, PagesOf, Placed, Region
<1>6. SlotsInv'
  BY <1>1 DEF Inv, SlotsInv, Describes, Others
<1>7. SearchInv'
  BY <1>1 DEF Inv, SearchInv, SearchOk, Searching, Sought, Holds, Cached, Others
<1>8. FramesInv'
  BY <1>0, <1>1, <1>2, <1>3 DEF Inv, FramesInv, FramesOf
<1>9. NoStray'
  BY <1>0, <1>1, <1>2, <1>3 DEF Inv, NoStray, FramesOf
<1>. QED
  BY <1>4, <1>5, <1>6, <1>7, <1>8, <1>9 DEF Inv
LEMMA AppendHeaderKeeps ==
    ASSUME TypeOK, TypeOK', Inv, ~Overlap, NEW c \in Callers, AppendHeader(c)
    PROVE  Inv'
<1>n. PICK n : n = Len(header)
  OBVIOUS
<1>. DEFINE new == [virt |-> arg[c].virt, frame |-> arg[c].frame, size |-> arg[c].size]
<1>0. /\ pc[c] = "append" /\ pc'[c] = "map"
      /\ Others(c)
      /\ UNCHANGED <<heap_ptr, bitmap, last_found, blocks>>
      /\ linked' = Linked(arg[c].slot, n + 1)
      /\ arg'[c].slot = n + 1 /\ arg'[c].virt = arg[c].virt
      /\ arg'[c].frame = arg[c].frame /\ arg'[c].size = arg[c].size
  BY <1>n, FieldTypes DEF AppendHeader, Goto, TypeOK, Others, Calls
<1>1. /\ n \in Nat /\ Len(header') = n + 1
      /\ header'[n + 1] = new
      /\ \A s \in 1..n : header'[s] = header[s] /\ s \in 1..Len(header') /\ s # n + 1
      /\ n + 1 \in 1..Len(header')
      /\ \A s \in 1..Len(header') : s \in 1..n \/ s = n + 1
  <2>1. header \in Seq([virt : Nat, frame : Nat, size : Nat])
    BY DEF TypeOK
  <2>2. header' = Append(header, new)
    BY DEF AppendHeader
  <2>3. n \in Nat /\ Len(header') = n + 1
    BY <1>n, <2>1, <2>2
  <2>4. header'[n + 1] = new /\ \A s \in 1..n : header'[s] = header[s]
    BY <1>n, <2>1, <2>2
  <2>. QED
    BY <2>3, <2>4
<1>2. /\ \A s \in 1..n : Region(s)' = Region(s)
      /\ Region(n + 1)' = PagesOf(arg[c])
  BY <1>0, <1>1 DEF Region, PagesOf
<1>3. HeapsInv'
  BY <1>0 DEF Inv, HeapsInv, HeapOk, AtHeap, Pending, Others
<1>4. RegionsInv'
  <2>1. /\ Placed(arg[c]) /\ arg[c].size > 0
        /\ \A s \in 1..n : PagesOf(arg[c]) \cap Region(s) = {}
        /\ \A d \in Callers \ {c} : pc[d] \in Pending => PagesOf(arg[c]) \cap PagesOf(arg[d]) = {}
    BY <1>n, <1>0 DEF Inv, RegionsInv, HeapsInv, HeapOk, Pending
  <2>2. \A d \in Callers : pc'[d] \in Pending => d # c /\ pc[d] \in Pending /\ arg'[d] = arg[d]
    BY <1>0 DEF Pending, Others
  <2>3. /\ \A s \in 1..n : Placed(header[s]) /\ header[s].size > 0
        /\ \A s, t \in 1..n : s # t => Region(s) \cap Region(t) = {}
        /\ \A d \in Callers : pc[d] \in Pending =>
              Placed(arg[d]) /\ \A s \in 1..n : PagesOf(arg[d]) \cap Region(s) = {}
        /\ \A d, e \in Callers : d # e /\ pc[d] \in Pending /\ pc[e] \in Pending =>
              PagesOf(arg[d]) \cap PagesOf(arg[e]) = {}
    BY <1>n DEF Inv, RegionsInv
  <2>4. Placed(new)
    BY <2>1 DEF Placed
  <2>5. \A s \in 1..Len(header') : Placed(header'[s]) /\ header'[s].size > 0
    BY <1>1, <2>1, <2>3, <2>4
  <2>6. \A s, t \in 1..Len(header') : s # t => Region(s)' \cap Region(t)' = {}
    BY <1>1, <1>2, <2>1, <2>3
  <2>7. \A d \in Callers : pc'[d] \in Pending =>
            Placed(arg'[d]) /\ \A s \in 1..Len(header') : PagesOf(arg'[d]) \cap Region(s)' = {}
    BY <1>1, <1>2, <2>1, <2>2, <2>3
  <2>8. \A d, e \in Callers : d # e /\ pc'[d] \in Pending /\ pc'[e] \in Pending =>
            PagesOf(arg'[d]) \cap PagesOf(arg'[e]) = {}
    BY <2>2, <2>3
  <2>. QED
    BY <1>0, <2>5, <2>6, <2>7, <2>8 DEF RegionsInv, PagesOf, Placed
<1>5. SlotsInv'
  <2>1. \A r : Describes(r) => Describes(r)'
    BY <1>n, <1>1 DEF Describes
  <2>2. Describes(arg[c])'
    BY <1>0, <1>1 DEF Describes
  <2>3. \A r : Describes(r) => r.slot # n + 1
    BY <1>n, <1>1 DEF Describes
  <2>. QED
    <3>1. ASSUME NEW d \in Callers \ {c}, pc'[d] = "map"
          PROVE  /\ pc[d] = "map" /\ arg'[d] = arg[d] /\ Describes(arg[d]) /\ Describes(arg[d])'
                 /\ arg[d].slot # n + 1
      <4>1. pc[d] = "map" /\ arg'[d] = arg[d] /\ Describes(arg[d])
        BY <1>0, <3>1 DEF Inv, SlotsInv, Others
      <4>. QED
        BY <1>1, <1>n, <2>3, <4>1 DEF Describes
    <3>2. \A b \in blocks : Describes(b) /\ Describes(b)' /\ b.slot # n + 1
      BY <2>1, <2>3 DEF Inv, SlotsInv
    <3>3. \A d \in Callers : pc'[d] = "map" => Describes(arg[d])'
      BY <2>2, <3>1
    <3>4. \A b \in blocks', d \in Callers : pc'[d] = "map" => arg'[d].slot # b.slot
      BY <1>0, <3>1, <3>2 DEF Inv, SlotsInv
    <3>5. \A d, e \in Callers : d # e /\ pc'[d] = "map" /\ pc'[e] = "map" =>
              arg'[d].slot # arg'[e].slot
      BY <1>0, <3>1 DEF Inv, SlotsInv
    <3>. QED
      BY <1>0, <3>2, <3>3, <3>4, <3>5 DEF Inv, SlotsInv
<1>6. ListInv'
  <2>1. arg[c].slot = n /\ n < MaxSlots /\ linked = 1..n
    BY <1>n, <1>0 DEF Inv, ListInv, ListOk
  <2>2. linked' = 1..(n + 1)
    <3>1. CASE n = 0
      BY <1>0, <2>1, <3>1 DEF Linked
    <3>2. CASE n > 0
      <4>1. n \in linked /\ {s \in linked : s <= n} = linked
        BY <1>1, <2>1, <3>2
      <4>2. linked' = linked \cup {n + 1}
        BY <1>0, <2>1, <4>1 DEF Linked
      <4>. QED
        BY <1>1, <2>1, <4>2
    <3>. QED
      BY <1>1, <3>1, <3>2
  <2>3. Len(header') <= MaxSlots
    BY <1>1, <2>1, AvmfAssumption
  <2>4. \A d \in Callers : pc'[d] \notin {"bound", "append"}
    BY <1>0 DEF Overlap, Others
  <2>. QED
    BY <1>1, <2>2, <2>3, <2>4 DEF ListInv, ListOk
<1>7. SearchInv'
  <2>2. last_found \in 0..n
    BY <1>n DEF TypeOK
  <2>3. ASSUME NEW d \in Callers \ {c} PROVE SearchOk(d)'
    <3>1. SearchOk(d) /\ pc'[d] = pc[d] /\ arg'[d] = arg[d]
      BY <1>0 DEF Inv, SearchInv, Others
    <3>2. pc[d] \in Searching => (\E s \in 1..Len(header) : Sought(arg[d], s))'
      <4>1. ASSUME NEW s \in 1..n, Sought(arg[d], s)
            PROVE  s \in 1..Len(header') /\ Sought(arg[d], s)'
        BY <1>1, <1>n, <3>1, <4>1 DEF Sought, Holds
      <4>. QED
        BY <1>n, <3>1, <4>1 DEF SearchOk
    <3>3. pc[d] = "cached" => Cached(arg[d].virt)'
      BY <1>0, <1>1, <2>2, <3>1 DEF SearchOk, Cached, Holds
    <3>4. pc[d] = "found" => (arg[d].slot \in 1..Len(header) /\ Holds(arg[d].slot, arg[d].virt))'
      BY <1>n, <1>1, <3>1 DEF SearchOk, Holds
    <3>. QED
      BY <3>1, <3>2, <3>3, <3>4 DEF SearchOk
  <2>4. SearchOk(c)'
    BY <1>0 DEF SearchOk, Searching
  <2>. QED
    BY <2>3, <2>4 DEF SearchInv
<1>8. \A d \in Callers : FramesInHand(d)' = FramesInHand(d)
  <2>1. FramesInHand(c)' = FramesInHand(c)
    BY <1>0 DEF FramesInHand, FramesOf
  <2>. QED
    BY <1>0, <2>1 DEF FramesInHand, Freeing, FramesOf, Others
<1>9. FramesInv'
  BY <1>0, <1>8 DEF Inv, FramesInv, FramesOf
<1>10. NoStray'
  <2>1. Len(header') < MaxSlots => Len(header) < MaxSlots
    BY <1>n, <1>1, AvmfAssumption
  <2>. QED
    BY <1>0, <1>8, <2>1 DEF Inv, NoStray, FramesOf
<1>. QED
  BY <1>3, <1>4, <1>5, <1>6, <1>7, <1>9, <1>10 DEF Inv

LEMMA MapKeeps ==
    ASSUME TypeOK, Inv, NEW c \in Callers, Map(c)
    PROVE  Inv'
<1>. DEFINE new == [virt |-> arg[c].virt, frame |-> arg[c].frame, size |-> arg[c].size,
                    slot |-> arg[c].slot]
<1>0. /\ pc[c] = "map" /\ pc'[c] = "idle" /\ Others(c)
      /\ UNCHANGED <<heap_ptr, bitmap, header, linked, last_found>>
      /\ blocks' = blocks \cup {new}
  BY DEF Map, Goto, TypeOK, Others
<1>1. Describes(new) /\ FramesInHand(c) = FramesOf(new) /\ FramesInHand(c)' = {}
  BY <1>0 DEF Inv, SlotsInv, Describes, FramesInHand, Freeing, FramesOf
<1>. HIDE DEF new
<1>2. \A d \in Callers \ {c} : FramesInHand(d)' = FramesInHand(d)
  BY <1>0 DEF FramesInHand, Freeing, FramesOf, Others
<1>3. HeapsInv' /\ ListInv'
  BY <1>0 DEF Inv, HeapsInv, HeapOk, AtHeap, Pending, ListInv, ListOk, Others
<1>4. RegionsInv'
  BY <1>0 DEF Inv, RegionsInv, Pending, Placed, Region, PagesOf, Others
<1>5. SlotsInv'
  <2>1. new.slot = arg[c].slot
    BY DEF new
  <2>. QED
    BY <1>0, <1>1, <2>1 DEF Inv, SlotsInv, Describes, Others
<1>6. SearchInv'
  BY <1>0 DEF Inv, SearchInv, SearchOk, Searching, Sought, Holds, Cached, Others
<1>7. FramesInv'
  BY <1>0, <1>1, <1>2 DEF Inv, FramesInv, FramesOf
<1>8. NoStray'
  BY <1>0, <1>1, <1>2 DEF Inv, NoStray, FramesOf
<1>. QED
  BY <1>3, <1>4, <1>5, <1>6, <1>7, <1>8 DEF Inv

LEMMA FreeKeeps ==
    ASSUME TypeOK, Inv, NEW c \in Callers, NEW b \in blocks, Free(c, b)
    PROVE  Inv'
<1>0. /\ pc[c] = "idle" /\ pc'[c] = "find" /\ Others(c)
      /\ UNCHANGED <<heap_ptr, bitmap, header, linked, last_found>>
      /\ blocks' = blocks \ {b}
      /\ arg'[c].op = "free" /\ arg'[c].virt = b.virt
      /\ arg'[c].frame = b.frame /\ arg'[c].size = b.size
  BY DEF Free, Goto, TypeOK, Others, NoCall
<1>1. FramesInHand(c)' = FramesOf(b)
  BY <1>0 DEF FramesInHand, Freeing, FramesOf
<1>2. \A d \in Callers \ {c} : FramesInHand(d)' = FramesInHand(d)
  BY <1>0 DEF FramesInHand, Freeing, FramesOf, Others
<1>3. HeapsInv' /\ ListInv'
  BY <1>0 DEF Inv, HeapsInv, HeapOk, AtHeap, Pending, ListInv, ListOk, Others
<1>4. RegionsInv'
  BY <1>0 DEF Inv, RegionsInv, Pending, Placed, Region, PagesOf, Others
<1>5. SlotsInv'
  BY <1>0 DEF Inv, SlotsInv, Describes, Others
<1>6. SearchInv'
  <2>1. /\ b.slot \in 1..Len(header) /\ header[b.slot].virt = b.virt
        /\ header[b.slot].frame = b.frame /\ header[b.slot].size = b.size
        /\ b.size > 0
    <3>1. Describes(b)
      BY DEF Inv, SlotsInv
    <3>2. header[b.slot].size > 0
      BY <3>1 DEF Inv, RegionsInv, Describes
    <3>. QED
      BY <3>1, <3>2 DEF Describes
  <2>2. b.virt \in Run(b.virt, b.size) /\ b.frame = b.frame + (b.virt - b.virt)
    BY <2>1, FieldTypes DEF Run
  <2>3. Sought(arg[c], b.slot)' /\ b.slot \in 1..Len(header')
    BY <1>0, <2>1, <2>2 DEF Sought, Holds
  <2>4. SearchOk(c)'
    BY <1>0, <2>3 DEF SearchOk
  <2>5. \A d \in Callers \ {c} : SearchOk(d)'
    BY <1>0 DEF Inv, SearchInv, SearchOk, Sought, Holds, Cached, Others
  <2>. QED
    BY <2>4, <2>5 DEF SearchInv
<1>7. FramesInv'
  BY <1>0, <1>1, <1>2 DEF Inv, FramesInv, FramesOf
<1>8. NoStray'
  <2>. SUFFICES ASSUME Len(header) < MaxSlots, NEW f \in bitmap
                PROVE  \/ \E d \in blocks \ {b} : f \in FramesOf(d)
                       \/ \E d \in Callers : f \in FramesInHand(d)'
    BY <1>0 DEF NoStray, FramesOf
  <2>1. CASE f \in FramesOf(b)
    BY <1>1, <2>1
  <2>2. CASE \E d \in blocks : f \in FramesOf(d) /\ d # b
    BY <2>2
  <2>3. CASE \E d \in Callers : f \in FramesInHand(d)
    <3>1. FramesInHand(c) = {}
      BY <1>0 DEF FramesInHand, Freeing
    <3>. QED
      BY <1>2, <2>3, <3>1
  <2>. QED
    BY <2>1, <2>2, <2>3 DEF Inv, NoStray
<1>. QED
  BY <1>3, <1>4, <1>5, <1>6, <1>7, <1>8 DEF Inv

\* What avmf_find returns to avmf_free is the header of the block itself.
LEMMA FoundIsSought ==
    ASSUME TypeOK, Inv, NEW c \in Callers, pc[c] = "found"
    PROVE  Sought(arg[c], arg[c].slot)
<1>1. PICK s \in 1..Len(header) : Sought(arg[c], s)
  BY DEF Inv, SearchInv, SearchOk, Searching
<1>2. arg[c].slot \in 1..Len(header) /\ Holds(arg[c].slot, arg[c].virt)
  BY DEF Inv, SearchInv, SearchOk
<1>3. arg[c].slot = s
  BY <1>1, <1>2 DEF Inv, RegionsInv, Sought, Holds, Region
<1>. QED
  BY <1>1, <1>3

LEMMA FreeFoundKeeps ==
    ASSUME TypeOK, Inv, NEW c \in Callers, FreeFound(c)
    PROVE  Inv'
<1>0. /\ pc[c] = "found" /\ arg[c].op = "free" /\ pc'[c] = "idle" /\ Others(c)
      /\ UNCHANGED <<heap_ptr, header, linked, last_found, blocks>>
      /\ bitmap' = bitmap \ Run(header[arg[c].slot].frame, header[arg[c].slot].size)
  BY DEF FreeFound, Goto, TypeOK, Others
<1>1. FramesInHand(c) = FramesOf(arg[c]) /\ FramesInHand(c)' = {}
  BY <1>0 DEF FramesInHand, Freeing
<1>2. bitmap' = bitmap \ FramesInHand(c)
  <2>1. Sought(arg[c], arg[c].slot)
    BY <1>0, FoundIsSought
  <2>2. header[arg[c].slot].size = arg[c].size /\ header[arg[c].slot].frame = arg[c].frame
    BY <1>0, <2>1, FieldTypes DEF Sought
  <2>. QED
    BY <1>0, <1>1, <2>2 DEF FramesOf
<1>3. \A d \in Callers \ {c} : FramesInHand(d)' = FramesInHand(d)
  BY <1>0 DEF FramesInHand, Freeing, FramesOf, Others
<1>4. HeapsInv' /\ ListInv'
  BY <1>0 DEF Inv, HeapsInv, HeapOk, AtHeap, Pending, ListInv, ListOk, Others
<1>5. RegionsInv'
  BY <1>0 DEF Inv, RegionsInv, Pending, Placed, Region, PagesOf, Others
<1>6. SlotsInv'
  BY <1>0 DEF Inv, SlotsInv, Describes, Others
<1>7. SearchInv'
  BY <1>0 DEF Inv, SearchInv, SearchOk, Searching, Sought, Holds, Cached, Others
<1>8. FramesInv'
  BY <1>0, <1>1, <1>2, <1>3 DEF Inv, FramesInv, FramesOf
<1>9. NoStray'
  BY <1>0, <1>1, <1>2, <1>3 DEF Inv, NoStray, FramesOf
<1>. QED
  BY <1>4, <1>5, <1>6, <1>7, <1>8, <1>9 DEF Inv
LEMMA InitHolds == Init => IInv
<1>. SUFFICES ASSUME Init PROVE IInv
  OBVIOUS
<1>1. TypeOK
  <2>1. HeapBase \in [Heaps -> Nat]
    BY AvmfAssumption
  <2>2. arg \in [Callers -> Calls]
    BY NoCallTyped DEF Init
  <2>3. last_found \in 0..Len(header) /\ linked \subseteq 1..Len(header)
    BY DEF Init
  <2>4. heap_ptr \in [Heaps -> Nat] /\ bitmap \in SUBSET Frames
    BY <2>1 DEF Init
  <2>5. header \in Seq([virt : Nat, frame : Nat, size : Nat]) /\ blocks \subseteq Blocks
    BY DEF Init
  <2>6. pc \in [Callers -> {"idle", "virt_read", "virt_add", "phys", "tail", "bound",
                           "append", "map", "find", "cached", "found"}]
    BY DEF Init
  <2>7. raced \in BOOLEAN /\ wrapped \in BOOLEAN
    BY DEF Init
  <2>. QED
    BY <2>2, <2>3, <2>4, <2>5, <2>6, <2>7 DEF TypeOK, Calls
<1>2. \A c \in Callers : pc[c] = "idle" /\ FramesInHand(c) = {}
  BY DEF Init, FramesInHand, Freeing
<1>3. Len(header) = 0 /\ 1..Len(header) = {}
  BY DEF Init
<1>4. ~Overlap /\ ~raced
  BY <1>2 DEF Overlap, Init
<1>5. HeapsInv
  BY <1>2, AvmfAssumption DEF Init, HeapsInv, HeapOk, AtHeap, Pending
<1>6. RegionsInv /\ SlotsInv /\ SearchInv
  BY <1>2, <1>3 DEF Init, RegionsInv, SlotsInv, SearchInv, SearchOk, Pending, Searching
<1>7. ListInv
  BY <1>2, <1>3, AvmfAssumption DEF Init, ListInv, ListOk
<1>8. FramesInv /\ NoStray
  BY <1>2 DEF Init, FramesInv, NoStray
<1>. QED
  BY <1>1, <1>4, <1>5, <1>6, <1>7, <1>8 DEF IInv, Inv

LEMMA StepKeeps == IInv /\ [Next]_vars => IInv'
<1>. SUFFICES ASSUME IInv, [Next]_vars PROVE IInv'
  OBVIOUS
<1>. USE DEF IInv
<1>0. TypeOK'
  BY TypeKept
<1>1. CASE UNCHANGED vars
  <2>1. (raced <=> Overlap)'
    BY <1>1 DEF vars, Overlap
  <2>. SUFFICES ASSUME ~wrapped' PROVE Inv'
    BY <1>0, <2>1
  <2>0. Inv
    BY <1>1 DEF vars
  <2>2. HeapsInv' /\ RegionsInv' /\ SlotsInv'
    BY <1>1, <2>0 DEF vars, Inv, HeapsInv, HeapOk, RegionsInv, SlotsInv, Region, Placed, Describes,
                PagesOf
  <2>3. ListInv' /\ SearchInv'
    BY <1>1, <2>0 DEF vars, Inv, ListInv, ListOk, SearchInv, SearchOk, Sought, Holds, Cached
  <2>4. FramesInv' /\ NoStray'
    BY <1>1, <2>0 DEF vars, Inv, FramesInv, NoStray, FramesInHand, Freeing, FramesOf
  <2>. QED
    BY <2>2, <2>3, <2>4 DEF Inv
<1>2. CASE Next
  <2>1. ~Overlap /\ (raced <=> Overlap)' /\ Inv
    BY <1>2 DEF Next
  <2>. SUFFICES ASSUME ~wrapped' PROVE Inv'
    BY <1>0, <2>1
  <2>2. PICK c \in Callers : Alloc(c) \/ Find(c)
    BY <1>2 DEF Next
  <2>3. CASE Alloc(c)
    BY <1>0, <2>1, <2>3, VirtSteps, VirtAddKeeps, TakeFramesKeeps, NoFramesKeeps, TailSteps,
       NoHeadersKeeps, AppendHeaderKeeps, MapKeeps DEF Alloc
  <2>4. CASE Find(c)
    <3>1. ASSUME NEW b \in blocks, Free(c, b) PROVE Inv'
      BY <2>1, <3>1, FreeKeeps
    <3>2. ASSUME NEW b \in blocks, NEW v \in Run(b.virt, b.size), Translate(c, b, v) PROVE Inv'
      BY <2>1, <3>2, TranslateKeeps
    <3>3. ASSUME FindCached(c) \/ ReturnCached(c) \/ FindWalk(c) PROVE Inv'
      BY <2>1, <3>3, FindSteps
    <3>4. ASSUME FindNothing(c) \/ FreeFound(c) \/ Translated(c) PROVE Inv'
      BY <2>1, <3>4, FindNothingKeeps, FreeFoundKeeps, TranslatedKeeps
    <3>5. Inv'
      BY <2>4, <3>1, <3>2, <3>3, <3>4 DEF Find
    <3>. QED
      BY <3>5
  <2>. QED
    BY <2>2, <2>3, <2>4
<1>. QED
  BY <1>1, <1>2

(* The invariant of avmf_alloc and avmf_free, with any number of calls     *)
(* under way.                                                              *)
THEOREM InvariantHolds == Spec => []IInv
<1>1. QED
  BY InitHolds, StepKeeps, PTL DEF Spec

-----------------------------------------------------------------------------
(* The theorems *)

(* The heaps, the bitmap, the list and the locals of every call keep their *)
(* types.                                                                  *)
THEOREM TypeCorrect == Spec => []TypeOK
<1>1. IInv => TypeOK
  BY DEF IInv
<1>. QED
  BY <1>1, InvariantHolds, PTL

(* avmf_free clears the bits of the block it is given and of no other,     *)
(* and no frame is handed out twice, however calls of avmf_alloc and       *)
(* avmf_free overlap outside the three windows.                            *)
THEOREM FramesExclusiveHolds == Spec => []FramesExclusive
<1>1. IInv => FramesExclusive
  BY DEF IInv, Inv, FramesInv, FramesExclusive, Sound
<1>. QED
  BY <1>1, InvariantHolds, PTL

(* Each page of a virtual heap is given out once, and none past the end    *)
(* of its heap, as long as no size has taken a heap pointer past 2^64.     *)
THEOREM PagesExclusiveHolds == Spec => []PagesExclusive
<1>1. IInv => PagesExclusive
  <2>. SUFFICES ASSUME IInv, Sound PROVE PagesExclusive
    BY DEF PagesExclusive
  <2>0. TypeOK /\ Inv
    BY DEF IInv, Sound
  <2>. DEFINE Late(c) == pc[c] \in Pending \cup {"map"}
  <2>1. ASSUME NEW r, r \in blocks \/ \E c \in Callers : r = arg[c] /\ pc[c] = "map"
        PROVE  /\ r.slot \in 1..Len(header) /\ PagesOf(r) = Region(r.slot)
               /\ Placed(r) /\ r.virt \in Nat /\ r.size \in Nat
    <3>1. Describes(r)
      BY <2>0, <2>1 DEF Inv, SlotsInv
    <3>2. /\ r.slot \in 1..Len(header) /\ header[r.slot].virt = r.virt
          /\ header[r.slot].size = r.size
      BY <3>1 DEF Describes
    <3>3. Placed(header[r.slot]) /\ header[r.slot].virt \in Nat /\ header[r.slot].size \in Nat
      BY <2>0, <3>2, FieldTypes DEF Inv, RegionsInv
    <3>. QED
      BY <3>2, <3>3 DEF PagesOf, Region, Placed
  <2>2. ASSUME NEW c \in Callers, Late(c)
        PROVE  Placed(arg[c]) /\ arg[c].virt \in Nat /\ arg[c].size \in Nat
    BY <2>0, <2>1, <2>2, FieldTypes DEF Inv, RegionsInv
  <2>3. ASSUME NEW b \in blocks, NEW d \in blocks, b # d
        PROVE  PagesOf(b) \cap PagesOf(d) = {}
    BY <2>0, <2>1, <2>3 DEF Inv, SlotsInv, RegionsInv
  <2>4. ASSUME NEW b \in blocks, NEW c \in Callers, Late(c)
        PROVE  PagesOf(b) \cap PagesOf(arg[c]) = {}
    <3>1. CASE pc[c] = "map"
      BY <2>0, <2>1, <3>1 DEF Inv, SlotsInv, RegionsInv
    <3>2. CASE pc[c] \in Pending
      BY <2>0, <2>1, <3>2 DEF Inv, RegionsInv
    <3>. QED
      BY <2>4, <3>1, <3>2
  <2>5. ASSUME NEW c \in Callers, NEW d \in Callers, c # d, Late(c), Late(d)
        PROVE  PagesOf(arg[c]) \cap PagesOf(arg[d]) = {}
    <3>1. CASE pc[c] = "map" /\ pc[d] = "map"
      BY <2>0, <2>1, <2>5, <3>1 DEF Inv, SlotsInv, RegionsInv
    <3>2. CASE \/ pc[c] \in Pending /\ pc[d] = "map"
               \/ pc[c] = "map" /\ pc[d] \in Pending
      BY <2>0, <2>1, <3>2 DEF Inv, RegionsInv
    <3>3. CASE pc[c] \in Pending /\ pc[d] \in Pending
      BY <2>0, <2>5, <3>3 DEF Inv, RegionsInv
    <3>4. (pc[c] \in Pending \/ pc[c] = "map") /\ (pc[d] \in Pending \/ pc[d] = "map")
      BY <2>5
    <3>. QED
      BY <3>1, <3>2, <3>3, <3>4
  <2>8. \A b \in blocks : \E h \in Heaps : PagesOf(b) \subseteq HeapBase[h]..(HeapEnd[h] - 1)
    <3>. SUFFICES ASSUME NEW b \in blocks
                  PROVE  \E h \in Heaps : PagesOf(b) \subseteq HeapBase[h]..(HeapEnd[h] - 1)
      OBVIOUS
    <3>1. PICK h \in Heaps : HeapBase[h] <= b.virt /\ b.virt + b.size <= heap_ptr[h]
      BY <2>1 DEF Placed
    <3>2. /\ heap_ptr[h] <= HeapEnd[h] /\ heap_ptr[h] \in Nat
          /\ HeapBase[h] \in Nat /\ HeapEnd[h] \in Nat /\ b.virt \in Nat /\ b.size \in Nat
      BY <2>0, <2>1, FieldTypes, AvmfAssumption DEF Inv, HeapsInv
    <3>. QED
      BY <3>1, <3>2 DEF PagesOf, Run
  <2>9. \A c \in Callers : PagesInHand(c) = IF Late(c) THEN PagesOf(arg[c]) ELSE {}
    BY DEF PagesInHand, Pending
  <2>10. \A b \in blocks, c \in Callers : PagesOf(b) \cap PagesInHand(c) = {}
    BY <2>4, <2>9
  <2>11. \A c, d \in Callers : c # d => PagesInHand(c) \cap PagesInHand(d) = {}
    BY <2>5, <2>9
  <2>. QED
    BY <2>3, <2>8, <2>10, <2>11 DEF PagesExclusive
<1>. QED
  BY <1>1, InvariantHolds, PTL

(* Each block in use keeps its header on the list, and avmf_find gives     *)
(* its caller that header, not the one of a freed block.                   *)
THEOREM LookupRightHolds == Spec => []LookupRight
<1>1. IInv => LookupRight
  <2>. SUFFICES ASSUME IInv, Inv PROVE LookupRight
    BY DEF IInv, LookupRight, Sound
  <2>1. \A b \in blocks : b.slot \in linked
             /\ header[b.slot] = [virt |-> b.virt, frame |-> b.frame, size |-> b.size]
    BY DEF Inv, SlotsInv, ListInv, Describes
  <2>2. ASSUME NEW c \in Callers, pc[c] = "found"
        PROVE  Sought(arg[c], arg[c].slot)
    BY <2>2, FoundIsSought DEF IInv
  <2>. QED
    BY <2>1, <2>2 DEF LookupRight, Sought, Holds
<1>. QED
  BY <1>1, InvariantHolds, PTL

(* The table of headers is never overrun, and until it is full a set bit   *)
(* belongs to a block or to a call that is under way.                      *)
THEOREM NoLeakBeforeFullHolds == Spec => []NoLeakBeforeFull
<1>1. IInv => NoLeakBeforeFull
  <2>. SUFFICES ASSUME IInv, Inv PROVE NoLeakBeforeFull
    BY DEF IInv, NoLeakBeforeFull, Sound
  <2>1. Len(header) <= MaxSlots
    BY DEF Inv, ListInv
  <2>2. ASSUME Len(header) < MaxSlots
        PROVE  bitmap = UNION ({FramesOf(b) : b \in blocks} \cup {FramesInHand(c) : c \in Callers})
    BY <2>2 DEF Inv, FramesInv, NoStray
  <2>. QED
    BY <2>1, <2>2 DEF NoLeakBeforeFull
<1>. QED
  BY <1>1, InvariantHolds, PTL
-----------------------------------------------------------------------------
(* The page tables *)

\* The first page of a block leads to its first frame as long as the block
\* has an owner, or someone who is freeing it.
FirstPageOwned(s) ==
    /\ pages[header[s].virt] = header[s].frame
    /\ \/ \E b \in blocks : b.slot = s
       \/ \E c \in Callers : Freeing(c) /\ Sought(arg[c], s)

MappedInv ==
    /\ \A b \in blocks : \A p \in PagesOf(b) :
          p \in DOMAIN pages /\ pages[p] = b.frame + (p - b.virt)
    /\ \A p \in DOMAIN pages : \E s \in 1..Len(header) : p \in Region(s)
    /\ \A s \in 1..Len(header) : header[s].virt \in DOMAIN pages => FirstPageOwned(s)

LEMMA QuietStep ==
    ASSUME MappedInv, UNCHANGED <<header, pages, blocks>>,
           \A c \in Callers : Freeing(c) =>
               /\ Freeing(c)'
               /\ arg'[c].virt = arg[c].virt /\ arg'[c].frame = arg[c].frame
               /\ arg'[c].size = arg[c].size /\ arg'[c].op = arg[c].op
    PROVE  MappedInv'
<1>1. ASSUME NEW s, FirstPageOwned(s) PROVE FirstPageOwned(s)'
  <2>1. ASSUME NEW c \in Callers, Freeing(c), Sought(arg[c], s)
        PROVE  Freeing(c)' /\ Sought(arg[c], s)'
    BY <2>1 DEF Sought, Holds
  <2>. QED
    BY <1>1, <2>1 DEF FirstPageOwned
<1>. QED
  BY <1>1 DEF MappedInv, Region, PagesOf

LEMMA OwnFirstPage ==
    ASSUME TypeOK, Inv
    PROVE  /\ \A s \in 1..Len(header) : header[s].virt \in Region(s)
           /\ \A s, t \in 1..Len(header) : s # t => header[s].virt \notin Region(t)
<1>1. ASSUME NEW s \in 1..Len(header) PROVE header[s].virt \in Region(s)
  BY FieldTypes DEF Inv, RegionsInv, Region, Run
<1>2. \A s, t \in 1..Len(header) : s # t => Region(s) \cap Region(t) = {}
  BY DEF Inv, RegionsInv
<1>. QED
  BY <1>1, <1>2

LEMMA OwnHeader ==
    ASSUME TypeOK, Inv, NEW r, Describes(r)
    PROVE  /\ r.slot \in 1..Len(header) /\ PagesOf(r) = Region(r.slot)
           /\ header[r.slot].virt = r.virt /\ header[r.slot].frame = r.frame
           /\ header[r.slot].size = r.size /\ r.size > 0
<1>1. /\ r.slot \in 1..Len(header)
      /\ header[r.slot].virt = r.virt /\ header[r.slot].frame = r.frame
      /\ header[r.slot].size = r.size
  BY DEF Describes
<1>2. header[r.slot].size > 0
  BY <1>1 DEF Inv, RegionsInv
<1>. QED
  BY <1>1, <1>2 DEF PagesOf, Region

LEMMA BlocksHaveHeaders ==
    ASSUME TypeOK, Inv
    PROVE  /\ \A b \in blocks :
                  /\ b.slot \in 1..Len(header) /\ PagesOf(b) = Region(b.slot)
                  /\ header[b.slot].virt = b.virt /\ header[b.slot].frame = b.frame
                  /\ header[b.slot].size = b.size /\ b.size > 0
           /\ \A s, t \in 1..Len(header) : s # t => Region(s) \cap Region(t) = {}
<1>1. \A b \in blocks : Describes(b)
  BY DEF Inv, SlotsInv
<1>2. ASSUME NEW b \in blocks
      PROVE  /\ b.slot \in 1..Len(header) /\ PagesOf(b) = Region(b.slot)
             /\ header[b.slot].virt = b.virt /\ header[b.slot].frame = b.frame
             /\ header[b.slot].size = b.size /\ b.size > 0
  BY <1>1, <1>2, OwnHeader
<1>. QED
  BY <1>2 DEF Inv, RegionsInv

LEMMA MapMaps ==
    ASSUME TypeOK, Inv, MappedInv, NEW c \in Callers, Map(c)
    PROVE  MappedInv'
<1>. DEFINE block == [virt |-> arg[c].virt, frame |-> arg[c].frame, size |-> arg[c].size,
                      slot |-> arg[c].slot]
<1>0. /\ pc[c] = "map" /\ pc'[c] = "idle" /\ Others(c) /\ header' = header
      /\ blocks' = blocks \cup {block}
      /\ DOMAIN pages' = DOMAIN pages \cup PagesOf(arg[c])
      /\ \A p \in PagesOf(arg[c]) : pages'[p] = arg[c].frame + (p - arg[c].virt)
      /\ \A p \in DOMAIN pages \ PagesOf(arg[c]) : pages'[p] = pages[p]
  BY DEF Map, Goto, TypeOK, Others, PagesOf
<1>1. /\ arg[c].slot \in 1..Len(header) /\ header[arg[c].slot].virt = arg[c].virt
      /\ header[arg[c].slot].frame = arg[c].frame /\ header[arg[c].slot].size = arg[c].size
  <2>1. Describes(arg[c])
    BY <1>0 DEF Inv, SlotsInv
  <2>. QED
    BY <2>1, OwnHeader
<1>2. PagesOf(arg[c]) = Region(arg[c].slot)
  BY <1>1 DEF PagesOf, Region
<1>3. \A b \in blocks : PagesOf(b) \cap PagesOf(arg[c]) = {}
  <2>1. \A b \in blocks : b.slot \in 1..Len(header) /\ PagesOf(b) = Region(b.slot)
    BY BlocksHaveHeaders
  <2>. QED
    BY <1>0, <1>1, <1>2, <2>1 DEF Inv, SlotsInv, RegionsInv
<1>4. \A b \in blocks' : \A p \in PagesOf(b) :
          p \in DOMAIN pages' /\ pages'[p] = b.frame + (p - b.virt)
  <2>1. PagesOf(block) = PagesOf(arg[c]) /\ block.frame = arg[c].frame /\ block.virt = arg[c].virt
    BY DEF PagesOf
  <2>. HIDE DEF block
  <2>2. ASSUME NEW b \in blocks, NEW p \in PagesOf(b)
        PROVE  p \in DOMAIN pages' /\ pages'[p] = b.frame + (p - b.virt)
    BY <1>0, <1>3 DEF MappedInv
  <2>3. ASSUME NEW p \in PagesOf(block)
        PROVE  p \in DOMAIN pages' /\ pages'[p] = block.frame + (p - block.virt)
    BY <1>0, <2>1
  <2>. QED
    BY <1>0, <2>2, <2>3
<1>5. \A p \in DOMAIN pages' : \E s \in 1..Len(header') : p \in Region(s)'
  <2>1. \A s : Region(s)' = Region(s)
    BY <1>0 DEF Region
  <2>. QED
    BY <1>0, <1>1, <1>2, <2>1 DEF MappedInv
<1>6. ASSUME NEW s \in 1..Len(header), header[s].virt \in DOMAIN pages'
      PROVE  FirstPageOwned(s)'
  <2>1. CASE s = arg[c].slot
    <3>1. arg[c].virt \in PagesOf(arg[c]) /\ arg[c].frame + (arg[c].virt - arg[c].virt) = arg[c].frame
      BY <1>1, <1>2, OwnFirstPage, FieldTypes
    <3>2. block \in blocks' /\ block.slot = s
      BY <1>0, <2>1
    <3>. QED
      BY <1>0, <1>1, <2>1, <3>1, <3>2 DEF FirstPageOwned
  <2>2. CASE s # arg[c].slot
    <3>1. header[s].virt \in DOMAIN pages /\ header[s].virt \notin PagesOf(arg[c])
      BY <1>0, <1>1, <1>2, <1>6, <2>2, OwnFirstPage
    <3>2. FirstPageOwned(s) /\ pages'[header[s].virt] = pages[header[s].virt]
      BY <1>0, <3>1 DEF MappedInv
    <3>3. ASSUME NEW d \in Callers, Freeing(d), Sought(arg[d], s)
          PROVE  Freeing(d)' /\ Sought(arg[d], s)'
      BY <1>0, <3>3 DEF Freeing, Others, Sought, Holds
    <3>. QED
      BY <1>0, <3>2, <3>3 DEF FirstPageOwned
  <2>. QED
    BY <2>1, <2>2
<1>. QED
  BY <1>0, <1>4, <1>5, <1>6 DEF MappedInv, PagesOf

LEMMA AppendMaps ==
    ASSUME TypeOK, Inv, MappedInv, NEW c \in Callers, AppendHeader(c)
    PROVE  MappedInv'
<1>n. PICK n : n = Len(header)
  OBVIOUS
<1>0. /\ pc[c] = "append" /\ Others(c) /\ pages' = pages /\ blocks' = blocks
  BY DEF AppendHeader, Goto, TypeOK, Others
<1>1. /\ n \in Nat /\ Len(header') = n + 1 /\ header'[n + 1].virt = arg[c].virt
      /\ \A s \in 1..n : header'[s] = header[s] /\ s \in 1..Len(header') /\ s # n + 1
      /\ \A s \in 1..Len(header') : s \in 1..n \/ s = n + 1
  <2>1. header \in Seq([virt : Nat, frame : Nat, size : Nat])
    BY DEF TypeOK
  <2>2. header' = Append(header, [virt |-> arg[c].virt, frame |-> arg[c].frame,
                                  size |-> arg[c].size])
    BY DEF AppendHeader
  <2>3. n \in Nat /\ Len(header') = n + 1
    BY <1>n, <2>1, <2>2
  <2>4. header'[n + 1].virt = arg[c].virt /\ \A s \in 1..n : header'[s] = header[s]
    BY <1>n, <2>1, <2>2
  <2>. QED
    BY <2>3, <2>4
<1>2. \A s \in 1..n : Region(s)' = Region(s)
  BY <1>1 DEF Region
<1>3. arg[c].virt \notin DOMAIN pages
  <2>1. arg[c].virt \in PagesOf(arg[c])
    BY <1>0, FieldTypes DEF Inv, HeapsInv, HeapOk, Pending, PagesOf, Run
  <2>2. \A s \in 1..Len(header) : PagesOf(arg[c]) \cap Region(s) = {}
    BY <1>0 DEF Inv, RegionsInv, Pending
  <2>. QED
    BY <2>1, <2>2 DEF MappedInv
<1>4. ASSUME NEW s \in 1..n, header[s].virt \in DOMAIN pages
      PROVE  FirstPageOwned(s)'
  <2>1. FirstPageOwned(s) /\ header'[s] = header[s]
    BY <1>1, <1>4, <1>n DEF MappedInv
  <2>2. ASSUME NEW d \in Callers, Freeing(d), Sought(arg[d], s)
        PROVE  Freeing(d)' /\ Sought(arg[d], s)'
    <3>1. d # c /\ pc'[d] = pc[d] /\ arg'[d] = arg[d]
      BY <1>0, <2>2 DEF Freeing, Others
    <3>. QED
      BY <1>1, <2>1, <2>2, <3>1 DEF Freeing, Sought, Holds
  <2>. QED
    BY <1>0, <2>1, <2>2 DEF FirstPageOwned
<1>5. \A s \in 1..Len(header') : header'[s].virt \in DOMAIN pages' => FirstPageOwned(s)'
  BY <1>0, <1>1, <1>3, <1>4
<1>6. \A p \in DOMAIN pages' : \E s \in 1..Len(header') : p \in Region(s)'
  BY <1>0, <1>1, <1>2, <1>n DEF MappedInv
<1>. QED
  BY <1>0, <1>5, <1>6 DEF MappedInv, PagesOf

LEMMA FreeMaps ==
    ASSUME TypeOK, Inv, Inv', MappedInv, NEW c \in Callers, NEW b \in blocks, Free(c, b)
    PROVE  MappedInv'
<1>0. /\ pc[c] = "idle" /\ pc'[c] = "find" /\ Others(c) /\ header' = header /\ pages' = pages
      /\ blocks' = blocks \ {b}
      /\ arg'[c].op = "free" /\ arg'[c].virt = b.virt
      /\ arg'[c].frame = b.frame /\ arg'[c].size = b.size
  BY DEF Free, Goto, TypeOK, Others, NoCall
<1>1. Freeing(c)' /\ Sought(arg[c], b.slot)'
  <2>1. /\ b.slot \in 1..Len(header) /\ header[b.slot].virt = b.virt
        /\ header[b.slot].frame = b.frame /\ header[b.slot].size = b.size
    BY BlocksHaveHeaders
  <2>2. b.virt \in Region(b.slot) /\ b.frame = b.frame + (b.virt - b.virt)
    BY <2>1, OwnFirstPage, FieldTypes
  <2>. QED
    BY <1>0, <2>1, <2>2 DEF Freeing, Sought, Holds, Region
<1>2. ASSUME NEW s \in 1..Len(header), FirstPageOwned(s) PROVE FirstPageOwned(s)'
  <2>1. CASE s = b.slot
    BY <1>0, <1>1, <1>2, <2>1 DEF FirstPageOwned
  <2>2. CASE s # b.slot
    <3>1. ASSUME NEW d \in Callers, Freeing(d), Sought(arg[d], s)
          PROVE  Freeing(d)' /\ Sought(arg[d], s)'
      BY <1>0, <3>1 DEF Freeing, Others, Sought, Holds
    <3>. QED
      BY <1>0, <1>2, <2>2, <3>1 DEF FirstPageOwned
  <2>. QED
    BY <2>1, <2>2
<1>. QED
  BY <1>0, <1>2 DEF MappedInv, Region, PagesOf

LEMMA FreeFoundMaps ==
    ASSUME TypeOK, Inv, MappedInv, NEW c \in Callers, FreeFound(c)
    PROVE  MappedInv'
<1>. DEFINE slot == arg[c].slot
<1>0. /\ pc[c] = "found" /\ arg[c].op = "free" /\ Others(c)
      /\ header' = header /\ blocks' = blocks
      /\ DOMAIN pages' = DOMAIN pages \ {arg[c].virt}
      /\ \A p \in DOMAIN pages' : pages'[p] = pages[p]
  BY DEF FreeFound, Goto, TypeOK, Others
<1>1. /\ slot \in 1..Len(header) /\ header[slot].virt = arg[c].virt
      /\ header[slot].frame = arg[c].frame /\ header[slot].size = arg[c].size
      /\ Freeing(c)
  <2>1. Sought(arg[c], slot)
    BY <1>0, FoundIsSought
  <2>. QED
    BY <1>0, <2>1, FieldTypes DEF Sought, Freeing
<1>2. \A b \in blocks : b.slot # slot
  <2>. SUFFICES ASSUME NEW b \in blocks, b.slot = slot PROVE FALSE
    OBVIOUS
  <2>1. b.frame = arg[c].frame /\ b.size = arg[c].size /\ b.size > 0
    BY <1>1, BlocksHaveHeaders
  <2>2. b.frame \in FramesOf(b) /\ FramesOf(b) = FramesInHand(c)
    BY <1>1, <2>1, FieldTypes DEF FramesOf, FramesInHand, Run
  <2>. QED
    BY <2>2 DEF Inv, FramesInv
<1>3. \A b \in blocks : arg[c].virt \notin PagesOf(b)
  <2>1. \A b \in blocks : b.slot \in 1..Len(header) /\ PagesOf(b) = Region(b.slot)
    BY BlocksHaveHeaders
  <2>. QED
    BY <1>1, <1>2, <2>1, OwnFirstPage
<1>4. ASSUME NEW s \in 1..Len(header), header[s].virt \in DOMAIN pages'
      PROVE  FirstPageOwned(s)'
  <2>1. FirstPageOwned(s) /\ s # slot /\ pages'[header[s].virt] = pages[header[s].virt]
    BY <1>0, <1>1, <1>4 DEF MappedInv
  <2>2. ASSUME NEW d \in Callers, Freeing(d), Sought(arg[d], s)
        PROVE  Freeing(d)' /\ Sought(arg[d], s)'
    <3>1. d # c
      <4>1. arg[c].virt \in Region(slot) /\ header[s].virt \in Region(s)
        BY <1>1, OwnFirstPage
      <4>2. Region(s) \cap Region(slot) = {}
        BY <1>1, <2>1 DEF Inv, RegionsInv
      <4>. QED
        BY <2>2, <4>1, <4>2 DEF Sought, Freeing
    <3>. QED
      BY <1>0, <2>2, <3>1 DEF Freeing, Others, Sought, Holds
  <2>. QED
    BY <1>0, <2>1, <2>2 DEF FirstPageOwned
<1>5. \A b \in blocks' : \A p \in PagesOf(b) :
          p \in DOMAIN pages' /\ pages'[p] = b.frame + (p - b.virt)
  BY <1>0, <1>3 DEF MappedInv
<1>6. \A p \in DOMAIN pages' : \E s \in 1..Len(header') : p \in Region(s)'
  BY <1>0 DEF MappedInv, Region
<1>. QED
  BY <1>0, <1>4, <1>5, <1>6 DEF MappedInv, PagesOf

LEMMA MappedKept == IInv /\ MappedInv /\ [Next]_vars => MappedInv'
<1>. SUFFICES ASSUME IInv, MappedInv, [Next]_vars PROVE MappedInv'
  OBVIOUS
<1>1. CASE UNCHANGED vars
  BY <1>1, QuietStep DEF vars, Freeing
<1>2. CASE Next
  <2>0. TypeOK /\ Inv /\ (~wrapped' => Inv')
    BY <1>2, StepKeeps DEF IInv, Next
  <2>1. PICK c \in Callers : Alloc(c) \/ Find(c)
    BY <1>2 DEF Next
  <2>2. ASSUME Others(c), UNCHANGED <<header, pages, blocks>>, ~Freeing(c) PROVE MappedInv'
    BY <2>2, QuietStep DEF Freeing, Others
  <2>3. CASE Alloc(c)
    <3>1. ASSUME NEW h \in Heaps, NEW n \in Sizes, VirtCheck(c, h, n) PROVE MappedInv'
      BY <2>0, <2>2, <3>1 DEF VirtCheck, Goto, Others, TypeOK, Freeing
    <3>2. ASSUME VirtRead(c) \/ VirtAdd(c) \/ TakeFrames(c) \/ NoFrames(c) \/ FindTail(c)
                 \/ HeadersLeft(c) \/ NoHeaders(c)
          PROVE  MappedInv'
      <4>1. pc[c] \in {"virt_read", "virt_add", "phys", "tail", "bound"}
        BY <3>2 DEF VirtRead, VirtAdd, TakeFrames, NoFrames, FindTail, HeadersLeft, NoHeaders, Goto
      <4>2. UNCHANGED <<header, pages, blocks>>
        BY <3>2 DEF VirtRead, VirtAdd, TakeFrames, NoFrames, FindTail, HeadersLeft, NoHeaders
      <4>3. Others(c)
        BY <2>0, <3>2 DEF VirtRead, VirtAdd, TakeFrames, NoFrames, FindTail, HeadersLeft, NoHeaders,
                          Goto, Others, TypeOK
      <4>. QED
        BY <2>2, <4>1, <4>2, <4>3 DEF Freeing
    <3>. QED
      BY <2>0, <2>3, <3>1, <3>2, AppendMaps, MapMaps DEF Alloc
  <2>4. CASE Find(c)
    <3>1. ASSUME NEW b \in blocks, Free(c, b) PROVE MappedInv'
      BY <1>2, <2>0, <3>1, FreeMaps DEF Free, Next
    <3>2. ASSUME NEW b \in blocks, NEW v \in Run(b.virt, b.size), Translate(c, b, v)
          PROVE  MappedInv'
      BY <2>0, <2>2, <3>2 DEF Translate, Goto, Others, TypeOK, Freeing
    <3>3. ASSUME FindCached(c) \/ ReturnCached(c) \/ FindWalk(c) PROVE MappedInv'
      <4>1. Others(c) /\ UNCHANGED <<header, pages, blocks>>
        BY <2>0, <3>3 DEF FindCached, ReturnCached, FindWalk, Goto, Others, TypeOK
      <4>2. /\ pc'[c] \in {"cached", "found"}
            /\ arg'[c].virt = arg[c].virt /\ arg'[c].size = arg[c].size
            /\ arg'[c].frame = arg[c].frame /\ arg'[c].op = arg[c].op
        <5>1. CASE FindCached(c)
          BY <2>0, <5>1 DEF FindCached, Goto, TypeOK
        <5>2. CASE ReturnCached(c)
          BY <2>0, <5>2, FieldTypes DEF ReturnCached, Goto, TypeOK, Calls
        <5>3. CASE FindWalk(c)
          <6>1. PICK s : arg' = [arg EXCEPT ![c].slot = s]
            BY <5>3 DEF FindWalk
          <6>. QED
            BY <2>0, <5>3, <6>1, FieldTypes DEF FindWalk, Goto, TypeOK, Calls
        <5>. QED
          BY <3>3, <5>1, <5>2, <5>3
      <4>. QED
        BY <4>1, <4>2, QuietStep DEF Freeing, Others
    <3>4. ASSUME FindNothing(c) PROVE MappedInv'
      <4>1. PICK s \in 1..Len(header) : Sought(arg[c], s)
        BY <2>0, <3>4 DEF FindNothing, Goto, Inv, SearchInv, SearchOk, Searching
      <4>. QED
        BY <2>0, <3>4, <4>1 DEF FindNothing, Inv, ListInv, Sought
    <3>5. ASSUME Translated(c) PROVE MappedInv'
      BY <2>0, <2>2, <3>5 DEF Translated, Goto, Others, TypeOK, Freeing
    <3>. QED
      BY <2>0, <2>4, <3>1, <3>2, <3>3, <3>4, <3>5, FreeFoundMaps DEF Find
  <2>. QED
    BY <2>1, <2>3, <2>4
<1>. QED
  BY <1>1, <1>2

(* A block's pages are mapped to its own frames; and although avmf_free    *)
(* leaves every page of a block but the first mapped, the first page of    *)
(* no block, live or freed, ever leads into a frame of another.            *)
THEOREM AliasesAreTailsHolds == Spec => []AliasesAreTails
<1>1. Init => MappedInv
  BY DEF Init, MappedInv
<1>2. IInv /\ MappedInv => AliasesAreTails
  <2>. SUFFICES ASSUME TypeOK, Inv, MappedInv, NEW b \in blocks,
                       NEW p \in DOMAIN pages \ PagesOf(b), pages[p] \in FramesOf(b),
                       NEW s \in 1..Len(header), p = header[s].virt
                PROVE  FALSE
    BY DEF AliasesAreTails, MappedInv, IInv, Sound
  <2>1. FirstPageOwned(s) /\ pages[p] = header[s].frame
    BY DEF MappedInv, FirstPageOwned
  <2>2. header[s].size > 0 /\ header[s].size \in Nat /\ header[s].frame \in Nat
    BY FieldTypes DEF Inv, RegionsInv
  <2>3. ASSUME NEW d \in blocks, d.slot = s PROVE FALSE
    <3>1. d.virt = header[s].virt /\ d.frame = header[s].frame /\ d.size = header[s].size
      BY <2>3, BlocksHaveHeaders
    <3>2. p \in PagesOf(d) /\ pages[p] \in FramesOf(d)
      BY <2>1, <2>2, <3>1, FieldTypes DEF PagesOf, FramesOf, Run
    <3>3. b # d
      BY <3>2
    <3>. QED
      BY <3>2, <3>3 DEF Inv, FramesInv
  <2>4. ASSUME NEW c \in Callers, Freeing(c), Sought(arg[c], s) PROVE FALSE
    <3>1. arg[c].frame = header[s].frame /\ arg[c].size = header[s].size
      BY <2>4, FieldTypes DEF Sought, Freeing
    <3>2. pages[p] \in FramesInHand(c)
      BY <2>1, <2>2, <2>4, <3>1 DEF FramesInHand, FramesOf, Run
    <3>. QED
      BY <3>2 DEF Inv, FramesInv
  <2>. QED
    BY <2>1, <2>3, <2>4 DEF FirstPageOwned
<1>. QED
  BY <1>1, <1>2, MappedKept, InvariantHolds, PTL DEF Spec
=============================================================================
