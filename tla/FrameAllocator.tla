--------------------------- MODULE FrameAllocator ---------------------------
(***************************************************************************)
(* What avmf.c promises about physical memory, with no bitmap and no       *)
(* search: the frames handed out belong to one holder each until the       *)
(* holder gives them back.  Which free run a request gets, and when the    *)
(* allocator gives up, is left open.                                       *)
(***************************************************************************)
EXTENDS Naturals

CONSTANT Frames   \* the frames of the usable regions, a set of numbers

VARIABLE held     \* the blocks in use, each a set of consecutive frames

Init == held = {}

Take(block) ==
    /\ block \subseteq Frames
    /\ \A other \in held : other \cap block = {}
    /\ held' = held \cup {block}

Give(block) ==
    /\ block \in held
    /\ held' = held \ {block}

Next ==
    \/ \E first, last \in Frames : first <= last /\ Take(first..last)
    \/ \E block \in held : Give(block)

Spec == Init /\ [][Next]_held
=============================================================================
