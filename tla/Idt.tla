---------------------------------- MODULE Idt ----------------------------------
(***************************************************************************)
(* The interrupt descriptor table is built twice, first in the image and   *)
(* then in allocated memory, through the same two globals, idt and         *)
(* idt_ptr; the other cores load what these point to when they start.      *)
(* lidt takes the address out of *idt_ptr when it is executed, the         *)
(* processor reads an entry when an interrupt comes.                       *)
(***************************************************************************)
EXTENDS Integers

CONSTANTS Bsp, APs

Cores == {Bsp} \cup APs
Vectors == {"exceptions", "timer", "ipi"}    \* 0..31, 0x30, 0x40
Tables == {"local", "global"}                \* idt_local, the allocated one

VARIABLES
    idt, idt_ptr,     \* "local", "global", or "null"
    base,             \* of idt_ptr_local and the allocated pointer: its table
    entries,          \* of each table: the vectors that are set
    idtr, iflag,      \* of each core: the table it has loaded, RFLAGS.IF
    pc,               \* of each core
    taken             \* of each core: what its last interrupt met

vars == <<idt, idt_ptr, base, entries, idtr, iflag, pc, taken>>

Init ==
    /\ idt = "null" /\ idt_ptr = "null"
    /\ base = [t \in Tables |-> "null"]
    /\ entries = [t \in Tables |-> {}]
    /\ idtr = [c \in Cores |-> "none"]
    /\ iflag = [c \in Cores |-> FALSE]
    /\ pc = [c \in Cores |-> IF c = Bsp THEN "idt_init" ELSE "off"]
    /\ taken = [c \in Cores |-> "none"]

Goto(c, from, to) == pc[c] = from /\ pc' = [pc EXCEPT ![c] = to]

-----------------------------------------------------------------------------
(* idt_exinit(1), idt_exinit(0), both on the bootstrap processor *)

InitLocal ==
    /\ Goto(Bsp, "idt_init", "base")
    /\ idt' = "local" /\ idt_ptr' = "local"
    /\ UNCHANGED <<base, entries, idtr, iflag, taken>>

\* avmf_alloc of the table, whose memory comes as it is, then of the pointer.
InitGlobal ==
    /\ Goto(Bsp, "booted", "alloc_ptr")
    /\ idt' = "global"
    /\ UNCHANGED <<idt_ptr, base, entries, idtr, iflag, taken>>

NoIdt ==
    /\ Goto(Bsp, "booted", "smp_init")
    /\ idt' = "null"
    /\ UNCHANGED <<idt_ptr, base, entries, idtr, iflag, taken>>

AllocPtr ==
    /\ Goto(Bsp, "alloc_ptr", "base")
    /\ idt_ptr' = "global"
    /\ UNCHANGED <<idt, base, entries, idtr, iflag, taken>>

NoPtr ==
    /\ Goto(Bsp, "alloc_ptr", "smp_init")
    /\ idt_ptr' = "null"
    /\ UNCHANGED <<idt, base, entries, idtr, iflag, taken>>

\* Mutant of SetBase: the table is loaded before its entries are set.
LoadEarly ==
    /\ Goto(Bsp, "base", "entries")
    /\ base' = [base EXCEPT ![idt_ptr] = idt]
    /\ idtr' = [idtr EXCEPT ![Bsp] = idt]
    /\ UNCHANGED <<idt, idt_ptr, entries, iflag, taken>>

SetBase ==
    /\ Goto(Bsp, "base", "entries")
    /\ base' = [base EXCEPT ![idt_ptr] = idt]
    /\ UNCHANGED <<idt, idt_ptr, entries, idtr, iflag, taken>>

set_idt_entry(v) ==
    /\ pc[Bsp] = "entries" /\ v \notin entries[idt]
    /\ entries' = [entries EXCEPT ![idt] = @ \cup {v}]
    /\ UNCHANGED <<idt, idt_ptr, base, idtr, iflag, pc, taken>>

\* lidt, sti
Load ==
    /\ Goto(Bsp, "entries", IF idt = "local" THEN "booted" ELSE "smp_init")
    /\ entries[idt] = Vectors
    /\ idtr' = [idtr EXCEPT ![Bsp] = base[idt_ptr]]
    /\ iflag' = [iflag EXCEPT ![Bsp] = TRUE]
    /\ UNCHANGED <<idt, idt_ptr, base, entries, taken>>

-----------------------------------------------------------------------------
(* The other cores: ap_kernel_entry, which loads the table *)

StartAp(c) ==
    /\ pc[Bsp] = "smp_init"
    /\ Goto(c, "off", "entry")
    /\ UNCHANGED <<idt, idt_ptr, base, entries, idtr, iflag, taken>>

idt_load_local(c) ==
    /\ Goto(c, "entry", "loop")
    /\ idtr' = [idtr EXCEPT ![c] = IF idt = "null" \/ idt_ptr = "null" THEN @
                                   ELSE base[idt_ptr]]
    /\ UNCHANGED <<idt, idt_ptr, base, entries, iflag, taken>>

\* The loop's sti and cli.
Sti(c) ==
    /\ pc[c] = "loop"
    /\ iflag' = [iflag EXCEPT ![c] = ~@]
    /\ UNCHANGED <<idt, idt_ptr, base, entries, idtr, pc, taken>>

\* The timer runs on every core that has come so far, an IPI reaches any of
\* them.  The last outcome stays.
Interrupt(c, v) ==
    /\ iflag[c] /\ pc[c] \in {"loop", "smp_init"} /\ v # "exceptions"
    /\ taken[c] \in {"none", "handled"}
    /\ taken' = [taken EXCEPT ![c] = IF idtr[c] = "none" THEN "no table"
                                     ELSE IF v \in entries[idtr[c]] THEN "handled"
                                     ELSE "no entry"]
    /\ UNCHANGED <<idt, idt_ptr, base, entries, idtr, iflag, pc>>

Next ==
    \/ InitLocal \/ InitGlobal \/ NoIdt \/ AllocPtr \/ NoPtr \/ SetBase \/ Load
    \/ \E v \in Vectors : set_idt_entry(v)
    \/ \E c \in APs : StartAp(c) \/ idt_load_local(c) \/ Sti(c)
    \/ \E c \in Cores, v \in Vectors : Interrupt(c, v)

Spec == Init /\ [][Next]_vars

-----------------------------------------------------------------------------
(* Properties *)

\* A table that a core has loaded is complete: the second table is built while
\* the first one serves (idt.c:70-112), and no core loads a table that was
\* given up half way (idt.c:136), whichever allocation failed.  A core takes an
\* interrupt without a table only when one did fail: ap_kernel_entry loads it
\* before the loop's first sti.
LoadedIsComplete ==
    \A c \in Cores :
        /\ idtr[c] # "none" => entries[idtr[c]] = Vectors
        /\ taken[c] = "no table" => idt = "null" \/ idt_ptr = "null"

===============================================================================
