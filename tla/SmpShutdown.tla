----------------------------- MODULE SmpShutdown -----------------------------
(***************************************************************************)
(* acpi_reboot with the smp_shutdown it begins with, and acpi_shutdown, on *)
(* a machine whose other cores run their loop and call the allocator.  An  *)
(* INIT is on its way for a while and then resets its target wherever that *)
(* stands, in the middle of avmf_lock too.                                 *)
(*                                                                         *)
(* A core is its place in cores[].  fdelay is never calibrated and returns *)
(* at once.  0x00004000 is no INIT but a fixed interrupt with the illegal  *)
(* vector 0, which the LAPIC drops: the "deassert" changes nothing.  A     *)
(* reset needs only one of the ways that end acpi_reboot to work, and the  *)
(* triple fault does.                                                      *)
(***************************************************************************)
EXTENDS Integers

CONSTANTS
    N,             \* cores 1..N
    Bsp,           \* the bootstrap processor
    Rebooters,     \* the cores whose threads may call acpi_reboot,
    Offs           \* and acpi_shutdown

Cores == 1..N

VARIABLES
    registered,    \* {c : cores[c] # NULL}
    way,           \* "ports": no FADT, or no room in the kernel heap; else
                   \* "register", or "unmapped" where that is in memory that
                   \* the direct map leaves out
    mode,          \* "run", or "reset" by an INIT (an AP: until a SIPI)
    pc, i,         \* of each core
    shutdown_core,
    init,          \* the targets of INITs that are on their way
    avmf_lock,     \* the core that holds it, 0 for none
    cmos_index,    \* port 0x70 selects the kernel's byte
    kernel_info,   \* the byte at CMOS_BYTE_IDX_KERNEL_INFO: "active" or "zero"
    machine        \* "on", or "reset"

vars == <<registered, way, mode, pc, i, shutdown_core, init, avmf_lock,
          cmos_index, kernel_info, machine>>
cmos == <<cmos_index, kernel_info>>
board == <<registered, way, mode, machine>>

\* cores[] has holes where an allocation failed, the last of them the
\* bootstrap processor's own; an AP may have been registered and not started.
Init ==
    /\ registered \in SUBSET Cores
    /\ way \in {"ports", "register", "unmapped"}
    /\ mode \in [Cores -> {"run", "reset"}]
    /\ mode[Bsp] = "run"
    /\ \A c \in Cores \ {Bsp} : mode[c] = "run" => c \in registered
    /\ pc = [c \in Cores |-> "idle"] /\ i = [c \in Cores |-> 1]
    /\ shutdown_core = [c \in Cores |-> FALSE]
    /\ init = {} /\ avmf_lock = 0
    /\ cmos_index = FALSE /\ kernel_info = "active"
    /\ machine = "on"

Goto(c, from, to) ==
    /\ machine = "on" /\ mode[c] = "run"
    /\ pc[c] = from /\ pc' = [pc EXCEPT ![c] = to]

Take(c) == avmf_lock = 0 /\ avmf_lock' = c
Release == avmf_lock' = 0

-----------------------------------------------------------------------------
(* What the cores do otherwise *)

\* A thread allocates, or releases.
Work(c) ==
    /\ Goto(c, "idle", "work") /\ Take(c)
    /\ UNCHANGED <<board, i, shutdown_core, init, cmos>>

WorkDone(c) ==
    /\ Goto(c, "work", "idle") /\ Release
    /\ UNCHANGED <<board, i, shutdown_core, init, cmos>>

\* The loop of an AP sees shutdown_core, with interrupts off.
SeeShutdown(c) ==
    /\ c # Bsp /\ shutdown_core[c]
    /\ Goto(c, "idle", "free")
    /\ UNCHANGED <<board, i, shutdown_core, init, avmf_lock, cmos>>

FreeStack(c) ==
    /\ Goto(c, "free", "freeing") /\ Take(c)
    /\ UNCHANGED <<board, i, shutdown_core, init, cmos>>

HaltCore(c) ==
    /\ Goto(c, "freeing", "halt") /\ Release
    /\ UNCHANGED <<board, i, shutdown_core, init, cmos>>

\* An INIT arrives.
Reset(c) ==
    /\ machine = "on" /\ c \in init
    /\ init' = init \ {c}
    /\ mode' = [mode EXCEPT ![c] = "reset"]
    /\ UNCHANGED <<registered, way, machine, pc, i, shutdown_core, avmf_lock, cmos>>

-----------------------------------------------------------------------------
(* smp_shutdown *)

CallReboot(c) ==
    /\ c \in Rebooters
    /\ Goto(c, "idle", "each") /\ i' = [i EXCEPT ![c] = 1]
    /\ UNCHANGED <<board, shutdown_core, init, avmf_lock, cmos>>

\* Mutant of Skip: the first hole ends the loop.
SkipRest(c) ==
    /\ Goto(c, "each", "each")
    /\ i[c] \in Cores \ registered /\ i' = [i EXCEPT ![c] = N + 1]
    /\ UNCHANGED <<board, shutdown_core, init, avmf_lock, cmos>>

Skip(c) ==
    /\ Goto(c, "each", "each")
    /\ i[c] \in Cores \ registered /\ i' = [i EXCEPT ![c] = @ + 1]
    /\ UNCHANGED <<board, shutdown_core, init, avmf_lock, cmos>>

SetShutdown(c) ==
    /\ Goto(c, "each", "ipi")
    /\ i[c] \in registered
    /\ shutdown_core' = [shutdown_core EXCEPT ![i[c]] = TRUE]
    /\ UNCHANGED <<board, i, init, avmf_lock, cmos>>

SendInit(c) ==
    /\ Goto(c, "ipi", "each")
    /\ init' = init \cup {i[c]} /\ i' = [i EXCEPT ![c] = @ + 1]
    /\ UNCHANGED <<board, shutdown_core, avmf_lock, cmos>>

-----------------------------------------------------------------------------
(* The rest of acpi_reboot, and acpi_shutdown *)

Select(c) ==
    /\ \/ Goto(c, "each", "write") /\ i[c] > N
       \/ Goto(c, "idle", "write") /\ c \in Offs
    /\ cmos_index' = TRUE
    /\ UNCHANGED <<board, i, shutdown_core, init, avmf_lock, kernel_info>>

\* Another core may have selected byte 0, the seconds, in between.
WriteByte(c) ==
    /\ Goto(c, "write", "select")
    /\ kernel_info' = IF cmos_index THEN "zero" ELSE kernel_info
    /\ UNCHANGED <<board, i, shutdown_core, init, avmf_lock, cmos_index>>

\* Mutant of VerifySelect: the loop does not select the byte again.
VerifyOnly(c) ==
    /\ Goto(c, "select", "verify")
    /\ UNCHANGED <<board, i, shutdown_core, init, avmf_lock, cmos>>

VerifySelect(c) ==
    /\ Goto(c, "select", "verify")
    /\ cmos_index' = TRUE
    /\ UNCHANGED <<board, i, shutdown_core, init, avmf_lock, kernel_info>>

\* The seconds may read as zero or not.
VerifyAgain(c) ==
    /\ Goto(c, "verify", "select")
    /\ ~cmos_index \/ kernel_info # "zero"
    /\ UNCHANGED <<board, i, shutdown_core, init, avmf_lock, cmos>>

\* outb(0x70, 0) follows.
Verified(c) ==
    /\ Goto(c, "verify", IF c \in Offs THEN "halt"
                         ELSE IF way = "ports" THEN "ways" ELSE "virt")
    /\ ~cmos_index \/ kernel_info = "zero"
    /\ cmos_index' = FALSE
    /\ UNCHANGED <<board, i, shutdown_core, init, avmf_lock, kernel_info>>

\* avmf_alloc_virt(1), the FADT at hand; a full heap returns before the lock.
AllocVirt(c) ==
    /\ \/ Goto(c, "virt", "virt_add") /\ Take(c)
       \/ Goto(c, "virt_add", "register") /\ Release
    /\ UNCHANGED <<board, i, shutdown_core, init, cmos>>

\* The reset register of the FADT.  The handler of a page fault halts.
WriteRegister(c) ==
    /\ Goto(c, "register", IF way = "unmapped" THEN "halt" ELSE "ways")
    /\ UNCHANGED <<board, i, shutdown_core, init, avmf_lock, cmos>>

\* The keyboard controller, port 0xCF9, a triple fault.
ResetMachine(c) ==
    /\ Goto(c, "ways", "halt")
    /\ machine' = "reset"
    /\ UNCHANGED <<registered, way, mode, i, shutdown_core, init, avmf_lock, cmos>>

-----------------------------------------------------------------------------
Shutdown(c) == Skip(c) \/ SetShutdown(c) \/ SendInit(c)

Reboot(c) ==
    \/ Shutdown(c) \/ Select(c) \/ WriteByte(c)
    \/ VerifySelect(c) \/ VerifyAgain(c) \/ Verified(c)
    \/ AllocVirt(c) \/ WriteRegister(c) \/ ResetMachine(c)

Loop(c) == WorkDone(c) \/ SeeShutdown(c) \/ FreeStack(c) \/ HaltCore(c)

Next == \E c \in Cores : Work(c) \/ Loop(c) \/ Reset(c) \/ CallReboot(c) \/ Reboot(c)

\* A core executes its next instruction and an INIT arrives.  No fairness of the
\* lock: once every INIT has arrived nobody competes for it.
Fairness ==
    \A c \in Cores :
        /\ WF_vars(Loop(c)) /\ WF_vars(Reset(c))
        /\ WF_vars(Reboot(c) /\ pc[c] # "idle")

Spec == Init /\ [][Next]_vars /\ Fairness

-----------------------------------------------------------------------------
(* Properties *)

\* When the machine is reset (acpi.c:305-328), every core in the table has had
\* its INIT or will have it, whatever the holes of the table (smp.c:450) and
\* however many cores were in acpi_reboot: none writes to a disk after that.
OthersStopped ==
    machine = "reset" => \A c \in registered : mode[c] = "reset" \/ c \in init

Abandoned == avmf_lock # 0 /\ mode[avmf_lock] = "reset"

\* A core outside the table resets the machine in the end, whoever else plays
\* with the CMOS index (acpi.c:292-301), unless an INIT has stopped the holder
\* of avmf_lock, which acpi_reboot takes after it (acpi.c:311), or the reset
\* register is in memory that is not mapped (acpi.c:321).
SurvivorReboots ==
    \A c \in Rebooters :
        (pc[c] = "each" /\ c \notin registered) ~>
            (machine = "reset" \/ Abandoned \/ (pc[c] = "halt" /\ way = "unmapped"))

===============================================================================
