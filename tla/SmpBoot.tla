------------------------------- MODULE SmpBoot -------------------------------
(***************************************************************************)
(* The start of the application processors: smp_init on the bootstrap      *)
(* processor, and on each AP the trampoline and ap_kernel_entry up to its  *)
(* scheduler loop (module SmpSched).                                       *)
(*                                                                         *)
(* The two sides share three words of low memory (the mailbox: the stack   *)
(* at 0x510, the core_state at 0x520; the page tables at 0x500 and the     *)
(* entry at 0x518 never change) and ap_boot_flag.  The BSP starts one AP   *)
(* at a time, waits for the flag, and gives up after a count: how long an  *)
(* AP takes is not known, so giving up is possible at any time.            *)
(*                                                                         *)
(* Each AP gets an INIT and a STARTUP.  Between the two smp_init waits,    *)
(* without a count, for its LAPIC to report the INIT as delivered          *)
(* (smp.c:87): a LAPIC that never does keeps it there.                     *)
(*                                                                         *)
(* The core_state that the BSP allocates for the AP of table entry c, its  *)
(* idle thread and its stack are all named c.  An AP that the SIPI does    *)
(* not start (a dead core, a lost IPI) stays off for ever: the second IPI  *)
(* the code sends is no SIPI (smp.c:96) and starts nothing.                *)
(***************************************************************************)
EXTENDS Naturals, Sequences

CONSTANTS
    Order,     \* the MADT's enabled processors, in the order of apic_ids
    Bsp,       \* the one that runs smp_init
    NULL       \* the null pointer

Entries == DOMAIN Order
Ids == {Order[k] : k \in Entries}
APs == Ids \ {Bsp}

\* The MADT lists each enabled processor once, and the BSP among them.
ASSUME OrderAssumption ==
    /\ Order \in Seq(Ids)
    /\ \A j, k \in Entries : Order[j] = Order[k] => j = k
    /\ Bsp \in Ids
    /\ NULL \notin Ids

VARIABLES
    pc,            \* where smp_init stands
    i,             \* its loop index, an entry of Order
    ap_boot_flag,  \* set by an AP that reaches its loop
    mb_stack,      \* the word at 0x510
    mb_state,      \* the word at 0x520
    cores,         \* the entries with a core_state in the table cores
    bsp_core_idx,  \* the BSP's entry, the first until the loop has met it
    ap,            \* AP -> where it stands
    rsp,           \* AP -> the stack the trampoline loaded
    rsp0,          \* AP -> kernel_stack, which goes to its tss
    self,          \* AP -> the core_state it took for its own
    icr,           \* an IPI waits in the BSP's LAPIC: ICR bit 12, delivery status
    report         \* history variable: AP -> what the log says of it

bspVars == <<pc, i, cores, bsp_core_idx, icr, report>>
mailbox == <<mb_stack, mb_state>>
apVars  == <<ap, rsp, rsp0, self>>
vars == <<bspVars, ap_boot_flag, mailbox, apVars>>

BspPc == {"core", "alloc", "mail_stack", "mail_state", "init", "sipi", "wait",
          "poll", "check", "own", "done"}
ApPc == {"off", "tramp", "entry", "core", "alloc", "flag", "loop"}

TypeOK ==
    /\ pc \in BspPc
    /\ IF pc \in {"own", "done"} THEN i = Len(Order) + 1 ELSE i \in Entries
    /\ ap_boot_flag \in BOOLEAN
    /\ mb_stack \in APs \cup {NULL}
    /\ mb_state \in APs \cup {NULL}
    /\ cores \in SUBSET Ids
    /\ bsp_core_idx \in Entries
    /\ icr \in BOOLEAN
    /\ ap \in [APs -> ApPc]
    /\ rsp \in [APs -> APs \cup {NULL}]
    /\ rsp0 \in [APs -> APs \cup {NULL}]
    /\ self \in [APs -> APs \cup {NULL}]
    /\ report \in [APs -> {"none", "skipped", "online", "failed"}]

Init ==
    /\ pc = "core"
    /\ i = 1
    /\ ap_boot_flag = FALSE
    /\ mb_stack = NULL
    /\ mb_state = NULL
    /\ cores = {}
    /\ bsp_core_idx = 1
    /\ icr = FALSE
    /\ ap = [c \in APs |-> "off"]
    /\ rsp = [c \in APs |-> NULL]
    /\ rsp0 = [c \in APs |-> NULL]
    /\ self = [c \in APs |-> NULL]
    /\ report = [c \in APs |-> "none"]

-----------------------------------------------------------------------------
(* smp_init *)

BspTo(p) == pc' = p

\* The loop is over, or turns to the next processor of the table.
NextCore ==
    /\ i' = i + 1
    /\ BspTo(IF i = Len(Order) THEN "own" ELSE "core")

MeetBsp ==
    /\ pc = "core"
    /\ Order[i] = Bsp
    /\ bsp_core_idx' = i
    /\ NextCore
    /\ UNCHANGED <<cores, icr, report, ap_boot_flag, mailbox, apVars>>

\* Mutant of BeginCore: the flag of the core before is not taken back.
BeginCoreStaleFlag ==
    /\ pc = "core"
    /\ Order[i] # Bsp
    /\ BspTo("alloc")
    /\ UNCHANGED <<i, cores, bsp_core_idx, icr, report, ap_boot_flag, mailbox, apVars>>

BeginCore ==
    /\ pc = "core"
    /\ Order[i] # Bsp
    /\ ap_boot_flag' = FALSE
    /\ BspTo("alloc")
    /\ UNCHANGED <<i, cores, bsp_core_idx, icr, report, mailbox, apVars>>

\* Mutant of Allocate: the core is registered before its blocks are there.
AllocateRegistered ==
    /\ pc = "alloc"
    /\ \/ BspTo("mail_stack") /\ UNCHANGED <<i, report>>
       \/ NextCore /\ report' = [report EXCEPT ![Order[i]] = "skipped"]
    /\ cores' = cores \cup {Order[i]}
    /\ UNCHANGED <<bsp_core_idx, icr, ap_boot_flag, mailbox, apVars>>

\* The stack, the core_state and the idle thread; if one of them cannot be
\* had the core is left out.
Allocate ==
    /\ pc = "alloc"
    /\ \/ BspTo("mail_stack") /\ UNCHANGED <<i, report>>
       \/ NextCore /\ report' = [report EXCEPT ![Order[i]] = "skipped"]
    /\ UNCHANGED <<cores, bsp_core_idx, icr, ap_boot_flag, mailbox, apVars>>

MailStack ==
    /\ pc = "mail_stack"
    /\ mb_stack' = Order[i]
    /\ BspTo("mail_state")
    /\ UNCHANGED <<i, cores, bsp_core_idx, icr, report, ap_boot_flag, mb_state, apVars>>

\* Mutant of MailState: the core_state is written once, for the first AP.
MailStateOnce ==
    /\ pc = "mail_state"
    /\ mb_state' = IF mb_state = NULL THEN Order[i] ELSE mb_state
    /\ cores' = cores \cup {Order[i]}
    /\ BspTo("init")
    /\ UNCHANGED <<i, bsp_core_idx, icr, report, ap_boot_flag, mb_stack, apVars>>

MailState ==
    /\ pc = "mail_state"
    /\ mb_state' = Order[i]
    /\ cores' = cores \cup {Order[i]}
    /\ BspTo("init")
    /\ UNCHANGED <<i, bsp_core_idx, icr, report, ap_boot_flag, mb_stack, apVars>>

\* lapic_write of the INIT: it waits in the ICR until the LAPIC has sent it.
SendInit ==
    /\ pc = "init"
    /\ icr' = TRUE
    /\ BspTo("sipi")
    /\ UNCHANGED <<i, cores, bsp_core_idx, report, ap_boot_flag, mailbox, apVars>>

\* The loop on the delivery status ends, and the STARTUP goes out: the AP
\* starts in the trampoline, or never.
SendSipi ==
    /\ pc = "sipi"
    /\ ~icr
    /\ icr' = TRUE
    /\ \/ ap' = [ap EXCEPT ![Order[i]] = "tramp"]
       \/ UNCHANGED ap
    /\ BspTo("wait")
    /\ UNCHANGED <<i, cores, bsp_core_idx, report, ap_boot_flag, mailbox,
                   rsp, rsp0, self>>

\* fdelay(200) returns at once; the flag is looked at.  If it is not set a
\* second IPI is written, which starts nothing, and the flag is polled.
Wait ==
    /\ pc = "wait"
    /\ BspTo(IF ap_boot_flag THEN "check" ELSE "poll")
    /\ icr' = (icr \/ ~ap_boot_flag)
    /\ UNCHANGED <<i, cores, bsp_core_idx, report, ap_boot_flag, mailbox, apVars>>

PollSeesFlag ==
    /\ pc = "poll"
    /\ ap_boot_flag
    /\ BspTo("check")
    /\ UNCHANGED <<i, cores, bsp_core_idx, icr, report, ap_boot_flag, mailbox, apVars>>

\* Mutant of PollTimesOut: the count is not taken down.
PollTimesOutNever ==
    /\ pc = "poll"
    /\ UNCHANGED vars

\* The count reaches zero.
PollTimesOut ==
    /\ pc = "poll"
    /\ BspTo("check")
    /\ UNCHANGED <<i, cores, bsp_core_idx, icr, report, ap_boot_flag, mailbox, apVars>>

\* The flag is looked at once more: an AP may check in between the last poll
\* and this.
Check ==
    /\ pc = "check"
    /\ report' = [report EXCEPT ![Order[i]] =
                    IF ap_boot_flag THEN "online" ELSE "failed"]
    /\ NextCore
    /\ UNCHANGED <<cores, bsp_core_idx, icr, ap_boot_flag, mailbox, apVars>>

\* The BSP's own core_state; without it smp_init returns and the BSP is not
\* registered.
OwnState ==
    /\ pc = "own"
    /\ \/ cores' = cores \cup {Order[bsp_core_idx]}
       \/ UNCHANGED cores
    /\ BspTo("done")
    /\ UNCHANGED <<i, bsp_core_idx, icr, report, ap_boot_flag, mailbox, apVars>>

BspStep ==
    \/ MeetBsp \/ BeginCore \/ Allocate \/ MailStack \/ MailState
    \/ SendInit \/ SendSipi \/ Wait \/ PollSeesFlag \/ PollTimesOut \/ Check \/ OwnState

\* The BSP's LAPIC has sent what waits in the ICR.
Delivered ==
    /\ icr
    /\ icr' = FALSE
    /\ UNCHANGED <<pc, i, cores, bsp_core_idx, report, ap_boot_flag, mailbox, apVars>>

-----------------------------------------------------------------------------
(* The AP c, from the trampoline to its loop.  What becomes of two APs     *)
(* that run on one stack, after one of them was late, is not modelled.     *)

ApStep(c, from, to) == ap[c] = from /\ ap' = [ap EXCEPT ![c] = to]

\* mov rsp, [0x510]; jump to ap_kernel_entry.
Trampoline(c) ==
    /\ ApStep(c, "tramp", "entry")
    /\ rsp' = [rsp EXCEPT ![c] = mb_stack]
    /\ UNCHANGED <<bspVars, ap_boot_flag, mailbox, rsp0, self>>

ReadStack(c) ==
    /\ ApStep(c, "entry", "core")
    /\ rsp0' = [rsp0 EXCEPT ![c] = mb_stack]
    /\ UNCHANGED <<bspVars, ap_boot_flag, mailbox, rsp, self>>

\* Mutant of ReadState: the AP checks in as soon as it has read the mailbox.
ReadStateChecksIn(c) ==
    /\ ApStep(c, "core", "alloc")
    /\ self' = [self EXCEPT ![c] = mb_state]
    /\ ap_boot_flag' = TRUE
    /\ UNCHANGED <<bspVars, mailbox, rsp, rsp0>>

ReadState(c) ==
    /\ ApStep(c, "core", "alloc")
    /\ self' = [self EXCEPT ![c] = mb_state]
    /\ UNCHANGED <<bspVars, ap_boot_flag, mailbox, rsp, rsp0>>

\* The emergency stacks are allocated (or not), the GDT, the TSS and the GS
\* base are loaded, and the core's status becomes RUNNING.
SetUp(c) ==
    /\ ApStep(c, "alloc", "flag")
    /\ UNCHANGED <<bspVars, ap_boot_flag, mailbox, rsp, rsp0, self>>

CheckIn(c) ==
    /\ ApStep(c, "flag", "loop")
    /\ ap_boot_flag' = TRUE
    /\ UNCHANGED <<bspVars, mailbox, rsp, rsp0, self>>

ApRuns(c) == Trampoline(c) \/ ReadStack(c) \/ ReadState(c) \/ SetUp(c) \/ CheckIn(c)

\* smp_init has returned and every AP that started is in its loop.
Started ==
    /\ pc = "done"
    /\ \A c \in APs : ap[c] \in {"off", "loop"}
    /\ UNCHANGED vars

Next == BspStep \/ Delivered \/ (\E c \in APs : ApRuns(c)) \/ Started

Spec == Init /\ [][Next]_vars
FairSpec == Spec /\ WF_vars(BspStep)

-----------------------------------------------------------------------------
(* Properties *)

\* An AP runs although the BSP gave up on it.
Late == \E c \in APs : report[c] = "failed" /\ ap[c] # "off"

(* As long as no AP is late, each AP runs on the stack, keeps the rsp0 and *)
(* writes the core_state that the BSP allocated for it: the mailbox is     *)
(* never read after it was written for another AP.                         *)
OwnBlocks ==
    ~Late =>
        \A c \in APs :
            /\ ap[c] \notin {"off", "tramp"} => rsp[c] = c
            /\ ap[c] \notin {"off", "tramp", "entry"} => rsp0[c] = c
            /\ ap[c] \notin {"off", "tramp", "entry", "core"} => self[c] = c

(* As long as no AP is late, the start-up keeps avmf_alloc, whose checks   *)
(* and list walks are not under its locks, to one processor at a time.     *)
AllocAlone ==
    ~Late =>
        /\ pc \in {"alloc", "own"} => \A c \in APs : ap[c] # "alloc"
        /\ \A c, d \in APs : ap[c] = "alloc" /\ ap[d] = "alloc" => c = d

(* As long as no AP is late, the core that the log says checked in is in   *)
(* its loop, and a core in its loop is in the table and is not reported    *)
(* as skipped or failed: the last look at the flag belongs to the core it  *)
(* is about.                                                               *)
ReportTrue ==
    ~Late =>
        \A c \in APs :
            /\ report[c] = "online" => ap[c] = "loop"
            /\ ap[c] = "loop" => c \in cores /\ report[c] \in {"none", "online"}

(* When smp_init has registered the BSP, it is under the index that        *)
(* smp_push_task_bsp uses, and the table holds nothing but the cores whose *)
(* blocks were allocated.                                                  *)
TableTrue ==
    pc = "done" =>
        /\ \A c \in APs : c \in cores <=> report[c] \in {"online", "failed"}
        /\ Order[bsp_core_idx] = Bsp

(* Dead processors, lost IPIs and failed allocations do not keep smp_init  *)
(* from returning.  Two things may: a LAPIC that never takes an INIT off   *)
(* the ICR (smp.c:87), and an AP that runs after the BSP gave up on it,    *)
(* which shares a stack with the next one and may stop anywhere, the locks *)
(* of the allocator or of the serial line in its hands.                    *)
BootEnds == <>(pc = "done" \/ Late) \/ <>[](pc = "sipi" /\ icr)

(* What the log line of smp.c:412 says: the core is up.                    *)
CheckedInIsTrue == \A c \in APs : report[c] = "online" => ap[c] = "loop"
=============================================================================
