# A verification of the Pheonix Firmware Interface

This directory holds TLA+ models of the x86_64 firmware in `src/x86_64/`, the TLC
configurations that check them on small instances, and proofs checked by TLAPS.
The code is the reference: every definition was read off the C and assembly
source, and `PROJECT.json` ("map") says which lines each one stands for. Paths
below are relative to `src/x86_64/src/`.

To check a model: `tlc -config SchedSafety.cfg MCSmpSched.tla`. To check a proof:
`tlapm SmpSchedProofs.tla`.

## 1. The system

PFI is a boot firmware. The bootstrap processor (BSP) comes out of reset
(`asm/nasm/entry.asm`), reaches `pfi_main` (`main.c`), and brings the parts up in
this order: IDT, serial port, memory map, page tables and allocator, a second IDT
in allocated memory, ACPI tables, the other processors (APs), and PCIe with the
driver modules. After that everything runs as threads on cores, and any running
code may call any component. There is no preemption: interrupts only acknowledge.

| Component | State it keeps | Operations | Talks to | Model |
|---|---|---|---|---|
| Per-core scheduler (`smp.c` 99-327, the loop of `ap_kernel_entry`) | per core: `ready_list`, `queue_lock`, `status`, `reserve_core`, `shutdown_core`, `command_lock`, `cur_thread`; per thread: `next`, `status`, `rsp` | the loop, `smp_push_task`, `smp_push_task_bsp`, `smp_yield`, `smp_reserve_core`, `smp_unreserve_core`, `smp_get_core_status`, `smp_get_first_free_core` | allocator, LAPIC (wake-up IPI, timer) | `SmpSched`, `CoreTasks` |
| AP start-up (`smp_init`, `smp_trampoline.asm`, `ap_kernel_entry` up to its loop) | the mailbox 0x500-0x520, `ap_boot_flag`, `cores`, `bsp_core_idx` | start one AP, wait, report | ACPI, allocator, LAPIC | `SmpBoot` |
| Shutdown of cores (`smp_shutdown`, `acpi_reboot`, `acpi_shutdown`) | `shutdown_core` of each core, the CMOS index and byte | mark and INIT every core, write and verify the byte, reset | scheduler loop, allocator | `SmpShutdown` |
| AVMF, frames (`avmf.c` 74-127) | frame bitmap, `last_alloc_page` | `avmf_alloc_phys_contiguous`, the release in `avmf_free` | memory map | `PhysAlloc`, `FrameAllocator` |
| AVMF, blocks (`avmf.c`, the rest) | region headers, `last_found`, `header_index`, four heap pointers | `avmf_alloc`, `avmf_alloc_virt`, `avmf_alloc_region`, `avmf_find`, `avmf_free`, `avmf_virt_to_phys` | page tables | `Avmf` |
| Page tables (`pager.c`) | four levels of tables | `pager_init`, `pager_map`, `pager_map_range`, `pager_unmap`, `pager_load` | allocator, memory map | `PageTables`, `BootPaging` |
| Memory map (`e820.c`) | six entries | `init_basic_e820`, `get_e820` | page tables | `BootPaging` |
| ACPI tables (`acpi.c`) | table pointers, `apic_ids`, PM timer port and width, `acpi_lock` | `acpi_init`, the getters | low memory | `AcpiInit` |
| Delays (`acpi.c`, `core.c`) | the timer, `tsc_ticks_per_ms` | `acpi_mdelay`, `ftimer_calibrate`, `fdelay` | ports | `Delays` |
| Interrupt tables (`idt.c`) | a static and an allocated table, `idt`, `idt_ptr` | `idt_init`, `idt_global_init`, `idt_load_local` | allocator | `Idt` |
| PCIe (`pcie.c`) | segments and their window | `pcie_init`, `pcie_read`, `pcie_write`, the searches | allocator, ACPI (MCFG) | `Pcie` |
| Driver modules (`module.c`) | registry and its capacity | `module_register`, `module_already_initialized` | allocator | `Modules` |
| Serial, video, exceptions (`drivers/serial`, `drivers/video`, `fexceptions.c`) | three serial locks, two of the screen, the cursor | print a character, a string, a format; report an exception | - | `Console` |
| ATA (`drivers/drive`) | one lock, the registers of the bus | read and write sectors | - | `Ata` |
| PS/2 (`drivers/keyboard`) | one lock, the controller | initialise, poll, read a key, read a line | screen | `Ps2` |
| Locks (`core.c`) | one word each | `spin_lock(_irqsave)`, `spin_unlock(_irqrestore)` | - | in every module that takes one |
| Firmware heap (`core.c` 211-271) | a header in front of each block | `fmalloc`, `flink`, `ffree`, `fcalloc`, `frealloc` | allocator | not modelled |

### Where the difficulties lie, and what makes each part correct

* **Scheduler.** Its lists are shared by cores; three copies of the push and one
  pop work on them; the loop looks at the list without the lock; whether to send
  an IPI is decided on a status read with no lock at all; a yielding thread is on
  its list before its context is saved. Correct: no thread is lost, doubled or
  run before its context is saved, each runs only on its own core, and a core with
  work does not sleep for ever.
* **Start-up.** Two processors talk through three words of memory and one flag,
  with a wait that gives up. Correct: each AP runs on its own stack and core_state,
  the reports are true, and `smp_init` returns although APs are dead or slow.
* **Shutdown.** INIT stops a core anywhere, also the core that sends it and also
  the holder of a lock. Correct: no registered core runs on after the reset, and
  somebody gets as far as the reset.
* **Allocator.** Correct: blocks are disjoint, frames come back, a block holds what
  was asked; virtual ranges are disjoint and the list keeps every block. The frame
  bitmap works under one lock; the heap pointers and the list are checked and
  walked before their lock is taken, and every failure path of `avmf_alloc`
  returns without giving back what it holds.
* **Page tables.** No lock at all; huge and small pages meet in one tree; out of
  memory is not tested. Correct: every page translates as the calls add up to.
* **ACPI.** Two areas, two formats and several checksums decide what is used; one
  early return keeps a lock; the delay loop counts a wrapping timer.
* **Console.** Three nested locks, entered at each of the three; an exception may
  come while its own core holds them.
* **Devices and tables.** Waits that return in the same way on success and on
  time-out; one port for keys and for answers; arrays that grow while an
  allocation fails; three near-copies of a search.

`PROJECT.json` "hazards" lists these one by one with their lines and the
properties that watch them.

## 2. Plan and result

Importance decided the order: scheduler, frames, start-up, then blocks, page
tables, shutdown, ACPI, delays, and the sequential parts. All of it is done except
the firmware heap (section 10). Each component has a module; two components have
an abstract specification that the detailed one is shown to implement (`CoreTasks`
for the scheduler, `FrameAllocator` for the frames). Components promise things to
each other, and where one module relies on another's promise it says so:

* `Avmf` takes frames from any place the bitmap leaves free, which is what
  `FrameAllocator` promises and `PhysAlloc` is proved to implement;
* `PageTables` is given ranges as `Avmf` gives them out (FramesExclusive,
  PagesExclusive);
* `Avmf` claims nothing once two processors have met in an unlocked window, and
  `SmpBoot` shows that start-up never brings two processors into the allocator
  (AllocAlone);
* `SmpBoot` starts from the processor list that `AcpiInit` gives it, in which a MADT
  names each processor once;
* `SmpSched` and `SmpBoot` take `fdelay` to return at once, which `Delays` explains:
  nothing calls `ftimer_calibrate`.

Parts that share no state are checked in one run, by a module that composes them
(`Acpi`: tables, delays, shutdown; `Devices`: console, drives, keyboard, PCIe,
registry, interrupt tables; `MCPaging`: boot and run time). In each `part` chooses
which of them a behaviour is about; the others stay in their initial state. No
interleaving is lost by that, as the parts touch no common variable, and no property
holds by it, as each part on its own reaches everything it would reach in a run of its
own. A part at rest is in a state in which its fairness condition obliges nothing, or,
where it would, the condition is guarded by `part`.

## 3. The runs

| Run | Instance | Properties | What it shows |
|---|---|---|---|
| `sched_safety` | BSP, 2 APs, 2 threads, commands from everyone, timer on | ListsIntact, OnePlace, FreeCoreIsIdle, ImplementsTasks | each list is the chain of the threads pushed and not popped; none is lost or doubled; a core offered as free is idle; every step is one of `CoreTasks` |
| `sched_alloc_fails` | the same, `create_thread` may return NULL, no commands | NeverWild, OneCpu | a core leaves its threads for a garbage stack only after a failed allocation, and even then no thread runs on two cores |
| `sched_liveness` | 1 AP, 3 threads, commands, fairness | SeenIdleIsWoken, ReserveIsSeen, ImplementsFairTasks | a pusher that saw the core not RUNNING wakes it, timer or not; with the timer, no ready thread is forgotten and a reservation is seen |
| `phys_safety` | pages of 2 bytes, regions of 4 and 3 frames, one not page-aligned, sizes 0 to 6 and one that overflows | BitmapExact, LargeEnough, ScanIsFirstFit, ImplementsFrames | frames have one holder, the bitmap is exact, the loop finds the lowest run |
| `phys_out_of_memory` | one region of 5 frames, as `e820.c` has one | OutOfMemoryIsTrue (violated) | a finding, section 5 |
| `boot_safety` | 3 APs, the BSP second in the table, a LAPIC that may never deliver an IPI | OwnBlocks, AllocAlone, ReportTrue, TableTrue, BootEnds | start-up with dead, slow and late APs and failing allocations |
| `boot_check_in` | the same | CheckedInIsTrue (violated) | a finding, section 6 |
| `avmf_safety` | 2 processors, adjacent heaps of 3 pages and 1, 3 frames, 3 headers, a word of 8 pages, blocks of 1 and 2 and one of 6, with which the sum wraps | FramesExclusive, PagesExclusive, LookupRight, AliasesAreTails, NoLeakBeforeFull | allocation, release and translation in any interleaving outside the unlocked windows |
| `paging` | boot: the real memory map; run: 2 processors, tables of 2 entries (16 pages), blocks of 1 to 3 pages, 8 frames | AddressSpaceRight, WalkInTables, DirectMapComplete | the direct map is complete, pages translate as asked for |
| `acpi` | 2040 images, two processors at most in `apic_ids`; timers of 3 and 5 ticks, delays of up to 4; 3 cores with every table | GivenIsTrue, OthersStopped, NeverEarly, DelayEnds, StartupGoesOn, SurvivorReboots | tables, delays, reboot |
| `acpi_no_rsdp` | the same | NoDeadlockOnLock (violated) | a finding, section 8 |
| `devices` | see section 9 | ScreenRight, TransfersTrue, SearchRight, RegistryIntact, LoadedIsComplete, Unbroken, CallsEnd | console, drives, keyboard, PCIe, registry, interrupt tables |

Runs without deadlock checking are those whose system really stops: a heap that is
used up and a processor in the middle of nothing (`avmf_safety`), a range that is
all mapped (`paging`), a machine that is reset (`acpi`), and calls whose number is
bounded (`devices`).

## 4. The scheduler: `SmpSched`, `CoreTasks`

**State.** One variable per field, indexed by core or thread, plus where each
processor stands: `lpc[c]` is the place of core c in the loop, `ppc[p]` the place
of context p in a call of `smp.c`, `cpu[c]` the context c executes, `irq[c]` its
pending interrupt. The ready list is the code's own linked stack (`ready_list` and
`next`, with a cell for NULL, because `create_thread` may return NULL and page 0 is
mapped). `saved` is the set of threads whose `rsp` may be resumed. Two history
variables, `stack` and `place`, record what the list should hold and where each
thread is; no action reads them.

**Actions.** The loop: `LoopTop` (cli, test of `shutdown_core`), `LoopLook` (the
unlocked test), `LoopLock` and `LoopAdvance` (the pop), `LoopDispatch`,
`LoopReserve` and `LoopStatus` (read `reserve_core`, write `status`), `LoopHalt`
(sti; hlt), `LoopWoken`. Interrupts: `TakeInterrupt`, `TimerTick`; `Masked` says
where they are off. Calls: `PushTask` (with `create_thread`), `Yield`, `Command`,
then `LockQueue`, `Link`, `CheckStatus`, `SendWakeup`, `YieldSwitch`, `SetReserve`.
`smp_get_core_status` and `smp_get_first_free_core` only read `status`; the
property FreeCoreIsIdle says what their answer is worth.

**Abstraction.** Log lines, tids, register contents and EOI writes are left out.
Entries of threads do not return (a new stack holds no return address,
`smp.c:112-118`): a thread yields, calls, or runs on. The build has no optimisation
flag, so accesses happen in source order. `reserve_core` starts with any value,
because `smp_init` does not set it. The BSP runs no loop: what is pushed on it stays
ready, which is what the code does. `shutdown_core` is set in `SmpShutdown` only.

**`CoreTasks`** is the promise without lists, locks or interrupts: a task is
submitted to a core, runs only there, one at a time, and leaves only by yielding.
Its `FairSpec` adds that a core with ready tasks and none running takes one.

**Bounds.** Two APs give every pair of actors on one list (two pushers from
different cores, a pusher and the loop, a yielding thread and a pusher) and a wrong
target; two threads give lists of length 0 to 2, the third thread of the liveness
run a list that changes behind a running thread. Liveness is checked without
symmetry. Interrupts are one pending bit per core: both vectors only acknowledge,
so a second pending one equals a later tick.

**Fairness.** `CpuFairness`: each AP executes its next instruction if it can and
takes an unmasked pending interrupt; a call that has begun goes on. `TimerFairness`:
a calibrated periodic timer fires; it is the premise of ReserveIsSeen and
ImplementsFairTasks and not of SeenIdleIsWoken. Nobody is obliged to begin a call,
to yield or to push. The locks need no fairness: every critical section is a fixed
number of steps of a processor that runs, and a spinning processor is just a
disabled step.

**What the runs also taught.** Without the timer ImplementsFairTasks fails: a pusher
that reads RUNNING between the loop's look at the list and its write of the status
sends no IPI, and the core sleeps over a ready thread until something else wakes it.
The timer covers this, if its calibration gave a non-zero count; `lapic_timer_calibrate`
waits with `fdelay`, which returns at once (`core.c:200`). With a NULL linked by a
push that races a pop a core goes to a garbage stack, and the list below it is lost.
The list is a stack: a thread that yields is its head and runs again at once, so
the threads below it wait as long as it likes; the code promises no more. When the
stack of a thread cannot be allocated its thread_state is lost (`smp.c:107`).

**Proved** (for any number of cores and threads, from `ConstantsAssumption`: the
named contexts are distinct):

* `SmpSchedProofs`: TypeCorrect, QueueMutexHolds. The lock word and the program
  places determine each other (`QueueMutex` names the contexts inside), which is
  inductive together with the types. OneCpuHolds is about the schedules in which
  allocations fail, where `Owned` below says nothing. Its invariant `Kept` follows a
  chain only as far as it still means something: from the head down to the first NULL
  (AboveInv), and only for a core that has not popped a NULL (`Pops`), since such a core
  runs garbage and pops no more. That a thread above a NULL is on one list once needs
  that whoever links it holds it alone (HoldsInv), and that needs that the thread on a
  CPU, while it is not yielding, is nowhere else (RunsInv).
* `SmpSchedOwnership`: ListsIntactHolds, OnePlaceHolds, NeverWildHolds, from one
  inductive invariant `IInv == Types /\ QueueMutex /\ (~oom => Owned)`. None of the
  three is inductive alone: that the list is the chain it should be needs that a
  thread being linked is on no list; that needs one place per thread; that needs the
  list to be right at the pop; and that a popped thread can be resumed needs that a
  yielding thread cannot be popped before its switch, because the only loop that
  could is the one of the core it still occupies. `Owned` is the conjunction of these,
  one named part each. It is conditional on `oom` because a linked NULL breaks it.
  On it rests TasksImplemented: if `create_thread` cannot fail, `Spec => ImplementsTasks`,
  with `place` as the refinement mapping. FreeCoreIsIdleHolds needs no list and has an
  invariant of its own (Idleness), so it holds after a failure too.

Only model-checked: liveness.

## 5. Physical frames: `PhysAlloc`, `FrameAllocator`

`bitmap` is the set of frames whose bit is 1, `last_alloc_page` the code's variable;
`live` and `refused` are history variables (the blocks in use; what the last call
was refused). Each operation is one step, since it runs under `avmf_lock` with
interrupts off. `Alloc` takes the lowest run of the first region that has one
(`Fits`); `Scan` is the loop as written, and ScanIsFirstFit says both agree in every
reachable state. `Align4k` computes modulo 2^64 (`Word`). `Release` is the loop that
`avmf_free` runs on a header, for a block in use. `avmf_init` is `Init`: it is called
once, and the bitmap is zero then (it clears 200 words of 2048, which makes no
difference).

Seven frames hold every arrangement that matters: runs split by a block, a search
that starts in the middle, at the end, or in another region, and requests larger
than any region's rest.

**The finding** (`phys_out_of_memory`): the search of a region begins at
`last_alloc_page` and never returns to the region's start, so with the single region
of `e820.c` a request is refused with "Out of physical memory" (`avmf.c:125`)
although a free run below would hold it.

**Proved** in `PhysAllocProofs`, for every region table, page size and set of 64-bit
sizes (from `RegionsAssumption`: frame 0 is not usable, the bitmap covers the
regions, a page is no larger than the address space): TypeCorrect,
LiveDisjointHolds, BitmapExactHolds, LargeEnoughHolds and FramesImplemented. The
invariant is TypeOK, LiveDisjoint and BitmapExact together: disjointness of a new
block comes from the bitmap, exactness after a release from disjointness.
LargeEnough rests on PagesHoldSize: a size whose rounding does not overflow gets
enough pages, any other rounds to none. ScanIsFirstFitHolds compares the loop with
`Fits` for every bitmap: ScanFinds says what the rest of the loop finds from page `p`
with `run_len` free pages behind it, which goes down from the region's end. The
library's induction cannot be instantiated, so the lemma supposes a page at which it
fails and takes the last one (NatMin on the distance to the end); ScanExists shows
that the recursive function that the loop is written as exists.

## 6. Start-up: `SmpBoot`

One variable for each shared word (`mb_stack` for 0x510, `mb_state` for 0x520,
`ap_boot_flag`, `cores`, `bsp_core_idx`), the BSP's place `pc` and index `i`, and for
each AP its place and what it took from the mailbox (`rsp`, `rsp0`, `self`). `report`
records the log's verdict. A core's stack and core_state are named after the core, so
"its own" means equality.

`SendInit` writes the INIT, and `SendSipi` waits for its delivery (`icr`, bit 12 of the
register): `smp.c:87` is the one wait of `smp_init` that has no count, and `Delivered`,
the LAPIC's part, is owed by nobody. Then `SendSipi` starts the AP or does not (dead
core, lost IPI: the second IPI of the code is a fixed interrupt, not a SIPI, as bit 14
alone is no INIT). `PollTimesOut` may happen at any poll, because nothing relates the
count to the AP's speed; `fdelay` contributes no time. Any allocation may fail. The skip
of an already registered core (`smp.c:346`) is not an action: `smp_init` runs once.
`Late` says that an AP runs although the BSP gave up on it. From then on two APs can
share a stack, and what they do to each other there, or to the locks of the allocator
and of the serial line if one of them stops with a lock in its hands, is not modelled;
so OwnBlocks, AllocAlone, ReportTrue and BootEnds claim nothing after that (TableTrue is
about words that only the BSP writes). Before that, and with any number of dead APs,
they must hold. BootEnds has one exception more: an INIT whose
delivery the LAPIC never reports keeps `smp_init` in its loop for ever. A core is
registered before it is started, so one that never starts is offered like the others.

Three APs allow a late one, a dead one and one in between; the BSP in the middle of
the table exercises the skip. The only fairness is that the BSP keeps executing
(`WF_vars(BspStep)`); APs and the LAPIC owe nothing.

**The finding** (`boot_check_in`): `smp.c:412` logs "checked in successfully" for a
core on account of the flag that an earlier, late core sets.

**Proved** in `SmpBootProofs` for any processor table (from `OrderAssumption`: no
processor twice, the BSP among them; a MADT without the BSP would leave `bsp_core_idx`
at 0, which then names another core): TypeCorrect, OwnBlocksHolds, AllocAloneHolds,
ReportTrueHolds and TableTrueHolds. The key conjunct is OneAtATime: while no AP is
late, the only AP between off and its loop is the one the BSP waits for. It needs
Fresh (entries not reached yet are off), FlagMeans (a flag that is up belongs to the
present core) and Current (the mailbox is for the present core). TableTrue has a
further invariant of its own, TableInv, about the places the BSP has passed. Only
model-checked: BootEnds.

## 7. Blocks and page tables: `Avmf`, `PageTables`, `BootPaging`

**`Avmf`.** A step is what one processor does between two points at which another can
interfere. `VirtCheck`, `VirtRead` and `VirtAdd` split `avmf_alloc_virt` at its lock,
the search of the tail and the append split `avmf_alloc_region`, and `avmf_find` is a
look at `last_found`, a walk of the list and a use. Headers stay on the list for ever.
Sums are those of a 64-bit word (`Plus`, `Word`): the test of `avmf.c:157` is made on
the sum as it comes out, so a size that takes a heap pointer past 2^64 (a few TB are
enough in the highest heap) passes it and puts the pointer back below the heap.
`wrapped` is a history variable that records this, and from then on nothing is claimed.
The highest heap ends at (uint64)-1, its last page is never given out; a size that
`align4k` rounds to 0, and size 0 itself, are left out. `raced` is a history variable:
it becomes true when a second processor enters one of the three unlocked windows (heap
pointer, list tail, `last_found`) that another is in, and from then on nothing is
claimed, since ranges, headers and translations really go wrong there. Everything else
may overlap, and does in the run. Three frames and three headers run out in either
order; the smaller heap begins where the larger one ends, so an off-by-one at the end of
a heap is visible.

What the properties leave open is what the code leaves open: `avmf_free` unmaps the
first page of a block only, so later pages of a freed block stay mapped to frames
that may have a new owner (AliasesAreTails says that it is never more than that);
after the table of headers is full, frames leak on the failure path
(NoLeakBeforeFull); its 2048 entries are never used again; a second free of an
address clears the bits of whoever has the frames now (callers in `src/` free once,
and so do the model's). `avmf_free_phys`, `avmf_map`, `avmf_map_identity_virt` and
`avmf_phys_to_virt` have no caller that runs.

**Proved** in `AvmfProofs`, for any number of processors, heaps, frames, headers and
sizes that a word holds (from `AvmfAssumption`: the heaps do not overlap and end below
the end of the word, and page 0 and frame 0 are in none): TypeCorrect,
FramesExclusiveHolds, PagesExclusiveHolds, LookupRightHolds, NoLeakBeforeFullHolds,
AliasesAreTailsHolds, all as long as neither `raced` nor `wrapped`. `IInv` says that
every range ever given out lies in the used part of a heap and is disjoint from the
others, freed ones too (RegionsInv); that each block has a header of its own (SlotsInv);
that the list is all headers (ListInv); and whose each frame is. `Next` stops in the
first state in which two processors have met in a window or a pointer has gone round, so
`raced <=> Overlap` is part of the invariant, and the absence of an overlap before a
step is what makes the unlocked reads still true at their use. AliasesAreTails has a
second invariant above the first, MappedInv.

**`PageTables`.** A walk of `pager_map` is one step per level: `Descend` through a
present entry, `AllocPageTable` and `Install` for a missing one, `WriteLeaf` for a
page or a huge page. `Unmap` follows the tables as `pager_unmap` does. `space` is
the reference: the address space as the calls add up to. AddressSpaceRight compares
it with what the processor makes of the tables, at every step of every walk, until
two processors install the same missing table (no lock) or a table is put on frame 0
(`pager.c:33`); the model goes no further than that. With two entries per table
sixteen pages have all four levels, and a huge page is two pages; blocks of three
pages, and ranges that begin in the middle of a table, mix huge and small leaves. The
heap is the four pages 5 to 8, in the middle of the sixteen, across a boundary at
every level.

**`BootPaging`.** `pager_init` at its real size: the six entries of `e820.c` and the
steps of its loops, one call of `pager_map` each. DirectMapComplete says that the direct
map has no hole when CR3 is loaded, so that `pager_map` reaches every table below the
root through it. The root itself is reached by its physical address, 0x300000, and
nothing is claimed of that: the identity map of the data ends just below it
(`pager.c:165`, 180), so that address is not mapped once CR3 is loaded, and the next
`pager_map` (for the table of `idt.c:56`) reads through it. `PageTables` takes the walk
to reach its root; all it shows is conditional on that. The comment and the log lines
next to the identity ranges disagree with them: "64 MB" (161) for the 16 MB that are
mapped, 0x00008000 (164) for 0x80000, and 0x001FFFFF (166) for 0x2FFFFF.
`alloc_page_table` may also fail before paging is on (`pager.c:29`-45); memory is still
untouched then, and that branch is left out. The base of the user heap, 0x1000, lies in
the identity-mapped low memory too. `pager_destroy_table` has no caller.

**Proved** in `PageTablesProofs`, for tables of any size, any number of processors, any
heap and any frames (from `PagingAssumption`: a table has at least two entries, frame 0
is no memory, the pages of the heap are within four levels): WalkInTablesHolds,
AddressSpaceRightHolds and BlocksDoNotHoldTablesHolds, from one inductive invariant
`IInv == Types /\ (Sound => Tree)`; `Sound` is the condition of the properties, no lost
install and no table on frame 0. The parts of `Tree`:

* a frame is a table, or of one block, or of one call, or free (FramesInv), and each
  table of the tree is reached through one entry (TreeInv, OnePlace), so that a written
  entry changes the pages below it and no others;
* a walk stands on the table that the tree has for its page at that level (WalkInv), and
  a table taken and not linked yet is empty and nobody else's (NewInv): another link in
  its place would have been the race;
* no walk meets a huge entry, because pages below one were given out to a call that has
  mapped them (HugeInv), and calls have no page in common (AloneInv);
* a huge page never replaces a table that others use: below a link of level 2 is a page
  that was given out and that no other call still has to map (LinkInv), so a call that
  has a whole huge page ahead of it finds the entry empty;
* with these, Translation of a page changes only by its own leaf (SpaceInv).

Indices and slots are quotients by powers of the table size (`Span`); that dividing twice
is dividing by the product (DivDiv), and what follows for two pages in one slot, are
lemmas of their own. The property of `BootPaging` is left to TLC: nothing in it is a
parameter, the run computes it at the sizes of the code, and a proof would add nothing.

## 8. ACPI, delays, shutdown: `AcpiInit`, `Delays`, `SmpShutdown`

`Acpi` composes the three; `AcpiProofs` has the theorems.

**`AcpiInit`.** An image is what lies in memory: candidates for the RSDP in both
areas, each with a checksum that is right, wrong, or wrong in the extended part only,
and a root of each format with its tables in some order. The run has 2040 of them.
The entries of a MADT are those that the code's pointer comes to, each with the length
by which it goes on (`acpi.c:167`); no checksum of the table is looked at. An entry of
length 0 is read for ever, with `acpi_lock` taken, and counted each time if it is an
enabled processor. `apic_ids` has a size (`MaxIds`; 256 in the code) that nothing
compares with the count (`acpi.c:164`): `Overrun` is the write behind it, after which
the model stops. `acpi_read_timer`, a locked read for clients, has no caller and is
left out.
GivenIsTrue compares what `smp_init`, `pcie_init` and the delays get with what the
image lists, defined without the code's loops: of several tables with one signature the
last counts, of several MADTs every processor, and one FADT with the flag of a 32-bit
timer makes the timer 32 bits wide (the code never sets `pm_timer_24bit` again, so this
is what it does with two FADTs too); and no more processors are given than the array
holds. StartupGoesOn asks for a usable RSDP and for MADTs whose entries have a length
and fit the array (WellFormed): without these the code does not get through.
Fairness: `acpi_init` goes on.

**Proved** of it, for every image (from `ImagesAssumption`: what is in the two areas is
one of the four kinds, tables and entries are sequences, an APIC ID and a length have 8
bits; entries of length 0 and lists longer than the array are among them):
GivenIsTrueHolds. ChosenIs says that the first candidate that is not bad names the right
root exactly if the search ends well; KeptInv that after n tables (and m entries of the
next) the pointers, the timer and the list of processors are what those list. The list
is a sequence of sequences put together, so that each step needs FlatIs: what is put
together from n sequences is what is put together from n - 1, and then the n-th. It is
about a recursive function and is had from the least counterexample (section 10).

**The finding** (`acpi_no_rsdp`): without a usable RSDP `acpi_init` returns with
`acpi_lock` taken (`acpi.c:254`), and `smp_init`'s next call of ACPI spins on it. With
an RSDP but no MADT `madt_table` is NULL and the LAPIC base is read from page 0
(`acpi.c:52`).

**`Delays`.** Time is counted in ticks of the PM timer, 3 or 5 to a revolution, so a
delay of four ticks sees it wrap once or twice; the holder of the lock, with
interrupts off, reads at least once per revolution (`GapBound`), which 4.7 s in the
24-bit case justify. MaxWait only bounds the TSC counter. Fairness: the timer ticks
and processors go on; one of those that wait for a free lock gets it. DelayEnds says
nothing without a PM timer: `acpi_timer_read` then returns 0 for ever (`acpi.c:92`).

**Proved** of the delays, for all timer lengths, rates and delays (from
`DelaysAssumption`): TypeCorrect and NeverEarlyHolds. Clock says that the difference
the loop will see, modulo the width, is the true time since its last read; Calibrating
and Calibrated carry that over to the TSC.

**`SmpShutdown`.** Every core of three may be registered or not, running or not, and two
of them call `acpi_reboot`, one `acpi_shutdown`, while the others run threads that take
`avmf_lock`. An INIT is on its way for a while (`init`) and resets its target wherever
that stands. `smp_shutdown` resets every core in its table, the caller and the BSP
included (`smp.c:454`, under a comment that speaks of "the AP"), so a caller that is in
the table may never reach the reset: OthersStopped, which is about the state at the
reset, then says nothing. SurvivorReboots is about a caller that is not in the table,
and about nobody when an INIT has stopped the holder of `avmf_lock`. How the reset is
asked for is `way`, fixed by the FADT: the register of `acpi.c:320`-325, where it is one
of memory, is a step of its own (`WriteRegister`), because it may lie outside what is
mapped, and then the caller meets a page fault and halts in its handler; SurvivorReboots
excepts that too. The ways after it, two ports and a triple fault, are one step: one of
them works. `acpi_shutdown` leaves the other cores running and ends in a halt. Fairness:
processors go on, an INIT arrives.

**Proved** of it, for any number of cores (from `AcpiAssumption`: the BSP is one of
them): OthersStoppedHolds. The property is not inductive; Swept says what a core has done
at each of its places, and OffsHalt that `acpi_shutdown`, which passes some of the same
places without having sent anything, never gets to the reset.

Only model-checked: StartupGoesOn, DelayEnds and SurvivorReboots, which are liveness.

## 9. Devices and tables: `Console`, `Ata`, `Ps2`, `Pcie`, `Modules`, `Idt`

`Devices` composes the six, one at a time, for the run `devices`; `DevicesProofs` has the
theorems, at least one about each of them.

* **`Console`.** A call is the sequence of its steps, a function of its text: locks,
  characters, cursor. Two cores make a call each, of every printing function (direct
  ones of `vmem_print` and `vmem_printc` included, as `ps2_read_line` makes them) and
  with every kind of token: a character, a newline, a string. One call is enough,
  because nothing of a call remains after it but the screen. One of the cores may meet
  an exception at any step, whose handler prints on top of what its core was doing.
  Unbroken and CallsEnd are about the serial locks, ScreenRight about the cursor. That
  is programmed after the lock of its cell is released, from arguments that are read
  before its own lock is taken (`vmem.c:62`, 71; the steps `read_x` and `read_y`). Only
  the outer lock, of `vmem_printf` or of `vmem_print`, keeps two cores apart there. When
  one moves the place of the next character while another, without the same outer lock,
  has still to program the cursor, it may end up wrong; `crowded` records this, and the
  cursor is claimed to be right only as long as it has not happened. An exception inside
  a locked part waits for its own core for ever (`Lost`); CallsEnd excepts exactly that.
  The screen does not wrap or scroll by itself; the prefix of `%p` goes to the serial
  line also for the screen; a format that ends in `%` reads past its end: none of these
  is in the texts.
* **`Ata`.** Two processors and both drives of a bus, two sectors. A drive may answer,
  fail, or be busy for longer than any wait. TransfersTrue says what a result of 0 is
  worth: a read delivered its sectors, a write all but the last, whose status nobody
  reads. Time-outs are no exception: a drive that ignored a command while it was busy
  asks for no data either, so the caller waits for ever (which CallsEnd excepts) and
  returns nothing wrong. A count of 0, which a drive takes for 256, is left out. The
  flush is sent to a drive that may be busy with it (`ata.c:163`), so nothing is claimed
  about the medium.
* **`Ps2`.** A reader of a line, with echo, and a core that polls and initialises. The
  one output port carries keys and answers: `ps2_init` takes a key that waits for the
  configuration byte (`ps2.c:41`), and the acknowledge 0xFA of the command 0xF4, for
  which nobody waits, is read as a scan code or by the next `ps2_init`. The waits for the
  controller to take a byte (`ps2.c:38`, 47-53) are taken to end. `ps2_read_scan` keeps
  the lock while it waits.
* **`Pcie`.** Up to three entries of the MCFG, of four buses with two functions each, two
  entries of one segment among them. All entries of a segment are mapped from the same
  place of the window on (`pcie.c:28`), while `get_segment` goes by the bus (80-89): where
  a later entry of the segment that starts elsewhere lies over an earlier one
  (Overlaid), accesses reach the wrong bus, and AccessRight excepts just these. The count
  of entries is one short (`pcie.c:21`), and a bus in no counted entry is taken for one of
  the first (`pcie.c:88`), so the ports are used only when there is no entry at all. Its
  address is then counted from the start of that first entry (`pcie.c:100`): the access
  faults, or reaches a bus of another segment. Of such an access only this is promised,
  that it stays within what `pcie_init` mapped. `pcie_find_ex` returns the first function
  that fits. `pcie_find_rex` tests the vendor when it is told not to and does not when it
  is told to (`pcie.c:167`); promised is what any reading of that flag asks for: what it
  returns has the class and the revision, and it passes over no device that has the vendor
  too. The `base_addr` of an entry is where its `start_bus` is, as the code takes it.
  Left out: `pcie_find` (no caller), and a small page of one entry that meets a huge page
  of another in the window, where the later one is taken to win.
* **`Modules`.** Five modules over two growths of an array of 2 (16 in the code), with
  allocations that fail in between.
* **`Idt`.** The BSP builds both tables while two APs load what the globals point to.
  When the allocation of the second fails, an AP runs its loop without any table
  (`idt.c:57`); LoadedIsComplete says that this is the only case. Vectors outside
  0..31, 0x30 and 0x40 never have an entry.

Fairness: each processor goes on, and so do the drives and the controller, the keyboard
owes no key.

**Proved** in `DevicesProofs`, each from an invariant of its own that only the steps of
its part can touch. The assumptions are those of `Devices`: `DevicesAssumption` (the
array grows, there is a module, sectors and counts are numbers, the BSP is not an AP),
`BusAssumption` (a segment has buses and a bus has functions, an entry does not end
before it starts, a slot that reads ffff is empty), `TextAssumption` (every printing
function, texts of the three kinds of token, no core is called "none" or "lost") and
`LineAssumption` (a buffer has a place for the terminating 0).

* RegistryIntactHolds, for any number of modules, step of growth and failures. Usable and
  HoldsAll say of a block that it is not freed, how long it is, and that it holds the
  modules taken; GrowthInv says of which block they are true at each place of
  `module_register`, as between the copy and the publication it is the new one;
  TakenOnce that the module of the call is not in the array yet.
* LoadedIsCompleteHolds, for any number of APs. BuildInv follows the two passes of the
  BSP, StartInv says that an AP is off until the globals lead to a complete table or to
  none, CoreInv what each core has loaded.
* TransfersTrueHolds, for any number of callers and sectors and both drives. The lock
  leaves one caller inside (AloneInside); a drive that may still ask for data works on the
  command of that caller, and how far both are agrees (DrivesInv, Own); a drive whose
  command was ignored asks for nothing (Quiet). ReadOk and WriteOk say what is transferred
  at each place; WriteOk counts one sector less from the moment the drive reports an
  error.
* SearchRightHolds, for any tables, any devices in the slots and any number of buses and
  functions. WindowInv says that every bus of the entries mapped so far has its place in
  the window, and that a place shows the bus that the last of these entries has there
  (LastAt). That only entries of one segment can have the same place, and then only for
  buses at the same distance from their starts, is OnePlaceInWindow, because a number is
  a quotient and a remainder in one way (OneQuotient): from it comes that a wrong bus
  means an entry laid over. SearchInv says that what a search has passed is not wanted.
* UnbrokenHolds and ScreenRightHolds for the screen, for any cores, texts, number of
  calls and exceptions. A call is a program, and what matters of it is what its
  functions have in common (`Sound`): it releases only what it holds (Legal), it holds
  one lock from the first to the last character of a format, and another from the first
  to the last of a string (FormatWhole, StringsWhole), and it reads the arguments of the
  cursor, and programs it, for the cell it has just changed (Paired). `vmem_printf` and
  `vmem_print` hold their outer lock until then (ScreenWhole). CallsAreSound shows this
  for every text: FlattenInduction carries it from token to token, Holding and `\o` from
  the inner functions to the outer ones. Above that two small invariants: a core owns
  the locks that its place in its program says it holds (LocksInv), and, unless two
  cores met at the cursor (`crowded`), what a core has still to program is the present
  place, nobody else having one (CursorInv). The exception handler is a program like the
  others.
* ScreenRightHolds for the input line, for any keys, buffer and cores: EchoShowsLine is
  inductive with the types, a backspace included. It needs that what is read is a key or a
  byte of the controller.

Only model-checked: CallsEnd, which is liveness.

## 10. Limits

* Liveness stays with TLC: the prover does not handle fairness and ENABLED.
* The library's induction theorems take an operator, which no prover here can
  instantiate. What a loop or a recursive function computes for every input is had without
  them, from the least counterexample (NatMin): ScanIsFirstFit, the spans of the page
  tables, the searches of `Pcie`, the texts of `Console` (FlattenInduction) and the lists
  of `AcpiInit` (FlatIs). Recursive functions of two arguments are then written as
  functions to functions, the form the provers know, and a list that is filtered as one
  that is put together from lists of one element or none, because the provers do not know
  the definition of SelectSeq.
* DirectMapComplete has no parameters, so that TLC is exhaustive; it is the only invariant
  of a passing run without a theorem.
* **Not modelled.** The firmware heap: it has no caller in the firmware, so nothing
  says which sequences of calls are legal; `ffree` frees everything linked behind a
  block, also for `frealloc`, whose new block has no links. Reset vector, mode
  switches and `pfi_main`: straight-line code whose order the modules above take as
  their initial states. Memory primitives and the digits of numbers. The serial port's
  set-up. Driver binding and `modules_init`: the table of drivers is empty. What two
  APs do to each other on one stack. `acpi_read_timer`, `pcie_find`, `pager_destroy_table`
  and the four entry points of section 7 without a caller. The build scripts.
* Findings are three (sections 5, 6 and 8). Other places where the code does less than
  it looks like are named with their lines in the sections above; the properties there
  are stated so that they hold of the code as it is.
