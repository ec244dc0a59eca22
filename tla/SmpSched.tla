------------------------------ MODULE SmpSched ------------------------------
(***************************************************************************)
(* The cooperative per-core scheduler of smp.c.                            *)
(*                                                                         *)
(* Every application processor (AP) runs the loop of ap_kernel_entry on    *)
(* its idle context: it pops the head of its own ready_list, switches to   *)
(* that thread, and halts when the list is empty.  Any running code, the   *)
(* bootstrap processor's main context or a thread on an AP, may push a new *)
(* thread on the list of any core, yield, and reserve or unreserve a core. *)
(*                                                                         *)
(* The ready list is the code's own singly linked stack: ready_list[c] is  *)
(* the head and next[t] the link of t, with a cell for NULL as well,       *)
(* because create_thread may return NULL, smp_push_task links it all the   *)
(* same, and page 0 is mapped writable (pager.c:163).  Reads and writes of *)
(* shared words that the code does not make under one lock are separate    *)
(* steps.  The build uses no optimisation flag, so the order of accesses   *)
(* is the order of the source.                                             *)
(*                                                                         *)
(* Left out: the serial log lines, the thread's tid (a label that no code  *)
(* reads), the register contents (saved stands for a valid thread->rsp),   *)
(* and the End-Of-Interrupt writes.                                        *)
(***************************************************************************)
EXTENDS Naturals, Sequences

CONSTANTS
    Bsp,           \* the bootstrap processor's core_state
    APs,           \* the core_states of the application processors
    Main,          \* the context that runs on the BSP (pfi_main and its callees)
    Threads,       \* the thread_state blocks that avmf_alloc can hand out
    NULL,          \* the null pointer
    Idle,          \* the idle context of a core, and its idle_thread
    Wild,          \* a CPU that switched to a garbage stack
    Commanders,    \* the contexts that call smp_reserve_core, smp_unreserve_core
    AllocMayFail,  \* whether create_thread may return NULL
    TimerOn        \* whether the LAPIC timer was calibrated to a non-zero count

Cores == {Bsp} \cup APs
Procs == {Main} \cup Threads

ASSUME ConstantsAssumption ==
    /\ Bsp \notin APs
    /\ Main \notin Threads
    /\ \A x \in {NULL, Idle, Wild} : x \notin Procs
    /\ NULL # Idle /\ NULL # Wild /\ Idle # Wild /\ NULL \notin Cores
    /\ AllocMayFail \in BOOLEAN
    /\ TimerOn \in BOOLEAN

VARIABLES
    ready_list,    \* core -> head of its list of ready threads
    queue_lock,    \* core -> is the spin lock of that list taken
    status,        \* core -> what smp_get_core_status reports
    reserve_core,  \* core -> the request of smp_reserve_core
    command_lock,  \* core -> is the spin lock of the commands taken
    shutdown_core, \* core -> the request of smp_shutdown
    cur_thread,    \* core -> the thread the core believes it runs
    next,          \* thread, or NULL -> thread_state.next
    tstatus,       \* thread, or NULL -> thread_state.status
    saved,         \* threads whose rsp holds the context to resume
    oom,           \* has some create_thread returned NULL
    cpu,           \* core -> the context that executes on it
    irq,           \* core -> is an interrupt pending at its LAPIC
    lpc,           \* core -> where the scheduler loop stands
    nxt,           \* core -> the loop's local variable next
    ppc,           \* context -> where its call into smp.c stands
    tgt,           \* context -> the core that call is about
    arg,           \* context -> the thread (or NULL) that call enqueues
    stack,         \* history variable: core -> its ready threads, head last
    place          \* history variable: thread, or NULL -> where it is

listVars   == <<ready_list, next, queue_lock, stack, place>>
cmdVars    == <<reserve_core, command_lock, shutdown_core>>
threadVars == <<tstatus, saved, oom>>
loopVars   == <<lpc, nxt>>
callVars   == <<ppc, tgt, arg>>
vars == <<listVars, cmdVars, threadVars, loopVars, callVars,
          status, cur_thread, cpu, irq>>

LoopPc == {"top", "look", "reserve", "ready", "reserved", "idle", "halt", "woken",
           "lock", "advance", "dispatch", "stopped"}
CallPc == {"run", "push_lock", "push_link", "push_check", "push_wake",
           "yield_lock", "yield_link", "yield_switch",
           "cmd_lock", "cmd_check", "cmd_wake"}

\* A thread is not yet created, in the hand of the context that created it,
\* on a ready list, popped but not yet switched to, or on a CPU.  The entry of
\* NULL means nothing.
Nowhere == <<"none", NULL>>
Places == {Nowhere} \cup ({"new"} \X Procs) \cup ({"ready", "popped", "cpu"} \X Cores)

TypeOK ==
    /\ ready_list \in [Cores -> Threads \cup {NULL}]
    /\ next \in [Threads \cup {NULL} -> Threads \cup {NULL}]
    /\ queue_lock \in [Cores -> BOOLEAN]
    /\ stack \in [Cores -> Seq(Threads)]
    /\ place \in [Threads \cup {NULL} -> Places]
    /\ reserve_core \in [Cores -> BOOLEAN]
    /\ command_lock \in [Cores -> BOOLEAN]
    /\ shutdown_core \in [Cores -> BOOLEAN]
    /\ tstatus \in [Threads \cup {NULL} -> {"READY", "RUNNING"}]
    /\ saved \in SUBSET Threads
    /\ oom \in BOOLEAN
    /\ lpc \in [APs -> LoopPc]
    /\ nxt \in [APs -> Threads \cup {NULL}]
    /\ ppc \in [Procs -> CallPc]
    /\ tgt \in [Procs -> Cores]
    /\ arg \in [Procs -> Threads \cup {NULL}]
    /\ status \in [Cores -> {"READY", "RESERVED", "RUNNING"}]
    /\ cur_thread \in [Cores -> Threads \cup {NULL, Idle}]
    /\ cpu \in [Cores -> Procs \cup {Idle, Wild}]
    /\ irq \in [Cores -> BOOLEAN]

-----------------------------------------------------------------------------
(* State after smp_init: every AP is about to enter its loop with an empty *)
(* list.  reserve_core is never initialised in the block avmf_alloc gives  *)
(* out, so it starts with either value.                                    *)
Init ==
    /\ ready_list = [c \in Cores |-> NULL]
    /\ next = [t \in Threads \cup {NULL} |-> NULL]
    /\ queue_lock = [c \in Cores |-> FALSE]
    /\ stack = [c \in Cores |-> <<>>]
    /\ place = [t \in Threads \cup {NULL} |-> Nowhere]
    /\ reserve_core \in [Cores -> BOOLEAN]
    /\ command_lock = [c \in Cores |-> FALSE]
    /\ shutdown_core = [c \in Cores |-> FALSE]
    /\ tstatus = [t \in Threads \cup {NULL} |-> "READY"]
    /\ saved = {}
    /\ oom = FALSE
    /\ lpc = [c \in APs |-> "top"]
    /\ nxt = [c \in APs |-> NULL]
    /\ ppc = [p \in Procs |-> "run"]
    /\ tgt = [p \in Procs |-> Bsp]
    /\ arg = [p \in Procs |-> NULL]
    /\ status = [c \in Cores |-> "RUNNING"]
    /\ cur_thread = [c \in Cores |-> Idle]
    /\ cpu = [c \in Cores |-> IF c = Bsp THEN Main ELSE Idle]
    /\ irq = [c \in Cores |-> FALSE]

-----------------------------------------------------------------------------
(* The scheduler loop of core c (ap_kernel_entry).  It advances while the  *)
(* core executes its idle context.                                         *)

InLoop(c, pc) == cpu[c] = Idle /\ lpc[c] = pc
LoopTo(c, pc) == lpc' = [lpc EXCEPT ![c] = pc]

\* cli, then the test of shutdown_core; a core told to stop frees its
\* emergency stack, leaves the loop, and halts with interrupts off.
LoopTop(c) ==
    /\ InLoop(c, "top")
    /\ LoopTo(c, IF shutdown_core[c] THEN "stopped" ELSE "look")
    /\ UNCHANGED <<listVars, cmdVars, threadVars, nxt, callVars,
                   status, cur_thread, cpu, irq>>

\* Mutant of LoopLook: the loop pops without looking whether there is work.
LoopLookBlind(c) ==
    /\ InLoop(c, "look")
    /\ LoopTo(c, "lock")
    /\ UNCHANGED <<listVars, cmdVars, threadVars, nxt, callVars,
                   status, cur_thread, cpu, irq>>

\* The unlocked read of ready_list; sti when there is work.
LoopLook(c) ==
    /\ InLoop(c, "look")
    /\ LoopTo(c, IF ready_list[c] # NULL THEN "lock" ELSE "reserve")
    /\ UNCHANGED <<listVars, cmdVars, threadVars, nxt, callVars,
                   status, cur_thread, cpu, irq>>

\* Mutant of LoopLock: the pop does not wait for the lock.
LoopLockUntested(c) ==
    /\ InLoop(c, "lock")
    /\ queue_lock' = [queue_lock EXCEPT ![c] = TRUE]
    /\ nxt' = [nxt EXCEPT ![c] = ready_list[c]]
    /\ LoopTo(c, "advance")
    /\ UNCHANGED <<ready_list, next, stack, place, cmdVars, threadVars, callVars,
                   status, cur_thread, cpu, irq>>

\* spin_lock(&queue_lock); next = ready_list.
LoopLock(c) ==
    /\ InLoop(c, "lock")
    /\ ~queue_lock[c]
    /\ queue_lock' = [queue_lock EXCEPT ![c] = TRUE]
    /\ nxt' = [nxt EXCEPT ![c] = ready_list[c]]
    /\ LoopTo(c, "advance")
    /\ UNCHANGED <<ready_list, next, stack, place, cmdVars, threadVars, callVars,
                   status, cur_thread, cpu, irq>>

\* ready_list = next->next; spin_unlock(&queue_lock).
LoopAdvance(c) ==
    /\ InLoop(c, "advance")
    /\ ready_list' = [ready_list EXCEPT ![c] = next[nxt[c]]]
    /\ queue_lock' = [queue_lock EXCEPT ![c] = FALSE]
    /\ stack' = [stack EXCEPT ![c] =
                    IF @ = <<>> THEN @ ELSE SubSeq(@, 1, Len(@) - 1)]
    /\ place' = [place EXCEPT ![nxt[c]] = <<"popped", c>>]
    /\ LoopTo(c, "dispatch")
    /\ UNCHANGED <<next, cmdVars, threadVars, nxt, callVars,
                   status, cur_thread, cpu, irq>>

\* cur_thread = next, its status, and the context switch.  A thread whose
\* context was never saved, or NULL, has no stack to resume on.
LoopDispatch(c) ==
    /\ InLoop(c, "dispatch")
    /\ cur_thread' = [cur_thread EXCEPT ![c] = nxt[c]]
    /\ tstatus' = [tstatus EXCEPT ![nxt[c]] = "RUNNING"]
    /\ cpu' = [cpu EXCEPT ![c] = IF nxt[c] \in saved THEN nxt[c] ELSE Wild]
    /\ saved' = saved \ {nxt[c]}
    /\ place' = [place EXCEPT ![nxt[c]] = <<"cpu", c>>]
    /\ nxt' = [nxt EXCEPT ![c] = NULL]
    /\ LoopTo(c, "top")
    /\ UNCHANGED <<ready_list, next, queue_lock, stack, cmdVars, oom, callVars,
                   status, irq>>

\* Mutant of LoopReserve: the request is not consulted.
LoopReserveBlind(c) ==
    /\ InLoop(c, "reserve")
    /\ LoopTo(c, "ready")
    /\ UNCHANGED <<listVars, cmdVars, threadVars, nxt, callVars,
                   status, cur_thread, cpu, irq>>

\* Nothing to run: reserve_core is read, ...
LoopReserve(c) ==
    /\ InLoop(c, "reserve")
    /\ LoopTo(c, IF reserve_core[c] THEN "reserved" ELSE "ready")
    /\ UNCHANGED <<listVars, cmdVars, threadVars, nxt, callVars,
                   status, cur_thread, cpu, irq>>

\* ... and the status is written.
LoopStatus(c) ==
    /\ cpu[c] = Idle
    /\ \/ lpc[c] = "ready" /\ status' = [status EXCEPT ![c] = "READY"]
       \/ lpc[c] = "reserved" /\ status' = [status EXCEPT ![c] = "RESERVED"]
    /\ LoopTo(c, "idle")
    /\ UNCHANGED <<listVars, cmdVars, threadVars, nxt, callVars,
                   cur_thread, cpu, irq>>

\* sti delays interrupts for one instruction, so "sti; hlt" is one step: an
\* interrupt that is pending wakes the hlt.
LoopHalt(c) ==
    /\ InLoop(c, "idle")
    /\ LoopTo(c, "halt")
    /\ UNCHANGED <<listVars, cmdVars, threadVars, nxt, callVars,
                   status, cur_thread, cpu, irq>>

\* Mutant of LoopWoken: the status is not set back to RUNNING.
LoopWokenSilent(c) ==
    /\ InLoop(c, "woken")
    /\ LoopTo(c, "top")
    /\ UNCHANGED <<listVars, cmdVars, threadVars, nxt, callVars,
                   status, cur_thread, cpu, irq>>

LoopWoken(c) ==
    /\ InLoop(c, "woken")
    /\ status' = [status EXCEPT ![c] = "RUNNING"]
    /\ LoopTo(c, "top")
    /\ UNCHANGED <<listVars, cmdVars, threadVars, nxt, callVars,
                   cur_thread, cpu, irq>>

LoopStep(c) ==
    \/ LoopTop(c) \/ LoopLook(c) \/ LoopLock(c) \/ LoopAdvance(c)
    \/ LoopDispatch(c) \/ LoopReserve(c) \/ LoopStatus(c) \/ LoopHalt(c)
    \/ LoopWoken(c)

-----------------------------------------------------------------------------
(* Interrupts.  The wake-up IPI (vector 0x40) and the timer share one      *)
(* pending bit: both handlers only acknowledge, and a second pending       *)
(* vector has the effect of a later timer tick.                            *)

\* Mutant of Masked: the loop forgets its cli.
MaskedNever(c) ==
    cpu[c] \in Procs /\ ppc[cpu[c]] \in {"cmd_lock", "cmd_check", "cmd_wake"}

\* Interrupts are off from cli to sti in the loop, and between
\* spin_lock_irqsave and spin_unlock_irqrestore in a command.
Masked(c) ==
    \/ /\ cpu[c] = Idle
       /\ lpc[c] \in {"look", "reserve", "ready", "reserved", "idle", "stopped"}
    \/ cpu[c] \in Procs /\ ppc[cpu[c]] \in {"cmd_lock", "cmd_check", "cmd_wake"}

TakeInterrupt(c) ==
    /\ irq[c] /\ ~Masked(c)
    /\ irq' = [irq EXCEPT ![c] = FALSE]
    /\ LoopTo(c, IF InLoop(c, "halt") THEN "woken" ELSE lpc[c])
    /\ UNCHANGED <<listVars, cmdVars, threadVars, nxt, callVars,
                   status, cur_thread, cpu>>

\* Mutant of TimerTick: the timer was started with a count of zero.
TimerTickNever(c) ==
    /\ FALSE
    /\ UNCHANGED vars

TimerTick(c) ==
    /\ TimerOn
    /\ ~irq[c]
    /\ irq' = [irq EXCEPT ![c] = TRUE]
    /\ UNCHANGED <<listVars, cmdVars, threadVars, loopVars, callVars,
                   status, cur_thread, cpu>>

-----------------------------------------------------------------------------
(* Calls into smp.c made by the context p while it executes on some core.  *)

At(p, pc) == (\E c \in Cores : cpu[c] = p) /\ ppc[p] = pc
CallTo(p, pc) == ppc' = [ppc EXCEPT ![p] = pc]

\* The call returns; the values of its locals are forgotten.
Return(p) ==
    /\ CallTo(p, "run")
    /\ tgt' = [tgt EXCEPT ![p] = Bsp]
    /\ arg' = [arg EXCEPT ![p] = NULL]

\* Mutant of PushTask: the allocator hands out a thread_state that is in use.
PushTaskReused(p, c, t) ==
    /\ At(p, "run")
    /\ t \in Threads
    /\ place' = [place EXCEPT ![t] = <<"new", p>>]
    /\ saved' = saved \cup {t}
    /\ tstatus' = [tstatus EXCEPT ![t] = "READY"]
    /\ tgt' = [tgt EXCEPT ![p] = c]
    /\ arg' = [arg EXCEPT ![p] = t]
    /\ CallTo(p, "push_lock")
    /\ UNCHANGED <<ready_list, next, queue_lock, stack, cmdVars, oom, loopVars,
                   status, cur_thread, cpu, irq>>

\* smp_push_task and smp_push_task_bsp: create_thread builds a first context
\* on a new stack, or returns NULL, which the caller does not test.
PushTask(p, c, t) ==
    /\ At(p, "run")
    /\ \/ /\ t \in Threads /\ place[t] = Nowhere
          /\ place' = [place EXCEPT ![t] = <<"new", p>>]
          /\ saved' = saved \cup {t}
          /\ tstatus' = [tstatus EXCEPT ![t] = "READY"]
          /\ UNCHANGED oom
       \/ /\ AllocMayFail /\ t = NULL
          /\ oom' = TRUE
          /\ UNCHANGED <<place, saved, tstatus>>
    /\ tgt' = [tgt EXCEPT ![p] = c]
    /\ arg' = [arg EXCEPT ![p] = t]
    /\ CallTo(p, "push_lock")
    /\ UNCHANGED <<ready_list, next, queue_lock, stack, cmdVars, loopVars,
                   status, cur_thread, cpu, irq>>

\* smp_yield on core c; a context whose core believes it idle returns at once.
Yield(p, c) ==
    /\ At(p, "run") /\ cpu[c] = p
    /\ cur_thread[c] # Idle
    /\ tstatus' = [tstatus EXCEPT ![cur_thread[c]] = "READY"]
    /\ tgt' = [tgt EXCEPT ![p] = c]
    /\ arg' = [arg EXCEPT ![p] = cur_thread[c]]
    /\ CallTo(p, "yield_lock")
    /\ UNCHANGED <<listVars, cmdVars, saved, oom, loopVars,
                   status, cur_thread, cpu, irq>>

\* spin_lock(&queue_lock); thread->next = ready_list.
LockQueue(p) ==
    /\ \/ At(p, "push_lock") /\ CallTo(p, "push_link")
       \/ At(p, "yield_lock") /\ CallTo(p, "yield_link")
    /\ ~queue_lock[tgt[p]]
    /\ queue_lock' = [queue_lock EXCEPT ![tgt[p]] = TRUE]
    /\ next' = [next EXCEPT ![arg[p]] = ready_list[tgt[p]]]
    /\ UNCHANGED <<ready_list, stack, place, cmdVars, threadVars, loopVars, tgt, arg,
                   status, cur_thread, cpu, irq>>

\* ready_list = thread; spin_unlock(&queue_lock).
Link(p) ==
    /\ \/ At(p, "push_link") /\ CallTo(p, "push_check")
       \/ At(p, "yield_link") /\ CallTo(p, "yield_switch")
    /\ ready_list' = [ready_list EXCEPT ![tgt[p]] = arg[p]]
    /\ queue_lock' = [queue_lock EXCEPT ![tgt[p]] = FALSE]
    /\ stack' = [stack EXCEPT ![tgt[p]] =
                    IF arg[p] = NULL THEN <<>> ELSE Append(@, arg[p])]
    /\ place' = [place EXCEPT ![arg[p]] = <<"ready", tgt[p]>>]
    /\ UNCHANGED <<next, cmdVars, threadVars, loopVars, tgt, arg,
                   status, cur_thread, cpu, irq>>

\* cur_thread = idle and the switch back into the loop, just after its call
\* of thread_context_switch.
YieldSwitch(p) ==
    /\ At(p, "yield_switch")
    /\ cur_thread' = [cur_thread EXCEPT ![tgt[p]] = Idle]
    /\ saved' = saved \cup {arg[p]}
    /\ cpu' = [cpu EXCEPT ![tgt[p]] = Idle]
    /\ Return(p)
    /\ UNCHANGED <<listVars, cmdVars, tstatus, oom, loopVars, status, irq>>

\* smp_reserve_core (v = TRUE) and smp_unreserve_core (v = FALSE): interrupts
\* go off, then the command lock is taken and the flag set.  Which of the two
\* was called is left open until the flag is written.
Command(p, c) ==
    /\ At(p, "run") /\ p \in Commanders
    /\ tgt' = [tgt EXCEPT ![p] = c]
    /\ CallTo(p, "cmd_lock")
    /\ UNCHANGED <<listVars, cmdVars, threadVars, loopVars, arg,
                   status, cur_thread, cpu, irq>>

SetReserve(p, v) ==
    /\ At(p, "cmd_lock")
    /\ ~command_lock[tgt[p]]
    /\ command_lock' = [command_lock EXCEPT ![tgt[p]] = TRUE]
    /\ reserve_core' = [reserve_core EXCEPT ![tgt[p]] = v]
    /\ CallTo(p, "cmd_check")
    /\ UNCHANGED <<listVars, shutdown_core, threadVars, loopVars, tgt, arg,
                   status, cur_thread, cpu, irq>>

\* The unlocked test target->status != RUNNING.  A command that sends no
\* IPI releases its lock here.
CheckStatus(p) ==
    /\ \/ At(p, "push_check") /\ UNCHANGED command_lock
       \/ /\ At(p, "cmd_check")
          /\ command_lock' = [command_lock EXCEPT ![tgt[p]] = status[tgt[p]] # "RUNNING"]
    /\ \/ /\ status[tgt[p]] # "RUNNING"
          /\ CallTo(p, IF ppc[p] = "push_check" THEN "push_wake" ELSE "cmd_wake")
          /\ UNCHANGED <<tgt, arg>>
       \/ status[tgt[p]] = "RUNNING" /\ Return(p)
    /\ UNCHANGED <<listVars, reserve_core, shutdown_core, threadVars, loopVars,
                   status, cur_thread, cpu, irq>>

\* send_wakeup_ipi(target->lapic_id, 0x40).
SendWakeup(p) ==
    /\ \/ At(p, "push_wake") /\ UNCHANGED command_lock
       \/ At(p, "cmd_wake") /\ command_lock' = [command_lock EXCEPT ![tgt[p]] = FALSE]
    /\ irq' = [irq EXCEPT ![tgt[p]] = TRUE]
    /\ Return(p)
    /\ UNCHANGED <<listVars, reserve_core, shutdown_core, threadVars, loopVars,
                   status, cur_thread, cpu>>

\* The rest of a call, once it has begun.
CallStep(p) ==
    \/ LockQueue(p) \/ Link(p) \/ YieldSwitch(p)
    \/ \E v \in BOOLEAN : SetReserve(p, v)
    \/ CheckStatus(p) \/ SendWakeup(p)

Call(p) ==
    \/ \E c \in Cores, t \in Threads \cup {NULL} : PushTask(p, c, t)
    \/ \E c \in Cores : Yield(p, c) \/ Command(p, c)

-----------------------------------------------------------------------------
Next ==
    \/ \E c \in APs : LoopStep(c) \/ TakeInterrupt(c) \/ TimerTick(c)
    \/ \E p \in Procs : Call(p) \/ CallStep(p)

Spec == Init /\ [][Next]_vars

-----------------------------------------------------------------------------
(* Safety *)

\* Who is inside the critical section of core c's queue lock.
InQueue(c) ==
    {p \in Procs : ppc[p] \in {"push_link", "yield_link"} /\ tgt[p] = c}
        \cup {x \in {Idle} : c \in APs /\ lpc[c] = "advance"}

(* The link words of a ready list are touched by one context at a time,    *)
(* and the lock is taken exactly while one is at work: the three copies of *)
(* the enqueue sequence (smp_yield, smp_push_task, smp_push_task_bsp) and  *)
(* the loop's pop pair every acquire with one release.                     *)
QueueMutex ==
    \A c \in Cores :
        /\ \A x, y \in InQueue(c) : x = y
        /\ queue_lock[c] <=> InQueue(c) # {}

\* What following the pointers from core c's head shall give: head last.
Spells(c) ==
    /\ ready_list[c] = IF stack[c] = <<>> THEN NULL ELSE stack[c][Len(stack[c])]
    /\ \A i \in 1..Len(stack[c]) :
          next[stack[c][i]] = IF i = 1 THEN NULL ELSE stack[c][i - 1]

(* As long as no create_thread has failed, every ready list is a proper    *)
(* NULL-terminated chain of the threads pushed on it and not yet popped,   *)
(* whatever pushers on other cores interleave with the core's own pop,     *)
(* whose first test of the list takes no lock.                             *)
ListsIntact == ~oom => \A c \in Cores : Spells(c)

InHand(p) == ppc[p] \in {"push_lock", "push_link"}

(* No thread is lost and none is in two places: what place says of it is   *)
(* what the lists, the locals of the calls and loops, and the CPUs hold,   *)
(* and it is on its list once.  A thread that yields counts as ready from  *)
(* the moment it has linked itself, while it still executes.               *)
OnePlace ==
    ~oom => \A t \in Threads :
      /\ \A p \in Procs : place[t] = <<"new", p>> <=> InHand(p) /\ arg[p] = t
      /\ \A c \in Cores :
           /\ place[t] = <<"ready", c>> <=> \E i \in 1..Len(stack[c]) : stack[c][i] = t
           /\ \A i, j \in 1..Len(stack[c]) :
                stack[c][i] = t /\ stack[c][j] = t => i = j
           /\ place[t] = <<"cpu", c>> <=> cpu[c] = t /\ ppc[t] # "yield_switch"
      /\ \A c \in APs : place[t] = <<"popped", c>> <=> lpc[c] = "dispatch" /\ nxt[c] = t

(* A core never switches to NULL or to a thread whose registers were not   *)
(* saved, although a yielding thread is on the ready list before           *)
(* thread_context_switch has stored its rsp, and although the list is      *)
(* tested and popped in two steps.                                         *)
NeverWild == \A c \in Cores : cpu[c] = Wild => oom

(* No context executes on two CPUs, even after create_thread has failed    *)
(* and a NULL was linked.                                                  *)
OneCpu ==
    \A c, d \in Cores : c # d /\ cpu[c] = cpu[d] => cpu[c] \in {Idle, Wild}

(* A core that smp_get_first_free_core can return, or that reports itself  *)
(* reserved, is in its idle context, and cur_thread says so.               *)
FreeCoreIsIdle ==
    \A c \in Cores : status[c] # "RUNNING" =>
        cpu[c] = Idle /\ cur_thread[c] = Idle /\ lpc[c] \in {"idle", "halt", "woken"}

-----------------------------------------------------------------------------
(* The scheduler implements CoreTasks: smp_push_task submits a thread when *)
(* it links it, smp_yield gives up the core at the same point, and the     *)
(* loop's context switch dispatches.                                       *)

Where(x) == CASE x[1] \in {"none", "new"} -> <<"none", NULL>>
              [] x[1] \in {"ready", "popped"} -> <<"ready", x[2]>>
              [] x[1] = "cpu" -> <<"running", x[2]>>

Abstract == INSTANCE CoreTasks WITH
    Tasks <- Threads, Cores <- Cores, Schedulers <- APs, NoCore <- NULL,
    where <- [t \in Threads |-> Where(place[t])]

(* When no allocation fails, every step of the scheduler is a step of      *)
(* CoreTasks or leaves every thread where it was.                          *)
ImplementsTasks == Abstract!Spec

-----------------------------------------------------------------------------
(* Liveness.  Each CPU executes its instructions and takes the interrupts  *)
(* that are pending and not masked; a call that has begun goes on while    *)
(* its context executes.  Nothing obliges anyone to begin a call.          *)

CpuFairness ==
    /\ \A c \in APs : WF_vars(LoopStep(c)) /\ WF_vars(TakeInterrupt(c))
    /\ \A p \in Procs : WF_vars(CallStep(p))

\* A calibrated periodic timer keeps firing.
TimerFairness == \A c \in APs : WF_vars(TimerTick(c))

FairSpec == Spec /\ CpuFairness

(* A pusher that saw the core not RUNNING gets it to run a thread, whether *)
(* or not the timer ever fires: the IPI cannot fall between the loop's     *)
(* last look at the list and its hlt.                                      *)
SeenIdleIsWoken ==
    \A c \in APs :
        (\E p \in Procs : ppc[p] = "push_wake" /\ tgt[p] = c) ~> cpu[c] \in Threads

(* With the timer the scheduler keeps the promise of CoreTasks that a core *)
(* with ready threads and none running takes one, also when the pusher     *)
(* read RUNNING between the loop's last look at the list and its hlt and   *)
(* sent no IPI.                                                            *)
ImplementsFairTasks == TimerFairness => Abstract!Fairness

(* With the timer, a reservation that stands is seen: the core stops being *)
(* offered by smp_get_first_free_core.                                     *)
ReserveIsSeen ==
    TimerFairness => \A c \in APs : (<>[]reserve_core[c]) => <>[](status[c] # "READY")
=============================================================================
