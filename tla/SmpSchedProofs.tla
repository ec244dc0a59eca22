--------------------------- MODULE SmpSchedProofs ---------------------------
(* Proofs about the scheduler, for any number of cores, callers and threads. *)
EXTENDS SmpSched, SequenceTheorems, TLAPS

-----------------------------------------------------------------------------
(* Type correctness.  The thread that a yield saves is not NULL: a core    *)
(* whose cur_thread is NULL executes garbage and calls nothing.            *)

YieldsThread ==
    /\ \A c \in Cores : cur_thread[c] = NULL => cpu[c] = Wild
    /\ \A p \in Procs :
         ppc[p] \in {"yield_lock", "yield_link", "yield_switch"} => arg[p] \in Threads

Types == TypeOK /\ YieldsThread

LEMMA FrontType ==
    ASSUME NEW s \in Seq(Threads), s # <<>>
    PROVE  /\ SubSeq(s, 1, Len(s) - 1) \in Seq(Threads)
           /\ Len(SubSeq(s, 1, Len(s) - 1)) = Len(s) - 1
           /\ \A i \in 1..(Len(s) - 1) : SubSeq(s, 1, Len(s) - 1)[i] = s[i]
<1>1. PICK n \in Nat \ {0} : n = Len(s)
  BY EmptySeq
<1>2. \A i \in 1..(n - 1) : s[i] \in Threads
  BY <1>1, LenProperties
<1>3. /\ SubSeq(s, 1, n - 1) \in Seq(Threads)
      /\ Len(SubSeq(s, 1, n - 1)) = IF 1 <= n - 1 THEN (n - 1) - 1 + 1 ELSE 0
      /\ \A i \in 1..((n - 1) - 1 + 1) : SubSeq(s, 1, n - 1)[i] = s[1 + i - 1]
  BY <1>2, SubSeqProperties
<1>4. (IF 1 <= n - 1 THEN (n - 1) - 1 + 1 ELSE 0) = n - 1
  OBVIOUS
<1>5. (n - 1) - 1 + 1 = n - 1 /\ \A i \in 1..(n - 1) : 1 + i - 1 = i
  OBVIOUS
<1> QED
  BY <1>1, <1>3, <1>4, <1>5

LEMMA LoopType ==
    ASSUME Types, NEW c \in APs, LoopStep(c) \/ TakeInterrupt(c) \/ TimerTick(c)
    PROVE  Types'
<1> USE ConstantsAssumption DEF Types, TypeOK, YieldsThread, Cores, Procs, LoopPc, InLoop, LoopTo,
        listVars, cmdVars, threadVars, loopVars, callVars, Places, Nowhere
<1>1. CASE LoopTop(c)
  BY <1>1 DEF LoopTop
<1>2. CASE LoopLook(c)
  BY <1>2 DEF LoopLook
<1>3. CASE LoopLock(c)
  BY <1>3 DEF LoopLock
<1>4. CASE LoopAdvance(c)
  <2>1. stack' \in [Cores -> Seq(Threads)]
    BY <1>4, FrontType DEF LoopAdvance
  <2>2. place' \in [Threads \cup {NULL} -> Places]
    BY <1>4 DEF LoopAdvance
  <2> QED
    BY <1>4, <2>1, <2>2 DEF LoopAdvance
<1>5. CASE LoopDispatch(c)
  BY <1>5 DEF LoopDispatch
<1>6. CASE LoopReserve(c)
  BY <1>6 DEF LoopReserve
<1>7. CASE LoopStatus(c)
  BY <1>7 DEF LoopStatus
<1>7a. CASE LoopHalt(c)
  BY <1>7a DEF LoopHalt
<1>8. CASE LoopWoken(c)
  BY <1>8 DEF LoopWoken
<1>9. CASE TakeInterrupt(c)
  BY <1>9 DEF TakeInterrupt
<1>10. CASE TimerTick(c)
  BY <1>10 DEF TimerTick
<1> QED
  BY <1>1, <1>2, <1>3, <1>4, <1>5, <1>6, <1>7, <1>7a, <1>8, <1>9, <1>10 DEF LoopStep

LEMMA CallType ==
    ASSUME Types, NEW p \in Procs, Call(p) \/ CallStep(p)
    PROVE  Types'
<1> USE ConstantsAssumption DEF Types, TypeOK, YieldsThread, Cores, Procs, CallPc, At, CallTo, Return,
        listVars, cmdVars, threadVars, loopVars, callVars, Places, Nowhere
<1>1. ASSUME NEW c \in Cores, NEW t \in Threads \cup {NULL}, PushTask(p, c, t)
      PROVE  Types'
  <2>1. CASE t = NULL
    BY <1>1, <2>1 DEF PushTask
  <2>2. CASE t \in Threads
    <3>1. place' \in [Threads \cup {NULL} -> Places]
      BY <1>1, <2>2 DEF PushTask
    <3> QED
      BY <1>1, <2>2, <3>1 DEF PushTask
  <2> QED
    BY <2>1, <2>2
<1>2. ASSUME NEW c \in Cores, Yield(p, c)
      PROVE  Types'
  BY <1>2 DEF Yield
<1>3. ASSUME NEW c \in Cores, Command(p, c)
      PROVE  Types'
  BY <1>3 DEF Command
<1>4. CASE LockQueue(p)
  <2>1. next' \in [Threads \cup {NULL} -> Threads \cup {NULL}]
    BY <1>4 DEF LockQueue
  <2>2. ppc' \in [Procs -> CallPc]
    BY <1>4 DEF LockQueue
  <2>3. TypeOK'
    BY <1>4, <2>1, <2>2 DEF LockQueue
  <2>4. YieldsThread'
    BY <1>4 DEF LockQueue
  <2> QED
    BY <2>3, <2>4
<1>5. CASE Link(p)
  <2>1. stack' \in [Cores -> Seq(Threads)]
    BY <1>5, AppendProperties, EmptySeq DEF Link
  <2> QED
    BY <1>5, <2>1 DEF Link
<1>6. CASE YieldSwitch(p)
  BY <1>6 DEF YieldSwitch
<1>7. ASSUME NEW v \in BOOLEAN, SetReserve(p, v)
      PROVE  Types'
  BY <1>7 DEF SetReserve
<1>8. CASE CheckStatus(p)
  <2>1. ppc' \in [Procs -> CallPc] /\ tgt' \in [Procs -> Cores]
            /\ arg' \in [Procs -> Threads \cup {NULL}]
    <3>1. CASE status[tgt[p]] = "RUNNING"
      <4>1. /\ ppc' = [ppc EXCEPT ![p] = "run"]
            /\ tgt' = [tgt EXCEPT ![p] = Bsp]
            /\ arg' = [arg EXCEPT ![p] = NULL]
        BY <1>8, <3>1, Zenon DEF CheckStatus
      <4> QED
        BY <4>1
    <3>2. CASE status[tgt[p]] # "RUNNING"
      <4>1. \E pc \in CallPc : ppc' = [ppc EXCEPT ![p] = pc]
        BY <1>8, <3>2 DEF CheckStatus
      <4> QED
        BY <1>8, <3>2, <4>1 DEF CheckStatus
    <3> QED
      BY <3>1, <3>2
  <2>2. PICK b \in BOOLEAN :
            command_lock' \in {command_lock, [command_lock EXCEPT ![tgt[p]] = b]}
    <3>1. (status[tgt[p]] # "RUNNING") \in BOOLEAN
      OBVIOUS
    <3>2. command_lock' \in {command_lock,
              [command_lock EXCEPT ![tgt[p]] = status[tgt[p]] # "RUNNING"]}
      BY <1>8 DEF CheckStatus
    <3> QED
      BY <3>1, <3>2, Zenon
  <2>3. command_lock' \in [Cores -> BOOLEAN]
    BY <2>2
  <2>4. TypeOK'
    BY <1>8, <2>1, <2>3 DEF CheckStatus
  <2>5. YieldsThread'
    BY <1>8 DEF CheckStatus
  <2> QED
    BY <2>4, <2>5
<1>9. CASE SendWakeup(p)
  BY <1>9 DEF SendWakeup
<1> QED
  BY <1>1, <1>2, <1>3, <1>4, <1>5, <1>6, <1>7, <1>8, <1>9 DEF Call, CallStep

LEMMA TypesHold == Spec => []Types
<1>1. Init => Types
  <2> SUFFICES ASSUME Init PROVE Types
    OBVIOUS
  <2> USE ConstantsAssumption
      DEF Init, TypeOK, Cores, Procs, LoopPc, CallPc, Places, Nowhere
  <2>1. stack \in [Cores -> Seq(Threads)]
    BY EmptySeq
  <2>2. place \in [Threads \cup {NULL} -> Places]
    OBVIOUS
  <2>3. TypeOK
    BY <2>1, <2>2
  <2>4. YieldsThread
    BY DEF YieldsThread
  <2> QED
    BY <2>3, <2>4 DEF Types
<1>2. Types /\ [Next]_vars => Types'
  <2> SUFFICES ASSUME Types, [Next]_vars PROVE Types'
    OBVIOUS
  <2>1. CASE Next
    BY <2>1, LoopType, CallType DEF Next
  <2>2. CASE UNCHANGED vars
    BY <2>2 DEF vars, Types, TypeOK, YieldsThread,
                listVars, cmdVars, threadVars, loopVars, callVars
  <2> QED
    BY <2>1, <2>2
<1> QED
  BY <1>1, <1>2, PTL DEF Spec

(* The scheduler's variables keep their types, the pointers included: a    *)
(* list head and a link are threads or NULL, whatever was linked.          *)
THEOREM TypeCorrect == Spec => []TypeOK
<1>1. Types => TypeOK
  BY DEF Types
<1> QED
  BY <1>1, TypesHold, PTL

-----------------------------------------------------------------------------
(* Mutual exclusion of the queue locks. *)

LEMMA QueueMutexInit == Init => QueueMutex
  BY ConstantsAssumption DEF Init, QueueMutex, InQueue, Cores, Procs

LEMMA QueueMutexStep == Types /\ QueueMutex /\ [Next]_vars => QueueMutex'
<1> SUFFICES ASSUME Types, QueueMutex, [Next]_vars PROVE QueueMutex'
  OBVIOUS
<1> USE ConstantsAssumption DEF QueueMutex, InQueue
<1>0. Idle \notin Procs /\ Bsp \notin APs
  BY DEF Procs
<1>1. ASSUME NEW c \in APs, LoopLock(c)
      PROVE  QueueMutex'
  BY <1>0, <1>1 DEF LoopLock, InLoop, LoopTo, callVars, Types, TypeOK, Cores
<1>2. ASSUME NEW c \in APs, LoopAdvance(c)
      PROVE  QueueMutex'
  BY <1>0, <1>2 DEF LoopAdvance, InLoop, LoopTo, callVars, Types, TypeOK, Cores
<1>3. ASSUME NEW c \in APs,
             LoopTop(c) \/ LoopLook(c) \/ LoopDispatch(c) \/ LoopReserve(c)
               \/ LoopStatus(c) \/ LoopHalt(c) \/ LoopWoken(c) \/ TakeInterrupt(c) \/ TimerTick(c)
      PROVE  QueueMutex'
  <2>1. /\ UNCHANGED <<queue_lock, ppc, tgt>>
        /\ \A d \in APs : lpc'[d] = "advance" <=> lpc[d] = "advance"
    BY <1>3 DEF LoopTop, LoopLook, LoopDispatch, LoopReserve, LoopStatus, LoopHalt, LoopWoken,
         TakeInterrupt, TimerTick, InLoop, LoopTo, Types, TypeOK,
         listVars, callVars, loopVars
  <2> QED
    BY <2>1
<1>4. ASSUME NEW p \in Procs, LockQueue(p)
      PROVE  QueueMutex'
  <2>1. /\ UNCHANGED <<lpc, tgt>>
        /\ ~queue_lock[tgt[p]]
        /\ queue_lock' = [queue_lock EXCEPT ![tgt[p]] = TRUE]
        /\ tgt[p] \in Cores
        /\ ppc'[p] \in {"push_link", "yield_link"}
        /\ \A q \in Procs : q # p => ppc'[q] = ppc[q]
    BY <1>4 DEF LockQueue, At, CallTo, loopVars, Types, TypeOK
  <2>2. InQueue(tgt[p])' = {p}
    BY <1>0, <2>1
  <2>3. \A c \in Cores : c # tgt[p] => InQueue(c)' = InQueue(c) /\ queue_lock'[c] = queue_lock[c]
    BY <2>1 DEF Types, TypeOK
  <2>4. queue_lock'[tgt[p]] = TRUE
    BY <2>1 DEF Types, TypeOK
  <2> HIDE DEF InQueue
  <2>5. tgt'[p] = tgt[p]
    BY <2>1
  <2>6. \A x, y \in {p} : x = y
    OBVIOUS
  <2> SUFFICES ASSUME NEW c \in Cores
               PROVE  /\ \A x, y \in InQueue(c)' : x = y
                      /\ queue_lock'[c] <=> InQueue(c)' # {}
    BY DEF QueueMutex
  <2>7. CASE c = tgt[p]
    BY <2>2, <2>4, <2>5, <2>6, <2>7
  <2>8. CASE c # tgt[p]
    BY <2>3, <2>8
  <2> QED
    BY <2>7, <2>8
<1>5. ASSUME NEW p \in Procs, Link(p)
      PROVE  QueueMutex'
  BY <1>0, <1>5 DEF Link, At, CallTo, loopVars, Types, TypeOK
<1>6. ASSUME NEW p \in Procs,
             \/ \E c \in Cores, t \in Threads \cup {NULL} : PushTask(p, c, t)
             \/ \E c \in Cores : Yield(p, c) \/ Command(p, c)
             \/ YieldSwitch(p) \/ \E v \in BOOLEAN : SetReserve(p, v)
             \/ CheckStatus(p) \/ SendWakeup(p)
      PROVE  QueueMutex'
  <2>1. /\ UNCHANGED <<queue_lock, lpc>>
        /\ \A q \in Procs : q # p => ppc'[q] = ppc[q] /\ tgt'[q] = tgt[q]
        /\ ppc[p] \notin {"push_link", "yield_link"}
        /\ ppc'[p] \notin {"push_link", "yield_link"}
    BY <1>6 DEF PushTask, Yield, Command, YieldSwitch, SetReserve, CheckStatus,
         SendWakeup, At, CallTo, Return, Types, TypeOK, listVars, loopVars
  <2> QED
    BY <2>1
<1>7. CASE UNCHANGED vars
  BY <1>7 DEF vars, listVars, loopVars, callVars
<1> QED
  BY <1>1, <1>2, <1>3, <1>4, <1>5, <1>6, <1>7
     DEF Next, LoopStep, Call, CallStep

(* At most one context works on the links of a core's ready list, and the  *)
(* lock word says whether one does, for any number of pushers.             *)
THEOREM QueueMutexHolds == Spec => []QueueMutex
<1>1. Init => QueueMutex
  BY QueueMutexInit
<1>2. Types /\ QueueMutex /\ [Next]_vars => QueueMutex'
  BY QueueMutexStep
<1> QED
  BY <1>1, <1>2, TypesHold, PTL DEF Spec

-----------------------------------------------------------------------------
(* What the calls are doing. *)

Linking(p) == ppc[p] \in {"push_link", "yield_link"}
Yielding(p) == ppc[p] \in {"yield_lock", "yield_link", "yield_switch"}

\* A yield is about the context that makes it.
YieldInv(p) ==
    /\ Yielding(p) => p \in Threads /\ arg[p] = p /\ cpu[tgt[p]] = p
    /\ ppc[p] = "yield_switch" => place[p] = <<"ready", tgt[p]>>

-----------------------------------------------------------------------------
(* No context on two CPUs, whatever was linked.                            *)
(*                                                                         *)
(* A NULL on a list hides what is below it: the core that pops it switches *)
(* to garbage and pops nothing more.  So the chain of a core is followed   *)
(* only as far as stack spells it, from the head down to the first NULL,   *)
(* and only while the core has not popped a NULL.                          *)

\* What a context is about to link is its own, and points at the head.
HoldsInv(p) ==
    /\ InHand(p) /\ arg[p] \in Threads => place[arg[p]] = <<"new", p>>
    /\ Linking(p) /\ arg[p] \in Threads => next[arg[p]] = ready_list[tgt[p]]

\* The thread on a CPU is the one cur_thread names, and is nowhere else.
RunsInv(c) ==
    /\ cpu[c] = Main <=> c = Bsp
    /\ c = Bsp => cur_thread[c] = Idle
    /\ cpu[c] \in Threads =>
         /\ cur_thread[c] = cpu[c]
         /\ ppc[cpu[c]] = "yield_switch" => tgt[cpu[c]] = c
         /\ ppc[cpu[c]] # "yield_switch" => place[cpu[c]] = <<"cpu", c>>

PopsInv(c) ==
    /\ lpc[c] # "top" => cpu[c] = Idle
    /\ lpc[c] = "advance" => nxt[c] = ready_list[c]
    /\ lpc[c] = "dispatch" /\ nxt[c] \in Threads => place[nxt[c]] = <<"popped", c>>

Pops(c) == cpu[c] # Wild /\ (lpc[c] = "dispatch" => nxt[c] # NULL)

\* The threads above the first NULL of a list are ready there, each once.
AboveInv(c) ==
    /\ Spells(c)
    /\ \A i \in 1..Len(stack[c]) : place[stack[c][i]] = <<"ready", c>>
    /\ \A i, j \in 1..Len(stack[c]) : stack[c][i] = stack[c][j] => i = j

Kept ==
    /\ \A p \in Procs : YieldInv(p) /\ HoldsInv(p)
    /\ \A c \in Cores : RunsInv(c)
    /\ \A c \in APs : PopsInv(c) /\ (Pops(c) => AboveInv(c))

\* A thread on a CPU, in a hand or popped is on no list that is followed.
LEMMA NotAbove ==
    ASSUME Types, Kept, NEW c \in APs, Pops(c), NEW i \in 1..Len(stack[c])
    PROVE  stack[c][i] \in Threads /\ place[stack[c][i]] = <<"ready", c>>
<1>1. stack[c] \in Seq(Threads)
  BY DEF Types, TypeOK, Cores
<1> QED
  BY <1>1, ElementOfSeq DEF Kept, AboveInv

\* AboveInv reads the list, the links and the places of its threads.
LEMMA AboveSame ==
    ASSUME Types, Kept, NEW c \in APs, Pops(c),
           ready_list'[c] = ready_list[c], stack'[c] = stack[c],
           \A t \in Threads : place[t] = <<"ready", c>> =>
               place'[t] = place[t] /\ next'[t] = next[t]
    PROVE  AboveInv(c)'
<1>1. ASSUME NEW i \in 1..Len(stack[c])
      PROVE  /\ place'[stack[c][i]] = <<"ready", c>>
             /\ next'[stack[c][i]] = next[stack[c][i]]
  BY <1>1, NotAbove
<1>2. AboveInv(c)
  BY DEF Kept
<1>3. Spells(c)'
  BY <1>1, <1>2 DEF AboveInv, Spells
<1> QED
  BY <1>1, <1>2, <1>3 DEF AboveInv

\* The owner of what is to be linked.
LEMMA ToLink ==
    ASSUME Types, Kept, NEW p \in Procs,
           ppc[p] \in {"push_lock", "push_link", "yield_lock", "yield_link"},
           arg[p] \in Threads
    PROVE  /\ tgt[p] \in Cores
           /\ InHand(p) => place[arg[p]] = <<"new", p>>
           /\ ~InHand(p) => arg[p] = p /\ cpu[tgt[p]] = p /\ place[p] = <<"cpu", tgt[p]>>
<1>1. YieldInv(p) /\ HoldsInv(p) /\ tgt[p] \in Cores
  BY DEF Kept, Types, TypeOK
<1>2. ~InHand(p) => /\ p \in Threads /\ arg[p] = p /\ cpu[tgt[p]] = p
                    /\ ppc[p] # "yield_switch"
  BY <1>1 DEF InHand, YieldInv, Yielding
<1>3. RunsInv(tgt[p])
  BY <1>1 DEF Kept
<1> QED
  BY <1>1, <1>2, <1>3 DEF HoldsInv, RunsInv

LEMMA KeptInit == Init => Kept
<1> SUFFICES ASSUME Init PROVE Kept
  OBVIOUS
<1>0. /\ NULL \notin Threads /\ Main \notin Threads /\ Idle \notin Threads /\ Idle # Main
      /\ Bsp \notin APs
  BY ConstantsAssumption DEF Procs
<1>1. \A p \in Procs : YieldInv(p) /\ HoldsInv(p)
  BY <1>0 DEF Init, YieldInv, HoldsInv, InHand, Yielding, Linking
<1>2. \A c \in Cores : RunsInv(c)
  BY <1>0 DEF Init, RunsInv
<1>3. \A c \in APs : PopsInv(c)
  BY <1>0 DEF Init, PopsInv
<1>4. \A c \in Cores : stack[c] = <<>> /\ Len(stack[c]) = 0
  BY DEF Init
<1>5. \A c \in APs : AboveInv(c)
  BY <1>4 DEF Init, AboveInv, Spells, Cores
<1> QED
  BY <1>1, <1>2, <1>3, <1>5 DEF Kept

\* Steps of a loop that touch neither the list nor the CPU.
LEMMA KeptQuietLoop ==
    ASSUME Types, Kept, NEW c \in APs,
           \/ LoopTop(c) \/ LoopLook(c) \/ LoopLock(c) \/ LoopReserve(c) \/ LoopStatus(c)
           \/ LoopHalt(c) \/ LoopWoken(c) \/ TakeInterrupt(c) \/ TimerTick(c)
    PROVE  Kept'
<1>1. UNCHANGED <<ready_list, next, stack, place, threadVars, callVars, cur_thread, cpu>>
  BY DEF LoopTop, LoopLook, LoopLock, LoopReserve, LoopStatus, LoopHalt, LoopWoken, TakeInterrupt,
         TimerTick, loopVars, listVars
<1>2. ASSUME NEW d \in APs
      PROVE  /\ lpc'[d] = "dispatch" <=> lpc[d] = "dispatch"
             /\ lpc[d] = "dispatch" => nxt'[d] = nxt[d]
             /\ lpc'[d] # "top" => cpu[d] = Idle
             /\ lpc'[d] = "advance" => nxt'[d] = ready_list[d]
  <2>1. PopsInv(d)
    BY DEF Kept
  <2> QED
    BY <2>1 DEF PopsInv, LoopTop, LoopLook, LoopLock, LoopReserve, LoopStatus, LoopHalt, LoopWoken,
           TakeInterrupt, TimerTick, InLoop, LoopTo, Types, TypeOK, loopVars
<1>3. \A p \in Procs : YieldInv(p)' /\ HoldsInv(p)'
  BY <1>1 DEF Kept, YieldInv, HoldsInv, InHand, Linking, Yielding, callVars
<1>4. \A d \in Cores : RunsInv(d)'
  BY <1>1 DEF Kept, RunsInv, callVars
<1>5. \A d \in APs : PopsInv(d)'
  BY <1>1, <1>2 DEF Kept, PopsInv
<1>6. ASSUME NEW d \in APs, Pops(d)' PROVE AboveInv(d)'
  <2>1. Pops(d)
    BY <1>1, <1>2, <1>6 DEF Pops
  <2> QED
    BY <1>1, <2>1, AboveSame
<1> QED
  BY <1>3, <1>4, <1>5, <1>6 DEF Kept

\* The pop.  A popped NULL ends it: what the list then holds is not followed.
LEMMA KeptAdvance ==
    ASSUME Types, Kept, QueueMutex, NEW c \in APs, LoopAdvance(c)
    PROVE  Kept'
<1>0. /\ c \in Cores /\ Idle \notin Procs /\ Idle \notin Threads /\ NULL \notin Threads
      /\ Idle # Wild
  BY ConstantsAssumption DEF Cores, Procs
<1>1. /\ UNCHANGED <<next, threadVars, callVars, nxt, cur_thread, cpu>>
      /\ lpc[c] = "advance" /\ cpu[c] = Idle
  BY DEF LoopAdvance, InLoop
<1>2. /\ Pops(c) /\ nxt[c] = ready_list[c] /\ AboveInv(c)
      /\ nxt[c] \in Threads \cup {NULL} /\ stack[c] \in Seq(Threads)
  BY <1>0, <1>1 DEF Kept, PopsInv, Pops, Types, TypeOK
<1>3. /\ \A t \in Threads : place'[t] = IF t = nxt[c] THEN <<"popped", c>> ELSE place[t]
      /\ \A d \in Cores : d # c => ready_list'[d] = ready_list[d] /\ stack'[d] = stack[d]
      /\ ready_list'[c] = next[nxt[c]]
      /\ \A d \in APs : lpc'[d] = IF d = c THEN "dispatch" ELSE lpc[d]
  BY <1>0, <1>2 DEF LoopAdvance, LoopTo, Types, TypeOK
<1>4. nxt[c] \in Threads => place[nxt[c]] = <<"ready", c>> /\ stack[c] # <<>>
  <2> SUFFICES ASSUME nxt[c] \in Threads
               PROVE  place[nxt[c]] = <<"ready", c>> /\ stack[c] # <<>>
    OBVIOUS
  <2>1. stack[c] # <<>> /\ nxt[c] = stack[c][Len(stack[c])]
    BY <1>0, <1>2 DEF AboveInv, Spells
  <2>2. Len(stack[c]) \in 1..Len(stack[c])
    BY <1>2, <2>1, EmptySeq
  <2> QED
    BY <1>2, <2>1, <2>2 DEF AboveInv
<1>5. \A p \in Procs : YieldInv(p)'
  <2> SUFFICES ASSUME NEW p \in Procs PROVE YieldInv(p)'
    OBVIOUS
  <2>1. YieldInv(p) /\ (p = nxt[c] => ppc[p] # "yield_switch")
    <3>1. YieldInv(p)
      BY DEF Kept
    <3>2. ASSUME p = nxt[c], ppc[p] = "yield_switch" PROVE FALSE
      <4>1. p \in Threads /\ cpu[tgt[p]] = p /\ place[p] = <<"ready", tgt[p]>>
        BY <3>1, <3>2 DEF YieldInv, Yielding
      <4>2. tgt[p] = c
        BY <1>4, <3>2, <4>1
      <4> QED
        BY <1>0, <1>1, <4>1, <4>2
    <3> QED
      BY <3>1, <3>2
  <2> QED
    BY <1>1, <1>3, <2>1 DEF YieldInv, Yielding, callVars
<1>6. \A p \in Procs : HoldsInv(p)'
  <2> SUFFICES ASSUME NEW p \in Procs PROVE HoldsInv(p)'
    OBVIOUS
  <2>1. HoldsInv(p) /\ tgt[p] \in Cores
    BY DEF Kept, Types, TypeOK
  <2>2. Linking(p) => tgt[p] # c
    <3>1. Idle \in InQueue(c) /\ (Linking(p) /\ tgt[p] = c => p \in InQueue(c))
      BY <1>1 DEF InQueue, Linking
    <3> QED
      BY <1>0, <3>1 DEF QueueMutex
  <2>3. InHand(p) /\ arg[p] \in Threads => arg[p] # nxt[c]
    BY <1>4, <2>1 DEF HoldsInv
  <2> QED
    BY <1>1, <1>3, <2>1, <2>2, <2>3 DEF HoldsInv, InHand, Linking, callVars
<1>7. \A d \in Cores : RunsInv(d)'
  BY <1>1, <1>3, <1>4 DEF Kept, RunsInv, callVars
<1>8. \A d \in APs : PopsInv(d)'
  <2> SUFFICES ASSUME NEW d \in APs PROVE PopsInv(d)'
    OBVIOUS
  <2>1. PopsInv(d) /\ d \in Cores
    BY DEF Kept, Cores
  <2> QED
    BY <1>1, <1>2, <1>3, <1>4, <2>1 DEF PopsInv
<1>9. ASSUME NEW d \in APs, d # c, Pops(d)' PROVE AboveInv(d)'
  <2>1. Pops(d) /\ d \in Cores
    BY <1>1, <1>3, <1>9 DEF Pops, Cores
  <2>2. \A t \in Threads : place[t] = <<"ready", d>> =>
            place'[t] = place[t] /\ next'[t] = next[t]
    BY <1>1, <1>3, <1>4, <1>9
  <2> QED
    BY <1>3, <1>9, <2>1, <2>2, AboveSame
<1>10. ASSUME Pops(c)' PROVE AboveInv(c)'
  <2>1. nxt[c] \in Threads /\ stack[c] # <<>>
    BY <1>1, <1>2, <1>3, <1>4, <1>10 DEF Pops
  <2>2. PICK n \in Nat \ {0} : n = Len(stack[c])
    BY <1>2, <2>1, EmptySeq
  <2>3. /\ stack'[c] \in Seq(Threads) /\ Len(stack'[c]) = n - 1
        /\ \A i \in 1..(n - 1) : stack'[c][i] = stack[c][i]
    <3>1. stack'[c] = SubSeq(stack[c], 1, n - 1)
      BY <1>0, <2>1, <2>2 DEF LoopAdvance, Types, TypeOK
    <3> QED
      BY <1>2, <2>1, <2>2, <3>1, FrontType
  <2>4. /\ \A i \in 1..n : /\ next[stack[c][i]] = IF i = 1 THEN NULL ELSE stack[c][i - 1]
                           /\ place[stack[c][i]] = <<"ready", c>>
        /\ \A i, j \in 1..n : stack[c][i] = stack[c][j] => i = j
        /\ nxt[c] = stack[c][n]
    BY <1>2, <2>1, <2>2 DEF AboveInv, Spells
  <2>5. stack'[c] = <<>> <=> n = 1
    <3>1. Len(stack'[c]) = 0 <=> stack'[c] = <<>>
      BY <2>3, EmptySeq
    <3> QED
      BY <2>2, <2>3, <3>1
  <2>6. ready_list'[c] = IF stack'[c] = <<>> THEN NULL ELSE stack'[c][Len(stack'[c])]
    <3>1. n \in 1..n
      BY <2>2
    <3>2. ready_list'[c] = IF n = 1 THEN NULL ELSE stack[c][n - 1]
      BY <1>3, <2>4, <3>1
    <3> QED
      BY <2>2, <2>3, <2>5, <3>2
  <2>7. ASSUME NEW i \in 1..(n - 1)
        PROVE  /\ next'[stack'[c][i]] = IF i = 1 THEN NULL ELSE stack'[c][i - 1]
               /\ place'[stack'[c][i]] = <<"ready", c>>
    <3>1. i \in 1..n /\ i # n /\ n \in 1..n /\ (i # 1 => i - 1 \in 1..(n - 1))
      BY <2>2
    <3>2. stack[c][i] \in Threads /\ stack[c][i] # nxt[c]
      BY <1>2, <2>2, <2>4, <3>1, NotAbove
    <3>3. stack'[c][i] = stack[c][i] /\ (i # 1 => stack'[c][i - 1] = stack[c][i - 1])
      BY <2>3, <3>1
    <3>4. place'[stack[c][i]] = <<"ready", c>>
      BY <1>3, <2>4, <3>1, <3>2
    <3> QED
      BY <1>1, <2>4, <3>1, <3>3, <3>4
  <2>8. \A i, j \in 1..(n - 1) : stack'[c][i] = stack'[c][j] => i = j
    <3>1. \A i \in 1..(n - 1) : i \in 1..n
      BY <2>2
    <3> QED
      BY <2>3, <2>4, <3>1
  <2> QED
    BY <2>3, <2>6, <2>7, <2>8 DEF AboveInv, Spells
<1> QED
  BY <1>5, <1>6, <1>7, <1>8, <1>9, <1>10 DEF Kept

\* The switch to what was popped.
LEMMA KeptDispatch ==
    ASSUME Types, Kept, NEW c \in APs, LoopDispatch(c)
    PROVE  Kept'
<1>0. /\ c \in Cores /\ c # Bsp /\ Idle \notin Procs /\ NULL \notin Procs /\ Wild \notin Procs
      /\ Main \notin Threads /\ Idle # Wild /\ Idle # NULL /\ Main \in Procs
  BY ConstantsAssumption DEF Cores, Procs
<1>1. /\ UNCHANGED <<ready_list, next, stack, callVars>>
      /\ lpc[c] = "dispatch" /\ cpu[c] = Idle
  BY DEF LoopDispatch, InLoop
<1>2. PICK t \in Threads \cup {NULL} : nxt[c] = t
  BY DEF Types, TypeOK
<1>3. /\ \A u \in Threads : place'[u] = IF u = t THEN <<"cpu", c>> ELSE place[u]
      /\ \A d \in Cores : d # c => cpu'[d] = cpu[d] /\ cur_thread'[d] = cur_thread[d]
      /\ cur_thread'[c] = t
      /\ cpu'[c] \in Threads => cpu'[c] = t
      /\ cpu'[c] = t \/ cpu'[c] = Wild
      /\ cpu'[c] = t => t \in Threads
      /\ \A d \in APs : lpc'[d] = IF d = c THEN "top" ELSE lpc[d]
      /\ \A d \in APs : nxt'[d] = IF d = c THEN NULL ELSE nxt[d]
  <2>1. cpu'[c] = IF t \in saved THEN t ELSE Wild
    BY <1>0, <1>2 DEF LoopDispatch, Types, TypeOK
  <2>2. saved \subseteq Threads /\ Wild \notin Threads /\ Wild \notin {NULL}
    BY <1>0, ConstantsAssumption DEF Types, TypeOK, Procs
  <2> QED
    BY <1>0, <1>2, <2>1, <2>2 DEF LoopDispatch, LoopTo, Types, TypeOK
<1>4. /\ t \in Threads => place[t] = <<"popped", c>> /\ ppc[t] # "yield_switch"
      /\ \A d \in Cores : cpu[d] = t => t \notin Threads
  <2> SUFFICES ASSUME t \in Threads
               PROVE  /\ place[t] = <<"popped", c>> /\ ppc[t] # "yield_switch"
                      /\ \A d \in Cores : cpu[d] # t
    OBVIOUS
  <2>1. place[t] = <<"popped", c>>
    BY <1>1, <1>2 DEF Kept, PopsInv
  <2>2. YieldInv(t) /\ \A d \in Cores : RunsInv(d)
    BY DEF Kept, Procs
  <2> QED
    BY <2>1, <2>2 DEF YieldInv, RunsInv
<1>5. \A p \in Procs : YieldInv(p)' /\ HoldsInv(p)'
  <2> SUFFICES ASSUME NEW p \in Procs PROVE YieldInv(p)' /\ HoldsInv(p)'
    OBVIOUS
  <2>1. YieldInv(p) /\ HoldsInv(p) /\ tgt[p] \in Cores
    BY DEF Kept, Types, TypeOK
  <2>2. Yielding(p) => tgt[p] # c
    BY <1>0, <1>1, <2>1 DEF YieldInv
  <2>3. YieldInv(p)'
    BY <1>1, <1>3, <1>4, <2>1, <2>2 DEF YieldInv, Yielding, callVars
  <2>4. HoldsInv(p)'
    BY <1>1, <1>3, <1>4, <2>1 DEF HoldsInv, InHand, Linking, callVars
  <2> QED
    BY <2>3, <2>4
<1>6. \A d \in Cores : RunsInv(d)'
  <2>1. ASSUME NEW d \in Cores, d # c PROVE RunsInv(d)'
    BY <1>1, <1>3, <1>4, <2>1 DEF Kept, RunsInv, callVars
  <2>2. RunsInv(c)'
    BY <1>0, <1>1, <1>3, <1>4 DEF RunsInv, callVars, Procs
  <2> QED
    BY <2>1, <2>2
<1>7. \A d \in APs : PopsInv(d)'
  <2> SUFFICES ASSUME NEW d \in APs PROVE PopsInv(d)'
    OBVIOUS
  <2>1. PopsInv(d) /\ d \in Cores
    BY DEF Kept, Cores
  <2>2. CASE d = c
    BY <1>3, <2>2 DEF PopsInv
  <2>3. CASE d # c
    BY <1>1, <1>3, <1>4, <2>1, <2>3 DEF PopsInv
  <2> QED
    BY <2>2, <2>3
<1>8. ASSUME NEW d \in APs, Pops(d)' PROVE AboveInv(d)'
  <2>1. Pops(d)
    <3>1. CASE d = c
      BY <1>0, <1>1, <1>2, <1>3, <1>8, <3>1 DEF Pops, Procs
    <3>2. CASE d # c
      BY <1>3, <1>8, <3>2 DEF Pops, Cores
    <3> QED
      BY <3>1, <3>2
  <2>2. \A u \in Threads : place[u] = <<"ready", d>> =>
            place'[u] = place[u] /\ next'[u] = next[u]
    BY <1>1, <1>3, <1>4
  <2> QED
    BY <1>1, <2>1, <2>2, AboveSame
<1> QED
  BY <1>5, <1>6, <1>7, <1>8 DEF Kept

\* Steps of p that move no thread and neither begin nor advance an enqueue.
LEMMA KeptQuietCall ==
    ASSUME Types, Kept, NEW p \in Procs,
           \/ \E c \in Cores : Command(p, c)
           \/ \E v \in BOOLEAN : SetReserve(p, v)
           \/ CheckStatus(p) \/ SendWakeup(p)
    PROVE  Kept'
<1>1. UNCHANGED <<listVars, threadVars, loopVars, cur_thread, cpu>>
  BY DEF Command, SetReserve, CheckStatus, SendWakeup
<1>2. /\ ppc[p] \in {"run", "cmd_lock", "push_check", "cmd_check", "push_wake", "cmd_wake"}
      /\ ppc'[p] \in {"run", "cmd_lock", "cmd_check", "push_wake", "cmd_wake"}
  BY DEF Command, SetReserve, CheckStatus, SendWakeup, At, CallTo, Return, Types, TypeOK
<1>3. \A q \in Procs : q # p => ppc'[q] = ppc[q] /\ tgt'[q] = tgt[q] /\ arg'[q] = arg[q]
  BY DEF Command, SetReserve, CheckStatus, SendWakeup, CallTo, Return, Types, TypeOK
<1>4. \A q \in Procs : YieldInv(q)' /\ HoldsInv(q)'
  BY <1>1, <1>2, <1>3 DEF Kept, YieldInv, HoldsInv, InHand, Yielding, Linking, listVars
<1>5. \A t \in Threads : /\ ppc'[t] = "yield_switch" <=> ppc[t] = "yield_switch"
                         /\ ppc[t] = "yield_switch" => tgt'[t] = tgt[t]
  BY <1>2, <1>3 DEF Procs
<1>6. \A c \in Cores : RunsInv(c)'
  BY <1>1, <1>5 DEF Kept, RunsInv, listVars
<1>7. \A c \in APs : PopsInv(c)'
  BY <1>1 DEF Kept, PopsInv, listVars, loopVars
<1>8. ASSUME NEW c \in APs, Pops(c)' PROVE AboveInv(c)'
  <2>1. Pops(c)
    BY <1>1, <1>8 DEF Pops, loopVars
  <2> QED
    BY <1>1, <2>1, AboveSame DEF listVars
<1> QED
  BY <1>4, <1>6, <1>7, <1>8 DEF Kept

\* smp_push_task is given a new thread, or a NULL that it treats as one.
LEMMA KeptPush ==
    ASSUME Types, Kept, NEW p \in Procs, NEW c \in Cores, NEW t \in Threads \cup {NULL},
           PushTask(p, c, t)
    PROVE  Kept'
<1>0. NULL \notin Threads
  BY ConstantsAssumption DEF Procs
<1>1. /\ UNCHANGED <<ready_list, next, stack, loopVars, cur_thread, cpu>>
      /\ ppc[p] = "run" /\ (t \in Threads => place[t] = Nowhere)
  BY <1>0 DEF PushTask, At
<1>2. /\ \A u \in Threads : place'[u] = IF u = t THEN <<"new", p>> ELSE place[u]
      /\ \A q \in Procs : IF q = p THEN ppc'[q] = "push_lock" /\ arg'[q] = t
                                   ELSE ppc'[q] = ppc[q] /\ arg'[q] = arg[q] /\ tgt'[q] = tgt[q]
  BY <1>0 DEF PushTask, CallTo, Types, TypeOK
<1>3. t \in Threads => /\ \A q \in Procs : place[t] # <<"new", q>>
                       /\ \A d \in Cores : /\ place[t] # <<"ready", d>>
                                           /\ place[t] # <<"popped", d>>
                                           /\ place[t] # <<"cpu", d>>
  BY <1>1 DEF Nowhere
<1>4. \A q \in Procs : YieldInv(q)' /\ HoldsInv(q)'
  <2> SUFFICES ASSUME NEW q \in Procs PROVE YieldInv(q)' /\ HoldsInv(q)'
    OBVIOUS
  <2>1. YieldInv(q) /\ HoldsInv(q) /\ tgt[q] \in Cores
    BY DEF Kept, Types, TypeOK
  <2>2. CASE q = p
    BY <1>2, <2>2 DEF YieldInv, HoldsInv, InHand, Yielding, Linking
  <2>3. CASE q # p
    <3>1. YieldInv(q)'
      BY <1>1, <1>2, <1>3, <2>1, <2>3 DEF YieldInv, Yielding
    <3>2. HoldsInv(q)'
      BY <1>1, <1>2, <1>3, <2>1, <2>3 DEF HoldsInv, InHand, Linking
    <3> QED
      BY <3>1, <3>2
  <2> QED
    BY <2>2, <2>3
<1>5. \A u \in Threads : /\ ppc'[u] = "yield_switch" <=> ppc[u] = "yield_switch"
                         /\ ppc[u] = "yield_switch" => tgt'[u] = tgt[u]
  BY <1>1, <1>2 DEF Procs
<1>6. \A d \in Cores : RunsInv(d)'
  <2> SUFFICES ASSUME NEW d \in Cores PROVE RunsInv(d)'
    OBVIOUS
  <2>1. RunsInv(d)
    BY DEF Kept
  <2>2. cpu[d] = t /\ t \in Threads => ppc[t] = "yield_switch"
    BY <1>3, <2>1 DEF RunsInv
  <2>3. t \in Threads => ppc[t] # "yield_switch"
    <3>1. t \in Threads => YieldInv(t) /\ tgt[t] \in Cores
      BY DEF Kept, Procs, Types, TypeOK
    <3> QED
      BY <1>3, <3>1 DEF YieldInv
  <2> QED
    BY <1>1, <1>2, <1>5, <2>1, <2>2, <2>3 DEF RunsInv
<1>7. \A d \in APs : PopsInv(d)'
  <2> SUFFICES ASSUME NEW d \in APs PROVE PopsInv(d)'
    OBVIOUS
  <2>1. PopsInv(d) /\ d \in Cores
    BY DEF Kept, Cores
  <2> QED
    BY <1>1, <1>2, <1>3, <2>1 DEF PopsInv, loopVars
<1>8. ASSUME NEW d \in APs, Pops(d)' PROVE AboveInv(d)'
  <2>1. Pops(d) /\ d \in Cores
    BY <1>1, <1>8 DEF Pops, loopVars, Cores
  <2>2. \A u \in Threads : place[u] = <<"ready", d>> =>
            place'[u] = place[u] /\ next'[u] = next[u]
    BY <1>1, <1>2, <1>3, <2>1
  <2> QED
    BY <1>1, <2>1, <2>2, AboveSame
<1> QED
  BY <1>4, <1>6, <1>7, <1>8 DEF Kept

\* Only the thread that runs on its core yields.
LEMMA KeptYield ==
    ASSUME Types, Kept, NEW p \in Procs, NEW c \in Cores, Yield(p, c)
    PROVE  Kept'
<1>0. Main \notin Threads
  BY ConstantsAssumption DEF Procs
<1>1. /\ UNCHANGED <<listVars, saved, loopVars, cur_thread, cpu>>
      /\ ppc[p] = "run" /\ cpu[c] = p /\ cur_thread[c] # Idle
  BY DEF Yield, At
<1>2. p \in Threads /\ cur_thread[c] = p
  <2>1. RunsInv(c)
    BY DEF Kept
  <2> QED
    BY <1>1, <2>1 DEF RunsInv, Procs
<1>3. \A q \in Procs : IF q = p THEN ppc'[q] = "yield_lock" /\ arg'[q] = p /\ tgt'[q] = c
                                ELSE ppc'[q] = ppc[q] /\ arg'[q] = arg[q] /\ tgt'[q] = tgt[q]
  BY <1>2 DEF Yield, CallTo, Types, TypeOK
<1>4. \A q \in Procs : YieldInv(q)' /\ HoldsInv(q)'
  BY <1>1, <1>2, <1>3 DEF Kept, YieldInv, HoldsInv, InHand, Yielding, Linking, listVars
<1>5. \A t \in Threads : /\ ppc'[t] = "yield_switch" <=> ppc[t] = "yield_switch"
                         /\ ppc[t] = "yield_switch" => tgt'[t] = tgt[t]
  BY <1>1, <1>3 DEF Procs
<1>6. \A d \in Cores : RunsInv(d)'
  BY <1>1, <1>5 DEF Kept, RunsInv, listVars
<1>7. \A d \in APs : PopsInv(d)'
  BY <1>1 DEF Kept, PopsInv, listVars, loopVars
<1>8. ASSUME NEW d \in APs, Pops(d)' PROVE AboveInv(d)'
  <2>1. Pops(d)
    BY <1>1, <1>8 DEF Pops, loopVars
  <2> QED
    BY <1>1, <2>1, AboveSame DEF listVars
<1> QED
  BY <1>4, <1>6, <1>7, <1>8 DEF Kept

\* The link of what is to be enqueued is set, under the lock.
LEMMA KeptLock ==
    ASSUME Types, Kept, NEW p \in Procs, LockQueue(p)
    PROVE  Kept'
<1>0. NULL \notin Threads
  BY ConstantsAssumption DEF Procs
<1>1. /\ UNCHANGED <<ready_list, stack, place, threadVars, loopVars, tgt, arg, cur_thread, cpu>>
      /\ \/ ppc[p] = "push_lock" /\ ppc'[p] = "push_link"
         \/ ppc[p] = "yield_lock" /\ ppc'[p] = "yield_link"
      /\ arg[p] \in Threads \cup {NULL}
  BY DEF LockQueue, At, CallTo, Types, TypeOK
<1>2. \A q \in Procs : q # p => ppc'[q] = ppc[q]
  BY DEF LockQueue, CallTo, Types, TypeOK
<1>3. \A u \in Threads : next'[u] = IF u = arg[p] THEN ready_list[tgt[p]] ELSE next[u]
  BY <1>1 DEF LockQueue, Types, TypeOK
<1>4. arg[p] \in Threads =>
         /\ InHand(p) => place[arg[p]] = <<"new", p>>
         /\ ~InHand(p) => arg[p] = p /\ place[p] = <<"cpu", tgt[p]>>
  BY <1>1, ToLink
<1>5. \A q \in Procs : /\ InHand(q)' <=> InHand(q)
                       /\ Yielding(q)' <=> Yielding(q)
                       /\ ppc'[q] = "yield_switch" <=> ppc[q] = "yield_switch"
                       /\ Linking(q)' <=> q = p \/ Linking(q)
  BY <1>1, <1>2 DEF InHand, Yielding, Linking
<1>6. \A q \in Procs : YieldInv(q)'
  BY <1>1, <1>5 DEF Kept, YieldInv
<1>7. \A q \in Procs : HoldsInv(q)'
  <2> SUFFICES ASSUME NEW q \in Procs PROVE HoldsInv(q)'
    OBVIOUS
  <2>1. HoldsInv(q)
    BY DEF Kept
  <2>2. CASE q = p
    BY <1>1, <1>3, <1>5, <2>1, <2>2 DEF HoldsInv
  <2>3. CASE q # p
    <3>1. ASSUME Linking(q), arg[q] \in Threads PROVE arg[q] # arg[p]
      <4>1. /\ InHand(q) => place[arg[q]] = <<"new", q>>
            /\ ~InHand(q) => arg[q] = q /\ place[q] = <<"cpu", tgt[q]>>
        BY <3>1, ToLink DEF Linking
      <4> QED
        BY <1>4, <2>3, <3>1, <4>1
    <3> QED
      BY <1>1, <1>3, <1>5, <2>1, <2>3, <3>1 DEF HoldsInv
  <2> QED
    BY <2>2, <2>3
<1>8. \A d \in Cores : RunsInv(d)'
  BY <1>1, <1>5 DEF Kept, RunsInv, Procs
<1>9. \A d \in APs : PopsInv(d)'
  BY <1>1 DEF Kept, PopsInv, loopVars
<1>10. ASSUME NEW d \in APs, Pops(d)' PROVE AboveInv(d)'
  <2>1. Pops(d) /\ d \in Cores
    BY <1>1, <1>10 DEF Pops, loopVars, Cores
  <2>2. \A u \in Threads : place[u] = <<"ready", d>> =>
            place'[u] = place[u] /\ next'[u] = next[u]
    BY <1>1, <1>3, <1>4
  <2> QED
    BY <1>1, <2>1, <2>2, AboveSame
<1> QED
  BY <1>6, <1>7, <1>8, <1>9, <1>10 DEF Kept

\* The switch back to the loop.
LEMMA KeptSwitch ==
    ASSUME Types, Kept, NEW p \in Procs, YieldSwitch(p)
    PROVE  Kept'
<1>0. Idle \notin Threads /\ Idle # Main /\ Main \notin Threads /\ Idle # Wild
  BY ConstantsAssumption DEF Procs
<1>1. UNCHANGED <<listVars, loopVars>> /\ ppc[p] = "yield_switch"
  BY DEF YieldSwitch, At
<1>2. PICK c \in Cores : c = tgt[p]
  BY DEF Types, TypeOK
<1>3. /\ p \in Threads /\ arg[p] = p /\ cpu[c] = p /\ place[p] = <<"ready", c>>
      /\ c # Bsp
  <2>1. YieldInv(p) /\ RunsInv(c)
    BY DEF Kept
  <2> QED
    BY <1>0, <1>1, <1>2, <2>1 DEF YieldInv, Yielding, RunsInv
<1>4. /\ \A d \in Cores : cpu'[d] = IF d = c THEN Idle ELSE cpu[d]
      /\ \A d \in Cores : cur_thread'[d] = IF d = c THEN Idle ELSE cur_thread[d]
      /\ \A q \in Procs : IF q = p THEN ppc'[q] = "run"
                          ELSE ppc'[q] = ppc[q] /\ arg'[q] = arg[q] /\ tgt'[q] = tgt[q]
  BY <1>2, <1>3 DEF YieldSwitch, Return, CallTo, Types, TypeOK
<1>5. \A d \in Cores : cpu[d] = p => d = c
  BY <1>1, <1>2, <1>3 DEF Kept, RunsInv
<1>6. \A q \in Procs : YieldInv(q)' /\ HoldsInv(q)'
  <2> SUFFICES ASSUME NEW q \in Procs PROVE YieldInv(q)' /\ HoldsInv(q)'
    OBVIOUS
  <2>1. YieldInv(q) /\ HoldsInv(q) /\ tgt[q] \in Cores
    BY DEF Kept, Types, TypeOK
  <2>2. CASE q = p
    BY <1>4, <2>2 DEF YieldInv, HoldsInv, InHand, Yielding, Linking
  <2>3. CASE q # p
    <3>1. Yielding(q) => tgt[q] # c
      BY <1>3, <2>1, <2>3 DEF YieldInv
    <3> QED
      BY <1>1, <1>4, <2>1, <2>3, <3>1
         DEF YieldInv, HoldsInv, InHand, Yielding, Linking, listVars
  <2> QED
    BY <2>2, <2>3
<1>7. \A d \in Cores : RunsInv(d)'
  <2>1. ASSUME NEW d \in Cores, d # c PROVE RunsInv(d)'
    <3>1. RunsInv(d) /\ cpu'[d] = cpu[d] /\ cur_thread'[d] = cur_thread[d] /\ cpu[d] # p
      BY <1>4, <1>5, <2>1 DEF Kept
    <3>2. \A t \in Threads : t # p => ppc'[t] = ppc[t] /\ tgt'[t] = tgt[t]
      BY <1>4 DEF Procs
    <3> QED
      BY <1>1, <3>1, <3>2 DEF RunsInv, listVars
  <2>2. RunsInv(c)'
    BY <1>0, <1>3, <1>4 DEF RunsInv
  <2> QED
    BY <2>1, <2>2
<1>8. \A d \in APs : PopsInv(d)'
  BY <1>1, <1>4 DEF Kept, PopsInv, listVars, loopVars, Cores
<1>9. ASSUME NEW d \in APs, Pops(d)' PROVE AboveInv(d)'
  <2>1. Pops(d)
    <3>1. CASE d = c
      <4>1. cpu[d] # Wild
        BY <1>3, <3>1, ConstantsAssumption DEF Procs
      <4> QED
        BY <1>1, <1>9, <4>1 DEF Pops, loopVars
    <3>2. CASE d # c
      BY <1>1, <1>4, <1>9, <3>2 DEF Pops, loopVars, Cores
    <3> QED
      BY <3>1, <3>2
  <2> QED
    BY <1>1, <2>1, AboveSame DEF listVars
<1> QED
  BY <1>6, <1>7, <1>8, <1>9 DEF Kept

\* What is linked becomes the head: a thread on top of the chain, or a NULL
\* that hides the chain.
LEMMA KeptLink ==
    ASSUME Types, Kept, QueueMutex, NEW p \in Procs, Link(p)
    PROVE  Kept'
<1>0. NULL \notin Threads /\ Idle \notin Procs
  BY ConstantsAssumption DEF Procs
<1>1. /\ UNCHANGED <<next, threadVars, loopVars, tgt, arg, cur_thread, cpu>>
      /\ \/ ppc[p] = "push_link" /\ ppc'[p] = "push_check"
         \/ ppc[p] = "yield_link" /\ ppc'[p] = "yield_switch"
  BY DEF Link, At, CallTo, Types, TypeOK
<1>2. \A q \in Procs : q # p => ppc'[q] = ppc[q]
  BY DEF Link, CallTo, Types, TypeOK
<1>3. PICK c \in Cores, t \in Threads \cup {NULL} : c = tgt[p] /\ t = arg[p]
  BY DEF Types, TypeOK
<1>4. /\ \A u \in Threads : place'[u] = IF u = t THEN <<"ready", c>> ELSE place[u]
      /\ ready_list'[c] = t
      /\ stack'[c] = IF t = NULL THEN <<>> ELSE Append(stack[c], t)
      /\ \A d \in Cores : d # c => ready_list'[d] = ready_list[d] /\ stack'[d] = stack[d]
  BY <1>0, <1>3 DEF Link, Types, TypeOK
<1>5. t \in Threads =>
         /\ InHand(p) => place[t] = <<"new", p>>
         /\ ~InHand(p) => t = p /\ cpu[c] = p /\ place[t] = <<"cpu", c>>
  BY <1>1, <1>3, ToLink
<1>6. ppc[p] = "yield_link" <=> ~InHand(p)
  BY <1>1 DEF InHand
\* No one else is at work on the list.
<1>7. /\ \A q \in Procs : Linking(q) /\ tgt[q] = c => q = p
      /\ c \in APs => lpc[c] # "advance"
  <2>1. p \in InQueue(c) /\ Idle # p
    BY <1>0, <1>1, <1>3 DEF InQueue
  <2>2. \A q \in Procs : Linking(q) /\ tgt[q] = c => q \in InQueue(c)
    BY DEF InQueue, Linking
  <2>3. c \in APs /\ lpc[c] = "advance" => Idle \in InQueue(c)
    BY DEF InQueue
  <2> QED
    BY <2>1, <2>2, <2>3 DEF QueueMutex
<1>8. \A q \in Procs : YieldInv(q)' /\ HoldsInv(q)'
  <2> SUFFICES ASSUME NEW q \in Procs PROVE YieldInv(q)' /\ HoldsInv(q)'
    OBVIOUS
  <2>1. YieldInv(q) /\ HoldsInv(q) /\ tgt[q] \in Cores
    BY DEF Kept, Types, TypeOK
  <2>2. CASE q = p
    <3>1. ~InHand(p)' /\ ~Linking(p)' /\ (Yielding(p)' => Yielding(p))
      BY <1>1 DEF InHand, Linking, Yielding
    <3>2. ppc'[p] = "yield_switch" => p = t /\ p \in Threads
      BY <1>1, <1>3, <1>6, <2>1, <2>2 DEF YieldInv, Yielding
    <3> QED
      BY <1>1, <1>3, <1>4, <2>1, <2>2, <3>1, <3>2 DEF YieldInv, HoldsInv
  <2>3. CASE q # p
    <3>1. ppc[q] = "yield_switch" => q # t /\ q \in Threads
      BY <1>5, <2>1 DEF YieldInv, Yielding
    <3>2. YieldInv(q)'
      BY <1>1, <1>2, <1>4, <2>1, <2>3, <3>1 DEF YieldInv, Yielding
    <3>3. InHand(q) /\ arg[q] \in Threads => arg[q] # t
      BY <1>5, <2>1, <2>3 DEF HoldsInv
    <3>4. Linking(q) => tgt[q] # c
      BY <1>7, <2>3
    <3>5. HoldsInv(q)'
      BY <1>1, <1>2, <1>4, <2>1, <2>3, <3>3, <3>4 DEF HoldsInv, InHand, Linking
    <3> QED
      BY <3>2, <3>5
  <2> QED
    BY <2>2, <2>3
<1>9. \A d \in Cores : RunsInv(d)'
  <2> SUFFICES ASSUME NEW d \in Cores PROVE RunsInv(d)'
    OBVIOUS
  <2>1. RunsInv(d)
    BY DEF Kept
  <2>2. ASSUME cpu[d] = t, t \in Threads
        PROVE  t = p /\ d = tgt[p] /\ ppc'[p] = "yield_switch"
    <3>1. ppc[t] # "yield_switch"
      <4>1. YieldInv(t)
        BY <2>2 DEF Kept, Procs
      <4> QED
        BY <1>5, <2>2, <4>1 DEF YieldInv
    <3>2. place[t] = <<"cpu", d>>
      BY <2>1, <2>2, <3>1 DEF RunsInv
    <3> QED
      BY <1>1, <1>3, <1>5, <1>6, <2>2, <3>2
  <2>3. ASSUME cpu[d] # t, cpu[d] \in Threads
        PROVE  /\ place'[cpu[d]] = place[cpu[d]]
               /\ ppc'[cpu[d]] = "yield_switch" <=> ppc[cpu[d]] = "yield_switch"
    <3>1. cpu[d] \in Procs
      BY <2>3 DEF Procs
    <3>2. cpu[d] = p => ppc'[p] # "yield_switch"
      <4>1. YieldInv(p)
        BY DEF Kept
      <4> QED
        BY <1>1, <1>3, <2>3, <4>1 DEF YieldInv, Yielding
    <3> QED
      BY <1>1, <1>2, <1>4, <2>3, <3>1, <3>2
  <2>4. CASE cpu[d] = t
    BY <1>1, <1>4, <2>1, <2>2, <2>4 DEF RunsInv
  <2>5. CASE cpu[d] # t
    BY <1>1, <2>1, <2>3, <2>5 DEF RunsInv
  <2> QED
    BY <2>4, <2>5
<1>10. \A d \in APs : PopsInv(d)'
  <2> SUFFICES ASSUME NEW d \in APs PROVE PopsInv(d)'
    OBVIOUS
  <2>1. PopsInv(d) /\ d \in Cores
    BY DEF Kept, Cores
  <2> QED
    BY <1>1, <1>4, <1>5, <1>7, <2>1 DEF PopsInv, loopVars
<1>11. ASSUME NEW d \in APs, d # c, Pops(d)' PROVE AboveInv(d)'
  <2>1. Pops(d) /\ d \in Cores
    BY <1>1, <1>11 DEF Pops, loopVars, Cores
  <2>2. \A u \in Threads : place[u] = <<"ready", d>> =>
            place'[u] = place[u] /\ next'[u] = next[u]
    BY <1>1, <1>4, <1>5, <1>11
  <2> QED
    BY <1>4, <1>11, <2>1, <2>2, AboveSame
<1>12. ASSUME c \in APs, Pops(c)', t = NULL PROVE AboveInv(c)'
  <2>1. ready_list'[c] = NULL /\ stack'[c] = <<>> /\ Len(stack'[c]) = 0
    BY <1>4, <1>12
  <2> QED
    BY <2>1 DEF AboveInv, Spells
<1>13. ASSUME c \in APs, Pops(c)', t \in Threads PROVE AboveInv(c)'
  <2>1. Pops(c) /\ stack[c] \in Seq(Threads)
    BY <1>1, <1>13 DEF Pops, loopVars, Types, TypeOK
  <2>2. PICK n \in Nat : n = Len(stack[c])
    BY <2>1, LenProperties
  <2>3. /\ Len(stack'[c]) = n + 1 /\ stack'[c][n + 1] = t
        /\ \A i \in 1..n : stack'[c][i] = stack[c][i]
    <3>1. stack'[c] = Append(stack[c], t)
      BY <1>0, <1>4, <1>13
    <3>2. /\ Len(Append(stack[c], t)) = n + 1 /\ Append(stack[c], t)[n + 1] = t
          /\ \A i \in 1..n : Append(stack[c], t)[i] = stack[c][i]
      BY <1>13, <2>1, <2>2
    <3> QED
      BY <3>1, <3>2
  <2>4. /\ ready_list[c] = IF stack[c] = <<>> THEN NULL ELSE stack[c][n]
        /\ \A i \in 1..n : next[stack[c][i]] = IF i = 1 THEN NULL ELSE stack[c][i - 1]
        /\ \A i, j \in 1..n : stack[c][i] = stack[c][j] => i = j
    BY <1>13, <2>1, <2>2 DEF Kept, AboveInv, Spells
  <2>5. \A i \in 1..n : /\ stack[c][i] \in Threads /\ stack[c][i] # t
                        /\ place'[stack[c][i]] = <<"ready", c>>
    <3> SUFFICES ASSUME NEW i \in 1..n
                 PROVE  /\ stack[c][i] \in Threads /\ stack[c][i] # t
                        /\ place'[stack[c][i]] = <<"ready", c>>
      OBVIOUS
    <3>1. stack[c][i] \in Threads /\ place[stack[c][i]] = <<"ready", c>>
      BY <1>13, <2>1, <2>2, NotAbove
    <3> QED
      BY <1>4, <1>5, <1>13, <3>1
  <2>6. stack[c] = <<>> <=> n = 0
    BY <2>1, <2>2, EmptySeq
  <2>7. next[t] = ready_list[c]
    BY <1>1, <1>3, <1>13 DEF Kept, HoldsInv, Linking
  <2>8. ready_list'[c] = IF stack'[c] = <<>> THEN NULL ELSE stack'[c][Len(stack'[c])]
    <3>1. Len(stack'[c]) # 0
      BY <2>2, <2>3
    <3>2. stack'[c] # <<>>
      BY <3>1
    <3> QED
      BY <1>4, <2>3, <3>2
  <2>9. ASSUME NEW i \in 1..(n + 1)
        PROVE  /\ next'[stack'[c][i]] = IF i = 1 THEN NULL ELSE stack'[c][i - 1]
               /\ place'[stack'[c][i]] = <<"ready", c>>
    <3>1. CASE i = n + 1
      <4>1. /\ next'[stack'[c][i]] = ready_list[c] /\ (i = 1 <=> n = 0)
            /\ n # 0 => stack'[c][i - 1] = stack[c][n]
        BY <1>1, <2>2, <2>3, <2>7, <3>1
      <4>2. place'[stack'[c][i]] = <<"ready", c>>
        BY <1>4, <1>13, <2>3, <3>1
      <4> QED
        BY <2>4, <2>6, <4>1, <4>2
    <3>2. CASE i # n + 1
      <4>1. i \in 1..n /\ (i # 1 => i - 1 \in 1..n)
        BY <2>2, <3>2
      <4>2. stack'[c][i] = stack[c][i] /\ (i # 1 => stack'[c][i - 1] = stack[c][i - 1])
        BY <2>3, <4>1
      <4> QED
        BY <1>1, <2>4, <2>5, <4>1, <4>2
    <3> QED
      BY <3>1, <3>2
  <2>10. \A i, j \in 1..(n + 1) : stack'[c][i] = stack'[c][j] => i = j
    <3>1. \A i \in 1..(n + 1) : i \in 1..n \/ i = n + 1
      BY <2>2
    <3>2. \A i \in 1..n : stack'[c][i] = stack[c][i] /\ stack'[c][i] # t
      BY <2>3, <2>5
    <3> QED
      BY <2>3, <2>4, <3>1, <3>2
  <2> QED
    BY <2>3, <2>8, <2>9, <2>10 DEF AboveInv, Spells
<1> QED
  BY <1>3, <1>8, <1>9, <1>10, <1>11, <1>12, <1>13 DEF Kept

LEMMA KeptStutter ==
    ASSUME Types, Kept, UNCHANGED vars
    PROVE  Kept'
<1>1. UNCHANGED <<listVars, threadVars, loopVars, callVars, cur_thread, cpu>>
  BY DEF vars
<1>2. \A p \in Procs : YieldInv(p)' /\ HoldsInv(p)'
  BY <1>1 DEF Kept, YieldInv, HoldsInv, InHand, Linking, Yielding, callVars, listVars
<1>3. \A d \in Cores : RunsInv(d)'
  BY <1>1 DEF Kept, RunsInv, callVars, listVars
<1>4. \A d \in APs : PopsInv(d)'
  BY <1>1 DEF Kept, PopsInv, listVars, loopVars
<1>5. ASSUME NEW d \in APs, Pops(d)' PROVE AboveInv(d)'
  <2>1. Pops(d)
    BY <1>1, <1>5 DEF Pops, loopVars
  <2> QED
    BY <1>1, <2>1, AboveSame DEF listVars
<1> QED
  BY <1>2, <1>3, <1>4, <1>5 DEF Kept

LEMMA KeptStep == Types /\ QueueMutex /\ Kept /\ [Next]_vars => Kept'
<1> SUFFICES ASSUME Types, QueueMutex, Kept, [Next]_vars PROVE Kept'
  OBVIOUS
<1>1. ASSUME NEW c \in APs, LoopStep(c) \/ TakeInterrupt(c) \/ TimerTick(c)
      PROVE  Kept'
  BY <1>1, KeptQuietLoop, KeptAdvance, KeptDispatch DEF LoopStep
<1>2. ASSUME NEW p \in Procs, Call(p) \/ CallStep(p)
      PROVE  Kept'
  BY <1>2, KeptPush, KeptYield, KeptQuietCall, KeptLock, KeptLink, KeptSwitch DEF Call, CallStep
<1>3. CASE UNCHANGED vars
  BY <1>3, KeptStutter
<1> QED
  BY <1>1, <1>2, <1>3 DEF Next

(* No context executes on two CPUs, whatever smp_push_task links: a NULL   *)
(* that create_thread returned hides the threads below it for good, so no  *)
(* core pops a thread that another core holds.                             *)
THEOREM OneCpuHolds == Spec => []OneCpu
<1>1. Types /\ Kept => OneCpu
  <2> SUFFICES ASSUME Types, Kept, NEW c \in Cores, NEW d \in Cores, c # d, cpu[c] = cpu[d]
               PROVE  cpu[c] \in {Idle, Wild}
    BY DEF OneCpu
  <2>1. RunsInv(c) /\ RunsInv(d) /\ cpu[c] \in Procs \cup {Idle, Wild}
    BY DEF Kept, Types, TypeOK
  <2>2. cpu[c] \notin Threads
    BY <2>1 DEF RunsInv
  <2>3. cpu[c] # Main
    BY <2>1 DEF RunsInv
  <2> QED
    BY <2>1, <2>2, <2>3 DEF Procs
<1> QED
  BY <1>1, KeptInit, KeptStep, TypesHold, QueueMutexHolds, PTL DEF Spec
=============================================================================
