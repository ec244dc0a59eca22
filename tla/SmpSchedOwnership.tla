-------------------------- MODULE SmpSchedOwnership --------------------------
(* Proof that the scheduler never loses or duplicates a thread, keeps its    *)
(* ready lists intact, and never switches to a context that was not saved,   *)
(* as long as create_thread does not fail; that a core which does not report *)
(* RUNNING is idle; and that the scheduler implements CoreTasks when no      *)
(* allocation can fail.                                                      *)
EXTENDS SmpSchedProofs

\* The creator of a thread holds it alone, ready to run, until it is linked.
HandInv(p) ==
    /\ InHand(p) => /\ arg[p] \in Threads \cap saved
                    /\ place[arg[p]] = <<"new", p>>
    /\ \A t \in Threads : place[t] = <<"new", p>> => InHand(p) /\ arg[p] = t

\* The link of a thread that is about to become the head points at the head.
LinkInv(p) == Linking(p) => next[arg[p]] = ready_list[tgt[p]]

\* The BSP keeps its main context, an AP runs its idle context or the thread
\* that cur_thread names.
CpuInv(c) ==
    /\ c = Bsp => cpu[c] = Main
    /\ c # Bsp => cpu[c] \in Threads \cup {Idle}
    /\ cpu[c] \in Threads => cur_thread[c] = cpu[c]
    /\ cpu[c] \notin Threads => cur_thread[c] = Idle

RunInv(c) ==
    \A t \in Threads :
      /\ cpu[c] = t /\ ppc[t] = "yield_switch" => tgt[t] = c
      /\ cpu[c] = t /\ ppc[t] # "yield_switch" => place[t] = <<"cpu", c>>
      /\ place[t] = <<"cpu", c>> => cpu[c] = t /\ ppc[t] # "yield_switch"

\* stack[c] holds the threads that are ready at c, each once and saved, unless
\* it is still executing its yield.
ReadyInv(c) ==
    /\ \A i \in 1..Len(stack[c]) : place[stack[c][i]] = <<"ready", c>>
    /\ \A t \in Threads :
         place[t] = <<"ready", c>> => \E i \in 1..Len(stack[c]) : stack[c][i] = t

OnceInv(c) ==
    \A i, j \in 1..Len(stack[c]) : stack[c][i] = stack[c][j] => i = j

SavedInv(c) ==
    \A i \in 1..Len(stack[c]) :
      \/ stack[c][i] \in saved
      \/ cpu[c] = stack[c][i] /\ ppc[stack[c][i]] = "yield_switch"

\* What the loop has read is still true when it uses it.
LoopInv(c) ==
    /\ lpc[c] # "top" => cpu[c] = Idle
    /\ lpc[c] \in {"lock", "advance"} => stack[c] # <<>>
    /\ lpc[c] = "advance" => nxt[c] = ready_list[c]
    /\ lpc[c] = "dispatch" => /\ nxt[c] \in Threads \cap saved
                              /\ place[nxt[c]] = <<"popped", c>>

PoppedInv(c) ==
    \A t \in Threads :
      place[t] = <<"popped", c>> => c \in APs /\ lpc[c] = "dispatch" /\ nxt[c] = t

Owned ==
    /\ \A p \in Procs : HandInv(p) /\ YieldInv(p) /\ LinkInv(p)
    /\ \A c \in Cores : CpuInv(c) /\ RunInv(c) /\ PoppedInv(c)
    /\ \A c \in Cores : Spells(c) /\ ReadyInv(c) /\ OnceInv(c) /\ SavedInv(c)
    /\ \A c \in APs : LoopInv(c)

IInv == Types /\ QueueMutex /\ (~oom => Owned)

-----------------------------------------------------------------------------
(* Steps of a loop. *)

\* Steps that move no thread.
LEMMA QuietLoop ==
    ASSUME Types, Owned, NEW c \in APs,
           \/ LoopTop(c) \/ LoopLook(c) \/ LoopReserve(c) \/ LoopStatus(c) \/ LoopHalt(c)
           \/ LoopWoken(c) \/ TakeInterrupt(c) \/ TimerTick(c)
    PROVE  Owned'
<1>1. UNCHANGED <<listVars, threadVars, callVars, nxt, cur_thread, cpu>>
  BY DEF LoopTop, LoopLook, LoopReserve, LoopStatus, LoopHalt, LoopWoken, TakeInterrupt,
         TimerTick, loopVars
<1>2. ASSUME NEW d \in APs
      PROVE  /\ lpc'[d] = "advance" <=> lpc[d] = "advance"
             /\ lpc'[d] = "dispatch" <=> lpc[d] = "dispatch"
             /\ lpc'[d] # "top" => cpu[d] = Idle
             /\ lpc'[d] = "lock" => lpc[d] = "lock" \/ ready_list[d] # NULL
  BY DEF Owned, LoopTop, LoopLook, LoopReserve, LoopStatus, LoopHalt, LoopWoken, TakeInterrupt,
         TimerTick, InLoop, LoopTo, Types, TypeOK, loopVars, LoopInv
<1>3. \A d \in APs : ready_list[d] # NULL => stack[d] # <<>>
  BY DEF Owned, Spells, Cores
<1>4. \A p \in Procs : HandInv(p)' /\ YieldInv(p)' /\ LinkInv(p)'
  BY <1>1 DEF Owned, HandInv, YieldInv, LinkInv, InHand, Linking, Yielding,
              listVars, threadVars, callVars
<1>5. \A d \in Cores : CpuInv(d)' /\ RunInv(d)' /\ PoppedInv(d)'
  BY <1>1, <1>2 DEF Owned, CpuInv, RunInv, PoppedInv, listVars, threadVars, callVars
<1>6. \A d \in Cores : Spells(d)' /\ ReadyInv(d)' /\ OnceInv(d)' /\ SavedInv(d)'
  <2>1. \A d \in Cores : Spells(d)'
    BY <1>1 DEF Owned, Spells, listVars
  <2>2. \A d \in Cores : ReadyInv(d)' /\ OnceInv(d)'
    BY <1>1 DEF Owned, ReadyInv, OnceInv, listVars
  <2>3. \A d \in Cores : SavedInv(d)'
    BY <1>1 DEF Owned, SavedInv, listVars, threadVars, callVars
  <2> QED
    BY <2>1, <2>2, <2>3
<1>7. \A d \in APs : LoopInv(d)'
  BY <1>1, <1>2, <1>3 DEF Owned, LoopInv, listVars, threadVars
<1> QED
  BY <1>4, <1>5, <1>6, <1>7 DEF Owned

LEMMA LockLoop ==
    ASSUME Types, Owned, NEW c \in APs, LoopLock(c)
    PROVE  Owned'
<1>1. /\ UNCHANGED <<ready_list, next, stack, place, threadVars, callVars, cur_thread, cpu>>
      /\ lpc[c] = "lock" /\ cpu[c] = Idle
  BY DEF LoopLock, InLoop
<1>2. \A d \in APs : IF d = c THEN lpc'[d] = "advance" /\ nxt'[d] = ready_list[d]
                              ELSE lpc'[d] = lpc[d] /\ nxt'[d] = nxt[d]
  BY DEF LoopLock, LoopTo, Types, TypeOK
<1>3. \A p \in Procs : HandInv(p)' /\ YieldInv(p)' /\ LinkInv(p)'
  BY <1>1 DEF Owned, HandInv, YieldInv, LinkInv, InHand, Linking, Yielding,
              threadVars, callVars
<1>4. \A d \in Cores : CpuInv(d)' /\ RunInv(d)' /\ PoppedInv(d)'
  BY <1>1, <1>2 DEF Owned, CpuInv, RunInv, PoppedInv, callVars
<1>5. \A d \in Cores : Spells(d)' /\ ReadyInv(d)' /\ OnceInv(d)' /\ SavedInv(d)'
  <2>1. \A d \in Cores : Spells(d)'
    BY <1>1 DEF Owned, Spells
  <2>2. \A d \in Cores : ReadyInv(d)' /\ OnceInv(d)'
    BY <1>1 DEF Owned, ReadyInv, OnceInv
  <2>3. \A d \in Cores : SavedInv(d)'
    BY <1>1 DEF Owned, SavedInv, threadVars, callVars
  <2> QED
    BY <2>1, <2>2, <2>3
<1>6. \A d \in APs : LoopInv(d)'
  BY <1>1, <1>2 DEF Owned, LoopInv, threadVars
<1> QED
  BY <1>3, <1>4, <1>5, <1>6 DEF Owned

\* The pop: the head leaves the list and is in the loop's hand.
LEMMA AdvanceLoop ==
    ASSUME Types, Types', QueueMutex, Owned, NEW c \in APs, LoopAdvance(c)
    PROVE  Owned'
<1>0. c \in Cores /\ c # Bsp /\ Idle \notin Procs /\ Idle \notin Threads
  BY ConstantsAssumption DEF Cores, Procs
<1>1. /\ UNCHANGED <<next, threadVars, callVars, nxt, cur_thread, cpu>>
      /\ lpc[c] = "advance" /\ cpu[c] = Idle
  BY DEF LoopAdvance, InLoop
<1>2. stack[c] # <<>> /\ nxt[c] = ready_list[c]
  BY <1>1 DEF Owned, LoopInv
<1>3. PICK n \in Nat \ {0} : n = Len(stack[c])
  BY <1>0, <1>2, EmptySeq DEF Types, TypeOK
<1>4. stack[c] \in Seq(Threads) /\ stack[c][n] \in Threads /\ n \in 1..n
  BY <1>0, <1>3, ElementOfSeq DEF Types, TypeOK
<1>5. /\ nxt[c] = stack[c][n] /\ nxt[c] \in Threads
      /\ next[nxt[c]] = IF n = 1 THEN NULL ELSE stack[c][n - 1]
  <2>1. Spells(c)
    BY <1>0 DEF Owned
  <2> QED
    BY <1>2, <1>3, <1>4, <2>1 DEF Spells
<1>6. /\ Len(stack'[c]) = n - 1
      /\ \A i \in 1..(n - 1) : stack'[c][i] = stack[c][i]
      /\ \A d \in Cores : d # c => stack'[d] = stack[d]
  <2>1. stack' = [stack EXCEPT ![c] = SubSeq(stack[c], 1, n - 1)]
    BY <1>0, <1>2, <1>3 DEF LoopAdvance, Types, TypeOK
  <2>2. /\ Len(SubSeq(stack[c], 1, n - 1)) = n - 1
        /\ \A i \in 1..(n - 1) : SubSeq(stack[c], 1, n - 1)[i] = stack[c][i]
    BY <1>2, <1>3, <1>4, FrontType
  <2> QED
    BY <1>0, <2>1, <2>2 DEF Types, TypeOK
<1>7. /\ \A t \in Threads : place'[t] = IF t = nxt[c] THEN <<"popped", c>> ELSE place[t]
      /\ \A d \in Cores : ready_list'[d] = IF d = c THEN next[nxt[c]] ELSE ready_list[d]
      /\ \A d \in APs : lpc'[d] = IF d = c THEN "dispatch" ELSE lpc[d]
  BY <1>5 DEF LoopAdvance, LoopTo, Types, TypeOK
<1>8. place[nxt[c]] = <<"ready", c>> /\ nxt[c] \in saved
  <2>1. ReadyInv(c) /\ SavedInv(c)
    BY <1>0 DEF Owned
  <2>2. n \in 1..Len(stack[c])
    BY <1>3
  <2>3. place[stack[c][n]] = <<"ready", c>>
    BY <2>1, <2>2 DEF ReadyInv
  <2>4. stack[c][n] \in saved \/ cpu[c] = stack[c][n]
    BY <2>1, <2>2 DEF SavedInv
  <2>5. cpu[c] # stack[c][n]
    BY <1>0, <1>1, <1>4
  <2> QED
    BY <1>5, <2>3, <2>4, <2>5
<1>9. \A p \in Procs : HandInv(p)'
  BY <1>1, <1>7, <1>8 DEF Owned, HandInv, InHand, threadVars, callVars
<1>10. \A p \in Procs : YieldInv(p)'
  <2>1. \A p \in Procs : ppc[p] = "yield_switch" => p # nxt[c]
    BY <1>0, <1>1, <1>8 DEF Owned, YieldInv, Yielding
  <2> QED
    BY <1>1, <1>7, <2>1 DEF Owned, YieldInv, Yielding, callVars
<1>11. \A p \in Procs : LinkInv(p)'
  <2>1. Idle \in InQueue(c) /\ \A p \in Procs : Linking(p) /\ tgt[p] = c => p \in InQueue(c)
    BY <1>1 DEF InQueue, Linking
  <2>2. \A p \in Procs : ~(Linking(p) /\ tgt[p] = c)
    BY <1>0, <2>1 DEF QueueMutex
  <2>3. \A p \in Procs : tgt[p] \in Cores
    BY DEF Types, TypeOK
  <2> QED
    BY <1>1, <1>7, <2>2, <2>3 DEF Owned, LinkInv, Linking, callVars
<1>12. \A d \in Cores : CpuInv(d)' /\ RunInv(d)'
  BY <1>1, <1>7, <1>8 DEF Owned, CpuInv, RunInv, callVars
<1>13. \A d \in Cores : PoppedInv(d)'
  BY <1>1, <1>5, <1>7 DEF Owned, PoppedInv
<1>14. \A d \in Cores : Spells(d)'
  <2>1. ASSUME NEW d \in Cores, d # c PROVE Spells(d)'
    BY <1>1, <1>6, <1>7, <2>1 DEF Owned, Spells
  <2>2. Spells(c)'
    <3>1. Spells(c)
      BY <1>0 DEF Owned
    <3>2. stack'[c] = <<>> <=> n = 1
      <4>1. stack'[c] \in Seq(Threads)
        BY <1>0 DEF Types, TypeOK
      <4>2. Len(stack'[c]) = 0 <=> stack'[c] = <<>>
        BY <4>1, EmptySeq
      <4> QED
        BY <1>3, <1>6, <4>2
    <3>3. ready_list'[c] = IF n = 1 THEN NULL ELSE stack[c][n - 1]
      BY <1>0, <1>5, <1>7
    <3>4. ready_list'[c] = IF stack'[c] = <<>> THEN NULL ELSE stack'[c][Len(stack'[c])]
      BY <1>3, <1>6, <3>2, <3>3
    <3>5. ASSUME NEW i \in 1..(n - 1)
          PROVE next'[stack'[c][i]] = IF i = 1 THEN NULL ELSE stack'[c][i - 1]
      <4>1. next[stack[c][i]] = IF i = 1 THEN NULL ELSE stack[c][i - 1]
        BY <1>3, <3>1 DEF Spells
      <4>2. stack'[c][i] = stack[c][i] /\ (i # 1 => stack'[c][i - 1] = stack[c][i - 1])
        BY <1>6
      <4> QED
        BY <1>1, <4>1, <4>2
    <3> QED
      BY <1>6, <3>4, <3>5 DEF Spells
  <2> QED
    BY <2>1, <2>2
<1>15. \A d \in Cores : ReadyInv(d)'
  <2>1. ASSUME NEW d \in Cores, d # c PROVE ReadyInv(d)'
    <3>1. ReadyInv(d) /\ stack'[d] = stack[d] /\ stack[d] \in Seq(Threads)
      BY <1>6, <2>1 DEF Owned, Types, TypeOK
    <3>2. \A i \in 1..Len(stack[d]) : stack[d][i] \in Threads
      BY <3>1, ElementOfSeq
    <3>3. \A i \in 1..Len(stack[d]) : place[stack[d][i]] = <<"ready", d>>
      BY <3>1 DEF ReadyInv
    <3>4. \A i \in 1..Len(stack[d]) : place'[stack[d][i]] = <<"ready", d>>
      <4>1. \A t \in Threads : place[t] = <<"ready", d>> => place'[t] = <<"ready", d>>
        BY <1>7, <1>8, <2>1
      <4> QED
        BY <3>2, <3>3, <4>1, Zenon
    <3>5. ASSUME NEW t \in Threads, place'[t] = <<"ready", d>>
          PROVE \E i \in 1..Len(stack[d]) : stack[d][i] = t
      BY <1>7, <3>1, <3>5 DEF ReadyInv
    <3> QED
      BY <3>1, <3>4, <3>5 DEF ReadyInv
  <2>2. ReadyInv(c)'
    <3>1. ReadyInv(c) /\ OnceInv(c)
      BY <1>0 DEF Owned
    <3>2. \A i \in 1..n : stack[c][i] \in Threads
      BY <1>3, <1>4, ElementOfSeq
    <3>3. \A i \in 1..(n - 1) : stack[c][i] # nxt[c]
      BY <1>3, <1>5, <3>1 DEF OnceInv
    <3>4. ASSUME NEW i \in 1..(n - 1) PROVE place'[stack'[c][i]] = <<"ready", c>>
      <4>0. i \in 1..n
        OBVIOUS
      <4>1. place[stack[c][i]] = <<"ready", c>>
        BY <1>3, <3>1, <4>0 DEF ReadyInv
      <4>2. stack[c][i] \in Threads /\ stack[c][i] # nxt[c] /\ stack'[c][i] = stack[c][i]
        BY <1>6, <3>2, <3>3, <4>0
      <4> QED
        BY <1>7, <4>1, <4>2
    <3>5. ASSUME NEW t \in Threads, place'[t] = <<"ready", c>>
          PROVE \E i \in 1..(n - 1) : stack'[c][i] = t
      <4>1. t # nxt[c] /\ place[t] = <<"ready", c>>
        BY <1>7, <3>5
      <4>2. PICK i \in 1..n : stack[c][i] = t
        BY <1>3, <3>1, <4>1 DEF ReadyInv
      <4>3. i \in 1..(n - 1)
        BY <1>3, <1>5, <4>1, <4>2
      <4> QED
        BY <1>6, <4>2, <4>3
    <3> QED
      BY <1>6, <3>4, <3>5 DEF ReadyInv
  <2> QED
    BY <2>1, <2>2
<1>16. \A d \in Cores : OnceInv(d)'
  <2>1. ASSUME NEW d \in Cores, d # c PROVE OnceInv(d)'
    <3>1. OnceInv(d) /\ stack'[d] = stack[d]
      BY <1>6, <2>1 DEF Owned
    <3> QED
      BY <3>1 DEF OnceInv
  <2>2. OnceInv(c)'
    <3>1. \A i, j \in 1..n : stack[c][i] = stack[c][j] => i = j
      BY <1>0, <1>3 DEF Owned, OnceInv
    <3>2. ASSUME NEW i \in 1..(n - 1), NEW j \in 1..(n - 1), stack'[c][i] = stack'[c][j]
          PROVE  i = j
      BY <1>6, <3>1, <3>2
    <3> QED
      BY <1>6, <3>2 DEF OnceInv
  <2> QED
    BY <2>1, <2>2
<1>17. \A d \in Cores : SavedInv(d)'
  <2>1. saved' = saved /\ cpu' = cpu /\ ppc' = ppc
    BY <1>1 DEF threadVars, callVars
  <2>2. ASSUME NEW d \in Cores, d # c PROVE SavedInv(d)'
    <3>1. SavedInv(d) /\ stack'[d] = stack[d]
      BY <1>6, <2>2 DEF Owned
    <3> QED
      BY <2>1, <3>1 DEF SavedInv
  <2>3. SavedInv(c)'
    <3>1. SavedInv(c)
      BY <1>0 DEF Owned
    <3>2. ASSUME NEW i \in 1..(n - 1)
          PROVE  /\ stack'[c][i] = stack[c][i]
                 /\ stack[c][i] \in saved \/ (cpu[c] = stack[c][i] /\ ppc[stack[c][i]] = "yield_switch")
      <4>1. i \in 1..Len(stack[c])
        BY <1>3
      <4> QED
        BY <1>6, <3>1, <4>1 DEF SavedInv
    <3> QED
      BY <1>6, <2>1, <3>2 DEF SavedInv
  <2> QED
    BY <2>2, <2>3
<1>18. \A d \in APs : LoopInv(d)'
  <2>1. ASSUME NEW d \in APs, d # c PROVE LoopInv(d)'
    <3>1. d \in Cores /\ LoopInv(d) /\ stack'[d] = stack[d]
      BY <1>6, <2>1 DEF Owned, Cores
    <3>2. lpc'[d] = lpc[d] /\ ready_list'[d] = ready_list[d]
      BY <1>7, <2>1, <3>1
    <3>3. lpc[d] = "dispatch" => place'[nxt[d]] = place[nxt[d]]
      BY <1>7, <1>8, <3>1 DEF LoopInv
    <3> QED
      BY <1>1, <3>1, <3>2, <3>3 DEF LoopInv, threadVars
  <2>2. LoopInv(c)'
    BY <1>1, <1>5, <1>7, <1>8 DEF LoopInv, threadVars
  <2> QED
    BY <2>1, <2>2
<1> QED
  BY <1>9, <1>10, <1>11, <1>12, <1>13, <1>14, <1>15, <1>16, <1>17, <1>18 DEF Owned

\* The thread that runs is where place says, unless it is leaving.
LEMMA OnCpu ==
    ASSUME Owned, NEW c \in Cores, NEW t \in Threads, cpu[c] = t
    PROVE  \/ ppc[t] # "yield_switch" /\ place[t] = <<"cpu", c>>
           \/ ppc[t] = "yield_switch" /\ tgt[t] = c /\ place[t] = <<"ready", c>>
<1>1. RunInv(c) /\ YieldInv(t)
  BY DEF Owned, Procs
<1> QED
  BY <1>1 DEF RunInv, YieldInv

\* What a call is about to link is in the caller's hand, or is the caller.
LEMMA ArgPlace ==
    ASSUME Types, Owned, NEW p \in Procs,
           ppc[p] \in {"push_lock", "push_link", "yield_lock", "yield_link"}
    PROVE  /\ arg[p] \in Threads /\ tgt[p] \in Cores
           /\ InHand(p) => arg[p] \in saved /\ place[arg[p]] = <<"new", p>>
           /\ ~InHand(p) => arg[p] = p /\ cpu[tgt[p]] = p /\ place[p] = <<"cpu", tgt[p]>>
<1>1. HandInv(p) /\ YieldInv(p) /\ tgt[p] \in Cores
  BY DEF Owned, Types, TypeOK
<1>2. ~InHand(p) => p \in Threads /\ arg[p] = p /\ cpu[tgt[p]] = p /\ ppc[p] # "yield_switch"
  BY <1>1 DEF InHand, YieldInv, Yielding
<1>3. ~InHand(p) => place[p] = <<"cpu", tgt[p]>>
  BY <1>1, <1>2, OnCpu
<1> QED
  BY <1>1, <1>2, <1>3 DEF HandInv

\* The switch to the popped thread.
LEMMA DispatchLoop ==
    ASSUME Types, Owned, NEW c \in APs, LoopDispatch(c)
    PROVE  Owned'
<1>0. c \in Cores /\ c # Bsp /\ Idle \notin Procs /\ Idle \notin Threads
  BY ConstantsAssumption DEF Cores, Procs
<1>1. /\ UNCHANGED <<ready_list, next, stack, callVars>>
      /\ lpc[c] = "dispatch" /\ cpu[c] = Idle
  BY DEF LoopDispatch, InLoop
<1>2. PICK t \in Threads \cap saved : nxt[c] = t /\ place[t] = <<"popped", c>>
  BY <1>1 DEF Owned, LoopInv
<1>3. /\ \A u \in Threads : place'[u] = IF u = t THEN <<"cpu", c>> ELSE place[u]
      /\ saved' = saved \ {t}
      /\ \A d \in Cores : cpu'[d] = IF d = c THEN t ELSE cpu[d]
      /\ \A d \in Cores : cur_thread'[d] = IF d = c THEN t ELSE cur_thread[d]
      /\ \A d \in APs : lpc'[d] = IF d = c THEN "top" ELSE lpc[d]
      /\ \A d \in APs : nxt'[d] = IF d = c THEN NULL ELSE nxt[d]
  BY <1>0, <1>2 DEF LoopDispatch, LoopTo, Types, TypeOK
<1>4. t \in Procs /\ ppc[t] # "yield_switch" /\ \A d \in Cores : cpu[d] # t
  <2>1. YieldInv(t) /\ t \in Procs
    BY DEF Owned, Procs
  <2>2. ppc[t] # "yield_switch"
    BY <1>2, <2>1 DEF YieldInv
  <2>3. \A d \in Cores : cpu[d] # t
    BY <1>2, <2>2, OnCpu
  <2> QED
    BY <2>1, <2>2, <2>3
<1>5. \A p \in Procs : HandInv(p)'
  BY <1>1, <1>2, <1>3 DEF Owned, HandInv, InHand, callVars
<1>6. \A p \in Procs : YieldInv(p)'
  <2> SUFFICES ASSUME NEW p \in Procs PROVE YieldInv(p)'
    OBVIOUS
  <2>1. YieldInv(p) /\ tgt[p] \in Cores
    BY DEF Owned, Types, TypeOK
  <2>2. Yielding(p) => tgt[p] # c
    BY <1>0, <1>1, <2>1 DEF YieldInv
  <2>3. ppc[p] = "yield_switch" => p # t
    BY <1>4
  <2> QED
    BY <1>1, <1>3, <2>1, <2>2, <2>3 DEF YieldInv, Yielding, callVars
<1>7. \A p \in Procs : LinkInv(p)'
  BY <1>1 DEF Owned, LinkInv, Linking, callVars
<1>8. \A d \in Cores : CpuInv(d)'
  <2>1. ASSUME NEW d \in Cores, d # c PROVE CpuInv(d)'
    BY <1>3, <2>1 DEF Owned, CpuInv
  <2>2. CpuInv(c)'
    BY <1>0, <1>3 DEF CpuInv
  <2> QED
    BY <2>1, <2>2
<1>9. \A d \in Cores : RunInv(d)'
  <2>1. ASSUME NEW d \in Cores, d # c PROVE RunInv(d)'
    <3>1. RunInv(d) /\ cpu'[d] = cpu[d] /\ cpu[d] # t
      BY <1>3, <1>4, <2>1 DEF Owned
    <3>2. \A u \in Threads : place'[u] = <<"cpu", d>> <=> place[u] = <<"cpu", d>>
      BY <1>2, <1>3, <2>1
    <3> QED
      BY <1>1, <3>1, <3>2 DEF RunInv, callVars
  <2>2. RunInv(c)'
    <3>1. RunInv(c) /\ cpu'[c] = t
      BY <1>0, <1>3 DEF Owned
    <3>2. \A u \in Threads : u # t => place'[u] # <<"cpu", c>>
      BY <1>0, <1>1, <1>3, <3>1 DEF RunInv
    <3> QED
      BY <1>1, <1>3, <1>4, <3>1, <3>2 DEF RunInv, callVars
  <2> QED
    BY <2>1, <2>2
<1>10. \A d \in Cores : PoppedInv(d)'
  <2>1. ASSUME NEW d \in Cores, NEW u \in Threads, place'[u] = <<"popped", d>>
        PROVE  d \in APs /\ lpc'[d] = "dispatch" /\ nxt'[d] = u
    <3>1. u # t /\ place[u] = <<"popped", d>>
      BY <1>3, <2>1
    <3>2. d \in APs /\ lpc[d] = "dispatch" /\ nxt[d] = u
      BY <3>1 DEF Owned, PoppedInv
    <3> QED
      BY <1>2, <1>3, <3>1, <3>2
  <2> QED
    BY <2>1 DEF PoppedInv
<1>11. \A d \in Cores : Spells(d)' /\ OnceInv(d)'
  <2>1. \A d \in Cores : Spells(d)'
    BY <1>1 DEF Owned, Spells
  <2>2. \A d \in Cores : OnceInv(d)'
    BY <1>1 DEF Owned, OnceInv
  <2> QED
    BY <2>1, <2>2
<1>12. ASSUME NEW d \in Cores, NEW i \in 1..Len(stack[d])
       PROVE  /\ stack[d][i] \in Threads /\ stack[d][i] # t
              /\ place'[stack[d][i]] = <<"ready", d>>
  <2>1. place[stack[d][i]] = <<"ready", d>>
    BY DEF Owned, ReadyInv
  <2>2. stack[d][i] \in Threads
    BY ElementOfSeq DEF Types, TypeOK
  <2> QED
    BY <1>2, <1>3, <2>1, <2>2
<1>13. \A d \in Cores : ReadyInv(d)'
  <2>1. ASSUME NEW d \in Cores, NEW u \in Threads, place'[u] = <<"ready", d>>
        PROVE  \E i \in 1..Len(stack[d]) : stack[d][i] = u
    BY <1>3, <2>1 DEF Owned, ReadyInv
  <2> QED
    BY <1>1, <1>12, <2>1 DEF ReadyInv
<1>14. \A d \in Cores : SavedInv(d)'
  <2>1. ASSUME NEW d \in Cores, NEW i \in 1..Len(stack[d])
        PROVE  \/ stack[d][i] \in saved'
               \/ cpu'[d] = stack[d][i] /\ ppc[stack[d][i]] = "yield_switch"
    <3>1. stack[d][i] \in Threads /\ stack[d][i] # t
      BY <1>12
    <3>2. \/ stack[d][i] \in saved
          \/ cpu[d] = stack[d][i] /\ ppc[stack[d][i]] = "yield_switch"
      BY DEF Owned, SavedInv
    <3> QED
      BY <1>0, <1>1, <1>3, <3>1, <3>2
  <2> QED
    BY <1>1, <2>1 DEF SavedInv, callVars
<1>15. \A d \in APs : LoopInv(d)'
  <2>1. ASSUME NEW d \in APs, d # c PROVE LoopInv(d)'
    <3>1. d \in Cores /\ LoopInv(d) /\ cpu'[d] = cpu[d] /\ lpc'[d] = lpc[d] /\ nxt'[d] = nxt[d]
      BY <1>3, <2>1 DEF Owned, Cores
    <3>2. lpc[d] = "dispatch" => /\ nxt[d] \in Threads \cap saved'
                                 /\ place'[nxt[d]] = <<"popped", d>>
      BY <1>2, <1>3, <2>1, <3>1 DEF LoopInv
    <3> QED
      BY <1>1, <3>1, <3>2 DEF LoopInv
  <2>2. LoopInv(c)'
    BY <1>3 DEF LoopInv
  <2> QED
    BY <2>1, <2>2
<1> QED
  BY <1>5, <1>6, <1>7, <1>8, <1>9, <1>10, <1>11, <1>13, <1>14, <1>15 DEF Owned

-----------------------------------------------------------------------------
(* Steps of a call. *)

\* Steps of p that move no thread and neither begin nor advance an enqueue.
LEMMA QuietCall ==
    ASSUME Types, Owned, NEW p \in Procs,
           \/ \E c \in Cores : Command(p, c)
           \/ \E v \in BOOLEAN : SetReserve(p, v)
           \/ CheckStatus(p) \/ SendWakeup(p)
    PROVE  Owned'
<1>1. UNCHANGED <<listVars, threadVars, loopVars, cur_thread, cpu>>
  BY DEF Command, SetReserve, CheckStatus, SendWakeup
<1>2. /\ ppc[p] \in {"run", "cmd_lock", "push_check", "cmd_check", "push_wake", "cmd_wake"}
      /\ ppc'[p] \in {"run", "cmd_lock", "cmd_check", "push_wake", "cmd_wake"}
  BY DEF Command, SetReserve, CheckStatus, SendWakeup, At, CallTo, Return, Types, TypeOK
<1>3. \A q \in Procs : q # p => ppc'[q] = ppc[q] /\ tgt'[q] = tgt[q] /\ arg'[q] = arg[q]
  BY DEF Command, SetReserve, CheckStatus, SendWakeup, CallTo, Return, Types, TypeOK
<1>4. ~InHand(p) /\ ~InHand(p)' /\ ~Yielding(p) /\ ~Yielding(p)' /\ ~Linking(p) /\ ~Linking(p)'
  BY <1>2 DEF InHand, Yielding, Linking
<1>5. \A q \in Procs : HandInv(q)' /\ YieldInv(q)' /\ LinkInv(q)'
  <2>1. ASSUME NEW q \in Procs, q # p PROVE HandInv(q)' /\ YieldInv(q)' /\ LinkInv(q)'
    <3>1. HandInv(q) /\ YieldInv(q) /\ LinkInv(q)
      BY DEF Owned
    <3> QED
      BY <1>1, <1>3, <2>1, <3>1 DEF HandInv, YieldInv, LinkInv, InHand, Yielding, Linking,
                                    listVars, threadVars
  <2>2. HandInv(p)' /\ YieldInv(p)' /\ LinkInv(p)'
    <3>1. HandInv(p)
      BY DEF Owned
    <3>2. ppc'[p] # "yield_switch"
      BY <1>2
    <3> QED
      BY <1>1, <1>4, <3>1, <3>2 DEF HandInv, YieldInv, LinkInv, listVars, threadVars
  <2> QED
    BY <2>1, <2>2
<1>6. \A t \in Threads : ppc'[t] = "yield_switch" <=> ppc[t] = "yield_switch"
  BY <1>2, <1>3 DEF Procs
<1>7. \A t \in Threads : ppc[t] = "yield_switch" => tgt'[t] = tgt[t]
  BY <1>2, <1>3 DEF Procs
<1>8. \A c \in Cores : CpuInv(c)' /\ RunInv(c)' /\ PoppedInv(c)'
  <2>1. \A c \in Cores : CpuInv(c)' /\ PoppedInv(c)'
    BY <1>1 DEF Owned, CpuInv, PoppedInv, listVars, loopVars
  <2>2. \A c \in Cores : RunInv(c)'
    BY <1>1, <1>6, <1>7 DEF Owned, RunInv, listVars
  <2> QED
    BY <2>1, <2>2
<1>9. \A c \in Cores : Spells(c)' /\ ReadyInv(c)' /\ OnceInv(c)' /\ SavedInv(c)'
  <2>1. \A c \in Cores : Spells(c)'
    BY <1>1 DEF Owned, Spells, listVars
  <2>2. \A c \in Cores : ReadyInv(c)' /\ OnceInv(c)'
    BY <1>1 DEF Owned, ReadyInv, OnceInv, listVars
  <2>3. ASSUME NEW c \in Cores PROVE SavedInv(c)'
    <3>1. SavedInv(c) /\ stack[c] \in Seq(Threads)
      BY DEF Owned, Types, TypeOK
    <3>2. \A i \in 1..Len(stack[c]) : stack[c][i] \in Threads
      BY <3>1, ElementOfSeq
    <3> QED
      BY <1>1, <1>6, <3>1, <3>2 DEF SavedInv, listVars, threadVars
  <2> QED
    BY <2>1, <2>2, <2>3
<1>10. \A c \in APs : LoopInv(c)'
  BY <1>1 DEF Owned, LoopInv, listVars, threadVars, loopVars
<1> QED
  BY <1>5, <1>8, <1>9, <1>10 DEF Owned

\* A new thread is in its creator's hand.
LEMMA PushCall ==
    ASSUME Types, Owned, NEW p \in Procs, NEW c \in Cores, NEW t \in Threads,
           PushTask(p, c, t)
    PROVE  Owned'
<1>0. NULL \notin Threads /\ Main \notin Threads /\ Idle \notin Threads
  BY ConstantsAssumption DEF Procs
<1>1. /\ UNCHANGED <<ready_list, next, stack, loopVars, cur_thread, cpu>>
      /\ ppc[p] = "run" /\ place[t] = Nowhere
      /\ saved' = saved \cup {t}
      /\ \E d \in Cores : cpu[d] = p
  BY <1>0 DEF PushTask, At
<1>2. /\ \A u \in Threads : place'[u] = IF u = t THEN <<"new", p>> ELSE place[u]
      /\ \A q \in Procs : IF q = p THEN ppc'[q] = "push_lock" /\ arg'[q] = t
                                   ELSE ppc'[q] = ppc[q] /\ arg'[q] = arg[q] /\ tgt'[q] = tgt[q]
  BY <1>0 DEF PushTask, CallTo, Types, TypeOK
<1>3. /\ \A q \in Procs : place[t] # <<"new", q>>
      /\ \A d \in Cores : place[t] # <<"ready", d>> /\ place[t] # <<"popped", d>>
                           /\ place[t] # <<"cpu", d>>
  BY <1>1 DEF Nowhere
<1>4. t \in Procs /\ ppc[t] # "yield_switch" /\ \A d \in Cores : cpu[d] # t
  <2>1. YieldInv(t) /\ t \in Procs /\ tgt[t] \in Cores
    BY DEF Owned, Procs, Types, TypeOK
  <2>2. ppc[t] # "yield_switch"
    BY <1>3, <2>1 DEF YieldInv
  <2> QED
    BY <1>3, <2>1, <2>2, OnCpu
<1>5. \A q \in Procs : HandInv(q)'
  <2>1. ASSUME NEW q \in Procs, q # p PROVE HandInv(q)'
    <3>1. HandInv(q) /\ (InHand(q)' <=> InHand(q)) /\ arg'[q] = arg[q]
      BY <1>2, <2>1 DEF Owned, InHand
    <3>2. InHand(q) => arg[q] \in Threads \cap saved' /\ place'[arg[q]] = <<"new", q>>
      BY <1>1, <1>2, <1>3, <3>1 DEF HandInv
    <3>3. \A u \in Threads : place'[u] = <<"new", q>> => place[u] = <<"new", q>>
      BY <1>2, <2>1
    <3> QED
      BY <3>1, <3>2, <3>3 DEF HandInv
  <2>2. HandInv(p)'
    <3>1. HandInv(p) /\ ~InHand(p) /\ InHand(p)' /\ arg'[p] = t
      BY <1>1, <1>2 DEF Owned, InHand
    <3> QED
      BY <1>1, <1>2, <3>1 DEF HandInv
  <2> QED
    BY <2>1, <2>2
<1>6. \A q \in Procs : YieldInv(q)' /\ LinkInv(q)'
  <2>1. ASSUME NEW q \in Procs, q # p PROVE YieldInv(q)' /\ LinkInv(q)'
    <3>1. YieldInv(q) /\ LinkInv(q)
      BY DEF Owned
    <3>2. ppc'[q] = ppc[q] /\ tgt'[q] = tgt[q] /\ arg'[q] = arg[q]
      BY <1>2, <2>1
    <3>3. ppc[q] = "yield_switch" => q \in Threads /\ q # t
      BY <1>4, <3>1 DEF YieldInv, Yielding
    <3>4. YieldInv(q)'
      BY <1>1, <1>2, <3>1, <3>2, <3>3 DEF YieldInv, Yielding
    <3>5. LinkInv(q)'
      BY <1>1, <3>1, <3>2 DEF LinkInv, Linking
    <3> QED
      BY <3>4, <3>5
  <2>2. YieldInv(p)' /\ LinkInv(p)'
    BY <1>2 DEF YieldInv, LinkInv, Yielding, Linking
  <2> QED
    BY <2>1, <2>2
<1>7. \A u \in Threads : /\ ppc'[u] = "yield_switch" <=> ppc[u] = "yield_switch"
                         /\ ppc[u] = "yield_switch" => tgt'[u] = tgt[u]
  BY <1>1, <1>2 DEF Procs
<1>8. \A d \in Cores : CpuInv(d)'
  BY <1>1 DEF Owned, CpuInv
<1>9. \A d \in Cores : RunInv(d)'
  <2> SUFFICES ASSUME NEW d \in Cores PROVE RunInv(d)'
    OBVIOUS
  <2>1. RunInv(d) /\ cpu'[d] = cpu[d] /\ cpu[d] # t
    BY <1>1, <1>4 DEF Owned
  <2>2. \A u \in Threads : place'[u] = <<"cpu", d>> => u # t /\ place[u] = <<"cpu", d>>
    BY <1>2
  <2>3. \A u \in Threads : u # t => place'[u] = place[u]
    BY <1>2
  <2> QED
    BY <1>7, <2>1, <2>2, <2>3 DEF RunInv
<1>10. \A d \in Cores : PoppedInv(d)'
  BY <1>1, <1>2 DEF Owned, PoppedInv, loopVars
<1>11. \A d \in Cores : Spells(d)' /\ OnceInv(d)'
  <2>1. \A d \in Cores : Spells(d)'
    BY <1>1 DEF Owned, Spells
  <2>2. \A d \in Cores : OnceInv(d)'
    BY <1>1 DEF Owned, OnceInv
  <2> QED
    BY <2>1, <2>2
<1>12. ASSUME NEW d \in Cores, NEW i \in 1..Len(stack[d])
       PROVE  stack[d][i] \in Threads /\ place'[stack[d][i]] = <<"ready", d>>
  <2>1. place[stack[d][i]] = <<"ready", d>>
    BY DEF Owned, ReadyInv
  <2>2. stack[d][i] \in Threads
    BY ElementOfSeq DEF Types, TypeOK
  <2> QED
    BY <1>2, <1>3, <2>1, <2>2
<1>13. \A d \in Cores : ReadyInv(d)'
  <2>1. ASSUME NEW d \in Cores, NEW u \in Threads, place'[u] = <<"ready", d>>
        PROVE  \E i \in 1..Len(stack[d]) : stack[d][i] = u
    BY <1>2, <2>1 DEF Owned, ReadyInv
  <2> QED
    BY <1>1, <1>12, <2>1 DEF ReadyInv
<1>14. \A d \in Cores : SavedInv(d)'
  <2>1. ASSUME NEW d \in Cores, NEW i \in 1..Len(stack[d])
        PROVE  \/ stack[d][i] \in saved'
               \/ cpu[d] = stack[d][i] /\ ppc'[stack[d][i]] = "yield_switch"
    <3>1. stack[d][i] \in Threads
      BY <1>12
    <3>2. \/ stack[d][i] \in saved
          \/ cpu[d] = stack[d][i] /\ ppc[stack[d][i]] = "yield_switch"
      BY DEF Owned, SavedInv
    <3> QED
      BY <1>1, <1>7, <3>1, <3>2
  <2> QED
    BY <1>1, <2>1 DEF SavedInv
<1>15. \A d \in APs : LoopInv(d)'
  <2> SUFFICES ASSUME NEW d \in APs PROVE LoopInv(d)'
    OBVIOUS
  <2>1. LoopInv(d) /\ d \in Cores
    BY DEF Owned, Cores
  <2>2. lpc[d] = "dispatch" => nxt[d] \in Threads \cap saved' /\ place'[nxt[d]] = <<"popped", d>>
    BY <1>1, <1>2, <1>3, <2>1 DEF LoopInv
  <2> QED
    BY <1>1, <2>1, <2>2 DEF LoopInv, loopVars
<1> QED
  BY <1>5, <1>6, <1>8, <1>9, <1>10, <1>11, <1>13, <1>14, <1>15 DEF Owned

\* Only the thread that runs on its core yields.
LEMMA YieldCall ==
    ASSUME Types, Owned, NEW p \in Procs, NEW c \in Cores, Yield(p, c)
    PROVE  Owned'
<1>1. /\ UNCHANGED <<listVars, saved, loopVars, cur_thread, cpu>>
      /\ ppc[p] = "run" /\ cpu[c] = p /\ cur_thread[c] # Idle
  BY DEF Yield, At
<1>2. p \in Threads /\ cur_thread[c] = p
  BY <1>1 DEF Owned, CpuInv
<1>3. \A q \in Procs : IF q = p THEN ppc'[q] = "yield_lock" /\ arg'[q] = p /\ tgt'[q] = c
                                ELSE ppc'[q] = ppc[q] /\ arg'[q] = arg[q] /\ tgt'[q] = tgt[q]
  BY <1>2 DEF Yield, CallTo, Types, TypeOK
<1>4. \A q \in Procs : HandInv(q)' /\ YieldInv(q)' /\ LinkInv(q)'
  <2>1. ASSUME NEW q \in Procs, q # p PROVE HandInv(q)' /\ YieldInv(q)' /\ LinkInv(q)'
    <3>1. HandInv(q) /\ YieldInv(q) /\ LinkInv(q)
      BY DEF Owned
    <3> QED
      BY <1>1, <1>3, <2>1, <3>1 DEF HandInv, YieldInv, LinkInv, InHand, Yielding, Linking,
                                    listVars
  <2>2. HandInv(p)' /\ YieldInv(p)' /\ LinkInv(p)'
    <3>1. HandInv(p) /\ ~InHand(p) /\ ~InHand(p)'
      BY <1>1, <1>3 DEF Owned, InHand
    <3>2. HandInv(p)'
      BY <1>1, <3>1 DEF HandInv, listVars
    <3>3. YieldInv(p)' /\ LinkInv(p)'
      BY <1>1, <1>2, <1>3 DEF YieldInv, LinkInv, Yielding, Linking
    <3> QED
      BY <3>2, <3>3
  <2> QED
    BY <2>1, <2>2
<1>5. \A t \in Threads : /\ ppc'[t] = "yield_switch" <=> ppc[t] = "yield_switch"
                         /\ ppc[t] = "yield_switch" => tgt'[t] = tgt[t]
  BY <1>1, <1>3 DEF Procs
<1>6. \A d \in Cores : CpuInv(d)' /\ RunInv(d)' /\ PoppedInv(d)'
  <2>1. \A d \in Cores : CpuInv(d)' /\ PoppedInv(d)'
    BY <1>1 DEF Owned, CpuInv, PoppedInv, listVars, loopVars
  <2>2. \A d \in Cores : RunInv(d)'
    BY <1>1, <1>5 DEF Owned, RunInv, listVars
  <2> QED
    BY <2>1, <2>2
<1>7. \A d \in Cores : Spells(d)' /\ ReadyInv(d)' /\ OnceInv(d)' /\ SavedInv(d)'
  <2>1. \A d \in Cores : Spells(d)'
    BY <1>1 DEF Owned, Spells, listVars
  <2>2. \A d \in Cores : ReadyInv(d)' /\ OnceInv(d)'
    BY <1>1 DEF Owned, ReadyInv, OnceInv, listVars
  <2>3. ASSUME NEW d \in Cores PROVE SavedInv(d)'
    <3>1. SavedInv(d) /\ stack[d] \in Seq(Threads)
      BY DEF Owned, Types, TypeOK
    <3>2. \A i \in 1..Len(stack[d]) : stack[d][i] \in Threads
      BY <3>1, ElementOfSeq
    <3> QED
      BY <1>1, <1>5, <3>1, <3>2 DEF SavedInv, listVars
  <2> QED
    BY <2>1, <2>2, <2>3
<1>8. \A d \in APs : LoopInv(d)'
  BY <1>1 DEF Owned, LoopInv, listVars, loopVars
<1> QED
  BY <1>4, <1>6, <1>7, <1>8 DEF Owned

\* The link of the thread to enqueue is set, under the lock.
LEMMA LockCall ==
    ASSUME Types, Owned, NEW p \in Procs, LockQueue(p)
    PROVE  Owned'
<1>1. /\ UNCHANGED <<ready_list, stack, place, threadVars, loopVars, tgt, arg, cur_thread, cpu>>
      /\ \/ ppc[p] = "push_lock" /\ ppc'[p] = "push_link"
         \/ ppc[p] = "yield_lock" /\ ppc'[p] = "yield_link"
  BY DEF LockQueue, At, CallTo, Types, TypeOK
<1>2. \A q \in Procs : q # p => ppc'[q] = ppc[q]
  BY DEF LockQueue, CallTo, Types, TypeOK
<1>3. /\ arg[p] \in Threads /\ tgt[p] \in Cores
      /\ InHand(p) => place[arg[p]] = <<"new", p>>
      /\ ~InHand(p) => arg[p] = p /\ place[p] = <<"cpu", tgt[p]>>
  BY <1>1, ArgPlace
<1>4. \A u \in Threads : next'[u] = IF u = arg[p] THEN ready_list[tgt[p]] ELSE next[u]
  BY <1>3 DEF LockQueue, Types, TypeOK
<1>5. \A q \in Procs : /\ InHand(q)' <=> InHand(q)
                       /\ Yielding(q)' <=> Yielding(q)
                       /\ ppc'[q] = "yield_switch" <=> ppc[q] = "yield_switch"
                       /\ Linking(q)' <=> q = p \/ Linking(q)
  BY <1>1, <1>2 DEF InHand, Yielding, Linking
<1>6. \A q \in Procs : HandInv(q)' /\ YieldInv(q)'
  <2> SUFFICES ASSUME NEW q \in Procs PROVE HandInv(q)' /\ YieldInv(q)'
    OBVIOUS
  <2>1. HandInv(q) /\ YieldInv(q)
    BY DEF Owned
  <2> QED
    BY <1>1, <1>5, <2>1 DEF HandInv, YieldInv, threadVars
<1>7. \A q \in Procs : LinkInv(q)'
  <2>1. ASSUME NEW q \in Procs, q # p, Linking(q) PROVE LinkInv(q)'
    <3>1. LinkInv(q)
      BY DEF Owned
    <3>2. /\ arg[q] \in Threads
          /\ InHand(q) => place[arg[q]] = <<"new", q>>
          /\ ~InHand(q) => arg[q] = q /\ place[q] = <<"cpu", tgt[q]>>
      BY <2>1, ArgPlace DEF Linking
    <3>3. arg[q] # arg[p]
      BY <1>3, <2>1, <3>2
    <3> QED
      BY <1>1, <1>4, <2>1, <3>1, <3>2, <3>3 DEF LinkInv
  <2>2. LinkInv(p)'
    BY <1>1, <1>3, <1>4 DEF LinkInv
  <2> QED
    BY <1>5, <2>1, <2>2 DEF LinkInv
<1>8. \A d \in Cores : CpuInv(d)' /\ RunInv(d)' /\ PoppedInv(d)'
  <2>1. \A d \in Cores : CpuInv(d)' /\ PoppedInv(d)'
    BY <1>1 DEF Owned, CpuInv, PoppedInv, loopVars
  <2>2. \A d \in Cores : RunInv(d)'
    BY <1>1, <1>5 DEF Owned, RunInv, Procs
  <2> QED
    BY <2>1, <2>2
<1>9. ASSUME NEW d \in Cores, NEW i \in 1..Len(stack[d])
      PROVE  stack[d][i] \in Threads /\ next'[stack[d][i]] = next[stack[d][i]]
  <2>1. place[stack[d][i]] = <<"ready", d>>
    BY DEF Owned, ReadyInv
  <2>2. stack[d][i] \in Threads
    BY ElementOfSeq DEF Types, TypeOK
  <2> QED
    BY <1>3, <1>4, <2>1, <2>2
<1>10. \A d \in Cores : Spells(d)'
  <2>1. \A d \in Cores : Spells(d)
    BY DEF Owned
  <2> QED
    BY <1>1, <1>9, <2>1 DEF Spells
<1>11. \A d \in Cores : ReadyInv(d)' /\ OnceInv(d)'
  BY <1>1 DEF Owned, ReadyInv, OnceInv
<1>12. \A d \in Cores : SavedInv(d)'
  <2> SUFFICES ASSUME NEW d \in Cores PROVE SavedInv(d)'
    OBVIOUS
  <2>1. SavedInv(d)
    BY DEF Owned
  <2> QED
    BY <1>1, <1>5, <1>9, <2>1 DEF SavedInv, threadVars, Procs
<1>13. \A d \in APs : LoopInv(d)'
  BY <1>1 DEF Owned, LoopInv, threadVars, loopVars
<1> QED
  BY <1>6, <1>7, <1>8, <1>10, <1>11, <1>12, <1>13 DEF Owned

\* The switch back to the loop stores the context that yields.
LEMMA SwitchCall ==
    ASSUME Types, Owned, NEW p \in Procs, YieldSwitch(p)
    PROVE  Owned'
<1>0. Idle \notin Threads
  BY ConstantsAssumption DEF Procs
<1>1. UNCHANGED <<listVars, loopVars>> /\ ppc[p] = "yield_switch"
  BY DEF YieldSwitch, At
<1>2. PICK c \in Cores : c = tgt[p]
  BY DEF Types, TypeOK
<1>3. p \in Threads /\ arg[p] = p /\ cpu[c] = p /\ place[p] = <<"ready", c>>
  BY <1>1, <1>2 DEF Owned, YieldInv, Yielding
<1>4. /\ saved' = saved \cup {p}
      /\ \A d \in Cores : cpu'[d] = IF d = c THEN Idle ELSE cpu[d]
      /\ \A d \in Cores : cur_thread'[d] = IF d = c THEN Idle ELSE cur_thread[d]
      /\ \A q \in Procs : IF q = p THEN ppc'[q] = "run"
                          ELSE ppc'[q] = ppc[q] /\ arg'[q] = arg[q] /\ tgt'[q] = tgt[q]
  BY <1>2, <1>3 DEF YieldSwitch, Return, CallTo, Types, TypeOK
<1>5. \A d \in Cores : d # c => cpu[d] # p
  BY <1>1, <1>2, <1>3, OnCpu
<1>6. c \in APs
  <2>1. CpuInv(c)
    BY DEF Owned
  <2> QED
    BY <1>3, <2>1, ConstantsAssumption DEF CpuInv, Cores
<1>7. \A q \in Procs : HandInv(q)' /\ YieldInv(q)' /\ LinkInv(q)'
  <2>1. ASSUME NEW q \in Procs, q # p PROVE HandInv(q)' /\ YieldInv(q)' /\ LinkInv(q)'
    <3>1. HandInv(q) /\ YieldInv(q) /\ LinkInv(q) /\ tgt[q] \in Cores
      BY DEF Owned, Types, TypeOK
    <3>2. ppc'[q] = ppc[q] /\ tgt'[q] = tgt[q] /\ arg'[q] = arg[q]
      BY <1>4, <2>1
    <3>3. HandInv(q)' /\ LinkInv(q)'
      BY <1>1, <1>4, <3>1, <3>2 DEF HandInv, LinkInv, InHand, Linking, listVars
    <3>4. Yielding(q) => tgt[q] # c
      BY <1>3, <2>1, <3>1 DEF YieldInv
    <3>5. YieldInv(q)'
      BY <1>1, <1>4, <3>1, <3>2, <3>4 DEF YieldInv, Yielding, listVars
    <3> QED
      BY <3>3, <3>5
  <2>2. HandInv(p)' /\ YieldInv(p)' /\ LinkInv(p)'
    <3>1. HandInv(p) /\ ~InHand(p) /\ ~InHand(p)'
      BY <1>1, <1>3, <1>4 DEF Owned, InHand
    <3>2. HandInv(p)'
      BY <1>1, <3>1 DEF HandInv, listVars
    <3>3. YieldInv(p)' /\ LinkInv(p)'
      BY <1>4 DEF YieldInv, LinkInv, Yielding, Linking
    <3> QED
      BY <3>2, <3>3
  <2> QED
    BY <2>1, <2>2
<1>8. \A d \in Cores : CpuInv(d)'
  <2>1. ASSUME NEW d \in Cores, d # c PROVE CpuInv(d)'
    BY <1>4, <2>1 DEF Owned, CpuInv
  <2>2. CpuInv(c)'
    BY <1>0, <1>4, <1>6, ConstantsAssumption DEF CpuInv
  <2> QED
    BY <2>1, <2>2
<1>9. \A d \in Cores : RunInv(d)'
  <2>1. ASSUME NEW d \in Cores, d # c PROVE RunInv(d)'
    <3>1. RunInv(d) /\ cpu'[d] = cpu[d] /\ cpu[d] # p
      BY <1>4, <1>5, <2>1 DEF Owned
    <3>2. \A t \in Threads : t # p => ppc'[t] = ppc[t] /\ tgt'[t] = tgt[t]
      BY <1>4 DEF Procs
    <3>3. place[p] # <<"cpu", d>>
      BY <1>3
    <3> QED
      BY <1>1, <3>1, <3>2, <3>3 DEF RunInv, listVars
  <2>2. RunInv(c)'
    <3>1. RunInv(c) /\ cpu'[c] = Idle
      BY <1>4 DEF Owned
    <3>2. \A t \in Threads : place[t] # <<"cpu", c>>
      BY <1>1, <1>3, <3>1 DEF RunInv
    <3> QED
      BY <1>0, <1>1, <3>1, <3>2 DEF RunInv, listVars
  <2> QED
    BY <2>1, <2>2
<1>10. \A d \in Cores : PoppedInv(d)'
  BY <1>1 DEF Owned, PoppedInv, listVars, loopVars
<1>11. \A d \in Cores : Spells(d)'
  BY <1>1 DEF Owned, Spells, listVars
<1>12. \A d \in Cores : ReadyInv(d)' /\ OnceInv(d)'
  BY <1>1 DEF Owned, ReadyInv, OnceInv, listVars
<1>13. \A d \in Cores : SavedInv(d)'
  <2>1. ASSUME NEW d \in Cores, NEW i \in 1..Len(stack[d])
        PROVE  \/ stack[d][i] \in saved'
               \/ cpu'[d] = stack[d][i] /\ ppc'[stack[d][i]] = "yield_switch"
    <3>1. stack[d][i] \in Threads
      BY ElementOfSeq DEF Types, TypeOK
    <3>2. \/ stack[d][i] \in saved
          \/ cpu[d] = stack[d][i] /\ ppc[stack[d][i]] = "yield_switch"
      BY DEF Owned, SavedInv
    <3>3. CASE stack[d][i] = p
      BY <1>4, <3>3
    <3>4. CASE stack[d][i] # p
      <4>1. d = c => cpu[d] # stack[d][i]
        BY <1>3, <3>4
      <4> QED
        BY <1>4, <3>1, <3>2, <3>4, <4>1 DEF Procs
    <3> QED
      BY <3>3, <3>4
  <2> QED
    BY <1>1, <2>1 DEF SavedInv, listVars
<1>14. \A d \in APs : LoopInv(d)'
  <2> SUFFICES ASSUME NEW d \in APs PROVE LoopInv(d)'
    OBVIOUS
  <2>1. LoopInv(d) /\ d \in Cores
    BY DEF Owned, Cores
  <2>2. lpc[d] # "top" => cpu'[d] = Idle
    BY <1>4, <2>1 DEF LoopInv
  <2> QED
    BY <1>1, <1>4, <2>1, <2>2 DEF LoopInv, listVars, loopVars
<1> QED
  BY <1>7, <1>8, <1>9, <1>10, <1>11, <1>12, <1>13, <1>14 DEF Owned

\* The thread becomes the head of the list.
LEMMA LinkCall ==
    ASSUME Types, QueueMutex, Owned, NEW p \in Procs, Link(p)
    PROVE  Owned'
<1>0. NULL \notin Threads
  BY ConstantsAssumption DEF Procs
<1>1. /\ UNCHANGED <<next, threadVars, loopVars, tgt, arg, cur_thread, cpu>>
      /\ \/ ppc[p] = "push_link" /\ ppc'[p] = "push_check"
         \/ ppc[p] = "yield_link" /\ ppc'[p] = "yield_switch"
  BY DEF Link, At, CallTo, Types, TypeOK
<1>2. \A q \in Procs : q # p => ppc'[q] = ppc[q]
  BY DEF Link, CallTo, Types, TypeOK
<1>3. /\ arg[p] \in Threads /\ tgt[p] \in Cores
      /\ InHand(p) => arg[p] \in saved /\ place[arg[p]] = <<"new", p>>
      /\ ~InHand(p) => arg[p] = p /\ cpu[tgt[p]] = p /\ place[p] = <<"cpu", tgt[p]>>
  BY <1>1, ArgPlace
<1>4. PICK c \in Cores, t \in Threads : c = tgt[p] /\ t = arg[p]
  BY <1>3
<1>5. /\ \A u \in Threads : place'[u] = IF u = t THEN <<"ready", c>> ELSE place[u]
      /\ \A d \in Cores : ready_list'[d] = IF d = c THEN t ELSE ready_list[d]
      /\ \A d \in Cores : stack'[d] = IF d = c THEN Append(stack[c], t) ELSE stack[d]
  BY <1>0, <1>4 DEF Link, Types, TypeOK
<1>6. /\ \A d \in Cores : place[t] # <<"ready", d>> /\ place[t] # <<"popped", d>>
      /\ \A q \in Procs : place[t] = <<"new", q>> => q = p /\ InHand(p)
      /\ \A d \in Cores : place[t] = <<"cpu", d>> => ~InHand(p) /\ d = c
  BY <1>3, <1>4
\* No one else is at work on the list.
<1>7. /\ \A q \in Procs : Linking(q) /\ tgt[q] = c => q = p
      /\ c \in APs => lpc[c] # "advance"
  <2>1. p \in InQueue(c)
    BY <1>1, <1>4 DEF InQueue
  <2>2. \A q \in Procs : Linking(q) /\ tgt[q] = c => q \in InQueue(c)
    BY DEF InQueue, Linking
  <2>3. c \in APs /\ lpc[c] = "advance" => Idle \in InQueue(c)
    BY DEF InQueue
  <2>4. Idle # p
    BY ConstantsAssumption
  <2> QED
    BY <2>1, <2>2, <2>3, <2>4 DEF QueueMutex
<1>8. t \in Procs /\ \A d \in Cores : cpu[d] = t => ~InHand(p) /\ d = c /\ t = p
  <2>1. \A d \in Cores : cpu[d] = t => place[t] = <<"cpu", d>>
    BY <1>6, OnCpu
  <2> QED
    BY <1>3, <1>4, <1>6, <2>1 DEF Procs
<1>9. \A q \in Procs : HandInv(q)'
  <2>1. ASSUME NEW q \in Procs, q # p PROVE HandInv(q)'
    <3>1. HandInv(q) /\ (InHand(q)' <=> InHand(q)) /\ arg'[q] = arg[q]
      BY <1>1, <1>2, <2>1 DEF Owned, InHand
    <3>2. place[t] # <<"new", q>>
      BY <1>6, <2>1
    <3> QED
      BY <1>1, <1>5, <3>1, <3>2 DEF HandInv, threadVars
  <2>2. HandInv(p)'
    <3>1. HandInv(p) /\ ~InHand(p)'
      BY <1>1 DEF Owned, InHand
    <3>2. ASSUME NEW u \in Threads PROVE place'[u] # <<"new", p>>
      <4>1. place[u] = <<"new", p>> => u = t
        BY <1>4, <3>1 DEF HandInv
      <4> QED
        BY <1>5, <4>1
    <3> QED
      BY <3>1, <3>2 DEF HandInv
  <2> QED
    BY <2>1, <2>2
<1>10. \A q \in Procs : YieldInv(q)'
  <2>1. ASSUME NEW q \in Procs, q # p PROVE YieldInv(q)'
    <3>1. YieldInv(q) /\ tgt[q] \in Cores
      BY DEF Owned, Types, TypeOK
    <3>2. ppc[q] = "yield_switch" => q \in Threads /\ q # t
      BY <1>6, <3>1 DEF YieldInv, Yielding
    <3>3. ppc[q] = "yield_switch" => place'[q] = place[q]
      BY <1>5, <3>2
    <3> QED
      BY <1>1, <1>2, <2>1, <3>1, <3>3 DEF YieldInv, Yielding
  <2>2. YieldInv(p)'
    <3>1. YieldInv(p) /\ (Yielding(p)' => Yielding(p))
      BY <1>1 DEF Owned, Yielding
    <3>2. ppc'[p] = "yield_switch" => place'[p] = <<"ready", c>>
      BY <1>1, <1>3, <1>4, <1>5 DEF InHand
    <3> QED
      BY <1>1, <1>4, <3>1, <3>2 DEF YieldInv
  <2> QED
    BY <2>1, <2>2
<1>11. \A q \in Procs : LinkInv(q)'
  <2> SUFFICES ASSUME NEW q \in Procs, Linking(q)' PROVE LinkInv(q)'
    BY DEF LinkInv
  <2>1. q # p /\ Linking(q)
    BY <1>1, <1>2 DEF Linking
  <2>2. LinkInv(q) /\ tgt[q] \in Cores /\ tgt[q] # c
    BY <1>7, <2>1 DEF Owned, Types, TypeOK
  <2> QED
    BY <1>1, <1>5, <2>1, <2>2 DEF LinkInv
<1>12. \A d \in Cores : CpuInv(d)' /\ PoppedInv(d)'
  BY <1>1, <1>5 DEF Owned, CpuInv, PoppedInv, loopVars
<1>13. \A d \in Cores : RunInv(d)'
  <2> SUFFICES ASSUME NEW d \in Cores, NEW u \in Threads
               PROVE  /\ cpu[d] = u /\ ppc'[u] = "yield_switch" => tgt[u] = d
                      /\ cpu[d] = u /\ ppc'[u] # "yield_switch" => place'[u] = <<"cpu", d>>
                      /\ place'[u] = <<"cpu", d>> => cpu[d] = u /\ ppc'[u] # "yield_switch"
    BY <1>1 DEF RunInv
  <2>1. RunInv(d)
    BY DEF Owned
  <2>2. CASE u = t
    <3>1. place'[u] # <<"cpu", d>>
      BY <1>5, <2>2
    <3>2. cpu[d] = u => u = p /\ d = tgt[p] /\ ppc'[p] = "yield_switch"
      BY <1>1, <1>4, <1>8, <2>2 DEF InHand
    <3> QED
      BY <3>1, <3>2
  <2>3. CASE u # t
    <3>1. place'[u] = place[u]
      BY <1>5, <2>3
    <3>2. ppc'[u] = "yield_switch" <=> ppc[u] = "yield_switch"
      BY <1>1, <1>2, <1>3, <1>4, <2>3 DEF Procs, InHand
    <3> QED
      BY <2>1, <3>1, <3>2 DEF RunInv
  <2> QED
    BY <2>2, <2>3
<1>14. PICK n \in Nat : n = Len(stack[c])
  BY LenProperties DEF Types, TypeOK
<1>15. /\ stack[c] \in Seq(Threads)
       /\ Len(stack'[c]) = n + 1 /\ stack'[c][n + 1] = t
       /\ \A i \in 1..n : stack'[c][i] = stack[c][i]
  <2>1. stack[c] \in Seq(Threads) /\ stack'[c] = Append(stack[c], t)
    BY <1>5 DEF Types, TypeOK
  <2>2. /\ Len(Append(stack[c], t)) = n + 1 /\ Append(stack[c], t)[n + 1] = t
        /\ \A i \in 1..n : Append(stack[c], t)[i] = stack[c][i]
    BY <1>14, <2>1
  <2> QED
    BY <2>1, <2>2
<1>16. ASSUME NEW d \in Cores, NEW i \in 1..Len(stack[d])
       PROVE  /\ stack[d][i] \in Threads /\ stack[d][i] # t
              /\ place'[stack[d][i]] = <<"ready", d>>
  <2>1. place[stack[d][i]] = <<"ready", d>>
    BY DEF Owned, ReadyInv
  <2>2. stack[d][i] \in Threads
    BY ElementOfSeq DEF Types, TypeOK
  <2>3. stack[d][i] # t
    BY <1>6, <2>1
  <2> QED
    BY <1>5, <2>1, <2>2, <2>3
<1>17. \A d \in Cores : Spells(d)'
  <2>1. ASSUME NEW d \in Cores, d # c PROVE Spells(d)'
    BY <1>1, <1>5, <2>1 DEF Owned, Spells
  <2>2. Spells(c)'
    <3>1. Spells(c) /\ next[t] = ready_list[c]
      BY <1>1, <1>4 DEF Owned, LinkInv, Linking
    <3>2. stack[c] = <<>> <=> n = 0
      BY <1>14, <1>15, EmptySeq
    <3>3. next[t] = IF n = 0 THEN NULL ELSE stack[c][n]
      BY <1>14, <3>1, <3>2 DEF Spells
    <3>4. stack'[c] # <<>>
      BY <1>14, <1>15, EmptySeq
    <3>5. ready_list'[c] = IF stack'[c] = <<>> THEN NULL ELSE stack'[c][Len(stack'[c])]
      BY <1>5, <1>15, <3>4
    <3>6. ASSUME NEW i \in 1..(n + 1)
          PROVE next'[stack'[c][i]] = IF i = 1 THEN NULL ELSE stack'[c][i - 1]
      <4>1. CASE i = n + 1
        <5>1. next'[stack'[c][i]] = next[t] /\ (i = 1 <=> n = 0)
          BY <1>1, <1>14, <1>15, <4>1
        <5>2. n # 0 => stack'[c][i - 1] = stack[c][n]
          BY <1>14, <1>15, <4>1
        <5> QED
          BY <3>3, <5>1, <5>2
      <4>2. CASE i # n + 1
        <5>1. i \in 1..n /\ (i # 1 => i - 1 \in 1..n)
          BY <1>14, <4>2
        <5>2. next[stack[c][i]] = IF i = 1 THEN NULL ELSE stack[c][i - 1]
          BY <1>14, <3>1, <5>1 DEF Spells
        <5>3. stack'[c][i] = stack[c][i] /\ (i # 1 => stack'[c][i - 1] = stack[c][i - 1])
          BY <1>15, <5>1
        <5> QED
          BY <1>1, <5>2, <5>3
      <4> QED
        BY <4>1, <4>2
    <3> QED
      BY <1>15, <3>5, <3>6 DEF Spells
  <2> QED
    BY <2>1, <2>2
<1>18. \A d \in Cores : ReadyInv(d)'
  <2>1. ASSUME NEW d \in Cores, d # c PROVE ReadyInv(d)'
    <3>1. ASSUME NEW u \in Threads, place'[u] = <<"ready", d>>
          PROVE  \E i \in 1..Len(stack[d]) : stack[d][i] = u
      BY <1>5, <2>1, <3>1 DEF Owned, ReadyInv
    <3>2. stack'[d] = stack[d]
      BY <1>5, <2>1
    <3> QED
      BY <1>16, <3>1, <3>2 DEF ReadyInv
  <2>2. ReadyInv(c)'
    <3>1. ASSUME NEW i \in 1..(n + 1) PROVE place'[stack'[c][i]] = <<"ready", c>>
      <4>1. CASE i = n + 1
        BY <1>5, <1>15, <4>1
      <4>2. CASE i # n + 1
        <5>1. i \in 1..n
          BY <1>14, <4>2
        <5>2. stack'[c][i] = stack[c][i] /\ i \in 1..Len(stack[c])
          BY <1>14, <1>15, <5>1
        <5> QED
          BY <1>16, <5>2
      <4> QED
        BY <4>1, <4>2
    <3>2. ASSUME NEW u \in Threads, place'[u] = <<"ready", c>>
          PROVE  \E i \in 1..(n + 1) : stack'[c][i] = u
      <4>1. CASE u = t
        BY <1>14, <1>15, <4>1
      <4>2. CASE u # t
        <5>1. PICK i \in 1..n : stack[c][i] = u
          BY <1>5, <1>14, <3>2, <4>2 DEF Owned, ReadyInv
        <5> QED
          BY <1>15, <5>1
      <4> QED
        BY <4>1, <4>2
    <3> QED
      BY <1>15, <3>1, <3>2 DEF ReadyInv
  <2> QED
    BY <2>1, <2>2
<1>19. \A d \in Cores : OnceInv(d)'
  <2>1. ASSUME NEW d \in Cores, d # c PROVE OnceInv(d)'
    BY <1>5, <2>1 DEF Owned, OnceInv
  <2>2. OnceInv(c)'
    <3>1. OnceInv(c)
      BY DEF Owned
    <3>2. \A i \in 1..n : stack'[c][i] = stack[c][i] /\ stack'[c][i] # t
      BY <1>14, <1>15, <1>16
    <3>3. \A i \in 1..(n + 1) : i \in 1..n \/ i = n + 1
      BY <1>14
    <3> QED
      BY <1>14, <1>15, <3>1, <3>2, <3>3 DEF OnceInv
  <2> QED
    BY <2>1, <2>2
<1>20. ASSUME NEW d \in Cores, NEW i \in 1..Len(stack[d])
       PROVE  \/ stack[d][i] \in saved'
              \/ cpu'[d] = stack[d][i] /\ ppc'[stack[d][i]] = "yield_switch"
  <2>1. SavedInv(d) /\ stack[d][i] \in Procs
    BY <1>16 DEF Owned, Procs
  <2>2. ppc[stack[d][i]] = "yield_switch" => ppc'[stack[d][i]] = "yield_switch"
    BY <1>1, <1>2, <2>1
  <2> QED
    BY <1>1, <2>1, <2>2 DEF SavedInv, threadVars
<1>21. \A d \in Cores : SavedInv(d)'
  <2>1. ASSUME NEW d \in Cores, d # c PROVE SavedInv(d)'
    BY <1>5, <1>20, <2>1 DEF SavedInv
  <2>2. SavedInv(c)'
    <3>1. t \in saved' \/ (cpu'[c] = t /\ ppc'[t] = "yield_switch")
      <4>1. CASE InHand(p)
        <5>1. saved' = saved
          BY <1>1 DEF threadVars
        <5>2. t \in saved
          BY <1>3, <1>4, <4>1
        <5> QED
          BY <5>1, <5>2
      <4>2. CASE ~InHand(p)
        BY <1>1, <1>3, <1>4, <4>2 DEF InHand
      <4> QED
        BY <4>1, <4>2
    <3>2. ASSUME NEW i \in 1..(n + 1)
          PROVE  \/ stack'[c][i] \in saved'
                 \/ cpu'[c] = stack'[c][i] /\ ppc'[stack'[c][i]] = "yield_switch"
      <4>1. CASE i = n + 1
        BY <1>15, <3>1, <4>1
      <4>2. CASE i # n + 1
        <5>1. i \in 1..n
          BY <1>14, <4>2
        <5>2. stack'[c][i] = stack[c][i] /\ i \in 1..Len(stack[c])
          BY <1>14, <1>15, <5>1
        <5> QED
          BY <1>20, <5>2
      <4> QED
        BY <4>1, <4>2
    <3> QED
      BY <1>15, <3>2 DEF SavedInv
  <2> QED
    BY <2>1, <2>2
<1>22. \A d \in APs : LoopInv(d)'
  <2> SUFFICES ASSUME NEW d \in APs PROVE LoopInv(d)'
    OBVIOUS
  <2>1. LoopInv(d) /\ d \in Cores
    BY DEF Owned, Cores
  <2>2. stack[d] # <<>> => stack'[d] # <<>>
    <3>1. Len(stack'[c]) # 0
      BY <1>14, <1>15
    <3>2. stack'[c] # <<>>
      BY <3>1
    <3> QED
      BY <1>5, <2>1, <3>2
  <2>3. lpc[d] = "advance" => ready_list'[d] = ready_list[d]
    BY <1>5, <1>7, <2>1
  <2>4. lpc[d] = "dispatch" => place'[nxt[d]] = <<"popped", d>>
    BY <1>5, <1>6, <2>1 DEF LoopInv
  <2> QED
    BY <1>1, <2>1, <2>2, <2>3, <2>4 DEF LoopInv, threadVars, loopVars
<1> QED
  BY <1>9, <1>10, <1>11, <1>12, <1>13, <1>17, <1>18, <1>19, <1>21, <1>22 DEF Owned

-----------------------------------------------------------------------------
(* The invariant and what it implies. *)

LEMMA OwnedInit == Init => Owned
<1> SUFFICES ASSUME Init PROVE Owned
  OBVIOUS
<1>0. /\ NULL \notin Threads /\ Main \notin Threads /\ Idle \notin Threads /\ Idle # Main
      /\ \A c \in Cores : c # Bsp => c \in APs
  BY ConstantsAssumption DEF Procs, Cores
<1>1. \A p \in Procs : HandInv(p) /\ YieldInv(p) /\ LinkInv(p)
  BY DEF Init, HandInv, YieldInv, LinkInv, InHand, Yielding, Linking, Nowhere
<1>2. \A c \in Cores : CpuInv(c)
  BY <1>0 DEF Init, CpuInv
<1>3. \A c \in Cores : RunInv(c) /\ PoppedInv(c)
  BY <1>0 DEF Init, RunInv, PoppedInv, Nowhere
<1>4. \A c \in Cores : stack[c] = <<>> /\ Len(stack[c]) = 0
  BY DEF Init
<1>5. \A c \in Cores : Spells(c) /\ OnceInv(c) /\ SavedInv(c)
  BY <1>4 DEF Init, Spells, OnceInv, SavedInv
<1>6. \A c \in Cores : ReadyInv(c)
  BY <1>4 DEF Init, ReadyInv, Nowhere
<1>7. \A c \in APs : LoopInv(c)
  BY <1>0 DEF Init, LoopInv
<1> QED
  BY <1>1, <1>2, <1>3, <1>5, <1>6, <1>7 DEF Owned

LEMMA OwnedStutter ==
    ASSUME Owned, UNCHANGED vars
    PROVE  Owned'
<1>1. UNCHANGED <<listVars, threadVars, loopVars, callVars, cur_thread, cpu>>
  BY DEF vars
<1>2. \A p \in Procs : HandInv(p)' /\ YieldInv(p)' /\ LinkInv(p)'
  BY <1>1 DEF Owned, HandInv, YieldInv, LinkInv, InHand, Linking, Yielding,
              listVars, threadVars, callVars
<1>3. \A c \in Cores : CpuInv(c)' /\ RunInv(c)' /\ PoppedInv(c)'
  BY <1>1 DEF Owned, CpuInv, RunInv, PoppedInv, listVars, loopVars, callVars
<1>4. \A c \in Cores : Spells(c)'
  BY <1>1 DEF Owned, Spells, listVars
<1>5. \A c \in Cores : ReadyInv(c)' /\ OnceInv(c)'
  BY <1>1 DEF Owned, ReadyInv, OnceInv, listVars
<1>6. \A c \in Cores : SavedInv(c)'
  BY <1>1 DEF Owned, SavedInv, listVars, threadVars, callVars
<1>7. \A c \in APs : LoopInv(c)'
  BY <1>1 DEF Owned, LoopInv, listVars, threadVars, loopVars
<1> QED
  BY <1>2, <1>3, <1>4, <1>5, <1>6, <1>7 DEF Owned

\* Only create_thread changes oom, and only when it may fail.
LEMMA OomChange == ASSUME [Next]_vars PROVE oom' = oom \/ (AllocMayFail /\ oom' = TRUE)
<1>1. ASSUME NEW c \in APs, LoopStep(c) \/ TakeInterrupt(c) \/ TimerTick(c)
      PROVE  oom' = oom
  BY <1>1 DEF LoopStep, LoopTop, LoopLook, LoopLock, LoopAdvance, LoopDispatch, LoopReserve,
              LoopStatus, LoopHalt, LoopWoken, TakeInterrupt, TimerTick, threadVars
<1>2. ASSUME NEW p \in Procs, NEW c \in Cores, NEW t \in Threads \cup {NULL}, PushTask(p, c, t)
      PROVE  oom' = oom \/ (AllocMayFail /\ oom' = TRUE)
  BY <1>2 DEF PushTask
<1>3. ASSUME NEW p \in Procs, NEW c \in Cores, Yield(p, c) \/ Command(p, c)
      PROVE  oom' = oom
  BY <1>3 DEF Yield, Command, threadVars
<1>4. ASSUME NEW p \in Procs, CallStep(p)
      PROVE  oom' = oom
  BY <1>4 DEF CallStep, LockQueue, Link, YieldSwitch, SetReserve, CheckStatus, SendWakeup,
              threadVars
<1>5. CASE UNCHANGED vars
  BY <1>5 DEF vars, threadVars
<1> QED
  BY <1>1, <1>2, <1>3, <1>4, <1>5 DEF Next, Call

\* Once a creation has failed it has failed for good.
LEMMA OomStays == ASSUME [Next]_vars, oom PROVE oom'
  BY OomChange

LEMMA OwnedStep ==
    ASSUME Types, Types', QueueMutex, ~oom => Owned, [Next]_vars
    PROVE  ~oom' => Owned'
<1> SUFFICES ASSUME ~oom' PROVE Owned'
  OBVIOUS
<1>0. Owned
  BY OomStays
<1>1. ASSUME NEW c \in APs, LoopStep(c) \/ TakeInterrupt(c) \/ TimerTick(c)
      PROVE  Owned'
  BY <1>0, <1>1, QuietLoop, LockLoop, AdvanceLoop, DispatchLoop DEF LoopStep
<1>2. ASSUME NEW p \in Procs, NEW c \in Cores, NEW t \in Threads \cup {NULL}, PushTask(p, c, t)
      PROVE  Owned'
  <2>1. t # NULL
    BY <1>2, ConstantsAssumption DEF PushTask, Procs
  <2> QED
    BY <1>0, <1>2, <2>1, PushCall
<1>3. ASSUME NEW p \in Procs, NEW c \in Cores, Yield(p, c) \/ Command(p, c)
      PROVE  Owned'
  BY <1>0, <1>3, YieldCall, QuietCall
<1>4. ASSUME NEW p \in Procs, CallStep(p)
      PROVE  Owned'
  BY <1>0, <1>4, LockCall, LinkCall, SwitchCall, QuietCall DEF CallStep
<1>5. CASE UNCHANGED vars
  BY <1>0, <1>5, OwnedStutter
<1> QED
  BY <1>1, <1>2, <1>3, <1>4, <1>5 DEF Next, Call

LEMMA Inductive == Spec => []IInv
<1>1. Init => (~oom => Owned)
  BY OwnedInit
<1>2. Types /\ Types' /\ QueueMutex /\ (~oom => Owned) /\ [Next]_vars => (~oom => Owned)'
  BY OwnedStep
<1>3. IInv <=> Types /\ QueueMutex /\ (~oom => Owned)
  BY DEF IInv
<1> QED
  BY <1>1, <1>2, <1>3, TypesHold, QueueMutexHolds, PTL DEF Spec

(* While no create_thread has failed, every ready list is the chain of the *)
(* threads pushed on it and not yet popped, whatever smp_push_task and     *)
(* smp_yield on other cores interleave with the loop's pop.                *)
THEOREM ListsIntactHolds == Spec => []ListsIntact
<1>1. IInv => ListsIntact
  BY DEF IInv, Owned, ListsIntact
<1> QED
  BY <1>1, Inductive, PTL

(* While no create_thread has failed, smp_push_task, smp_yield and the     *)
(* loop neither lose a thread nor have it in two places.                   *)
THEOREM OnePlaceHolds == Spec => []OnePlace
<1>1. IInv => OnePlace
  <2> SUFFICES ASSUME Owned, NEW t \in Threads
               PROVE  /\ \A p \in Procs : place[t] = <<"new", p>> <=> InHand(p) /\ arg[p] = t
                      /\ \A c \in Cores :
                           /\ place[t] = <<"ready", c>> <=> \E i \in 1..Len(stack[c]) : stack[c][i] = t
                           /\ \A i, j \in 1..Len(stack[c]) :
                                stack[c][i] = t /\ stack[c][j] = t => i = j
                           /\ place[t] = <<"cpu", c>> <=> cpu[c] = t /\ ppc[t] # "yield_switch"
                      /\ \A c \in APs :
                           place[t] = <<"popped", c>> <=> lpc[c] = "dispatch" /\ nxt[c] = t
    BY DEF IInv, OnePlace
  <2>1. \A p \in Procs : place[t] = <<"new", p>> <=> InHand(p) /\ arg[p] = t
    BY DEF Owned, HandInv
  <2>2. \A c \in Cores : place[t] = <<"ready", c>> <=> \E i \in 1..Len(stack[c]) : stack[c][i] = t
    BY DEF Owned, ReadyInv
  <2>3. \A c \in Cores : \A i, j \in 1..Len(stack[c]) :
          stack[c][i] = t /\ stack[c][j] = t => i = j
    BY DEF Owned, OnceInv
  <2>4. \A c \in Cores : place[t] = <<"cpu", c>> <=> cpu[c] = t /\ ppc[t] # "yield_switch"
    BY DEF Owned, RunInv
  <2>5. \A c \in APs : place[t] = <<"popped", c>> <=> lpc[c] = "dispatch" /\ nxt[c] = t
    BY DEF Owned, PoppedInv, LoopInv, Cores
  <2> QED
    BY <2>1, <2>2, <2>3, <2>4, <2>5
<1> QED
  BY <1>1, Inductive, PTL

(* A core switches to NULL or to a thread whose registers are not saved    *)
(* only after create_thread has failed.                                    *)
THEOREM NeverWildHolds == Spec => []NeverWild
<1>1. IInv => NeverWild
  <2> SUFFICES ASSUME Owned, NEW c \in Cores PROVE cpu[c] # Wild
    BY DEF IInv, NeverWild
  <2>1. CpuInv(c)
    BY DEF Owned
  <2> QED
    BY <2>1, ConstantsAssumption DEF CpuInv, Procs
<1> QED
  BY <1>1, Inductive, PTL

-----------------------------------------------------------------------------
(* The status word. *)

\* The loop stands elsewhere than at its top only while its core is idle, and
\* the status is written only where the loop is about to halt.
IdleInv(c) ==
    /\ cpu[c] = Idle => cur_thread[c] = Idle
    /\ c \in APs /\ lpc[c] # "top" => cpu[c] = Idle
    /\ status[c] # "RUNNING" => c \in APs /\ lpc[c] \in {"idle", "halt", "woken"}

Idleness == \A c \in Cores : IdleInv(c)

LEMMA IdlenessStep == Types /\ Idleness /\ [Next]_vars => Idleness'
<1> SUFFICES ASSUME Types, Idleness, [Next]_vars PROVE Idleness'
  OBVIOUS
<1>0. Idle \notin Threads /\ Idle # Wild
  BY ConstantsAssumption DEF Procs
<1>1. ASSUME NEW c \in APs, \/ LoopTop(c) \/ LoopLook(c) \/ LoopLock(c) \/ LoopAdvance(c)
                            \/ LoopReserve(c) \/ LoopStatus(c) \/ LoopHalt(c) \/ LoopWoken(c)
                            \/ TakeInterrupt(c) \/ TimerTick(c)
      PROVE  Idleness'
  <2>1. UNCHANGED <<cpu, cur_thread>>
    BY <1>1 DEF LoopTop, LoopLook, LoopLock, LoopAdvance, LoopReserve, LoopStatus, LoopHalt, LoopWoken,
                TakeInterrupt, TimerTick
  <2>2. \A d \in Cores : d # c => /\ status'[d] = status[d]
                                  /\ d \in APs => lpc'[d] = lpc[d]
    BY <1>1 DEF LoopTop, LoopLook, LoopLock, LoopAdvance, LoopReserve, LoopStatus, LoopHalt, LoopWoken,
                TakeInterrupt, TimerTick, LoopTo, Types, TypeOK, loopVars
  <2>3. /\ c \in Cores
        /\ lpc'[c] # "top" => cpu[c] = Idle
        /\ status'[c] # "RUNNING" => lpc'[c] \in {"idle", "halt", "woken"}
    BY <1>1 DEF Idleness, IdleInv, LoopTop, LoopLook, LoopLock, LoopAdvance, LoopReserve,
                LoopStatus, LoopHalt, LoopWoken, TakeInterrupt, TimerTick, InLoop, LoopTo, Types, TypeOK,
                loopVars, Cores
  <2> QED
    BY <2>1, <2>2, <2>3 DEF Idleness, IdleInv
<1>2. ASSUME NEW c \in APs, LoopDispatch(c)
      PROVE  Idleness'
  <2>1. c \in Cores /\ UNCHANGED status /\ status[c] = "RUNNING"
    BY <1>2 DEF Idleness, IdleInv, LoopDispatch, InLoop, Cores
  <2>2. \A d \in Cores : d # c => /\ cpu'[d] = cpu[d] /\ cur_thread'[d] = cur_thread[d]
                                  /\ d \in APs => lpc'[d] = lpc[d]
    BY <1>2 DEF LoopDispatch, LoopTo, Types, TypeOK
  <2>3. cpu'[c] # Idle /\ lpc'[c] = "top"
    BY <1>0, <1>2, <2>1 DEF LoopDispatch, LoopTo, Types, TypeOK
  <2> QED
    BY <2>1, <2>2, <2>3 DEF Idleness, IdleInv
<1>3. ASSUME NEW p \in Procs, YieldSwitch(p)
      PROVE  Idleness'
  <2>1. UNCHANGED <<status, lpc>>
    BY <1>3 DEF YieldSwitch, loopVars
  <2>2. PICK c \in Cores : c = tgt[p]
    BY DEF Types, TypeOK
  <2>3. \A d \in Cores : /\ cpu'[d] = IF d = c THEN Idle ELSE cpu[d]
                         /\ cur_thread'[d] = IF d = c THEN Idle ELSE cur_thread[d]
    BY <1>3, <2>2 DEF YieldSwitch, Types, TypeOK
  <2> QED
    BY <2>1, <2>3 DEF Idleness, IdleInv
<1>4. ASSUME NEW p \in Procs,
             \/ \E c \in Cores, t \in Threads \cup {NULL} : PushTask(p, c, t)
             \/ \E c \in Cores : Yield(p, c) \/ Command(p, c)
             \/ LockQueue(p) \/ Link(p) \/ \E v \in BOOLEAN : SetReserve(p, v)
             \/ CheckStatus(p) \/ SendWakeup(p)
      PROVE  Idleness'
  <2>1. UNCHANGED <<cpu, cur_thread, status, lpc>>
    BY <1>4 DEF PushTask, Yield, Command, LockQueue, Link, SetReserve, CheckStatus,
                SendWakeup, loopVars
  <2> QED
    BY <2>1 DEF Idleness, IdleInv
<1>5. CASE UNCHANGED vars
  <2>1. UNCHANGED <<cpu, cur_thread, status, lpc>>
    BY <1>5 DEF vars, loopVars
  <2> QED
    BY <2>1 DEF Idleness, IdleInv
<1> QED
  BY <1>1, <1>2, <1>3, <1>4, <1>5 DEF Next, LoopStep, Call, CallStep

(* A core that smp_get_first_free_core may return is in its idle context   *)
(* and cur_thread says so, even after create_thread has failed.            *)
THEOREM FreeCoreIsIdleHolds == Spec => []FreeCoreIsIdle
<1>1. Init => Idleness
  BY ConstantsAssumption DEF Init, Idleness, IdleInv, Cores, Procs
<1>2. Types /\ Idleness /\ [Next]_vars => Idleness'
  BY IdlenessStep
<1>3. Idleness => FreeCoreIsIdle
  BY DEF Idleness, IdleInv, FreeCoreIsIdle
<1> QED
  BY <1>1, <1>2, <1>3, TypesHold, PTL DEF Spec

-----------------------------------------------------------------------------
(* Refinement. *)

absWhere == [t \in Threads |-> Where(place[t])]

\* The abstract state of a place.
LEMMA WhereIs ==
    /\ Where(Nowhere) = <<"none", NULL>>
    /\ \A p \in Procs : Where(<<"new", p>>) = <<"none", NULL>>
    /\ \A c \in Cores : /\ Where(<<"ready", c>>) = <<"ready", c>>
                        /\ Where(<<"popped", c>>) = <<"ready", c>>
                        /\ Where(<<"cpu", c>>) = <<"running", c>>
  BY DEF Where, Nowhere

LEMMA NewSubmits ==
    ASSUME Types, Owned, NEW p \in Procs, Link(p), InHand(p)
    PROVE  Abstract!Next
<1>1. PICK t \in Threads, c \in Cores : /\ t = arg[p] /\ c = tgt[p]
                                        /\ place[t] = <<"new", p>>
  BY ArgPlace DEF Link, At, InHand
<1>2. place' = [place EXCEPT ![t] = <<"ready", c>>]
  BY <1>1 DEF Link
<1>3. absWhere[t] = <<"none", NULL>> /\ absWhere' = [absWhere EXCEPT ![t] = <<"ready", c>>]
  BY <1>1, <1>2, WhereIs DEF absWhere, Types, TypeOK
<1> QED
  BY <1>3 DEF Abstract!Next, Abstract!Submit, absWhere

LEMMA YielderYields ==
    ASSUME Types, Owned, NEW p \in Procs, Link(p), ~InHand(p)
    PROVE  Abstract!Next
<1>1. PICK c \in Cores : /\ c = tgt[p] /\ p = arg[p] /\ p \in Threads
                         /\ cpu[c] = p /\ place[p] = <<"cpu", c>>
  BY ArgPlace DEF Link, At, InHand
<1>2. c \in APs
  <2>1. CpuInv(c)
    BY DEF Owned
  <2> QED
    BY <1>1, <2>1, ConstantsAssumption DEF CpuInv, Cores
<1>3. place' = [place EXCEPT ![p] = <<"ready", c>>]
  BY <1>1 DEF Link
<1>4. absWhere[p] = <<"running", c>> /\ absWhere' = [absWhere EXCEPT ![p] = <<"ready", c>>]
  BY <1>1, <1>3, WhereIs DEF absWhere, Types, TypeOK
<1> QED
  BY <1>1, <1>2, <1>4 DEF Abstract!Next, Abstract!Yield, absWhere

LEMMA SwitchDispatches ==
    ASSUME Types, Owned, NEW c \in APs, LoopDispatch(c)
    PROVE  Abstract!Next
<1>1. c \in Cores /\ cpu[c] = Idle /\ Idle \notin Threads
  BY ConstantsAssumption DEF LoopDispatch, InLoop, Cores, Procs
<1>2. PICK t \in Threads : t = nxt[c] /\ place[t] = <<"popped", c>>
  BY DEF Owned, LoopInv, LoopDispatch, InLoop
<1>3. place' = [place EXCEPT ![t] = <<"cpu", c>>]
  BY <1>2 DEF LoopDispatch
<1>4. absWhere[t] = <<"ready", c>> /\ absWhere' = [absWhere EXCEPT ![t] = <<"running", c>>]
  BY <1>1, <1>2, <1>3, WhereIs DEF absWhere, Types, TypeOK
<1>5. ASSUME NEW u \in Threads
      PROVE  absWhere[u] # <<"running", c>>
  <2>1. place[u] # <<"cpu", c>>
    BY <1>1 DEF Owned, RunInv
  <2>2. place[u] \in Places /\ absWhere[u] = Where(place[u])
    BY DEF Types, TypeOK, absWhere
  <2>3. CASE place[u] = Nowhere
    BY <2>2, <2>3, WhereIs
  <2>4. CASE \E p \in Procs : place[u] = <<"new", p>>
    BY <2>2, <2>4, WhereIs
  <2>5. CASE \E d \in Cores : place[u] \in {<<"ready", d>>, <<"popped", d>>}
    <3>1. PICK d \in Cores : place[u] \in {<<"ready", d>>, <<"popped", d>>}
      BY <2>5
    <3>2. absWhere[u] = <<"ready", d>>
      BY <2>2, <3>1, WhereIs
    <3> QED
      BY <3>2
  <2>6. CASE \E d \in Cores : place[u] = <<"cpu", d>>
    <3>1. PICK d \in Cores : place[u] = <<"cpu", d>>
      BY <2>6
    <3>2. absWhere[u] = <<"running", d>> /\ d # c
      BY <2>1, <2>2, <3>1, WhereIs
    <3> QED
      BY <3>2
  <2> QED
    BY <2>2, <2>3, <2>4, <2>5, <2>6 DEF Places
<1> QED
  BY <1>4, <1>5 DEF Abstract!Next, Abstract!Dispatch, absWhere

\* The pop, and the creation of a thread, show no change.
LEMMA PopIsSilent ==
    ASSUME Types, Owned, NEW c \in APs, LoopAdvance(c)
    PROVE  absWhere' = absWhere
<1>1. c \in Cores /\ stack[c] # <<>> /\ nxt[c] = ready_list[c] /\ Spells(c) /\ ReadyInv(c)
  BY DEF Owned, LoopInv, LoopAdvance, InLoop, Cores
<1>2. PICK n \in Nat \ {0} : n = Len(stack[c])
  BY <1>1, EmptySeq DEF Types, TypeOK
<1>3. PICK t \in Threads : t = nxt[c] /\ t = stack[c][n]
  BY <1>1, <1>2, ElementOfSeq DEF Spells, Types, TypeOK
<1>4. place[t] = <<"ready", c>>
  <2>1. n \in 1..Len(stack[c])
    BY <1>2
  <2> QED
    BY <1>1, <1>3, <2>1 DEF ReadyInv
<1>5. place' = [place EXCEPT ![t] = <<"popped", c>>]
  BY <1>3 DEF LoopAdvance
<1> QED
  BY <1>1, <1>4, <1>5, WhereIs DEF absWhere, Types, TypeOK

LEMMA PushIsSilent ==
    ASSUME Types, NEW p \in Procs, NEW c \in Cores, NEW t \in Threads \cup {NULL},
           PushTask(p, c, t)
    PROVE  absWhere' = absWhere
<1>1. \/ place' = place
      \/ place[t] = Nowhere /\ place' = [place EXCEPT ![t] = <<"new", p>>]
  BY DEF PushTask
<1> QED
  BY <1>1, WhereIs DEF absWhere, Types, TypeOK

LEMMA StepRefines ==
    ASSUME Types, Owned, [Next]_vars
    PROVE  [Abstract!Next]_absWhere
<1>1. ASSUME NEW c \in APs, LoopStep(c) \/ TakeInterrupt(c) \/ TimerTick(c)
      PROVE  Abstract!Next \/ absWhere' = absWhere
  <2>1. CASE LoopDispatch(c)
    BY <2>1, SwitchDispatches
  <2>2. CASE LoopAdvance(c)
    BY <2>2, PopIsSilent
  <2>3. CASE \/ LoopTop(c) \/ LoopLook(c) \/ LoopLock(c) \/ LoopReserve(c) \/ LoopStatus(c) \/ LoopHalt(c)
             \/ LoopWoken(c) \/ TakeInterrupt(c) \/ TimerTick(c)
    <3>1. UNCHANGED place
      BY <2>3 DEF LoopTop, LoopLook, LoopLock, LoopReserve, LoopStatus, LoopHalt, LoopWoken,
                  TakeInterrupt, TimerTick, listVars
    <3> QED
      BY <3>1 DEF absWhere
  <2> QED
    BY <1>1, <2>1, <2>2, <2>3 DEF LoopStep
<1>2. ASSUME NEW p \in Procs, Call(p) \/ CallStep(p)
      PROVE  Abstract!Next \/ absWhere' = absWhere
  <2>1. CASE Link(p)
    BY <2>1, NewSubmits, YielderYields
  <2>2. CASE \E c \in Cores, t \in Threads \cup {NULL} : PushTask(p, c, t)
    BY <2>2, PushIsSilent
  <2>3. CASE \/ \E c \in Cores : Yield(p, c) \/ Command(p, c)
             \/ LockQueue(p) \/ YieldSwitch(p) \/ \E v \in BOOLEAN : SetReserve(p, v)
             \/ CheckStatus(p) \/ SendWakeup(p)
    <3>1. UNCHANGED place
      BY <2>3 DEF Yield, Command, LockQueue, YieldSwitch, SetReserve, CheckStatus, SendWakeup,
                  listVars
    <3> QED
      BY <3>1 DEF absWhere
  <2> QED
    BY <1>2, <2>1, <2>2, <2>3 DEF Call, CallStep
<1>3. CASE UNCHANGED vars
  BY <1>3 DEF vars, listVars, absWhere
<1> QED
  BY <1>1, <1>2, <1>3 DEF Next

LEMMA NoOom == ASSUME ~AllocMayFail PROVE Spec => []~oom
<1>1. Init => ~oom
  BY DEF Init
<1>2. ~oom /\ [Next]_vars => ~oom'
  BY OomChange
<1> QED
  BY <1>1, <1>2, PTL DEF Spec

(* If create_thread cannot fail, every step of smp_push_task, smp_yield,   *)
(* the reservation commands and the loop is a step of CoreTasks or leaves  *)
(* every task where it was.                                                *)
THEOREM TasksImplemented == ASSUME ~AllocMayFail PROVE Spec => ImplementsTasks
<1>1. Init => Abstract!Init
  BY WhereIs DEF Init, Abstract!Init
<1>2. IInv /\ ~oom /\ [Next]_vars => [Abstract!Next]_absWhere
  BY StepRefines DEF IInv
<1>3. [Abstract!Next]_absWhere <=> [Abstract!Next]_[t \in Threads |-> Where(place[t])]
  BY DEF absWhere
<1> QED
  BY <1>1, <1>2, <1>3, Inductive, NoOom, PTL DEF Spec, ImplementsTasks, Abstract!Spec
=============================================================================
