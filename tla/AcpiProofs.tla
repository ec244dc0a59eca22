------------------------------ MODULE AcpiProofs ------------------------------
(***************************************************************************)
(* The three parts of Acpi.                                                *)
(*                                                                         *)
(* The delays, for timers of every length, every rate of the TSC and any   *)
(* number of processors: the invariant says of the holder of acpi_lock     *)
(* what its locals mean, Ticks the time since the last read, however often *)
(* the timer has wrapped, elapsed the time before that.                    *)
(*                                                                         *)
(* The reset, for every number of cores, every table with or without       *)
(* holes, and any cores in acpi_reboot and acpi_shutdown at once:          *)
(* OthersStopped is not inductive, what a core has done is known from its  *)
(* place (Swept), and acpi_shutdown passes the same places without an INIT *)
(* sent, but never reaches the reset.                                      *)
(*                                                                         *)
(* The start-up, for every image: what is kept after the first n tables is *)
(* what those n list, and the processors of n tables are those of n - 1    *)
(* and of the n-th.                                                        *)
(***************************************************************************)
EXTENDS Acpi, SequenceTheorems, WellFoundedInduction, TLAPS

-----------------------------------------------------------------------------
(* The delays: Delays *)

\* TSC ticks in a millisecond.
Rate == PmPerMs * TscRate

Holder == \A c \in Callers : pc[c] = "delay" => acpi_lock = {c}

Clock ==
    /\ acpi_lock # {} /\ pm_timer_port => gap = Ticks /\ since = elapsed + gap
    /\ ~pm_timer_port => timer = 0 /\ last = 0 /\ elapsed = 0

\* The TSC of a processor that calibrates runs at least since its first read
\* of the timer.
Calibrating ==
    \A c \in Callers :
        pc[c] \in {"lock", "delay"} =>
            /\ purpose[c] # "fdelay"
            /\ purpose[c] = "calibrate" => ms[c] = CalibrateMs
            /\ pc[c] = "delay" /\ purpose[c] = "calibrate" /\ pm_timer_port =>
                  tsc[c] >= MaxWait \/ tsc[c] >= since * TscRate

Calibrated ==
    /\ tsc_ticks_per_ms # 0 => tsc_ticks_per_ms >= Rate
    /\ \A c \in Callers : pc[c] = "fdelay" => tsc_ticks_per_ms # 0

DelayInv == TypeOK /\ Holder /\ Clock /\ Calibrating /\ Calibrated

-----------------------------------------------------------------------------
(* Arithmetic *)

LEMMA ProductMonotone ==
    ASSUME NEW a \in Nat, NEW b \in Nat, NEW k \in Nat, a <= b
    PROVE  a * k \in Nat /\ a * k <= b * k /\ k * a <= k * b
OBVIOUS

LEMMA ProductAssoc ==
    ASSUME NEW a \in Nat, NEW b \in Nat, NEW k \in Nat
    PROVE  (a * b) * k = a * (b * k) /\ a * b \in Nat /\ (a * b) * k \in Nat
OBVIOUS

LEMMA Distributes ==
    ASSUME NEW a \in Nat, NEW k \in Nat
    PROVE  (a + 1) * k = a * k + k
OBVIOUS

LEMMA QuotientAtLeast ==
    ASSUME NEW a \in Nat, NEW b \in Nat \ {0}, NEW k \in Nat, a >= b * k
    PROVE  a \div b \in Nat /\ a \div b >= k
OBVIOUS

LEMMA Widths == Modulus \in Nat \ {0} /\ Rollover = Modulus
BY DelaysAssumption DEF Modulus, Rollover

LEMMA RateFacts ==
    /\ Rate \in Nat \ {0}
    /\ CalibrateMs * Rate <= MaxWait
    /\ CalibrateMs * Rate = (CalibrateMs * PmPerMs) * TscRate
<1>1. Rate \in Nat \ {0}
  <2>1. \A a, b \in Nat \ {0} : a * b \in Nat \ {0}
    OBVIOUS
  <2>. QED
    BY <2>1, DelaysAssumption DEF Rate
<1>2. CalibrateMs * Rate = (CalibrateMs * PmPerMs) * TscRate
  BY ProductAssoc, DelaysAssumption DEF Rate
<1>. QED
  BY <1>1, <1>2, DelaysAssumption
-----------------------------------------------------------------------------
(* The initial states, and one lemma for each action *)

LEMMA DelaysStart == Init => DelayInv
<1>. SUFFICES ASSUME Init PROVE DelayInv
  OBVIOUS
<1>1. TypeOK
  BY Widths, DelaysAssumption DEF Init, TypeOK
<1>2. Clock
  BY <1>1 DEF Init, Clock
<1>3. Holder /\ Calibrating /\ Calibrated
  BY DEF Init, Holder, Calibrating, Calibrated
<1>. QED
  BY <1>1, <1>2, <1>3 DEF DelayInv

LEMMA WidthsKept == ASSUME UNCHANGED fadt PROVE Modulus' = Modulus /\ Rollover' = Rollover
BY DEF fadt, Modulus, Rollover

LEMMA TickKeeps == ASSUME DelayInv, Tick PROVE DelayInv'
<1>. USE DEF DelayInv
<1>0. UNCHANGED fadt /\ Modulus' = Modulus
  BY WidthsKept DEF Tick
<1>1. TypeOK'
  <2>1. timer' \in 0..(Modulus' - 1)
    BY <1>0, Widths DEF Tick, TypeOK
  <2>2. tsc' \in [Callers -> Nat]
    BY DelaysAssumption DEF Tick, TypeOK
  <2>. QED
    BY <1>0, <2>1, <2>2 DEF Tick, TypeOK, fadt
<1>2. Clock'
  <2>1. CASE acpi_lock # {} /\ pm_timer_port
    <3>1. gap + 1 < Modulus /\ gap = Ticks /\ since = elapsed + gap
      BY <2>1 DEF Tick, GapBound, Clock
    <3>2. Ticks' = Ticks + 1
      BY <1>0, <2>1, <3>1, Widths, WidthsKept DEF Tick, TypeOK, Ticks
    <3>. QED
      BY <2>1, <3>1, <3>2 DEF Tick, TypeOK, Clock, fadt
  <2>. QED
    BY <2>1 DEF Tick, Clock, fadt, TypeOK
<1>3. Holder'
  BY DEF Tick, Holder
<1>4. Calibrating'
  <2>. SUFFICES ASSUME NEW c \in Callers, pc[c] = "delay", purpose[c] = "calibrate", pm_timer_port
                PROVE  tsc'[c] >= MaxWait \/ tsc'[c] >= since' * TscRate
    BY DEF Tick, Calibrating, fadt
  <2>1. tsc[c] >= MaxWait \/ tsc[c] >= since * TscRate
    BY DEF Calibrating
  <2>2. since' = since + 1
    BY DEF Holder, Tick
  <2>3. since' * TscRate = since * TscRate + TscRate
    BY <2>2, Distributes, DelaysAssumption DEF TypeOK
  <2>4. tsc'[c] = IF tsc[c] + TscRate > MaxWait THEN MaxWait ELSE tsc[c] + TscRate
    BY DEF Tick
  <2>5. since * TscRate \in Nat
    BY ProductMonotone, DelaysAssumption DEF TypeOK
  <2>. QED
    BY <2>1, <2>3, <2>4, <2>5, DelaysAssumption DEF TypeOK
<1>5. Calibrated'
  BY DEF Tick, Calibrated
<1>. QED
  BY <1>1, <1>2, <1>3, <1>4, <1>5

LEMMA EnterKeeps ==
    ASSUME DelayInv, NEW c \in Callers, NEW why \in {"mdelay", "calibrate"},
           NEW m \in Delays \cup {CalibrateMs}, Enter(c, why, m),
           why = "calibrate" => m = CalibrateMs
    PROVE  DelayInv'
<1>. USE DEF DelayInv
<1>1. TypeOK'
  BY WidthsKept DEF Enter, TypeOK, fadt
<1>2. Clock'
  BY WidthsKept DEF Enter, Clock, Ticks, fadt
<1>3. Holder' /\ Calibrating' /\ Calibrated'
  BY DEF Enter, Holder, Calibrating, Calibrated, TypeOK, fadt
<1>. QED
  BY <1>1, <1>2, <1>3

LEMMA StartKeeps == ASSUME DelayInv, NEW c \in Callers, Start(c) PROVE DelayInv'
<1>. USE DEF DelayInv
<1>1. TypeOK'
  BY WidthsKept DEF Start, TypeOK, fadt
<1>2. Clock'
  <2>1. Ticks' = 0
    BY WidthsKept, Widths DEF Start, Ticks, TypeOK
  <2>. QED
    BY <2>1 DEF Start, Clock, fadt
<1>3. Holder'
  BY DEF Start, Holder, TypeOK
<1>4. Calibrating'
  <2>1. since' * TscRate = 0
    BY DelaysAssumption DEF Start
  <2>2. \A d \in Callers : pc'[d] = "delay" => d = c
    BY DEF Start, Holder, TypeOK
  <2>. QED
    BY <2>1, <2>2 DEF Start, Calibrating, TypeOK, fadt
<1>5. Calibrated'
  BY DEF Start, Calibrated, TypeOK
<1>. QED
  BY <1>1, <1>2, <1>3, <1>4, <1>5

LEMMA ReadKeeps == ASSUME DelayInv, NEW c \in Callers, Read(c) PROVE DelayInv'
<1>. USE DEF DelayInv
<1>0. Ticks \in Nat /\ Ticks' = 0
  BY WidthsKept, Widths DEF Read, Ticks, TypeOK
<1>1. TypeOK'
  BY <1>0, WidthsKept DEF Read, TypeOK, fadt
<1>2. Clock'
  <2>1. ~pm_timer_port => Ticks = 0
    BY DEF Clock, Ticks
  <2>. QED
    BY <1>0, <2>1 DEF Read, Clock, TypeOK, fadt
<1>3. Holder' /\ Calibrating' /\ Calibrated'
  BY DEF Read, Holder, Calibrating, Calibrated, fadt
<1>. QED
  BY <1>1, <1>2, <1>3

\* The delay that ends has lasted as long as was asked for, and a calibration
\* that ends has measured a rate no lower than the true one.
LEMMA FinishIsLate ==
    ASSUME DelayInv, NEW c \in Callers, Finish(c)
    PROVE  /\ pm_timer_port => since >= Needed(c)
           /\ purpose[c] = "calibrate" => tsc[c] \div CalibrateMs >= Rate
<1>. USE DEF DelayInv
<1>1. ms[c] \in Nat /\ Needed(c) \in Nat
  <2>1. ms[c] \in Nat
    BY DelaysAssumption DEF TypeOK
  <2>. QED
    BY <2>1, ProductMonotone, DelaysAssumption DEF Needed
<1>2. elapsed >= Needed(c)
  BY <1>1 DEF Finish, MoreToWait, TypeOK
<1>3. pm_timer_port => since >= elapsed
  BY DEF Finish, Holder, Clock, TypeOK
<1>4. ASSUME purpose[c] = "calibrate"
      PROVE  tsc[c] \div CalibrateMs >= Rate
  <2>1. Needed(c) = CalibrateMs * PmPerMs
    BY <1>4 DEF Finish, Calibrating, Needed
  <2>2. pm_timer_port
    <3>1. \A a, b \in Nat \ {0} : a * b \in Nat \ {0}
      OBVIOUS
    <3>2. Needed(c) > 0
      BY <2>1, <3>1, DelaysAssumption
    <3>3. ~pm_timer_port => elapsed = 0
      BY DEF Clock
    <3>. QED
      BY <1>1, <1>2, <3>2, <3>3
  <2>3. since >= CalibrateMs * PmPerMs
    BY <1>1, <1>2, <1>3, <2>1, <2>2 DEF TypeOK
  <2>4. since * TscRate >= CalibrateMs * Rate
    <3>1. CalibrateMs * PmPerMs \in Nat
      BY <1>1, <2>1
    <3>2. (CalibrateMs * PmPerMs) * TscRate <= since * TscRate
      BY <2>3, <3>1, ProductMonotone, DelaysAssumption DEF TypeOK
    <3>. QED
      BY <3>2, RateFacts
  <2>5. tsc[c] >= MaxWait \/ tsc[c] >= since * TscRate
    BY <1>4, <2>2 DEF Finish, Calibrating
  <2>6. CalibrateMs * Rate \in Nat /\ since * TscRate \in Nat
    BY RateFacts, ProductMonotone, DelaysAssumption DEF TypeOK
  <2>7. tsc[c] >= CalibrateMs * Rate
    BY <2>4, <2>5, <2>6, RateFacts, DelaysAssumption DEF TypeOK
  <2>. QED
    BY <2>7, QuotientAtLeast, RateFacts, DelaysAssumption DEF TypeOK
<1>. QED
  BY <1>1, <1>2, <1>3, <1>4 DEF TypeOK

LEMMA FinishKeeps == ASSUME DelayInv, NEW c \in Callers, Finish(c) PROVE DelayInv'
<1>. USE DEF DelayInv
<1>1. TypeOK'
  <2>1. tsc[c] \div CalibrateMs \in Nat
    BY DelaysAssumption DEF TypeOK
  <2>. QED
    BY <2>1, WidthsKept, Widths DEF Finish, TypeOK, fadt
<1>2. Clock'
  BY DEF Finish, Clock, fadt
<1>3. Holder'
  BY DEF Finish, Holder, TypeOK
<1>4. Calibrating'
  BY DEF Finish, Holder, Calibrating, TypeOK, fadt
<1>5. Calibrated'
  <2>1. Rate > 0 /\ Rate \in Nat
    BY RateFacts
  <2>2. purpose[c] = "calibrate" => tsc_ticks_per_ms' >= Rate
    BY FinishIsLate DEF Finish
  <2>3. purpose[c] # "calibrate" => tsc_ticks_per_ms' = tsc_ticks_per_ms
    BY DEF Finish
  <2>. QED
    BY <1>1, <2>1, <2>2, <2>3 DEF Finish, Calibrated, TypeOK
<1>. QED
  BY <1>1, <1>2, <1>3, <1>4, <1>5

LEMMA FdelayKeeps ==
    ASSUME DelayInv, NEW c \in Callers, NEW m \in Delays, Fdelay(c, m) PROVE DelayInv'
<1>. USE DEF DelayInv
<1>1. TypeOK'
  BY WidthsKept DEF Fdelay, TypeOK, fadt
<1>2. Clock'
  BY WidthsKept DEF Fdelay, Clock, Ticks, fadt
<1>3. Holder' /\ Calibrating' /\ Calibrated'
  BY DEF Fdelay, Holder, Calibrating, Calibrated, TypeOK, fadt
<1>. QED
  BY <1>1, <1>2, <1>3

LEMMA FdelayReturnKeeps == ASSUME DelayInv, NEW c \in Callers, FdelayReturn(c) PROVE DelayInv'
<1>. USE DEF DelayInv
<1>1. TypeOK'
  BY WidthsKept DEF FdelayReturn, TypeOK, fadt
<1>2. Clock'
  BY WidthsKept DEF FdelayReturn, Clock, Ticks, fadt
<1>3. Holder' /\ Calibrating' /\ Calibrated'
  BY DEF FdelayReturn, Holder, Calibrating, Calibrated, TypeOK, fadt
<1>. QED
  BY <1>1, <1>2, <1>3

LEMMA StepKeeps == DelayInv /\ [Next]_vars => DelayInv'
<1>. SUFFICES ASSUME DelayInv, [Next]_vars PROVE DelayInv'
  OBVIOUS
<1>1. CASE Tick
  BY <1>1, TickKeeps
<1>2. ASSUME NEW c \in Callers, NEW m \in Delays, Enter(c, "mdelay", m)
      PROVE  DelayInv'
  BY <1>2, EnterKeeps
<1>3. ASSUME NEW c \in Callers, Enter(c, "calibrate", CalibrateMs)
      PROVE  DelayInv'
  BY <1>3, EnterKeeps
<1>4. ASSUME NEW c \in Callers, NEW m \in Delays, Fdelay(c, m)
      PROVE  DelayInv'
  BY <1>4, FdelayKeeps
<1>5. ASSUME NEW c \in Callers, Start(c) \/ Read(c) \/ Finish(c) \/ FdelayReturn(c)
      PROVE  DelayInv'
  BY <1>5, StartKeeps, ReadKeeps, FinishKeeps, FdelayReturnKeeps
<1>6. CASE UNCHANGED vars
  BY <1>6, WidthsKept DEF vars, DelayInv, TypeOK, Holder, Clock, Calibrating, Calibrated, Ticks,
                          fadt
<1>. QED
  BY <1>1, <1>2, <1>3, <1>4, <1>5, <1>6 DEF Next

-----------------------------------------------------------------------------
(* The theorems *)

(* The invariant holds of acpi_mdelay, ftimer_calibrate and fdelay on any  *)
(* number of processors.                                                   *)
THEOREM DelayInvHolds == Spec => []DelayInv
<1>1. QED
  BY DelaysStart, StepKeeps, PTL DEF Spec

(* Timer, locals and results of the delays keep their types: last and the  *)
(* hardware's count stay below the revolution that the FADT announces.     *)
THEOREM TypeCorrect == Spec => []TypeOK
<1>1. DelayInv => TypeOK
  BY DEF DelayInv
<1>. QED
  BY <1>1, DelayInvHolds, PTL

LEMMA FdelayIsLate ==
    ASSUME DelayInv, NEW c \in Callers, FdelayReturn(c)
    PROVE  tsc[c] >= ms[c] * PmPerMs * TscRate
<1>. USE DEF DelayInv
<1>1. ms[c] \in Nat
  BY DelaysAssumption DEF TypeOK
<1>2. tsc_ticks_per_ms >= Rate
  BY DEF FdelayReturn, Calibrated
<1>3. tsc[c] >= ms[c] * tsc_ticks_per_ms
  BY DEF FdelayReturn, FdelayOver
<1>4. ms[c] * Rate <= ms[c] * tsc_ticks_per_ms /\ ms[c] * tsc_ticks_per_ms \in Nat
  BY <1>1, <1>2, ProductMonotone, RateFacts DEF TypeOK
<1>5. ms[c] * Rate = ms[c] * PmPerMs * TscRate /\ ms[c] * Rate \in Nat
  BY <1>1, ProductAssoc, ProductMonotone, DelaysAssumption DEF Rate
<1>. QED
  BY <1>3, <1>4, <1>5 DEF TypeOK

LEMMA StepIsPunctual == DelayInv /\ [Next]_vars => Punctual \/ UNCHANGED vars
<1>. SUFFICES ASSUME DelayInv, Next PROVE Punctual
  OBVIOUS
<1>. SUFFICES ASSUME NEW d \in Callers
              PROVE  /\ pc[d] = "delay" /\ pc'[d] = "idle" /\ pm_timer_port => since >= Needed(d)
                     /\ pc[d] = "fdelay" /\ pc'[d] = "idle" =>
                           tsc[d] >= ms[d] * PmPerMs * TscRate
  BY DEF Punctual
<1>. USE DEF DelayInv, TypeOK
<1>1. CASE Tick
  BY <1>1 DEF Tick
<1>2. ASSUME NEW c \in Callers, Finish(c)
      PROVE  pc'[d] = pc[d] \/ (d = c /\ pc[d] = "delay" /\ (pm_timer_port => since >= Needed(d)))
  BY <1>2, FinishIsLate DEF Finish
<1>3. ASSUME NEW c \in Callers, FdelayReturn(c)
      PROVE  pc'[d] = pc[d] \/ (d = c /\ pc[d] = "fdelay" /\ tsc[d] >= ms[d] * PmPerMs * TscRate)
  BY <1>3, FdelayIsLate DEF FdelayReturn
<1>4. ASSUME NEW c \in Callers, NEW why, NEW m, Enter(c, why, m) \/ Fdelay(c, m)
      PROVE  pc'[d] # "idle" \/ pc'[d] = pc[d]
  BY <1>4 DEF Enter, Fdelay
<1>5. ASSUME NEW c \in Callers, Start(c) \/ Read(c)
      PROVE  pc'[d] # "idle" \/ pc'[d] = pc[d]
  BY <1>5 DEF Start, Read
<1>. QED
  BY <1>1, <1>2, <1>3, <1>4, <1>5 DEF Next

(* However often the timer has wrapped, acpi_mdelay never returns before   *)
(* the time it was asked for, whatever the width of the timer; and fdelay  *)
(* never before its own, with the rate that ftimer_calibrate measured.     *)
THEOREM NeverEarlyHolds == Spec => NeverEarly
<1>1. DelayInv => ElapsedExact
  BY DEF DelayInv, Clock, ElapsedExact, TypeOK
<1>2. DelayInv /\ [Next]_vars => [Punctual]_vars
  BY StepIsPunctual
<1>3. DelayInv' => ElapsedExact'
  BY <1>1, PTL
<1>4. DelayInv /\ DelayInv' /\ [Next]_vars => [ElapsedExact' /\ Punctual]_vars
  BY <1>2, <1>3
<1>. QED
  BY <1>4, DelayInvHolds, PTL DEF Spec, NeverEarly

-----------------------------------------------------------------------------
(* The reset: SmpShutdown *)

StopTypes ==
    /\ registered \in SUBSET Stop!Cores
    /\ mode \in [Stop!Cores -> {"run", "reset"}]
    /\ stop_i \in [Stop!Cores -> Nat]
    /\ stop_pc \in [Stop!Cores -> {"idle", "work", "free", "freeing", "halt", "each", "ipi", "write",
                         "select", "verify", "virt", "virt_add", "register", "ways"}]

Stopped(d) == mode[d] = "reset" \/ d \in init

After == {"write", "select", "verify", "virt", "virt_add", "register", "ways"}

\* c has dealt with the cores before its index, and beyond the loop with all.
Swept(c) ==
    /\ stop_pc[c] \in {"each", "ipi"} => \A d \in registered : d < stop_i[c] => Stopped(d)
    /\ stop_pc[c] = "ipi" => stop_i[c] \in registered
    /\ stop_pc[c] \in After /\ c \notin Offs => \A d \in registered : Stopped(d)

\* acpi_shutdown halts before the ways to reset.
OffsHalt == \A c \in Offs \cap Stop!Cores : stop_pc[c] \notin {"virt", "virt_add", "register", "ways"}

StopInv == StopTypes /\ (\A c \in Stop!Cores : Swept(c)) /\ OffsHalt /\ Stop!OthersStopped

-----------------------------------------------------------------------------
LEMMA StopStarts == ASSUME N \in Nat, Stop!Init PROVE StopInv
BY DEF Stop!Init, StopInv, StopTypes, Swept, OffsHalt, Stop!OthersStopped, After, Stop!Cores

(* No step starts a core again or calls an INIT back.                      *)
LEMMA StoppedStays ==
    ASSUME N \in Nat, StopInv, NEW c \in Stop!Cores,
           Stop!Work(c) \/ Stop!Loop(c) \/ Stop!Reset(c) \/ Stop!CallReboot(c) \/ Stop!Reboot(c)
    PROVE  /\ registered' = registered
           /\ \A d \in registered : Stopped(d) => Stopped(d)'
<1>1. CASE Stop!Reset(c)
  BY <1>1 DEF Stop!Reset, Stopped, StopInv, StopTypes
<1>2. CASE Stop!Reboot(c)
  BY <1>2 DEF Stop!Reboot, Stop!Shutdown, Stop!Skip, Stop!SetShutdown, Stop!SendInit, Stop!Select,
              Stop!WriteByte, Stop!VerifySelect,
              Stop!VerifyAgain, Stop!Verified, Stop!AllocVirt, Stop!WriteRegister,
              Stop!ResetMachine, Stop!board, Stopped
<1>3. CASE Stop!Work(c) \/ Stop!Loop(c) \/ Stop!CallReboot(c)
  BY <1>3 DEF Stop!Work, Stop!Loop, Stop!WorkDone, Stop!SeeShutdown, Stop!FreeStack,
              Stop!HaltCore, Stop!CallReboot, Stop!board, Stopped
<1>. QED
  BY <1>1, <1>2, <1>3

(* The places of the other cores stay, and so does what they have done.    *)
LEMMA OthersSwept ==
    ASSUME StopInv, NEW d \in Stop!Cores, stop_pc'[d] = stop_pc[d], stop_i'[d] = stop_i[d],
           registered' = registered, \A e \in registered : Stopped(e) => Stopped(e)'
    PROVE  Swept(d)'
BY DEF StopInv, StopTypes, Swept

(* A step that keeps the machine on keeps OthersStopped.                   *)
LEMMA StillOn ==
    ASSUME StopInv, machine' = machine, registered' = registered,
           \A e \in registered : Stopped(e) => Stopped(e)'
    PROVE  Stop!OthersStopped'
BY DEF StopInv, Stop!OthersStopped, Stopped

-----------------------------------------------------------------------------
(* What the cores do otherwise: nobody is in acpi_reboot after it.         *)
LEMMA OtherStep ==
    ASSUME N \in Nat, StopInv, NEW c \in Stop!Cores, Stop!Work(c) \/ Stop!Loop(c)
                                                     \/ Stop!Reset(c) \/ Stop!CallReboot(c)
    PROVE  StopInv'
<1>1. /\ registered' = registered /\ machine' = machine
      /\ \A e \in registered : Stopped(e) => Stopped(e)'
  <2>1. machine' = machine
    BY DEF Stop!Work, Stop!Loop, Stop!WorkDone, Stop!SeeShutdown, Stop!FreeStack, Stop!HaltCore,
           Stop!CallReboot, Stop!Reset, Stop!board
  <2>. QED
    BY <2>1, StoppedStays
<1>2. /\ StopTypes'
      /\ \A d \in Stop!Cores : d # c => stop_pc'[d] = stop_pc[d] /\ stop_i'[d] = stop_i[d]
      /\ \/ stop_pc'[c] = stop_pc[c] /\ stop_i'[c] = stop_i[c]
         \/ stop_pc'[c] \in {"idle", "work", "free", "freeing", "halt"}
         \/ stop_pc'[c] = "each" /\ stop_i'[c] = 1
  <2>1. CASE Stop!Reset(c)
    BY <2>1 DEF Stop!Reset, StopInv, StopTypes
  <2>2. CASE Stop!CallReboot(c)
    BY <2>2 DEF Stop!CallReboot, Stop!Goto, Stop!board, StopInv, StopTypes
  <2>3. CASE Stop!Work(c)
    BY <2>3 DEF Stop!Work, Stop!Goto, Stop!board, StopInv, StopTypes
  <2>4. CASE Stop!Loop(c)
    BY <2>4 DEF Stop!Loop, Stop!WorkDone, Stop!SeeShutdown, Stop!FreeStack, Stop!HaltCore,
                Stop!Goto, Stop!board, StopInv, StopTypes
  <2>. QED
    BY <2>1, <2>2, <2>3, <2>4
<1>3. \A d \in Stop!Cores : Swept(d)'
  <2>1. ASSUME NEW d \in Stop!Cores, stop_pc'[d] = stop_pc[d], stop_i'[d] = stop_i[d]
        PROVE  Swept(d)'
    BY <1>1, <2>1, OthersSwept
  <2>2. ASSUME stop_pc'[c] \in {"idle", "work", "free", "freeing", "halt"}
        PROVE  Swept(c)'
    BY <2>2 DEF Swept, After
  <2>3. ASSUME stop_pc'[c] = "each" /\ stop_i'[c] = 1
        PROVE  Swept(c)'
    BY <1>1, <2>3 DEF Swept, After, StopInv, StopTypes, Stop!Cores
  <2>. QED
    BY <1>2, <2>1, <2>2, <2>3
<1>4. OffsHalt'
  BY <1>2 DEF StopInv, OffsHalt
<1>. QED
  BY <1>1, <1>2, <1>3, <1>4, StillOn DEF StopInv

(* The loop of smp_shutdown: a hole is skipped, a core gets its INIT.      *)
LEMMA ShutdownStep ==
    ASSUME N \in Nat, StopInv, NEW c \in Stop!Cores, Stop!Shutdown(c)
    PROVE  StopInv'
<1>1. /\ registered' = registered /\ machine' = machine
      /\ \A e \in registered : Stopped(e) => Stopped(e)'
  <2>1. machine' = machine
    BY DEF Stop!Shutdown, Stop!Skip, Stop!SetShutdown, Stop!SendInit, Stop!board
  <2>. QED
    BY <2>1, StoppedStays DEF Stop!Reboot
<1>2. /\ StopTypes'
      /\ \A d \in Stop!Cores : d # c => stop_pc'[d] = stop_pc[d] /\ stop_i'[d] = stop_i[d]
      /\ stop_pc'[c] \in {"each", "ipi"} /\ stop_pc[c] \in {"each", "ipi"}
  BY DEF Stop!Shutdown, Stop!Skip, Stop!SetShutdown, Stop!SendInit, Stop!Goto, Stop!board,
         StopInv, StopTypes
<1>3. Swept(c)'
  <2>0. /\ \A d \in registered : d < stop_i[c] => Stopped(d)'
        /\ registered \subseteq Stop!Cores /\ stop_i[c] \in Nat
    BY <1>1, <1>2 DEF StopInv, Swept, StopTypes
  <2>1. CASE Stop!Skip(c)
    <3>1. stop_i'[c] = stop_i[c] + 1 /\ stop_i[c] \notin registered /\ stop_pc'[c] = "each"
      BY <2>1 DEF Stop!Skip, Stop!Goto, StopInv, StopTypes
    <3>2. \A d \in registered : d < stop_i[c] + 1 => Stopped(d)'
      BY <2>0, <3>1 DEF Stop!Cores
    <3>. QED
      BY <1>1, <3>1, <3>2 DEF Swept, After
  <2>2. CASE Stop!SetShutdown(c)
    <3>1. stop_i'[c] = stop_i[c] /\ stop_i[c] \in registered /\ stop_pc'[c] = "ipi"
      BY <2>2 DEF Stop!SetShutdown, Stop!Goto, StopInv, StopTypes
    <3>. QED
      BY <1>1, <2>0, <3>1 DEF Swept, After
  <2>3. CASE Stop!SendInit(c)
    <3>1. stop_i'[c] = stop_i[c] + 1 /\ init' = init \cup {stop_i[c]} /\ stop_pc'[c] = "each"
      BY <2>3 DEF Stop!SendInit, Stop!Goto, StopInv, StopTypes
    <3>2. \A d \in registered : d < stop_i[c] + 1 => Stopped(d)'
      BY <2>0, <3>1 DEF Stop!Cores, Stopped
    <3>. QED
      BY <1>1, <3>1, <3>2 DEF Swept, After
  <2>. QED
    BY <2>1, <2>2, <2>3 DEF Stop!Shutdown
<1>4. \A d \in Stop!Cores : Swept(d)'
  BY <1>1, <1>2, <1>3, OthersSwept
<1>5. OffsHalt'
  BY <1>2 DEF StopInv, OffsHalt
<1>. QED
  BY <1>1, <1>2, <1>4, <1>5, StillOn DEF StopInv

(* The rest of acpi_reboot, and acpi_shutdown: who is beyond the loop of   *)
(* smp_shutdown comes from its end, or from acpi_shutdown.                 *)
LEMMA RestStep ==
    ASSUME N \in Nat, StopInv, NEW c \in Stop!Cores, Stop!Reboot(c), ~Stop!Shutdown(c)
    PROVE  StopInv'
<1>1. /\ registered' = registered
      /\ \A e \in registered : Stopped(e) => Stopped(e)'
  BY StoppedStays
<1>2. /\ StopTypes' /\ stop_i' = stop_i
      /\ \A d \in Stop!Cores : d # c => stop_pc'[d] = stop_pc[d]
  BY DEF Stop!Reboot, Stop!Select, Stop!WriteByte, Stop!VerifySelect, Stop!VerifyAgain,
         Stop!Verified, Stop!AllocVirt, Stop!WriteRegister, Stop!ResetMachine,
         Stop!Goto, Stop!board, StopInv, StopTypes
<1>3. /\ stop_pc'[c] \in After \cup {"halt"}
      /\ c \in Offs => stop_pc'[c] \in {"write", "select", "verify", "halt"}
      /\ c \notin Offs => stop_pc[c] \in After \/ (stop_pc[c] = "each" /\ stop_i[c] > N)
  <2>1. CASE Stop!Select(c)
    BY <2>1 DEF Stop!Select, Stop!Goto, StopInv, StopTypes, After
  <2>2. CASE Stop!WriteByte(c) \/ Stop!VerifySelect(c) \/ Stop!VerifyAgain(c)
    BY <2>2 DEF Stop!WriteByte, Stop!VerifySelect, Stop!VerifyAgain, Stop!Goto, StopInv,
                StopTypes, After
  <2>3. CASE Stop!Verified(c)
    BY <2>3 DEF Stop!Verified, Stop!Goto, StopInv, StopTypes, After
  <2>4. CASE Stop!AllocVirt(c) \/ Stop!WriteRegister(c) \/ Stop!ResetMachine(c)
    BY <2>4 DEF Stop!AllocVirt, Stop!WriteRegister, Stop!ResetMachine, Stop!Goto, StopInv,
                StopTypes, After, OffsHalt
  <2>. QED
    BY <2>1, <2>2, <2>3, <2>4 DEF Stop!Reboot
<1>4. c \notin Offs => \A d \in registered : Stopped(d)'
  <2>1. CASE stop_pc[c] \in After
    BY <1>1, <2>1 DEF StopInv, Swept
  <2>2. CASE stop_pc[c] = "each" /\ stop_i[c] > N
    BY <1>1, <2>2 DEF StopInv, Swept, StopTypes, Stop!Cores
  <2>. QED
    BY <1>3, <2>1, <2>2
<1>5. \A d \in Stop!Cores : Swept(d)'
  <2>1. Swept(c)'
    BY <1>1, <1>3, <1>4 DEF Swept, After
  <2>. QED
    BY <1>1, <1>2, <2>1, OthersSwept
<1>6. OffsHalt'
  BY <1>2, <1>3 DEF StopInv, OffsHalt
<1>7. Stop!OthersStopped'
  <2>1. CASE machine' = machine
    BY <1>1, <2>1, StillOn
  <2>2. CASE Stop!ResetMachine(c)
    <3>1. stop_pc[c] = "ways"
      BY <2>2 DEF Stop!ResetMachine, Stop!Goto
    <3>2. c \notin Offs
      BY <3>1 DEF StopInv, OffsHalt
    <3>. QED
      BY <1>1, <1>4, <3>2 DEF Stop!OthersStopped, Stopped
  <2>. QED
    BY <2>1, <2>2 DEF Stop!Reboot, Stop!Select, Stop!WriteByte, Stop!VerifySelect,
                      Stop!VerifyAgain, Stop!Verified, Stop!AllocVirt, Stop!WriteRegister,
                      Stop!board
<1>. QED
  BY <1>2, <1>5, <1>6, <1>7 DEF StopInv

LEMMA StopKeeps ==
    ASSUME N \in Nat, StopInv, Stop!Next \/ UNCHANGED stopVars
    PROVE  StopInv'
<1>1. ASSUME NEW c \in Stop!Cores, Stop!Work(c) \/ Stop!Loop(c) \/ Stop!Reset(c)
                                   \/ Stop!CallReboot(c)
      PROVE  StopInv'
  BY <1>1, OtherStep
<1>2. ASSUME NEW c \in Stop!Cores, Stop!Reboot(c)
      PROVE  StopInv'
  BY <1>2, ShutdownStep, RestStep
<1>3. CASE UNCHANGED stopVars
  BY <1>3 DEF stopVars, StopInv, StopTypes, Swept, Stopped, OffsHalt, Stop!OthersStopped
<1>. QED
  BY <1>1, <1>2, <1>3 DEF Stop!Next

(* The core that calls acpi_reboot resets the machine only when every core *)
(* in the table has had its INIT or will have it, however many cores call  *)
(* acpi_reboot and acpi_shutdown at the same time (smp.c:448, acpi.c:305). *)
THEOREM OthersStoppedHolds == AcpiSpec => []OthersStopped
<1>1. AcpiStart => StopInv
  BY StopStarts, AcpiAssumption DEF AcpiStart
<1>2. StopInv /\ [AcpiNext]_<<part, vars, startVars, stopVars>> => StopInv'
  <2>. SUFFICES ASSUME StopInv, [AcpiNext]_<<part, vars, startVars, stopVars>>
                PROVE  StopInv'
    OBVIOUS
  <2>1. Stop!Next \/ UNCHANGED stopVars
    BY DEF AcpiNext
  <2>. QED
    BY <2>1, StopKeeps, AcpiAssumption
<1>3. StopInv => OthersStopped
  BY DEF StopInv, OthersStopped
<1>. QED
  BY <1>1, <1>2, <1>3, PTL DEF AcpiSpec
-----------------------------------------------------------------------------
(* Sequences that are put together *)

LEMMA NatMin ==
    ASSUME NEW S \in SUBSET Nat, S # {}
    PROVE  \E m \in S : \A n \in S : m <= n
<1>1. IsWellFoundedOn(OpToRel(<, Nat), Nat)
  BY NatLessThanWellFounded
<1>2. PICK m \in S : \A n \in S : ~ (<<n, m>> \in OpToRel(<, Nat))
  BY <1>1, WFMin, Zenon
<1>3. ASSUME NEW n \in S PROVE m <= n
  <2>1. ~ (<<n, m>> \in OpToRel(<, Nat))
    BY <1>2
  <2>2. n < m => <<n, m>> \in OpToRel(<, Nat)
    BY DEF OpToRel
  <2>3. ~ (n < m)
    BY <2>1, <2>2, Zenon
  <2>. QED
    BY <2>3
<1>. QED
  BY <1>3

(* f[k] is the first k of the sequences, one after another.                *)
Joins(f, seqs, n) ==
    f = [k \in 1..n |-> IF k = 1 THEN seqs[k] ELSE f[k - 1] \o seqs[k]]

LEMMA JoinsAre ==
    ASSUME NEW f, NEW seqs, NEW n, Joins(f, seqs, n), NEW k \in 1..n
    PROVE  f[k] = IF k = 1 THEN seqs[k] ELSE f[k - 1] \o seqs[k]
<1>1. PICK g : g = [j \in 1..n |-> IF j = 1 THEN seqs[j] ELSE f[j - 1] \o seqs[j]]
  OBVIOUS
<1>2. g[k] = IF k = 1 THEN seqs[k] ELSE f[k - 1] \o seqs[k]
  BY <1>1
<1>3. f = g
  BY <1>1 DEF Joins
<1>. QED
  BY <1>2, <1>3

LEMMA JoinsExist ==
    ASSUME NEW seqs, NEW n \in Nat
    PROVE  \E f : Joins(f, seqs, n)
<1>. DEFINE Bad == {m \in Nat : ~ \E f : Joins(f, seqs, m)}
<1>1. \E f : Joins(f, seqs, 0)
  <2>1. PICK f : f = [k \in 1..0 |-> seqs]
    OBVIOUS
  <2>2. f = [k \in 1..0 |-> IF k = 1 THEN seqs[k] ELSE f[k - 1] \o seqs[k]]
    BY <2>1
  <2>. QED
    BY <2>2 DEF Joins
<1>2. ASSUME NEW m \in Nat, NEW f, Joins(f, seqs, m)
      PROVE  \E g : Joins(g, seqs, m + 1)
  <2>. DEFINE g == [k \in 1..(m + 1) |->
                      IF k = 1 THEN seqs[k] ELSE f[k - 1] \o seqs[k]]
  <2>1. \A k \in 1..m : g[k] = f[k]
    BY <1>2, JoinsAre
  <2>2. g = [k \in 1..(m + 1) |-> IF k = 1 THEN seqs[k] ELSE g[k - 1] \o seqs[k]]
    <3>1. ASSUME NEW k \in 1..(m + 1), k # 1 PROVE f[k - 1] = g[k - 1]
      <4>1. k - 1 \in 1..m
        BY <3>1
      <4>. QED
        BY <2>1, <4>1
    <3>. QED
      BY <3>1
  <2>. HIDE DEF g
  <2>. QED
    BY <2>2 DEF Joins
<1>3. Bad = {}
  <2>. SUFFICES ASSUME Bad # {} PROVE FALSE
    OBVIOUS
  <2>1. PICK m \in Bad : \A k \in Bad : m <= k
    BY NatMin
  <2>2. m \in Nat /\ m # 0
    BY <1>1
  <2>3. PICK k \in Nat : m = k + 1
    BY <2>2
  <2>4. k \notin Bad
    <3>1. ~(m <= k)
      BY <2>3
    <3>. HIDE DEF Bad
    <3>. QED
      BY <2>1, <3>1
  <2>. QED
    BY <1>2, <2>1, <2>3, <2>4
<1>. QED
  BY <1>3

LEMMA JoinsAgree ==
    ASSUME NEW m \in Nat, NEW n \in 0..m, NEW f, NEW g, NEW seqs, NEW others,
           Joins(f, seqs, m), Joins(g, others, n), \A k \in 1..n : seqs[k] = others[k]
    PROVE  \A k \in 1..n : f[k] = g[k]
<1>. DEFINE Bad == {k \in 1..n : f[k] # g[k]}
<1>1. /\ \A k \in 1..m : f[k] = IF k = 1 THEN seqs[k] ELSE f[k - 1] \o seqs[k]
      /\ \A k \in 1..n : g[k] = IF k = 1 THEN others[k] ELSE g[k - 1] \o others[k]
  BY JoinsAre
<1>2. Bad = {}
  <2>. SUFFICES ASSUME Bad # {} PROVE FALSE
    OBVIOUS
  <2>1. PICK k \in Bad : \A j \in Bad : k <= j
    <3>1. Bad \in SUBSET Nat
      OBVIOUS
    <3>. HIDE DEF Bad
    <3>. QED
      BY <3>1, NatMin
  <2>2. k \in 1..n /\ k \in 1..m /\ f[k] # g[k]
    OBVIOUS
  <2>3. CASE k = 1
    BY <1>1, <2>2, <2>3
  <2>4. CASE k # 1
    <3>1. k - 1 \in 1..n /\ ~(k <= k - 1)
      BY <2>2, <2>4
    <3>2. f[k - 1] = g[k - 1]
      BY <2>1, <3>1
    <3>. QED
      BY <1>1, <2>2, <2>4, <3>2
  <2>. QED
    BY <2>3, <2>4
<1>. QED
  BY <1>2

(* The first n sequences, one after another.                               *)
Flat(P, n) == Tables!FlattenSeq([k \in 1..n |-> P[k]])

LEMMA FlatIs ==
    ASSUME NEW X, NEW m \in Nat, NEW P \in [1..m -> Seq(X)]
    PROVE  /\ Flat(P, 0) = <<>>
           /\ \A n \in 1..m : Flat(P, n) = Flat(P, n - 1) \o P[n]
           /\ \A n \in 0..m : Flat(P, n) \in Seq(X)
<1>1. PICK f : Joins(f, P, m)
  BY JoinsExist
<1>2. Flat(P, 0) = <<>>
  BY DEF Flat, Tables!FlattenSeq
<1>3. ASSUME NEW n \in 1..m PROVE Flat(P, n) = f[n]
  <2>. DEFINE first == [k \in 1..n |-> P[k]]
              g == CHOOSE h : Joins(h, first, n)
  <2>1. Len(first) = n /\ n # 0 /\ n \in Nat
    <3>1. first \in Seq(Seq(X)) /\ DOMAIN first = 1..n
      OBVIOUS
    <3>. HIDE DEF first
    <3>. QED
      BY <3>1, LenProperties
  <2>2. Joins(g, first, n)
    <3>. HIDE DEF first
    <3>1. \E h : Joins(h, first, n)
      BY <2>1, JoinsExist
    <3>. QED
      BY <3>1
  <2>3. Tables!FlattenSeq(first) = g[n]
    <3>. HIDE DEF first
    <3>. QED
      BY <2>1 DEF Tables!FlattenSeq, Joins
  <2>4. \A k \in 1..n : P[k] = first[k]
    OBVIOUS
  <2>5. f[n] = g[n]
    <3>. HIDE DEF first, g
    <3>1. n \in 0..m /\ n \in 1..n
      OBVIOUS
    <3>2. \A k \in 1..n : f[k] = g[k]
      BY <1>1, <2>2, <2>4, <3>1, JoinsAgree
    <3>. QED
      BY <3>1, <3>2
  <2>. QED
    BY <2>3, <2>5 DEF Flat
<1>4. \A k \in 1..m : f[k] = IF k = 1 THEN P[k] ELSE f[k - 1] \o P[k]
  BY <1>1, JoinsAre
<1>5. ASSUME NEW n \in 1..m PROVE Flat(P, n) = Flat(P, n - 1) \o P[n]
  <2>1. CASE n = 1
    <3>1. P[1] \in Seq(X) /\ <<>> \o P[1] = P[1]
      BY <2>1
    <3>2. Flat(P, n) = P[1]
      BY <1>3, <1>4, <2>1
    <3>3. Flat(P, n - 1) = <<>>
      BY <1>2, <2>1
    <3>. QED
      BY <2>1, <3>1, <3>2, <3>3
  <2>2. CASE n # 1
    <3>1. n - 1 \in 1..m
      BY <2>2
    <3>2. Flat(P, n) = f[n] /\ Flat(P, n - 1) = f[n - 1]
      BY <1>3, <3>1
    <3>. QED
      BY <1>4, <2>2, <3>2
  <2>. QED
    BY <2>1, <2>2
<1>6. \A n \in 0..m : Flat(P, n) \in Seq(X)
  <2>. DEFINE Bad == {n \in 0..m : Flat(P, n) \notin Seq(X)}
  <2>. SUFFICES ASSUME Bad # {} PROVE FALSE
    OBVIOUS
  <2>1. PICK k \in Bad : \A j \in Bad : k <= j
    <3>1. Bad \in SUBSET Nat
      OBVIOUS
    <3>. HIDE DEF Bad
    <3>. QED
      BY <3>1, NatMin
  <2>2. k \in 0..m /\ Flat(P, k) \notin Seq(X)
    OBVIOUS
  <2>3. k # 0
    <3>1. <<>> \in Seq(X)
      OBVIOUS
    <3>. QED
      BY <1>2, <2>2, <3>1
  <2>4. k \in 1..m /\ k - 1 \in 0..m /\ ~(k <= k - 1)
    BY <2>2, <2>3
  <2>5. Flat(P, k - 1) \in Seq(X)
    BY <2>1, <2>4
  <2>6. P[k] \in Seq(X)
    BY <2>4
  <2>7. Flat(P, k - 1) \o P[k] \in Seq(X)
    BY <2>5, <2>6
  <2>. QED
    BY <1>5, <2>2, <2>4, <2>7
<1>. QED
  BY <1>2, <1>5, <1>6

-----------------------------------------------------------------------------
(* The start-up: AcpiInit                                                  *)

Kinds == {"bad", "v1", "v2", "v2bad"}
Bytes == 0..255

(* What acpi_init goes through: the tables of the right root, and of those *)
(* the entries of the MADTs.                                               *)
T == Tables!RightTables
Enabled(e) == IF e.type = "LAPIC" /\ e.enabled THEN <<e.id>> ELSE <<>>
IdsTo(entries, n) == Tables!FlattenSeq([k \in 1..n |-> Enabled(entries[k])])
IdsOf(t) == IF t.sig = "APIC" THEN IdsTo(t.entries, Len(t.entries)) ELSE <<>>
AllIdsTo(ts, n) == Tables!FlattenSeq([k \in 1..n |-> IdsOf(ts[k])])

(* The pointer is to the last of the first n tables that has the           *)
(* signature.                                                              *)
PointsTo(ts, kept, sig, n) ==
    IF \A k \in 1..n : ts[k].sig # sig THEN kept = <<>>
    ELSE \E k \in 1..n : /\ ts[k].sig = sig /\ kept = <<ts[k]>>
                         /\ \A j \in (k + 1)..n : ts[j].sig # sig

(* The tables that have been passed, and those that have been looked at.   *)
Passed == CASE start_pc \in {"lock", "search", "root"} -> 0
            [] start_pc \in {"table", "entry"} -> start_i - 1
            [] OTHER -> Len(T)
Looked == IF start_pc = "entry" THEN start_i ELSE Passed

PlaceInv ==
    /\ image \in Images
    /\ start_pc \in {"lock", "search", "root", "table", "entry", "unlock", "apic_info",
                     "lapic_base", "mcfg", "done"}
    /\ start_pc \in {"root", "table", "entry", "unlock"} =>
          Tables!SoundImage /\ Tables!Root = Tables!RightRoot
    /\ start_pc \in {"table", "entry"} =>
          T = Tables!Root.tables /\ start_i \in 1..(Len(T) + 1)
    /\ start_pc = "entry" => /\ start_i <= Len(T) /\ T[start_i].sig = "APIC"
                             /\ entry \in 1..(Len(T[start_i].entries) + 1)

(* What is kept of the tables and of the entries so far.                   *)
KeptInv ==
    /\ PointsTo(T, mcfg_table, "MCFG", Passed)
    /\ PointsTo(T, madt_table, "APIC", Looked)
    /\ PointsTo(T, fadt_table, "FACP", Passed)
    /\ pm_timer = [port |-> IF fadt_table = <<>> THEN 0 ELSE fadt_table[1].port,
                   is24 |-> \A k \in 1..Passed : T[k].sig = "FACP" => ~T[k].ext]
    /\ apic_ids = IF start_pc = "entry"
                  THEN AllIdsTo(T, Passed) \o IdsTo(T[start_i].entries, entry - 1)
                  ELSE AllIdsTo(T, Passed)
    /\ Len(apic_ids) <= MaxIds

GivenInv ==
    /\ DOMAIN given = {"ids", "base"}
    /\ start_pc \in {"lapic_base", "mcfg", "done"} => given.ids = apic_ids
    /\ start_pc \in {"mcfg", "done"} =>
          given.base = IF madt_table = <<>> THEN "page 0" ELSE madt_table[1].base

TablesInv == PlaceInv /\ KeptInv /\ GivenInv

(* The walk of a MADT does not come to its end any more: it is at an entry *)
(* of length 0, or apic_ids is full.                                       *)
Lost ==
    \/ start_pc = "overrun"
    \/ /\ start_pc = "entry" /\ ~(entry > Len(Tables!Table.entries))
       /\ Tables!ThisEntry.len = 0

LEMMA IdsMore ==
    ASSUME NEW entries, Len(entries) \in Nat, \A k \in 1..Len(entries) : entries[k].id \in Bytes
    PROVE  /\ IdsTo(entries, 0) = <<>>
           /\ \A n \in 1..Len(entries) :
                 IdsTo(entries, n) = IdsTo(entries, n - 1) \o Enabled(entries[n])
           /\ \A n \in 0..Len(entries) : IdsTo(entries, n) \in Seq(Bytes)
<1>. DEFINE m == Len(entries)
            P == [k \in 1..m |-> Enabled(entries[k])]
<1>1. P \in [1..m -> Seq(Bytes)]
  BY DEF Enabled
<1>2. ASSUME NEW n \in 0..m PROVE IdsTo(entries, n) = Flat(P, n)
  <2>1. [k \in 1..n |-> P[k]] = [k \in 1..n |-> Enabled(entries[k])]
    OBVIOUS
  <2>. HIDE DEF P
  <2>. QED
    BY <2>1 DEF IdsTo, Flat
<1>3. \A n \in 1..m : P[n] = Enabled(entries[n]) /\ n \in 0..m /\ n - 1 \in 0..m
  OBVIOUS
<1>4. 0 \in 0..m
  OBVIOUS
<1>5. /\ Flat(P, 0) = <<>>
      /\ \A n \in 1..m : Flat(P, n) = Flat(P, n - 1) \o P[n]
      /\ \A n \in 0..m : Flat(P, n) \in Seq(Bytes)
  <2>. HIDE DEF P
  <2>. QED
    BY <1>1, FlatIs
<1>. HIDE DEF P
<1>. QED
  BY <1>2, <1>3, <1>4, <1>5

(* What the tables are known to be.                                        *)
LEMMA TablesAre ==
    ASSUME image \in Images
    PROVE  /\ Len(T) \in Nat
           /\ \A k \in 1..Len(T) :
                 /\ T[k].sig = "FACP" => T[k].ext \in BOOLEAN
                 /\ T[k].sig = "APIC" =>
                       /\ Len(T[k].entries) \in Nat
                       /\ \A j \in 1..Len(T[k].entries) : T[k].entries[j].id \in Bytes
<1>. DEFINE Elements(s) == {s[k] : k \in DOMAIN s}
            Sound(s) == \A t \in Elements(s) :
                           /\ t.sig = "FACP" => t.ext \in BOOLEAN
                           /\ t.sig = "APIC" =>
                                 /\ t.entries \in Seq(Elements(t.entries))
                                 /\ \A e \in Elements(t.entries) : e.id \in Bytes
<1>1. T = <<>> \/ (T \in Seq(Elements(T)) /\ Sound(T))
  <2>1. Tables!RightRoot \in {image.rsdt, image.xsdt}
    BY DEF Tables!RightRoot
  <2>2. \A root \in {image.rsdt, image.xsdt} :
           root.tables \in Seq(Elements(root.tables)) /\ Sound(root.tables)
    BY ImagesAssumption DEF Bytes
  <2>3. T = <<>> \/ T = Tables!RightRoot.tables
    BY DEF T, Tables!RightTables
  <2>4. CASE T = Tables!RightRoot.tables
    <3>1. Tables!RightRoot.tables \in Seq(Elements(Tables!RightRoot.tables))
          /\ Sound(Tables!RightRoot.tables)
      <4>. HIDE DEF Elements, Sound
      <4>. QED
        BY <2>1, <2>2
    <3>. QED
      BY <2>4, <3>1
  <2>. QED
    BY <2>3, <2>4
<1>2. ASSUME NEW s, s \in Seq(Elements(s)) PROVE Len(s) \in Nat /\ DOMAIN s = 1..Len(s)
  BY <1>2, LenProperties
<1>3. CASE T = <<>>
  BY <1>3
<1>4. CASE T \in Seq(Elements(T)) /\ Sound(T)
  <2>1. Len(T) \in Nat /\ DOMAIN T = 1..Len(T)
    BY <1>2, <1>4
  <2>2. ASSUME NEW k \in 1..Len(T), T[k].sig = "APIC"
        PROVE  /\ Len(T[k].entries) \in Nat
               /\ \A j \in 1..Len(T[k].entries) : T[k].entries[j].id \in Bytes
    <3>1. T[k].entries \in Seq(Elements(T[k].entries)) /\ \A e \in Elements(T[k].entries) : e.id \in Bytes
      BY <1>4, <2>1, <2>2
    <3>2. /\ Len(T[k].entries) \in Nat /\ DOMAIN T[k].entries = 1..Len(T[k].entries)
      BY <1>2, <3>1
    <3>. QED
      BY <3>1, <3>2
  <2>3. \A k \in 1..Len(T) : T[k].sig = "FACP" => T[k].ext \in BOOLEAN
    BY <1>4, <2>1
  <2>. QED
    BY <2>1, <2>2, <2>3
<1>. QED
  BY <1>1, <1>3, <1>4

LEMMA AllIdsMore ==
    ASSUME image \in Images
    PROVE  /\ AllIdsTo(T, 0) = <<>>
           /\ \A n \in 1..Len(T) : AllIdsTo(T, n) = AllIdsTo(T, n - 1) \o IdsOf(T[n])
           /\ \A n \in 0..Len(T) : AllIdsTo(T, n) \in Seq(Bytes)
<1>. DEFINE m == Len(T)
            P == [k \in 1..m |-> IdsOf(T[k])]
<1>0. m \in Nat
  BY TablesAre
<1>1. P \in [1..m -> Seq(Bytes)]
  <2>. SUFFICES ASSUME NEW k \in 1..m PROVE IdsOf(T[k]) \in Seq(Bytes)
    OBVIOUS
  <2>1. CASE T[k].sig = "APIC"
    <3>. DEFINE es == T[k].entries
    <3>1. Len(es) \in Nat /\ \A j \in 1..Len(es) : es[j].id \in Bytes
      BY <2>1, TablesAre
    <3>2. IdsTo(es, Len(es)) \in Seq(Bytes)
      <4>1. Len(es) \in 0..Len(es)
        BY <3>1
      <4>. HIDE DEF es
      <4>. QED
        BY <3>1, <4>1, IdsMore
    <3>. QED
      BY <2>1, <3>2 DEF IdsOf
  <2>2. CASE T[k].sig # "APIC"
    BY <2>2 DEF IdsOf
  <2>. QED
    BY <2>1, <2>2
<1>2. ASSUME NEW n \in 0..m PROVE AllIdsTo(T, n) = Flat(P, n)
  <2>1. [k \in 1..n |-> P[k]] = [k \in 1..n |-> IdsOf(T[k])]
    BY <1>0
  <2>. HIDE DEF P
  <2>. QED
    BY <2>1 DEF AllIdsTo, Flat
<1>3. \A n \in 1..m : P[n] = IdsOf(T[n]) /\ n \in 0..m /\ n - 1 \in 0..m
  BY <1>0
<1>4. 0 \in 0..m
  BY <1>0
<1>5. /\ Flat(P, 0) = <<>>
      /\ \A n \in 1..m : Flat(P, n) = Flat(P, n - 1) \o P[n]
      /\ \A n \in 0..m : Flat(P, n) \in Seq(Bytes)
  <2>. HIDE DEF P
  <2>. QED
    BY <1>0, <1>1, FlatIs
<1>. HIDE DEF P
<1>. QED
  BY <1>2, <1>3, <1>4, <1>5

LEMMA PointsMore ==
    ASSUME image \in Images, NEW n \in 1..Len(T), NEW sig, NEW kept, PointsTo(T, kept, sig, n - 1)
    PROVE  PointsTo(T, IF T[n].sig = sig THEN <<T[n]>> ELSE kept, sig, n)
<1>1. Len(T) \in Nat
  BY TablesAre
<1>2. CASE T[n].sig = sig
  <2>1. n \in 1..n /\ \A j \in (n + 1)..n : T[j].sig # sig
    BY <1>1
  <2>. QED
    BY <1>2, <2>1 DEF PointsTo
<1>3. CASE T[n].sig # sig
  <2>1. \A j : j \in 1..n <=> (j = n \/ j \in 1..(n - 1))
    BY <1>1
  <2>2. CASE \A k \in 1..(n - 1) : T[k].sig # sig
    BY <1>3, <2>1, <2>2 DEF PointsTo
  <2>3. CASE \E k \in 1..(n - 1) : T[k].sig = sig
    <3>1. PICK k \in 1..(n - 1) : /\ T[k].sig = sig /\ kept = <<T[k]>>
                                  /\ \A j \in (k + 1)..(n - 1) : T[j].sig # sig
      BY <2>3 DEF PointsTo
    <3>2. k \in 1..n /\ \A j \in (k + 1)..n : j = n \/ j \in (k + 1)..(n - 1)
      BY <1>1
    <3>3. \A j \in (k + 1)..n : T[j].sig # sig
      BY <1>3, <3>1, <3>2
    <3>. QED
      BY <1>3, <3>1, <3>2, <3>3 DEF PointsTo
  <2>. QED
    BY <2>2, <2>3
<1>. QED
  BY <1>2, <1>3

(* acpi_find_rsdp finds the RSDP that names the right root.                *)
LEMMA ChosenIs ==
    ASSUME image \in Images
    PROVE  /\ Tables!Usable <=> Tables!SoundImage
           /\ Tables!Usable => /\ Tables!Candidates[Tables!Chosen] \in {"v1", "v2"}
                               /\ Tables!RightRoot = IF Tables!Candidates[Tables!Chosen] = "v2"
                                                     THEN image.xsdt ELSE image.rsdt
<1>. DEFINE C == Tables!Candidates
            I == {k \in 1..Len(C) : C[k] # "bad"}
            First(k) == C[k] # "bad" /\ \A j \in 1..(k - 1) : C[j] = "bad"
<1>1. C \in Seq(Kinds) /\ Len(C) \in Nat /\ \A k \in 1..Len(C) : C[k] \in Kinds
  <2>1. image.ebda \in Seq(Kinds) /\ image.bios \in Seq(Kinds)
    BY ImagesAssumption DEF Kinds
  <2>2. C \in Seq(Kinds)
    BY <2>1 DEF Tables!Candidates
  <2>. HIDE DEF C
  <2>. QED
    BY <2>2, LenProperties
<1>2. Tables!Chosen = IF I # {} THEN Tables!Min(I) ELSE 0
  BY DEF Tables!Chosen, Tables!SelectInSeq
<1>. HIDE DEF C
<1>3. CASE I = {}
  <2>1. Tables!Chosen = 0 /\ \A k \in 1..Len(C) : C[k] = "bad"
    BY <1>2, <1>3
  <2>2. ~Tables!SoundImage
    BY <2>1 DEF Tables!SoundImage, C
  <2>. QED
    BY <2>1, <2>2 DEF Tables!Usable
<1>4. CASE I # {}
  <2>1. Tables!Min(I) \in I /\ \A j \in I : Tables!Min(I) <= j
    <3>1. I \in SUBSET Nat
      OBVIOUS
    <3>2. PICK m \in I : \A j \in I : m <= j
      BY <1>4, <3>1, NatMin
    <3>. HIDE DEF I
    <3>. QED
      BY <3>2 DEF Tables!Min
  <2>. DEFINE c == Tables!Chosen
  <2>2. c \in I /\ \A j \in I : c <= j
    BY <1>2, <1>4, <2>1
  <2>. HIDE DEF c
  <2>3. c \in 1..Len(C) /\ c # 0 /\ First(c) /\ C[c] \in Kinds
    <3>1. c \in 1..Len(C) /\ C[c] # "bad"
      BY <2>2
    <3>2. ASSUME NEW j \in 1..(c - 1) PROVE C[j] = "bad"
      <4>1. j \in 1..Len(C) /\ ~(c <= j)
        BY <1>1, <3>1
      <4>. QED
        BY <2>2, <4>1
    <3>. QED
      BY <1>1, <3>1, <3>2
  <2>4. ASSUME NEW k \in 1..Len(C), First(k) PROVE k = c
    <3>1. c <= k
      BY <2>2, <2>4
    <3>2. ~(c < k)
      <4>1. c < k => c \in 1..(k - 1)
        BY <2>3
      <4>. QED
        BY <2>3, <2>4, <4>1
    <3>. QED
      BY <2>3, <3>1, <3>2
  <2>5. (CHOOSE k \in 1..Len(C) : First(k)) = c
    BY <2>3, <2>4
  <2>6. Tables!Usable <=> C[c] # "v2bad"
    BY <2>3 DEF Tables!Usable, c, C
  <2>7. Tables!RightRoot = IF C[c] = "v2" THEN image.xsdt ELSE image.rsdt
    BY <2>5 DEF Tables!RightRoot, C
  <2>8. Tables!SoundImage <=> C[c] \in {"v1", "v2"}
    <3>1. Tables!SoundImage <=> \E k \in 1..Len(C) : C[k] \in {"v1", "v2"} /\ \A j \in 1..(k - 1) : C[j] = "bad"
      BY DEF Tables!SoundImage, C
    <3>2. ASSUME NEW k \in 1..Len(C), C[k] \in {"v1", "v2"}, \A j \in 1..(k - 1) : C[j] = "bad"
          PROVE  k = c
      BY <2>4, <3>2
    <3>. QED
      BY <2>3, <3>1, <3>2
  <2>. QED
    BY <2>3, <2>6, <2>7, <2>8 DEF Kinds, c, C
<1>. QED
  BY <1>3, <1>4

-----------------------------------------------------------------------------
(* acpi_init and the getters, step by step.                                *)

LEMMA ImageStays ==
    ASSUME image' = image
    PROVE  /\ T' = T /\ (Tables!SoundImage)' = Tables!SoundImage
           /\ (Tables!RightRoot)' = Tables!RightRoot
  BY DEF T, Tables!RightTables, Tables!SoundImage, Tables!RightRoot, Tables!Candidates

LEMMA TablesStart == ASSUME Tables!Init PROVE TablesInv
<1>1. start_pc = "lock" /\ image \in Images
  BY DEF Tables!Init
<1>2. Passed = 0 /\ Looked = 0 /\ \A k \in 1..0 : FALSE
  BY <1>1 DEF Passed, Looked
<1>3. PlaceInv /\ GivenInv
  BY <1>1 DEF Tables!Init, PlaceInv, GivenInv
<1>4. AllIdsTo(T, 0) = <<>>
  BY <1>1, AllIdsMore
<1>5. KeptInv
  <2>1. Len(apic_ids) <= MaxIds
    BY ImagesAssumption DEF Tables!Init
  <2>. QED
    BY <1>1, <1>2, <1>4, <2>1 DEF Tables!Init, KeptInv, PointsTo
<1>. QED
  BY <1>3, <1>5 DEF TablesInv

(* No table is passed and none is kept.                                    *)
LEMMA NothingPassed ==
    ASSUME TablesInv, UNCHANGED <<image, mcfg_table, madt_table, fadt_table, apic_ids, pm_timer>>,
           start_pc # "entry", start_pc' # "entry", Passed' = Passed
    PROVE  KeptInv'
<1>1. T' = T /\ Looked' = Looked
  BY ImageStays DEF Looked
<1>. QED
  BY <1>1 DEF TablesInv, KeptInv

LEMMA RsdpKeeps ==
    ASSUME TablesInv, Tables!Lock \/ Tables!FindRsdp \/ Tables!NoRsdp
    PROVE  TablesInv'
<1>. USE DEF TablesInv
<1>1. /\ UNCHANGED <<image, mcfg_table, madt_table, fadt_table, apic_ids, pm_timer, given>>
      /\ start_pc \in {"lock", "search"} /\ Passed = 0
  BY DEF Tables!Lock, Tables!FindRsdp, Tables!NoRsdp, Tables!Goto, Tables!tables, Passed
<1>2. image \in Images /\ T' = T /\ (Tables!SoundImage)' = Tables!SoundImage
      /\ (Tables!RightRoot)' = Tables!RightRoot
  BY <1>1, ImageStays DEF PlaceInv
<1>3. CASE Tables!Lock
  <2>1. start_pc' = "search" /\ Passed' = 0
    BY <1>3 DEF Tables!Lock, Tables!Goto, Passed
  <2>2. PlaceInv' /\ GivenInv'
    BY <1>1, <1>2, <2>1 DEF PlaceInv, GivenInv
  <2>. QED
    BY <1>1, <2>1, <2>2, NothingPassed
<1>4. CASE Tables!FindRsdp
  <2>1. start_pc' = "root" /\ Passed' = 0 /\ Tables!Usable
        /\ rsdp' = Tables!Candidates[Tables!Chosen]
    BY <1>4 DEF Tables!FindRsdp, Tables!Goto, Passed
  <2>2. Tables!SoundImage /\ (Tables!Root)' = Tables!RightRoot
    BY <1>1, <1>2, <2>1, ChosenIs DEF Tables!Root
  <2>3. PlaceInv' /\ GivenInv'
    BY <1>1, <1>2, <2>1, <2>2 DEF PlaceInv, GivenInv
  <2>. QED
    BY <1>1, <2>1, <2>3, NothingPassed
<1>5. CASE Tables!NoRsdp
  <2>1. start_pc' = "apic_info" /\ ~Tables!Usable
    BY <1>5 DEF Tables!NoRsdp, Tables!Goto
  <2>2. T = <<>>
    BY <1>2, <2>1, ChosenIs DEF T, Tables!RightTables
  <2>3. Passed' = 0
    BY <1>2, <2>1, <2>2 DEF Passed
  <2>4. PlaceInv' /\ GivenInv'
    BY <1>1, <1>2, <2>1 DEF PlaceInv, GivenInv
  <2>. QED
    BY <1>1, <2>1, <2>3, <2>4, NothingPassed
<1>. QED
  BY <1>3, <1>4, <1>5

LEMMA RootKeeps ==
    ASSUME TablesInv, Tables!CheckRoot \/ Tables!NoMoreTables \/ Tables!Unlock
    PROVE  TablesInv'
<1>. USE DEF TablesInv
<1>1. /\ UNCHANGED <<image, rsdp, mcfg_table, madt_table, fadt_table, apic_ids, pm_timer, given>>
      /\ start_pc \in {"root", "table", "unlock"}
  BY DEF Tables!CheckRoot, Tables!NoMoreTables, Tables!Unlock, Tables!Goto, Tables!tables
<1>2. image \in Images /\ T' = T /\ (Tables!SoundImage)' = Tables!SoundImage
      /\ (Tables!RightRoot)' = Tables!RightRoot /\ (Tables!Root)' = Tables!Root
  BY <1>1, ImageStays DEF PlaceInv, Tables!Root
<1>3. Tables!SoundImage /\ Tables!Root = Tables!RightRoot /\ Len(T) \in Nat
  BY <1>1, <1>2, TablesAre DEF PlaceInv
<1>4. CASE Tables!CheckRoot
  <2>1. /\ start_pc = "root" /\ start_i' = 1
        /\ start_pc' = IF Tables!Root.ok THEN "table" ELSE "unlock"
    BY <1>4 DEF Tables!CheckRoot, Tables!Goto
  <2>2. T = IF Tables!Root.ok THEN Tables!Root.tables ELSE <<>>
    BY <1>3 DEF T, Tables!RightTables
  <2>3. Passed = 0 /\ Passed' = 0
    BY <1>2, <2>1, <2>2 DEF Passed
  <2>4. PlaceInv' /\ GivenInv'
    BY <1>1, <1>2, <1>3, <2>1, <2>2 DEF PlaceInv, GivenInv
  <2>. QED
    BY <1>1, <2>1, <2>3, <2>4, NothingPassed
<1>5. CASE Tables!NoMoreTables
  <2>1. start_pc = "table" /\ start_pc' = "unlock" /\ start_i > Len(T)
    BY <1>5 DEF Tables!NoMoreTables, Tables!Goto, PlaceInv
  <2>2. Passed = Len(T) /\ Passed' = Len(T)
    BY <1>2, <1>3, <2>1 DEF Passed, PlaceInv
  <2>3. PlaceInv' /\ GivenInv'
    BY <1>1, <1>2, <1>3, <2>1 DEF PlaceInv, GivenInv
  <2>. QED
    BY <1>1, <2>1, <2>2, <2>3, NothingPassed
<1>6. CASE Tables!Unlock
  <2>1. start_pc = "unlock" /\ start_pc' = "apic_info"
    BY <1>6 DEF Tables!Unlock, Tables!Goto
  <2>2. Passed = Len(T) /\ Passed' = Len(T)
    BY <1>2, <2>1 DEF Passed
  <2>3. PlaceInv' /\ GivenInv'
    BY <1>1, <1>2, <2>1 DEF PlaceInv, GivenInv
  <2>. QED
    BY <1>1, <2>1, <2>2, <2>3, NothingPassed
<1>. QED
  BY <1>4, <1>5, <1>6

LEMMA GettersKeep ==
    ASSUME TablesInv, Tables!GetApicInfo \/ Tables!GetLapicBase \/ Tables!GetMcfg
    PROVE  TablesInv'
<1>. USE DEF TablesInv
<1>1. /\ UNCHANGED <<image, mcfg_table, madt_table, fadt_table, apic_ids, pm_timer>>
      /\ start_pc \in {"apic_info", "lapic_base", "mcfg"}
      /\ start_pc' \in {"lapic_base", "mcfg", "done"}
  BY DEF Tables!GetApicInfo, Tables!GetLapicBase, Tables!GetMcfg, Tables!Goto, Tables!tables
<1>2. image \in Images /\ T' = T
  BY <1>1, ImageStays DEF PlaceInv
<1>3. PlaceInv' /\ Passed = Len(T) /\ Passed' = Len(T)
  BY <1>1, <1>2 DEF PlaceInv, Passed
<1>4. KeptInv'
  BY <1>1, <1>3, NothingPassed
<1>5. GivenInv'
  <2>. USE DEF GivenInv, Tables!Goto
  <2>1. CASE Tables!GetApicInfo
    BY <1>1, <2>1 DEF Tables!GetApicInfo
  <2>2. CASE Tables!GetLapicBase
    BY <1>1, <2>2 DEF Tables!GetLapicBase
  <2>3. CASE Tables!GetMcfg
    BY <1>1, <2>3 DEF Tables!GetMcfg
  <2>. QED
    BY <2>1, <2>2, <2>3
<1>. QED
  BY <1>3, <1>4, <1>5

(* One table further: what is kept of it, and nothing else.                *)
LEMMA TableStands ==
    ASSUME TablesInv, start_pc \in {"table", "entry"}, start_i <= Len(T)
    PROVE  /\ image \in Images /\ Len(T) \in Nat
           /\ start_i \in 1..Len(T) /\ Passed = start_i - 1
           /\ Tables!SoundImage /\ Tables!Root = Tables!RightRoot /\ T = Tables!Root.tables
           /\ Tables!Table = T[start_i]
<1>1. PlaceInv /\ Len(T) \in Nat
  BY TablesAre DEF TablesInv, PlaceInv
<1>. QED
  BY <1>1 DEF PlaceInv, Passed, Tables!Table

LEMMA ThisTableKeeps ==
    ASSUME TablesInv, Tables!Mcfg \/ Tables!Fadt \/ Tables!OtherTable
    PROVE  TablesInv'
<1>. DEFINE i == start_i
            t == T[i]
<1>1. /\ UNCHANGED <<image, rsdp, madt_table, apic_ids, given>>
      /\ start_pc = "table" /\ start_pc' = "table" /\ start_i' = start_i + 1
      /\ start_i <= Len(Tables!Root.tables)
  BY DEF Tables!Mcfg, Tables!Fadt, Tables!OtherTable, Tables!Goto, Tables!tables
<1>2. /\ image \in Images /\ Len(T) \in Nat /\ i \in 1..Len(T) /\ Passed = i - 1
      /\ Tables!SoundImage /\ Tables!Root = Tables!RightRoot /\ T = Tables!Root.tables
      /\ Tables!Table = t
  BY <1>1, TableStands DEF TablesInv, PlaceInv
<1>3. /\ T' = T /\ (Tables!SoundImage)' = Tables!SoundImage
      /\ (Tables!RightRoot)' = Tables!RightRoot /\ (Tables!Root)' = Tables!Root
  BY <1>1, ImageStays DEF Tables!Root
<1>4. PlaceInv' /\ GivenInv'
  BY <1>1, <1>2, <1>3 DEF TablesInv, PlaceInv, GivenInv
<1>5. Looked = i - 1 /\ Passed' = i /\ Looked' = i
  BY <1>1, <1>2 DEF Looked, Passed
<1>6. t.sig # "APIC" /\ IdsOf(t) = <<>>
  <2>1. t.sig # "APIC"
    BY <1>2 DEF Tables!Mcfg, Tables!Fadt, Tables!OtherTable
  <2>. QED
    BY <2>1 DEF IdsOf
<1>7. AllIdsTo(T, i) = AllIdsTo(T, i - 1)
  <2>1. AllIdsTo(T, i) = AllIdsTo(T, i - 1) \o IdsOf(t) /\ AllIdsTo(T, i - 1) \in Seq(Bytes)
    <3>1. i - 1 \in 0..Len(T)
      BY <1>2
    <3>. QED
      BY <1>2, <3>1, AllIdsMore
  <2>. QED
    BY <1>6, <2>1
<1>8. /\ PointsTo(T, mcfg_table, "MCFG", i - 1) /\ PointsTo(T, madt_table, "APIC", i - 1)
      /\ PointsTo(T, fadt_table, "FACP", i - 1)
      /\ pm_timer = [port |-> IF fadt_table = <<>> THEN 0 ELSE fadt_table[1].port,
                     is24 |-> \A k \in 1..(i - 1) : T[k].sig = "FACP" => ~T[k].ext]
      /\ apic_ids = AllIdsTo(T, i - 1) /\ Len(apic_ids) <= MaxIds
  BY <1>1, <1>2, <1>5 DEF TablesInv, KeptInv
<1>9. \A k : k \in 1..i <=> (k = i \/ k \in 1..(i - 1))
  BY <1>2
<1>10. /\ mcfg_table' = IF t.sig = "MCFG" THEN <<t>> ELSE mcfg_table
       /\ fadt_table' = IF t.sig = "FACP" THEN <<t>> ELSE fadt_table
       /\ madt_table' = IF t.sig = "APIC" THEN <<t>> ELSE madt_table
       /\ pm_timer' = IF t.sig = "FACP"
                      THEN [port |-> t.port, is24 |-> pm_timer.is24 /\ ~t.ext] ELSE pm_timer
  BY <1>1, <1>2, <1>6 DEF Tables!Mcfg, Tables!Fadt, Tables!OtherTable, Tables!tables
<1>. HIDE DEF t
<1>11. /\ PointsTo(T, mcfg_table', "MCFG", i) /\ PointsTo(T, madt_table', "APIC", i)
       /\ PointsTo(T, fadt_table', "FACP", i)
  BY <1>2, <1>8, <1>10, PointsMore DEF t
<1>12. pm_timer' = [port |-> IF fadt_table' = <<>> THEN 0 ELSE fadt_table'[1].port,
                    is24 |-> \A k \in 1..i : T[k].sig = "FACP" => ~T[k].ext]
  <2>1. CASE t.sig = "FACP"
    <3>1. pm_timer.is24 = \A k \in 1..(i - 1) : T[k].sig = "FACP" => ~T[k].ext
      BY <1>8
    <3>2. (pm_timer.is24 /\ ~t.ext) = \A k \in 1..i : T[k].sig = "FACP" => ~T[k].ext
      BY <1>9, <2>1, <3>1 DEF t
    <3>3. fadt_table' = <<t>> /\ fadt_table' # <<>> /\ fadt_table'[1].port = t.port
      BY <1>10, <2>1
    <3>. QED
      BY <1>10, <2>1, <3>2, <3>3
  <2>2. CASE t.sig # "FACP"
    <3>1. (\A k \in 1..(i - 1) : T[k].sig = "FACP" => ~T[k].ext)
            = \A k \in 1..i : T[k].sig = "FACP" => ~T[k].ext
      BY <1>9, <2>2 DEF t
    <3>. QED
      BY <1>8, <1>10, <2>2, <3>1
  <2>. QED
    BY <2>1, <2>2
<1>13. KeptInv'
  BY <1>1, <1>3, <1>5, <1>7, <1>8, <1>11, <1>12 DEF KeptInv
<1>. QED
  BY <1>4, <1>13 DEF TablesInv

LEMMA MadtKeeps ==
    ASSUME TablesInv, Tables!Madt
    PROVE  TablesInv'
<1>. DEFINE i == start_i
            t == T[i]
<1>1. /\ UNCHANGED <<image, rsdp, start_i, mcfg_table, fadt_table, apic_ids, pm_timer, given>>
      /\ start_pc = "table" /\ start_pc' = "entry" /\ entry' = 1
      /\ start_i <= Len(Tables!Root.tables)
      /\ Tables!Table.sig = "APIC" /\ madt_table' = <<Tables!Table>>
  BY DEF Tables!Madt, Tables!Goto
<1>2. /\ image \in Images /\ Len(T) \in Nat /\ i \in 1..Len(T) /\ Passed = i - 1
      /\ Tables!SoundImage /\ Tables!Root = Tables!RightRoot /\ T = Tables!Root.tables
      /\ Tables!Table = t
  BY <1>1, TableStands DEF TablesInv, PlaceInv
<1>3. /\ T' = T /\ (Tables!SoundImage)' = Tables!SoundImage
      /\ (Tables!RightRoot)' = Tables!RightRoot /\ (Tables!Root)' = Tables!Root
  BY <1>1, ImageStays DEF Tables!Root
<1>4. t.sig = "APIC" /\ Len(t.entries) \in Nat
      /\ \A k \in 1..Len(t.entries) : t.entries[k].id \in Bytes
  BY <1>1, <1>2, TablesAre
<1>5. PlaceInv' /\ GivenInv'
  <2>1. 1 \in 1..(Len(t.entries) + 1)
    BY <1>4
  <2>. QED
    BY <1>1, <1>2, <1>3, <1>4, <2>1 DEF TablesInv, PlaceInv, GivenInv
<1>6. Looked = i - 1 /\ Passed' = i - 1 /\ Looked' = i
  BY <1>1, <1>2 DEF Looked, Passed
<1>7. PointsTo(T, madt_table', "APIC", i)
  <2>1. PointsTo(T, madt_table, "APIC", i - 1)
    BY <1>6 DEF TablesInv, KeptInv
  <2>. QED
    BY <1>1, <1>2, <1>4, <2>1, PointsMore
<1>8. apic_ids' = AllIdsTo(T, i - 1) \o IdsTo(t.entries, entry' - 1)
  <2>1. apic_ids = AllIdsTo(T, i - 1) /\ AllIdsTo(T, i - 1) \in Seq(Bytes)
    <3>1. i - 1 \in 0..Len(T)
      BY <1>2
    <3>. QED
      BY <1>1, <1>2, <3>1, AllIdsMore DEF TablesInv, KeptInv
  <2>2. IdsTo(t.entries, 0) = <<>>
    BY <1>4, IdsMore
  <2>3. entry' - 1 = 0
    BY <1>1
  <2>. QED
    BY <1>1, <2>1, <2>2, <2>3
<1>9. KeptInv'
  BY <1>1, <1>2, <1>3, <1>6, <1>7, <1>8 DEF TablesInv, KeptInv
<1>. QED
  BY <1>5, <1>9 DEF TablesInv

LEMMA EntryKeeps ==
    ASSUME TablesInv, ~Lost, Tables!MadtEntry
    PROVE  TablesInv'
<1>. DEFINE i == start_i
            es == T[i].entries
<1>1. /\ UNCHANGED <<image, rsdp, start_i, mcfg_table, madt_table, fadt_table, pm_timer, given>>
      /\ start_pc = "entry" /\ start_pc' = "entry" /\ entry <= Len(Tables!Table.entries)
      /\ entry' = IF Tables!ThisEntry.len = 0 THEN entry ELSE entry + 1
  BY DEF Tables!MadtEntry, Tables!Goto
<1>2. /\ image \in Images /\ Len(T) \in Nat /\ i \in 1..Len(T) /\ Passed = i - 1
      /\ Tables!SoundImage /\ Tables!Root = Tables!RightRoot /\ T = Tables!Root.tables
      /\ Tables!Table = T[i] /\ T[i].sig = "APIC"
  BY <1>1, TableStands DEF TablesInv, PlaceInv
<1>3. /\ T' = T /\ (Tables!SoundImage)' = Tables!SoundImage
      /\ (Tables!RightRoot)' = Tables!RightRoot /\ (Tables!Root)' = Tables!Root
  BY <1>1, ImageStays DEF Tables!Root
<1>4. Len(es) \in Nat /\ \A k \in 1..Len(es) : es[k].id \in Bytes
  BY <1>2, TablesAre
<1>5. entry \in 1..Len(es) /\ entry' = entry + 1
  <2>1. entry \in 1..Len(es)
    BY <1>1, <1>2, <1>4 DEF TablesInv, PlaceInv
  <2>2. ~(entry > Len(Tables!Table.entries))
    BY <1>2, <1>4, <2>1
  <2>. QED
    BY <1>1, <2>1, <2>2 DEF Lost
<1>6. PlaceInv' /\ GivenInv'
  <2>1. entry + 1 \in 1..(Len(es) + 1)
    BY <1>4, <1>5
  <2>. QED
    BY <1>1, <1>2, <1>3, <1>5, <2>1 DEF TablesInv, PlaceInv, GivenInv
<1>7. Looked = i /\ Passed' = i - 1 /\ Looked' = i
  BY <1>1, <1>2 DEF Looked, Passed
<1>. HIDE DEF es
<1>8. apic_ids' = AllIdsTo(T, i - 1) \o IdsTo(es, entry' - 1)
  <2>1. apic_ids = AllIdsTo(T, i - 1) \o IdsTo(es, entry - 1)
    BY <1>1, <1>2 DEF TablesInv, KeptInv, es
  <2>2. AllIdsTo(T, i - 1) \in Seq(Bytes) /\ IdsTo(es, entry - 1) \in Seq(Bytes)
        /\ IdsTo(es, entry) = IdsTo(es, entry - 1) \o Enabled(es[entry])
    <3>1. i - 1 \in 0..Len(T) /\ entry - 1 \in 0..Len(es)
      BY <1>2, <1>4, <1>5
    <3>2. AllIdsTo(T, i - 1) \in Seq(Bytes)
      BY <1>2, <3>1, AllIdsMore
    <3>. QED
      BY <1>4, <1>5, <3>1, <3>2, IdsMore
  <2>3. Enabled(es[entry]) \in Seq(Bytes)
    BY <1>4, <1>5 DEF Enabled
  <2>4. apic_ids' = apic_ids \o Enabled(es[entry])
    <3>1. apic_ids \in Seq(Bytes)
      BY <2>1, <2>2
    <3>2. apic_ids' = IF es[entry].type = "LAPIC" /\ es[entry].enabled
                      THEN Append(apic_ids, es[entry].id) ELSE apic_ids
      BY <1>2 DEF Tables!MadtEntry, Tables!Counts, Tables!ThisEntry, es
    <3>3. es[entry].id \in Bytes
      BY <1>4, <1>5
    <3>4. Append(apic_ids, es[entry].id) = apic_ids \o <<es[entry].id>> /\ apic_ids \o <<>> = apic_ids
      BY <3>1, <3>3
    <3>. QED
      BY <3>2, <3>4 DEF Enabled
  <2>5. entry' - 1 = entry
    BY <1>1, <1>5
  <2>6. (AllIdsTo(T, i - 1) \o IdsTo(es, entry - 1)) \o Enabled(es[entry])
          = AllIdsTo(T, i - 1) \o (IdsTo(es, entry - 1) \o Enabled(es[entry]))
    BY <2>2, <2>3, ConcatAssociative
  <2>. QED
    BY <2>1, <2>2, <2>4, <2>5, <2>6
<1>9. Len(apic_ids') <= MaxIds
  <2>1. apic_ids \in Seq(Bytes) /\ Len(apic_ids) <= MaxIds /\ MaxIds \in Nat
    <3>1. i - 1 \in 0..Len(T) /\ entry - 1 \in 0..Len(es)
      BY <1>2, <1>4, <1>5
    <3>2. AllIdsTo(T, i - 1) \in Seq(Bytes)
      BY <1>2, <3>1, AllIdsMore
    <3>3. IdsTo(es, entry - 1) \in Seq(Bytes)
      BY <1>4, <3>1, IdsMore
    <3>4. apic_ids = AllIdsTo(T, i - 1) \o IdsTo(es, entry - 1) /\ Len(apic_ids) <= MaxIds
      BY <1>1, <1>2 DEF TablesInv, KeptInv, es
    <3>. QED
      BY <3>2, <3>3, <3>4, ImagesAssumption
  <2>2. \/ apic_ids' = apic_ids
        \/ Len(apic_ids) < MaxIds /\ apic_ids' = Append(apic_ids, es[entry].id)
    BY <1>2 DEF Tables!MadtEntry, Tables!ThisEntry, es
  <2>. QED
    BY <2>1, <2>2
<1>10. KeptInv'
  BY <1>1, <1>2, <1>3, <1>7, <1>8, <1>9 DEF TablesInv, KeptInv, es
<1>. QED
  BY <1>6, <1>10 DEF TablesInv

LEMMA MadtEndKeeps ==
    ASSUME TablesInv, Tables!MadtEnd
    PROVE  TablesInv'
<1>. DEFINE i == start_i
            t == T[i]
            es == t.entries
<1>1. /\ UNCHANGED <<image, rsdp, mcfg_table, madt_table, fadt_table, apic_ids, pm_timer, given>>
      /\ start_pc = "entry" /\ start_pc' = "table" /\ start_i' = start_i + 1
  BY DEF Tables!MadtEnd, Tables!Goto, Tables!tables
<1>2. /\ image \in Images /\ Len(T) \in Nat /\ i \in 1..Len(T) /\ Passed = i - 1
      /\ Tables!SoundImage /\ Tables!Root = Tables!RightRoot /\ T = Tables!Root.tables
      /\ Tables!Table = T[i] /\ T[i].sig = "APIC"
  BY <1>1, TableStands DEF TablesInv, PlaceInv
<1>3. /\ T' = T /\ (Tables!SoundImage)' = Tables!SoundImage
      /\ (Tables!RightRoot)' = Tables!RightRoot /\ (Tables!Root)' = Tables!Root
  BY <1>1, ImageStays DEF Tables!Root
<1>4. Len(es) \in Nat
  BY <1>2, TablesAre
<1>5. entry - 1 = Len(es)
  BY <1>1, <1>2, <1>4 DEF Tables!MadtEnd, TablesInv, PlaceInv
<1>6. PlaceInv' /\ GivenInv'
  BY <1>1, <1>2, <1>3 DEF TablesInv, PlaceInv, GivenInv
<1>7. Looked = i /\ Passed' = i /\ Looked' = i
  BY <1>1, <1>2 DEF Looked, Passed
<1>8. apic_ids = AllIdsTo(T, i)
  <2>1. apic_ids = AllIdsTo(T, i - 1) \o IdsTo(es, entry - 1)
    BY <1>1, <1>2 DEF TablesInv, KeptInv
  <2>2. IdsOf(t) = IdsTo(es, entry - 1)
    BY <1>2, <1>5 DEF IdsOf
  <2>. HIDE DEF t, es
  <2>3. AllIdsTo(T, i) = AllIdsTo(T, i - 1) \o IdsOf(t)
    BY <1>2, AllIdsMore DEF t
  <2>. QED
    BY <2>1, <2>2, <2>3
<1>9. /\ PointsTo(T, mcfg_table, "MCFG", i) /\ PointsTo(T, fadt_table, "FACP", i)
  <2>1. PointsTo(T, mcfg_table, "MCFG", i - 1) /\ PointsTo(T, fadt_table, "FACP", i - 1)
    BY <1>2 DEF TablesInv, KeptInv
  <2>. QED
    BY <1>2, <2>1, PointsMore
<1>10. (\A k \in 1..(i - 1) : T[k].sig = "FACP" => ~T[k].ext)
          = \A k \in 1..i : T[k].sig = "FACP" => ~T[k].ext
  <2>1. \A k : k \in 1..i <=> (k = i \/ k \in 1..(i - 1))
    BY <1>2
  <2>. QED
    BY <1>2, <2>1
<1>11. KeptInv'
  BY <1>1, <1>2, <1>3, <1>7, <1>8, <1>9, <1>10 DEF TablesInv, KeptInv
<1>. QED
  BY <1>6, <1>11 DEF TablesInv

LEMMA LostStays ==
    ASSUME Lost, Tables!Next \/ UNCHANGED startVars
    PROVE  Lost'
<1>1. UNCHANGED <<image, rsdp, start_i, entry>> => /\ Tables!Table' = Tables!Table
                                                  /\ Tables!ThisEntry' = Tables!ThisEntry
  BY DEF Tables!Table, Tables!ThisEntry, Tables!Root
<1>2. CASE UNCHANGED startVars
  BY <1>1, <1>2 DEF Lost, startVars
<1>3. CASE Tables!Next
  <2>1. Tables!MadtEntry \/ Tables!Overrun \/ Tables!MadtEnd
    BY <1>3 DEF Lost, Tables!Next, Tables!Goto, Tables!Lock, Tables!FindRsdp, Tables!NoRsdp,
       Tables!CheckRoot, Tables!Mcfg, Tables!Fadt, Tables!OtherTable, Tables!Madt,
       Tables!NoMoreTables, Tables!Unlock, Tables!GetApicInfo, Tables!GetLapicBase,
       Tables!GetMcfg
  <2>2. start_pc = "entry"
    BY <2>1 DEF Tables!MadtEntry, Tables!Overrun, Tables!MadtEnd, Tables!Goto
  <2>3. ~(entry > Len(Tables!Table.entries)) /\ Tables!ThisEntry.len = 0
    BY <2>2 DEF Lost
  <2>4. CASE Tables!MadtEntry
    BY <1>1, <2>2, <2>3, <2>4 DEF Lost, Tables!MadtEntry, Tables!Goto
  <2>5. CASE Tables!Overrun
    BY <2>5 DEF Lost, Tables!Overrun, Tables!Goto
  <2>6. ~Tables!MadtEnd
    BY <2>3 DEF Tables!MadtEnd
  <2>. QED
    BY <2>1, <2>4, <2>5, <2>6
<1>. QED
  BY <1>2, <1>3

LEMMA TablesKeep ==
    ASSUME TablesInv, ~Lost, Tables!Next \/ UNCHANGED startVars
    PROVE  TablesInv' \/ Lost'
<1>1. CASE UNCHANGED startVars
  <2>1. UNCHANGED <<image, start_pc, rsdp, start_i, entry, mcfg_table, madt_table, fadt_table,
                    apic_ids, pm_timer, given>>
    BY <1>1 DEF startVars
  <2>2. /\ T' = T /\ (Tables!SoundImage)' = Tables!SoundImage
        /\ (Tables!RightRoot)' = Tables!RightRoot /\ (Tables!Root)' = Tables!Root
    BY <2>1, ImageStays DEF Tables!Root
  <2>3. Passed' = Passed /\ Looked' = Looked
    BY <2>1, <2>2 DEF Passed, Looked
  <2>. QED
    BY <2>1, <2>2, <2>3 DEF TablesInv, PlaceInv, KeptInv, GivenInv
<1>2. CASE Tables!Next
  <2>1. Tables!Overrun => Lost'
    BY DEF Tables!Overrun, Tables!Goto, Lost
  <2>. QED
    BY <1>2, <2>1, RsdpKeeps, RootKeeps, ThisTableKeeps, MadtKeeps, EntryKeeps, MadtEndKeeps,
       GettersKeep DEF Tables!Next
<1>. QED
  BY <1>1, <1>2

(* A pointer to the last of all tables.                                    *)
LEMMA PointsToLast ==
    ASSUME image \in Images, NEW sig, NEW kept, PointsTo(T, kept, sig, Len(T))
    PROVE  kept = Tables!LastTable(sig) /\ (kept = <<>> <=> Tables!Having(sig) = {})
<1>. DEFINE H == Tables!Having(sig)
<1>1. Len(T) \in Nat /\ H = {k \in 1..Len(T) : T[k].sig = sig}
  BY TablesAre DEF Tables!Having, T
<1>2. CASE H = {}
  BY <1>1, <1>2 DEF PointsTo, Tables!LastTable
<1>3. CASE H # {}
  <2>1. PICK k \in 1..Len(T) : /\ T[k].sig = sig /\ kept = <<T[k]>>
                               /\ \A j \in (k + 1)..Len(T) : T[j].sig # sig
    BY <1>1, <1>3 DEF PointsTo
  <2>2. k \in H /\ \A j \in H : j <= k
    <3>1. ASSUME NEW j \in H PROVE j <= k
      <4>1. j \in 1..Len(T) /\ T[j].sig = sig
        BY <1>1
      <4>2. ~(j <= k) => j \in (k + 1)..Len(T)
        BY <1>1, <4>1
      <4>. QED
        BY <2>1, <4>1, <4>2
    <3>. QED
      BY <1>1, <2>1, <3>1
  <2>3. \A j \in H : (\A l \in H : l <= j) => j = k
    BY <1>1, <2>2
  <2>. HIDE DEF H
  <2>4. (CHOOSE j \in H : \A l \in H : l <= j) = k
    BY <2>2, <2>3
  <2>5. Tables!LastTable(sig) = <<T[k]>>
    BY <1>3, <2>4 DEF Tables!LastTable, H, T
  <2>. QED
    BY <1>3, <2>1, <2>5 DEF H
<1>. QED
  BY <1>2, <1>3

LEMMA TablesShow == ASSUME TablesInv \/ Lost PROVE GivenIsTrue
<1>. SUFFICES ASSUME start_pc \in {"mcfg", "done"} PROVE GivenIsTrue
  BY DEF GivenIsTrue, Tables!GivenIsTrue
<1>0. TablesInv
  BY DEF Lost
<1>1. image \in Images
  BY <1>0 DEF TablesInv, PlaceInv
<1>2. Passed = Len(T) /\ Looked = Len(T)
  BY DEF Passed, Looked
<1>3. /\ mcfg_table = Tables!LastTable("MCFG") /\ madt_table = Tables!LastTable("APIC")
      /\ fadt_table = Tables!LastTable("FACP")
      /\ madt_table = <<>> <=> Tables!Having("APIC") = {}
      /\ fadt_table = <<>> <=> Tables!Having("FACP") = {}
  BY <1>0, <1>1, <1>2, PointsToLast DEF TablesInv, KeptInv
<1>4. given.ids = Tables!Processors
  <2>1. given.ids = AllIdsTo(T, Len(T))
    BY <1>0, <1>2 DEF TablesInv, KeptInv, GivenInv
  <2>. QED
    BY <2>1 DEF Tables!Processors, Tables!Ids, AllIdsTo, IdsOf, IdsTo, Enabled, T
<1>5. given.base = IF madt_table = <<>> THEN "page 0" ELSE madt_table[1].base
  BY <1>0 DEF TablesInv, GivenInv
<1>6. pm_timer = [port |-> IF fadt_table = <<>> THEN 0 ELSE fadt_table[1].port,
                  is24 |-> \A k \in Tables!Having("FACP") : ~T[k].ext]
  <2>1. (\A k \in 1..Len(T) : T[k].sig = "FACP" => ~T[k].ext)
          = \A k \in Tables!Having("FACP") : ~T[k].ext
    BY DEF Tables!Having, T
  <2>. QED
    BY <1>0, <1>2, <2>1 DEF TablesInv, KeptInv
<1>7. Len(given.ids) <= MaxIds
  BY <1>0 DEF TablesInv, KeptInv, GivenInv
<1>. QED
  BY <1>3, <1>4, <1>5, <1>6, <1>7 DEF GivenIsTrue, Tables!GivenIsTrue, T

(* GivenIsTrue of AcpiInit: smp_init, pcie_init and the delay loop are     *)
(* given what the tables of the right root list, whatever lies in the two  *)
(* areas, whichever checksums are wrong, and in whatever order the tables  *)
(* and the entries of a MADT come; nothing is given when the walk of a     *)
(* MADT does not end.                                                      *)
THEOREM GivenIsTrueHolds == AcpiSpec => []GivenIsTrue
<1>1. AcpiStart => (TablesInv \/ Lost)
  BY TablesStart DEF AcpiStart
<1>2. (TablesInv \/ Lost) /\ [AcpiNext]_<<part, vars, startVars, stopVars>> => (TablesInv \/ Lost)'
  <2>. SUFFICES ASSUME TablesInv \/ Lost, [AcpiNext]_<<part, vars, startVars, stopVars>>
                PROVE  TablesInv' \/ Lost'
    OBVIOUS
  <2>1. Tables!Next \/ UNCHANGED startVars
    BY DEF AcpiNext
  <2>. QED
    BY <2>1, TablesKeep, LostStays
<1>3. (TablesInv \/ Lost) => GivenIsTrue
  BY TablesShow
<1>. QED
  BY <1>1, <1>2, <1>3, PTL DEF AcpiSpec
=============================================================================
