-------------------------------- MODULE Delays --------------------------------
(***************************************************************************)
(* acpi_mdelay over the ACPI power-management timer, and fdelay over the   *)
(* time-stamp counter that ftimer_calibrate measures with it (core.c).     *)
(*                                                                         *)
(* Time is counted in ticks of the PM timer; the TSC makes TscRate ticks   *)
(* in one of them and, with 64 bits, never wraps.  acpi_mdelay runs with   *)
(* interrupts off, so its loop reads the timer at least once in every      *)
(* revolution: this is the one assumption about speed (GapBound).          *)
(***************************************************************************)
EXTENDS Integers

CONSTANTS
    Callers,       \* processors
    TscUsers,      \* those of them that call fdelay or calibrate
    Delays,        \* milliseconds that are asked for
    Short, Long,   \* revolution of a 24-bit and of a 32-bit timer
    PmPerMs,       \* 3580
    CalibrateMs,   \* 10
    TscRate,
    MaxWait        \* bound: TSC ticks in one call; more count as MaxWait

ASSUME DelaysAssumption ==
    /\ Delays \subseteq Nat
    /\ Short \in Nat \ {0} /\ Long \in Nat \ {0}
    /\ PmPerMs \in Nat \ {0} /\ CalibrateMs \in Nat \ {0}
    /\ TscRate \in Nat \ {0} /\ MaxWait \in Nat
    /\ \A m \in Delays : m <= CalibrateMs
    /\ CalibrateMs * PmPerMs * TscRate <= MaxWait

VARIABLES
    pm_timer_port,     \* FADT: is there a timer
    timer_val_ext,     \* FADT flag bit 8: it has 32 bits
    timer,             \* the hardware's count
    acpi_lock,         \* its holder, or {}
    pc,                \* of each processor
    ms, purpose,       \* of each processor: the delay, and who asked for it
    last, elapsed,     \* locals of the holder's acpi_mdelay
    tsc,               \* TSC ticks since each processor read its start
    tsc_ticks_per_ms,
    since, gap         \* history variables: true ticks since the holder's
                       \* first read and since its last

vars == <<pm_timer_port, timer_val_ext, timer, acpi_lock, pc, ms, purpose, last,
          elapsed, tsc, tsc_ticks_per_ms, since, gap>>
fadt == <<pm_timer_port, timer_val_ext>>

\* The hardware's revolution is the one that its FADT announces.
Modulus == IF timer_val_ext THEN Long ELSE Short

TypeOK ==
    /\ pm_timer_port \in BOOLEAN /\ timer_val_ext \in BOOLEAN
    /\ timer \in 0..(Modulus - 1)
    /\ acpi_lock \in SUBSET Callers
    /\ pc \in [Callers -> {"idle", "lock", "delay", "fdelay"}]
    /\ ms \in [Callers -> Delays \cup {CalibrateMs}]
    /\ purpose \in [Callers -> {"mdelay", "calibrate", "fdelay"}]
    /\ last \in 0..(Modulus - 1)
    /\ elapsed \in Nat
    /\ tsc \in [Callers -> Nat]
    /\ tsc_ticks_per_ms \in Nat
    /\ since \in Nat /\ gap \in Nat

Init ==
    /\ pm_timer_port \in BOOLEAN /\ timer_val_ext \in BOOLEAN
    /\ timer \in IF pm_timer_port THEN 0..(Modulus - 1) ELSE {0}
    /\ acpi_lock = {}
    /\ pc = [c \in Callers |-> "idle"]
    /\ ms = [c \in Callers |-> CalibrateMs]
    /\ purpose = [c \in Callers |-> "mdelay"]
    /\ last = 0 /\ elapsed = 0
    /\ tsc = [c \in Callers |-> 0]
    /\ tsc_ticks_per_ms = 0
    /\ since = 0 /\ gap = 0

-----------------------------------------------------------------------------
(* The clocks *)

GapBound == acpi_lock # {} /\ pm_timer_port => gap + 1 < Modulus

Tick ==
    /\ GapBound
    /\ timer' = IF ~pm_timer_port \/ timer + 1 = Modulus THEN 0 ELSE timer + 1
    /\ since' = IF acpi_lock # {} /\ pm_timer_port THEN since + 1 ELSE since
    /\ gap' = IF acpi_lock # {} /\ pm_timer_port THEN gap + 1 ELSE gap
    /\ tsc' = [c \in Callers |-> IF purpose[c] = "mdelay" \/ pc[c] = "idle" THEN tsc[c]
                                 ELSE IF tsc[c] + TscRate > MaxWait THEN MaxWait
                                 ELSE tsc[c] + TscRate]
    /\ UNCHANGED <<fadt, acpi_lock, pc, ms, purpose, last, elapsed, tsc_ticks_per_ms>>

(* acpi_mdelay and ftimer_calibrate, which reads the TSC and calls it *)

Enter(c, why, m) ==
    /\ pc[c] = "idle"
    /\ pc' = [pc EXCEPT ![c] = "lock"]
    /\ ms' = [ms EXCEPT ![c] = m]
    /\ purpose' = [purpose EXCEPT ![c] = why]
    /\ tsc' = [tsc EXCEPT ![c] = 0]
    /\ UNCHANGED <<fadt, timer, acpi_lock, last, elapsed, tsc_ticks_per_ms, since, gap>>

\* The first read of the timer, under the lock.
Start(c) ==
    /\ pc[c] = "lock" /\ acpi_lock = {}
    /\ pc' = [pc EXCEPT ![c] = "delay"]
    /\ acpi_lock' = {c}
    /\ last' = timer /\ elapsed' = 0
    /\ since' = 0 /\ gap' = 0
    /\ UNCHANGED <<fadt, timer, ms, purpose, tsc, tsc_ticks_per_ms>>

Needed(c) == ms[c] * PmPerMs

\* Mutant of Rollover: a timer of either width wraps as one of 24 bits.
RolloverShort == Short

Rollover == IF timer_val_ext THEN Long ELSE Short

Ticks == IF timer < last THEN (timer + Rollover) - last ELSE timer - last

MoreToWait(c) == elapsed < Needed(c)

\* One turn of the loop.
Read(c) ==
    /\ pc[c] = "delay" /\ MoreToWait(c)
    /\ elapsed' = elapsed + Ticks
    /\ last' = timer
    /\ gap' = 0
    /\ UNCHANGED <<fadt, timer, acpi_lock, pc, ms, purpose, tsc, tsc_ticks_per_ms, since>>

\* Mutant of Finish: the lock is not released.
FinishLocked(c) ==
    /\ pc[c] = "delay" /\ ~MoreToWait(c)
    /\ pc' = [pc EXCEPT ![c] = "idle"]
    /\ tsc_ticks_per_ms' = IF purpose[c] = "calibrate" THEN tsc[c] \div CalibrateMs
                           ELSE tsc_ticks_per_ms
    /\ tsc' = [tsc EXCEPT ![c] = 0]
    /\ last' = 0 /\ elapsed' = 0 /\ since' = 0 /\ gap' = 0
    /\ UNCHANGED <<fadt, timer, acpi_lock, ms, purpose>>

Finish(c) ==
    /\ pc[c] = "delay" /\ ~MoreToWait(c)
    /\ pc' = [pc EXCEPT ![c] = "idle"]
    /\ acpi_lock' = {}
    /\ tsc_ticks_per_ms' = IF purpose[c] = "calibrate" THEN tsc[c] \div CalibrateMs
                           ELSE tsc_ticks_per_ms
    /\ tsc' = [tsc EXCEPT ![c] = 0]
    /\ last' = 0 /\ elapsed' = 0 /\ since' = 0 /\ gap' = 0
    /\ UNCHANGED <<fadt, timer, ms, purpose>>

\* fdelay returns at once until someone has calibrated.
Fdelay(c, m) ==
    /\ pc[c] = "idle" /\ tsc_ticks_per_ms # 0
    /\ pc' = [pc EXCEPT ![c] = "fdelay"]
    /\ ms' = [ms EXCEPT ![c] = m]
    /\ purpose' = [purpose EXCEPT ![c] = "fdelay"]
    /\ tsc' = [tsc EXCEPT ![c] = 0]
    /\ UNCHANGED <<fadt, timer, acpi_lock, last, elapsed, tsc_ticks_per_ms, since, gap>>

FdelayOver(c) == tsc[c] >= ms[c] * tsc_ticks_per_ms

FdelayReturn(c) ==
    /\ pc[c] = "fdelay" /\ FdelayOver(c)
    /\ pc' = [pc EXCEPT ![c] = "idle"]
    /\ tsc' = [tsc EXCEPT ![c] = 0]
    /\ UNCHANGED <<fadt, timer, acpi_lock, ms, purpose, last, elapsed, tsc_ticks_per_ms, since, gap>>

Next ==
    \/ Tick
    \/ \E c \in Callers :
        \/ \E m \in Delays : Enter(c, "mdelay", m)
        \/ /\ c \in TscUsers
           /\ Enter(c, "calibrate", CalibrateMs) \/ \E m \in Delays : Fdelay(c, m)
        \/ Start(c) \/ Read(c) \/ Finish(c) \/ FdelayReturn(c)

Spec == Init /\ [][Next]_vars

\* Time passes, and a processor in a loop goes on.  Nothing is assumed about
\* who gets a lock that several wait for.
LoopFairness ==
    /\ \A c \in Callers : WF_vars(Read(c)) /\ WF_vars(Finish(c)) /\ WF_vars(FdelayReturn(c))
    /\ WF_vars(\E c \in Callers : Start(c))

FairSpec == Spec /\ WF_vars(Tick) /\ LoopFairness

-----------------------------------------------------------------------------
(* Properties *)

(* However often the timer has wrapped, in either width, elapsed is the    *)
(* time that has passed up to the last read.                               *)
ElapsedExact == acpi_lock # {} /\ pm_timer_port => elapsed = since - gap

\* A delay that ends, acpi_mdelay's or fdelay's, has been long enough.
Punctual ==
    \A c \in Callers :
        /\ pc[c] = "delay" /\ pc'[c] = "idle" /\ pm_timer_port => since >= Needed(c)
        /\ pc[c] = "fdelay" /\ pc'[c] = "idle" => tsc[c] >= ms[c] * PmPerMs * TscRate

(* So acpi_mdelay never returns early, and does at the first read that     *)
(* sees the time reached; fdelay, once calibrated, never returns early,    *)
(* also when the calibration had to wait for the lock.                     *)
NeverEarly == [][ElapsedExact' /\ Punctual]_vars

(* Without a PM timer acpi_mdelay loops for ever with the lock held; with  *)
(* one, whoever holds the lock lets go of it and someone who waits gets    *)
(* it (fdelay and acpi_mdelay do not take it twice, acpi.c:69).            *)
DelayEnds ==
    /\ \A c \in Callers : pm_timer_port /\ pc[c] = "delay" ~> pc[c] = "idle"
    /\ pm_timer_port /\ (\E c \in Callers : pc[c] = "lock")
          ~> \E c \in Callers : pc[c] = "delay"
=============================================================================
