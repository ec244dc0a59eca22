--------------------------------- MODULE Acpi ---------------------------------
(***************************************************************************)
(* Three parts of acpi.c that share no state but the lock, each of which   *)
(* takes it alone: acpi_init (AcpiInit), the delays (Delays), acpi_reboot  *)
(* and acpi_shutdown (SmpShutdown).  A behaviour is of one of them, part   *)
(* says which; the others are at rest in a state of their own.             *)
(***************************************************************************)
EXTENDS Delays, Sequences

CONSTANTS
    Images, MaxIds,          \* AcpiInit
    N, Bsp, Rebooters, Offs  \* SmpShutdown

ASSUME AcpiAssumption == N \in Nat /\ Bsp \in 1..N

(* What an image is made of; an APIC ID and a length have 8 bits.          *)
ASSUME ImagesAssumption ==
    /\ MaxIds \in Nat
    /\ \A im \in Images :
           /\ im.ebda \in Seq({"bad", "v1", "v2", "v2bad"})
           /\ im.bios \in Seq({"bad", "v1", "v2", "v2bad"})
           /\ \A root \in {im.rsdt, im.xsdt} :
                 LET Range(s) == {s[k] : k \in DOMAIN s}
                 IN  /\ root.ok \in BOOLEAN /\ root.tables \in Seq(Range(root.tables))
                     /\ \A t \in Range(root.tables) :
                           /\ t.sig = "FACP" => t.ext \in BOOLEAN
                           /\ t.sig = "APIC" =>
                                 /\ t.entries \in Seq(Range(t.entries))
                                 /\ \A e \in Range(t.entries) : e.id \in 0..255 /\ e.len \in 0..255

VARIABLES
    part,
    image, start_pc, start_lock, rsdp, start_i, entry, mcfg_table, madt_table, fadt_table,
    apic_ids, pm_timer, given,
    registered, way, mode, stop_pc, stop_i, shutdown_core, init, avmf_lock,
    cmos_index, kernel_info, machine

startVars == <<image, start_pc, start_lock, rsdp, start_i, entry, mcfg_table, madt_table,
               fadt_table, apic_ids, pm_timer, given>>
stopVars == <<registered, way, mode, stop_pc, stop_i, shutdown_core, init,
              avmf_lock, cmos_index, kernel_info, machine>>

Tables == INSTANCE AcpiInit WITH
    pc <- start_pc, acpi_lock <- start_lock, i <- start_i

Stop == INSTANCE SmpShutdown WITH pc <- stop_pc, i <- stop_i

NoImage == CHOOSE im \in Images : im.ebda = <<>> /\ im.bios = <<>>

AcpiStart ==
    /\ part \in {"start", "delay", "stop"}
    /\ Init /\ (part # "delay" => pm_timer_port /\ ~timer_val_ext /\ timer = 0)
    /\ Tables!Init /\ (part # "start" => image = NoImage)
    /\ Stop!Init /\ (part # "stop" => /\ registered = {} /\ way = "ports"
                                      /\ \A c \in Stop!Cores \ {Bsp} : mode[c] = "reset")

AcpiNext ==
    \/ part = "start" /\ Tables!Next /\ UNCHANGED <<part, vars, stopVars>>
    \/ part = "delay" /\ Next /\ UNCHANGED <<part, startVars, stopVars>>
    \/ part = "stop" /\ Stop!Next /\ UNCHANGED <<part, vars, startVars>>

(* The fairness of the three; at rest only the timer and acpi_init could   *)
(* go on.                                                                  *)
AcpiFairness ==
    /\ WF_vars(part = "delay" /\ Tick) /\ LoopFairness
    /\ WF_startVars(part = "start" /\ Tables!Next)
    /\ Stop!Fairness

AcpiSpec == AcpiStart /\ [][AcpiNext]_<<part, vars, startVars, stopVars>> /\ AcpiFairness

(* Of AcpiInit: smp_init and the delays are given what the image lists.    *)
GivenIsTrue == Tables!GivenIsTrue

(* Of AcpiInit: with a usable RSDP and well-formed MADTs, start-up gets    *)
(* past the ACPI calls.                                                    *)
StartupGoesOn == Tables!StartupGoesOn

(* Of SmpShutdown: no registered core goes on after the reset.             *)
OthersStopped == Stop!OthersStopped

(* Of SmpShutdown: a core outside the table resets the machine.            *)
SurvivorReboots == Stop!SurvivorReboots

(* acpi_lock does not deadlock (the comment of acpi.c:69): start-up gets   *)
(* past the ACPI calls whatever the image, its MADTs being well formed.    *)
NoDeadlockOnLock == part = "start" /\ Tables!WellFormed ~> start_pc = "done"
===============================================================================
