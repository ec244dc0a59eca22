-------------------------------- MODULE Devices --------------------------------
(***************************************************************************)
(* Six parts that share no state: Console, Ata, Ps2, Pcie, Modules and     *)
(* Idt.  A behaviour is of one of them, part says which; the others are at *)
(* rest in a state of their own.                                           *)
(***************************************************************************)
EXTENDS Integers, Sequences

CONSTANTS
    Printers, Texts, MaxTokens, MaxCalls, Faulty,     \* Console
    Callers, Sectors, MaxCount, DiskCalls,            \* Ata
    Typist, Others, Keys, MaxKeys, max_len,           \* Ps2
    Mcfgs, Spaces, BusesPerSegment, Funcs, Targets,   \* Pcie
    Mods, Growth, MaxBlocks,                          \* Modules
    Bsp, APs                                          \* Idt

ASSUME DevicesAssumption ==
    /\ Growth \in Nat \ {0}    \* the array grows
    /\ Mods # {}
    /\ Sectors \subseteq Nat /\ MaxCount \in Nat
    /\ Bsp \notin APs

(* An entry lists at least one bus.  An empty slot reads as ffff.          *)
ASSUME BusAssumption ==
    /\ BusesPerSegment \in Nat \ {0} /\ Funcs \in Nat \ {0}
    /\ \A t \in Mcfgs :
          /\ t \in Seq([segment : Nat, start : 0..(BusesPerSegment - 1),
                        end : 0..(BusesPerSegment - 1)])
          /\ \A i \in DOMAIN t : t[i].start <= t[i].end
    /\ \A s \in Spaces : \A a \in DOMAIN s : s[a].vendor # "ffff"

(* Every printing function, and the three kinds of token.                  *)
ASSUME TextAssumption ==
    /\ "none" \notin Printers /\ "lost" \notin Printers
    /\ MaxTokens \in Nat
    /\ \A call \in Texts : /\ call.fn \in {"serial_print", "serial_printf", "vmem_printf",
                                          "vmem_print", "vmem_printc"}
                           /\ call.text \in Seq({"c", "nl", "s"})

(* A buffer has a place for the terminating 0.                             *)
ASSUME LineAssumption == max_len \in Nat \ {0}

VARIABLES
    part,
    owner, code, console_pc, left, faulted, console_x, y, at, cursor, crowded,
    ata_lock, disk_pc, req, i, buffer, calls, late, selected, st, cmd, cache, disk,
    ps2_lock, kbd_pc, got, out, asked, enabled, typed, config, buf, cells, kbd_x,
    found_mcfg, mcfg, space, bus_pc, next, num_segs, window, search, result, access,
    block, freed, registered_modules, registered_module_count, registered_module_cap,
    modules_pc, module, nptr, registered, accepted,
    idt, idt_ptr, base, entries, idtr, iflag, idt_pc, taken

consoleVars == <<owner, code, console_pc, left, faulted, console_x, y, at, cursor,
                 crowded>>
diskVars == <<ata_lock, disk_pc, req, i, buffer, calls, late, selected, st, cmd, cache, disk>>
keyboardVars == <<ps2_lock, kbd_pc, got, out, asked, enabled, typed, config, buf, cells, kbd_x>>
busVars == <<found_mcfg, mcfg, space, bus_pc, next, num_segs, window, search, result, access>>
modulesVars == <<block, freed, registered_modules, registered_module_count,
                 registered_module_cap, modules_pc, module, nptr, registered, accepted>>
interruptsVars == <<idt, idt_ptr, base, entries, idtr, iflag, idt_pc, taken>>
deviceVars == <<part, consoleVars, diskVars, keyboardVars, busVars, modulesVars,
                interruptsVars>>

-----------------------------------------------------------------------------
Console == INSTANCE Console WITH Cores <- Printers, pc <- console_pc, x <- console_x
Disk == INSTANCE Ata WITH MaxCalls <- DiskCalls, pc <- disk_pc
Keyboard == INSTANCE Ps2 WITH pc <- kbd_pc, x <- kbd_x
Bus == INSTANCE Pcie WITH Tables <- Mcfgs, pc <- bus_pc
Registry == INSTANCE Modules WITH Step <- Growth, pc <- modules_pc
Interrupts == INSTANCE Idt WITH pc <- idt_pc

-----------------------------------------------------------------------------
DevicesInit ==
    /\ part \in {"console", "disk", "keyboard", "bus", "modules", "interrupts"}
    /\ Console!Init /\ Disk!Init /\ Keyboard!Init /\ Interrupts!Init
    /\ Bus!Init /\ (part # "bus" => mcfg = <<>> /\ ~found_mcfg
                                   /\ space = CHOOSE s \in Spaces : TRUE)
    /\ Registry!Init /\ (part # "modules" => module = CHOOSE m \in Mods : TRUE)

DevicesNext ==
    \/ /\ part = "console" /\ Console!Next
       /\ UNCHANGED <<part, diskVars, keyboardVars, busVars, modulesVars, interruptsVars>>
    \/ /\ part = "disk" /\ Disk!Next
       /\ UNCHANGED <<part, consoleVars, keyboardVars, busVars, modulesVars, interruptsVars>>
    \/ /\ part = "keyboard" /\ Keyboard!Next
       /\ UNCHANGED <<part, consoleVars, diskVars, busVars, modulesVars, interruptsVars>>
    \/ /\ part = "bus" /\ Bus!Next
       /\ UNCHANGED <<part, consoleVars, diskVars, keyboardVars, modulesVars, interruptsVars>>
    \/ /\ part = "modules" /\ Registry!Next
       /\ UNCHANGED <<part, consoleVars, diskVars, keyboardVars, busVars, interruptsVars>>
    \/ /\ part = "interrupts" /\ Interrupts!Next
       /\ UNCHANGED <<part, consoleVars, diskVars, keyboardVars, busVars, modulesVars>>

(* At rest nothing that the three fairness conditions oblige is enabled.   *)
DevicesSpec ==
    /\ DevicesInit /\ [][DevicesNext]_deviceVars
    /\ Console!Fairness /\ Disk!Fairness /\ Keyboard!Fairness

-----------------------------------------------------------------------------
(* Of Console: formats and strings are not mixed on the wire.              *)
Unbroken == Console!Unbroken

(* Calls into the drivers end, each with the exceptions its module states: *)
(* the nested locks of the console, the shared one of ATA, where a drive   *)
(* may not answer, and that of the keyboard, which a reader may hold.      *)
CallsEnd == Console!CallsEnd /\ Disk!CallsEnd /\ Keyboard!PollEnds

(* The cursor is where the next character goes, and the row of an input    *)
(* line shows the line (Console, Ps2).                                     *)
ScreenRight == Console!CursorAtRest /\ Keyboard!EchoShowsLine

(* Of Ata: sectors are transferred that are reported as transferred.       *)
TransfersTrue == Disk!TransfersTrue

(* Of Pcie: accesses reach their bus where no entry lies over it, and      *)
(* searches find the first match.                                          *)
SearchRight == Bus!SearchRight

(* Of Modules: the array holds exactly the registered modules.             *)
RegistryIntact == Registry!RegistryIntact

(* Of Idt: no core loads a table that is not complete.                     *)
LoadedIsComplete == Interrupts!LoadedIsComplete
===============================================================================
