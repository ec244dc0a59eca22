------------------------------- MODULE AcpiInit -------------------------------
(***************************************************************************)
(* acpi_init over what it may find in memory, and the calls that the rest  *)
(* of start-up makes of the getters afterwards: acpi_get_apic_info and     *)
(* acpi_get_lapic_base from smp_init, acpi_get_mcfg from pcie_init.  Only  *)
(* the bootstrap processor runs.                                           *)
(*                                                                         *)
(* An image is what the firmware below left in memory:                     *)
(*   ebda, bios   the places that hold "RSD PTR ", in order: "bad" (the    *)
(*                checksum over 20 bytes is wrong), "v1", "v2", or "v2bad" *)
(*                (only the extended checksum is wrong)                    *)
(*   rsdt, xsdt   [ok, tables]: the checksum of the root, and its tables   *)
(* A table has a signature and what the code reads of it.  The entries of  *)
(* a MADT are those that the code's pointer comes to, each with the length *)
(* by which it goes on; the checksum of the table is not looked at.        *)
(***************************************************************************)
EXTENDS Integers, Sequences, SequencesExt

CONSTANTS
    Images,
    MaxIds                 \* the size of apic_ids, 256

VARIABLES
    image,
    pc,                    \* place in the start-up
    acpi_lock,             \* BOOLEAN
    rsdp,                  \* revision of the RSDP in use, "none" before
    i, entry,              \* loops over the tables and over a MADT's entries
    mcfg_table, madt_table, fadt_table,   \* <<table>>, or <<>> for NULL
    apic_ids,              \* with apic_id_count, its length
    pm_timer,              \* [port, is24]: pm_timer_port, pm_timer_24bit
    given                  \* what smp_init was given: processors, LAPIC base

vars == <<image, pc, acpi_lock, rsdp, i, entry, mcfg_table, madt_table, fadt_table,
          apic_ids, pm_timer, given>>
tables == <<mcfg_table, madt_table, fadt_table, apic_ids, pm_timer>>

Init ==
    /\ image \in Images
    /\ pc = "lock" /\ acpi_lock = FALSE
    /\ rsdp = "none" /\ i = 0 /\ entry = 0
    /\ mcfg_table = <<>> /\ madt_table = <<>> /\ fadt_table = <<>>
    /\ apic_ids = <<>>
    /\ pm_timer = [port |-> 0, is24 |-> TRUE]
    /\ given = [ids |-> <<>>, base |-> "none"]

Goto(from, to) == pc = from /\ pc' = to

-----------------------------------------------------------------------------
(* acpi_init *)

Lock ==
    /\ ~acpi_lock /\ acpi_lock' = TRUE
    /\ Goto("lock", "search")
    /\ UNCHANGED <<image, rsdp, i, entry, tables, given>>

Candidates == image.ebda \o image.bios

\* The first candidate whose 20 bytes add up, or 0.
Chosen == SelectInSeq(Candidates, LAMBDA r : r # "bad")

\* A wrong extended checksum ends the search.
Usable == Chosen # 0 /\ Candidates[Chosen] # "v2bad"

FindRsdp ==
    /\ Goto("search", "root")
    /\ Usable
    /\ rsdp' = Candidates[Chosen]
    /\ UNCHANGED <<image, acpi_lock, i, entry, tables, given>>

\* "RSDP Descriptor Not Found!": the return leaves the lock taken.
NoRsdp ==
    /\ Goto("search", "apic_info")
    /\ ~Usable
    /\ UNCHANGED <<image, acpi_lock, rsdp, i, entry, tables, given>>

Root == IF rsdp = "v1" THEN image.rsdt ELSE image.xsdt

CheckRoot ==
    /\ Goto("root", IF Root.ok THEN "table" ELSE "unlock")
    /\ i' = 1
    /\ UNCHANGED <<image, acpi_lock, rsdp, entry, tables, given>>

Table == Root.tables[i]

Mcfg ==
    /\ Goto("table", "table")
    /\ i <= Len(Root.tables) /\ Table.sig = "MCFG"
    /\ mcfg_table' = <<Table>> /\ i' = i + 1
    /\ UNCHANGED <<image, acpi_lock, rsdp, entry, madt_table, fadt_table, apic_ids, pm_timer, given>>

\* acpi_parse_fadt: a flag that is clear does not set is24 again.
Fadt ==
    /\ Goto("table", "table")
    /\ i <= Len(Root.tables) /\ Table.sig = "FACP"
    /\ fadt_table' = <<Table>> /\ i' = i + 1
    /\ pm_timer' = [port |-> Table.port, is24 |-> pm_timer.is24 /\ ~Table.ext]
    /\ UNCHANGED <<image, acpi_lock, rsdp, entry, mcfg_table, madt_table, apic_ids, given>>

OtherTable ==
    /\ Goto("table", "table")
    /\ i <= Len(Root.tables) /\ Table.sig \notin {"MCFG", "FACP", "APIC"}
    /\ i' = i + 1
    /\ UNCHANGED <<image, acpi_lock, rsdp, entry, tables, given>>

Madt ==
    /\ Goto("table", "entry")
    /\ i <= Len(Root.tables) /\ Table.sig = "APIC"
    /\ madt_table' = <<Table>> /\ entry' = 1
    /\ UNCHANGED <<image, acpi_lock, rsdp, i, mcfg_table, fadt_table, apic_ids, pm_timer, given>>

\* Mutant of Counts: disabled processors are counted as well.
CountsAny(e) == e.type = "LAPIC"

Counts(e) == e.type = "LAPIC" /\ e.enabled

ThisEntry == Table.entries[entry]

\* acpi_parse_madt: one entry, of whatever type.  The pointer goes on by the
\* entry's own length, and with a length of 0 it comes to the same entry again.
MadtEntry ==
    /\ Goto("entry", "entry")
    /\ entry <= Len(Table.entries)
    /\ Counts(ThisEntry) => Len(apic_ids) < MaxIds
    /\ apic_ids' = IF Counts(ThisEntry) THEN Append(apic_ids, ThisEntry.id) ELSE apic_ids
    /\ entry' = IF ThisEntry.len = 0 THEN entry ELSE entry + 1
    /\ UNCHANGED <<image, acpi_lock, rsdp, i, mcfg_table, madt_table, fadt_table, pm_timer, given>>

\* apic_id_count is not compared with the size of the array: what is written
\* behind its end is not described any further.
Overrun ==
    /\ Goto("entry", "overrun")
    /\ entry <= Len(Table.entries)
    /\ Counts(ThisEntry) /\ Len(apic_ids) >= MaxIds
    /\ UNCHANGED <<image, acpi_lock, rsdp, i, entry, tables, given>>

MadtEnd ==
    /\ Goto("entry", "table")
    /\ entry > Len(Table.entries)
    /\ i' = i + 1
    /\ UNCHANGED <<image, acpi_lock, rsdp, entry, tables, given>>

NoMoreTables ==
    /\ Goto("table", "unlock")
    /\ i > Len(Root.tables)
    /\ UNCHANGED <<image, acpi_lock, rsdp, i, entry, tables, given>>

\* Mutant of Unlock: a return without the release.
UnlockForgotten ==
    /\ Goto("unlock", "apic_info")
    /\ UNCHANGED <<image, acpi_lock, rsdp, i, entry, tables, given>>

Unlock ==
    /\ acpi_lock' = FALSE
    /\ Goto("unlock", "apic_info")
    /\ UNCHANGED <<image, rsdp, i, entry, tables, given>>

(* The getters: each takes the lock, copies and lets go. *)

GetApicInfo ==
    /\ ~acpi_lock
    /\ Goto("apic_info", "lapic_base")
    /\ given' = [given EXCEPT !.ids = apic_ids]
    /\ UNCHANGED <<image, acpi_lock, rsdp, i, entry, tables>>

\* Without a MADT the address is read from page 0.
GetLapicBase ==
    /\ ~acpi_lock
    /\ Goto("lapic_base", "mcfg")
    /\ given' = [given EXCEPT !.base = IF madt_table = <<>> THEN "page 0" ELSE madt_table[1].base]
    /\ UNCHANGED <<image, acpi_lock, rsdp, i, entry, tables>>

GetMcfg ==
    /\ ~acpi_lock
    /\ Goto("mcfg", "done")
    /\ UNCHANGED <<image, acpi_lock, rsdp, i, entry, tables, given>>

Next ==
    \/ Lock \/ FindRsdp \/ NoRsdp \/ CheckRoot \/ Mcfg \/ Fadt \/ OtherTable \/ Madt
    \/ MadtEntry \/ Overrun \/ MadtEnd \/ NoMoreTables \/ Unlock
    \/ GetApicInfo \/ GetLapicBase \/ GetMcfg

\* Nobody else runs, so the processor goes on while it can.
Fairness == WF_vars(Next)

Spec == Init /\ [][Next]_vars /\ Fairness

-----------------------------------------------------------------------------
(* Properties *)

(* What the image says, read without the code's loops: the tables of the   *)
(* root that the first sound RSDP names.                                   *)
SoundImage ==
    \E k \in 1..Len(Candidates) :
        /\ Candidates[k] \in {"v1", "v2"}
        /\ \A j \in 1..(k - 1) : Candidates[j] = "bad"
RightRoot ==
    LET first == CHOOSE k \in 1..Len(Candidates) :
                    Candidates[k] # "bad" /\ \A j \in 1..(k - 1) : Candidates[j] = "bad"
    IN  IF Candidates[first] = "v2" THEN image.xsdt ELSE image.rsdt
RightTables == IF SoundImage /\ RightRoot.ok THEN RightRoot.tables ELSE <<>>

Ids(entries) ==
    FlattenSeq([k \in 1..Len(entries) |->
                  IF entries[k].type = "LAPIC" /\ entries[k].enabled
                  THEN <<entries[k].id>> ELSE <<>>])
Processors ==
    FlattenSeq([k \in 1..Len(RightTables) |->
                  IF RightTables[k].sig = "APIC" THEN Ids(RightTables[k].entries) ELSE <<>>])

Having(sig) == {k \in 1..Len(RightTables) : RightTables[k].sig = sig}
\* The last table that has the signature, as a pointer: <<>> if none has.
LastTable(sig) ==
    IF Having(sig) = {} THEN <<>>
    ELSE <<RightTables[CHOOSE k \in Having(sig) : \A j \in Having(sig) : j <= k]>>

(* smp_init gets exactly the enabled processors that the image lists, in   *)
(* order, and the LAPIC address of the table that lists them, pcie_init    *)
(* the MCFG, and the delay loop the timer that the FADT describes, with    *)
(* its width: no table of a root or an RSDP with a wrong checksum is used, *)
(* whichever of the two areas and of the two formats it is in.  No more is *)
(* given than apic_ids holds, and nothing when the walk of a MADT does not *)
(* come to its end.                                                        *)
GivenIsTrue ==
    /\ pc \in {"mcfg", "done"} =>
          /\ given.ids = Processors /\ Len(given.ids) <= MaxIds
          /\ Having("APIC") # {} => given.base = LastTable("APIC")[1].base
    /\ pc = "done" =>
          /\ mcfg_table = LastTable("MCFG")
          /\ pm_timer = [port |-> IF Having("FACP") = {} THEN 0 ELSE LastTable("FACP")[1].port,
                         is24 |-> \A k \in Having("FACP") : ~RightTables[k].ext]

(* Every entry of the MADTs has a length, and apic_ids holds them all.     *)
WellFormed ==
    /\ \A k \in Having("APIC") : \A j \in 1..Len(RightTables[k].entries) :
          RightTables[k].entries[j].len # 0
    /\ Len(Processors) <= MaxIds

(* With a usable RSDP and well-formed MADTs, start-up gets past the ACPI   *)
(* calls.  With another MADT it may loop for ever with the lock taken, or  *)
(* write behind the array.                                                 *)
StartupGoesOn == SoundImage /\ WellFormed ~> pc = "done"
=============================================================================
