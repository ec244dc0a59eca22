--------------------------------- MODULE Pcie ---------------------------------
(***************************************************************************)
(* pcie_init, pcie_read, pcie_write and the searches of pcie_find_ex and   *)
(* pcie_find_rex, over what the MCFG lists and what is in the slots.       *)
(*                                                                         *)
(* Addresses are counted in buses (1 MiB).  A segment owns 256 of them in  *)
(* the virtual window, BusesPerSegment here, and the buses of each of its  *)
(* entries are mapped from the first of them on, those of a later entry    *)
(* over those of an earlier one; base_addr of an entry is where the code   *)
(* takes its start_bus to be.  A slot and its function are one number.     *)
(* The sub-class and the programming interface go with the class.          *)
(***************************************************************************)
EXTENDS Integers, Sequences, SequencesExt

CONSTANTS
    Tables,            \* MCFGs: sequences of [segment, start, end]
    Spaces,            \* [<<segment, bus, function>> -> device], partial
    BusesPerSegment,   \* PCI_MAX_BUS
    Funcs,             \* functions of a bus, 0..Funcs - 1
    Targets            \* [class, revision, vendor] that are searched

VARIABLES
    found_mcfg, mcfg,  \* acpi_get_mcfg() # NULL, and its entries
    space,
    pc, next,          \* where pcie_init is, and the loops over b, s and f
    num_segs,          \* mcfg_num_segs
    window,            \* page tables from PCIE_VIRT_BASE: <<segment, bus>>
    search,            \* [rex, target, use_vendor]: the search in progress
    result,            \* what it returned: <<bus, function>>, or <<>>
    access             \* [bus, by, at]: the last access

vars == <<found_mcfg, mcfg, space, pc, next, num_segs, window, search, result, access>>
board == <<found_mcfg, mcfg, space>>

NoSearch == [rex |-> FALSE, target |-> CHOOSE t \in Targets : TRUE, use_vendor |-> FALSE]

Init ==
    /\ found_mcfg \in BOOLEAN /\ mcfg \in Tables
    /\ space \in Spaces
    /\ pc = "start" /\ next = 0
    /\ num_segs = 0 /\ window = <<>>
    /\ search = NoSearch /\ result = <<>>
    /\ access = [bus |-> 0, by |-> "none", at |-> <<0, 0>>]

-----------------------------------------------------------------------------
(* pcie_init *)

EntrySize == 16
\* An empty table wraps round to -1.
NumSegs == IF mcfg = <<>> THEN -1 ELSE (Len(mcfg) * EntrySize - 8) \div EntrySize

Start ==
    /\ pc = "start"
    /\ pc' = IF found_mcfg THEN "map" ELSE "idle"
    /\ num_segs' = IF found_mcfg THEN NumSegs ELSE 0
    /\ next' = 1
    /\ UNCHANGED <<board, window, search, result, access>>

\* pager_map_range of one entry.
MapSegment ==
    LET e == mcfg[next]
        first == e.segment * BusesPerSegment
        added == first..(first + (e.end - e.start))
    IN  /\ pc = "map" /\ next <= num_segs
        /\ window' = [a \in added \cup DOMAIN window |->
                        IF a \in added THEN <<e.segment, e.start + (a - first)>> ELSE window[a]]
        /\ next' = next + 1
        /\ UNCHANGED <<board, pc, num_segs, search, result, access>>

Mapped ==
    /\ pc = "map" /\ next > num_segs
    /\ pc' = "scan" /\ next' = 0
    /\ UNCHANGED <<board, num_segs, window, search, result, access>>

-----------------------------------------------------------------------------
(* pcie_read, pcie_write *)

\* get_segment, counted from 1: the first entry when none has the bus.
Segment(bus) ==
    LET i == SelectInSubSeq(mcfg, 1, num_segs, LAMBDA e : e.start <= bus /\ bus <= e.end)
    IN  IF i = 0 THEN 1 ELSE i

\* Mutant of Address: start_bus is not subtracted.
AddressFromZero(bus) ==
    LET e == mcfg[Segment(bus)] IN e.segment * BusesPerSegment + bus

Address(bus) ==
    LET e == mcfg[Segment(bus)] IN e.segment * BusesPerSegment + (bus - e.start)

\* An address that is not mapped faults.
Access(bus) ==
    IF ~found_mcfg \/ num_segs < 1
    THEN [bus |-> bus, by |-> "legacy", at |-> <<0, bus>>]
    ELSE IF Address(bus) \in DOMAIN window
         THEN [bus |-> bus, by |-> "mcfg", at |-> window[Address(bus)]]
         ELSE [bus |-> bus, by |-> "fault", at |-> <<0, 0>>]

Absent == [class |-> "ff", revision |-> "ff", vendor |-> "ffff"]
DeviceAt(at, f) == IF <<at[1], at[2], f>> \in DOMAIN space
                   THEN space[<<at[1], at[2], f>>] ELSE Absent

Bus(n) == n \div Funcs
Func(n) == n % Funcs
Places == BusesPerSegment * Funcs

\* The page fault is not handled: the exception handler halts.
PageFault ==
    /\ pc \in {"scan", "find"} /\ next < Places
    /\ access' = Access(Bus(next)) /\ access'.by = "fault"
    /\ pc' = "fault"
    /\ UNCHANGED <<board, next, num_segs, window, search, result>>

Reads(from) ==
    /\ pc = from /\ next < Places
    /\ access' = Access(Bus(next)) /\ access'.by # "fault"

\* The table of drivers is empty: the scan reads and registers nothing.
Scan ==
    /\ Reads("scan")
    /\ next' = next + 1
    /\ pc' = IF next + 1 = Places THEN "idle" ELSE "scan"
    /\ UNCHANGED <<board, num_segs, window, search, result>>

-----------------------------------------------------------------------------
(* pcie_find_ex, pcie_find_rex *)

Find ==
    /\ pc = "idle" /\ pc' = "find" /\ next' = 0
    /\ \E rex, use_vendor \in BOOLEAN, t \in Targets :
          search' = [rex |-> rex, target |-> t, use_vendor |-> use_vendor]
    /\ UNCHANGED <<board, num_segs, window, result, access>>

\* pcie_find_rex tests the vendor when it is told not to.
Matches(d) ==
    LET t == search.target
    IN  /\ d.vendor # "ffff"
        /\ search.use_vendor # search.rex => d.vendor = t.vendor
        /\ d.class = t.class
        /\ search.rex => d.revision = t.revision

Look ==
    /\ Reads("find")
    /\ ~Matches(DeviceAt(access'.at, Func(next)))
    /\ next' = next + 1
    /\ UNCHANGED <<board, pc, num_segs, window, search, result>>

Hit ==
    /\ Reads("find")
    /\ Matches(DeviceAt(access'.at, Func(next)))
    /\ result' = <<Bus(next), Func(next)>>
    /\ pc' = "found"
    /\ UNCHANGED <<board, next, num_segs, window, search>>

Miss ==
    /\ pc = "find" /\ next = Places
    /\ result' = <<>> /\ pc' = "found"
    /\ UNCHANGED <<board, next, num_segs, window, search, access>>

\* pcie_enable_busmaster of what was found, and the next search.
Enable ==
    /\ pc = "found"
    /\ access' = IF result = <<>> THEN access ELSE Access(result[1])
    /\ pc' = "idle" /\ next' = 0 /\ search' = NoSearch /\ result' = <<>>
    /\ UNCHANGED <<board, num_segs, window>>

Next ==
    \/ Start \/ MapSegment \/ Mapped \/ Scan \/ PageFault
    \/ Find \/ Look \/ Hit \/ Miss \/ Enable

Spec == Init /\ [][Next]_vars

-----------------------------------------------------------------------------
(* Properties *)

Lists(e, bus) == e.start <= bus /\ bus <= e.end

\* The entry of bus is mapped over by a later one of its segment that starts
\* elsewhere (pcie.c:28).
Overlaid(i, bus) ==
    \E j \in (i + 1)..num_segs :
        /\ mcfg[j].segment = mcfg[i].segment /\ mcfg[j].start # mcfg[i].start
        /\ bus - mcfg[i].start <= mcfg[j].end - mcfg[j].start

\* A bus that an entry in the count lists is reached, through the first such entry
\* (pcie.c:83-85), unless a later entry of the segment lies over it: the window that
\* pcie_init mapped (29) and the address that pcie_read forms (100) agree.  Any other
\* bus is counted from the start of the first entry: its access faults, or reaches a
\* wrong bus.  No access leaves the buses that the counted entries list.
AccessRight ==
    LET Having(bus) == {i \in 1..num_segs : Lists(mcfg[i], bus)}
    IN  /\ access.by = "mcfg" /\ Having(access.bus) # {} =>
              \E i \in Having(access.bus) :
                  /\ \A j \in Having(access.bus) : i <= j
                  /\ access.at = <<mcfg[i].segment, access.bus>> \/ Overlaid(i, access.bus)
        /\ access.by = "mcfg" =>
              \E i \in Having(access.at[2]) : access.at[1] = mcfg[i].segment
        /\ access.by = "fault" => Having(access.bus) = {}

\* A device that can be read and has the class, and for pcie_find_rex the revision,
\* that is sought.
Sought(n) ==
    LET d == DeviceAt(Access(Bus(n)).at, Func(n))
    IN  /\ d # Absent /\ d.class = search.target.class
        /\ search.rex => d.revision = search.target.revision

\* And the vendor, if pcie_find_ex is to test it; for pcie_find_rex, which tests it
\* when it is told not to (pcie.c:167), in any case.
Wanted(n) ==
    /\ Sought(n)
    /\ search.rex \/ search.use_vendor =>
          DeviceAt(Access(Bus(n)).at, Func(n)).vendor = search.target.vendor

\* pcie_find_ex returns the first function that is wanted, in the order of the buses
\* and wherever its bus is mapped (pcie.c:131-158), and 0 when there is none.
\* pcie_find_rex (160-189) returns one that is sought and passes over none that is
\* the very device, whichever way use_vendor is meant.
SearchRight ==
    /\ AccessRight
    /\ pc = "found" =>
          IF result = <<>> THEN \A n \in 0..(Places - 1) : ~Wanted(n)
          ELSE LET n == result[1] * Funcs + result[2]
               IN  /\ n \in 0..(Places - 1) /\ Sought(n)
                   /\ ~search.rex => Wanted(n)
                   /\ \A m \in 0..(n - 1) : ~Wanted(m)
===============================================================================
