-------------------------------- MODULE MCAcpi --------------------------------
(* An instance of Acpi:                                                    *)
(*   start  images with up to one RSDP in the EBDA and two in the BIOS     *)
(*          area, roots of either format, sound or not, with the tables in *)
(*          several orders, MADTs with more processors than apic_ids holds *)
(*          and with entries of length 0;                                  *)
(*   delay  timers that wrap after 3 and after 5 ticks and delays of more  *)
(*          than a turn;                                                   *)
(*   stop   three cores.                                                   *)
EXTENDS Acpi

Lapic(n, on) == [type |-> "LAPIC", id |-> n, enabled |-> on, len |-> 8]
OtherEntry == [type |-> "IOAPIC", id |-> 9, enabled |-> TRUE, len |-> 12]
Endless(e) == [e EXCEPT !.len = 0]
Madt(entries, base) == [sig |-> "APIC", entries |-> entries, base |-> base]
Fadt(ext) == [sig |-> "FACP", port |-> 1, ext |-> ext]
Mcfg == [sig |-> "MCFG"]
Other == [sig |-> "SSDT"]
Root(ok, tables) == [ok |-> ok, tables |-> tables]

RootList ==
    << Root(TRUE, <<Madt(<<Lapic(0, TRUE), OtherEntry, Lapic(2, FALSE), Lapic(1, TRUE)>>, "lapic"),
                    Fadt(TRUE), Mcfg>>),
       Root(TRUE, <<Fadt(FALSE), Other, Mcfg,
                    Madt(<<Lapic(1, FALSE), Lapic(3, TRUE)>>, "lapic2")>>),
       Root(TRUE, <<Madt(<<Lapic(0, TRUE)>>, "lapic"), Madt(<<Lapic(1, TRUE)>>, "lapic2")>>),
       Root(TRUE, <<Other>>),
       Root(FALSE, <<Madt(<<Lapic(7, TRUE)>>, "lapic2"), Fadt(TRUE)>>),
       Root(TRUE, <<Madt(<<Lapic(0, TRUE), Lapic(1, TRUE), Lapic(2, TRUE)>>, "lapic")>>),
       Root(TRUE, <<Madt(<<Lapic(0, TRUE), Endless(OtherEntry), Lapic(1, TRUE)>>, "lapic")>>),
       Root(TRUE, <<Madt(<<OtherEntry, Endless(Lapic(0, TRUE))>>, "lapic"), Fadt(TRUE)>>) >>
Pairs == {p \in (1..Len(RootList)) \X (1..Len(RootList)) :
            p[2] \in {p[1], (p[1] % Len(RootList)) + 1, ((p[1] + 3) % Len(RootList)) + 1}}
Kinds == {"bad", "v1", "v2", "v2bad"}

MCImages ==
    { [ebda |-> e, bios |-> b, rsdt |-> RootList[p[1]], xsdt |-> RootList[p[2]]] :
        e \in {<<>>} \cup {<<k>> : k \in Kinds},
        b \in {<<>>} \cup {<<k, l>> : k, l \in Kinds}, p \in Pairs }
===============================================================================
