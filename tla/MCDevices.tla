------------------------------ MODULE MCDevices ------------------------------
(* An instance of Devices:                                                 *)
(*   console    two cores make a call each, of each printing function and  *)
(*              kind of token; one of them may meet an exception;          *)
(*   disk       two processors on both drives of a bus, two sectors;       *)
(*   keyboard   a line of two characters is read while another core polls  *)
(*              and initialises the controller;                            *)
(*   bus        up to three entries of four buses, two functions each;     *)
(*   modules    five modules over two growths of the array;                *)
(*   interrupts the BSP builds the tables, two APs load them.              *)
EXTENDS Devices, TLC

MCTexts == {[fn |-> "serial_print", text |-> <<>>],
            [fn |-> "serial_printf", text |-> <<"c", "s", "c">>],
            [fn |-> "vmem_printf", text |-> <<"nl", "s", "c">>],
            [fn |-> "vmem_print", text |-> <<>>],
            [fn |-> "vmem_printc", text |-> <<"nl">>]}

Entry(segment, start, end) == [segment |-> segment, start |-> start, end |-> end]
Device(class, revision, vendor) ==
    [class |-> class, revision |-> revision, vendor |-> vendor]

(* None, one or two segments, then with the entry that the count leaves    *)
(* out; last, two entries of one segment.                                  *)
MCMcfgs ==
    {<<>>, <<Entry(0, 0, 3)>>, <<Entry(0, 0, 3), Entry(1, 0, 3)>>,
     <<Entry(0, 0, 1), Entry(1, 0, 3)>>, <<Entry(0, 2, 3), Entry(1, 0, 3), Entry(2, 0, 0)>>,
     <<Entry(1, 1, 3), Entry(0, 0, 2), Entry(2, 0, 0)>>,
     <<Entry(1, 3, 3), Entry(0, 1, 3), Entry(2, 0, 0)>>,
     <<Entry(0, 0, 2), Entry(0, 3, 3), Entry(2, 0, 0)>>}

(* A disk on bus 0, one device of three kinds somewhere, and an NVMe drive *)
(* of another vendor on segment 1.                                         *)
MCSpaces ==
    {<<0, 0, 0>> :> Device("ahci", "r1", "v1") @@ <<s, b, f>> :> d
        @@ <<1, b, 0>> :> Device("nvme", "r1", "v2") :
        s \in {0, 1}, b \in {1, 3}, f \in {0, 1},
        d \in {Device("nvme", "r1", "v1"), Device("nvme", "r2", "v1"), Device("ahci", "r1", "v1")}}

MCTargets == {Device("nvme", "r1", "v1"), Device("nvme", "r1", "v2")}
===============================================================================
