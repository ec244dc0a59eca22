--------------------------------- MODULE Ata ---------------------------------
(***************************************************************************)
(* ata_read_sectors and ata_write_sectors on one bus with its two drives.  *)
(* The drives are modelled from what the code relies on: a command makes   *)
(* the selected drive busy, a busy drive answers with data request, with   *)
(* ERR or with a device fault (neither ERR nor DRQ), a command written to  *)
(* a busy drive is ignored, what is written stays in a cache until a flush *)
(* is done.  A wait that times out is one that returns on a busy drive.    *)
(***************************************************************************)
EXTENDS Integers

CONSTANTS Callers, Sectors, MaxCount, MaxCalls

Drives == {0, 1}
Requests == [op : {"read", "write"}, drive : Drives, lba : Sectors, count : 1..MaxCount]
Fits(r) == \A k \in 0..(r.count - 1) : r.lba + k \in Sectors

VARIABLES
    ata_lock,       \* BOOLEAN
    pc, req, i,     \* of each caller: its place, its arguments, sectors done
    buffer,         \* of each caller: what it has read; forgotten at its return
    calls,          \* calls made by each caller
    late,           \* history variable: a wait has timed out
    selected,       \* bit 4 of the drive register
    st,             \* of each drive: "ready", "busy", "drq", "err", "fault"
    cmd,            \* of each drive: [op, lba, count, k], what it works on
    cache, disk     \* of each drive: its sectors with and without its cache

vars == <<ata_lock, pc, req, i, buffer, calls, late, selected, st, cmd, cache, disk>>
local == <<req, i, buffer, calls>>
drive == <<selected, st, cmd, cache, disk>>

NoRequest == [op |-> "read", drive |-> 0, lba |-> 0, count |-> 1]
Empty == [k \in 0..(MaxCount - 1) |-> "none"]
NoCmd == [op |-> "none", lba |-> 0, count |-> 0, k |-> 0]

Init ==
    /\ ata_lock = FALSE
    /\ pc = [c \in Callers |-> "idle"]
    /\ req = [c \in Callers |-> NoRequest]
    /\ i = [c \in Callers |-> 0]
    /\ buffer = [c \in Callers |-> Empty]
    /\ calls = [c \in Callers |-> 0]
    /\ late = FALSE
    /\ selected = 0
    /\ st = [d \in Drives |-> "ready"] /\ cmd = [d \in Drives |-> NoCmd]
    /\ cache = [d \in Drives |-> [s \in Sectors |-> "old"]] /\ disk = cache

Goto(c, from, to) == pc[c] = from /\ pc' = [pc EXCEPT ![c] = to]

-----------------------------------------------------------------------------
(* The drives *)

Become(d, s) == st' = [st EXCEPT ![d] = s]

Serve(d) ==
    /\ st[d] = "busy"
    /\ LET more == cmd[d].k < cmd[d].count
       IN  \/ /\ cmd[d].op # "flush" /\ Become(d, IF more THEN "drq" ELSE "ready")
              /\ UNCHANGED disk
           \/ /\ cmd[d].op = "flush" /\ Become(d, "ready")
              /\ disk' = [disk EXCEPT ![d] = cache[d]]
    /\ UNCHANGED <<ata_lock, pc, local, late, selected, cmd, cache>>

\* The sector that was just taken in is lost.
Fail(d) ==
    /\ st[d] = "busy"
    /\ \/ Become(d, "err") \/ Become(d, "fault")
    /\ cache' = IF cmd[d].op = "write" /\ cmd[d].k > 0
                THEN [cache EXCEPT ![d][cmd[d].lba + cmd[d].k - 1] = "old"]
                ELSE cache
    /\ UNCHANGED <<ata_lock, pc, local, late, selected, cmd, disk>>

\* The command register of the selected drive.
Command(d, op, lba, count) ==
    IF st[d] = "busy" THEN UNCHANGED <<st, cmd>>
    ELSE /\ Become(d, "busy")
         /\ cmd' = [cmd EXCEPT ![d] = [op |-> op, lba |-> lba, count |-> count, k |-> 0]]

-----------------------------------------------------------------------------
(* The driver *)

Call(c) ==
    /\ Goto(c, "idle", "lock") /\ calls[c] < MaxCalls
    /\ \E r \in Requests : Fits(r) /\ req' = [req EXCEPT ![c] = r]
    /\ calls' = [calls EXCEPT ![c] = @ + 1]
    /\ UNCHANGED <<ata_lock, i, buffer, late, drive>>

Lock(c) ==
    /\ Goto(c, "lock", "ready")
    /\ ~ata_lock /\ ata_lock' = TRUE
    /\ UNCHANGED <<local, late, drive>>

\* _ata_wait_ready, at its three places.  The status is that of the drive that
\* is selected when it is read.
Wait(c) ==
    /\ \/ Goto(c, "ready", "command") \/ Goto(c, "each", "status") \/ Goto(c, "flushed", "ok")
    /\ late' = (late \/ st[selected] = "busy")
    /\ UNCHANGED <<ata_lock, local, drive>>

\* Mutant of Issue: the drive is not selected.
IssueUnselected(c) ==
    /\ Goto(c, "command", "each")
    /\ Command(selected, req[c].op, req[c].lba, req[c].count)
    /\ UNCHANGED <<ata_lock, local, late, selected, cache, disk>>

Issue(c) ==
    /\ Goto(c, "command", "each")
    /\ selected' = req[c].drive
    /\ Command(req[c].drive, req[c].op, req[c].lba, req[c].count)
    /\ UNCHANGED <<ata_lock, local, late, cache, disk>>

Forget(c) ==
    /\ req' = [req EXCEPT ![c] = NoRequest]
    /\ i' = [i EXCEPT ![c] = 0]
    /\ buffer' = [buffer EXCEPT ![c] = Empty]
    /\ UNCHANGED <<calls, late, drive>>

\* It returns -1.
Error(c) ==
    /\ Goto(c, "status", "idle")
    /\ st[selected] = "err"
    /\ ata_lock' = FALSE /\ Forget(c)

NoError(c) ==
    /\ Goto(c, "status", "drq")
    /\ st[selected] # "err"
    /\ UNCHANGED <<ata_lock, local, late, drive>>

\* The poll of DRQ, which has no time-out, and insw or outsw of one sector.
Transfer(c) ==
    LET d == selected  r == req[c]  next == i[c] + 1
        at == cmd[d].lba + cmd[d].k
    IN  /\ pc[c] = "drq" /\ st[d] = "drq"
        /\ i' = [i EXCEPT ![c] = next]
        /\ pc' = [pc EXCEPT ![c] = IF next < r.count THEN "each"
                                   ELSE IF r.op = "read" THEN "ok" ELSE "flush"]
        /\ IF r.op = "read"
           THEN buffer' = [buffer EXCEPT ![c][i[c]] = cache[d][at]] /\ UNCHANGED cache
           ELSE cache' = [cache EXCEPT ![d][at] = c] /\ UNCHANGED buffer
        /\ cmd' = [cmd EXCEPT ![d].k = @ + 1]
        /\ Become(d, "busy")
        /\ UNCHANGED <<ata_lock, req, calls, late, selected, disk>>

Flush(c) ==
    /\ Goto(c, "flush", "flushed")
    /\ Command(selected, "flush", 0, 0)
    /\ UNCHANGED <<ata_lock, local, late, selected, cache, disk>>

\* It returns 0.
Return(c) ==
    /\ Goto(c, "ok", "idle")
    /\ ata_lock' = FALSE /\ Forget(c)

-----------------------------------------------------------------------------
Run(c) ==
    \/ Lock(c) \/ Wait(c) \/ Issue(c) \/ Error(c) \/ NoError(c) \/ Transfer(c)
    \/ Flush(c) \/ Return(c)

Next ==
    \/ \E c \in Callers : Call(c) \/ Run(c)
    \/ \E d \in Drives : Serve(d) \/ Fail(d)

\* A processor goes on; a drive that is busy answers.
Fairness ==
    /\ \A c \in Callers : WF_vars(Run(c))
    /\ \A d \in Drives : WF_vars(Serve(d))

Spec == Init /\ [][Next]_vars /\ Fairness

-----------------------------------------------------------------------------
(* Properties *)

Asked(c) == 0..(req[c].count - 1)

\* A read that is about to return 0 has filled its buffer with the sectors of
\* its drive (ata.c:78-114); a write that returns 0 lost none of its sectors but
\* the last, whose status nobody reads (ata.c:147-164): after whatever time-outs,
\* errors and calls of the other processor.
TransfersTrue ==
    \A c \in Callers : pc[c] = "ok" =>
        LET r == req[c] IN
        /\ r.op = "read" =>
              \A k \in Asked(c) : buffer[c][k] = cache[r.drive][r.lba + k]
        /\ r.op = "write" =>
              \A k \in Asked(c) \ {r.count - 1} : cache[r.drive][r.lba + k] = c

\* Every call returns unless a drive has a device fault or a wait timed out: the
\* poll of DRQ (ata.c:110, 156) then spins with the lock taken.
CallsEnd ==
    \A c \in Callers :
        (pc[c] # "idle") ~> (pc[c] = "idle" \/ late \/ \E d \in Drives : st[d] = "fault")

===============================================================================
