--------------------------------- MODULE Ps2 ---------------------------------
(***************************************************************************)
(* The keyboard: ps2_init, ps2_try_read_scan on any core, and              *)
(* ps2_read_line on one, which edits a line and echoes it on the screen.   *)
(* The controller is modelled from how the code uses it: one byte waits in *)
(* its output buffer, whoever put it there; the keyboard's next byte comes *)
(* when the buffer is empty, the answer to a command as soon as it can.    *)
(* What is written to the controller it takes: the waits for its input     *)
(* buffer (ps2.c:38, 47-53) end at once.                                   *)
(*                                                                         *)
(* A key is a character, "enter", "back", or "none" for what the table     *)
(* does not translate and for what has the high bit set: a release, or the *)
(* acknowledge 0xFA of a command.  The line begins at column 0 of a  *)
(* row that is long enough; a cell is a character.  The configuration byte *)
(* is no key.                                                              *)
(***************************************************************************)
EXTENDS Integers, Sequences, SequencesExt

CONSTANTS
    Typist,        \* the core that reads a line
    Others,        \* cores that poll, or initialise the controller
    Keys,          \* what may be typed; "enter" and "back" among them
    MaxKeys,       \* keys typed (a bound)
    max_len        \* of ps2_read_line

Cores == {Typist} \cup Others

VARIABLES
    ps2_lock,      \* the core that holds it, or "none"
    pc, got,       \* of each core: its place, the byte it has read
    out,           \* the output buffer: <<[src, byte]>>, or <<>>
    asked,         \* a command waits for its answer,
    enabled,       \* and 0xF4, enable scanning, for its acknowledge
    typed,         \* the number of keys pressed
    config,        \* configuration byte: [irq, bit4, from]; from is its rest
    buf,           \* buf[0..idx - 1]
    cells, x       \* the row of the screen, design->x

vars == <<ps2_lock, pc, got, out, asked, enabled, typed, config, buf, cells, x>>
screen == <<buf, cells, x>>

Blank == "blank"
Initial == [irq |-> FALSE, bit4 |-> FALSE, from |-> "controller"]

Init ==
    /\ ps2_lock = "none"
    /\ pc = [c \in Cores |-> "idle"] /\ got = [c \in Cores |-> "none"]
    /\ out = <<>> /\ asked = FALSE /\ enabled = FALSE /\ typed = 0
    /\ config = Initial
    /\ buf = <<>>
    /\ cells = [k \in 0..max_len |-> Blank] /\ x = 0

Goto(c, from, to) == pc[c] = from /\ pc' = [pc EXCEPT ![c] = to]

-----------------------------------------------------------------------------
(* The controller and the keyboard *)

Press(key) ==
    /\ out = <<>> /\ typed < MaxKeys
    /\ typed' = typed + 1
    /\ out' = <<[src |-> "keyboard", byte |-> key]>>
    /\ UNCHANGED <<ps2_lock, pc, got, asked, enabled, config, screen>>

Answer ==
    /\ asked /\ out = <<>>
    /\ asked' = FALSE
    /\ out' = <<[src |-> "controller", byte |-> config.from]>>
    /\ UNCHANGED <<ps2_lock, pc, got, enabled, typed, config, screen>>

\* Nobody waits for it: it is read as a scan code, or as the configuration.
Acknowledge ==
    /\ enabled /\ out = <<>>
    /\ enabled' = FALSE
    /\ out' = <<[src |-> "keyboard", byte |-> "none"]>>
    /\ UNCHANGED <<ps2_lock, pc, got, asked, typed, config, screen>>

-----------------------------------------------------------------------------
(* ps2_init *)

StartInit(c) ==
    /\ Goto(c, "idle", "init") /\ ps2_lock = "none" /\ ps2_lock' = c
    /\ asked' = TRUE
    /\ UNCHANGED <<got, out, enabled, typed, config, screen>>

\* inb(0x60) takes whatever waits.
ReadConfig(c) ==
    /\ Goto(c, "init", "write") /\ out # <<>>
    /\ got' = [got EXCEPT ![c] = out[1].byte] /\ out' = <<>>
    /\ UNCHANGED <<ps2_lock, asked, enabled, typed, config, screen>>

\* The rest of the byte that was read goes back with bits 0 and 4 set, and the
\* keyboard is told to scan.
WriteConfig(c) ==
    /\ Goto(c, "write", "idle")
    /\ config' = [irq |-> TRUE, bit4 |-> TRUE, from |-> got[c]]
    /\ got' = [got EXCEPT ![c] = "none"]
    /\ enabled' = TRUE
    /\ ps2_lock' = "none"
    /\ UNCHANGED <<out, asked, typed, screen>>

-----------------------------------------------------------------------------
(* ps2_try_read_scan, and ps2_read_scan within ps2_read_line *)

TryLock(c) ==
    /\ Goto(c, "idle", "try")
    /\ UNCHANGED <<ps2_lock, got, out, asked, enabled, typed, config, screen>>

\* -1 when the buffer is empty; the byte is the caller's.
Try(c) ==
    /\ Goto(c, "try", "idle") /\ ps2_lock = "none"
    /\ out' = <<>>
    /\ UNCHANGED <<ps2_lock, got, asked, enabled, typed, config, screen>>

\* The lock is kept until a byte comes.
ReadScan ==
    /\ Goto(Typist, "idle", "wait") /\ ps2_lock = "none" /\ ps2_lock' = Typist
    /\ UNCHANGED <<got, out, asked, enabled, typed, config, screen>>

GotScan ==
    /\ Goto(Typist, "wait", "key") /\ out # <<>>
    /\ got' = [got EXCEPT ![Typist] = out[1].byte] /\ out' = <<>>
    /\ ps2_lock' = "none"
    /\ UNCHANGED <<asked, enabled, typed, config, screen>>

-----------------------------------------------------------------------------
(* ps2_read_line, one key.  vmem_printc writes at x and moves x on.        *)

Edit(to) ==
    /\ Goto(Typist, "key", to)
    /\ got' = [got EXCEPT ![Typist] = "none"]
    /\ UNCHANGED <<ps2_lock, out, asked, enabled, typed, config>>

Ignore ==
    /\ \/ got[Typist] \in {"none", "controller"}
       \/ got[Typist] = "back" /\ buf = <<>>
       \/ got[Typist] \notin {"enter", "back"} /\ Len(buf) >= max_len - 1
    /\ Edit("idle")
    /\ UNCHANGED <<buf, cells, x>>

\* The caller reads the next line on the next row.
Enter ==
    /\ got[Typist] = "enter"
    /\ Edit("done")
    /\ UNCHANGED <<buf, cells, x>>

\* One column back, a blank, one column back again.
Backspace ==
    /\ got[Typist] = "back" /\ buf # <<>>
    /\ Edit("idle")
    /\ buf' = Front(buf)
    /\ cells' = [cells EXCEPT ![x - 1] = Blank]
    /\ x' = x - 1

Type ==
    /\ got[Typist] \notin {"none", "controller", "enter", "back"} /\ Len(buf) < max_len - 1
    /\ Edit("idle")
    /\ buf' = Append(buf, got[Typist])
    /\ cells' = [cells EXCEPT ![x] = got[Typist]]
    /\ x' = x + 1

-----------------------------------------------------------------------------
ReadLine == ReadScan \/ GotScan \/ Ignore \/ Enter \/ Backspace \/ Type

Next ==
    \/ \E key \in Keys : Press(key)
    \/ Answer \/ Acknowledge \/ ReadLine
    \/ \E c \in Others :
          StartInit(c) \/ ReadConfig(c) \/ WriteConfig(c) \/ TryLock(c) \/ Try(c)

\* Every core goes on with a call and the controller answers; nobody has to
\* type, or to ask for a key.
Fairness ==
    /\ WF_vars(Answer) /\ WF_vars(pc[Typist] # "idle" /\ ReadLine)
    /\ \A c \in Others : WF_vars(ReadConfig(c)) /\ WF_vars(WriteConfig(c)) /\ WF_vars(Try(c))

Spec == Init /\ [][Next]_vars /\ Fairness

-----------------------------------------------------------------------------
(* Properties *)

\* The row shows the line: its characters in their cells, blanks after them, the
\* cursor behind them, whatever was typed and taken back (ps2.c:98-117); and the
\* terminating 0 has its place in the buffer (ps2.c:95, 114).
EchoShowsLine ==
    /\ x = Len(buf) /\ Len(buf) < max_len
    /\ \A k \in 0..max_len : cells[k] = IF k < Len(buf) THEN buf[k + 1] ELSE Blank

\* ps2_init ends although keys are typed, and so does a poll, unless another
\* core waits for a key with the lock taken (ps2.c:59-66).
PollEnds ==
    \A c \in Others : (pc[c] \in {"try", "init", "write"}) ~> (pc[c] = "idle" \/ pc[Typist] = "wait")

===============================================================================
