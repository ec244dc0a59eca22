------------------------------- MODULE Console -------------------------------
(***************************************************************************)
(* The serial line and the text screen, and the exception handler that     *)
(* prints.  Every function here is straight-line code between the locks it *)
(* takes, so it is the sequence of its steps: a lock taken or released, a  *)
(* character on the wire, a character in a cell, the cursor programmed.  A *)
(* call is a function applied to a text; its locks nest as the calls do.   *)
(*                                                                         *)
(* Text is a sequence of tokens: "c" (a plain character, %c, %%, a digit), *)
(* "nl" (a newline), "s" (%s with two characters).  Interrupt handlers of  *)
(* this code print nothing, so the saved flags do not matter; an exception *)
(* is not masked by them.  All cores share one struct VMemDesign.          *)
(***************************************************************************)
EXTENDS Integers, Sequences, SequencesExt

CONSTANTS
    Cores,
    Texts,       \* [fn, text]: the calls a core may make
    MaxTokens,   \* the length of the longest text
    MaxCalls,    \* calls a core makes
    Faulty       \* cores that may meet an exception

Locks == {"serialf", "serialp", "serialc", "vmemf", "vmem", "vmemc", "vmem_cur"}

Holding(lock, body) == <<<<"lock", lock>>>> \o body \o <<<<"unlock", lock>>>>
ForEach(text, Do(_)) == FlattenSeq([k \in DOMAIN text |-> Do(k)])
Times(n, body) == FlattenSeq([k \in 1..n |-> body])

-----------------------------------------------------------------------------
(* serial.c.  What is put on the wire is marked by the format and by the   *)
(* string (its token, 0 for none) that it is a part of.                    *)

serial_printc(format, string) ==
    Holding("serialc", <<<<"out", format, string>>>>)

\* Mutant of serial_print: it takes the lock of serial_printf.
SerialPrintF(format, string) ==
    Holding("serialf", Times(2, serial_printc(format, string)))

serial_print(format, string) ==
    Holding("serialp", Times(2, serial_printc(format, string)))

\* Mutant of serial_printf: no lock of its own.
SerialPrintfBare(text) ==
    LET Token(k) ==
          IF text[k] = "s" THEN serial_print(TRUE, k) ELSE serial_printc(TRUE, 0)
    IN  ForEach(text, Token)

serial_printf(text) ==
    LET Token(k) ==
          IF text[k] = "s" THEN serial_print(TRUE, k) ELSE serial_printc(TRUE, 0)
    IN  Holding("serialf", ForEach(text, Token))

-----------------------------------------------------------------------------
(* vmem.c, with serial_out = 1 *)

\* A cell, or a new row, under vmemc_lock.  Without a lock the coordinate is
\* read that was not set; then the cursor is programmed with both.
vmem_printc(newline) ==
    Holding("vmemc", << <<IF newline THEN "newline" ELSE "cell">> >>)
    \o << <<IF newline THEN "read_x" ELSE "read_y">> >>
    \o Holding("vmem_cur", << <<"cursor">> >>)
    \o serial_printc(FALSE, 0)

vmem_print == Holding("vmem", Times(2, vmem_printc(FALSE)))

vmem_tokens(text) ==
    LET Token(k) ==
          IF text[k] = "s" THEN vmem_print ELSE vmem_printc(text[k] = "nl")
    IN  ForEach(text, Token)

\* Mutant of vmem_printf: no lock of its own.
VmemPrintfBare(text) == vmem_tokens(text)

vmem_printf(text) == Holding("vmemf", vmem_tokens(text))

-----------------------------------------------------------------------------
(* fexceptions.c: a banner by serial_print, the registers by serial_printf *)

aos_system_exception == serial_print(FALSE, 1) \o serial_printf(<<"c", "s">>)

Steps(call) ==
    CASE call.fn = "serial_print"  -> serial_print(FALSE, 1)
      [] call.fn = "serial_printf" -> serial_printf(call.text)
      [] call.fn = "vmem_printf"   -> vmem_printf(call.text)
      [] call.fn = "vmem_print"    -> vmem_print
      [] call.fn = "vmem_printc"   -> vmem_printc(call.text = <<"nl">>)

VARIABLES
    owner,      \* of each lock, or "none"; "lost" when a handler runs on top
    code, pc,   \* of each core: the steps of its call, the next one; 0: none
    left,       \* calls it may still make
    faulted,    \* cores that run the handler, or have halted in it
    x, y,       \* design->x, design->y
    at,         \* of each core: what it will program as the cursor, or <<>>
    cursor,     \* as last programmed
    crowded     \* two cores were at the cursor that no lock keeps apart

vars == <<owner, code, pc, left, faulted, x, y, at, cursor, crowded>>

Init ==
    /\ owner = [l \in Locks |-> "none"]
    /\ code = [c \in Cores |-> <<>>] /\ pc = [c \in Cores |-> 0]
    /\ left = [c \in Cores |-> MaxCalls]
    /\ faulted = {}
    /\ x = 0 /\ y = 0 /\ at = [c \in Cores |-> <<>>] /\ cursor = <<0, 0>>
    /\ crowded = FALSE

Step(c) == code[c][pc[c]]
At(c, op) == pc[c] # 0 /\ Step(c)[1] = op
Advance(c) == pc' = [pc EXCEPT ![c] = IF @ = Len(code[c]) THEN 0 ELSE @ + 1]

Call(c) ==
    /\ pc[c] = 0 /\ left[c] > 0 /\ c \notin faulted
    /\ \E call \in Texts : code' = [code EXCEPT ![c] = Steps(call)]
    /\ pc' = [pc EXCEPT ![c] = 1]
    /\ left' = [left EXCEPT ![c] = @ - 1]
    /\ UNCHANGED <<owner, faulted, x, y, at, cursor, crowded>>

\* spin_lock_irqsave: the spinning is the waiting for this step.
Lock(c) ==
    /\ At(c, "lock")
    /\ LET l == Step(c)[2] IN owner[l] = "none" /\ owner' = [owner EXCEPT ![l] = c]
    /\ Advance(c)
    /\ UNCHANGED <<code, left, faulted, x, y, at, cursor, crowded>>

Unlock(c) ==
    /\ At(c, "unlock")
    /\ owner' = [owner EXCEPT ![Step(c)[2]] = "none"]
    /\ Advance(c)
    /\ UNCHANGED <<code, left, faulted, x, y, at, cursor, crowded>>

Out(c) ==
    /\ At(c, "out")
    /\ Advance(c)
    /\ UNCHANGED <<owner, code, left, faulted, x, y, at, cursor, crowded>>

\* c and d are in calls of vmem_printf, or of vmem_print, whose lock is to
\* keep them apart.
KeptApart(c, d) ==
    \E fn \in {"vmem_printf", "vmem_print"} : \A e \in {c, d} :
        \E call \in Texts : call.fn = fn /\ code[e] = Steps(call)

\* c moves the place of the next character while another core has still to
\* program the cursor for the last one.
Crowd(c) ==
    crowded' = (crowded \/ \E d \in Cores \ {c} : at[d] # <<>> /\ ~KeptApart(c, d))

Cell(c) ==
    /\ At(c, "cell")
    /\ x' = x + 1 /\ at' = [at EXCEPT ![c] = <<x + 1, 0>>]
    /\ Crowd(c) /\ Advance(c)
    /\ UNCHANGED <<owner, code, left, faulted, y, cursor>>

Newline(c) ==
    /\ At(c, "newline")
    /\ x' = 0 /\ y' = y + 1 /\ at' = [at EXCEPT ![c] = <<0, y + 1>>]
    /\ Crowd(c) /\ Advance(c)
    /\ UNCHANGED <<owner, code, left, faulted, cursor>>

\* The arguments of vmem_set_cursor: one coordinate as it was under the lock,
\* the other from the design, here.
Arguments(c) ==
    /\ \/ At(c, "read_x") /\ at' = [at EXCEPT ![c] = <<x, @[2]>>]
       \/ At(c, "read_y") /\ at' = [at EXCEPT ![c] = <<@[1], y>>]
    /\ Advance(c)
    /\ UNCHANGED <<owner, code, left, faulted, x, y, cursor, crowded>>

SetCursor(c) ==
    /\ At(c, "cursor")
    /\ cursor' = at[c] /\ at' = [at EXCEPT ![c] = <<>>]
    /\ Advance(c)
    /\ UNCHANGED <<owner, code, left, faulted, x, y, crowded>>

\* An exception inside a call; its locks are never released.
Fault(c) ==
    /\ c \in Faulty \ faulted /\ pc[c] # 0
    /\ faulted' = faulted \cup {c}
    /\ code' = [code EXCEPT ![c] = aos_system_exception]
    /\ pc' = [pc EXCEPT ![c] = 1]
    /\ owner' = [l \in Locks |-> IF owner[l] = c THEN "lost" ELSE owner[l]]
    /\ UNCHANGED <<left, x, y, at, cursor, crowded>>

Run(c) ==
    \/ Lock(c) \/ Unlock(c) \/ Out(c)
    \/ Cell(c) \/ Newline(c) \/ Arguments(c) \/ SetCursor(c)

Next == \E c \in Cores : Call(c) \/ Run(c) \/ Fault(c)

\* A core goes on; the locks are not fair.
Fairness == \A c \in Cores : WF_vars(Run(c))

Spec == Init /\ [][Next]_vars /\ Fairness

-----------------------------------------------------------------------------
(* Properties *)

\* A character of c's call that satisfies P is out and another is not.
Amid(c, P(_)) ==
    LET Chars(first, last) ==
          \E k \in first..last : code[c][k][1] = "out" /\ P(code[c][k])
    IN  /\ pc[c] > 0
        /\ Chars(1, pc[c] - 1) /\ Chars(pc[c], Len(code[c]))

\* A character of c goes on the wire amid nobody else's format or string.
Unmixed ==
    \A c, d \in Cores :
        c # d /\ pc'[c] # pc[c] /\ code'[c] = code[c] /\ At(c, "out")
        => /\ Step(c)[2] => ~Amid(d, LAMBDA s : s[2])
           /\ Step(c)[3] # 0 => \A n \in 1..MaxTokens : ~Amid(d, LAMBDA s : s[3] = n)

\* The characters of two serial_printf calls are not mixed on the wire, nor are
\* those of two strings (serial.c:47, 89), whichever core prints and although
\* strings and plain characters of a format take different locks.
Unbroken == [][Unmixed]_vars

Lost == \E l \in Locks : owner[l] = "lost"

\* The nested locks (serial.c:39, 47, 89; vmem.c:53, 75, 116) let every call
\* end, and every exception is reported to its end, unless an exception came
\* inside a locked part (fexceptions.c:40 takes the locks like any caller).
CallsEnd == \A c \in Cores : (pc[c] # 0) ~> (pc[c] = 0 \/ Lost)

\* When nobody prints, the cursor is where the next character goes, although
\* vmem_printc reads its arguments and programs it after it has released the
\* cell's lock (vmem.c:61, 70): the locks of vmem_printf and of vmem_print keep
\* their callers apart.  Nothing keeps a direct vmem_printc, or a vmem_print,
\* from another core's vmem_printf; where they meet (crowded) the cursor may
\* stay wrong.
CursorAtRest ==
    (\A c \in Cores : pc[c] = 0) /\ faulted = {} /\ ~crowded => cursor = <<x, y>>
===============================================================================
