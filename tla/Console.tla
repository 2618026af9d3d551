------------------------------- MODULE Console -------------------------------
(***************************************************************************)
(* kernel/console.c and kernel/uart.c: the input ring of the console with  *)
(* its editing, the output ring of the UART, and the interrupt handler     *)
(* that serves both.                                                       *)
(*                                                                         *)
(* There is one CPU, and a holder of a spinlock has interrupts off: what   *)
(* consoleread does under its lock is one step, and while the CPU is in    *)
(* the handler or in uartstart no process runs.  The handler spins in      *)
(* uartputc_sync until the device is idle: the step waits for it.  The     *)
(* echo of an erased character, or line, is one character.  Indices wrap   *)
(* at IndexMod (2^32 for cons, 2^64 for the UART).                         *)
(*                                                                         *)
(* The devices are external.  The UART holds one character to send and     *)
(* RxFifo received ones.  Its line is edge triggered (apic.c:16): each     *)
(* received character, and each time it becomes ready for another one,     *)
(* latches a bit of the EXTIOI, which devintr clears when it is done.      *)
(***************************************************************************)
EXTENDS Naturals, Sequences, SequencesExt

CONSTANTS Procs,
          INPUT_BUF, UART_TX_BUF_SIZE, IndexMod,
          Start,      \* the indices after what was typed, read and shown before
          RxFifo,     \* characters the UART holds
          Scripts     \* what the user may type, one sequence of keys

ASSUME ConsoleAssumption ==
  /\ {INPUT_BUF, UART_TX_BUF_SIZE, RxFifo} \subseteq Nat \ {0}
  /\ IndexMod % INPUT_BUF = 0 /\ IndexMod % UART_TX_BUF_SIZE = 0
  /\ IndexMod > INPUT_BUF /\ IndexMod > UART_TX_BUF_SIZE
  /\ Start \in 0 .. IndexMod - 1

VARIABLES typed,    \* what the user has typed
          dev,      \* the UART: [rx, thr], the bit irq, and shown, the last character sent
          handler,  \* where the CPU is: "getc", "start" and "complete" in the handler,
                    \* "putc" in the uartstart of uartputc, "none"
          cons,     \* [buf, r, w, e]
          tx,       \* [buf, r, w]
          io        \* of each process its call: [st, n, target, valid, got]

consVars == <<typed, dev, handler, cons, tx, io>>

Idle == [st |-> "idle", n |-> 0, target |-> 0, valid |-> 0, got |-> <<>>]

Plus(i, k) == (i + k) % IndexMod
Minus(i, k) == (i + IndexMod - k) % IndexMod

ConsoleInit ==
  /\ typed = <<>>
  /\ dev = [rx |-> <<>>, thr |-> "idle", irq |-> FALSE, shown |-> "none"]
  /\ handler = "none"
  /\ cons = [buf |-> [i \in 0 .. INPUT_BUF - 1 |-> "none"], r |-> Start, w |-> Start, e |-> Start]
  /\ tx = [buf |-> [i \in 0 .. UART_TX_BUF_SIZE - 1 |-> "none"], r |-> Start, w |-> Start]
  /\ io = [p \in Procs |-> Idle]
-----------------------------------------------------------------------------
(* The device. *)

Type == /\ Len(dev.rx) < RxFifo
        /\ \E s \in {s \in Scripts : IsStrictPrefix(typed, s)} :
             LET key == s[Len(typed) + 1] IN
             dev' = [dev EXCEPT !.rx = Append(@, key), !.irq = TRUE] /\ typed' = Append(typed, key)
        /\ UNCHANGED <<handler, cons, tx, io>>

Transmitted == /\ dev.thr # "idle" /\ dev' = [dev EXCEPT !.thr = "idle", !.irq = TRUE]
               /\ UNCHANGED <<typed, handler, cons, tx, io>>

\* WriteReg(THR, c).
Send(d, c) == [d EXCEPT !.thr = c, !.shown = c]

\* wakeup of everyone who is asleep in that state.
Wakeup(calls, asleep, awake) ==
  [p \in Procs |-> IF calls[p].st = asleep THEN [calls[p] EXCEPT !.st = awake] ELSE calls[p]]
-----------------------------------------------------------------------------
(* Output. *)

\* One turn of the loop of uartstart: a character goes out if there is one and
\* the device is idle, and a process that waits for room is woken; else the CPU
\* goes back to the process, or to devintr.
uartstart ==
  /\ handler \in {"putc", "start"} /\ UNCHANGED <<typed, cons>>
  /\ \/ /\ tx.w # tx.r /\ dev.thr = "idle"
        /\ dev' = Send(dev, tx.buf[tx.r % UART_TX_BUF_SIZE])
        /\ tx' = [tx EXCEPT !.r = Plus(@, 1)] /\ io' = Wakeup(io, "wsleep", "idle")
        /\ UNCHANGED handler
     \/ /\ tx.w = tx.r \/ dev.thr # "idle"
        /\ handler' = IF handler = "putc" THEN "none" ELSE "complete"
        /\ UNCHANGED <<dev, tx, io>>

TxFull == tx.w = Plus(tx.r, UART_TX_BUF_SIZE)

\* A character of p is put into the ring, or p sleeps and has to try again.
uartputc(p, c) ==
  /\ io[p].st = "idle" /\ ~TxFull
  /\ tx' = [tx EXCEPT !.buf[tx.w % UART_TX_BUF_SIZE] = c, !.w = Plus(@, 1)]
  /\ handler' = "putc" /\ UNCHANGED <<typed, dev, cons, io>>

uartputcSleep(p) ==
  /\ io[p].st = "idle" /\ TxFull
  /\ io' = [io EXCEPT ![p].st = "wsleep"] /\ UNCHANGED <<typed, dev, handler, cons, tx>>
-----------------------------------------------------------------------------
(* Input. *)

\* Mutant: end-of-file is always used up.
RECURSIVE ReadLoopEof(_, _)
ReadLoopEof(c, l) ==
  IF l.n = 0 THEN <<c, [l EXCEPT !.st = "done"]>>
  ELSE IF c.r = c.w THEN <<c, [l EXCEPT !.st = "rsleep"]>>
  ELSE LET ch == c.buf[c.r % INPUT_BUF]
           d == [c EXCEPT !.r = Plus(@, 1)]
           m == [l EXCEPT !.got = Append(@, ch), !.n = @ - 1]
       IN IF ch = "eof" \/ Len(l.got) = l.valid THEN <<d, [l EXCEPT !.st = "done"]>>
          ELSE IF ch = "nl" THEN <<d, [m EXCEPT !.st = "done"]>>
          ELSE ReadLoopEof(d, m)

\* The loop of consoleread, from ring c and call l: the ring and the call when
\* it sleeps or is done.  The copyout of a character fails after the first
\* l.valid ones.
RECURSIVE ReadLoop(_, _)
ReadLoop(c, l) ==
  IF l.n = 0 THEN <<c, [l EXCEPT !.st = "done"]>>
  ELSE IF c.r = c.w THEN <<c, [l EXCEPT !.st = "rsleep"]>>
  ELSE LET ch == c.buf[c.r % INPUT_BUF]
           d == [c EXCEPT !.r = Plus(@, 1)]
           m == [l EXCEPT !.got = Append(@, ch), !.n = @ - 1]
       IN IF ch = "eof" THEN <<IF l.n < l.target THEN c ELSE d, [l EXCEPT !.st = "done"]>>
          ELSE IF Len(l.got) = l.valid THEN <<d, [l EXCEPT !.st = "done"]>>
          ELSE IF ch = "nl" THEN <<d, [m EXCEPT !.st = "done"]>>
          ELSE ReadLoop(d, m)

\* p reads up to n characters into a buffer of which valid ones are mapped, or
\* goes on after it was woken.
consoleread(p, n, valid) ==
  /\ io[p].st \in {"idle", "read"}
  /\ LET r == ReadLoop(cons, IF io[p].st = "read" THEN io[p]
                             ELSE [st |-> "read", n |-> n, target |-> n, valid |-> valid,
                              got |-> <<>>])
     IN cons' = r[1] /\ io' = [io EXCEPT ![p] = r[2]]
  /\ UNCHANGED <<typed, dev, handler, tx>>

\* The ring after ^U.
RECURSIVE KillLine(_)
KillLine(c) ==
  IF c.e # c.w /\ c.buf[Minus(c.e, 1) % INPUT_BUF] # "nl"
  THEN KillLine([c EXCEPT !.e = Minus(@, 1)]) ELSE c

Room(c) == Minus(c.e, c.r) < INPUT_BUF

\* consoleintr of a key: the ring, what is echoed (or "none") and whether the
\* readers are woken.
consoleintr(c, key) ==
  LET ch == IF key = "cr" THEN "nl" ELSE key
      put == [c EXCEPT !.buf[c.e % INPUT_BUF] = ch, !.e = Plus(@, 1)]
      whole == ch \in {"nl", "eof"} \/ put.e = Plus(c.r, INPUT_BUF)
      Result(ring, echo, wake) == [ring |-> ring, echo |-> echo, wake |-> wake]
  IN CASE key = "dump" -> Result(c, "dump", FALSE)
       [] key = "kill" -> Result(KillLine(c), IF KillLine(c) = c THEN "none" ELSE "bs", FALSE)
       [] key = "bs"   -> IF c.e = c.w THEN Result(c, "none", FALSE)
                          ELSE Result([c EXCEPT !.e = Minus(@, 1)], "bs", FALSE)
       [] OTHER -> IF key = "nul" \/ ~Room(c) THEN Result(c, "none", FALSE)
                   ELSE Result(IF whole THEN [put EXCEPT !.w = put.e] ELSE put, ch, whole)

\* devintr finds the bit of the UART (extioi_claim) and leaves it set.
devintr == /\ handler = "none" /\ dev.irq /\ handler' = "getc"
           /\ UNCHANGED <<typed, dev, cons, tx, io>>

\* The loop of uartintr: one character.
uartgetc ==
  /\ handler = "getc" /\ dev.rx # <<>>
  /\ LET res == consoleintr(cons, Head(dev.rx))
         d == [dev EXCEPT !.rx = Tail(@)]
     IN /\ res.echo # "none" => dev.thr = "idle"
        /\ dev' = IF res.echo = "none" THEN d ELSE Send(d, res.echo)
        /\ cons' = res.ring
        /\ io' = IF res.wake THEN Wakeup(io, "rsleep", "read") ELSE io
  /\ UNCHANGED <<typed, handler, tx>>

uartintr == /\ handler = "getc" /\ dev.rx = <<>> /\ handler' = "start"
            /\ UNCHANGED <<typed, dev, cons, tx, io>>

\* The end of devintr: the bit is cleared, also if it was set again meanwhile.
extioi_complete ==
  /\ handler = "complete" /\ handler' = "none" /\ dev' = [dev EXCEPT !.irq = FALSE]
  /\ UNCHANGED <<typed, cons, tx, io>>
-----------------------------------------------------------------------------
Ring(buf, size, from, to) == [i \in 1 .. Minus(to, from) |-> buf[Plus(from, i - 1) % size]]

Line == INSTANCE Tty WITH
  Keys    <- UNION {{s[i] : i \in DOMAIN s} : s \in Scripts} \cup {"nl", "$", "!", " "},
  TxSize  <- UART_TX_BUF_SIZE,
  edit    <- Ring(cons.buf, INPUT_BUF, cons.w, cons.e),
  avail   <- Ring(cons.buf, INPUT_BUF, cons.r, cons.w),
  got     <- [p \in Procs |-> io[p].got],
  pending <- Ring(tx.buf, UART_TX_BUF_SIZE, tx.r, tx.w),
  shown   <- dev.shown

\* The two rings implement the terminal: with indices that wrap, editing, a
\* full ring and a ^D that is put back, every accepted character is read once
\* and in order, only the unfinished line can be erased, and every written
\* character is sent once, whatever the echo of the handler puts in between
\* (console.c:106, 147, 160, 169; uart.c:97, 146).
ImplementsTty == Line!Spec
=============================================================================
