--------------------------------- MODULE Tty ---------------------------------
(***************************************************************************)
(* What the console promises: typed characters can be edited until the     *)
(* line ends and are then read once, in order; written characters appear   *)
(* once, in order; nothing that was accepted is lost.                      *)
(***************************************************************************)
EXTENDS Naturals, Sequences, SequencesExt

CONSTANTS Procs, Keys, INPUT_BUF, TxSize

VARIABLES edit,     \* the line being typed
          avail,    \* finished lines, not yet read
          got,      \* what the last read of each process has so far
          pending,  \* written and not yet shown
          shown     \* the last character shown

vars == <<edit, avail, got, pending, shown>>

Init == /\ edit = <<>> /\ avail = <<>> /\ pending = <<>> /\ shown = "none"
        /\ got = [p \in Procs |-> <<>>]

\* A character is taken, and echoed, while there is room; a line is finished by
\* its end, by end-of-file or by the last free place.
Accept(c) ==
  LET line == Append(edit, c)
      full == Len(avail) + Len(line) = INPUT_BUF
  IN /\ Len(avail) + Len(edit) < INPUT_BUF /\ shown' = c
     /\ IF c \in {"nl", "eof"} \/ full THEN avail' = avail \o line /\ edit' = <<>>
        ELSE edit' = line /\ UNCHANGED avail

\* Only the unfinished line can be erased.
Erase == /\ edit # <<>> /\ shown' = "bs" /\ UNCHANGED avail
         /\ edit' \in {Front(edit), <<>>}

Key == /\ UNCHANGED <<got, pending>>
       /\ \/ Erase \/ \E c \in Keys : Accept(c)
          \/ shown' = "dump" /\ UNCHANGED <<edit, avail>>

\* A read takes characters up to the end of a line or to end-of-file, which it
\* takes only when it has nothing else to return.
Read(p) ==
  /\ UNCHANGED <<edit, pending, shown>>
  /\ \E old \in {got[p], <<>>}, k \in 0 .. Len(avail) :
       LET taken == SubSeq(avail, 1, k) IN
       /\ \A i \in 1 .. k : taken[i] # "eof" /\ (taken[i] = "nl" => i = k)
       /\ got' = [got EXCEPT ![p] = old \o taken]
       /\ avail' = SubSeq(avail, k + 1, Len(avail))

ReadEof(p) ==
  /\ avail # <<>> /\ Head(avail) = "eof"
  /\ avail' = Tail(avail) /\ got' = [got EXCEPT ![p] = <<>>]
  /\ UNCHANGED <<edit, pending, shown>>

\* A character that is written may be shown at once.
Write(c) ==
  LET queue == Append(pending, c) IN
  /\ UNCHANGED <<edit, avail, got>>
  /\ \/ Len(queue) <= TxSize /\ pending' = queue /\ UNCHANGED shown
     \/ pending' = Tail(queue) /\ shown' = Head(queue)

Show == /\ pending # <<>> /\ pending' = Tail(pending) /\ shown' = Head(pending)
        /\ UNCHANGED <<edit, avail, got>>

Next == Key \/ Show \/ (\E c \in Keys : Write(c)) \/ \E p \in Procs : Read(p) \/ ReadEof(p)

Spec == Init /\ [][Next]_vars
=============================================================================
