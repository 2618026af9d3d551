--------------------------------- MODULE Pipe ---------------------------------
(***************************************************************************)
(* kernel/pipe.c: one pipe, the processes that hold its read and its write *)
(* end, and the reference counts of its two files (kernel/file.c), which   *)
(* decide when an end is closed and the pipe is freed.                     *)
(*                                                                         *)
(* pi->lock is held from one step to the next; sleep releases it and a     *)
(* woken process takes it again.  kill sets p->killed only while no        *)
(* process holds the lock: NCPU is 1 and a holder is not preempted.        *)
(***************************************************************************)
EXTENDS Integers, Sequences, FiniteSets

CONSTANTS PIPESIZE,
          UintMod,          \* nread and nwrite wrap at this value (2^32)
          Bytes,            \* the contents of a byte
          Readers, Writers, \* the processes that hold an end
          Counts,           \* the arguments n of read and write
          None

ASSUME PipeAssumption ==
  /\ PIPESIZE \in Nat \ {0} /\ UintMod \in Nat
  /\ UintMod > PIPESIZE /\ UintMod % PIPESIZE = 0
  /\ Counts \subseteq Nat
  /\ Readers \cap Writers = {} /\ None \notin Readers \cup Writers

Procs == Readers \cup Writers

VARIABLES data, nread, nwrite, readopen, writeopen,  \* struct pipe
          lock,      \* the holder of pi->lock, or None
          freed,     \* kfree(pi) was called
          fd,        \* the processes whose descriptor is open
          killed,    \* p->killed
          pc, left   \* of each process: step, bytes still to move (n - i)

pipeVars == <<data, nread, nwrite, readopen, writeopen>>
callVars == <<pc, left>>
vars == <<pipeVars, lock, freed, fd, killed, callVars>>

PCs == {"idle", "write", "wsleep", "wwake", "read_wait", "rsleep", "rwake", "read",
        "pipeclose"}

\* pipealloc.
Init ==
  /\ \E ch \in Bytes : data = [k \in 0 .. PIPESIZE - 1 |-> ch]
  /\ nread = 0 /\ nwrite = 0
  /\ readopen = TRUE /\ writeopen = TRUE
  /\ lock = None /\ freed = FALSE
  /\ fd = Procs
  /\ killed = [p \in Procs |-> FALSE]
  /\ pc = [p \in Procs |-> "idle"]
  /\ left = [p \in Procs |-> 0]

Empty == nread = nwrite

\* Mutant: the pipe takes a byte too many.
FullLate == nwrite = (nread + PIPESIZE + 1) % UintMod

Full  == nwrite = (nread + PIPESIZE) % UintMod

\* x++ of an unsigned counter.
Inc(x) == (x + 1) % UintMod

\* wakeup of the sleepers at step from, while p goes on to label.
Wakeup(p, from, to, label) ==
  pc' = [q \in Procs |-> IF q = p THEN label ELSE IF pc[q] = from THEN to ELSE pc[q]]

WakeReaders(p, label) == Wakeup(p, "rsleep", "rwake", label)
WakeWriters(p, label) == Wakeup(p, "wsleep", "wwake", label)

Goto(p, label) == pc' = [pc EXCEPT ![p] = label]

Release(p) == lock' = None

\* The call of p returns.
Return(p) == Release(p) /\ left' = [left EXCEPT ![p] = 0]
-----------------------------------------------------------------------------
(* pipewrite *)

CallWrite(p, k) ==
  /\ p \in Writers \cap fd /\ pc[p] = "idle" /\ ~killed[p] /\ lock = None
  /\ lock' = p
  /\ left' = [left EXCEPT ![p] = k]
  /\ Goto(p, "write")
  /\ UNCHANGED <<pipeVars, freed, fd, killed>>

\* The loop's exits: all written, nobody to read or killed, or copyin failed.
WriteEnd(p) ==
  /\ pc[p] = "write"
  /\ \/ /\ left[p] > 0 /\ (~readopen \/ killed[p])
        /\ Goto(p, "idle")
     \/ /\ left[p] > 0 => readopen /\ ~killed[p] /\ ~Full
        /\ WakeReaders(p, "idle")
  /\ Return(p)
  /\ UNCHANGED <<pipeVars, freed, fd, killed>>

\* Mutant: a writer sleeps without waking the readers.
WriteFullQuiet(p) ==
  /\ pc[p] = "write"
  /\ left[p] > 0 /\ readopen /\ ~killed[p] /\ Full
  /\ Goto(p, "wsleep")
  /\ Release(p)
  /\ UNCHANGED <<pipeVars, freed, fd, killed, left>>

WriteFull(p) ==
  /\ pc[p] = "write"
  /\ left[p] > 0 /\ readopen /\ ~killed[p] /\ Full
  /\ WakeReaders(p, "wsleep")
  /\ Release(p)
  /\ UNCHANGED <<pipeVars, freed, fd, killed, left>>

WriteByte(p, ch) ==
  /\ pc[p] = "write"
  /\ left[p] > 0 /\ readopen /\ ~killed[p] /\ ~Full
  /\ data' = [data EXCEPT ![nwrite % PIPESIZE] = ch]
  /\ nwrite' = Inc(nwrite)
  /\ left' = [left EXCEPT ![p] = @ - 1]
  /\ UNCHANGED <<nread, readopen, writeopen, lock, freed, fd, killed, pc>>
-----------------------------------------------------------------------------
(* piperead *)

CallRead(p, k) ==
  /\ p \in Readers \cap fd /\ pc[p] = "idle" /\ ~killed[p] /\ lock = None
  /\ lock' = p
  /\ left' = [left EXCEPT ![p] = k]
  /\ Goto(p, "read_wait")
  /\ UNCHANGED <<pipeVars, freed, fd, killed>>

\* The loop that waits for a byte.
ReadWait(p) ==
  /\ pc[p] = "read_wait"
  /\ IF Empty /\ writeopen
       THEN IF killed[p] THEN Goto(p, "idle") /\ Return(p)
                         ELSE Goto(p, "rsleep") /\ Release(p) /\ UNCHANGED left
       ELSE Goto(p, "read") /\ UNCHANGED <<lock, left>>
  /\ UNCHANGED <<pipeVars, freed, fd, killed>>

\* A byte leaves the pipe; when copyout fails the loop ends with it.
ReadByte(p) ==
  /\ pc[p] = "read"
  /\ left[p] > 0 /\ ~Empty
  /\ nread' = Inc(nread)
  /\ \/ /\ left' = [left EXCEPT ![p] = @ - 1]
        /\ UNCHANGED <<pc, lock>>
     \/ /\ WakeWriters(p, "idle")
        /\ Return(p)
  /\ UNCHANGED <<data, nwrite, readopen, writeopen, freed, fd, killed>>

ReadEnd(p) ==
  /\ pc[p] = "read"
  /\ left[p] = 0 \/ Empty
  /\ WakeWriters(p, "idle")
  /\ Return(p)
  /\ UNCHANGED <<pipeVars, freed, fd, killed>>

\* The end of sleep(): the process takes pi->lock again.
Woken(p) ==
  /\ pc[p] \in {"wwake", "rwake"} /\ lock = None
  /\ lock' = p
  /\ Goto(p, IF pc[p] = "wwake" THEN "write" ELSE "read_wait")
  /\ UNCHANGED <<pipeVars, freed, fd, killed, left>>
-----------------------------------------------------------------------------
(* close and kill *)

\* Mutant: the first close of a shared descriptor closes the end.
FileCloseFirst(p) ==
  /\ pc[p] = "idle" /\ p \in fd
  /\ fd' = fd \ {p}
  /\ Goto(p, "pipeclose")
  /\ UNCHANGED <<pipeVars, lock, freed, killed, left>>

\* fileclose by a process that is in no call of its own: only the last
\* reference to the file closes its end of the pipe.
FileClose(p) ==
  LET end == IF p \in Readers THEN Readers ELSE Writers IN
  /\ pc[p] = "idle" /\ p \in fd
  /\ fd' = fd \ {p}
  /\ Goto(p, IF end \cap fd = {p} THEN "pipeclose" ELSE "idle")
  /\ UNCHANGED <<pipeVars, lock, freed, killed, left>>

\* Mutant: the sleepers at the other end are not woken.
PipeCloseQuiet(p) ==
  /\ pc[p] = "pipeclose" /\ lock = None
  /\ IF p \in Writers
       THEN writeopen' = FALSE /\ UNCHANGED readopen
       ELSE readopen' = FALSE /\ UNCHANGED writeopen
  /\ Goto(p, "idle")
  /\ freed' = (freed \/ ~(readopen' \/ writeopen'))
  /\ UNCHANGED <<data, nread, nwrite, lock, fd, killed, left>>

PipeClose(p) ==
  /\ pc[p] = "pipeclose" /\ lock = None
  /\ IF p \in Writers
       THEN writeopen' = FALSE /\ WakeReaders(p, "idle") /\ UNCHANGED readopen
       ELSE readopen' = FALSE /\ WakeWriters(p, "idle") /\ UNCHANGED writeopen
  /\ freed' = (freed \/ ~(readopen' \/ writeopen'))
  /\ UNCHANGED <<data, nread, nwrite, lock, fd, killed, left>>

\* kill (kernel/proc.c) marks p and wakes it.
Kill(p) ==
  /\ lock = None /\ ~killed[p] /\ p \in fd
  /\ killed' = [killed EXCEPT ![p] = TRUE]
  /\ Goto(p, CASE pc[p] = "rsleep" -> "rwake"
               [] pc[p] = "wsleep" -> "wwake"
               [] OTHER            -> pc[p])
  /\ UNCHANGED <<pipeVars, lock, freed, fd, left>>
-----------------------------------------------------------------------------
\* The steps of a process in a call.
Step(p) ==
  \/ WriteEnd(p) \/ WriteFull(p) \/ \E ch \in Bytes : WriteByte(p, ch)
  \/ ReadWait(p) \/ ReadByte(p) \/ ReadEnd(p)
  \/ Woken(p) \/ PipeClose(p)

Next ==
  \/ \E p \in Procs : Step(p) \/ FileClose(p) \/ Kill(p)
  \/ \E p \in Procs, k \in Counts : CallWrite(p, k) \/ CallRead(p, k)

Spec == Init /\ [][Next]_vars

\* Processes are scheduled; the lock is never held by one that is not running,
\* so a process that tries again and again gets it.
Fairness == \A p \in Procs : SF_vars(Step(p))

FairSpec == Spec /\ Fairness
-----------------------------------------------------------------------------
TypeOK ==
  /\ data \in [0 .. PIPESIZE - 1 -> Bytes]
  /\ nread \in 0 .. UintMod - 1 /\ nwrite \in 0 .. UintMod - 1
  /\ readopen \in BOOLEAN /\ writeopen \in BOOLEAN
  /\ lock \in Procs \cup {None}
  /\ freed \in BOOLEAN
  /\ fd \subseteq Procs
  /\ killed \in [Procs -> BOOLEAN]
  /\ pc \in [Procs -> PCs]
  /\ left \in [Procs -> Nat]

\* Nobody sleeps for something that has happened: a sleeping reader has
\* nothing to read and a writer to wait for, a sleeping writer has no room and
\* a reader to wait for.
NoLostWakeup ==
  lock = None =>
    \A p \in Procs : /\ pc[p] = "rsleep" => Empty /\ writeopen
                     /\ pc[p] = "wsleep" => Full /\ readopen

\* The pipe is not freed under a process that reads, writes or sleeps on it,
\* or that still holds a descriptor.
NotFreedInUse == freed => fd = {} /\ \A p \in Procs : pc[p] = "idle"

\* Once the last writer is gone every read returns, and once the last reader
\* is gone every write does.
CallsReturn ==
  \A p \in Procs :
    /\ p \in Readers /\ pc[p] # "idle" /\ ~writeopen ~> pc[p] = "idle"
    /\ p \in Writers /\ pc[p] # "idle" /\ ~readopen ~> pc[p] = "idle"

\* What is in the pipe, oldest first.
Contents == [k \in 1 .. (nwrite - nread) % UintMod |-> data[(nread + k - 1) % PIPESIZE]]

Fifo == INSTANCE BoundedFifo WITH Size <- PIPESIZE, q <- Contents

\* The ring buffer with its two wrapping counters implements a bounded queue.
ImplementsFifo == Fifo!Spec
=============================================================================
