---------------------------------- MODULE Log ----------------------------------
(***************************************************************************)
(* kernel/log.c: the write-ahead log, with crashes and recovery, on the    *)
(* buffer cache (kernel/bio.c) and a disk that writes a block atomically   *)
(* (kernel/ramdisk.c).                                                     *)
(*                                                                         *)
(* Every bwrite is a step of its own, so a crash may come between any two. *)
(* A process modifies a block in one step: it holds the buffer's sleep     *)
(* lock from bread to brelse, and log_write runs under log.lock.           *)
(***************************************************************************)
EXTENDS Integers, Sequences, FiniteSets

CONSTANTS Blocks,       \* the blocks outside the log
          Values,       \* their contents
          Procs,        \* the processes
          initproc,     \* the one that runs fsinit
          None,         \* not cached
          LogSize,      \* LOGSIZE
          DiskLogSize,  \* log.size: the blocks of the on-disk log, header included
          MaxOpBlocks,  \* MAXOPBLOCKS
          OpBlocks      \* the blocks a system call really modifies

ASSUME LogAssumption ==
  /\ IsFiniteSet(Procs) /\ initproc \in Procs /\ None \notin Values
  /\ LogSize \in Nat /\ DiskLogSize \in Nat \ {0}
  /\ MaxOpBlocks \in Nat /\ MaxOpBlocks <= LogSize /\ OpBlocks \in Nat

VARIABLES
  home, dhead, dlog,         \* the disk: home blocks, header and blocks of the log
  cache,                     \* the data of a cached buffer, or None
  pin,                       \* references of bpin
  lh, outstanding, committing,
  recovering,                \* from a crash to the end of recover_from_log
  pc, tail,                  \* of each process: its step, its loop variable
  wrote                      \* of each process: the blocks its call modified

diskVars == <<home, dhead, dlog>>
memVars  == <<cache, pin, lh, outstanding, committing>>
procVars == <<pc, tail, wrote>>
vars     == <<diskVars, memVars, recovering, procVars>>

Goto(p, label) == pc' = [pc EXCEPT ![p] = label]

\* What bread(b) returns.
bread(b) == IF cache[b] = None THEN home[b] ELSE cache[b]

\* Mutant: the block is not pinned.
bpinNot(b) == UNCHANGED pin

bpin(b) == pin' = [pin EXCEPT ![b] = @ + 1]

\* Mutant: no log absorption.
AbsorbedNever(b) == FALSE

\* Log absorption: b is in the log already.
Absorbed(b) == \E i \in 1 .. Len(lh) : lh[i] = b

\* wakeup(&log), and the caller goes on to label.
Wakeup(p, label) ==
  pc' = [q \in Procs |-> IF q = p THEN label
                         ELSE IF pc[q] = "asleep" THEN "begin" ELSE pc[q]]

\* The memory of a machine that boots; its first process calls fsinit.
Boot(q) == IF q = initproc THEN "read_head" ELSE "down"

\* mkfs leaves an empty log.
Init ==
  /\ home \in [Blocks -> Values]
  /\ dhead = <<>>
  /\ \E v \in Values : dlog = [i \in 1 .. DiskLogSize - 1 |-> v]
  /\ cache = [b \in Blocks |-> None]
  /\ pin = [b \in Blocks |-> 0]
  /\ lh = <<>> /\ outstanding = 0 /\ committing = FALSE
  /\ recovering = TRUE
  /\ pc = [q \in Procs |-> Boot(q)]
  /\ tail = [q \in Procs |-> 1]
  /\ wrote = [q \in Procs |-> {}]
-----------------------------------------------------------------------------
(* System calls *)

\* Mutant: no space is reserved for the call that begins.
BeginOpUnreserved(p) ==
  /\ pc[p] \in {"idle", "begin"}
  /\ IF committing \/ Len(lh) + outstanding * MaxOpBlocks > LogSize
       THEN Goto(p, "asleep") /\ UNCHANGED <<outstanding, wrote>>
       ELSE /\ outstanding' = outstanding + 1
            /\ wrote' = [wrote EXCEPT ![p] = {}]
            /\ Goto(p, "op")
  /\ UNCHANGED <<diskVars, cache, pin, lh, committing, recovering, tail>>

\* One round of begin_op's loop.
BeginOp(p) ==
  /\ pc[p] \in {"idle", "begin"}
  /\ IF committing \/ Len(lh) + (outstanding + 1) * MaxOpBlocks > LogSize
       THEN Goto(p, "asleep") /\ UNCHANGED <<outstanding, wrote>>
       ELSE /\ outstanding' = outstanding + 1
            /\ wrote' = [wrote EXCEPT ![p] = {}]
            /\ Goto(p, "op")
  /\ UNCHANGED <<diskVars, cache, pin, lh, committing, recovering, tail>>

\* bread(b), a change of its data to v, log_write(b), brelse(b).
LogWrite(p, b, v) ==
  /\ pc[p] = "op"
  /\ Cardinality(wrote[p] \cup {b}) <= OpBlocks
  /\ IF Len(lh) >= LogSize \/ Len(lh) >= DiskLogSize - 1 \/ outstanding < 1
       THEN Goto(p, "panic") /\ UNCHANGED <<cache, lh, pin, wrote>>
       ELSE /\ cache' = [cache EXCEPT ![b] = v]
            /\ IF Absorbed(b)
                 THEN UNCHANGED <<lh, pin>>
                 ELSE lh' = Append(lh, b) /\ bpin(b)
            /\ wrote' = [wrote EXCEPT ![p] = @ \cup {b}]
            /\ UNCHANGED pc
  /\ UNCHANGED <<diskVars, outstanding, committing, recovering, tail>>

\* Mutant: no wakeup(&log) when other calls are active.
EndOpQuiet(p) ==
  /\ pc[p] = "op"
  /\ outstanding' = outstanding - 1
  /\ tail' = [tail EXCEPT ![p] = 1]
  /\ IF committing
       THEN Goto(p, "panic") /\ UNCHANGED committing
     ELSE IF outstanding = 1
       THEN committing' = TRUE /\ Goto(p, IF lh = <<>> THEN "end" ELSE "write_log")
     ELSE Goto(p, "idle") /\ UNCHANGED committing
  /\ UNCHANGED <<diskVars, cache, pin, lh, recovering, wrote>>

\* end_op up to commit(), whose test of lh.n is included.
EndOp(p) ==
  /\ pc[p] = "op"
  /\ outstanding' = outstanding - 1
  /\ tail' = [tail EXCEPT ![p] = 1]
  /\ IF committing
       THEN Goto(p, "panic") /\ UNCHANGED committing
     ELSE IF outstanding = 1
       THEN committing' = TRUE /\ Goto(p, IF lh = <<>> THEN "end" ELSE "write_log")
     ELSE Wakeup(p, "idle") /\ UNCHANGED committing
  /\ UNCHANGED <<diskVars, cache, pin, lh, recovering, wrote>>
-----------------------------------------------------------------------------
(* commit: one bwrite a step *)

\* The loop variable of p's loop over lh: the next label after the last round.
Round(p, label) ==
  IF tail[p] = Len(lh)
    THEN tail' = [tail EXCEPT ![p] = 1] /\ Goto(p, label)
    ELSE tail' = [tail EXCEPT ![p] = @ + 1] /\ UNCHANGED pc

WriteLog(p) ==
  LET b == lh[tail[p]] IN
  /\ pc[p] = "write_log"
  /\ dlog' = [dlog EXCEPT ![tail[p]] = bread(b)]
  /\ cache' = [cache EXCEPT ![b] = bread(b)]
  /\ Round(p, "write_head")
  /\ UNCHANGED <<home, dhead, pin, lh, outstanding, committing, recovering, wrote>>

WriteHead(p) ==
  /\ pc[p] = "write_head"
  /\ dhead' = lh
  /\ Goto(p, "install")
  /\ UNCHANGED <<home, dlog, memVars, recovering, tail, wrote>>

\* Mutant: the last block is not installed.
InstallTransShort(p) ==
  LET b == lh[tail[p]] IN
  /\ pc[p] = "install"
  /\ home' = IF tail[p] = Len(lh) THEN home ELSE [home EXCEPT ![b] = dlog[tail[p]]]
  /\ cache' = [cache EXCEPT ![b] = dlog[tail[p]]]
  /\ pin' = IF recovering THEN pin ELSE [pin EXCEPT ![b] = @ - 1]
  /\ Round(p, "clear")
  /\ UNCHANGED <<dhead, dlog, lh, outstanding, committing, recovering, wrote>>

\* install_trans, of commit and of recovery.
InstallTrans(p) ==
  LET b == lh[tail[p]] IN
  /\ pc[p] = "install"
  /\ home' = [home EXCEPT ![b] = dlog[tail[p]]]
  /\ cache' = [cache EXCEPT ![b] = dlog[tail[p]]]
  /\ pin' = IF recovering THEN pin ELSE [pin EXCEPT ![b] = @ - 1]
  /\ Round(p, "clear")
  /\ UNCHANGED <<dhead, dlog, lh, outstanding, committing, recovering, wrote>>

\* log.lh.n = 0 and write_head, of commit and of recovery.  After recovery
\* the other processes come to life.
ClearHead(p) ==
  /\ pc[p] = "clear"
  /\ lh' = <<>> /\ dhead' = <<>>
  /\ recovering' = FALSE
  /\ pc' = IF recovering THEN [q \in Procs |-> "idle"] ELSE [pc EXCEPT ![p] = "end"]
  /\ UNCHANGED <<home, dlog, cache, pin, outstanding, committing, tail, wrote>>

\* The end of end_op.
EndCommit(p) ==
  /\ pc[p] = "end"
  /\ committing' = FALSE
  /\ Wakeup(p, "idle")
  /\ UNCHANGED <<diskVars, cache, pin, lh, outstanding, recovering, tail, wrote>>
-----------------------------------------------------------------------------
(* The cache, crashes and recovery *)

\* A process reads b, in or outside a system call that writes.
Load(b) ==
  /\ ~recovering /\ cache[b] = None
  /\ cache' = [cache EXCEPT ![b] = home[b]]
  /\ UNCHANGED <<diskVars, pin, lh, outstanding, committing, recovering, procVars>>

\* bget recycles the buffer of b for another block: nobody refers to it.
Evict(b) ==
  /\ cache[b] # None /\ pin[b] = 0
  /\ cache' = [cache EXCEPT ![b] = None]
  /\ UNCHANGED <<diskVars, pin, lh, outstanding, committing, recovering, procVars>>

\* The machine stops and boots; the disk keeps its blocks.
Crash ==
  /\ cache' = [b \in Blocks |-> None]
  /\ pin' = [b \in Blocks |-> 0]
  /\ lh' = <<>> /\ outstanding' = 0 /\ committing' = FALSE
  /\ recovering' = TRUE
  /\ pc' = [q \in Procs |-> Boot(q)]
  /\ tail' = [q \in Procs |-> 1]
  /\ wrote' = [q \in Procs |-> {}]
  /\ UNCHANGED diskVars

\* recover_from_log: read_head.  InstallTrans and ClearHead follow.
ReadHead(p) ==
  /\ pc[p] = "read_head"
  /\ lh' = dhead
  /\ Goto(p, IF dhead = <<>> THEN "clear" ELSE "install")
  /\ UNCHANGED <<diskVars, cache, pin, outstanding, committing, recovering, tail, wrote>>
-----------------------------------------------------------------------------
CommitStep(p) ==
  WriteLog(p) \/ WriteHead(p) \/ InstallTrans(p) \/ ClearHead(p) \/ EndCommit(p)

Next ==
  \/ \E p \in Procs : BeginOp(p) \/ EndOp(p) \/ CommitStep(p) \/ ReadHead(p)
  \/ \E p \in Procs, b \in Blocks, v \in Values : LogWrite(p, b, v)
  \/ \E b \in Blocks : Load(b) \/ Evict(b)
  \/ Crash

Spec == Init /\ [][Next]_vars

-----------------------------------------------------------------------------
\* The checks of log_write and end_op never fail: begin_op reserves enough log
\* space for every call it admits, and nobody commits while a call is active.
NoPanic == \A p \in Procs : pc[p] # "panic"

\* No process is forgotten in begin_op: while one sleeps, a commit is in
\* progress, or there is no log space for one more call and an active call is
\* going to free some.  Both wakeups of end_op are needed for this (log.c:162,
\* 172): nobody is asleep who could go on.
NoneForgotten ==
  (\E p \in Procs : pc[p] = "asleep") =>
    \/ committing
    \/ outstanding > 0 /\ Len(lh) + (outstanding + 1) * MaxOpBlocks > LogSize

\* What is on the disk once recover_from_log has run.
Recovered ==
  [b \in Blocks |-> IF \E i \in 1 .. Len(dhead) : dhead[i] = b
                      THEN dlog[CHOOSE i \in 1 .. Len(dhead) : dhead[i] = b]
                      ELSE home[b]]

\* What the running system sees.
View == [b \in Blocks |-> bread(b)]

\* When no call is active and no commit is in progress, the result of every
\* finished call survives a crash: end_op returns to its last caller only
\* after the commit.
QuiescentDurable ==
  outstanding = 0 /\ ~committing /\ ~recovering => Recovered = View

\* Only what log_write put in the log is pinned in the cache, once a block, so
\* the pins that commit drops are the ones that log_write took.
PinnedOnce ==
  \A b \in Blocks : pin[b] = IF ~recovering /\ \E i \in 1 .. Len(lh) :
                                /\ lh[i] = b
                                /\ \A p \in Procs : /\ pc[p] = "install" => tail[p] <= i
                                                    /\ pc[p] # "clear"
                               THEN 1 ELSE 0

Disk == INSTANCE AtomicDisk WITH
          mem     <- IF recovering THEN Recovered ELSE View,
          durable <- Recovered,
          active  <- {p \in Procs : pc[p] = "op"}

\* Log implements AtomicDisk: whatever the step at which the machine crashes,
\* also during recovery, the disk recovers to a state between whole system
\* calls; readers see the latest write, also of a block that left the cache.
ImplementsAtomicDisk == Disk!Spec
=============================================================================
