---------------------------------- MODULE Bio ----------------------------------
(***************************************************************************)
(* kernel/bio.c: the buffer cache, on the sleep locks of                   *)
(* kernel/sleeplock.c and the disk of kernel/ramdisk.c.                    *)
(*                                                                         *)
(* A critical section of bcache.lock, or of a sleep lock's spin lock, is   *)
(* one step.  Processes keep the rules of the interface: a buffer is       *)
(* modified only while it is locked, a modified one is written or pinned   *)
(* (log_write) before it is released and stays pinned until it is written  *)
(* (install_trans), and buffers are locked in one order.                   *)
(***************************************************************************)
EXTENDS Integers, FiniteSets

CONSTANTS NBUF,
          Blocks,    \* block numbers
          Values,    \* contents of a block
          Procs,
          None,
          MaxHeld,   \* bound: buffers that one process holds at a time
          MaxPins    \* bound: buffers pinned at a time (the log's size)

ASSUME BioAssumption ==
  /\ NBUF \in Nat \ {0} /\ Blocks \subseteq Nat /\ MaxHeld \in Nat /\ MaxPins \in Nat
  /\ IsFiniteSet(Procs) /\ None \notin Procs \cup Nat

Bufs == 1 .. NBUF

VARIABLES
  list,                              \* bcache.head: most recently used first
  blockno, valid, refcnt, data,      \* struct buf
  locked,                            \* b->lock: the process that holds it, or None
  disk,
  pc, cur, mine,   \* of each process: step, buffer it gets or gives, buffers it holds
  pins, dirty      \* auxiliary: references of bpin; data not on the disk

bufVars  == <<blockno, valid, refcnt, data>>
procVars == <<pc, cur, mine>>
vars == <<list, bufVars, locked, disk, procVars, pins, dirty>>

PCs == {"idle", "lock", "asleep", "bread", "use", "unref", "panic"}

\* binit puts every buffer in front of the list.  No buffer has the device
\* number of a real block yet.
Init ==
  /\ list = [j \in Bufs |-> NBUF + 1 - j]
  /\ blockno = [b \in Bufs |-> None]
  /\ valid = [b \in Bufs |-> FALSE]
  /\ refcnt = [b \in Bufs |-> 0]
  /\ \E v \in Values : data = [b \in Bufs |-> v]
  /\ locked = [b \in Bufs |-> None]
  /\ disk \in [Blocks -> Values]
  /\ pc = [p \in Procs |-> "idle"]
  /\ cur = [p \in Procs |-> None]
  /\ mine = [p \in Procs |-> {}]
  /\ pins = [b \in Bufs |-> 0]
  /\ dirty = [b \in Bufs |-> FALSE]

Goto(p, label) == pc' = [pc EXCEPT ![p] = label]
-----------------------------------------------------------------------------
(* bget *)

\* Mutant: the references of bpin are not looked at.
UnusedUnlocked == {j \in Bufs : locked[list[j]] = None}

\* Places in the list of the buffers that may be recycled.
Unused == {j \in Bufs : refcnt[list[j]] = 0}

\* The least recently used one: the scan starts at head.prev.
Lru == list[CHOOSE j \in Unused : \A k \in Unused : k <= j]

\* Mutant: a cached block is not looked for, a buffer is recycled at once.
BgetNoLookup(p, k) ==
  /\ pc[p] \in {"idle", "use"}
  /\ Cardinality(mine[p]) < MaxHeld /\ \A b \in mine[p] : blockno[b] < k
  /\ Unused # {}
  /\ blockno' = [blockno EXCEPT ![Lru] = k]
  /\ valid' = [valid EXCEPT ![Lru] = FALSE]
  /\ refcnt' = [refcnt EXCEPT ![Lru] = 1]
  /\ cur' = [cur EXCEPT ![p] = Lru]
  /\ Goto(p, "lock")
  /\ UNCHANGED <<list, data, locked, disk, mine, pins, dirty>>

\* The section under bcache.lock for block k.
Bget(p, k) ==
  LET hit == {b \in Bufs : blockno[b] = k} IN
  /\ pc[p] \in {"idle", "use"}
  /\ Cardinality(mine[p]) < MaxHeld /\ \A b \in mine[p] : blockno[b] < k
  /\ \/ \E b \in hit :
          /\ refcnt' = [refcnt EXCEPT ![b] = @ + 1]
          /\ cur' = [cur EXCEPT ![p] = b]
          /\ Goto(p, "lock")
          /\ UNCHANGED <<blockno, valid>>
     \/ /\ hit = {}
        /\ IF Unused = {}
             THEN Goto(p, "panic") /\ UNCHANGED <<blockno, valid, refcnt, cur>>
             ELSE /\ blockno' = [blockno EXCEPT ![Lru] = k]
                  /\ valid' = [valid EXCEPT ![Lru] = FALSE]
                  /\ refcnt' = [refcnt EXCEPT ![Lru] = 1]
                  /\ cur' = [cur EXCEPT ![p] = Lru]
                  /\ Goto(p, "lock")
  /\ UNCHANGED <<list, data, locked, disk, mine, pins, dirty>>

\* acquiresleep(&b->lock): one round of its loop.
AcquireSleep(p) ==
  LET b == cur[p] IN
  /\ pc[p] = "lock"
  /\ IF locked[b] # None
       THEN Goto(p, "asleep") /\ UNCHANGED locked
       ELSE Goto(p, "bread") /\ locked' = [locked EXCEPT ![b] = p]
  /\ UNCHANGED <<list, bufVars, disk, cur, mine, pins, dirty>>

\* The rest of bread.
Bread(p) ==
  LET b == cur[p] IN
  /\ pc[p] = "bread"
  /\ data' = [data EXCEPT ![b] = IF valid[b] THEN @ ELSE disk[blockno[b]]]
  /\ valid' = [valid EXCEPT ![b] = TRUE]
  /\ mine' = [mine EXCEPT ![p] = @ \cup {b}]
  /\ cur' = [cur EXCEPT ![p] = None]
  /\ Goto(p, "use")
  /\ UNCHANGED <<list, blockno, refcnt, locked, disk, pins, dirty>>
-----------------------------------------------------------------------------
(* What a process does with a buffer it holds *)

Modify(p, b, v) ==
  /\ pc[p] = "use" /\ b \in mine[p]
  /\ data' = [data EXCEPT ![b] = v]
  /\ dirty' = [dirty EXCEPT ![b] = TRUE]
  /\ UNCHANGED <<list, blockno, valid, refcnt, locked, disk, procVars, pins>>

Bwrite(p, b) ==
  /\ pc[p] = "use" /\ b \in mine[p] /\ dirty[b]
  /\ disk' = [disk EXCEPT ![blockno[b]] = data[b]]
  /\ dirty' = [dirty EXCEPT ![b] = FALSE]
  /\ UNCHANGED <<list, bufVars, locked, procVars, pins>>

\* log_write: once a block.
Bpin(p, b) ==
  /\ pc[p] = "use" /\ b \in mine[p] /\ dirty[b] /\ pins[b] = 0
  /\ Cardinality({c \in Bufs : pins[c] > 0}) < MaxPins
  /\ refcnt' = [refcnt EXCEPT ![b] = @ + 1]
  /\ pins' = [pins EXCEPT ![b] = @ + 1]
  /\ UNCHANGED <<list, blockno, valid, data, locked, disk, procVars, dirty>>

\* install_trans, after bwrite.
Bunpin(p, b) ==
  /\ pc[p] = "use" /\ b \in mine[p] /\ ~dirty[b] /\ pins[b] > 0
  /\ refcnt' = [refcnt EXCEPT ![b] = @ - 1]
  /\ pins' = [pins EXCEPT ![b] = @ - 1]
  /\ UNCHANGED <<list, blockno, valid, data, locked, disk, procVars, dirty>>
-----------------------------------------------------------------------------
(* brelse *)

\* Mutant: releasesleep does not call wakeup.
BrelseQuiet(p, b) ==
  /\ pc[p] = "use" /\ b \in mine[p]
  /\ dirty[b] => pins[b] > 0
  /\ locked' = [locked EXCEPT ![b] = None]
  /\ Goto(p, "unref")
  /\ cur' = [cur EXCEPT ![p] = b]
  /\ mine' = [mine EXCEPT ![p] = @ \ {b}]
  /\ UNCHANGED <<list, bufVars, disk, pins, dirty>>

\* releasesleep(&b->lock) wakes every sleeper on the lock.
Brelse(p, b) ==
  /\ pc[p] = "use" /\ b \in mine[p]
  /\ dirty[b] => pins[b] > 0
  /\ locked' = [locked EXCEPT ![b] = None]
  /\ pc' = [q \in Procs |-> IF q = p THEN "unref"
                            ELSE IF pc[q] = "asleep" /\ cur[q] = b THEN "lock"
                            ELSE pc[q]]
  /\ cur' = [cur EXCEPT ![p] = b]
  /\ mine' = [mine EXCEPT ![p] = @ \ {b}]
  /\ UNCHANGED <<list, bufVars, disk, pins, dirty>>

\* The list with b in front: the buffers before it move back by one.
ToFront(b) ==
  LET i == CHOOSE j \in Bufs : list[j] = b
  IN  [j \in Bufs |-> IF j = 1 THEN b ELSE IF j <= i THEN list[j - 1] ELSE list[j]]

\* Mutant: the reference is dropped only by the last user.
BrelseUnrefLast(p) ==
  LET b == cur[p] IN
  /\ pc[p] = "unref"
  /\ refcnt' = [refcnt EXCEPT ![b] = IF \E q \in Procs \ {p} : cur[q] = b THEN @ ELSE @ - 1]
  /\ list' = ToFront(b)
  /\ cur' = [cur EXCEPT ![p] = None]
  /\ Goto(p, IF mine[p] = {} THEN "idle" ELSE "use")
  /\ UNCHANGED <<blockno, valid, data, locked, disk, mine, pins, dirty>>

\* The section under bcache.lock.
BrelseUnref(p) ==
  LET b == cur[p] IN
  /\ pc[p] = "unref"
  /\ refcnt' = [refcnt EXCEPT ![b] = @ - 1]
  /\ list' = IF refcnt[b] = 1 THEN ToFront(b) ELSE list
  /\ cur' = [cur EXCEPT ![p] = None]
  /\ Goto(p, IF mine[p] = {} THEN "idle" ELSE "use")
  /\ UNCHANGED <<blockno, valid, data, locked, disk, mine, pins, dirty>>
-----------------------------------------------------------------------------
CallStep(p) == AcquireSleep(p) \/ Bread(p) \/ BrelseUnref(p)

\* panic() stops the machine.
Next ==
  /\ \A p \in Procs : pc[p] # "panic"
  /\ \/ \E p \in Procs : CallStep(p)
     \/ \E p \in Procs, k \in Blocks : Bget(p, k)
     \/ \E p \in Procs, b \in Bufs :
          Bwrite(p, b) \/ Bpin(p, b) \/ Bunpin(p, b) \/ Brelse(p, b)
     \/ \E p \in Procs, b \in Bufs, v \in Values : Modify(p, b, v)

Spec == Init /\ [][Next]_vars

-----------------------------------------------------------------------------
TypeOK ==
  /\ list \in [Bufs -> Bufs]
  /\ blockno \in [Bufs -> Blocks \cup {None}]
  /\ valid \in [Bufs -> BOOLEAN]
  /\ refcnt \in [Bufs -> Nat]
  /\ data \in [Bufs -> Values]
  /\ locked \in [Bufs -> Procs \cup {None}]
  /\ disk \in [Blocks -> Values]
  /\ pc \in [Procs -> PCs]
  /\ cur \in [Procs -> Bufs \cup {None}]
  /\ mine \in [Procs -> SUBSET Bufs]
  /\ pins \in [Bufs -> Nat]
  /\ dirty \in [Bufs -> BOOLEAN]

\* "one copy of each block": no block is in two buffers, although bget lets go
\* of bcache.lock before it has the buffer's lock and its contents.
OneBufferPerBlock ==
  \A b, c \in Bufs : blockno[b] = blockno[c] /\ blockno[b] # None => b = c

\* The processes that use b or wait for it.
Users(b) == {p \in Procs : cur[p] = b \/ b \in mine[p]}

\* refcnt counts exactly the processes that use the buffer or wait for it, and
\* the pins: no reference leaks, and none is dropped early.
RefcntExact == \A b \in Bufs : refcnt[b] = Cardinality(Users(b)) + pins[b]

\* Nobody sleeps for a buffer that is free: releasesleep wakes all who wait,
\* whoever gets the lock first.
NoLostWakeup == \A p \in Procs : pc[p] = "asleep" => locked[cur[p]] # None

\* The buffer of block k, when it is cached.
Cached(k) == \E b \in Bufs : blockno[b] = k
BufferOf(k) == CHOOSE b \in Bufs : blockno[b] = k

Content == [k \in Blocks |-> IF Cached(k) /\ valid[BufferOf(k)] THEN data[BufferOf(k)] ELSE disk[k]]
Holder == [k \in Blocks |-> IF Cached(k) THEN locked[BufferOf(k)] ELSE None]

Store == INSTANCE BlockStore WITH content <- Content, holder <- Holder

\* The cache implements the block store: one holder of a block at a time, and
\* a block's contents survive the recycling of its buffer.
ImplementsBlockStore == Store!Spec
=============================================================================
