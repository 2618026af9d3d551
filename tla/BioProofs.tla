------------------------------- MODULE BioProofs -------------------------------
(***************************************************************************)
(* Proofs about Bio for any number of buffers, blocks and processes.       *)
(***************************************************************************)
EXTENDS Bio, FiniteSetTheorems, TLAPS

Calling == {"lock", "asleep", "bread", "unref"}

\* A process between bget and bread, or in brelse, has one buffer on the way;
\* a buffer that is used or waited for belongs to a block.
CallInv ==
  \A p \in Procs :
    /\ pc[p] \in Calling <=> cur[p] \in Bufs
    /\ cur[p] \notin mine[p]
    /\ \A b \in Bufs : cur[p] = b \/ b \in mine[p] => blockno[b] \in Blocks

\* b->lock is held by the process that has the buffer, or has just got it.
HolderInv ==
  \A b \in Bufs, p \in Procs :
    locked[b] = p <=> b \in mine[p] \/ (pc[p] = "bread" /\ cur[p] = b)

\* A valid buffer has the contents of the disk, unless it was modified: then it
\* is locked, or pinned, and cannot be recycled.
DataInv ==
  \A b \in Bufs :
    /\ valid[b] => blockno[b] \in Blocks
    /\ dirty[b] => valid[b] /\ (pins[b] > 0 \/ locked[b] # None)
    /\ valid[b] /\ ~dirty[b] => data[b] = disk[blockno[b]]
    /\ \A p \in Procs : b \in mine[p] => valid[b]

\* The inductive invariant.
IInv == /\ TypeOK /\ CallInv /\ HolderInv /\ DataInv
        /\ OneBufferPerBlock /\ RefcntExact /\ NoLostWakeup
-----------------------------------------------------------------------------
\* The scan of bget from head.prev ends at a last place.
LEMMA HasMaximum ==
  ASSUME NEW n \in Nat, NEW S \in SUBSET (1 .. n), S # {}
  PROVE  \E j \in S : \A k \in S : k <= j
  <1> DEFINE T == {n - j : j \in S}
  <1>1. T \subseteq Nat /\ T # {}
    <2>1. PICK j \in S : TRUE
      OBVIOUS
    <2>2. n - j \in T
      OBVIOUS
    <2>3. ASSUME NEW k \in S PROVE n - k \in Nat
      OBVIOUS
    <2> QED
      BY <2>2, <2>3, Zenon
  <1> DEFINE R == OpToRel(<, Nat)
  <1>2. IsWellFoundedOn(R, Nat)
    BY NatLessThanWellFounded, Zenon
  <1>3. \A x, y \in Nat : y < x => <<y, x>> \in R
    BY Zenon DEF OpToRel
  <1> HIDE DEF R
  <1>4. PICK x \in T : \A y \in T : ~ (<<y, x>> \in R)
    <2> HIDE DEF T
    <2> QED
      BY <1>1, <1>2, WFMin, Zenon
  <1>5. PICK j \in S : x = n - j
    BY <1>4, Zenon
  <1>6. ASSUME NEW k \in S PROVE k <= j
    <2>1. n - k \in T /\ n - k \in Nat /\ x \in Nat
      BY <1>1, <1>4, Zenon
    <2>2. ~ (n - k < x)
      BY <2>1, <1>3, <1>4, Zenon
    <2> QED
      BY <2>2, <1>5
  <1> QED
    BY <1>6, Zenon

\* The buffer that bget recycles is one without references.
LEMMA LruUnused ==
  ASSUME TypeOK, Unused # {}
  PROVE  Lru \in Bufs /\ refcnt[Lru] = 0
  <1>1. Unused \in SUBSET (1 .. NBUF) /\ NBUF \in Nat
    BY BioAssumption, Zenon DEF Unused, Bufs
  <1>2. \E j \in Unused : \A k \in Unused : k <= j
    BY <1>1, HasMaximum, Zenon
  <1>3. PICK j \in Unused : Lru = list[j]
    BY <1>2, Zenon DEF Lru
  <1> QED
    BY <1>3, Zenon DEF Unused, TypeOK

\* The processes that use a buffer are finitely many.
LEMMA UsersFinite ==
  ASSUME NEW b
  PROVE  IsFiniteSet(Users(b)) /\ Cardinality(Users(b)) \in Nat
  <1>1. IsFiniteSet(Procs) /\ Users(b) \in SUBSET Procs
    BY BioAssumption, Zenon DEF Users
  <1>2. IsFiniteSet(Users(b))
    BY <1>1, FS_Subset, Zenon
  <1> QED
    BY <1>2, FS_CardinalityType, Zenon

\* A buffer without references is used by nobody, not pinned, not locked and
\* on the disk.
LEMMA UnusedFree ==
  ASSUME IInv, NEW b \in Bufs, refcnt[b] = 0
  PROVE  /\ \A p \in Procs : cur[p] # b /\ b \notin mine[p]
         /\ pins[b] = 0 /\ locked[b] = None /\ ~dirty[b]
  <1>1. Cardinality(Users(b)) \in Nat /\ pins[b] \in Nat
    BY UsersFinite, Zenon DEF IInv, TypeOK
  <1>2. Cardinality(Users(b)) + pins[b] = 0
    BY Zenon DEF IInv, RefcntExact
  <1>3. Cardinality(Users(b)) = 0 /\ pins[b] = 0
    BY <1>1, <1>2
  <1>4. Users(b) = {}
    BY <1>3, UsersFinite, FS_EmptySet, Zenon
  <1>5. \A p \in Procs : cur[p] # b /\ b \notin mine[p]
    BY <1>4, Zenon DEF Users
  <1>6. locked[b] = None
    BY <1>5 DEF IInv, TypeOK, HolderInv
  <1>7. ~dirty[b]
    BY <1>3, <1>6 DEF IInv, DataInv
  <1> QED
    BY <1>3, <1>5, <1>6, <1>7, Zenon
-----------------------------------------------------------------------------
(* The three outcomes of bget, with the buffer it finds. *)

BgetHit(p, k, b) ==
  /\ pc[p] \in {"idle", "use"} /\ b \notin mine[p] /\ blockno[b] = k
  /\ refcnt' = [refcnt EXCEPT ![b] = @ + 1]
  /\ cur' = [cur EXCEPT ![p] = b]
  /\ Goto(p, "lock")
  /\ UNCHANGED <<list, blockno, valid, data, locked, disk, mine, pins, dirty>>

BgetMiss(p, k, b) ==
  /\ pc[p] \in {"idle", "use"} /\ refcnt[b] = 0 /\ \A c \in Bufs : blockno[c] # k
  /\ blockno' = [blockno EXCEPT ![b] = k]
  /\ valid' = [valid EXCEPT ![b] = FALSE]
  /\ refcnt' = [refcnt EXCEPT ![b] = 1]
  /\ cur' = [cur EXCEPT ![p] = b]
  /\ Goto(p, "lock")
  /\ UNCHANGED <<list, data, locked, disk, mine, pins, dirty>>

BgetPanic(p) ==
  /\ pc[p] \in {"idle", "use"}
  /\ Goto(p, "panic")
  /\ UNCHANGED <<list, bufVars, locked, disk, cur, mine, pins, dirty>>

\* A process never finds a buffer that it holds: it asks for blocks in order.
LEMMA BgetCases ==
  ASSUME IInv, NEW p \in Procs, NEW k \in Blocks, Bget(p, k)
  PROVE  BgetPanic(p) \/ \E b \in Bufs : BgetHit(p, k, b) \/ BgetMiss(p, k, b)
  <1>1. ASSUME NEW b \in Bufs, blockno[b] = k PROVE b \notin mine[p]
    BY <1>1, BioAssumption DEF Bget
  <1>2. ASSUME NEW b \in Bufs, blockno[b] = k,
               refcnt' = [refcnt EXCEPT ![b] = @ + 1],
               cur' = [cur EXCEPT ![p] = b], Goto(p, "lock"), UNCHANGED <<blockno, valid>>
        PROVE  BgetHit(p, k, b)
    BY <1>1, <1>2, Zenon DEF Bget, BgetHit
  <1>3. ASSUME \A c \in Bufs : blockno[c] # k, Unused # {},
               blockno' = [blockno EXCEPT ![Lru] = k],
               valid' = [valid EXCEPT ![Lru] = FALSE],
               refcnt' = [refcnt EXCEPT ![Lru] = 1],
               cur' = [cur EXCEPT ![p] = Lru], Goto(p, "lock")
        PROVE  Lru \in Bufs /\ BgetMiss(p, k, Lru)
    <2>1. Lru \in Bufs /\ refcnt[Lru] = 0
      BY <1>3, LruUnused, Zenon DEF IInv
    <2> QED
      BY <1>3, <2>1, Zenon DEF Bget, BgetMiss
  <1>4. ASSUME Goto(p, "panic"), UNCHANGED <<blockno, valid, refcnt, cur>>
        PROVE  BgetPanic(p)
    BY <1>4, Zenon DEF Bget, BgetPanic, bufVars
  <1>5. \/ \E b \in Bufs : /\ blockno[b] = k
                           /\ refcnt' = [refcnt EXCEPT ![b] = @ + 1]
                           /\ cur' = [cur EXCEPT ![p] = b]
                           /\ Goto(p, "lock")
                           /\ UNCHANGED <<blockno, valid>>
        \/ Goto(p, "panic") /\ UNCHANGED <<blockno, valid, refcnt, cur>>
        \/ /\ \A c \in Bufs : blockno[c] # k
           /\ Unused # {}
           /\ blockno' = [blockno EXCEPT ![Lru] = k]
           /\ valid' = [valid EXCEPT ![Lru] = FALSE]
           /\ refcnt' = [refcnt EXCEPT ![Lru] = 1]
           /\ cur' = [cur EXCEPT ![p] = Lru]
           /\ Goto(p, "lock")
    BY Zenon DEF Bget
  <1> QED
    BY <1>2, <1>3, <1>4, <1>5, Zenon

\* The steps of the cache, one by one.
LEMMA NextCases ==
  ASSUME IInv, [Next]_vars
  PROVE  \/ UNCHANGED vars
         \/ \E p \in Procs : AcquireSleep(p) \/ Bread(p) \/ BrelseUnref(p) \/ BgetPanic(p)
         \/ \E p \in Procs, b \in Bufs : \/ \E k \in Blocks : BgetHit(p, k, b) \/ BgetMiss(p, k, b)
                                         \/ Bwrite(p, b) \/ Bpin(p, b) \/ Bunpin(p, b)
                                         \/ Brelse(p, b)
                                         \/ \E v \in Values : Modify(p, b, v)
  <1>1. ASSUME NEW p \in Procs, NEW k \in Blocks, Bget(p, k)
        PROVE  BgetPanic(p) \/ \E b \in Bufs : BgetHit(p, k, b) \/ BgetMiss(p, k, b)
    BY <1>1, BgetCases, Zenon
  <1> QED
    BY <1>1, Zenon DEF Next, CallStep

\* Moving a buffer to the front leaves a list of buffers.
LEMMA ToFrontType ==
  ASSUME TypeOK, NEW b \in Bufs
  PROVE  ToFront(b) \in [Bufs -> Bufs]
  <1> DEFINE i == CHOOSE j \in Bufs : list[j] = b
  <1>1. ToFront(b) = [j \in Bufs |-> IF j = 1 THEN b ELSE IF j <= i THEN list[j - 1] ELSE list[j]]
    BY Zenon DEF ToFront
  <1> HIDE DEF i
  <1>2. ASSUME NEW j \in Bufs, j # 1 PROVE j - 1 \in Bufs
    BY <1>2, BioAssumption DEF Bufs
  <1>3. \A j \in Bufs : (IF j = 1 THEN b ELSE IF j <= i THEN list[j - 1] ELSE list[j]) \in Bufs
    BY <1>2, Zenon DEF TypeOK
  <1> QED
    BY <1>1, <1>3, Zenon

\* Every variable keeps its type; no count of references goes below 0.
LEMMA TypeStep ==
  ASSUME IInv, [Next]_vars
  PROVE  TypeOK'
  <1>1. CASE UNCHANGED vars
    BY <1>1, Zenon DEF IInv, vars, bufVars, procVars, TypeOK, PCs
  <1>2. ASSUME NEW p \in Procs, AcquireSleep(p) PROVE TypeOK'
    BY <1>2, Zenon DEF IInv, AcquireSleep, Goto, bufVars, TypeOK, PCs
  <1>3. ASSUME NEW p \in Procs, Bread(p) PROVE TypeOK'
    <2>1. cur[p] \in Bufs /\ blockno[cur[p]] \in Blocks
      BY <1>3, Zenon DEF IInv, CallInv, Calling, Bread
    <2> QED
      BY <1>3, <2>1, Zenon DEF IInv, Bread, Goto, TypeOK, PCs
  <1>4. ASSUME NEW p \in Procs, BrelseUnref(p) PROVE TypeOK'
    <2>1. cur[p] \in Bufs
      BY <1>4, Zenon DEF IInv, CallInv, Calling, BrelseUnref
    <2>2. refcnt[cur[p]] - 1 \in Nat
      <3>1. p \in Users(cur[p])
        BY Zenon DEF Users
      <3>2. Cardinality(Users(cur[p])) \in Nat \ {0} /\ pins[cur[p]] \in Nat
        BY <2>1, <3>1, UsersFinite, FS_EmptySet, Zenon DEF IInv, TypeOK
      <3>3. refcnt[cur[p]] = Cardinality(Users(cur[p])) + pins[cur[p]]
        BY <2>1, Zenon DEF IInv, RefcntExact
      <3> QED
        BY <3>2, <3>3
    <2>3. ToFront(cur[p]) \in [Bufs -> Bufs]
      BY <2>1, ToFrontType, Zenon DEF IInv
    <2> QED
      BY <1>4, <2>1, <2>2, <2>3, Zenon DEF IInv, BrelseUnref, Goto, TypeOK, PCs
  <1>5. ASSUME NEW p \in Procs, BgetPanic(p) PROVE TypeOK'
    BY <1>5, Zenon DEF IInv, BgetPanic, Goto, bufVars, TypeOK, PCs
  <1>6. ASSUME NEW p \in Procs, NEW b \in Bufs, NEW k \in Blocks, BgetHit(p, k, b)
        PROVE  TypeOK'
    BY <1>6 DEF IInv, BgetHit, Goto, TypeOK, PCs
  <1>7. ASSUME NEW p \in Procs, NEW b \in Bufs, NEW k \in Blocks, BgetMiss(p, k, b)
        PROVE  TypeOK'
    BY <1>7, Zenon DEF IInv, BgetMiss, Goto, TypeOK, PCs
  <1>8. ASSUME NEW p \in Procs, NEW b \in Bufs, Bwrite(p, b)
        PROVE  TypeOK'
    BY <1>8, Zenon DEF IInv, Bwrite, bufVars, procVars, TypeOK, PCs
  <1>9. ASSUME NEW p \in Procs, NEW b \in Bufs, Bpin(p, b)
        PROVE  TypeOK'
    BY <1>9 DEF IInv, Bpin, procVars, TypeOK, PCs
  <1>10. ASSUME NEW p \in Procs, NEW b \in Bufs, Bunpin(p, b)
        PROVE  TypeOK'
    <2>1. refcnt[b] - 1 \in Nat /\ pins[b] - 1 \in Nat
      <3>1. Cardinality(Users(b)) \in Nat /\ pins[b] \in Nat /\ pins[b] > 0
        BY <1>10, UsersFinite, Zenon DEF IInv, TypeOK, Bunpin
      <3>2. refcnt[b] = Cardinality(Users(b)) + pins[b]
        BY Zenon DEF IInv, RefcntExact
      <3> QED
        BY <3>1, <3>2
    <2> QED
      BY <1>10, <2>1, Zenon DEF IInv, Bunpin, procVars, TypeOK
  <1>11. ASSUME NEW p \in Procs, NEW b \in Bufs, Brelse(p, b)
        PROVE  TypeOK'
    BY <1>11, Zenon DEF IInv, Brelse, bufVars, TypeOK, PCs
  <1>12. ASSUME NEW p \in Procs, NEW b \in Bufs, NEW v \in Values, Modify(p, b, v)
        PROVE  TypeOK'
    BY <1>12, Zenon DEF IInv, Modify, procVars, TypeOK, PCs
  <1> QED
    BY NextCases, <1>1, <1>2, <1>3, <1>4, <1>5, <1>6, <1>7, <1>8, <1>9, <1>10, <1>11,
       <1>12, Zenon

\* None is not a buffer.
LEMMA NoneNotBuf == None \notin Bufs /\ None \notin Procs
  BY BioAssumption DEF Bufs

\* A process has one buffer on the way, of a block, and it does not hold it yet.
LEMMA FlowStep ==
  ASSUME IInv, [Next]_vars
  PROVE  CallInv'
  <1>1. CASE UNCHANGED vars
    BY <1>1, NoneNotBuf, Zenon DEF IInv, vars, bufVars, procVars, CallInv, Calling,
       TypeOK, PCs
  <1>2. ASSUME NEW p \in Procs, AcquireSleep(p) PROVE CallInv'
    BY <1>2, NoneNotBuf DEF IInv, AcquireSleep, Goto, bufVars, CallInv, Calling, TypeOK, PCs
  <1>3. ASSUME NEW p \in Procs, Bread(p) PROVE CallInv'
    BY <1>3, NoneNotBuf, Zenon DEF IInv, Bread, Goto, CallInv, Calling, TypeOK, PCs
  <1>4. ASSUME NEW p \in Procs, BrelseUnref(p) PROVE CallInv'
    BY <1>4, NoneNotBuf, Zenon DEF IInv, BrelseUnref, Goto, CallInv, Calling, TypeOK, PCs
  <1>5. ASSUME NEW p \in Procs, BgetPanic(p) PROVE CallInv'
    BY <1>5, NoneNotBuf, Zenon DEF IInv, BgetPanic, Goto, bufVars, CallInv, Calling,
       TypeOK, PCs
  <1>6. ASSUME NEW p \in Procs, NEW b \in Bufs, NEW k \in Blocks, BgetHit(p, k, b)
        PROVE  CallInv'
    BY <1>6, NoneNotBuf, Zenon DEF IInv, BgetHit, Goto, CallInv, Calling, TypeOK, PCs
  <1>7. ASSUME NEW p \in Procs, NEW b \in Bufs, NEW k \in Blocks, BgetMiss(p, k, b)
        PROVE  CallInv'
    <2>1. \A q \in Procs : cur[q] # b /\ b \notin mine[q]
      BY <1>7, UnusedFree, Zenon DEF BgetMiss
    <2>2. pins[b] = 0 /\ locked[b] = None /\ ~dirty[b]
      BY <1>7, UnusedFree, Zenon DEF BgetMiss
    <2> QED
      BY <1>7, <2>1, <2>2, NoneNotBuf, Zenon DEF IInv, BgetMiss, Goto, CallInv, Calling,
         TypeOK, PCs
  <1>8. ASSUME NEW p \in Procs, NEW b \in Bufs, Bwrite(p, b)
        PROVE  CallInv'
    BY <1>8, NoneNotBuf, Zenon DEF IInv, Bwrite, bufVars, procVars, CallInv, Calling,
       TypeOK, PCs
  <1>9. ASSUME NEW p \in Procs, NEW b \in Bufs, Bpin(p, b)
        PROVE  CallInv'
    BY <1>9, NoneNotBuf, Zenon DEF IInv, Bpin, procVars, CallInv, Calling, TypeOK, PCs
  <1>10. ASSUME NEW p \in Procs, NEW b \in Bufs, Bunpin(p, b)
        PROVE  CallInv'
    BY <1>10, NoneNotBuf, Zenon DEF IInv, Bunpin, procVars, CallInv, Calling, TypeOK, PCs
  <1>11. ASSUME NEW p \in Procs, NEW b \in Bufs, Brelse(p, b)
        PROVE  CallInv'
    BY <1>11, NoneNotBuf, Zenon DEF IInv, Brelse, bufVars, CallInv, Calling, TypeOK, PCs
  <1>12. ASSUME NEW p \in Procs, NEW b \in Bufs, NEW v \in Values, Modify(p, b, v)
        PROVE  CallInv'
    BY <1>12, NoneNotBuf, Zenon DEF IInv, Modify, procVars, CallInv, Calling, TypeOK, PCs
  <1> QED
    BY NextCases, <1>1, <1>2, <1>3, <1>4, <1>5, <1>6, <1>7, <1>8, <1>9, <1>10, <1>11,
       <1>12, Zenon

\* A lock is held by the process that has the buffer, and by no other.
LEMMA HolderStep ==
  ASSUME IInv, [Next]_vars
  PROVE  HolderInv'
  <1>1. CASE UNCHANGED vars
    BY <1>1, NoneNotBuf, Zenon DEF IInv, vars, bufVars, procVars, HolderInv, CallInv,
       Calling, TypeOK, PCs
  <1>2. ASSUME NEW p \in Procs, AcquireSleep(p) PROVE HolderInv'
    BY <1>2, NoneNotBuf DEF IInv, AcquireSleep, Goto, bufVars, HolderInv, CallInv, Calling,
       TypeOK, PCs
  <1>3. ASSUME NEW p \in Procs, Bread(p) PROVE HolderInv'
    BY <1>3, NoneNotBuf DEF IInv, Bread, Goto, HolderInv, CallInv, Calling, TypeOK, PCs
  <1>4. ASSUME NEW p \in Procs, BrelseUnref(p) PROVE HolderInv'
    BY <1>4, NoneNotBuf DEF IInv, BrelseUnref, Goto, HolderInv, CallInv, Calling, TypeOK, PCs
  <1>5. ASSUME NEW p \in Procs, BgetPanic(p) PROVE HolderInv'
    BY <1>5, NoneNotBuf DEF IInv, BgetPanic, Goto, bufVars, HolderInv, CallInv, Calling, TypeOK, PCs
  <1>6. ASSUME NEW p \in Procs, NEW b \in Bufs, NEW k \in Blocks, BgetHit(p, k, b)
        PROVE  HolderInv'
    BY <1>6, NoneNotBuf DEF IInv, BgetHit, Goto, HolderInv, CallInv, Calling, TypeOK, PCs
  <1>7. ASSUME NEW p \in Procs, NEW b \in Bufs, NEW k \in Blocks, BgetMiss(p, k, b)
        PROVE  HolderInv'
    <2>1. \A q \in Procs : cur[q] # b /\ b \notin mine[q]
      BY <1>7, UnusedFree, Zenon DEF BgetMiss
    <2>2. pins[b] = 0 /\ locked[b] = None /\ ~dirty[b]
      BY <1>7, UnusedFree, Zenon DEF BgetMiss
    <2> QED
      BY <1>7, <2>1, <2>2, NoneNotBuf DEF IInv, BgetMiss, Goto, HolderInv, CallInv, Calling,
         TypeOK, PCs
  <1>8. ASSUME NEW p \in Procs, NEW b \in Bufs, Bwrite(p, b)
        PROVE  HolderInv'
    BY <1>8, NoneNotBuf DEF IInv, Bwrite, bufVars, procVars, HolderInv, CallInv, Calling,
       TypeOK, PCs
  <1>9. ASSUME NEW p \in Procs, NEW b \in Bufs, Bpin(p, b)
        PROVE  HolderInv'
    BY <1>9, NoneNotBuf DEF IInv, Bpin, procVars, HolderInv, CallInv, Calling, TypeOK, PCs
  <1>10. ASSUME NEW p \in Procs, NEW b \in Bufs, Bunpin(p, b)
        PROVE  HolderInv'
    BY <1>10, NoneNotBuf DEF IInv, Bunpin, procVars, HolderInv, CallInv, Calling, TypeOK, PCs
  <1>11. ASSUME NEW p \in Procs, NEW b \in Bufs, Brelse(p, b)
        PROVE  HolderInv'
    BY <1>11, NoneNotBuf DEF IInv, Brelse, bufVars, HolderInv, CallInv, Calling, TypeOK, PCs
  <1>12. ASSUME NEW p \in Procs, NEW b \in Bufs, NEW v \in Values, Modify(p, b, v)
        PROVE  HolderInv'
    BY <1>12, NoneNotBuf, Zenon DEF IInv, Modify, procVars, HolderInv, CallInv, Calling,
       TypeOK, PCs
  <1> QED
    BY NextCases, <1>1, <1>2, <1>3, <1>4, <1>5, <1>6, <1>7, <1>8, <1>9, <1>10, <1>11,
       <1>12, Zenon

\* bget looks for the block and recycles a buffer in one section.
LEMMA OneBufferStep ==
  ASSUME IInv, [Next]_vars
  PROVE  OneBufferPerBlock'
  <1>1. CASE UNCHANGED vars
    BY <1>1, Zenon DEF IInv, vars, bufVars, procVars, OneBufferPerBlock, TypeOK
  <1>2. ASSUME NEW p \in Procs, AcquireSleep(p) PROVE OneBufferPerBlock'
    BY <1>2, Zenon DEF IInv, AcquireSleep, Goto, bufVars, OneBufferPerBlock, TypeOK
  <1>3. ASSUME NEW p \in Procs, Bread(p) PROVE OneBufferPerBlock'
    BY <1>3, Zenon DEF IInv, Bread, Goto, OneBufferPerBlock, TypeOK
  <1>4. ASSUME NEW p \in Procs, BrelseUnref(p) PROVE OneBufferPerBlock'
    BY <1>4, Zenon DEF IInv, BrelseUnref, Goto, OneBufferPerBlock, TypeOK
  <1>5. ASSUME NEW p \in Procs, BgetPanic(p) PROVE OneBufferPerBlock'
    BY <1>5, Zenon DEF IInv, BgetPanic, Goto, bufVars, OneBufferPerBlock, TypeOK
  <1>6. ASSUME NEW p \in Procs, NEW b \in Bufs, NEW k \in Blocks, BgetHit(p, k, b)
        PROVE  OneBufferPerBlock'
    BY <1>6, Zenon DEF IInv, BgetHit, Goto, OneBufferPerBlock, TypeOK
  <1>7. ASSUME NEW p \in Procs, NEW b \in Bufs, NEW k \in Blocks, BgetMiss(p, k, b)
        PROVE  OneBufferPerBlock'
    BY <1>7, Zenon DEF IInv, BgetMiss, Goto, OneBufferPerBlock, TypeOK
  <1>8. ASSUME NEW p \in Procs, NEW b \in Bufs, Bwrite(p, b)
        PROVE  OneBufferPerBlock'
    BY <1>8, Zenon DEF IInv, Bwrite, bufVars, procVars, OneBufferPerBlock, TypeOK
  <1>9. ASSUME NEW p \in Procs, NEW b \in Bufs, Bpin(p, b)
        PROVE  OneBufferPerBlock'
    BY <1>9, Zenon DEF IInv, Bpin, procVars, OneBufferPerBlock, TypeOK
  <1>10. ASSUME NEW p \in Procs, NEW b \in Bufs, Bunpin(p, b)
        PROVE  OneBufferPerBlock'
    BY <1>10, Zenon DEF IInv, Bunpin, procVars, OneBufferPerBlock, TypeOK
  <1>11. ASSUME NEW p \in Procs, NEW b \in Bufs, Brelse(p, b)
        PROVE  OneBufferPerBlock'
    BY <1>11, Zenon DEF IInv, Brelse, bufVars, OneBufferPerBlock, TypeOK
  <1>12. ASSUME NEW p \in Procs, NEW b \in Bufs, NEW v \in Values, Modify(p, b, v)
        PROVE  OneBufferPerBlock'
    BY <1>12, Zenon DEF IInv, Modify, procVars, OneBufferPerBlock, TypeOK
  <1> QED
    BY NextCases, <1>1, <1>2, <1>3, <1>4, <1>5, <1>6, <1>7, <1>8, <1>9, <1>10, <1>11,
       <1>12, Zenon

\* A process goes to sleep on a lock that is held, and is woken when it is given up.
LEMMA WakeStep ==
  ASSUME IInv, [Next]_vars
  PROVE  NoLostWakeup'
  <1>1. CASE UNCHANGED vars
    BY <1>1, NoneNotBuf, Zenon DEF IInv, vars, bufVars, procVars, NoLostWakeup, CallInv,
       Calling, TypeOK, PCs
  <1>2. ASSUME NEW p \in Procs, AcquireSleep(p) PROVE NoLostWakeup'
    BY <1>2, NoneNotBuf DEF IInv, AcquireSleep, Goto, bufVars, NoLostWakeup, CallInv, Calling,
       TypeOK, PCs
  <1>3. ASSUME NEW p \in Procs, Bread(p) PROVE NoLostWakeup'
    BY <1>3, NoneNotBuf, Zenon DEF IInv, Bread, Goto, NoLostWakeup, CallInv, Calling,
       TypeOK, PCs
  <1>4. ASSUME NEW p \in Procs, BrelseUnref(p) PROVE NoLostWakeup'
    BY <1>4, NoneNotBuf, Zenon DEF IInv, BrelseUnref, Goto, NoLostWakeup, CallInv,
       Calling, TypeOK, PCs
  <1>5. ASSUME NEW p \in Procs, BgetPanic(p) PROVE NoLostWakeup'
    BY <1>5, NoneNotBuf, Zenon DEF IInv, BgetPanic, Goto, bufVars, NoLostWakeup, CallInv,
       Calling, TypeOK, PCs
  <1>6. ASSUME NEW p \in Procs, NEW b \in Bufs, NEW k \in Blocks, BgetHit(p, k, b)
        PROVE  NoLostWakeup'
    BY <1>6, NoneNotBuf, Zenon DEF IInv, BgetHit, Goto, NoLostWakeup, CallInv, Calling,
       TypeOK, PCs
  <1>7. ASSUME NEW p \in Procs, NEW b \in Bufs, NEW k \in Blocks, BgetMiss(p, k, b)
        PROVE  NoLostWakeup'
    <2>1. \A q \in Procs : cur[q] # b /\ b \notin mine[q]
      BY <1>7, UnusedFree, Zenon DEF BgetMiss
    <2>2. pins[b] = 0 /\ locked[b] = None /\ ~dirty[b]
      BY <1>7, UnusedFree, Zenon DEF BgetMiss
    <2> QED
      BY <1>7, <2>1, <2>2, NoneNotBuf, Zenon DEF IInv, BgetMiss, Goto, NoLostWakeup,
         CallInv, Calling, TypeOK, PCs
  <1>8. ASSUME NEW p \in Procs, NEW b \in Bufs, Bwrite(p, b)
        PROVE  NoLostWakeup'
    BY <1>8, NoneNotBuf, Zenon DEF IInv, Bwrite, bufVars, procVars, NoLostWakeup,
       CallInv, Calling, TypeOK, PCs
  <1>9. ASSUME NEW p \in Procs, NEW b \in Bufs, Bpin(p, b)
        PROVE  NoLostWakeup'
    BY <1>9, NoneNotBuf, Zenon DEF IInv, Bpin, procVars, NoLostWakeup, CallInv, Calling,
       TypeOK, PCs
  <1>10. ASSUME NEW p \in Procs, NEW b \in Bufs, Bunpin(p, b)
        PROVE  NoLostWakeup'
    BY <1>10, NoneNotBuf, Zenon DEF IInv, Bunpin, procVars, NoLostWakeup, CallInv,
       Calling, TypeOK, PCs
  <1>11. ASSUME NEW p \in Procs, NEW b \in Bufs, Brelse(p, b)
        PROVE  NoLostWakeup'
    BY <1>11, NoneNotBuf, Zenon DEF IInv, Brelse, bufVars, NoLostWakeup, CallInv,
       Calling, TypeOK, PCs
  <1>12. ASSUME NEW p \in Procs, NEW b \in Bufs, NEW v \in Values, Modify(p, b, v)
        PROVE  NoLostWakeup'
    BY <1>12, NoneNotBuf, Zenon DEF IInv, Modify, procVars, NoLostWakeup, CallInv,
       Calling, TypeOK, PCs
  <1> QED
    BY NextCases, <1>1, <1>2, <1>3, <1>4, <1>5, <1>6, <1>7, <1>8, <1>9, <1>10, <1>11,
       <1>12, Zenon

\* A modified buffer is locked or pinned until it is on the disk.
LEMMA DataStep ==
  ASSUME IInv, [Next]_vars
  PROVE  DataInv'
  <1>1. CASE UNCHANGED vars
    BY <1>1, NoneNotBuf, Zenon DEF IInv, vars, bufVars, procVars, DataInv, HolderInv,
       CallInv, Calling, TypeOK, PCs
  <1>2. ASSUME NEW p \in Procs, AcquireSleep(p) PROVE DataInv'
    BY <1>2, NoneNotBuf DEF IInv, AcquireSleep, Goto, bufVars, DataInv, HolderInv, CallInv,
       Calling, TypeOK, PCs
  <1>3. ASSUME NEW p \in Procs, Bread(p) PROVE DataInv'
    BY <1>3, NoneNotBuf DEF IInv, Bread, Goto, DataInv, HolderInv, CallInv, Calling, TypeOK, PCs
  <1>4. ASSUME NEW p \in Procs, BrelseUnref(p) PROVE DataInv'
    BY <1>4, NoneNotBuf, Zenon DEF IInv, BrelseUnref, Goto, DataInv, HolderInv, CallInv,
       Calling, TypeOK, PCs
  <1>5. ASSUME NEW p \in Procs, BgetPanic(p) PROVE DataInv'
    BY <1>5, NoneNotBuf, Zenon DEF IInv, BgetPanic, Goto, bufVars, DataInv, HolderInv,
       CallInv, Calling, TypeOK, PCs
  <1>6. ASSUME NEW p \in Procs, NEW b \in Bufs, NEW k \in Blocks, BgetHit(p, k, b)
        PROVE  DataInv'
    BY <1>6, NoneNotBuf, Zenon DEF IInv, BgetHit, Goto, DataInv, HolderInv, CallInv,
       Calling, TypeOK, PCs
  <1>7. ASSUME NEW p \in Procs, NEW b \in Bufs, NEW k \in Blocks, BgetMiss(p, k, b)
        PROVE  DataInv'
    <2>1. \A q \in Procs : cur[q] # b /\ b \notin mine[q]
      BY <1>7, UnusedFree, Zenon DEF BgetMiss
    <2>2. pins[b] = 0 /\ locked[b] = None /\ ~dirty[b]
      BY <1>7, UnusedFree, Zenon DEF BgetMiss
    <2> QED
      BY <1>7, <2>1, <2>2, NoneNotBuf DEF IInv, BgetMiss, Goto, DataInv, HolderInv, CallInv,
         Calling, TypeOK, PCs
  <1>8. ASSUME NEW p \in Procs, NEW b \in Bufs, Bwrite(p, b)
        PROVE  DataInv'
    <2>1. blockno[b] \in Blocks /\ None \notin Blocks
      BY <1>8, BioAssumption, Zenon DEF IInv, CallInv, Bwrite
    <2>2. \A c \in Bufs : blockno[c] = blockno[b] => c = b
      BY <2>1, Zenon DEF IInv, OneBufferPerBlock
    <2> QED
      BY <1>8, <2>1, <2>2, Zenon DEF IInv, Bwrite, bufVars, procVars, DataInv, TypeOK
  <1>9. ASSUME NEW p \in Procs, NEW b \in Bufs, Bpin(p, b)
        PROVE  DataInv'
    BY <1>9, NoneNotBuf DEF IInv, Bpin, procVars, DataInv, HolderInv, CallInv, Calling, TypeOK, PCs
  <1>10. ASSUME NEW p \in Procs, NEW b \in Bufs, Bunpin(p, b)
        PROVE  DataInv'
    BY <1>10, NoneNotBuf DEF IInv, Bunpin, procVars, DataInv, HolderInv, CallInv, Calling,
       TypeOK, PCs
  <1>11. ASSUME NEW p \in Procs, NEW b \in Bufs, Brelse(p, b)
        PROVE  DataInv'
    BY <1>11, NoneNotBuf DEF IInv, Brelse, bufVars, DataInv, HolderInv, CallInv, Calling,
       TypeOK, PCs
  <1>12. ASSUME NEW p \in Procs, NEW b \in Bufs, NEW v \in Values, Modify(p, b, v)
        PROVE  DataInv'
    BY <1>12, NoneNotBuf DEF IInv, Modify, procVars, DataInv, HolderInv, CallInv, Calling,
       TypeOK, PCs
  <1> QED
    BY NextCases, <1>1, <1>2, <1>3, <1>4, <1>5, <1>6, <1>7, <1>8, <1>9, <1>10, <1>11,
       <1>12, Zenon

\* Steps that touch neither references nor users.
LEMMA SameUsers ==
  ASSUME IInv, UNCHANGED <<cur, mine, refcnt, pins>>
  PROVE  RefcntExact'
  BY Zenon DEF IInv, RefcntExact, Users

\* A reference is taken and dropped with the use that it stands for.
LEMMA RefcntStep ==
  ASSUME IInv, [Next]_vars
  PROVE  RefcntExact'
  <1>1. CASE UNCHANGED vars
    BY <1>1, SameUsers, Zenon DEF vars, bufVars, procVars
  <1>2. ASSUME NEW p \in Procs, AcquireSleep(p) PROVE RefcntExact'
    <2>1. UNCHANGED <<cur, mine, refcnt, pins>>
      BY <1>2, Zenon DEF AcquireSleep, bufVars
    <2> QED
      BY <2>1, SameUsers, Zenon
  <1>3. ASSUME NEW p \in Procs, Bread(p) PROVE RefcntExact'
    <2>1. /\ cur[p] \in Bufs /\ cur' = [cur EXCEPT ![p] = None]
          /\ mine' = [mine EXCEPT ![p] = @ \cup {cur[p]}] /\ None \notin Bufs
      BY <1>3, NoneNotBuf, Zenon DEF IInv, Bread, CallInv, Calling
    <2>2. \A c \in Bufs : Users(c)' = Users(c)
      BY <2>1, Zenon DEF Users, IInv, TypeOK
    <2> QED
      BY <1>3, <2>2, Zenon DEF IInv, RefcntExact, Bread
  <1>4. ASSUME NEW p \in Procs, BrelseUnref(p) PROVE RefcntExact'
    <2> DEFINE b == cur[p]
    <2>1. b \in Bufs /\ b \notin mine[p] /\ None \notin Bufs
      BY <1>4, NoneNotBuf, Zenon DEF IInv, BrelseUnref, CallInv, Calling
    <2>2. /\ cur' = [cur EXCEPT ![p] = None] /\ mine' = mine
          /\ refcnt' = [refcnt EXCEPT ![b] = refcnt[b] - 1] /\ pins' = pins
      BY <1>4, Zenon DEF BrelseUnref
    <2>4. ASSUME NEW c \in Bufs
          PROVE  refcnt'[c] = Cardinality({q \in Procs : cur'[q] = c \/ c \in mine'[q]}) + pins'[c]
      <3>1. Cardinality(Users(c)) \in Nat /\ pins[c] \in Nat
        BY UsersFinite, Zenon DEF IInv, TypeOK
      <3>2. refcnt[c] = Cardinality(Users(c)) + pins[c]
        BY Zenon DEF IInv, RefcntExact
      <3>3. CASE c = b
        <4>1. p \in Users(c)
          BY <3>3, Zenon DEF Users
        <4>2. {q \in Procs : cur'[q] = c \/ c \in mine'[q]} = Users(c) \ {p}
          BY <3>3, <2>1, <2>2, Zenon DEF Users, IInv, TypeOK
        <4>3. Cardinality(Users(c) \ {p}) = Cardinality(Users(c)) - 1
          BY <4>1, UsersFinite, FS_RemoveElement, Zenon
        <4>4. refcnt'[c] = refcnt[c] - 1 /\ pins'[c] = pins[c]
          BY <3>3, <2>2, Zenon DEF IInv, TypeOK
        <4>5. Cardinality({q \in Procs : cur'[q] = c \/ c \in mine'[q]}) = Cardinality(Users(c)) - 1
          BY <4>2, <4>3, Zenon
        <4>6. refcnt[c] - 1 = (Cardinality(Users(c)) - 1) + pins[c]
          BY <3>1, <3>2
        <4> QED
          BY <4>4, <4>5, <4>6, Zenon
      <3>4. CASE c # b
        <4>1. {q \in Procs : cur'[q] = c \/ c \in mine'[q]} = Users(c)
          BY <3>4, <2>1, <2>2, Zenon DEF Users, IInv, TypeOK
        <4>2. refcnt'[c] = refcnt[c] /\ pins'[c] = pins[c]
          BY <3>4, <2>2, Zenon DEF IInv, TypeOK
        <4> QED
          BY <3>2, <4>1, <4>2, Zenon
      <3> QED
        BY <3>3, <3>4, Zenon
    <2> QED
      BY <2>4, Zenon DEF RefcntExact, Users
  <1>5. ASSUME NEW p \in Procs, BgetPanic(p) PROVE RefcntExact'
    <2>1. UNCHANGED <<cur, mine, refcnt, pins>>
      BY <1>5, Zenon DEF BgetPanic, bufVars
    <2> QED
      BY <2>1, SameUsers, Zenon
  <1>6. ASSUME NEW p \in Procs, NEW b \in Bufs, NEW k \in Blocks, BgetHit(p, k, b)
        PROVE  RefcntExact'
    <2>1. cur[p] \notin Bufs /\ cur' = [cur EXCEPT ![p] = b] /\ mine' = mine /\ b \notin mine[p]
      BY <1>6, Zenon DEF IInv, BgetHit, CallInv, Calling
    <2>2. Users(b)' = Users(b) \cup {p} /\ p \notin Users(b)
      BY <2>1 DEF Users, IInv, TypeOK
    <2>3. \A c \in Bufs \ {b} : Users(c)' = Users(c)
      BY <2>1, Zenon DEF Users, IInv, TypeOK
    <2>4. Cardinality(Users(b)') = Cardinality(Users(b)) + 1
      BY <2>2, UsersFinite, FS_AddElement, Zenon
    <2>5. Cardinality(Users(b)) \in Nat /\ pins[b] \in Nat
      BY UsersFinite, Zenon DEF IInv, TypeOK
    <2>6. refcnt' = [refcnt EXCEPT ![b] = refcnt[b] + 1] /\ pins' = pins
      BY <1>6, Zenon DEF BgetHit
    <2>7. refcnt'[b] = Cardinality(Users(b)') + pins'[b]
      <3>1. refcnt[b] = Cardinality(Users(b)) + pins[b]
        BY Zenon DEF IInv, RefcntExact
      <3>2. refcnt'[b] = refcnt[b] + 1 /\ pins'[b] = pins[b]
        BY <2>6, Zenon DEF IInv, TypeOK
      <3>3. refcnt[b] + 1 = (Cardinality(Users(b)) + 1) + pins[b]
        BY <2>5, <3>1
      <3> QED
        BY <2>4, <3>2, <3>3, Zenon
    <2>8. ASSUME NEW c \in Bufs, c # b PROVE refcnt'[c] = Cardinality(Users(c)') + pins'[c]
      <3>1. refcnt'[c] = refcnt[c] /\ pins'[c] = pins[c] /\ Users(c)' = Users(c)
        BY <2>3, <2>6, <2>8, Zenon DEF IInv, TypeOK
      <3> QED
        BY <3>1, Zenon DEF IInv, RefcntExact
    <2> QED
      BY <2>7, <2>8, Zenon DEF RefcntExact
  <1>7. ASSUME NEW p \in Procs, NEW b \in Bufs, NEW k \in Blocks, BgetMiss(p, k, b)
        PROVE  RefcntExact'
    <2>1. cur[p] \notin Bufs /\ cur' = [cur EXCEPT ![p] = b] /\ mine' = mine /\ b \notin mine[p]
      BY <1>7, UnusedFree, Zenon DEF IInv, BgetMiss, CallInv, Calling
    <2>2. Users(b)' = Users(b) \cup {p} /\ p \notin Users(b)
      BY <2>1 DEF Users, IInv, TypeOK
    <2>3. \A c \in Bufs \ {b} : Users(c)' = Users(c)
      BY <2>1, Zenon DEF Users, IInv, TypeOK
    <2>4. Cardinality(Users(b)') = Cardinality(Users(b)) + 1
      BY <2>2, UsersFinite, FS_AddElement, Zenon
    <2>5. Cardinality(Users(b)) \in Nat /\ pins[b] \in Nat
      BY UsersFinite, Zenon DEF IInv, TypeOK
    <2>6. refcnt' = [refcnt EXCEPT ![b] = refcnt[b] + 1] /\ pins' = pins
      BY <1>7 DEF BgetMiss
    <2>7. refcnt'[b] = Cardinality(Users(b)') + pins'[b]
      <3>1. refcnt[b] = Cardinality(Users(b)) + pins[b]
        BY Zenon DEF IInv, RefcntExact
      <3>2. refcnt'[b] = refcnt[b] + 1 /\ pins'[b] = pins[b]
        BY <2>6, Zenon DEF IInv, TypeOK
      <3>3. refcnt[b] + 1 = (Cardinality(Users(b)) + 1) + pins[b]
        BY <2>5, <3>1
      <3> QED
        BY <2>4, <3>2, <3>3, Zenon
    <2>8. ASSUME NEW c \in Bufs, c # b PROVE refcnt'[c] = Cardinality(Users(c)') + pins'[c]
      <3>1. refcnt'[c] = refcnt[c] /\ pins'[c] = pins[c] /\ Users(c)' = Users(c)
        BY <2>3, <2>6, <2>8, Zenon DEF IInv, TypeOK
      <3> QED
        BY <3>1, Zenon DEF IInv, RefcntExact
    <2> QED
      BY <2>7, <2>8, Zenon DEF RefcntExact
  <1>8. ASSUME NEW p \in Procs, NEW b \in Bufs, Bwrite(p, b)
        PROVE  RefcntExact'
    <2>1. UNCHANGED <<cur, mine, refcnt, pins>>
      BY <1>8, Zenon DEF Bwrite, bufVars, procVars
    <2> QED
      BY <2>1, SameUsers, Zenon
  <1>9. ASSUME NEW p \in Procs, NEW b \in Bufs, Bpin(p, b)
        PROVE  RefcntExact'
    <2>1. \A c \in Bufs : Users(c)' = Users(c)
      BY <1>9, Zenon DEF Bpin, procVars, Users
    <2>2. Cardinality(Users(b)) \in Nat /\ pins[b] \in Nat
      BY UsersFinite, Zenon DEF IInv, TypeOK
    <2> QED
      BY <1>9, <2>1, <2>2 DEF IInv, TypeOK, RefcntExact, Bpin
  <1>10. ASSUME NEW p \in Procs, NEW b \in Bufs, Bunpin(p, b)
        PROVE  RefcntExact'
    <2>1. \A c \in Bufs : Users(c)' = Users(c)
      BY <1>10, Zenon DEF Bunpin, procVars, Users
    <2>2. Cardinality(Users(b)) \in Nat /\ pins[b] \in Nat
      BY UsersFinite, Zenon DEF IInv, TypeOK
    <2> QED
      BY <1>10, <2>1, <2>2 DEF IInv, TypeOK, RefcntExact, Bunpin
  <1>11. ASSUME NEW p \in Procs, NEW b \in Bufs, Brelse(p, b)
        PROVE  RefcntExact'
    <2>1. /\ cur[p] \notin Bufs /\ b \in mine[p] /\ cur' = [cur EXCEPT ![p] = b]
          /\ mine' = [mine EXCEPT ![p] = @ \ {b}]
      BY <1>11, Zenon DEF IInv, Brelse, CallInv, Calling
    <2>2. \A c \in Bufs : Users(c)' = Users(c)
      BY <2>1, Zenon DEF Users, IInv, TypeOK
    <2> QED
      BY <1>11, <2>2, Zenon DEF IInv, RefcntExact, Brelse, bufVars
  <1>12. ASSUME NEW p \in Procs, NEW b \in Bufs, NEW v \in Values, Modify(p, b, v)
        PROVE  RefcntExact'
    <2>1. UNCHANGED <<cur, mine, refcnt, pins>>
      BY <1>12, Zenon DEF Modify, procVars
    <2> QED
      BY <2>1, SameUsers, Zenon
  <1> QED
    BY NextCases, <1>1, <1>2, <1>3, <1>4, <1>5, <1>6, <1>7, <1>8, <1>9, <1>10, <1>11,
       <1>12, Zenon
-----------------------------------------------------------------------------
\* The initial states: no buffer has a block, none is used.
LEMMA InitIInv == Init => IInv
  <1> SUFFICES ASSUME Init PROVE IInv
    OBVIOUS
  <1>1. TypeOK
    <2>1. PICK v \in Values : data = [b \in Bufs |-> v]
      BY Zenon DEF Init
    <2>2. [j \in Bufs |-> NBUF + 1 - j] \in [Bufs -> Bufs]
      BY BioAssumption DEF Bufs
    <2> QED
      BY <2>1, <2>2, Zenon DEF Init, TypeOK, PCs
  <1>2. CallInv /\ HolderInv
    BY NoneNotBuf, Zenon DEF Init, CallInv, Calling, HolderInv
  <1>3. DataInv /\ OneBufferPerBlock /\ NoLostWakeup
    BY Zenon DEF Init, DataInv, OneBufferPerBlock, NoLostWakeup
  <1>4. RefcntExact
    <2>1. \A b \in Bufs : Users(b) = {}
      BY NoneNotBuf, Zenon DEF Init, Users
    <2>2. Cardinality({}) = 0
      BY FS_EmptySet, Zenon
    <2>3. ASSUME NEW b \in Bufs PROVE refcnt[b] = Cardinality(Users(b)) + pins[b]
      <3>1. refcnt[b] = 0 /\ pins[b] = 0 /\ Cardinality(Users(b)) = 0
        BY <2>1, <2>2, Zenon DEF Init
      <3> QED
        BY <3>1
    <2> QED
      BY <2>3, Zenon DEF RefcntExact
  <1> QED
    BY <1>1, <1>2, <1>3, <1>4, Zenon DEF IInv

\* The invariant of the buffer cache.
THEOREM BioInvariant == Spec => []IInv
  <1>1. IInv /\ [Next]_vars => IInv'
    BY TypeStep, FlowStep, HolderStep, DataStep, OneBufferStep, RefcntStep, WakeStep,
       Zenon DEF IInv
  <1> QED
    BY InitIInv, <1>1, PTL DEF Spec

\* bget never gives a block a second buffer, for any number of buffers and
\* processes, although it waits for the buffer's lock without bcache.lock.
THEOREM BioOneBufferPerBlock == Spec => []OneBufferPerBlock
  BY BioInvariant, PTL DEF IInv

\* b->refcnt is the number of users, waiters and pins: brelse and bunpin never
\* drop a reference that somebody relies on, and none leaks.
THEOREM BioRefcntExact == Spec => []RefcntExact
  BY BioInvariant, PTL DEF IInv

\* acquiresleep and releasesleep leave no process asleep on a free buffer.
THEOREM BioNoLostWakeup == Spec => []NoLostWakeup
  BY BioInvariant, PTL DEF IInv
-----------------------------------------------------------------------------
(* The cache implements the block store. *)

\* The store shows of a cached block what its one buffer holds,
LEMMA Shown ==
  ASSUME OneBufferPerBlock, NEW b \in Bufs, NEW k \in Blocks, blockno[b] = k
  PROVE  Content[k] = (IF valid[b] THEN data[b] ELSE disk[k]) /\ Holder[k] = locked[b]
  <1>1. k # None
    BY BioAssumption, Zenon
  <1>2. BufferOf(k) = b /\ Cached(k)
    BY <1>1, Zenon DEF OneBufferPerBlock, BufferOf, Cached
  <1> QED
    BY <1>2, Zenon DEF Content, Holder

\* and of any other block what is on the disk;
LEMMA NotShown ==
  ASSUME NEW k \in Blocks, \A b \in Bufs : blockno[b] # k
  PROVE  Content[k] = disk[k] /\ Holder[k] = None
  BY Zenon DEF Content, Holder, Cached

\* and the same in the next state.
LEMMA ShownNext ==
  ASSUME OneBufferPerBlock', NEW b \in Bufs, NEW k \in Blocks, blockno'[b] = k
  PROVE  Content'[k] = (IF valid'[b] THEN data'[b] ELSE disk'[k]) /\ Holder'[k] = locked'[b]
  <1>1. k # None
    BY BioAssumption, Zenon
  <1>2. BufferOf(k)' = b /\ Cached(k)'
    BY <1>1, Zenon DEF OneBufferPerBlock, BufferOf, Cached
  <1> QED
    BY <1>2, Zenon DEF Content, Holder

\* The same for a block that is not cached in the next state.
LEMMA NotShownNext ==
  ASSUME NEW k \in Blocks, \A b \in Bufs : blockno'[b] # k
  PROVE  Content'[k] = disk'[k] /\ Holder'[k] = None
  BY Zenon DEF Content, Holder, Cached

\* Content and Holder are functions on the blocks, equal when they agree there.
LEMMA SameView ==
  /\ (\A k \in Blocks : Content'[k] = Content[k]) => Content' = Content
  /\ (\A k \in Blocks : Holder'[k] = Holder[k]) => Holder' = Holder
  BY Zenon DEF Content, Holder

\* A function that agrees with Content or Holder but for one block.
LEMMA OneChange ==
  ASSUME NEW h \in Blocks, NEW v
  PROVE  /\ Content'[h] = v /\ (\A k \in Blocks \ {h} : Content'[k] = Content[k])
              => Content' = [Content EXCEPT ![h] = v]
         /\ Holder'[h] = v /\ (\A k \in Blocks \ {h} : Holder'[k] = Holder[k])
              => Holder' = [Holder EXCEPT ![h] = v]
  BY Zenon DEF Content, Holder

\* A step that changes one buffer shows in the buffer's block only.
LEMMA OtherBlocks ==
  ASSUME OneBufferPerBlock, OneBufferPerBlock', UNCHANGED blockno, NEW b \in Bufs,
         \A c \in Bufs \ {b} : valid'[c] = valid[c] /\ data'[c] = data[c] /\ locked'[c] = locked[c],
         \A k \in Blocks \ {blockno[b]} : disk'[k] = disk[k],
         NEW k \in Blocks \ {blockno[b]}
  PROVE  Content'[k] = Content[k] /\ Holder'[k] = Holder[k]
  <1>1. CASE \E c \in Bufs : blockno[c] = k
    <2>1. PICK c \in Bufs : blockno[c] = k
      BY <1>1, Zenon
    <2>2. c # b /\ blockno'[c] = k /\ disk'[k] = disk[k]
      BY <2>1, Zenon
    <2>3. valid'[c] = valid[c] /\ data'[c] = data[c] /\ locked'[c] = locked[c]
      BY <2>2, Zenon
    <2>4. /\ Content[k] = (IF valid[c] THEN data[c] ELSE disk[k]) /\ Holder[k] = locked[c]
          /\ Content'[k] = (IF valid'[c] THEN data'[c] ELSE disk'[k]) /\ Holder'[k] = locked'[c]
      BY <2>1, <2>2, Shown, ShownNext, Zenon
    <2> QED
      BY <2>2, <2>3, <2>4, Zenon
  <1>2. CASE \A c \in Bufs : blockno[c] # k
    BY <1>2, NotShown, NotShownNext, Zenon
  <1> QED
    BY <1>1, <1>2, Zenon

\* acquiresleep by the process p that gets the lock of b takes the block.
LEMMA TakeStep ==
  ASSUME IInv, IInv', NEW p \in Procs, AcquireSleep(p), locked[cur[p]] = None
  PROVE  \E k \in Blocks : Store!Take(p, k)
  <1> DEFINE b == cur[p]
             h == blockno[b]
  <1>1. b \in Bufs /\ h \in Blocks /\ OneBufferPerBlock /\ OneBufferPerBlock'
    BY Zenon DEF IInv, CallInv, Calling, AcquireSleep
  <1>2. UNCHANGED <<blockno, valid, data, disk>> /\ locked' = [locked EXCEPT ![b] = p]
    BY Zenon DEF AcquireSleep, bufVars
  <1>3. \A c \in Bufs \ {b} : valid'[c] = valid[c] /\ data'[c] = data[c] /\ locked'[c] = locked[c]
    BY <1>1, <1>2, Zenon DEF IInv, TypeOK
  <1>4. \A k \in Blocks \ {h} : Content'[k] = Content[k] /\ Holder'[k] = Holder[k]
    BY <1>1, <1>2, <1>3, OtherBlocks, Zenon
  <1>5. Holder[h] = None /\ Holder'[h] = p
    <2>1. Holder[h] = locked[b] /\ Holder'[h] = locked'[b]
      BY <1>1, <1>2, Shown, ShownNext, Zenon
    <2>2. locked'[b] = p
      BY <1>1, <1>2, Zenon DEF IInv, TypeOK
    <2> QED
      BY <2>1, <2>2, Zenon
  <1>6. Holder' = [Holder EXCEPT ![h] = p]
    BY <1>1, <1>4, <1>5, OneChange, Zenon
  <1>7. Content' = Content
    BY <1>2, Zenon DEF Content, Cached, BufferOf
  <1> QED
    BY <1>1, <1>5, <1>6, <1>7, Zenon DEF Store!Take

\* brelse by its holder gives the block up.
LEMMA GiveStep ==
  ASSUME IInv, IInv', NEW p \in Procs, NEW b \in Bufs, Brelse(p, b)
  PROVE  \E k \in Blocks : Store!Give(p, k)
  <1> DEFINE h == blockno[b]
  <1>1. /\ h \in Blocks /\ OneBufferPerBlock /\ OneBufferPerBlock' /\ locked[b] = p
    BY Zenon DEF IInv, CallInv, HolderInv, Brelse
  <1>2. UNCHANGED <<blockno, valid, data, disk>> /\ locked' = [locked EXCEPT ![b] = None]
    BY Zenon DEF Brelse, bufVars
  <1>3. \A c \in Bufs \ {b} : valid'[c] = valid[c] /\ data'[c] = data[c] /\ locked'[c] = locked[c]
    BY <1>2, Zenon DEF IInv, TypeOK
  <1>4. \A k \in Blocks \ {h} : Content'[k] = Content[k] /\ Holder'[k] = Holder[k]
    BY <1>1, <1>2, <1>3, OtherBlocks, Zenon
  <1>5. Holder[h] = p /\ Holder'[h] = None
    <2>1. Holder[h] = locked[b] /\ Holder'[h] = locked'[b]
      BY <1>1, <1>2, Shown, ShownNext, Zenon
    <2>2. locked'[b] = None
      BY <1>2, Zenon DEF IInv, TypeOK
    <2> QED
      BY <1>1, <2>1, <2>2, Zenon
  <1>6. Holder' = [Holder EXCEPT ![h] = None]
    BY <1>1, <1>4, <1>5, OneChange, Zenon
  <1>7. Content' = Content
    BY <1>2, Zenon DEF Content, Cached, BufferOf
  <1> QED
    BY <1>1, <1>5, <1>6, <1>7, Zenon DEF Store!Give

\* A change of the data of a buffer by its holder writes the block.
LEMMA WriteStep ==
  ASSUME IInv, IInv', NEW p \in Procs, NEW b \in Bufs, NEW v \in Values, Modify(p, b, v)
  PROVE  \E k \in Blocks : Store!Write(p, k, v)
  <1> DEFINE h == blockno[b]
  <1>1. /\ h \in Blocks /\ OneBufferPerBlock /\ OneBufferPerBlock' /\ locked[b] = p /\ valid[b]
    BY Zenon DEF IInv, CallInv, HolderInv, DataInv, Modify
  <1>2. UNCHANGED <<blockno, valid, locked, disk>> /\ data' = [data EXCEPT ![b] = v]
    BY Zenon DEF Modify
  <1>3. \A c \in Bufs \ {b} : valid'[c] = valid[c] /\ data'[c] = data[c] /\ locked'[c] = locked[c]
    BY <1>2, Zenon DEF IInv, TypeOK
  <1>4. \A k \in Blocks \ {h} : Content'[k] = Content[k] /\ Holder'[k] = Holder[k]
    BY <1>1, <1>2, <1>3, OtherBlocks, Zenon
  <1>5. Holder[h] = p /\ Content'[h] = v
    <2>1. Holder[h] = locked[b] /\ Content'[h] = (IF valid'[b] THEN data'[b] ELSE disk'[h])
      BY <1>1, <1>2, Shown, ShownNext, Zenon
    <2>2. valid'[b] /\ data'[b] = v
      BY <1>1, <1>2, Zenon DEF IInv, TypeOK
    <2> QED
      BY <1>1, <2>1, <2>2, Zenon
  <1>6. Content' = [Content EXCEPT ![h] = v]
    BY <1>1, <1>4, <1>5, OneChange
  <1>7. Holder' = Holder
    BY <1>2, Zenon DEF Holder, Cached, BufferOf
  <1> QED
    BY <1>1, <1>5, <1>6, <1>7, Zenon DEF Store!Write

\* Reading a block from the disk into its buffer, and writing it back, change
\* nothing that the store shows.
LEMMA DiskStep ==
  ASSUME IInv, IInv', NEW p \in Procs, Bread(p) \/ \E b \in Bufs : Bwrite(p, b)
  PROVE  UNCHANGED <<Content, Holder>>
  <1>0. OneBufferPerBlock /\ OneBufferPerBlock'
    BY Zenon DEF IInv
  <1>1. CASE Bread(p)
    <2> DEFINE b == cur[p]
               h == blockno[b]
    <2>1. b \in Bufs /\ h \in Blocks
      BY <1>1, Zenon DEF IInv, CallInv, Calling, Bread
    <2>2. /\ UNCHANGED <<blockno, locked, disk>>
          /\ data' = [data EXCEPT ![b] = IF valid[b] THEN data[b] ELSE disk[h]]
          /\ valid' = [valid EXCEPT ![b] = TRUE]
      BY <1>1, Zenon DEF Bread
    <2>3. \A c \in Bufs \ {b} : valid'[c] = valid[c] /\ data'[c] = data[c] /\ locked'[c] = locked[c]
      BY <2>1, <2>2, Zenon DEF IInv, TypeOK
    <2>4. \A k \in Blocks \ {h} : Content'[k] = Content[k] /\ Holder'[k] = Holder[k]
      BY <1>0, <2>1, <2>2, <2>3, OtherBlocks, Zenon
    <2>5. valid'[b] /\ data'[b] = (IF valid[b] THEN data[b] ELSE disk[h]) /\ locked'[b] = locked[b]
      BY <2>1, <2>2, Zenon DEF IInv, TypeOK
    <2>6. /\ Content[h] = (IF valid[b] THEN data[b] ELSE disk[h]) /\ Holder[h] = locked[b]
          /\ Content'[h] = (IF valid'[b] THEN data'[b] ELSE disk'[h]) /\ Holder'[h] = locked'[b]
      BY <1>0, <2>1, <2>2, Shown, ShownNext, Zenon
    <2> HIDE DEF b, h
    <2>7. Content'[h] = Content[h] /\ Holder'[h] = Holder[h]
      BY <2>5, <2>6, Zenon
    <2> QED
      BY <2>4, <2>7, SameView, Zenon
  <1>2. ASSUME NEW b \in Bufs, Bwrite(p, b) PROVE UNCHANGED <<Content, Holder>>
    <2> DEFINE h == blockno[b]
    <2>1. h \in Blocks /\ valid[b]
      BY <1>2, Zenon DEF IInv, CallInv, DataInv, Bwrite
    <2>2. UNCHANGED <<blockno, valid, data, locked>> /\ disk' = [disk EXCEPT ![h] = data[b]]
      BY <1>2, Zenon DEF Bwrite, bufVars
    <2>3. \A k \in Blocks \ {h} : disk'[k] = disk[k]
      BY <2>2, Zenon DEF IInv, TypeOK
    <2>4. \A k \in Blocks \ {h} : Content'[k] = Content[k] /\ Holder'[k] = Holder[k]
      BY <1>0, <2>1, <2>2, <2>3, OtherBlocks, Zenon
    <2>5. /\ Content[h] = (IF valid[b] THEN data[b] ELSE disk[h]) /\ Holder[h] = locked[b]
          /\ Content'[h] = (IF valid'[b] THEN data'[b] ELSE disk'[h]) /\ Holder'[h] = locked'[b]
      BY <1>0, <2>1, <2>2, Shown, ShownNext, Zenon
    <2>6. valid'[b] /\ data'[b] = data[b] /\ locked'[b] = locked[b]
      BY <2>1, <2>2, Zenon
    <2> HIDE DEF h
    <2>7. Content'[h] = Content[h] /\ Holder'[h] = Holder[h]
      BY <2>1, <2>5, <2>6, Zenon
    <2> QED
      BY <2>4, <2>7, SameView, Zenon
  <1> QED
    BY <1>1, <1>2, Zenon

\* Recycling a buffer shows neither in its old nor in its new block.
LEMMA RecycleStep ==
  ASSUME IInv, IInv', NEW p \in Procs, NEW k \in Blocks, NEW b \in Bufs, BgetMiss(p, k, b)
  PROVE  UNCHANGED <<Content, Holder>>
  <1>1. OneBufferPerBlock /\ OneBufferPerBlock'
    BY Zenon DEF IInv
  <1>2. locked[b] = None /\ ~dirty[b]
    BY UnusedFree, Zenon DEF BgetMiss
  <1>3. /\ UNCHANGED <<data, disk, locked>> /\ \A c \in Bufs : blockno[c] # k
        /\ blockno' = [blockno EXCEPT ![b] = k] /\ valid' = [valid EXCEPT ![b] = FALSE]
    BY Zenon DEF BgetMiss
  <1>4. blockno'[b] = k /\ ~valid'[b]
    BY <1>3, Zenon DEF IInv, TypeOK
  <1>5. \A c \in Bufs \ {b} : blockno'[c] = blockno[c] /\ valid'[c] = valid[c]
    BY <1>3, Zenon DEF IInv, TypeOK
  <1>6. ASSUME NEW h \in Blocks PROVE Content'[h] = Content[h] /\ Holder'[h] = Holder[h]
    <2>1. CASE h = k
      <3>1. Content[k] = disk[k] /\ Holder[k] = None
        BY <1>3, NotShown, Zenon
      <3>2. Content'[k] = (IF valid'[b] THEN data'[b] ELSE disk'[k]) /\ Holder'[k] = locked'[b]
        BY <1>1, <1>4, ShownNext, Zenon
      <3> QED
        BY <1>2, <1>3, <1>4, <2>1, <3>1, <3>2, Zenon
    <2>2. CASE h # k /\ blockno[b] = h
      <3>1. \A c \in Bufs : blockno'[c] # h
        BY <1>1, <1>4, <1>5, <2>2, BioAssumption, Zenon DEF OneBufferPerBlock
      <3>2. valid[b] => data[b] = disk[h]
        BY <1>2, <2>2, Zenon DEF IInv, DataInv
      <3>3. Content[h] = (IF valid[b] THEN data[b] ELSE disk[h]) /\ Holder[h] = locked[b]
        BY <1>1, <2>2, Shown, Zenon
      <3>4. Content'[h] = disk'[h] /\ Holder'[h] = None
        BY <3>1, NotShownNext, Zenon
      <3>5. disk' = disk
        BY <1>3, Zenon
      <3> QED
        BY <1>2, <3>2, <3>3, <3>4, <3>5, Zenon
    <2>3. CASE h # k /\ blockno[b] # h
      <3>1. CASE \E c \in Bufs : blockno[c] = h
        <4>1. PICK c \in Bufs : blockno[c] = h
          BY <3>1, Zenon
        <4>2. blockno'[c] = h /\ valid'[c] = valid[c] /\ data'[c] = data[c] /\ locked'[c] = locked[c]
          BY <1>3, <1>5, <2>3, <4>1, Zenon
        <4>3. disk'[h] = disk[h]
          BY <1>3, Zenon
        <4>4. /\ Content[h] = (IF valid[c] THEN data[c] ELSE disk[h]) /\ Holder[h] = locked[c]
              /\ Content'[h] = (IF valid'[c] THEN data'[c] ELSE disk'[h]) /\ Holder'[h] = locked'[c]
          BY <1>1, <4>1, <4>2, Shown, ShownNext, Zenon
        <4> QED
          BY <4>2, <4>3, <4>4, Zenon
      <3>2. CASE \A c \in Bufs : blockno[c] # h
        <4>1. \A c \in Bufs : blockno'[c] # h
          BY <1>4, <1>5, <2>3, <3>2, Zenon
        <4>2. Content[h] = disk[h] /\ Holder[h] = None /\ Content'[h] = disk'[h] /\ Holder'[h] = None
          BY <3>2, <4>1, NotShown, NotShownNext, Zenon
        <4> QED
          BY <1>3, <4>2, Zenon
      <3> QED
        BY <3>1, <3>2, Zenon
    <2> QED
      BY <2>1, <2>2, <2>3, Zenon
  <1> QED
    BY <1>6, SameView, Zenon

\* Every step of the cache is a step of the store or leaves it as it is.
LEMMA StoreStep ==
  ASSUME IInv, IInv', [Next]_vars
  PROVE  [Store!Next]_(Store!vars)
  <1> DEFINE Goal == [Store!Next]_(Store!vars)
  <1>1. ASSUME UNCHANGED <<Content, Holder>> PROVE Goal
    BY <1>1, Zenon DEF Store!vars
  <1>2. ASSUME UNCHANGED <<blockno, valid, data, disk, locked>> PROVE Goal
    <2>1. UNCHANGED <<Content, Holder>>
      BY <1>2, Zenon DEF Content, Holder, Cached, BufferOf
    <2> QED
      BY <1>1, <2>1, Zenon
  <1>3. ASSUME UNCHANGED vars PROVE Goal
    BY <1>2, <1>3, Zenon DEF vars, bufVars
  <1>4. ASSUME NEW p \in Procs, AcquireSleep(p) PROVE Goal
    <2>1. CASE locked[cur[p]] # None
      BY <1>2, <1>4, <2>1, Zenon DEF AcquireSleep, bufVars
    <2>2. CASE locked[cur[p]] = None
      BY <1>4, <2>2, TakeStep, Zenon DEF Store!Next
    <2> QED
      BY <2>1, <2>2, Zenon
  <1>5. ASSUME NEW p \in Procs, Bread(p) PROVE Goal
    BY <1>1, <1>5, DiskStep, Zenon
  <1>6. ASSUME NEW p \in Procs, BrelseUnref(p) \/ BgetPanic(p) PROVE Goal
    BY <1>2, <1>6, Zenon DEF BrelseUnref, BgetPanic, bufVars
  <1>7. ASSUME NEW p \in Procs, NEW b \in Bufs, NEW k \in Blocks, BgetHit(p, k, b) PROVE Goal
    BY <1>2, <1>7, Zenon DEF BgetHit
  <1>8. ASSUME NEW p \in Procs, NEW b \in Bufs, NEW k \in Blocks, BgetMiss(p, k, b) PROVE Goal
    BY <1>1, <1>8, RecycleStep, Zenon
  <1>9. ASSUME NEW p \in Procs, NEW b \in Bufs, Bwrite(p, b) PROVE Goal
    BY <1>1, <1>9, DiskStep, Zenon
  <1>10. ASSUME NEW p \in Procs, NEW b \in Bufs, Bpin(p, b) \/ Bunpin(p, b) PROVE Goal
    BY <1>2, <1>10, Zenon DEF Bpin, Bunpin
  <1>11. ASSUME NEW p \in Procs, NEW b \in Bufs, Brelse(p, b) PROVE Goal
    BY <1>11, GiveStep, Zenon DEF Store!Next
  <1>12. ASSUME NEW p \in Procs, NEW b \in Bufs, NEW v \in Values, Modify(p, b, v) PROVE Goal
    BY <1>12, WriteStep, Zenon DEF Store!Next
  <1> HIDE DEF Goal
  <1>13. Goal
    BY NextCases, <1>3, <1>4, <1>5, <1>6, <1>7, <1>8, <1>9, <1>10, <1>11, <1>12, Zenon
  <1> QED
    BY <1>13, Zenon DEF Goal

\* With empty buffers the store shows the disk.
LEMMA StoreInit == Init => Store!Init
  <1> SUFFICES ASSUME Init PROVE Store!Init
    OBVIOUS
  <1>1. \A k \in Blocks : ~ Cached(k)
    BY BioAssumption, Zenon DEF Init, Cached
  <1>2. Content = [k \in Blocks |-> disk[k]] /\ Holder = [k \in Blocks |-> None]
    BY <1>1, Zenon DEF Content, Holder
  <1>3. disk \in [Blocks -> Values]
    BY Zenon DEF Init
  <1> QED
    BY <1>2, <1>3, Zenon DEF Store!Init

\* bread, bwrite and brelse on NBUF recycled buffers implement a store of blocks
\* in which a block has one holder at a time, and whoever takes it next finds
\* what the last one left, whether the buffer was recycled in between or not.
THEOREM BioImplementsBlockStore == Spec => ImplementsBlockStore
  <1>1. Init => Store!Init
    BY StoreInit, Zenon
  <1>2. IInv /\ IInv' /\ [Next]_vars => [Store!Next]_(Store!vars)
    BY StoreStep, Zenon
  <1> QED
    BY BioInvariant, <1>1, <1>2, PTL DEF Spec, ImplementsBlockStore, Store!Spec
=============================================================================
