------------------------------ MODULE LogProofs --------------------------------
(***************************************************************************)
(* Proofs about Log for any number of blocks and processes, any size of    *)
(* the log, and a crash at every step: the inductive invariant IInv, that  *)
(* the log never overflows, and that Log implements AtomicDisk.            *)
(*                                                                         *)
(* The first lemmas show that a step keeps the conjuncts of IInv about the *)
(* phases of the log: types, who runs when, the count of active calls, the *)
(* headers and the sleepers.  The next ones add the pins and the copies of *)
(* the blocks: bpin and bunpin pair up, and what the cache, the log and    *)
(* the home blocks hold agrees as far as commit and recovery have got.     *)
(***************************************************************************)
EXTENDS Log, FiniteSetTheorems, SequenceTheorems, TLAPS

PCs == {"down", "idle", "begin", "asleep", "op", "write_log", "write_head", "install", "clear",
        "end", "read_head", "panic"}

TypeOK ==
  /\ home \in [Blocks -> Values]
  /\ dhead \in Seq(Blocks)
  /\ dlog \in [1 .. DiskLogSize - 1 -> Values]
  /\ cache \in [Blocks -> Values \cup {None}]
  /\ pin \in [Blocks -> Nat]
  /\ lh \in Seq(Blocks)
  /\ outstanding \in Nat
  /\ committing \in BOOLEAN /\ recovering \in BOOLEAN
  /\ pc \in [Procs -> PCs]
  /\ tail \in [Procs -> Nat]
  /\ wrote \in [Procs -> SUBSET Blocks]

InCommit == {"write_log", "write_head", "install", "clear", "end"}

Active == {p \in Procs : pc[p] = "op"}

\* Only the first process runs during recovery; after it, one process at a time
\* commits, and no system call is active meanwhile.
PhaseInv ==
  /\ recovering =>
       /\ pc[initproc] \in {"read_head", "install", "clear"}
       /\ \A p \in Procs \ {initproc} : pc[p] = "down"
       /\ outstanding = 0 /\ ~committing
  /\ ~recovering =>
       \A p \in Procs :
         /\ pc[p] \notin {"read_head", "down"}
         /\ pc[p] \in InCommit => committing /\ \A q \in Procs \ {p} : pc[q] \notin InCommit
  /\ committing => Active = {}

\* outstanding counts at least the active calls.
CountInv == Cardinality(Active) <= outstanding

Distinct(s) == \A i, j \in 1 .. Len(s) : s[i] = s[j] => i = j

\* The header in memory and on the disk name distinct blocks and fit into the
\* log; where the loop variables stand; when the headers are empty and when
\* they agree.
HeadInv ==
  /\ Distinct(lh) /\ Len(lh) <= DiskLogSize - 1
  /\ Distinct(dhead) /\ Len(dhead) <= DiskLogSize - 1
  /\ ~recovering /\ outstanding = 0 /\ ~committing => lh = <<>>
  /\ \A p \in Procs :
       /\ pc[p] \in {"write_log", "install"} => tail[p] \in 1 .. Len(lh)
       /\ pc[p] \in {"write_head", "read_head"} => tail[p] = 1
       /\ pc[p] = "write_head" => Len(lh) > 0
       /\ pc[p] \in {"read_head", "end"} => lh = <<>>
       /\ pc[p] \in {"install", "clear"} => dhead = lh
  /\ ~recovering /\ (\A p \in Procs : pc[p] \notin {"install", "clear"}) => dhead = <<>>

\* A block that is not pinned is in the cache as it is on the disk, or not at all.
CleanInv ==
  \A b \in Blocks :
    /\ pin[b] = 0 => cache[b] \in {None, home[b]}
    /\ pin[b] # 0 => cache[b] # None

\* What write_log and install_trans have done so far.
ProgressInv ==
  \A p \in Procs :
    /\ pc[p] = "write_log" => \A j \in 1 .. tail[p] - 1 : dlog[j] = cache[lh[j]]
    /\ pc[p] = "write_head" => \A j \in 1 .. Len(lh) : dlog[j] = cache[lh[j]]
    /\ pc[p] = "install" =>
         /\ \A j \in 1 .. tail[p] - 1 : home[lh[j]] = dlog[j]
         /\ ~recovering => \A j \in tail[p] .. Len(lh) : cache[lh[j]] = dlog[j]
    /\ pc[p] = "clear" => \A j \in 1 .. Len(lh) : home[lh[j]] = dlog[j]

\* The inductive invariant.
IInv == /\ TypeOK /\ PhaseInv /\ CountInv /\ HeadInv /\ CleanInv /\ ProgressInv
        /\ PinnedOnce /\ NoneForgotten
-----------------------------------------------------------------------------
\* The initial states.
LEMMA InitIInv == Init => IInv
  <1> SUFFICES ASSUME Init PROVE IInv
    OBVIOUS
  <1>1. TypeOK
    <2>1. PICK v \in Values : dlog = [i \in 1 .. DiskLogSize - 1 |-> v]
      BY Zenon DEF Init
    <2>2. dlog \in [1 .. DiskLogSize - 1 -> Values]
      BY <2>1, Zenon
    <2>3. <<>> \in Seq(Blocks)
      BY EmptySeq, Zenon
    <2> QED
      BY <2>2, <2>3, Zenon DEF Init, TypeOK, PCs, Boot
  <1>2. PhaseInv
    BY LogAssumption, Zenon DEF Init, PhaseInv, Boot, InCommit
  <1>3. CountInv
    <2>1. Active = {} /\ Cardinality({}) = 0
      BY FS_EmptySet, Zenon DEF Init, Active, Boot
    <2> QED
      BY <2>1 DEF Init, CountInv
  <1>4. HeadInv
    BY LogAssumption DEF Init, HeadInv, Distinct, Boot
  <1>5. CleanInv /\ ProgressInv /\ NoneForgotten
    BY Zenon DEF Init, CleanInv, ProgressInv, NoneForgotten, Boot
  <1>6. PinnedOnce
    BY Zenon DEF Init, PinnedOnce
  <1> QED
    BY <1>1, <1>2, <1>3, <1>4, <1>5, <1>6, Zenon DEF IInv

\* An active call keeps commit and recovery away, and is counted.
LEMMA WhileActive ==
  ASSUME IInv, NEW p \in Procs, pc[p] = "op"
  PROVE  /\ ~committing /\ ~recovering /\ outstanding >= 1
         /\ \A q \in Procs : pc[q] \notin InCommit
         /\ dhead = <<>>
  <1>1. ~committing
    BY Zenon DEF IInv, PhaseInv, Active
  <1>2. ~recovering
    BY Zenon DEF IInv, PhaseInv
  <1>3. \A q \in Procs : pc[q] \notin InCommit
    BY <1>1, <1>2, Zenon DEF IInv, PhaseInv
  <1>4. dhead = <<>>
    BY <1>2, <1>3, Zenon DEF IInv, HeadInv, InCommit
  <1>5. outstanding >= 1
    <2>1. p \in Active /\ IsFiniteSet(Active)
      BY LogAssumption, FS_Subset, Zenon DEF Active
    <2>2. Cardinality(Active) \in Nat /\ Cardinality(Active) # 0
      BY <2>1, FS_CardinalityType, FS_EmptySet, Zenon
    <2> QED
      BY <2>2 DEF IInv, TypeOK, CountInv
  <1> QED
    BY <1>1, <1>2, <1>3, <1>4, <1>5, Zenon

\* Where the loops of write_log and install_trans stand.
LEMMA InLoop ==
  ASSUME IInv, NEW p \in Procs, pc[p] \in {"write_log", "install"}
  PROVE  /\ tail[p] \in 1 .. Len(lh) /\ tail[p] \in 1 .. DiskLogSize - 1
         /\ lh[tail[p]] \in Blocks
  <1>1. tail[p] \in 1 .. Len(lh) /\ Len(lh) <= DiskLogSize - 1 /\ lh \in Seq(Blocks)
    BY Zenon DEF IInv, HeadInv, TypeOK
  <1>2. Len(lh) \in Nat /\ DiskLogSize \in Nat
    BY <1>1, LenProperties, LogAssumption, Zenon
  <1>3. lh[tail[p]] \in Blocks
    BY <1>1, ElementOfSeq, Zenon
  <1> QED
    BY <1>1, <1>2, <1>3

\* The two outcomes of a round of begin_op's loop.  With no call active and no
\* commit in progress the log is empty and has room for one call.
BeginSleep(p) ==
  /\ pc[p] \in {"idle", "begin"}
  /\ \/ committing
     \/ outstanding > 0 /\ Len(lh) + (outstanding + 1) * MaxOpBlocks > LogSize
  /\ Goto(p, "asleep")
  /\ UNCHANGED <<diskVars, memVars, recovering, tail, wrote>>

BeginGo(p) ==
  /\ pc[p] \in {"idle", "begin"} /\ ~committing
  /\ Len(lh) + (outstanding + 1) * MaxOpBlocks <= LogSize
  /\ outstanding' = outstanding + 1
  /\ wrote' = [wrote EXCEPT ![p] = {}]
  /\ Goto(p, "op")
  /\ UNCHANGED <<diskVars, cache, pin, lh, committing, recovering, tail>>

\* begin_op does one of the two.
LEMMA BeginCases ==
  ASSUME IInv, NEW p \in Procs, BeginOp(p)
  PROVE  BeginSleep(p) \/ BeginGo(p)
  <1> DEFINE need == (outstanding + 1) * MaxOpBlocks
  <1>1. need \in Int /\ Len(lh) \in Int /\ LogSize \in Int /\ outstanding \in Nat
    BY LogAssumption, LenProperties DEF IInv, TypeOK
  <1>2. ~recovering
    BY Zenon DEF BeginOp, IInv, PhaseInv
  <1>3. outstanding = 0 /\ ~committing => Len(lh) + need <= LogSize
    <2>1. ASSUME outstanding = 0, ~committing PROVE need = MaxOpBlocks /\ Len(lh) = 0
      BY <1>2, <2>1, LogAssumption, EmptySeq DEF IInv, HeadInv
    <2> QED
      BY <2>1, LogAssumption
  <1> HIDE DEF need
  <1>4. CASE committing \/ Len(lh) + need > LogSize
    <2>1. Goto(p, "asleep") /\ UNCHANGED <<outstanding, wrote>>
      BY <1>4, Zenon DEF BeginOp, need
    <2>2. committing \/ (outstanding > 0 /\ Len(lh) + need > LogSize)
      BY <1>1, <1>3, <1>4
    <2> QED
      BY <2>1, <2>2, Zenon DEF BeginOp, BeginSleep, memVars, need
  <1>5. CASE ~(committing \/ Len(lh) + need > LogSize)
    <2>1. /\ outstanding' = outstanding + 1 /\ wrote' = [wrote EXCEPT ![p] = {}]
          /\ Goto(p, "op")
      BY <1>5, Zenon DEF BeginOp, need
    <2>2. Len(lh) + need <= LogSize
      BY <1>1, <1>5
    <2> QED
      BY <1>5, <2>1, <2>2, Zenon DEF BeginOp, BeginGo, need
  <1> QED
    BY <1>4, <1>5, Zenon

\* What install_trans has still to install is pinned, once.
LEMMA InstallPinned ==
  ASSUME IInv, ~recovering, NEW p \in Procs, pc[p] = "install", NEW i \in tail[p] .. Len(lh)
  PROVE  pin[lh[i]] = 1
  <1>1. tail[p] \in 1 .. Len(lh) /\ Len(lh) \in Nat /\ lh \in Seq(Blocks)
    BY InLoop, LenProperties, Zenon DEF IInv, TypeOK
  <1>2. i \in 1 .. Len(lh) /\ tail[p] <= i
    BY <1>1
  <1>3. lh[i] \in Blocks
    BY <1>1, <1>2, ElementOfSeq, Zenon
  <1>4. \A q \in Procs : (pc[q] = "install" => q = p) /\ pc[q] # "clear"
    BY Zenon DEF IInv, PhaseInv, InCommit
  <1> QED
    BY <1>2, <1>3, <1>4, Zenon DEF IInv, PinnedOnce

\* The three outcomes of log_write, and the two of end_op: with a call active,
\* log.committing is not set.
LogPanic(p) ==
  /\ pc[p] = "op"
  /\ Goto(p, "panic")
  /\ UNCHANGED <<diskVars, memVars, recovering, tail, wrote>>

LogAbsorb(p, b, v) ==
  /\ pc[p] = "op" /\ \E i \in 1 .. Len(lh) : lh[i] = b
  /\ cache' = [cache EXCEPT ![b] = v]
  /\ wrote' = [wrote EXCEPT ![p] = @ \cup {b}]
  /\ UNCHANGED <<diskVars, pin, lh, outstanding, committing, recovering, pc, tail>>

LogNew(p, b, v) ==
  /\ pc[p] = "op" /\ \A i \in 1 .. Len(lh) : lh[i] # b
  /\ Len(lh) < DiskLogSize - 1
  /\ cache' = [cache EXCEPT ![b] = v]
  /\ lh' = Append(lh, b)
  /\ pin' = [pin EXCEPT ![b] = @ + 1]
  /\ wrote' = [wrote EXCEPT ![p] = @ \cup {b}]
  /\ UNCHANGED <<diskVars, outstanding, committing, recovering, pc, tail>>

EndMore(p) ==
  /\ pc[p] = "op" /\ outstanding > 1
  /\ outstanding' = outstanding - 1
  /\ tail' = [tail EXCEPT ![p] = 1]
  /\ Wakeup(p, "idle")
  /\ UNCHANGED <<diskVars, cache, pin, lh, committing, recovering, wrote>>

EndLast(p) ==
  /\ pc[p] = "op" /\ outstanding = 1
  /\ outstanding' = 0
  /\ tail' = [tail EXCEPT ![p] = 1]
  /\ committing' = TRUE
  /\ Goto(p, IF lh = <<>> THEN "end" ELSE "write_log")
  /\ UNCHANGED <<diskVars, cache, pin, lh, recovering, wrote>>

\* log_write does one of the three.
LEMMA LogWriteCases ==
  ASSUME IInv, NEW p \in Procs, NEW b \in Blocks, NEW v \in Values, LogWrite(p, b, v)
  PROVE  LogPanic(p) \/ LogAbsorb(p, b, v) \/ LogNew(p, b, v)
  <1>1. Len(lh) \in Nat /\ DiskLogSize \in Nat
    BY LogAssumption, LenProperties, Zenon DEF IInv, TypeOK
  <1>2. CASE Len(lh) >= LogSize \/ Len(lh) >= DiskLogSize - 1 \/ outstanding < 1
    BY <1>2, Zenon DEF LogWrite, LogPanic, memVars
  <1>3. CASE ~(Len(lh) >= LogSize \/ Len(lh) >= DiskLogSize - 1 \/ outstanding < 1)
    <2>1. Len(lh) < DiskLogSize - 1
      BY <1>1, <1>3
    <2>2. CASE Absorbed(b)
      BY <1>3, <2>2, Zenon DEF LogWrite, LogAbsorb, Absorbed
    <2>3. CASE ~ Absorbed(b)
      BY <1>3, <2>1, <2>3, Zenon DEF LogWrite, LogNew, Absorbed, bpin
    <2> QED
      BY <2>2, <2>3, Zenon
  <1> QED
    BY <1>2, <1>3, Zenon

\* end_op does one of the two.
LEMMA EndOpCases ==
  ASSUME IInv, NEW p \in Procs, EndOp(p)
  PROVE  EndMore(p) \/ EndLast(p)
  <1>1. ~committing /\ outstanding >= 1 /\ outstanding \in Nat
    BY WhileActive, Zenon DEF EndOp, IInv, TypeOK
  <1>2. CASE outstanding = 1
    BY <1>1, <1>2 DEF EndOp, EndLast
  <1>3. CASE outstanding # 1
    BY <1>1, <1>3 DEF EndOp, EndMore
  <1> QED
    BY <1>2, <1>3, Zenon

\* The steps of the log, one by one.
LEMMA NextCases ==
  ASSUME IInv, [Next]_vars
  PROVE  \/ \E p \in Procs : \/ BeginSleep(p) \/ BeginGo(p) \/ LogPanic(p)
                             \/ EndMore(p) \/ EndLast(p)
                             \/ WriteLog(p) \/ WriteHead(p) \/ InstallTrans(p) \/ ClearHead(p)
                             \/ EndCommit(p) \/ ReadHead(p)
         \/ \E p \in Procs, b \in Blocks, v \in Values : LogAbsorb(p, b, v) \/ LogNew(p, b, v)
         \/ \E b \in Blocks : Load(b) \/ Evict(b)
         \/ Crash
         \/ UNCHANGED vars
  <1>1. ASSUME NEW p \in Procs, BeginOp(p) PROVE BeginSleep(p) \/ BeginGo(p)
    BY <1>1, BeginCases, Zenon
  <1>2. ASSUME NEW p \in Procs, EndOp(p) PROVE EndMore(p) \/ EndLast(p)
    BY <1>2, EndOpCases, Zenon
  <1>3. ASSUME NEW p \in Procs, NEW b \in Blocks, NEW v \in Values, LogWrite(p, b, v)
        PROVE  LogPanic(p) \/ LogAbsorb(p, b, v) \/ LogNew(p, b, v)
    BY <1>3, LogWriteCases, Zenon
  <1> QED
    BY <1>1, <1>2, <1>3, Zenon DEF Next, CommitStep

\* The loops leave their variables in their types.
LEMMA RoundType ==
  ASSUME pc \in [Procs -> PCs], tail \in [Procs -> Nat], NEW p \in Procs, NEW label \in PCs,
         Round(p, label)
  PROVE  pc' \in [Procs -> PCs] /\ tail' \in [Procs -> Nat]
  <1>1. CASE tail[p] = Len(lh)
    BY <1>1 DEF Round, Goto
  <1>2. CASE tail[p] # Len(lh)
    BY <1>2 DEF Round, Goto
  <1> QED
    BY <1>1, <1>2, Zenon

\* Every variable keeps its type.
LEMMA TypeStep ==
  ASSUME IInv, [Next]_vars
  PROVE  TypeOK'
  <1>1. ASSUME NEW p \in Procs, BeginSleep(p) PROVE TypeOK'
    BY <1>1, Zenon DEF IInv, BeginSleep, Goto, diskVars, memVars, TypeOK, PCs
  <1>2. ASSUME NEW p \in Procs, BeginGo(p) PROVE TypeOK'
    BY <1>2 DEF IInv, BeginGo, Goto, diskVars, TypeOK, PCs
  <1>3. ASSUME NEW p \in Procs, LogPanic(p) PROVE TypeOK'
    BY <1>3, Zenon DEF IInv, LogPanic, Goto, diskVars, memVars, TypeOK, PCs
  <1>4. ASSUME NEW p \in Procs, NEW b \in Blocks, NEW v \in Values, LogAbsorb(p, b, v)
        PROVE  TypeOK'
    BY <1>4, Zenon DEF IInv, LogAbsorb, diskVars, TypeOK, PCs
  <1>5. ASSUME NEW p \in Procs, NEW b \in Blocks, NEW v \in Values, LogNew(p, b, v)
        PROVE  TypeOK'
    <2>1. Append(lh, b) \in Seq(Blocks)
      BY AppendProperties, Zenon DEF IInv, TypeOK
    <2> QED
      BY <1>5, <2>1 DEF IInv, LogNew, diskVars, TypeOK
  <1>6. ASSUME NEW p \in Procs, EndMore(p) PROVE TypeOK'
    BY <1>6 DEF IInv, EndMore, Wakeup, diskVars, TypeOK, PCs
  <1>7. ASSUME NEW p \in Procs, EndLast(p) PROVE TypeOK'
    BY <1>7, Zenon DEF IInv, EndLast, Goto, diskVars, TypeOK, PCs
  <1>8. ASSUME NEW p \in Procs, WriteLog(p) PROVE TypeOK'
    <2>1. tail[p] \in 1 .. DiskLogSize - 1 /\ lh[tail[p]] \in Blocks
      BY <1>8, InLoop, Zenon DEF WriteLog
    <2>2. bread(lh[tail[p]]) \in Values
      BY <2>1, Zenon DEF bread, IInv, TypeOK
    <2>3. dlog' \in [1 .. DiskLogSize - 1 -> Values] /\ cache' \in [Blocks -> Values \cup {None}]
      BY <1>8, <2>1, <2>2, Zenon DEF WriteLog, IInv, TypeOK
    <2>4. pc' \in [Procs -> PCs] /\ tail' \in [Procs -> Nat]
      <3>1. "write_head" \in PCs /\ pc \in [Procs -> PCs] /\ tail \in [Procs -> Nat]
        BY Zenon DEF IInv, TypeOK, PCs
      <3> QED
        BY <1>8, <3>1, RoundType, Zenon DEF WriteLog
    <2> QED
      BY <1>8, <2>3, <2>4, Zenon DEF IInv, WriteLog, TypeOK
  <1>9. ASSUME NEW p \in Procs, WriteHead(p) PROVE TypeOK'
    BY <1>9, Zenon DEF IInv, WriteHead, Goto, memVars, TypeOK, PCs
  <1>10. ASSUME NEW p \in Procs, InstallTrans(p) PROVE TypeOK'
    <2>1. /\ tail[p] \in 1 .. DiskLogSize - 1 /\ lh[tail[p]] \in Blocks
          /\ tail[p] \in 1 .. Len(lh)
      BY <1>10, InLoop, Zenon DEF InstallTrans
    <2>2. ~recovering => pin[lh[tail[p]]] = 1
      <3>1. tail[p] \in tail[p] .. Len(lh)
        BY <2>1
      <3> QED
        BY <1>10, <3>1, InstallPinned, Zenon DEF InstallTrans
    <2>3. /\ home' \in [Blocks -> Values] /\ cache' \in [Blocks -> Values \cup {None}]
          /\ pin' \in [Blocks -> Nat]
      BY <1>10, <2>1, <2>2 DEF InstallTrans, IInv, TypeOK
    <2>4. pc' \in [Procs -> PCs] /\ tail' \in [Procs -> Nat]
      <3>1. "clear" \in PCs /\ pc \in [Procs -> PCs] /\ tail \in [Procs -> Nat]
        BY Zenon DEF IInv, TypeOK, PCs
      <3> QED
        BY <1>10, <3>1, RoundType, Zenon DEF InstallTrans
    <2> QED
      BY <1>10, <2>3, <2>4, Zenon DEF IInv, InstallTrans, TypeOK
  <1>11. ASSUME NEW p \in Procs, ClearHead(p) PROVE TypeOK'
    <2>1. lh' \in Seq(Blocks) /\ dhead' \in Seq(Blocks)
      BY <1>11, EmptySeq, Zenon DEF ClearHead
    <2>2. pc \in [Procs -> PCs] /\ "idle" \in PCs /\ "end" \in PCs
      BY Zenon DEF IInv, TypeOK, PCs
    <2>3. pc' \in [Procs -> PCs]
      BY <1>11, <2>2, Zenon DEF ClearHead
    <2>4. recovering' = FALSE
          /\ UNCHANGED <<home, dlog, cache, pin, outstanding, committing, tail, wrote>>
      BY <1>11, Zenon DEF ClearHead
    <2> QED
      BY <2>1, <2>3, <2>4, Zenon DEF IInv, TypeOK
  <1>12. ASSUME NEW p \in Procs, EndCommit(p) PROVE TypeOK'
    BY <1>12, Zenon DEF IInv, EndCommit, Wakeup, diskVars, TypeOK, PCs
  <1>13. ASSUME NEW p \in Procs, ReadHead(p) PROVE TypeOK'
    BY <1>13, Zenon DEF IInv, ReadHead, Goto, diskVars, TypeOK, PCs
  <1>14. ASSUME NEW b \in Blocks, Load(b) PROVE TypeOK'
    BY <1>14, Zenon DEF IInv, Load, diskVars, procVars, TypeOK, PCs
  <1>15. ASSUME NEW b \in Blocks, Evict(b) PROVE TypeOK'
    BY <1>15, Zenon DEF IInv, Evict, diskVars, procVars, TypeOK, PCs
  <1>16. ASSUME Crash PROVE TypeOK'
    BY <1>16, EmptySeq, Zenon DEF IInv, Crash, Boot, diskVars, TypeOK, PCs
  <1>17. ASSUME UNCHANGED vars PROVE TypeOK'
    BY <1>17, Zenon DEF IInv, vars, diskVars, memVars, procVars, TypeOK, PCs
  <1> QED
    BY NextCases, <1>1, <1>2, <1>3, <1>4, <1>5, <1>6, <1>7, <1>8, <1>9, <1>10, <1>11,
       <1>12, <1>13, <1>14, <1>15, <1>16, <1>17, Zenon

\* The active calls are finitely many.
LEMMA ActiveFinite == IsFiniteSet(Active) /\ Cardinality(Active) \in Nat
  <1>1. IsFiniteSet(Active)
    BY LogAssumption, FS_Subset, Zenon DEF Active
  <1> QED
    BY <1>1, FS_CardinalityType, Zenon

\* The last active call is the only one.
LEMMA LastActive ==
  ASSUME IInv, NEW p \in Procs, pc[p] = "op", outstanding = 1
  PROVE  Active = {p}
  <1>1. p \in Active
    BY Zenon DEF Active
  <1>2. Cardinality(Active) <= 1
    BY Zenon DEF IInv, CountInv
  <1>3. Cardinality(Active \ {p}) = Cardinality(Active) - 1 /\ IsFiniteSet(Active \ {p})
    BY <1>1, ActiveFinite, FS_RemoveElement, Zenon
  <1>4. Cardinality(Active \ {p}) \in Nat
    BY <1>3, FS_CardinalityType, Zenon
  <1>5. Cardinality(Active \ {p}) = 0
    BY <1>2, <1>3, <1>4, ActiveFinite
  <1>6. Active \ {p} = {}
    BY <1>3, <1>5, FS_EmptySet, Zenon
  <1> QED
    BY <1>1, <1>6, Zenon

\* One commit at a time, and none while a call is active.
LEMMA PhaseStep ==
  ASSUME IInv, [Next]_vars
  PROVE  PhaseInv'
  <1>1. ASSUME NEW p \in Procs, BeginSleep(p) PROVE PhaseInv'
    BY <1>1, LogAssumption, Zenon DEF IInv, BeginSleep, Goto, diskVars, memVars,
       PhaseInv, InCommit, Active, TypeOK, PCs
  <1>2. ASSUME NEW p \in Procs, BeginGo(p) PROVE PhaseInv'
    BY <1>2, LogAssumption, Zenon DEF IInv, BeginGo, Goto, diskVars, PhaseInv, InCommit,
       Active, TypeOK, PCs
  <1>3. ASSUME NEW p \in Procs, LogPanic(p) PROVE PhaseInv'
    BY <1>3, LogAssumption, Zenon DEF IInv, LogPanic, Goto, diskVars, memVars, PhaseInv,
       InCommit, Active, TypeOK, PCs
  <1>4. ASSUME NEW p \in Procs, NEW b \in Blocks, NEW v \in Values, LogAbsorb(p, b, v)
        PROVE  PhaseInv'
    BY <1>4, LogAssumption, Zenon DEF IInv, LogAbsorb, diskVars, PhaseInv, InCommit,
       Active, TypeOK, PCs
  <1>5. ASSUME NEW p \in Procs, NEW b \in Blocks, NEW v \in Values, LogNew(p, b, v)
        PROVE  PhaseInv'
    BY <1>5, LogAssumption, Zenon DEF IInv, LogNew, diskVars, PhaseInv, InCommit, Active,
       TypeOK, PCs
  <1>6. ASSUME NEW p \in Procs, EndMore(p) PROVE PhaseInv'
    BY <1>6, LogAssumption, Zenon DEF IInv, EndMore, Wakeup, diskVars, PhaseInv,
       InCommit, Active, TypeOK, PCs
  <1>7. ASSUME NEW p \in Procs, EndLast(p) PROVE PhaseInv'
    <2>1. Active = {p}
      BY <1>7, LastActive, Zenon DEF EndLast
    <2>2. ~recovering /\ \A q \in Procs : pc[q] \notin InCommit
      BY <1>7, WhileActive, Zenon DEF EndLast
    <2> QED
      BY <1>7, <2>1, <2>2, Zenon DEF IInv, EndLast, Goto, PhaseInv, InCommit, Active,
         TypeOK
  <1>8. ASSUME NEW p \in Procs, WriteLog(p) PROVE PhaseInv'
    <2>1. pc' = pc \/ pc' = [pc EXCEPT ![p] = "write_head"]
      BY <1>8, Zenon DEF WriteLog, Round, Goto
    <2>2. UNCHANGED <<recovering, outstanding, committing>> /\ pc[p] = "write_log"
      BY <1>8, Zenon DEF WriteLog
    <2>3. \A q \in Procs : pc'[q] = pc[q] \/ (q = p /\ pc'[q] = "write_head")
      <3>1. pc \in [Procs -> PCs]
        BY Zenon DEF IInv, TypeOK
      <3> QED
        BY <2>1, <3>1, Zenon
    <2>4. Active' = Active
      BY <2>2, <2>3, Zenon DEF Active
    <2>5. ~recovering
      BY <2>2, Zenon DEF IInv, PhaseInv
    <2> QED
      BY <2>2, <2>3, <2>4, <2>5, Zenon DEF IInv, PhaseInv, InCommit
  <1>9. ASSUME NEW p \in Procs, WriteHead(p) PROVE PhaseInv'
    BY <1>9, LogAssumption, Zenon DEF IInv, WriteHead, Goto, memVars, PhaseInv, InCommit,
       Active, TypeOK, PCs
  <1>10. ASSUME NEW p \in Procs, InstallTrans(p) PROVE PhaseInv'
    <2>1. pc' = pc \/ pc' = [pc EXCEPT ![p] = "clear"]
      BY <1>10, Zenon DEF InstallTrans, Round, Goto
    <2>2. UNCHANGED <<recovering, outstanding, committing>> /\ pc[p] = "install"
      BY <1>10, Zenon DEF InstallTrans
    <2> QED
      BY <2>1, <2>2, Zenon DEF IInv, PhaseInv, InCommit, Active, TypeOK
  <1>11. ASSUME NEW p \in Procs, ClearHead(p) PROVE PhaseInv'
    BY <1>11, LogAssumption, Zenon DEF IInv, ClearHead, PhaseInv, InCommit, Active,
       TypeOK, PCs
  <1>12. ASSUME NEW p \in Procs, EndCommit(p) PROVE PhaseInv'
    BY <1>12, LogAssumption, Zenon DEF IInv, EndCommit, Wakeup, diskVars, PhaseInv,
       InCommit, Active, TypeOK, PCs
  <1>13. ASSUME NEW p \in Procs, ReadHead(p) PROVE PhaseInv'
    BY <1>13, LogAssumption, Zenon DEF IInv, ReadHead, Goto, diskVars, PhaseInv,
       InCommit, Active, TypeOK, PCs
  <1>14. ASSUME NEW b \in Blocks, Load(b) PROVE PhaseInv'
    BY <1>14, LogAssumption, Zenon DEF IInv, Load, diskVars, procVars, PhaseInv,
       InCommit, Active, TypeOK, PCs
  <1>15. ASSUME NEW b \in Blocks, Evict(b) PROVE PhaseInv'
    BY <1>15, LogAssumption, Zenon DEF IInv, Evict, diskVars, procVars, PhaseInv,
       InCommit, Active, TypeOK, PCs
  <1>16. ASSUME Crash PROVE PhaseInv'
    BY <1>16, LogAssumption, Zenon DEF IInv, Crash, Boot, diskVars, PhaseInv, InCommit,
       Active, TypeOK, PCs
  <1>17. ASSUME UNCHANGED vars PROVE PhaseInv'
    BY <1>17, LogAssumption, Zenon DEF IInv, vars, diskVars, memVars, procVars, PhaseInv,
       InCommit, Active, TypeOK, PCs
  <1> QED
    BY NextCases, <1>1, <1>2, <1>3, <1>4, <1>5, <1>6, <1>7, <1>8, <1>9, <1>10, <1>11,
       <1>12, <1>13, <1>14, <1>15, <1>16, <1>17, Zenon

\* Steps that neither begin nor end a call.
LEMMA SameActive ==
  ASSUME IInv, Active' = Active, outstanding' = outstanding
  PROVE  CountInv'
  BY Zenon DEF IInv, CountInv

\* A call is counted while it is active.
LEMMA CountStep ==
  ASSUME IInv, [Next]_vars
  PROVE  CountInv'
  <1>1. ASSUME NEW p \in Procs, BeginSleep(p) PROVE CountInv'
    <2>1. Active' = Active /\ outstanding' = outstanding
      BY <1>1, Zenon DEF BeginSleep, Goto, diskVars, memVars, Active, IInv, TypeOK
    <2> QED
      BY <2>1, SameActive, Zenon
  <1>2. ASSUME NEW p \in Procs, BeginGo(p) PROVE CountInv'
    <2>1. Active' = Active \cup {p} /\ p \notin Active /\ outstanding' = outstanding + 1
      BY <1>2, Zenon DEF BeginGo, Goto, Active, IInv, TypeOK
    <2>2. Cardinality(Active \cup {p}) = Cardinality(Active) + 1
      BY <2>1, ActiveFinite, FS_AddElement, Zenon
    <2>3. Cardinality(Active') <= outstanding'
      BY <2>1, <2>2, ActiveFinite DEF IInv, TypeOK, CountInv
    <2> QED
      BY <2>3, Zenon DEF CountInv
  <1>3. ASSUME NEW p \in Procs, LogPanic(p) PROVE CountInv'
    <2>1. Active' = Active \ {p} /\ p \in Active
      BY <1>3, Zenon DEF LogPanic, Goto, diskVars, memVars, Active, IInv, TypeOK
    <2>2. outstanding' >= outstanding - 1
      BY <1>3 DEF LogPanic, Goto, diskVars, memVars, IInv, TypeOK
    <2>3. Cardinality(Active \ {p}) = Cardinality(Active) - 1
      BY <2>1, ActiveFinite, FS_RemoveElement, Zenon
    <2>4. Cardinality(Active') <= outstanding'
      BY <2>1, <2>2, <2>3, ActiveFinite, TypeStep DEF IInv, TypeOK, CountInv
    <2> QED
      BY <2>4, Zenon DEF CountInv
  <1>4. ASSUME NEW p \in Procs, NEW b \in Blocks, NEW v \in Values, LogAbsorb(p, b, v)
        PROVE  CountInv'
    <2>1. Active' = Active /\ outstanding' = outstanding
      BY <1>4, Zenon DEF LogAbsorb, diskVars, Active, IInv, TypeOK
    <2> QED
      BY <2>1, SameActive, Zenon
  <1>5. ASSUME NEW p \in Procs, NEW b \in Blocks, NEW v \in Values, LogNew(p, b, v)
        PROVE  CountInv'
    <2>1. Active' = Active /\ outstanding' = outstanding
      BY <1>5, Zenon DEF LogNew, diskVars, Active, IInv, TypeOK
    <2> QED
      BY <2>1, SameActive, Zenon
  <1>6. ASSUME NEW p \in Procs, EndMore(p) PROVE CountInv'
    <2>1. Active' = Active \ {p} /\ p \in Active
      BY <1>6, Zenon DEF EndMore, Wakeup, diskVars, Active, IInv, TypeOK
    <2>2. outstanding' >= outstanding - 1
      BY <1>6 DEF EndMore, Wakeup, diskVars, IInv, TypeOK
    <2>3. Cardinality(Active \ {p}) = Cardinality(Active) - 1
      BY <2>1, ActiveFinite, FS_RemoveElement, Zenon
    <2>4. Cardinality(Active') <= outstanding'
      BY <2>1, <2>2, <2>3, ActiveFinite, TypeStep DEF IInv, TypeOK, CountInv
    <2> QED
      BY <2>4, Zenon DEF CountInv
  <1>7. ASSUME NEW p \in Procs, EndLast(p) PROVE CountInv'
    <2>1. Active' = Active \ {p} /\ p \in Active
      BY <1>7, Zenon DEF EndLast, Goto, diskVars, Active, IInv, TypeOK
    <2>2. outstanding' >= outstanding - 1
      BY <1>7 DEF EndLast, Goto, diskVars, IInv, TypeOK
    <2>3. Cardinality(Active \ {p}) = Cardinality(Active) - 1
      BY <2>1, ActiveFinite, FS_RemoveElement, Zenon
    <2>4. Cardinality(Active') <= outstanding'
      BY <2>1, <2>2, <2>3, ActiveFinite, TypeStep DEF IInv, TypeOK, CountInv
    <2> QED
      BY <2>4, Zenon DEF CountInv
  <1>8. ASSUME NEW p \in Procs, WriteLog(p) PROVE CountInv'
    <2>1. pc' = pc \/ pc' = [pc EXCEPT ![p] = "write_head"]
      BY <1>8, Zenon DEF WriteLog, Round, Goto
    <2>2. Active' = Active /\ outstanding' = outstanding
      BY <1>8, <2>1, Zenon DEF WriteLog, Active, IInv, TypeOK
    <2> QED
      BY <2>2, SameActive, Zenon
  <1>9. ASSUME NEW p \in Procs, WriteHead(p) PROVE CountInv'
    <2>1. Active' = Active /\ outstanding' = outstanding
      BY <1>9, Zenon DEF WriteHead, Goto, memVars, Active, IInv, TypeOK
    <2> QED
      BY <2>1, SameActive, Zenon
  <1>10. ASSUME NEW p \in Procs, InstallTrans(p) PROVE CountInv'
    <2>1. pc' = pc \/ pc' = [pc EXCEPT ![p] = "clear"]
      BY <1>10, Zenon DEF InstallTrans, Round, Goto
    <2>2. Active' = Active /\ outstanding' = outstanding
      BY <1>10, <2>1, Zenon DEF InstallTrans, Active, IInv, TypeOK
    <2> QED
      BY <2>2, SameActive, Zenon
  <1>11. ASSUME NEW p \in Procs, ClearHead(p) PROVE CountInv'
    <2>1. recovering => Active = {}
      BY Zenon DEF IInv, PhaseInv, Active
    <2>2. Active' = Active /\ outstanding' = outstanding
      BY <1>11, <2>1, Zenon DEF ClearHead, Active, IInv, TypeOK
    <2> QED
      BY <2>2, SameActive, Zenon
  <1>12. ASSUME NEW p \in Procs, EndCommit(p) PROVE CountInv'
    <2>1. Active' = Active /\ outstanding' = outstanding
      BY <1>12, Zenon DEF EndCommit, Wakeup, diskVars, Active, IInv, TypeOK
    <2> QED
      BY <2>1, SameActive, Zenon
  <1>13. ASSUME NEW p \in Procs, ReadHead(p) PROVE CountInv'
    <2>1. Active' = Active /\ outstanding' = outstanding
      BY <1>13, Zenon DEF ReadHead, Goto, diskVars, Active, IInv, TypeOK
    <2> QED
      BY <2>1, SameActive, Zenon
  <1>14. ASSUME NEW b \in Blocks, Load(b) PROVE CountInv'
    <2>1. Active' = Active /\ outstanding' = outstanding
      BY <1>14, Zenon DEF Load, diskVars, procVars, Active, IInv, TypeOK
    <2> QED
      BY <2>1, SameActive, Zenon
  <1>15. ASSUME NEW b \in Blocks, Evict(b) PROVE CountInv'
    <2>1. Active' = Active /\ outstanding' = outstanding
      BY <1>15, Zenon DEF Evict, diskVars, procVars, Active, IInv, TypeOK
    <2> QED
      BY <2>1, SameActive, Zenon
  <1>16. ASSUME Crash PROVE CountInv'
    <2>1. Active' = {} /\ outstanding' = 0
      BY <1>16, Zenon DEF Crash, Boot, Active
    <2> QED
      BY <2>1, FS_EmptySet DEF CountInv
  <1>17. ASSUME UNCHANGED vars PROVE CountInv'
    <2>1. Active' = Active /\ outstanding' = outstanding
      BY <1>17, Zenon DEF vars, memVars, procVars, Active
    <2> QED
      BY <2>1, SameActive, Zenon
  <1> QED
    BY NextCases, <1>1, <1>2, <1>3, <1>4, <1>5, <1>6, <1>7, <1>8, <1>9, <1>10, <1>11,
       <1>12, <1>13, <1>14, <1>15, <1>16, <1>17, Zenon

\* A step that leaves the header and the counts alone puts nobody to sleep.
LEMMA SameSleepers ==
  ASSUME NoneForgotten, UNCHANGED <<lh, outstanding, committing>>,
         \A q \in Procs : pc'[q] = "asleep" => pc[q] = "asleep"
  PROVE  NoneForgotten'
  BY Zenon DEF NoneForgotten

\* Whoever sleeps in begin_op has to, and is going to be woken.
LEMMA ForgottenStep ==
  ASSUME IInv, [Next]_vars
  PROVE  NoneForgotten'
  <1> USE DEF diskVars, memVars, procVars
  <1>0. /\ NoneForgotten /\ pc \in [Procs -> PCs] /\ lh \in Seq(Blocks)
        /\ outstanding \in Nat
    BY Zenon DEF IInv, TypeOK
  <1>a. Len(lh) \in Nat /\ LogSize \in Nat /\ MaxOpBlocks \in Nat
    BY <1>0, LogAssumption, LenProperties
  <1>1. ASSUME NEW p \in Procs, BeginSleep(p) PROVE NoneForgotten'
    BY <1>1, Zenon DEF BeginSleep, NoneForgotten
  <1>2. ASSUME NEW p \in Procs, BeginGo(p) PROVE NoneForgotten'
    <2> DEFINE need == (outstanding + 1) * MaxOpBlocks
    <2>1. need \in Int
      BY <1>0, <1>a
    <2>2. ~committing /\ Len(lh) + need <= LogSize /\ pc' = [pc EXCEPT ![p] = "op"]
      BY <1>2, Zenon DEF BeginGo, Goto
    <2> HIDE DEF need
    <2>3. ~(Len(lh) + need > LogSize)
      BY <2>1, <2>2, <1>a
    <2>4. \A q \in Procs : pc[q] # "asleep"
      BY <1>0, <2>2, <2>3, Zenon DEF NoneForgotten, need
    <2> QED
      BY <1>0, <2>2, <2>4, Zenon DEF NoneForgotten
  <1>3. ASSUME NEW p \in Procs, LogPanic(p) PROVE NoneForgotten'
    BY <1>0, <1>3, SameSleepers, Zenon DEF LogPanic, Goto
  <1>4. ASSUME NEW p \in Procs, NEW b \in Blocks, NEW v \in Values, LogAbsorb(p, b, v)
        PROVE  NoneForgotten'
    BY <1>0, <1>4, SameSleepers, Zenon DEF LogAbsorb
  <1>5. ASSUME NEW p \in Procs, NEW b \in Blocks, NEW v \in Values, LogNew(p, b, v)
        PROVE  NoneForgotten'
    <2> DEFINE need == (outstanding + 1) * MaxOpBlocks
    <2>1. need \in Int
      BY <1>0, <1>a
    <2>2. /\ lh' = Append(lh, b) /\ UNCHANGED <<outstanding, committing, pc>>
      BY <1>5, Zenon DEF LogNew
    <2>3. Len(lh') = Len(lh) + 1
      BY <1>0, <2>2, AppendProperties
    <2> HIDE DEF need
    <2>4. Len(lh) + need > LogSize => Len(lh') + need > LogSize
      BY <1>a, <2>1, <2>3
    <2> QED
      BY <1>0, <2>2, <2>4, Zenon DEF NoneForgotten, need
  <1>6. ASSUME NEW p \in Procs, EndMore(p) PROVE NoneForgotten'
    BY <1>6, Zenon DEF EndMore, Wakeup, NoneForgotten
  <1>7. ASSUME NEW p \in Procs, EndLast(p) PROVE NoneForgotten'
    BY <1>7, Zenon DEF EndLast, NoneForgotten
  <1>8. ASSUME NEW p \in Procs, WriteLog(p) PROVE NoneForgotten'
    <2>1. pc' = pc \/ pc' = [pc EXCEPT ![p] = "write_head"]
      BY <1>8, Zenon DEF WriteLog, Round, Goto
    <2> QED
      BY <1>0, <1>8, <2>1, SameSleepers, Zenon DEF WriteLog
  <1>9. ASSUME NEW p \in Procs, WriteHead(p) PROVE NoneForgotten'
    BY <1>0, <1>9, SameSleepers, Zenon DEF WriteHead, Goto
  <1>10. ASSUME NEW p \in Procs, InstallTrans(p) PROVE NoneForgotten'
    <2>1. pc' = pc \/ pc' = [pc EXCEPT ![p] = "clear"]
      BY <1>10, Zenon DEF InstallTrans, Round, Goto
    <2> QED
      BY <1>0, <1>10, <2>1, SameSleepers, Zenon DEF InstallTrans
  <1>11. ASSUME NEW p \in Procs, ClearHead(p) PROVE NoneForgotten'
    <2>1. CASE recovering
      BY <1>11, <2>1, Zenon DEF ClearHead, NoneForgotten
    <2>2. CASE ~recovering
      BY <1>11, <2>2, Zenon DEF ClearHead, NoneForgotten, IInv, PhaseInv, InCommit
    <2> QED
      BY <2>1, <2>2, Zenon
  <1>12. ASSUME NEW p \in Procs, EndCommit(p) PROVE NoneForgotten'
    BY <1>12, Zenon DEF EndCommit, Wakeup, NoneForgotten
  <1>13. ASSUME NEW p \in Procs, ReadHead(p) PROVE NoneForgotten'
    <2>1. recovering
      BY <1>13, Zenon DEF ReadHead, IInv, PhaseInv
    <2>2. \A q \in Procs : pc[q] # "asleep"
      BY <2>1, Zenon DEF IInv, PhaseInv
    <2> QED
      BY <1>0, <1>13, <2>2, Zenon DEF ReadHead, Goto, NoneForgotten
  <1>14. ASSUME NEW b \in Blocks, Load(b) PROVE NoneForgotten'
    BY <1>0, <1>14, SameSleepers, Zenon DEF Load
  <1>15. ASSUME NEW b \in Blocks, Evict(b) PROVE NoneForgotten'
    BY <1>0, <1>15, SameSleepers, Zenon DEF Evict
  <1>16. ASSUME Crash PROVE NoneForgotten'
    BY <1>16, Zenon DEF Crash, Boot, NoneForgotten
  <1>17. ASSUME UNCHANGED vars PROVE NoneForgotten'
    BY <1>0, <1>17, SameSleepers, Zenon DEF vars
  <1> QED
    BY NextCases, <1>1, <1>2, <1>3, <1>4, <1>5, <1>6, <1>7, <1>8, <1>9, <1>10, <1>11,
       <1>12, <1>13, <1>14, <1>15, <1>16, <1>17, Zenon

\* A block that is not in the log yet can be appended.
LEMMA AppendDistinct ==
  ASSUME NEW s \in Seq(Blocks), NEW b \in Blocks, Distinct(s), \A i \in 1 .. Len(s) : s[i] # b
  PROVE  Distinct(Append(s, b)) /\ Len(Append(s, b)) = Len(s) + 1
  <1>1. /\ Append(s, b) \in Seq(Blocks) /\ Len(Append(s, b)) = Len(s) + 1
        /\ \A i \in 1 .. Len(s) : Append(s, b)[i] = s[i]
        /\ Append(s, b)[Len(s) + 1] = b /\ Len(s) \in Nat
    BY AppendProperties, LenProperties
  <1>2. ASSUME NEW i \in 1 .. Len(s) + 1, NEW j \in 1 .. Len(s) + 1,
               Append(s, b)[i] = Append(s, b)[j]
        PROVE  i = j
    <2>1. i \in 1 .. Len(s) \/ i = Len(s) + 1
      BY <1>1
    <2>2. j \in 1 .. Len(s) \/ j = Len(s) + 1
      BY <1>1
    <2> QED
      BY <1>1, <1>2, <2>1, <2>2, Zenon DEF Distinct
  <1> QED
    BY <1>1, <1>2, Zenon DEF Distinct

\* The empty header.
LEMMA EmptyHead == Distinct(<<>>) /\ Len(<<>>) = 0 /\ Len(<<>>) <= DiskLogSize - 1
  <1>1. Len(<<>>) = 0
    BY EmptySeq, Zenon
  <1> QED
    BY <1>1, LogAssumption DEF Distinct

\* The headers fit into the log, and agree from the write of the header on.
LEMMA HeadStep ==
  ASSUME IInv, [Next]_vars
  PROVE  HeadInv'
  <1>1. ASSUME NEW p \in Procs, BeginSleep(p) PROVE HeadInv'
    BY <1>1, Zenon DEF IInv, BeginSleep, Goto, diskVars, memVars, HeadInv, PhaseInv,
       InCommit, TypeOK, PCs
  <1>2. ASSUME NEW p \in Procs, BeginGo(p) PROVE HeadInv'
    BY <1>2 DEF IInv, BeginGo, Goto, diskVars, HeadInv, PhaseInv, InCommit, TypeOK, PCs
  <1>3. ASSUME NEW p \in Procs, LogPanic(p) PROVE HeadInv'
    BY <1>3, Zenon DEF IInv, LogPanic, Goto, diskVars, memVars, HeadInv, PhaseInv,
       InCommit, TypeOK, PCs
  <1>4. ASSUME NEW p \in Procs, NEW b \in Blocks, NEW v \in Values, LogAbsorb(p, b, v)
        PROVE  HeadInv'
    BY <1>4, Zenon DEF IInv, LogAbsorb, diskVars, HeadInv, PhaseInv, InCommit, TypeOK,
       PCs
  <1>5. ASSUME NEW p \in Procs, NEW b \in Blocks, NEW v \in Values, LogNew(p, b, v)
        PROVE  HeadInv'
    <2>1. /\ ~committing /\ ~recovering /\ outstanding >= 1
          /\ \A q \in Procs : pc[q] \notin InCommit
          /\ dhead = <<>>
      BY <1>5, WhileActive, Zenon DEF LogNew
    <2>2. Distinct(lh') /\ Len(lh') = Len(lh) + 1
      BY <1>5, AppendDistinct, Zenon DEF LogNew, IInv, TypeOK, HeadInv
    <2>3. Len(lh') <= DiskLogSize - 1
      <3>1. Len(lh) \in Nat /\ DiskLogSize \in Nat /\ Len(lh) < DiskLogSize - 1
        BY <1>5, LenProperties, LogAssumption, Zenon DEF LogNew, IInv, TypeOK
      <3> QED
        BY <2>2, <3>1
    <2>4. UNCHANGED <<dhead, outstanding, committing, recovering, pc, tail>> /\ outstanding \in Nat
      BY <1>5, Zenon DEF LogNew, diskVars, IInv, TypeOK
    <2>5. \A q \in Procs : pc[q] # "read_head"
      BY <2>1, Zenon DEF IInv, PhaseInv
    <2> QED
      BY <2>1, <2>2, <2>3, <2>4, <2>5 DEF HeadInv, InCommit, IInv
  <1>6. ASSUME NEW p \in Procs, EndMore(p) PROVE HeadInv'
    <2>1. /\ ~committing /\ ~recovering /\ dhead = <<>>
          /\ \A q \in Procs : pc[q] \notin InCommit
      BY <1>6, WhileActive, Zenon DEF EndMore
    <2>2. \A q \in Procs : pc'[q] \notin InCommit /\ pc'[q] # "read_head"
      BY <1>6, <2>1, Zenon DEF EndMore, Wakeup, InCommit, IInv, PhaseInv
    <2>3. outstanding' # 0 /\ UNCHANGED <<lh, dhead, recovering>>
      BY <1>6 DEF EndMore, diskVars, IInv, TypeOK
    <2> QED
      BY <2>1, <2>2, <2>3, Zenon DEF HeadInv, InCommit, IInv
  <1>7. ASSUME NEW p \in Procs, EndLast(p) PROVE HeadInv'
    <2>1. /\ ~committing /\ ~recovering /\ dhead = <<>>
          /\ \A q \in Procs : pc[q] \notin InCommit
      BY <1>7, WhileActive, Zenon DEF EndLast
    <2>2. \A q \in Procs : pc[q] # "read_head"
      BY <2>1, Zenon DEF IInv, PhaseInv
    <2>3. /\ pc' = [pc EXCEPT ![p] = IF lh = <<>> THEN "end" ELSE "write_log"]
          /\ tail' = [tail EXCEPT ![p] = 1] /\ committing' = TRUE
          /\ UNCHANGED <<lh, dhead, recovering>>
      BY <1>7, Zenon DEF EndLast, Goto, diskVars
    <2>4. lh # <<>> => 1 \in 1 .. Len(lh)
      BY EmptySeq DEF IInv, TypeOK
    <2>5. pc \in [Procs -> PCs] /\ tail \in [Procs -> Nat]
      BY Zenon DEF IInv, TypeOK
    <2> QED
      BY <2>1, <2>2, <2>3, <2>4, <2>5, Zenon DEF HeadInv, InCommit, IInv
  <1>8. ASSUME NEW p \in Procs, WriteLog(p) PROVE HeadInv'
    <2>1. tail[p] \in 1 .. Len(lh) /\ Len(lh) \in Nat
      BY <1>8, InLoop, LenProperties, Zenon DEF WriteLog, IInv, TypeOK
    <2>2. \/ tail[p] = Len(lh) /\ tail' = [tail EXCEPT ![p] = 1] /\ pc' = [pc EXCEPT ![p] = "write_head"]
          \/ tail[p] # Len(lh) /\ tail' = [tail EXCEPT ![p] = tail[p] + 1] /\ pc' = pc
      BY <1>8, Zenon DEF WriteLog, Round, Goto
    <2>3. UNCHANGED <<dhead, lh, outstanding, committing, recovering>> /\ pc[p] = "write_log"
      BY <1>8, Zenon DEF WriteLog
    <2>4. pc \in [Procs -> PCs] /\ tail \in [Procs -> Nat]
      BY Zenon DEF IInv, TypeOK
    <2> QED
      BY <2>1, <2>2, <2>3, <2>4 DEF HeadInv, IInv
  <1>9. ASSUME NEW p \in Procs, WriteHead(p) PROVE HeadInv'
    <2>1. pc' = [pc EXCEPT ![p] = "install"] /\ dhead' = lh /\ pc[p] = "write_head"
      BY <1>9, Zenon DEF WriteHead, Goto
    <2>2. UNCHANGED <<lh, outstanding, committing, recovering, tail>>
      BY <1>9, Zenon DEF WriteHead, memVars
    <2>3. ~recovering /\ \A q \in Procs \ {p} : pc[q] \notin InCommit \cup {"read_head"}
      BY <2>1, LogAssumption, Zenon DEF IInv, PhaseInv, InCommit
    <2>4. tail[p] \in 1 .. Len(lh)
      <3>1. tail[p] = 1 /\ Len(lh) > 0 /\ Len(lh) \in Nat
        BY <2>1, LenProperties, Zenon DEF IInv, HeadInv, TypeOK
      <3> QED
        BY <3>1
    <2>5. pc \in [Procs -> PCs] /\ tail \in [Procs -> Nat]
      BY Zenon DEF IInv, TypeOK
    <2>6. committing
      BY <2>1, <2>3, Zenon DEF IInv, PhaseInv, InCommit
    <2> QED
      BY <2>1, <2>2, <2>3, <2>4, <2>5, <2>6, Zenon DEF HeadInv, InCommit, IInv
  <1>10. ASSUME NEW p \in Procs, InstallTrans(p) PROVE HeadInv'
    <2>1. tail[p] \in 1 .. Len(lh) /\ Len(lh) \in Nat
      BY <1>10, InLoop, LenProperties, Zenon DEF InstallTrans, IInv, TypeOK
    <2>2. \/ tail[p] = Len(lh) /\ tail' = [tail EXCEPT ![p] = 1] /\ pc' = [pc EXCEPT ![p] = "clear"]
          \/ tail[p] # Len(lh) /\ tail' = [tail EXCEPT ![p] = tail[p] + 1] /\ pc' = pc
      BY <1>10, Zenon DEF InstallTrans, Round, Goto
    <2>3. UNCHANGED <<dhead, lh, outstanding, committing, recovering>> /\ pc[p] = "install"
      BY <1>10, Zenon DEF InstallTrans
    <2>4. pc \in [Procs -> PCs] /\ tail \in [Procs -> Nat]
      BY Zenon DEF IInv, TypeOK
    <2> QED
      BY <2>1, <2>2, <2>3, <2>4 DEF HeadInv, IInv
  <1>11. ASSUME NEW p \in Procs, ClearHead(p) PROVE HeadInv'
    <2>1. lh' = <<>> /\ dhead' = <<>> /\ recovering' = FALSE
      BY <1>11, Zenon DEF ClearHead
    <2>2. \A q \in Procs : pc'[q] \notin {"write_log", "install", "write_head", "read_head", "clear"}
      <3>1. CASE recovering
        BY <1>11, <3>1, Zenon DEF ClearHead
      <3>2. CASE ~recovering
        BY <1>11, <3>2, Zenon DEF ClearHead, IInv, PhaseInv, InCommit, TypeOK
      <3> QED
        BY <3>1, <3>2, Zenon
    <2> QED
      BY <2>1, <2>2, EmptyHead, Zenon DEF HeadInv
  <1>12. ASSUME NEW p \in Procs, EndCommit(p) PROVE HeadInv'
    BY <1>12, Zenon DEF IInv, EndCommit, Wakeup, diskVars, HeadInv, PhaseInv, InCommit,
       TypeOK, PCs
  <1>13. ASSUME NEW p \in Procs, ReadHead(p) PROVE HeadInv'
    <2>1. recovering /\ p = initproc
      BY <1>13, LogAssumption, Zenon DEF ReadHead, IInv, PhaseInv
    <2>2. \A q \in Procs \ {p} : pc[q] = "down"
      BY <2>1, Zenon DEF IInv, PhaseInv
    <2>3. /\ lh' = dhead /\ UNCHANGED <<dhead, recovering, tail>> /\ tail[p] = 1
          /\ pc' = [pc EXCEPT ![p] = IF dhead = <<>> THEN "clear" ELSE "install"]
      BY <1>13, Zenon DEF ReadHead, Goto, diskVars, IInv, HeadInv
    <2>4. dhead # <<>> => 1 \in 1 .. Len(dhead)
      BY EmptySeq DEF IInv, TypeOK
    <2>5. pc \in [Procs -> PCs] /\ tail \in [Procs -> Nat]
      BY Zenon DEF IInv, TypeOK
    <2> QED
      BY <2>1, <2>2, <2>3, <2>4, <2>5, Zenon DEF HeadInv, IInv
  <1>14. ASSUME NEW b \in Blocks, Load(b) PROVE HeadInv'
    BY <1>14, Zenon DEF IInv, Load, diskVars, procVars, HeadInv, PhaseInv, InCommit,
       TypeOK, PCs
  <1>15. ASSUME NEW b \in Blocks, Evict(b) PROVE HeadInv'
    BY <1>15, Zenon DEF IInv, Evict, diskVars, procVars, HeadInv, PhaseInv, InCommit,
       TypeOK, PCs
  <1>16. ASSUME Crash PROVE HeadInv'
    <2>1. /\ lh' = <<>> /\ dhead' = dhead /\ recovering' = TRUE
          /\ \A q \in Procs : pc'[q] \in {"read_head", "down"} /\ tail'[q] = 1
      BY <1>16, Zenon DEF Crash, Boot, diskVars
    <2> QED
      BY <2>1, EmptyHead, Zenon DEF HeadInv, IInv
  <1>17. ASSUME UNCHANGED vars PROVE HeadInv'
    BY <1>17, Zenon DEF IInv, vars, diskVars, memVars, procVars, HeadInv, PhaseInv,
       InCommit, TypeOK, PCs
  <1> QED
    BY NextCases, <1>1, <1>2, <1>3, <1>4, <1>5, <1>6, <1>7, <1>8, <1>9, <1>10, <1>11,
       <1>12, <1>13, <1>14, <1>15, <1>16, <1>17, Zenon
-----------------------------------------------------------------------------
(* The pins, and the copies of the blocks. *)

\* Block b is in the log and not installed yet.
ToInstall(b) ==
  \E i \in 1 .. Len(lh) : /\ lh[i] = b
                          /\ \A p \in Procs : /\ pc[p] = "install" => tail[p] <= i
                                              /\ pc[p] # "clear"

\* Steps that leave log and installation alone.
LEMMA PinFrame ==
  ASSUME IInv, UNCHANGED <<pin, lh, recovering>>,
         \A q \in Procs : /\ pc'[q] = "install" <=> pc[q] = "install"
                          /\ pc'[q] = "clear" <=> pc[q] = "clear"
                          /\ pc[q] = "install" => tail'[q] = tail[q]
  PROVE  PinnedOnce'
  <1>1. \A b : ToInstall(b)' <=> ToInstall(b)
    BY Zenon DEF ToInstall
  <1>2. \A b \in Blocks : pin[b] = IF ~recovering /\ ToInstall(b) THEN 1 ELSE 0
    BY Zenon DEF IInv, PinnedOnce, ToInstall
  <1>3. \A b \in Blocks : pin'[b] = IF ~recovering' /\ ToInstall(b)' THEN 1 ELSE 0
    BY <1>1, <1>2, Zenon
  <1> QED
    BY <1>3, Zenon DEF PinnedOnce, ToInstall

\* A block is pinned from log_write to install_trans, once.
LEMMA PinStep ==
  ASSUME IInv, [Next]_vars
  PROVE  PinnedOnce'
  <1>1. ASSUME NEW p \in Procs, BeginSleep(p) PROVE PinnedOnce'
    <2>1. UNCHANGED <<pin, lh, recovering>>
      BY <1>1, Zenon DEF BeginSleep, Goto, diskVars, memVars
    <2>2. \A q \in Procs : /\ pc'[q] = "install" <=> pc[q] = "install"
                           /\ pc'[q] = "clear" <=> pc[q] = "clear"
                           /\ pc[q] = "install" => tail'[q] = tail[q]
      BY <1>1, Zenon DEF BeginSleep, Goto, diskVars, memVars, IInv, TypeOK
    <2> QED
      BY <2>1, <2>2, PinFrame, Zenon
  <1>2. ASSUME NEW p \in Procs, BeginGo(p) PROVE PinnedOnce'
    <2>1. UNCHANGED <<pin, lh, recovering>>
      BY <1>2, Zenon DEF BeginGo, Goto, diskVars
    <2>2. \A q \in Procs : /\ pc'[q] = "install" <=> pc[q] = "install"
                           /\ pc'[q] = "clear" <=> pc[q] = "clear"
                           /\ pc[q] = "install" => tail'[q] = tail[q]
      BY <1>2, Zenon DEF BeginGo, Goto, diskVars, IInv, TypeOK
    <2> QED
      BY <2>1, <2>2, PinFrame, Zenon
  <1>3. ASSUME NEW p \in Procs, LogPanic(p) PROVE PinnedOnce'
    <2>1. UNCHANGED <<pin, lh, recovering>>
      BY <1>3, Zenon DEF LogPanic, Goto, diskVars, memVars
    <2>2. \A q \in Procs : /\ pc'[q] = "install" <=> pc[q] = "install"
                           /\ pc'[q] = "clear" <=> pc[q] = "clear"
                           /\ pc[q] = "install" => tail'[q] = tail[q]
      BY <1>3, Zenon DEF LogPanic, Goto, diskVars, memVars, IInv, TypeOK
    <2> QED
      BY <2>1, <2>2, PinFrame, Zenon
  <1>4. ASSUME NEW p \in Procs, NEW b \in Blocks, NEW v \in Values, LogAbsorb(p, b, v)
        PROVE  PinnedOnce'
    <2>1. UNCHANGED <<pin, lh, recovering>>
      BY <1>4, Zenon DEF LogAbsorb, diskVars
    <2>2. \A q \in Procs : /\ pc'[q] = "install" <=> pc[q] = "install"
                           /\ pc'[q] = "clear" <=> pc[q] = "clear"
                           /\ pc[q] = "install" => tail'[q] = tail[q]
      BY <1>4, Zenon DEF LogAbsorb, diskVars, IInv, TypeOK
    <2> QED
      BY <2>1, <2>2, PinFrame, Zenon
  <1>5. ASSUME NEW p \in Procs, NEW b \in Blocks, NEW v \in Values, LogNew(p, b, v)
        PROVE  PinnedOnce'
    <2>1. ~recovering /\ \A q \in Procs : pc[q] \notin InCommit
      BY <1>5, WhileActive, Zenon DEF LogNew
    <2>2. /\ pin' = [pin EXCEPT ![b] = pin[b] + 1] /\ UNCHANGED <<recovering, pc, tail>>
          /\ lh' = Append(lh, b) /\ \A i \in 1 .. Len(lh) : lh[i] # b
      BY <1>5, Zenon DEF LogNew
    <2>3. /\ Len(lh') = Len(lh) + 1 /\ lh'[Len(lh) + 1] = b /\ Len(lh) \in Nat
          /\ \A i \in 1 .. Len(lh) : lh'[i] = lh[i]
      BY <2>2, AppendProperties, LenProperties DEF IInv, TypeOK
    <2>4. pin[b] = 0
      BY <2>2, Zenon DEF IInv, PinnedOnce
    <2>5. pin'[b] = 1 /\ \A c \in Blocks \ {b} : pin'[c] = pin[c]
      BY <2>2, <2>4 DEF IInv, TypeOK
    <2>6. \A c \in Blocks : (\E i \in 1 .. Len(lh') : lh'[i] = c) <=>
                            c = b \/ \E i \in 1 .. Len(lh) : lh[i] = c
      <3>1. 1 .. Len(lh') = (1 .. Len(lh)) \cup {Len(lh) + 1}
        BY <2>3
      <3> QED
        BY <2>3, <3>1, Zenon
    <2>7. \A c \in Blocks : pin[c] = IF \E i \in 1 .. Len(lh) : lh[i] = c THEN 1 ELSE 0
      BY <2>1, Zenon DEF IInv, PinnedOnce, InCommit
    <2>8. \A c \in Blocks : pin'[c] = IF \E i \in 1 .. Len(lh') : lh'[i] = c THEN 1 ELSE 0
      BY <2>5, <2>6, <2>7, Zenon
    <2> QED
      BY <2>1, <2>2, <2>8, Zenon DEF PinnedOnce, InCommit
  <1>6. ASSUME NEW p \in Procs, EndMore(p) PROVE PinnedOnce'
    <2>1. UNCHANGED <<pin, lh, recovering>>
      BY <1>6, Zenon DEF EndMore, Wakeup, diskVars
    <2>2. \A q \in Procs : /\ pc'[q] = "install" <=> pc[q] = "install"
                           /\ pc'[q] = "clear" <=> pc[q] = "clear"
                           /\ pc[q] = "install" => tail'[q] = tail[q]
      BY <1>6, Zenon DEF EndMore, Wakeup, diskVars, IInv, TypeOK
    <2> QED
      BY <2>1, <2>2, PinFrame, Zenon
  <1>7. ASSUME NEW p \in Procs, EndLast(p) PROVE PinnedOnce'
    <2>1. UNCHANGED <<pin, lh, recovering>>
      BY <1>7, Zenon DEF EndLast, Goto, diskVars
    <2>2. \A q \in Procs : /\ pc'[q] = "install" <=> pc[q] = "install"
                           /\ pc'[q] = "clear" <=> pc[q] = "clear"
                           /\ pc[q] = "install" => tail'[q] = tail[q]
      BY <1>7, Zenon DEF EndLast, Goto, diskVars, IInv, TypeOK
    <2> QED
      BY <2>1, <2>2, PinFrame, Zenon
  <1>8. ASSUME NEW p \in Procs, WriteLog(p) PROVE PinnedOnce'
    <2>1. \/ pc' = [pc EXCEPT ![p] = "write_head"] /\ tail' = [tail EXCEPT ![p] = 1]
          \/ pc' = pc /\ tail' = [tail EXCEPT ![p] = tail[p] + 1]
      BY <1>8, Zenon DEF WriteLog, Round, Goto
    <2>2. UNCHANGED <<pin, lh, recovering>> /\ pc[p] = "write_log"
      BY <1>8, Zenon DEF WriteLog
    <2>3. \A q \in Procs : /\ pc'[q] = "install" <=> pc[q] = "install"
                           /\ pc'[q] = "clear" <=> pc[q] = "clear"
                           /\ pc[q] = "install" => tail'[q] = tail[q]
      BY <2>1, <2>2, Zenon DEF IInv, TypeOK
    <2> QED
      BY <2>2, <2>3, PinFrame, Zenon
  <1>9. ASSUME NEW p \in Procs, WriteHead(p) PROVE PinnedOnce'
    <2>1. UNCHANGED <<pin, lh, recovering, tail>> /\ pc' = [pc EXCEPT ![p] = "install"] /\ pc[p] = "write_head"
      BY <1>9, Zenon DEF WriteHead, Goto, memVars
    <2>2. ~recovering /\ \A q \in Procs \ {p} : pc[q] \notin {"install", "clear"}
      BY <2>1, LogAssumption, Zenon DEF IInv, PhaseInv, InCommit
    <2>3. tail[p] = 1 /\ pc \in [Procs -> PCs]
      BY <2>1, Zenon DEF IInv, HeadInv, TypeOK
    <2>4. \A c \in Blocks : pin[c] = IF \E i \in 1 .. Len(lh) : lh[i] = c THEN 1 ELSE 0
      BY <2>1, <2>2, Zenon DEF IInv, PinnedOnce
    <2>5. \A q \in Procs : (pc'[q] = "install" => tail'[q] = 1) /\ pc'[q] # "clear"
      BY <2>1, <2>2, <2>3, Zenon
    <2> QED
      BY <2>1, <2>2, <2>4, <2>5 DEF PinnedOnce
  <1>10. ASSUME NEW p \in Procs, InstallTrans(p) PROVE PinnedOnce'
    <2> DEFINE t == tail[p]
    <2>1. t \in 1 .. Len(lh) /\ Len(lh) \in Nat /\ lh[t] \in Blocks
      BY <1>10, InLoop, LenProperties, Zenon DEF InstallTrans, IInv, TypeOK
    <2>2. \/ t = Len(lh) /\ tail' = [tail EXCEPT ![p] = 1] /\ pc' = [pc EXCEPT ![p] = "clear"]
          \/ t # Len(lh) /\ tail' = [tail EXCEPT ![p] = t + 1] /\ pc' = pc
      BY <1>10, Zenon DEF InstallTrans, Round, Goto
    <2>3. /\ UNCHANGED <<lh, recovering>> /\ pc[p] = "install"
          /\ pin' = IF recovering THEN pin ELSE [pin EXCEPT ![lh[t]] = pin[lh[t]] - 1]
      BY <1>10, Zenon DEF InstallTrans
    <2>4. pc \in [Procs -> PCs] /\ tail \in [Procs -> Nat] /\ pin \in [Blocks -> Nat]
      BY Zenon DEF IInv, TypeOK
    <2>5. CASE recovering
      BY <2>3, <2>5, Zenon DEF IInv, PinnedOnce
    <2>6. CASE ~recovering
      <3>1. \A q \in Procs \ {p} : pc[q] \notin {"install", "clear"}
        BY <2>3, <2>6, Zenon DEF IInv, PhaseInv, InCommit
      <3>2. \A c \in Blocks : pin[c] = IF \E i \in 1 .. Len(lh) : lh[i] = c /\ t <= i THEN 1 ELSE 0
        BY <2>3, <2>6, <3>1, Zenon DEF IInv, PinnedOnce
      <3>3. Distinct(lh)
        BY Zenon DEF IInv, HeadInv
      <3>4. pin[lh[t]] = 1
        BY <2>1, <3>2
      <3>5. pin'[lh[t]] = 0 /\ \A c \in Blocks \ {lh[t]} : pin'[c] = pin[c]
        BY <2>1, <2>3, <2>4, <2>6, <3>4
      <3>6. \A c \in Blocks : pin'[c] = IF \E i \in 1 .. Len(lh) : lh[i] = c /\ t < i THEN 1 ELSE 0
        <4>1. ASSUME NEW c \in Blocks, c # lh[t]
              PROVE  (\E i \in 1 .. Len(lh) : lh[i] = c /\ t <= i)
                       <=> (\E i \in 1 .. Len(lh) : lh[i] = c /\ t < i)
          BY <2>1, <4>1
        <4>2. ~ \E i \in 1 .. Len(lh) : lh[i] = lh[t] /\ t < i
          BY <2>1, <3>3 DEF Distinct
        <4> QED
          BY <3>2, <3>5, <4>1, <4>2, Zenon
      <3> HIDE DEF t
      <3>7. CASE t = Len(lh) /\ tail' = [tail EXCEPT ![p] = 1] /\ pc' = [pc EXCEPT ![p] = "clear"]
        <4>1. pc'[p] = "clear"
          BY <2>4, <3>7, Zenon
        <4>2. \A c \in Blocks : pin'[c] = 0
          BY <2>1, <3>6, <3>7
        <4> QED
          BY <4>1, <4>2, Zenon DEF PinnedOnce
      <3>8. CASE t # Len(lh) /\ tail' = [tail EXCEPT ![p] = t + 1] /\ pc' = pc
        <4>1. \A q \in Procs : pc'[q] # "clear" /\ (pc'[q] = "install" <=> q = p)
          BY <2>3, <3>1, <3>8, Zenon
        <4>2. tail'[p] = t + 1
          BY <2>4, <3>8, Zenon
        <4>3. \A i \in 1 .. Len(lh) : t < i <=> tail'[p] <= i
          BY <2>1, <4>2
        <4>4. \A i \in 1 .. Len(lh) : t < i <=> \A q \in Procs : (pc'[q] = "install" => tail'[q] <= i) /\ pc'[q] # "clear"
          BY <4>1, <4>3, Zenon
        <4>5. lh' = lh /\ ~recovering'
          BY <2>3, <2>6, Zenon
        <4> QED
          BY <3>6, <4>4, <4>5, Zenon DEF PinnedOnce
      <3> QED
        BY <2>2, <3>7, <3>8, Zenon DEF t
    <2> QED
      BY <2>5, <2>6, Zenon
  <1>11. ASSUME NEW p \in Procs, ClearHead(p) PROVE PinnedOnce'
    <2>1. \A c \in Blocks : pin[c] = 0
      BY <1>11, Zenon DEF ClearHead, IInv, PinnedOnce
    <2>2. lh' = <<>> /\ pin' = pin /\ Len(<<>>) = 0
      BY <1>11, EmptyHead, Zenon DEF ClearHead
    <2> QED
      BY <2>1, <2>2 DEF PinnedOnce
  <1>12. ASSUME NEW p \in Procs, EndCommit(p) PROVE PinnedOnce'
    <2>1. UNCHANGED <<pin, lh, recovering>>
      BY <1>12, Zenon DEF EndCommit, Wakeup, diskVars
    <2>2. \A q \in Procs : /\ pc'[q] = "install" <=> pc[q] = "install"
                           /\ pc'[q] = "clear" <=> pc[q] = "clear"
                           /\ pc[q] = "install" => tail'[q] = tail[q]
      BY <1>12, Zenon DEF EndCommit, Wakeup, diskVars, IInv, TypeOK
    <2> QED
      BY <2>1, <2>2, PinFrame, Zenon
  <1>13. ASSUME NEW p \in Procs, ReadHead(p) PROVE PinnedOnce'
    <2>1. recovering
      BY <1>13, Zenon DEF ReadHead, IInv, PhaseInv
    <2> QED
      BY <1>13, <2>1, Zenon DEF ReadHead, IInv, PinnedOnce
  <1>14. ASSUME NEW b \in Blocks, Load(b) PROVE PinnedOnce'
    <2>1. UNCHANGED <<pin, lh, recovering>>
      BY <1>14, Zenon DEF Load, diskVars, procVars
    <2>2. \A q \in Procs : /\ pc'[q] = "install" <=> pc[q] = "install"
                           /\ pc'[q] = "clear" <=> pc[q] = "clear"
                           /\ pc[q] = "install" => tail'[q] = tail[q]
      BY <1>14, Zenon DEF Load, diskVars, procVars, IInv, TypeOK
    <2> QED
      BY <2>1, <2>2, PinFrame, Zenon
  <1>15. ASSUME NEW b \in Blocks, Evict(b) PROVE PinnedOnce'
    <2>1. UNCHANGED <<pin, lh, recovering>>
      BY <1>15, Zenon DEF Evict, diskVars, procVars
    <2>2. \A q \in Procs : /\ pc'[q] = "install" <=> pc[q] = "install"
                           /\ pc'[q] = "clear" <=> pc[q] = "clear"
                           /\ pc[q] = "install" => tail'[q] = tail[q]
      BY <1>15, Zenon DEF Evict, diskVars, procVars, IInv, TypeOK
    <2> QED
      BY <2>1, <2>2, PinFrame, Zenon
  <1>16. ASSUME Crash PROVE PinnedOnce'
    BY <1>16, Zenon DEF Crash, PinnedOnce
  <1>17. ASSUME UNCHANGED vars PROVE PinnedOnce'
    <2>1. UNCHANGED <<pin, lh, recovering>>
      BY <1>17, Zenon DEF vars, diskVars, memVars, procVars
    <2>2. \A q \in Procs : /\ pc'[q] = "install" <=> pc[q] = "install"
                           /\ pc'[q] = "clear" <=> pc[q] = "clear"
                           /\ pc[q] = "install" => tail'[q] = tail[q]
      BY <1>17, Zenon DEF vars, diskVars, memVars, procVars, IInv, TypeOK
    <2> QED
      BY <2>1, <2>2, PinFrame, Zenon
  <1> QED
    BY NextCases, <1>1, <1>2, <1>3, <1>4, <1>5, <1>6, <1>7, <1>8, <1>9, <1>10, <1>11,
       <1>12, <1>13, <1>14, <1>15, <1>16, <1>17, Zenon

\* Before the commit point what is in the log is pinned and cached.
LEMMA LoggedCached ==
  ASSUME IInv, ~recovering, \A p \in Procs : pc[p] \notin {"install", "clear"},
         NEW i \in 1 .. Len(lh)
  PROVE  lh[i] \in Blocks /\ pin[lh[i]] = 1 /\ cache[lh[i]] \in Values /\ bread(lh[i]) = cache[lh[i]]
  <1>1. lh[i] \in Blocks
    BY ElementOfSeq, Zenon DEF IInv, TypeOK
  <1>2. pin[lh[i]] = 1
    BY <1>1, Zenon DEF IInv, PinnedOnce
  <1>3. cache[lh[i]] # None
    BY <1>1, <1>2 DEF IInv, CleanInv
  <1> QED
    BY <1>1, <1>2, <1>3, Zenon DEF IInv, TypeOK, bread

\* write_log reads blocks that are in the cache: it changes the log only.
LEMMA WriteLogCache ==
  ASSUME IInv, NEW p \in Procs, WriteLog(p)
  PROVE  /\ cache' = cache
         /\ ~recovering /\ \A q \in Procs : pc[q] \notin {"install", "clear"}
         /\ dlog' = [dlog EXCEPT ![tail[p]] = cache[lh[tail[p]]]]
         /\ tail[p] \in 1 .. Len(lh) /\ tail[p] \in 1 .. DiskLogSize - 1
  <1>1. ~recovering /\ \A q \in Procs : pc[q] \notin {"install", "clear"}
    BY LogAssumption, Zenon DEF WriteLog, IInv, PhaseInv, InCommit
  <1>2. tail[p] \in 1 .. Len(lh) /\ tail[p] \in 1 .. DiskLogSize - 1
    BY InLoop, Zenon DEF WriteLog
  <1>3. lh[tail[p]] \in Blocks /\ bread(lh[tail[p]]) = cache[lh[tail[p]]]
    BY <1>1, <1>2, LoggedCached, Zenon
  <1>4. cache \in [Blocks -> Values \cup {None}]
    BY Zenon DEF IInv, TypeOK
  <1>5. cache' = cache
    BY <1>3, <1>4, Zenon DEF WriteLog
  <1> QED
    BY <1>1, <1>2, <1>3, <1>5, Zenon DEF WriteLog

\* What is not pinned is as it is on the disk.
LEMMA CleanStep ==
  ASSUME IInv, [Next]_vars
  PROVE  CleanInv'
  <1>1. ASSUME NEW p \in Procs, BeginSleep(p) PROVE CleanInv'
    BY <1>1, Zenon DEF BeginSleep, Goto, diskVars, memVars, IInv, CleanInv
  <1>2. ASSUME NEW p \in Procs, BeginGo(p) PROVE CleanInv'
    BY <1>2, Zenon DEF BeginGo, Goto, diskVars, IInv, CleanInv
  <1>3. ASSUME NEW p \in Procs, LogPanic(p) PROVE CleanInv'
    BY <1>3, Zenon DEF LogPanic, Goto, diskVars, memVars, IInv, CleanInv
  <1>4. ASSUME NEW p \in Procs, NEW b \in Blocks, NEW v \in Values, LogAbsorb(p, b, v)
        PROVE  CleanInv'
    <2>1. ~recovering /\ \A q \in Procs : pc[q] \notin InCommit
      BY <1>4, WhileActive, Zenon DEF LogAbsorb
    <2>2. pin[b] = 1
      BY <1>4, <2>1, Zenon DEF LogAbsorb, IInv, PinnedOnce, InCommit
    <2>3. v # None
      BY LogAssumption, Zenon
    <2> QED
      BY <1>4, <2>2, <2>3 DEF LogAbsorb, diskVars, IInv, TypeOK, CleanInv
  <1>5. ASSUME NEW p \in Procs, NEW b \in Blocks, NEW v \in Values, LogNew(p, b, v)
        PROVE  CleanInv'
    <2>1. pin[b] + 1 # 0 /\ v # None
      BY LogAssumption DEF IInv, TypeOK
    <2> QED
      BY <1>5, <2>1, Zenon DEF LogNew, diskVars, IInv, TypeOK, CleanInv
  <1>6. ASSUME NEW p \in Procs, EndMore(p) PROVE CleanInv'
    BY <1>6, Zenon DEF EndMore, Wakeup, diskVars, IInv, CleanInv
  <1>7. ASSUME NEW p \in Procs, EndLast(p) PROVE CleanInv'
    BY <1>7, Zenon DEF EndLast, Goto, diskVars, IInv, CleanInv
  <1>8. ASSUME NEW p \in Procs, WriteLog(p) PROVE CleanInv'
    <2>1. cache' = cache
      BY <1>8, WriteLogCache, Zenon
    <2> QED
      BY <1>8, <2>1, Zenon DEF WriteLog, IInv, CleanInv
  <1>9. ASSUME NEW p \in Procs, WriteHead(p) PROVE CleanInv'
    BY <1>9, Zenon DEF WriteHead, Goto, memVars, IInv, CleanInv
  <1>10. ASSUME NEW p \in Procs, InstallTrans(p) PROVE CleanInv'
    <2> DEFINE b == lh[tail[p]]
    <2>1. b \in Blocks /\ tail[p] \in 1 .. DiskLogSize - 1 /\ tail[p] \in 1 .. Len(lh)
      BY <1>10, InLoop, Zenon DEF InstallTrans
    <2>2. /\ home' = [home EXCEPT ![b] = dlog[tail[p]]] /\ cache' = [cache EXCEPT ![b] = dlog[tail[p]]]
          /\ pin' = IF recovering THEN pin ELSE [pin EXCEPT ![b] = pin[b] - 1]
      BY <1>10, Zenon DEF InstallTrans
    <2>3. /\ home \in [Blocks -> Values] /\ cache \in [Blocks -> Values \cup {None}]
          /\ pin \in [Blocks -> Nat] /\ dlog[tail[p]] \in Values
      BY <2>1, Zenon DEF IInv, TypeOK
    <2>4. dlog[tail[p]] # None
      BY <2>3, LogAssumption, Zenon
    <2> HIDE DEF b
    <2>5. \A c \in Blocks \ {b} : home'[c] = home[c] /\ cache'[c] = cache[c] /\ pin'[c] = pin[c]
      BY <2>1, <2>2, <2>3, Zenon
    <2>6. home'[b] = dlog[tail[p]] /\ cache'[b] = dlog[tail[p]]
      BY <2>1, <2>2, <2>3, Zenon
    <2>7. \A c \in Blocks : /\ pin[c] = 0 => cache[c] \in {None, home[c]}
                            /\ pin[c] # 0 => cache[c] # None
      BY Zenon DEF IInv, CleanInv
    <2>8. \A c \in Blocks : /\ pin'[c] = 0 => cache'[c] \in {None, home'[c]}
                            /\ pin'[c] # 0 => cache'[c] # None
      BY <2>4, <2>5, <2>6, <2>7, Zenon
    <2> QED
      BY <2>8, Zenon DEF CleanInv
  <1>11. ASSUME NEW p \in Procs, ClearHead(p) PROVE CleanInv'
    BY <1>11, Zenon DEF ClearHead, IInv, CleanInv
  <1>12. ASSUME NEW p \in Procs, EndCommit(p) PROVE CleanInv'
    BY <1>12, Zenon DEF EndCommit, Wakeup, diskVars, IInv, CleanInv
  <1>13. ASSUME NEW p \in Procs, ReadHead(p) PROVE CleanInv'
    BY <1>13, Zenon DEF ReadHead, Goto, diskVars, IInv, CleanInv
  <1>14. ASSUME NEW b \in Blocks, Load(b) PROVE CleanInv'
    <2>1. home[b] # None
      BY LogAssumption, Zenon DEF IInv, TypeOK
    <2> QED
      BY <1>14, <2>1, Zenon DEF Load, diskVars, IInv, TypeOK, CleanInv
  <1>15. ASSUME NEW b \in Blocks, Evict(b) PROVE CleanInv'
    BY <1>15, Zenon DEF Evict, diskVars, IInv, TypeOK, CleanInv
  <1>16. ASSUME Crash PROVE CleanInv'
    BY <1>16, Zenon DEF Crash, CleanInv
  <1>17. ASSUME UNCHANGED vars PROVE CleanInv'
    BY <1>17, Zenon DEF vars, diskVars, memVars, procVars, IInv, CleanInv
  <1> QED
    BY NextCases, <1>1, <1>2, <1>3, <1>4, <1>5, <1>6, <1>7, <1>8, <1>9, <1>10, <1>11,
       <1>12, <1>13, <1>14, <1>15, <1>16, <1>17, Zenon

Copying == {"write_log", "write_head", "install", "clear"}

\* Nobody else copies while one does, unless it is the one.
LEMMA OneCopies ==
  ASSUME IInv, NEW p \in Procs, pc[p] \in Copying
  PROVE  /\ \A q \in Procs : pc[q] \in Copying => q = p
         /\ recovering => pc[p] \in {"install", "clear"}
  <1>1. CASE recovering
    BY <1>1, Zenon DEF IInv, PhaseInv, Copying
  <1>2. CASE ~recovering
    BY <1>2, Zenon DEF IInv, PhaseInv, Copying, InCommit
  <1> QED
    BY <1>1, <1>2, Zenon

\* Steps that leave the disk, the log and the pinned blocks alone and start no copying.
LEMMA ProgressFrame ==
  ASSUME IInv, UNCHANGED <<home, dlog, lh, recovering>>,
         \A q \in Procs : pc'[q] \in Copying => pc'[q] = pc[q] /\ tail'[q] = tail[q],
         \A b \in Blocks : pin[b] # 0 => cache'[b] = cache[b]
  PROVE  ProgressInv'
  <1> SUFFICES ASSUME NEW p \in Procs
               PROVE  /\ pc'[p] = "write_log" => \A j \in 1 .. tail'[p] - 1 : dlog'[j] = cache'[lh'[j]]
                      /\ pc'[p] = "write_head" => \A j \in 1 .. Len(lh') : dlog'[j] = cache'[lh'[j]]
                      /\ pc'[p] = "install" =>
                           /\ \A j \in 1 .. tail'[p] - 1 : home'[lh'[j]] = dlog'[j]
                           /\ ~recovering' => \A j \in tail'[p] .. Len(lh') : cache'[lh'[j]] = dlog'[j]
                      /\ pc'[p] = "clear" => \A j \in 1 .. Len(lh') : home'[lh'[j]] = dlog'[j]
    BY Zenon DEF ProgressInv
  <1>1. pc'[p] \in Copying => pc'[p] = pc[p] /\ tail'[p] = tail[p]
    OBVIOUS
  <1>2. ASSUME pc[p] \in {"write_log", "write_head"}, NEW j \in 1 .. Len(lh)
        PROVE  cache'[lh[j]] = cache[lh[j]]
    <2>1. ~recovering /\ \A q \in Procs : pc[q] \notin {"install", "clear"}
      BY <1>2, OneCopies, Zenon DEF Copying
    <2>2. lh[j] \in Blocks /\ pin[lh[j]] # 0
      BY <1>2, <2>1, LoggedCached
    <2> QED
      BY <2>2, Zenon
  <1>3. ASSUME pc[p] = "install", ~recovering, NEW j \in tail[p] .. Len(lh)
        PROVE  cache'[lh[j]] = cache[lh[j]]
    <2>1. pin[lh[j]] = 1
      BY <1>3, InstallPinned, Zenon
    <2>2. tail[p] \in 1 .. Len(lh) /\ lh \in Seq(Blocks) /\ Len(lh) \in Nat
      BY <1>3, InLoop, LenProperties, Zenon DEF IInv, TypeOK
    <2>3. lh[j] \in Blocks
      BY <2>2, ElementOfSeq
    <2> QED
      BY <2>1, <2>3
  <1>4. ASSUME pc'[p] = "write_log"
        PROVE  \A j \in 1 .. tail'[p] - 1 : dlog'[j] = cache'[lh'[j]]
    <2>1. pc[p] = "write_log" /\ tail'[p] = tail[p]
      BY <1>1, <1>4, Zenon DEF Copying
    <2>2. tail[p] \in 1 .. Len(lh) /\ Len(lh) \in Nat
      BY <2>1, InLoop, LenProperties, Zenon DEF IInv, TypeOK
    <2>3. \A j \in 1 .. tail[p] - 1 : dlog[j] = cache[lh[j]]
      BY <2>1, Zenon DEF IInv, ProgressInv
    <2>4. \A j \in 1 .. Len(lh) : cache'[lh[j]] = cache[lh[j]]
      BY <1>2, <2>1, Zenon
    <2>5. \A j \in 1 .. tail[p] - 1 : j \in 1 .. Len(lh)
      BY <2>2
    <2>6. \A j \in 1 .. tail[p] - 1 : dlog[j] = cache'[lh[j]]
      BY <2>3, <2>4, <2>5, Zenon
    <2> QED
      BY <2>1, <2>6, Zenon
  <1>5. ASSUME pc'[p] = "write_head"
        PROVE  \A j \in 1 .. Len(lh') : dlog'[j] = cache'[lh'[j]]
    <2>1. pc[p] = "write_head"
      BY <1>1, <1>5, Zenon DEF Copying
    <2>2. \A j \in 1 .. Len(lh) : dlog[j] = cache[lh[j]]
      BY <2>1, Zenon DEF IInv, ProgressInv
    <2>3. \A j \in 1 .. Len(lh) : dlog[j] = cache'[lh[j]]
      BY <1>2, <2>1, <2>2, Zenon
    <2> QED
      BY <2>3, Zenon
  <1>6. ASSUME pc'[p] = "install"
        PROVE  /\ \A j \in 1 .. tail'[p] - 1 : home'[lh'[j]] = dlog'[j]
               /\ ~recovering' => \A j \in tail'[p] .. Len(lh') : cache'[lh'[j]] = dlog'[j]
    <2>1. pc[p] = "install" /\ tail'[p] = tail[p]
      BY <1>1, <1>6, Zenon DEF Copying
    <2>2. /\ \A j \in 1 .. tail[p] - 1 : home[lh[j]] = dlog[j]
          /\ ~recovering => \A j \in tail[p] .. Len(lh) : cache[lh[j]] = dlog[j]
      BY <2>1, Zenon DEF IInv, ProgressInv
    <2>3. ~recovering => \A j \in tail[p] .. Len(lh) : cache'[lh[j]] = dlog[j]
      BY <1>3, <2>1, <2>2, Zenon
    <2> QED
      BY <2>1, <2>2, <2>3, Zenon
  <1>7. ASSUME pc'[p] = "clear" PROVE \A j \in 1 .. Len(lh') : home'[lh'[j]] = dlog'[j]
    <2>1. pc[p] = "clear"
      BY <1>1, <1>7, Zenon DEF Copying
    <2> QED
      BY <2>1, Zenon DEF IInv, ProgressInv
  <1> QED
    BY <1>4, <1>5, <1>6, <1>7, Zenon

\* The rounds of the two loops.
LEMMA RoundCases ==
  ASSUME IInv, NEW p \in Procs, NEW label, Round(p, label), pc[p] \in {"write_log", "install"}
  PROVE  \/ tail[p] = Len(lh) /\ pc' = [pc EXCEPT ![p] = label] /\ tail'[p] = 1
         \/ tail[p] < Len(lh) /\ pc' = pc /\ tail'[p] = tail[p] + 1
  <1>1. tail[p] \in 1 .. Len(lh) /\ Len(lh) \in Nat /\ tail \in [Procs -> Nat]
    BY InLoop, LenProperties, Zenon DEF IInv, TypeOK
  <1> QED
    BY <1>1 DEF Round, Goto

\* Only the process that copies has something to show.
LEMMA ProgressOf ==
  ASSUME NEW p \in Procs, \A q \in Procs \ {p} : pc'[q] \notin Copying,
         pc'[p] = "write_log" => \A j \in 1 .. tail'[p] - 1 : dlog'[j] = cache'[lh'[j]],
         pc'[p] = "write_head" => \A j \in 1 .. Len(lh') : dlog'[j] = cache'[lh'[j]],
         pc'[p] = "install" =>
           /\ \A j \in 1 .. tail'[p] - 1 : home'[lh'[j]] = dlog'[j]
           /\ ~recovering' => \A j \in tail'[p] .. Len(lh') : cache'[lh'[j]] = dlog'[j],
         pc'[p] = "clear" => \A j \in 1 .. Len(lh') : home'[lh'[j]] = dlog'[j]
  PROVE  ProgressInv'
  BY Zenon DEF ProgressInv, Copying

\* The log and the home blocks follow the loop variables.
LEMMA ProgressStep ==
  ASSUME IInv, [Next]_vars
  PROVE  ProgressInv'
  <1>1. ASSUME NEW p \in Procs, BeginSleep(p) PROVE ProgressInv'
    <2>1. \A q \in Procs : pc'[q] \in Copying => pc'[q] = pc[q] /\ tail'[q] = tail[q]
      BY <1>1, Zenon DEF BeginSleep, Goto, diskVars, memVars, IInv, TypeOK, Copying
    <2>2. UNCHANGED <<home, dlog, lh, recovering>>
      BY <1>1, Zenon DEF BeginSleep, Goto, diskVars, memVars
    <2>3. \A c \in Blocks : pin[c] # 0 => cache'[c] = cache[c]
      BY <1>1, Zenon DEF BeginSleep, Goto, diskVars, memVars
    <2> QED
      BY <2>1, <2>2, <2>3, ProgressFrame, Zenon
  <1>2. ASSUME NEW p \in Procs, BeginGo(p) PROVE ProgressInv'
    <2>1. \A q \in Procs : pc'[q] \in Copying => pc'[q] = pc[q] /\ tail'[q] = tail[q]
      BY <1>2, Zenon DEF BeginGo, Goto, diskVars, IInv, TypeOK, Copying
    <2>2. UNCHANGED <<home, dlog, lh, recovering>>
      BY <1>2, Zenon DEF BeginGo, Goto, diskVars
    <2>3. \A c \in Blocks : pin[c] # 0 => cache'[c] = cache[c]
      BY <1>2, Zenon DEF BeginGo, Goto, diskVars
    <2> QED
      BY <2>1, <2>2, <2>3, ProgressFrame, Zenon
  <1>3. ASSUME NEW p \in Procs, LogPanic(p) PROVE ProgressInv'
    <2>1. \A q \in Procs : pc'[q] \in Copying => pc'[q] = pc[q] /\ tail'[q] = tail[q]
      BY <1>3, Zenon DEF LogPanic, Goto, diskVars, memVars, IInv, TypeOK, Copying
    <2>2. UNCHANGED <<home, dlog, lh, recovering>>
      BY <1>3, Zenon DEF LogPanic, Goto, diskVars, memVars
    <2>3. \A c \in Blocks : pin[c] # 0 => cache'[c] = cache[c]
      BY <1>3, Zenon DEF LogPanic, Goto, diskVars, memVars
    <2> QED
      BY <2>1, <2>2, <2>3, ProgressFrame, Zenon
  <1>4. ASSUME NEW p \in Procs, NEW b \in Blocks, NEW v \in Values, LogAbsorb(p, b, v)
        PROVE  ProgressInv'
    <2>1. \A q \in Procs : pc'[q] \notin Copying
      BY <1>4, WhileActive, Zenon DEF LogAbsorb, Copying, InCommit
    <2> QED
      BY <2>1, Zenon DEF ProgressInv, Copying
  <1>5. ASSUME NEW p \in Procs, NEW b \in Blocks, NEW v \in Values, LogNew(p, b, v)
        PROVE  ProgressInv'
    <2>1. \A q \in Procs : pc'[q] \notin Copying
      BY <1>5, WhileActive, Zenon DEF LogNew, Copying, InCommit
    <2> QED
      BY <2>1, Zenon DEF ProgressInv, Copying
  <1>6. ASSUME NEW p \in Procs, EndMore(p) PROVE ProgressInv'
    <2>1. \A q \in Procs : pc'[q] \in Copying => pc'[q] = pc[q] /\ tail'[q] = tail[q]
      BY <1>6, Zenon DEF EndMore, Wakeup, diskVars, IInv, TypeOK, Copying
    <2>2. UNCHANGED <<home, dlog, lh, recovering>>
      BY <1>6, Zenon DEF EndMore, Wakeup, diskVars
    <2>3. \A c \in Blocks : pin[c] # 0 => cache'[c] = cache[c]
      BY <1>6, Zenon DEF EndMore, Wakeup, diskVars
    <2> QED
      BY <2>1, <2>2, <2>3, ProgressFrame, Zenon
  <1>7. ASSUME NEW p \in Procs, EndLast(p) PROVE ProgressInv'
    <2>1. \A q \in Procs : pc[q] \notin Copying
      BY <1>7, WhileActive, Zenon DEF EndLast, Copying, InCommit
    <2>2. pc \in [Procs -> PCs] /\ tail \in [Procs -> Nat]
      BY Zenon DEF IInv, TypeOK
    <2>3. \A q \in Procs \ {p} : pc'[q] = pc[q]
      BY <1>7, <2>2, Zenon DEF EndLast, Goto
    <2>4. pc'[p] \in {"end", "write_log"} /\ tail'[p] = 1
      BY <1>7, <2>2, Zenon DEF EndLast, Goto
    <2> QED
      BY <2>1, <2>3, <2>4, ProgressOf
  <1>8. ASSUME NEW p \in Procs, WriteLog(p) PROVE ProgressInv'
    <2> DEFINE t == tail[p]
    <2>1. \A q \in Procs : pc[q] \in Copying => q = p
      BY <1>8, OneCopies, Zenon DEF WriteLog, Copying
    <2>2. /\ cache' = cache /\ dlog' = [dlog EXCEPT ![t] = cache[lh[t]]] /\ lh' = lh
          /\ t \in 1 .. Len(lh) /\ t \in 1 .. DiskLogSize - 1
      BY <1>8, WriteLogCache, Zenon DEF WriteLog
    <2>3. \/ t = Len(lh) /\ pc' = [pc EXCEPT ![p] = "write_head"] /\ tail'[p] = 1
          \/ t < Len(lh) /\ pc' = pc /\ tail'[p] = t + 1
      BY <1>8, RoundCases, Zenon DEF WriteLog
    <2>4. \A j \in 1 .. t - 1 : dlog[j] = cache[lh[j]]
      BY <1>8, Zenon DEF WriteLog, IInv, ProgressInv
    <2>5. dlog \in [1 .. DiskLogSize - 1 -> Values] /\ pc \in [Procs -> PCs] /\ pc[p] = "write_log"
      BY <1>8, Zenon DEF WriteLog, IInv, TypeOK
    <2>6. Len(lh) \in Nat /\ DiskLogSize \in Nat
      BY LenProperties, LogAssumption, Zenon DEF IInv, TypeOK
    <2> HIDE DEF t
    <2>7. \A j \in 1 .. t : dlog'[j] = cache[lh[j]]
      BY <2>2, <2>4, <2>5, <2>6
    <2>8. \A q \in Procs \ {p} : pc'[q] \notin Copying
      BY <2>1, <2>3, <2>5, Zenon
    <2>9. CASE t = Len(lh)
      <3>1. pc'[p] = "write_head"
        BY <2>3, <2>5, <2>6, <2>9
      <3> QED
        BY <2>2, <2>7, <2>8, <2>9, <3>1, ProgressOf, Zenon
    <2>10. CASE t # Len(lh)
      <3>1. pc'[p] = "write_log" /\ tail'[p] - 1 = t
        BY <2>2, <2>3, <2>5, <2>6, <2>10
      <3> QED
        BY <2>2, <2>7, <2>8, <3>1, ProgressOf, Zenon
    <2> QED
      BY <2>9, <2>10, Zenon
  <1>9. ASSUME NEW p \in Procs, WriteHead(p) PROVE ProgressInv'
    <2>1. \A q \in Procs : pc[q] \in Copying => q = p
      BY <1>9, OneCopies, Zenon DEF WriteHead, Copying
    <2>2. pc \in [Procs -> PCs] /\ tail[p] = 1
      BY <1>9, Zenon DEF IInv, TypeOK, HeadInv, WriteHead
    <2>3. pc'[p] = "install" /\ \A q \in Procs \ {p} : pc'[q] = pc[q]
      BY <1>9, <2>2, Zenon DEF WriteHead, Goto
    <2>4. UNCHANGED <<dlog, lh, cache, tail>>
      BY <1>9, Zenon DEF WriteHead, memVars
    <2>5. \A j \in 1 .. Len(lh) : dlog[j] = cache[lh[j]]
      BY <1>9, Zenon DEF WriteHead, IInv, ProgressInv
    <2>6. \A q \in Procs \ {p} : pc'[q] \notin Copying
      BY <2>1, <2>3, Zenon
    <2>7. tail'[p] - 1 = 0 /\ tail'[p] = 1
      BY <2>2, <2>4
    <2>8. \A j \in tail'[p] .. Len(lh') : cache'[lh'[j]] = dlog'[j]
      BY <2>4, <2>5, <2>7, Zenon
    <2>9. \A j \in 1 .. tail'[p] - 1 : home'[lh'[j]] = dlog'[j]
      BY <2>7
    <2> QED
      BY <2>3, <2>6, <2>8, <2>9, ProgressOf, Zenon
  <1>10. ASSUME NEW p \in Procs, InstallTrans(p) PROVE ProgressInv'
    <2> DEFINE t == tail[p]
    <2>1. \A q \in Procs : pc[q] \in Copying => q = p
      BY <1>10, OneCopies, Zenon DEF InstallTrans, Copying
    <2>2. t \in 1 .. Len(lh) /\ lh[t] \in Blocks /\ lh \in Seq(Blocks) /\ Len(lh) \in Nat
      BY <1>10, InLoop, LenProperties, Zenon DEF InstallTrans, IInv, TypeOK
    <2>3. /\ home' = [home EXCEPT ![lh[t]] = dlog[t]] /\ cache' = [cache EXCEPT ![lh[t]] = dlog[t]]
          /\ UNCHANGED <<dlog, lh, recovering>>
      BY <1>10, Zenon DEF InstallTrans
    <2>4. \/ t = Len(lh) /\ pc' = [pc EXCEPT ![p] = "clear"] /\ tail'[p] = 1
          \/ t < Len(lh) /\ pc' = pc /\ tail'[p] = t + 1
      BY <1>10, RoundCases, Zenon DEF InstallTrans
    <2>5. /\ \A j \in 1 .. t - 1 : home[lh[j]] = dlog[j]
          /\ ~recovering => \A j \in t .. Len(lh) : cache[lh[j]] = dlog[j]
      BY <1>10, Zenon DEF InstallTrans, IInv, ProgressInv
    <2>6. /\ home \in [Blocks -> Values] /\ cache \in [Blocks -> Values \cup {None}]
          /\ pc \in [Procs -> PCs] /\ pc[p] = "install"
      BY <1>10, Zenon DEF InstallTrans, IInv, TypeOK
    <2>7. \A j \in 1 .. Len(lh) : j # t => lh[j] # lh[t]
      BY <2>2, Zenon DEF IInv, HeadInv, Distinct
    <2>8. \A j \in 1 .. Len(lh) : lh[j] \in Blocks
      BY <2>2, ElementOfSeq, Zenon
    <2> HIDE DEF t
    <2>9. /\ home'[lh[t]] = dlog[t]
          /\ \A j \in 1 .. Len(lh) : j # t => /\ home'[lh[j]] = home[lh[j]]
                                              /\ cache'[lh[j]] = cache[lh[j]]
      BY <2>2, <2>3, <2>6, <2>7, <2>8, Zenon
    <2>10. \A j \in 1 .. t : home'[lh[j]] = dlog[j]
      BY <2>2, <2>5, <2>9
    <2>11. ~recovering => \A j \in t + 1 .. Len(lh) : cache'[lh[j]] = dlog[j]
      BY <2>2, <2>5, <2>9
    <2>12. \A q \in Procs \ {p} : pc'[q] \notin Copying
      BY <2>1, <2>4, <2>6, Zenon
    <2>13. CASE t = Len(lh)
      <3>1. pc'[p] = "clear"
        BY <2>2, <2>4, <2>6, <2>13
      <3> QED
        BY <2>3, <2>10, <2>12, <2>13, <3>1, ProgressOf, Zenon
    <2>14. CASE t # Len(lh)
      <3>1. pc'[p] = "install" /\ tail'[p] = t + 1 /\ tail'[p] - 1 = t
        BY <2>2, <2>4, <2>6, <2>14
      <3> QED
        BY <2>3, <2>10, <2>11, <2>12, <3>1, ProgressOf
    <2> QED
      BY <2>13, <2>14, Zenon
  <1>11. ASSUME NEW p \in Procs, ClearHead(p) PROVE ProgressInv'
    <2>1. \A q \in Procs : pc'[q] \notin Copying
      <3>1. \A q \in Procs : pc[q] \in Copying => q = p
        BY <1>11, OneCopies, Zenon DEF ClearHead, Copying
      <3> QED
        BY <1>11, <3>1, Zenon DEF ClearHead, IInv, TypeOK, Copying
    <2> QED
      BY <2>1, Zenon DEF ProgressInv, Copying
  <1>12. ASSUME NEW p \in Procs, EndCommit(p) PROVE ProgressInv'
    <2>1. \A q \in Procs : pc'[q] \in Copying => pc'[q] = pc[q] /\ tail'[q] = tail[q]
      BY <1>12, Zenon DEF EndCommit, Wakeup, diskVars, IInv, TypeOK, Copying
    <2>2. UNCHANGED <<home, dlog, lh, recovering>>
      BY <1>12, Zenon DEF EndCommit, Wakeup, diskVars
    <2>3. \A c \in Blocks : pin[c] # 0 => cache'[c] = cache[c]
      BY <1>12, Zenon DEF EndCommit, Wakeup, diskVars
    <2> QED
      BY <2>1, <2>2, <2>3, ProgressFrame, Zenon
  <1>13. ASSUME NEW p \in Procs, ReadHead(p) PROVE ProgressInv'
    <2>1. recovering /\ \A q \in Procs \ {p} : pc[q] = "down"
      BY <1>13, Zenon DEF ReadHead, IInv, PhaseInv
    <2>2. pc \in [Procs -> PCs] /\ tail[p] = 1
      BY <1>13, Zenon DEF IInv, TypeOK, HeadInv, ReadHead
    <2>3. \A q \in Procs \ {p} : pc'[q] \notin Copying
      BY <1>13, <2>1, <2>2, Zenon DEF ReadHead, Goto, Copying
    <2>4. pc'[p] = IF dhead = <<>> THEN "clear" ELSE "install"
      BY <1>13, <2>2, Zenon DEF ReadHead, Goto
    <2>5. tail'[p] = 1 /\ recovering' /\ lh' = dhead
      BY <1>13, <2>1, <2>2, Zenon DEF ReadHead
    <2>6. Len(<<>>) = 0
      BY EmptySeq, Zenon
    <2> QED
      BY <2>3, <2>4, <2>5, <2>6, ProgressOf
  <1>14. ASSUME NEW b \in Blocks, Load(b) PROVE ProgressInv'
    <2>1. \A q \in Procs : pc'[q] \in Copying => pc'[q] = pc[q] /\ tail'[q] = tail[q]
      BY <1>14, Zenon DEF Load, diskVars, procVars, IInv, TypeOK, Copying
    <2>2. UNCHANGED <<home, dlog, lh, recovering>>
      BY <1>14, Zenon DEF Load, diskVars, procVars
    <2>3. \A c \in Blocks : pin[c] # 0 => cache'[c] = cache[c]
      BY <1>14, Zenon DEF Load, diskVars, procVars, IInv, TypeOK, CleanInv
    <2> QED
      BY <2>1, <2>2, <2>3, ProgressFrame, Zenon
  <1>15. ASSUME NEW b \in Blocks, Evict(b) PROVE ProgressInv'
    <2>1. \A q \in Procs : pc'[q] \in Copying => pc'[q] = pc[q] /\ tail'[q] = tail[q]
      BY <1>15, Zenon DEF Evict, diskVars, procVars, IInv, TypeOK, Copying
    <2>2. UNCHANGED <<home, dlog, lh, recovering>>
      BY <1>15, Zenon DEF Evict, diskVars, procVars
    <2>3. \A c \in Blocks : pin[c] # 0 => cache'[c] = cache[c]
      BY <1>15, Zenon DEF Evict, diskVars, procVars, IInv, TypeOK, CleanInv
    <2> QED
      BY <2>1, <2>2, <2>3, ProgressFrame, Zenon
  <1>16. ASSUME Crash PROVE ProgressInv'
    <2>1. \A q \in Procs : pc'[q] \notin Copying
      BY <1>16, Zenon DEF Crash, Boot, Copying
    <2> QED
      BY <2>1, Zenon DEF ProgressInv, Copying
  <1>17. ASSUME UNCHANGED vars PROVE ProgressInv'
    <2>1. \A q \in Procs : pc'[q] \in Copying => pc'[q] = pc[q] /\ tail'[q] = tail[q]
      BY <1>17, Zenon DEF vars, diskVars, memVars, procVars, IInv, TypeOK, Copying
    <2>2. UNCHANGED <<home, dlog, lh, recovering>>
      BY <1>17, Zenon DEF vars, diskVars, memVars, procVars
    <2>3. \A c \in Blocks : pin[c] # 0 => cache'[c] = cache[c]
      BY <1>17, Zenon DEF vars, diskVars, memVars, procVars
    <2> QED
      BY <2>1, <2>2, <2>3, ProgressFrame, Zenon
  <1> QED
    BY NextCases, <1>1, <1>2, <1>3, <1>4, <1>5, <1>6, <1>7, <1>8, <1>9, <1>10, <1>11,
       <1>12, <1>13, <1>14, <1>15, <1>16, <1>17, Zenon

-----------------------------------------------------------------------------
(* The invariant, and what follows from it at once. *)

\* IInv is an invariant of the log: with any number of processes, at any crash.
THEOREM LogInvariant == Spec => []IInv
  <1>1. IInv /\ [Next]_vars => IInv'
    BY TypeStep, PhaseStep, CountStep, HeadStep, CleanStep, ProgressStep, PinStep,
       ForgottenStep, Zenon DEF IInv
  <1> QED
    BY <1>1, InitIInv, PTL DEF Spec

\* begin_op: whoever sleeps there will be woken, by an active call or by the commit.
THEOREM LogNoneForgotten == Spec => []NoneForgotten
  <1>1. IInv => NoneForgotten
    BY Zenon DEF IInv
  <1> QED
    BY <1>1, LogInvariant, PTL

\* log_write and install_trans: bpin and bunpin pair up.
THEOREM LogPinnedOnce == Spec => []PinnedOnce
  <1>1. IInv => PinnedOnce
    BY Zenon DEF IInv
  <1> QED
    BY <1>1, LogInvariant, PTL

\* end_op: once no call is active and no commit runs, the disk holds what the
\* system shows, and the log is empty.
THEOREM LogQuiescentDurable == Spec => []QuiescentDurable
  <1>1. ASSUME IInv, outstanding = 0, ~committing, ~recovering PROVE Recovered = View
    <2>1. lh = <<>>
      BY <1>1, Zenon DEF IInv, HeadInv
    <2>2. \A p \in Procs : pc[p] \notin {"install", "clear"}
      BY <1>1, Zenon DEF IInv, PhaseInv, InCommit
    <2>3. dhead = <<>>
      BY <1>1, <2>2, Zenon DEF IInv, HeadInv
    <2>4. Len(lh) = 0 /\ Len(dhead) = 0
      BY <2>1, <2>3, EmptySeq, Zenon
    <2>5. \A b \in Blocks : pin[b] = 0
      BY <1>1, <2>4 DEF IInv, PinnedOnce
    <2>6. \A b \in Blocks : bread(b) = home[b]
      BY <1>1, <2>5, Zenon DEF IInv, CleanInv, bread
    <2> QED
      BY <2>4, <2>6 DEF Recovered, View
  <1>2. IInv => QuiescentDurable
    BY <1>1, Zenon DEF QuiescentDurable
  <1> QED
    BY <1>2, LogInvariant, PTL
-----------------------------------------------------------------------------
(* The log never overflows: begin_op reserves MaxOpBlocks for each active call. *)

\* What the sizes must satisfy: a call modifies fewer blocks than begin_op
\* reserves for it, by enough to make up for the header that log.size counts.
Reserve ==
  /\ OpBlocks < MaxOpBlocks
  /\ LogSize - (MaxOpBlocks - OpBlocks) < DiskLogSize - 1

\* The blocks that the calls of A, which wrote w, may still use of their reservations.
Left(A, w) ==
  {x \in A \X (1 .. MaxOpBlocks) : x[2] <= MaxOpBlocks - Cardinality(w[x[1]])}

\* The blocks an active call wrote are in the log; the log has room for what
\* is left of the reservations.
SpaceInv ==
  /\ NoPanic
  /\ \A p \in Active :
       /\ IsFiniteSet(wrote[p]) /\ Cardinality(wrote[p]) <= OpBlocks
       /\ \A b \in wrote[p] : \E i \in 1 .. Len(lh) : lh[i] = b
  /\ Active # {} => Len(lh) + Cardinality(Left(Active, wrote)) <= LogSize

\* Multiplication by a natural number is monotonic.
LEMMA TimesMonotonic ==
  ASSUME NEW a \in Nat, NEW b \in Nat, NEW m \in Nat, a <= b
  PROVE  a * m <= b * m
  <1>1. (b - a) * m >= 0
    BY b - a \in Nat
  <1>2. (b - a) * m = b * m - a * m
    OBVIOUS
  <1>3. a * m \in Int /\ b * m \in Int
    OBVIOUS
  <1> QED
    BY <1>1, <1>2, <1>3

\* At most MAXOPBLOCKS are left for each call.
LEMMA LeftBound ==
  ASSUME NEW A, IsFiniteSet(A), NEW w
  PROVE  /\ IsFiniteSet(Left(A, w)) /\ Cardinality(Left(A, w)) \in Nat
         /\ Cardinality(Left(A, w)) <= Cardinality(A) * MaxOpBlocks
  <1> DEFINE T == A \X (1 .. MaxOpBlocks)
  <1>1. IsFiniteSet(1 .. MaxOpBlocks) /\ Cardinality(1 .. MaxOpBlocks) = MaxOpBlocks
    BY LogAssumption, FS_Interval
  <1>2. IsFiniteSet(T) /\ Cardinality(T) = Cardinality(A) * MaxOpBlocks
    BY <1>1, FS_Product, Zenon
  <1>3. Left(A, w) \in SUBSET T
    BY Zenon DEF Left
  <1> HIDE DEF T
  <1>4. IsFiniteSet(Left(A, w)) /\ Cardinality(Left(A, w)) <= Cardinality(T)
    BY <1>2, <1>3, FS_Subset, Zenon
  <1> QED
    BY <1>2, <1>4, FS_CardinalityType, Zenon

\* An active call keeps what it may not use.
LEMMA LeftRoom ==
  ASSUME NEW A, IsFiniteSet(A), NEW w, NEW p \in A, Reserve,
         Cardinality(w[p]) \in Nat, Cardinality(w[p]) <= OpBlocks
  PROVE  MaxOpBlocks - OpBlocks <= Cardinality(Left(A, w))
  <1> DEFINE n == MaxOpBlocks - OpBlocks
             P == {p} \X (1 .. n)
  <1>1. n \in Nat
    BY LogAssumption DEF Reserve
  <1>2. IsFiniteSet(1 .. n) /\ Cardinality(1 .. n) = n
    BY <1>1, FS_Interval
  <1>3. IsFiniteSet({p}) /\ Cardinality({p}) = 1
    BY FS_Singleton, Zenon
  <1>4. Cardinality(P) = Cardinality({p}) * Cardinality(1 .. n)
    BY <1>2, <1>3, FS_Product, Zenon
  <1>5. P \subseteq Left(A, w)
    BY LogAssumption DEF Left, Reserve
  <1> HIDE DEF P
  <1>6. IsFiniteSet(Left(A, w))
    BY LeftBound, Zenon
  <1>7. Cardinality(P) <= Cardinality(Left(A, w))
    BY <1>5, <1>6, FS_Subset, Zenon
  <1>8. Cardinality(P) = n
    BY <1>1, <1>2, <1>3, <1>4
  <1> QED
    BY <1>7, <1>8, Zenon

\* log_write finds room.
LEMMA Room ==
  ASSUME IInv, SpaceInv, Reserve, NEW p \in Active
  PROVE  Len(lh) < LogSize /\ Len(lh) < DiskLogSize - 1 /\ outstanding >= 1
  <1>1. IsFiniteSet(Active) /\ Active # {}
    BY ActiveFinite, Zenon
  <1>2. Cardinality(wrote[p]) \in Nat /\ Cardinality(wrote[p]) <= OpBlocks
    BY FS_CardinalityType, Zenon DEF SpaceInv
  <1>3. MaxOpBlocks - OpBlocks <= Cardinality(Left(Active, wrote))
    BY <1>1, <1>2, LeftRoom, Zenon
  <1>4. Cardinality(Left(Active, wrote)) \in Nat /\ Len(lh) \in Nat
    BY <1>1, LeftBound, LenProperties, Zenon DEF IInv, TypeOK
  <1>5. Len(lh) + Cardinality(Left(Active, wrote)) <= LogSize
    BY <1>1, Zenon DEF SpaceInv
  <1>6. outstanding >= 1
    BY WhileActive, Zenon DEF Active
  <1> QED
    BY <1>3, <1>4, <1>5, <1>6, LogAssumption DEF Reserve

\* Steps after which no call is active.
LEMMA SpaceNone ==
  ASSUME Active' = {}, NoPanic'
  PROVE  SpaceInv'
  BY Zenon DEF SpaceInv

\* Steps that admit no call and write nothing.
LEMMA SpaceFrame ==
  ASSUME IInv, SpaceInv, NoPanic', Active' \subseteq Active, lh' = lh, wrote' = wrote
  PROVE  SpaceInv'
  <1>1. CASE Active' = {}
    BY <1>1, SpaceNone, Zenon
  <1>2. CASE Active' # {}
    <2>1. Active # {} /\ IsFiniteSet(Active)
      BY <1>2, ActiveFinite, Zenon
    <2>2. Left(Active', wrote) \subseteq Left(Active, wrote)
      BY Zenon DEF Left
    <2>3. IsFiniteSet(Left(Active, wrote)) /\ Cardinality(Left(Active, wrote)) \in Nat
      BY <2>1, LeftBound, Zenon
    <2>4. Cardinality(Left(Active', wrote)) <= Cardinality(Left(Active, wrote))
      BY <2>2, <2>3, FS_Subset, Zenon
    <2>5. IsFiniteSet(Active') /\ Cardinality(Left(Active', wrote)) \in Nat
      BY <2>1, FS_Subset, LeftBound, Zenon
    <2>6. Len(lh) + Cardinality(Left(Active, wrote)) <= LogSize
      BY <2>1, Zenon DEF SpaceInv
    <2>7. Len(lh) \in Nat /\ LogSize \in Nat
      BY LenProperties, LogAssumption, Zenon DEF IInv, TypeOK
    <2>8. Len(lh') + Cardinality(Left(Active', wrote')) <= LogSize
      BY <2>3, <2>4, <2>5, <2>6, <2>7
    <2> QED
      BY <2>8, Zenon DEF SpaceInv
  <1> QED
    BY <1>1, <1>2, Zenon

\* begin_op admits a call only if the reservations of all calls fit.
LEMMA BeginSpace ==
  ASSUME IInv, SpaceInv, NEW p \in Procs, BeginGo(p)
  PROVE  SpaceInv'
  <1> DEFINE A == Active \cup {p}
             w == [wrote EXCEPT ![p] = {}]
  <1>1. pc \in [Procs -> PCs] /\ wrote \in [Procs -> SUBSET Blocks] /\ outstanding \in Nat
    BY Zenon DEF IInv, TypeOK
  <1>2. p \notin Active /\ Active' = A /\ NoPanic'
    BY <1>1, Zenon DEF BeginGo, Goto, Active, SpaceInv, NoPanic
  <1>3. wrote' = w /\ lh' = lh
    BY Zenon DEF BeginGo
  <1>4. /\ w[p] = {} /\ \A q \in Active : w[q] = wrote[q]
        /\ IsFiniteSet({}) /\ Cardinality({}) = 0 /\ 0 <= OpBlocks
    BY <1>1, <1>2, FS_EmptySet, LogAssumption DEF Active
  <1>5. \A q \in A : /\ IsFiniteSet(w[q]) /\ Cardinality(w[q]) <= OpBlocks
                     /\ \A b \in w[q] : \E i \in 1 .. Len(lh) : lh[i] = b
    BY <1>4, Zenon DEF SpaceInv
  <1>6. IsFiniteSet(A) /\ Cardinality(A) <= outstanding + 1 /\ Cardinality(A) \in Nat
    <2>1. IsFiniteSet(Active) /\ Cardinality(Active) <= outstanding /\ Cardinality(Active) \in Nat
      BY ActiveFinite, Zenon DEF IInv, CountInv
    <2>2. IsFiniteSet(A) /\ Cardinality(A) = Cardinality(Active) + 1
      BY <1>2, <2>1, FS_AddElement, Zenon
    <2> QED
      BY <1>1, <2>1, <2>2
  <1>7. Cardinality(Left(A, w)) <= Cardinality(A) * MaxOpBlocks /\ Cardinality(Left(A, w)) \in Nat
    BY <1>6, LeftBound, Zenon
  <1>8. Cardinality(A) * MaxOpBlocks <= (outstanding + 1) * MaxOpBlocks
    BY <1>1, <1>6, TimesMonotonic, LogAssumption
  <1>9. Len(lh) + (outstanding + 1) * MaxOpBlocks <= LogSize
    BY Zenon DEF BeginGo
  <1>10. Len(lh) + Cardinality(Left(A, w)) <= LogSize
    <2> DEFINE x == Cardinality(A) * MaxOpBlocks
               y == (outstanding + 1) * MaxOpBlocks
    <2>1. x \in Int /\ y \in Int /\ Len(lh) \in Nat /\ LogSize \in Nat
      BY <1>1, <1>6, LogAssumption, LenProperties DEF IInv, TypeOK
    <2>2. Cardinality(Left(A, w)) <= x /\ x <= y /\ Len(lh) + y <= LogSize
      BY <1>7, <1>8, <1>9, Zenon
    <2> HIDE DEF x, y, A, w
    <2> QED
      BY <1>7, <2>1, <2>2
  <1> HIDE DEF A, w
  <1>11. /\ \A q \in Active' : /\ IsFiniteSet(wrote'[q]) /\ Cardinality(wrote'[q]) <= OpBlocks
                               /\ \A b \in wrote'[q] : \E i \in 1 .. Len(lh') : lh'[i] = b
         /\ Len(lh') + Cardinality(Left(Active', wrote')) <= LogSize
    BY <1>2, <1>3, <1>5, <1>10, Zenon
  <1> QED
    BY <1>2, <1>11, Zenon DEF SpaceInv

\* log_write does not panic: the block is absorbed or added.
LEMMA WriteCases ==
  ASSUME IInv, SpaceInv, Reserve, NEW p \in Procs, NEW b \in Blocks, NEW v \in Values,
         LogWrite(p, b, v)
  PROVE  /\ p \in Active /\ pc' = pc /\ wrote' = [wrote EXCEPT ![p] = wrote[p] \cup {b}]
         /\ Cardinality(wrote[p] \cup {b}) <= OpBlocks
         /\ \/ lh' = lh /\ \E i \in 1 .. Len(lh) : lh[i] = b
            \/ lh' = Append(lh, b) /\ \A i \in 1 .. Len(lh) : lh[i] # b
  <1>1. p \in Active
    BY Zenon DEF LogWrite, Active
  <1>2. Len(lh) < LogSize /\ Len(lh) < DiskLogSize - 1 /\ outstanding >= 1
    BY <1>1, Room, Zenon
  <1>3. Len(lh) \in Nat /\ LogSize \in Nat /\ DiskLogSize \in Nat /\ outstanding \in Nat
    BY LenProperties, LogAssumption, Zenon DEF IInv, TypeOK
  <1>4. ~ (Len(lh) >= LogSize \/ Len(lh) >= DiskLogSize - 1 \/ outstanding < 1)
    BY <1>2, <1>3
  <1> QED
    BY <1>1, <1>4, Zenon DEF LogWrite, Absorbed, bpin

\* A block that is added is taken from the reservation of its call.
LEMMA WriteSpace ==
  ASSUME IInv, SpaceInv, Reserve, NEW p \in Procs, NEW b \in Blocks, NEW v \in Values,
         LogWrite(p, b, v)
  PROVE  SpaceInv'
  <1> DEFINE W == wrote[p] \cup {b}
             w == [wrote EXCEPT ![p] = W]
  <1>1. /\ p \in Active /\ pc' = pc /\ wrote' = w /\ Cardinality(W) <= OpBlocks
        /\ \/ lh' = lh /\ \E i \in 1 .. Len(lh) : lh[i] = b
           \/ lh' = Append(lh, b) /\ \A i \in 1 .. Len(lh) : lh[i] # b
    BY WriteCases, Zenon
  <1>2. Active' = Active /\ NoPanic'
    BY <1>1, Zenon DEF Active, SpaceInv, NoPanic
  <1>3. /\ IsFiniteSet(wrote[p]) /\ Cardinality(wrote[p]) <= OpBlocks
        /\ \A c \in wrote[p] : \E i \in 1 .. Len(lh) : lh[i] = c
        /\ Cardinality(wrote[p]) \in Nat
    BY <1>1, FS_CardinalityType, Zenon DEF SpaceInv
  <1>4. IsFiniteSet(W) /\ Cardinality(W) \in Nat /\ Cardinality(wrote[p]) <= Cardinality(W)
    <2>1. IsFiniteSet(W)
      BY <1>3, FS_AddElement, Zenon
    <2>2. wrote[p] \subseteq W
      OBVIOUS
    <2> HIDE DEF W
    <2> QED
      BY <2>1, <2>2, FS_Subset, FS_CardinalityType, Zenon
  <1>5. w[p] = W /\ \A q \in Active \ {p} : w[q] = wrote[q]
    BY <1>1, Zenon DEF IInv, TypeOK, Active
  <1>6. Len(lh) \in Nat /\ lh \in Seq(Blocks) /\ LogSize \in Nat /\ MaxOpBlocks \in Nat
    BY LenProperties, LogAssumption, Zenon DEF IInv, TypeOK
  <1>7. /\ \A i \in 1 .. Len(lh) : i \in 1 .. Len(lh') /\ lh'[i] = lh[i]
        /\ \E i \in 1 .. Len(lh') : lh'[i] = b
    <2>1. CASE lh' = lh
      BY <1>1, <1>6, <2>1, AppendProperties
    <2>2. CASE lh' = Append(lh, b)
      BY <1>6, <2>2, AppendProperties
    <2> QED
      BY <1>1, <2>1, <2>2, Zenon
  <1>8. \A q \in Active : /\ IsFiniteSet(w[q]) /\ Cardinality(w[q]) <= OpBlocks
                          /\ \A c \in w[q] : \E i \in 1 .. Len(lh') : lh'[i] = c
    <2>1. \A c \in W : \E i \in 1 .. Len(lh') : lh'[i] = c
      BY <1>3, <1>7, Zenon
    <2>2. \A q \in Active \ {p} : /\ IsFiniteSet(wrote[q]) /\ Cardinality(wrote[q]) <= OpBlocks
                                  /\ \A c \in wrote[q] : \E i \in 1 .. Len(lh') : lh'[i] = c
      BY <1>7, Zenon DEF SpaceInv
    <2> HIDE DEF W, w
    <2> QED
      BY <1>1, <1>4, <1>5, <2>1, <2>2, Zenon
  <1> DEFINE L == Left(Active, wrote)
             M == Left(Active, w)
  <1>9. IsFiniteSet(L) /\ Cardinality(L) \in Nat /\ IsFiniteSet(M) /\ Cardinality(M) \in Nat
    BY ActiveFinite, LeftBound, Zenon
  <1>10. M \subseteq L
    <2> HIDE DEF W, w
    <2>1. ASSUME NEW q \in Active, NEW i \in 1 .. MaxOpBlocks, i <= MaxOpBlocks - Cardinality(w[q])
          PROVE  i <= MaxOpBlocks - Cardinality(wrote[q])
      <3>1. CASE q = p
        BY <1>3, <1>4, <1>5, <1>6, <2>1, <3>1
      <3>2. CASE q # p
        BY <1>5, <2>1, <3>2, Zenon
      <3> QED
        BY <3>1, <3>2, Zenon
    <2> QED
      BY <2>1, Zenon DEF Left
  <1>11. Len(lh) + Cardinality(L) <= LogSize
    BY <1>1, Zenon DEF SpaceInv
  <1>12. Len(lh') + Cardinality(M) <= LogSize
    <2>1. CASE lh' = lh
      <3>1. Cardinality(M) <= Cardinality(L)
        BY <1>9, <1>10, FS_Subset, Zenon
      <3> HIDE DEF L, M
      <3> QED
        BY <1>6, <1>9, <1>11, <2>1, <3>1
    <2>2. CASE lh' = Append(lh, b) /\ \A i \in 1 .. Len(lh) : lh[i] # b
      <3> DEFINE k == MaxOpBlocks - Cardinality(wrote[p])
      <3>1. Cardinality(W) = Cardinality(wrote[p]) + 1
        BY <1>3, <2>2, FS_AddElement, Zenon
      <3>2. k \in 1 .. MaxOpBlocks
        BY <1>3, <1>6, LogAssumption DEF Reserve
      <3>3. <<p, k>> \in L
        BY <1>1, <3>2 DEF Left
      <3>4. <<p, k>> \notin M
        <4> HIDE DEF W, w
        <4>1. ~ (k <= MaxOpBlocks - Cardinality(w[p]))
          BY <1>3, <1>5, <1>6, <3>1
        <4> QED
          BY <4>1, Zenon DEF Left
      <3> HIDE DEF L, M
      <3>5. M \subseteq L \ {<<p, k>>}
        BY <1>10, <3>4, Zenon
      <3>6. IsFiniteSet(L \ {<<p, k>>}) /\ Cardinality(L \ {<<p, k>>}) = Cardinality(L) - 1
        BY <1>9, <3>3, FS_RemoveElement, Zenon
      <3>7. Cardinality(M) <= Cardinality(L) - 1
        BY <3>5, <3>6, FS_Subset
      <3>8. Len(lh') = Len(lh) + 1
        BY <1>6, <2>2, AppendProperties, Zenon
      <3> QED
        BY <1>6, <1>9, <1>11, <3>7, <3>8
    <2> QED
      BY <1>1, <2>1, <2>2, Zenon
  <1> HIDE DEF W, w
  <1> QED
    BY <1>1, <1>2, <1>8, <1>12, Zenon DEF SpaceInv

\* Every step keeps room for the active calls.
LEMMA SpaceStep ==
  ASSUME IInv, SpaceInv, Reserve, [Next]_vars
  PROVE  SpaceInv'
  <1>t. pc \in [Procs -> PCs] /\ NoPanic
    BY Zenon DEF IInv, TypeOK, SpaceInv
  <1>1. ASSUME NEW p \in Procs, BeginOp(p) PROVE SpaceInv'
    <2>1. CASE BeginSleep(p)
      <3>1. Active' \subseteq Active /\ NoPanic'
        BY <1>t, <2>1, Zenon DEF BeginSleep, Goto, Active, NoPanic
      <3> QED
        BY <2>1, <3>1, SpaceFrame, Zenon DEF BeginSleep, memVars
    <2>2. CASE BeginGo(p)
      BY <2>2, BeginSpace, Zenon
    <2> QED
      BY <1>1, <2>1, <2>2, BeginCases, Zenon
  <1>2. ASSUME NEW p \in Procs, EndOp(p) PROVE SpaceInv'
    <2>1. Active' \subseteq Active /\ NoPanic'
      BY <1>t, <1>2, EndOpCases, Zenon DEF EndMore, EndLast, Goto, Wakeup, Active,
         NoPanic
    <2> QED
      BY <1>2, <2>1, SpaceFrame, Zenon DEF EndOp
  <1>3. ASSUME NEW p \in Procs, CommitStep(p) PROVE SpaceInv'
    <2>1. pc[p] \in InCommit
      BY <1>3, Zenon DEF CommitStep, WriteLog, WriteHead, InstallTrans, ClearHead,
         EndCommit, InCommit
    <2>2. Active = {}
      BY <2>1, Zenon DEF IInv, PhaseInv, Active, InCommit
    <2>3. \A q \in Procs : pc'[q] \in {pc[q], "write_head", "install", "clear", "end", "idle", "begin"}
      <3>1. CASE WriteLog(p) \/ InstallTrans(p)
        BY <1>t, <3>1, Zenon DEF WriteLog, InstallTrans, Round, Goto
      <3>2. CASE WriteHead(p)
        BY <1>t, <3>2, Zenon DEF WriteHead, Goto
      <3>3. CASE ClearHead(p)
        BY <1>t, <3>3, Zenon DEF ClearHead
      <3>4. CASE EndCommit(p)
        BY <1>t, <3>4, Zenon DEF EndCommit, Wakeup
      <3> QED
        BY <1>3, <3>1, <3>2, <3>3, <3>4, Zenon DEF CommitStep
    <2>4. Active' = {} /\ NoPanic'
      BY <1>t, <2>2, <2>3, Zenon DEF Active, NoPanic
    <2> QED
      BY <2>4, SpaceNone, Zenon
  <1>4. ASSUME NEW p \in Procs, ReadHead(p) PROVE SpaceInv'
    <2>1. recovering
      BY <1>4, Zenon DEF ReadHead, IInv, PhaseInv
    <2>2. Active = {}
      BY <2>1, Zenon DEF IInv, PhaseInv, Active
    <2>3. Active' = {} /\ NoPanic'
      BY <1>t, <1>4, <2>2, Zenon DEF ReadHead, Goto, Active, NoPanic
    <2> QED
      BY <2>3, SpaceNone, Zenon
  <1>5. ASSUME NEW p \in Procs, NEW b \in Blocks, NEW v \in Values, LogWrite(p, b, v)
        PROVE  SpaceInv'
    BY <1>5, WriteSpace, Zenon
  <1>6. ASSUME NEW b \in Blocks, Load(b) \/ Evict(b) PROVE SpaceInv'
    <2>1. UNCHANGED <<lh, pc, wrote>>
      BY <1>6, Zenon DEF Load, Evict, procVars
    <2>2. Active' \subseteq Active /\ NoPanic'
      BY <1>t, <2>1, Zenon DEF Active, NoPanic
    <2> QED
      BY <2>1, <2>2, SpaceFrame, Zenon
  <1>7. ASSUME Crash PROVE SpaceInv'
    <2>1. Active' = {} /\ NoPanic'
      BY <1>7, Zenon DEF Crash, Boot, Active, NoPanic
    <2> QED
      BY <2>1, SpaceNone, Zenon
  <1>8. ASSUME UNCHANGED vars PROVE SpaceInv'
    <2>1. UNCHANGED <<lh, pc, wrote>>
      BY <1>8, Zenon DEF vars, memVars, procVars
    <2>2. Active' \subseteq Active /\ NoPanic'
      BY <1>t, <2>1, Zenon DEF Active, NoPanic
    <2> QED
      BY <2>1, <2>2, SpaceFrame, Zenon
  <1> QED
    BY <1>1, <1>2, <1>3, <1>4, <1>5, <1>6, <1>7, <1>8, Zenon DEF Next

\* With enough reserve the checks of log_write ("too big a transaction",
\* "log_write outside of trans") and of end_op ("log.committing") never fail.
THEOREM LogNoPanic ==
  ASSUME Reserve
  PROVE  Spec => []NoPanic
  <1>1. Init => SpaceInv
    BY Zenon DEF Init, SpaceInv, NoPanic, Active, Boot
  <1>2. IInv /\ SpaceInv /\ [Next]_vars => SpaceInv'
    BY SpaceStep, Zenon
  <1>3. SpaceInv => NoPanic
    BY Zenon DEF SpaceInv
  <1> QED
    BY LogInvariant, <1>1, <1>2, <1>3, PTL DEF Spec
-----------------------------------------------------------------------------
(* Log implements AtomicDisk: the write of the header is the commit. *)

\* The contents that recovery makes of home blocks h, a header d and log blocks l.
Rec(h, d, l) ==
  [b \in Blocks |-> IF \E i \in 1 .. Len(d) : d[i] = b
                      THEN l[CHOOSE i \in 1 .. Len(d) : d[i] = b]
                      ELSE h[b]]

Mem == IF recovering THEN Recovered ELSE View

\* Recovered, now and after the step.
LEMMA RecoveredIs ==
  Recovered = Rec(home, dhead, dlog) /\ Recovered' = Rec(home', dhead', dlog')
  BY Zenon DEF Recovered, Rec

\* A block of the header comes from its place in the log.
LEMMA RecLogged ==
  ASSUME NEW h, NEW d, NEW l, Distinct(d), NEW i \in 1 .. Len(d), d[i] \in Blocks
  PROVE  Rec(h, d, l)[d[i]] = l[i]
  <1> DEFINE j == CHOOSE k \in 1 .. Len(d) : d[k] = d[i]
  <1>1. j \in 1 .. Len(d) /\ d[j] = d[i]
    OBVIOUS
  <1>2. j = i
    BY <1>1, Zenon DEF Distinct
  <1>3. Rec(h, d, l)[d[i]] = l[j]
    BY Zenon DEF Rec
  <1> QED
    BY <1>2, <1>3, Zenon

\* Every other block is as it is at home.
LEMMA RecHome ==
  ASSUME NEW h, NEW d, NEW l, NEW b \in Blocks, \A i \in 1 .. Len(d) : d[i] # b
  PROVE  Rec(h, d, l)[b] = h[b]
  BY Zenon DEF Rec

\* With an empty header recovery changes nothing.
LEMMA RecEmpty ==
  ASSUME NEW h, NEW l
  PROVE  Rec(h, <<>>, l) = [b \in Blocks |-> h[b]]
  <1>1. Len(<<>>) = 0
    BY EmptySeq, Zenon
  <1> QED
    BY <1>1 DEF Rec

\* Two recoveries agree when they agree on every block.
LEMMA RecEqual ==
  ASSUME NEW h, NEW d, NEW l, NEW f, f = [b \in Blocks |-> f[b]],
         \A b \in Blocks : Rec(h, d, l)[b] = f[b]
  PROVE  Rec(h, d, l) = f
  <1>1. Rec(h, d, l) = [b \in Blocks |-> Rec(h, d, l)[b]]
    BY Zenon DEF Rec
  <1> QED
    BY <1>1, Zenon

\* The write of the header makes durable what the system shows.
LEMMA HeadDurable ==
  ASSUME IInv, NEW p \in Procs, WriteHead(p)
  PROVE  Recovered' = View /\ ~recovering
  <1>1. ~recovering /\ \A q \in Procs : pc[q] \notin {"install", "clear"}
    BY OneCopies, Zenon DEF WriteHead, Copying
  <1>2. dhead' = lh /\ UNCHANGED <<home, dlog>>
    BY Zenon DEF WriteHead
  <1>3. Distinct(lh) /\ \A i \in 1 .. Len(lh) : dlog[i] = cache[lh[i]]
    BY Zenon DEF WriteHead, IInv, HeadInv, ProgressInv
  <1>4. ASSUME NEW i \in 1 .. Len(lh) PROVE Rec(home, lh, dlog)[lh[i]] = bread(lh[i])
    <2>1. lh[i] \in Blocks /\ bread(lh[i]) = cache[lh[i]]
      BY <1>1, LoggedCached, Zenon
    <2>2. Rec(home, lh, dlog)[lh[i]] = dlog[i]
      BY <1>3, <2>1, RecLogged
    <2> QED
      BY <1>3, <2>1, <2>2, Zenon
  <1>5. ASSUME NEW b \in Blocks, \A i \in 1 .. Len(lh) : lh[i] # b
        PROVE  Rec(home, lh, dlog)[b] = bread(b)
    <2>1. pin[b] = 0
      BY <1>5, Zenon DEF IInv, PinnedOnce
    <2>2. bread(b) = home[b]
      BY <2>1, Zenon DEF IInv, CleanInv, bread
    <2> QED
      BY <1>5, <2>2, RecHome, Zenon
  <1>6. \A b \in Blocks : Rec(home, lh, dlog)[b] = View[b]
    BY <1>4, <1>5, Zenon DEF View
  <1>7. View = [b \in Blocks |-> View[b]]
    BY Zenon DEF View
  <1>8. Rec(home, lh, dlog) = View
    BY <1>6, <1>7, RecEqual
  <1> QED
    BY <1>1, <1>2, <1>8, RecoveredIs, Zenon

\* Installing a block of the header changes nothing that recovery would not do.
LEMMA InstallDurable ==
  ASSUME IInv, NEW p \in Procs, InstallTrans(p)
  PROVE  Recovered' = Recovered
  <1>1. /\ tail[p] \in 1 .. Len(lh) /\ lh[tail[p]] \in Blocks
        /\ dhead = lh /\ Distinct(lh) /\ lh \in Seq(Blocks) /\ home \in [Blocks -> Values]
    BY InLoop, Zenon DEF InstallTrans, IInv, HeadInv, TypeOK
  <1>2. home' = [home EXCEPT ![lh[tail[p]]] = dlog[tail[p]]] /\ UNCHANGED <<dhead, dlog>>
    BY Zenon DEF InstallTrans
  <1>3. ASSUME NEW b \in Blocks PROVE Rec(home', lh, dlog)[b] = Rec(home, lh, dlog)[b]
    <2>1. CASE \E i \in 1 .. Len(lh) : lh[i] = b
      BY <1>1, <2>1, RecLogged
    <2>2. CASE \A i \in 1 .. Len(lh) : lh[i] # b
      <3>1. home'[b] = home[b]
        BY <1>1, <1>2, <2>2, Zenon
      <3> QED
        BY <2>2, <3>1, RecHome
    <2> QED
      BY <2>1, <2>2, Zenon
  <1>4. Rec(home, lh, dlog) = [b \in Blocks |-> Rec(home, lh, dlog)[b]]
    BY Zenon DEF Rec
  <1>5. Rec(home', lh, dlog) = Rec(home, lh, dlog)
    BY <1>3, <1>4, RecEqual
  <1> QED
    BY <1>1, <1>2, <1>5, RecoveredIs, Zenon

\* When all is installed, the home blocks are what recovery makes of them.
LEMMA ClearDurable ==
  ASSUME IInv, NEW p \in Procs, ClearHead(p)
  PROVE  Recovered = home /\ Recovered' = home
  <1>1. /\ dhead = lh /\ Distinct(lh) /\ lh \in Seq(Blocks) /\ home \in [Blocks -> Values]
        /\ \A i \in 1 .. Len(lh) : home[lh[i]] = dlog[i]
    BY Zenon DEF ClearHead, IInv, HeadInv, TypeOK, ProgressInv
  <1>2. dhead' = <<>> /\ UNCHANGED <<home, dlog>>
    BY Zenon DEF ClearHead
  <1>3. home = [b \in Blocks |-> home[b]]
    BY <1>1, Zenon
  <1>4. ASSUME NEW b \in Blocks PROVE Rec(home, lh, dlog)[b] = home[b]
    <2>1. CASE \E i \in 1 .. Len(lh) : lh[i] = b
      BY <1>1, <2>1, RecLogged
    <2>2. CASE \A i \in 1 .. Len(lh) : lh[i] # b
      BY <2>2, RecHome
    <2> QED
      BY <2>1, <2>2, Zenon
  <1>5. Rec(home, lh, dlog) = home
    BY <1>3, <1>4, RecEqual
  <1>6. Rec(home, <<>>, dlog) = home
    BY <1>3, RecEmpty, Zenon
  <1> QED
    BY <1>1, <1>2, <1>5, <1>6, RecoveredIs, Zenon

\* Steps that AtomicDisk does not see.
LEMMA DiskStutter ==
  ASSUME Mem' = Mem, Recovered' = Recovered, Active' = Active
  PROVE  [Disk!Next]_(Disk!vars)
  BY Zenon DEF Disk!vars, Mem, Active

\* What is shown and what is durable depend on the disk, the cache and recovery.
LEMMA SameContents ==
  ASSUME UNCHANGED <<home, dhead, dlog, cache, recovering>>
  PROVE  Mem' = Mem /\ Recovered' = Recovered
  BY Zenon DEF Mem, Recovered, View, bread

\* begin_op admits a call, end_op or a panic ends one.
LEMMA CallStep ==
  ASSUME NEW p \in Procs, UNCHANGED <<home, dhead, dlog, cache, recovering>>,
         \/ p \notin Active /\ Active' = Active \cup {p}
         \/ p \in Active /\ Active' = Active \ {p}
  PROVE  [Disk!Next]_(Disk!vars)
  <1>1. Mem' = Mem /\ Recovered' = Recovered
    BY SameContents, Zenon
  <1>2. Disk!Begin(p) \/ Disk!End(p)
    BY <1>1, Zenon DEF Disk!Begin, Disk!End, Mem, Active
  <1> QED
    BY <1>2, Zenon DEF Disk!Next

\* log_write shows the new contents of the block and leaves the disk alone.
LEMMA WriteStep ==
  ASSUME IInv, NEW p \in Procs, NEW b \in Blocks, NEW v \in Values, pc[p] = "op",
         cache' = [cache EXCEPT ![b] = v], UNCHANGED <<home, dhead, dlog, recovering, pc>>
  PROVE  [Disk!Next]_(Disk!vars)
  <1>1. ~recovering
    BY WhileActive, Zenon
  <1>2. cache \in [Blocks -> Values \cup {None}] /\ v # None
    BY LogAssumption, Zenon DEF IInv, TypeOK
  <1>3. \A c \in Blocks : bread(c)' = IF c = b THEN v ELSE bread(c)
    BY <1>2, Zenon DEF bread
  <1>4. View' = [View EXCEPT ![b] = v]
    BY <1>3, Zenon DEF View
  <1>5. Mem' = [Mem EXCEPT ![b] = v]
    BY <1>1, <1>4, Zenon DEF Mem
  <1>6. Recovered' = Recovered /\ Active' = Active /\ p \in Active
    BY Zenon DEF Recovered, Active
  <1>7. Disk!Write(p, b, v)
    BY <1>5, <1>6, Zenon DEF Disk!Write, Mem, Active
  <1> QED
    BY <1>7, Zenon DEF Disk!Next

\* The cache may read a clean block or drop it: the contents stay.
LEMMA CacheStep ==
  ASSUME IInv, NEW b \in Blocks, Load(b) \/ Evict(b)
  PROVE  [Disk!Next]_(Disk!vars)
  <1>1. cache \in [Blocks -> Values \cup {None}] /\ home \in [Blocks -> Values]
    BY Zenon DEF IInv, TypeOK
  <1>2. UNCHANGED <<home, dhead, dlog, recovering, pc>>
    BY Zenon DEF Load, Evict, diskVars, procVars
  <1>3. \A c \in Blocks : bread(c)' = bread(c)
    <2>1. CASE Load(b)
      <3>1. home[b] # None
        BY <1>1, LogAssumption, Zenon
      <3> QED
        BY <1>1, <1>2, <2>1, <3>1, Zenon DEF Load, bread
    <2>2. CASE Evict(b)
      <3>1. cache[b] = home[b]
        BY <2>2, Zenon DEF Evict, IInv, CleanInv
      <3> QED
        BY <1>1, <1>2, <2>2, <3>1, Zenon DEF Evict, bread
    <2> QED
      BY <2>1, <2>2, Zenon
  <1>4. View' = View
    BY <1>3, Zenon DEF View
  <1>5. Recovered' = Recovered /\ Active' = Active
    BY <1>2, Zenon DEF Recovered, Active
  <1>6. Mem' = Mem
    BY <1>2, <1>4, <1>5, Zenon DEF Mem
  <1> QED
    BY <1>5, <1>6, DiskStutter, Zenon

\* Who copies is not in a call, and stays out of one.
LEMMA CopierInactive ==
  ASSUME IInv, NEW p \in Procs, pc[p] \in Copying,
         \A q \in Procs \ {p} : pc'[q] = pc[q], pc'[p] # "op"
  PROVE  Active' = Active /\ Active = {}
  <1>1. Active = {}
    BY Zenon DEF IInv, PhaseInv, Copying, InCommit, Active
  <1> QED
    BY <1>1, Zenon DEF Active

\* write_log writes to the log only.
LEMMA WriteLogHidden ==
  ASSUME IInv, NEW p \in Procs, WriteLog(p)
  PROVE  [Disk!Next]_(Disk!vars)
  <1>1. cache' = cache /\ ~recovering /\ \A q \in Procs : pc[q] \notin {"install", "clear"}
    BY WriteLogCache, Zenon
  <1>2. dhead = <<>>
    BY <1>1, Zenon DEF IInv, HeadInv
  <1>3. UNCHANGED <<home, dhead, recovering>>
    BY Zenon DEF WriteLog
  <1>4. Recovered' = Recovered
    BY <1>2, <1>3, RecEmpty, RecoveredIs
  <1>5. Mem' = Mem
    BY <1>1, <1>3, <1>4, Zenon DEF Mem, View, bread
  <1>6. \/ pc' = [pc EXCEPT ![p] = "write_head"]
        \/ pc' = pc
    BY RoundCases, Zenon DEF WriteLog
  <1>7. pc \in [Procs -> PCs] /\ pc[p] = "write_log"
    BY Zenon DEF WriteLog, IInv, TypeOK
  <1>8. Active' = Active
    BY <1>6, <1>7, CopierInactive, Zenon DEF Copying
  <1> QED
    BY <1>4, <1>5, <1>8, DiskStutter, Zenon

\* install_trans brings home what the system shows already.
LEMMA InstallHidden ==
  ASSUME IInv, NEW p \in Procs, InstallTrans(p)
  PROVE  [Disk!Next]_(Disk!vars)
  <1> DEFINE t == tail[p]
  <1>1. Recovered' = Recovered
    BY InstallDurable, Zenon
  <1>2. t \in 1 .. Len(lh) /\ t \in t .. Len(lh) /\ lh[t] \in Blocks /\ dlog[t] \in Values
    <2>1. t \in 1 .. Len(lh) /\ t \in 1 .. DiskLogSize - 1 /\ lh[t] \in Blocks
      BY InLoop, Zenon DEF InstallTrans
    <2>2. Len(lh) \in Nat /\ dlog \in [1 .. DiskLogSize - 1 -> Values]
      BY LenProperties, Zenon DEF IInv, TypeOK
    <2> QED
      BY <2>1, <2>2
  <1>3. /\ home' = [home EXCEPT ![lh[t]] = dlog[t]] /\ cache' = [cache EXCEPT ![lh[t]] = dlog[t]]
        /\ recovering' = recovering
    BY Zenon DEF InstallTrans
  <1>4. /\ home \in [Blocks -> Values] /\ cache \in [Blocks -> Values \cup {None}]
        /\ pc \in [Procs -> PCs] /\ pc[p] = "install" /\ dlog[t] # None
    BY <1>2, LogAssumption, Zenon DEF InstallTrans, IInv, TypeOK
  <1>5. ~recovering => cache[lh[t]] = dlog[t]
    BY <1>2, <1>4, Zenon DEF IInv, ProgressInv
  <1>6. \/ pc' = [pc EXCEPT ![p] = "clear"]
        \/ pc' = pc
    BY RoundCases, Zenon DEF InstallTrans
  <1> HIDE DEF t
  <1>7. ~recovering => \A b \in Blocks : bread(b)' = bread(b)
    BY <1>2, <1>3, <1>4, <1>5, Zenon DEF bread
  <1>8. Mem' = Mem
    BY <1>1, <1>3, <1>7, Zenon DEF Mem, View
  <1>9. Active' = Active
    BY <1>4, <1>6, CopierInactive, Zenon DEF Copying
  <1> QED
    BY <1>1, <1>8, <1>9, DiskStutter, Zenon

\* Erasing the header changes no contents; after recovery the system shows the disk.
LEMMA ClearHidden ==
  ASSUME IInv, NEW p \in Procs, ClearHead(p)
  PROVE  [Disk!Next]_(Disk!vars)
  <1>1. Recovered = home /\ Recovered' = home
    BY ClearDurable, Zenon
  <1>2. UNCHANGED <<home, cache>> /\ ~recovering'
    BY Zenon DEF ClearHead
  <1>3. View' = View
    BY <1>2, Zenon DEF View, bread
  <1>4. ASSUME recovering PROVE View = home
    <2>1. \A b \in Blocks : pin[b] = 0
      BY <1>4, Zenon DEF IInv, PinnedOnce
    <2>2. \A b \in Blocks : bread(b) = home[b]
      BY <2>1, Zenon DEF IInv, CleanInv, bread
    <2>3. home = [b \in Blocks |-> home[b]]
      BY Zenon DEF IInv, TypeOK
    <2> QED
      BY <2>2, <2>3, Zenon DEF View
  <1>5. Mem' = Mem
    BY <1>1, <1>2, <1>3, <1>4, Zenon DEF Mem
  <1>6. pc \in [Procs -> PCs] /\ pc[p] = "clear"
    BY Zenon DEF ClearHead, IInv, TypeOK
  <1>7. Active = {}
    BY <1>6, Zenon DEF IInv, PhaseInv, Active, InCommit
  <1>8. Active' = {}
    BY <1>6, <1>7, Zenon DEF ClearHead, Active
  <1> QED
    BY <1>1, <1>5, <1>7, <1>8, DiskStutter, Zenon

\* The write of the header is the commit.
LEMMA CommitPoint ==
  ASSUME IInv, NEW p \in Procs, WriteHead(p)
  PROVE  [Disk!Next]_(Disk!vars)
  <1>1. Recovered' = View /\ ~recovering
    BY HeadDurable, Zenon
  <1>2. UNCHANGED <<home, cache, recovering>>
    BY Zenon DEF WriteHead, memVars
  <1>3. Mem' = Mem /\ Recovered' = Mem
    BY <1>1, <1>2, Zenon DEF Mem, View, bread
  <1>4. pc \in [Procs -> PCs] /\ pc[p] = "write_head" /\ pc' = [pc EXCEPT ![p] = "install"]
    BY Zenon DEF WriteHead, Goto, IInv, TypeOK
  <1>5. Active' = Active /\ Active = {}
    BY <1>4, CopierInactive, Zenon DEF Copying
  <1>6. Disk!Commit
    BY <1>3, <1>5, Zenon DEF Disk!Commit, Mem, Active
  <1> QED
    BY <1>6, Zenon DEF Disk!Next

\* A crash leaves what is durable.
LEMMA CrashStep ==
  ASSUME Crash
  PROVE  [Disk!Next]_(Disk!vars)
  <1>1. Recovered' = Recovered /\ Mem' = Recovered
    BY Zenon DEF Crash, diskVars, Recovered, Mem
  <1>2. Active' = {}
    BY Zenon DEF Crash, Active, Boot
  <1>3. Disk!Crash
    BY <1>1, <1>2, Zenon DEF Disk!Crash, Mem, Active
  <1> QED
    BY <1>3, Zenon DEF Disk!Next

\* Every step of the log is a step of AtomicDisk or changes nothing there.
LEMMA DiskStep ==
  ASSUME IInv, [Next]_vars
  PROVE  [Disk!Next]_(Disk!vars)
  <1> DEFINE Goal == [Disk!Next]_(Disk!vars)
  <1> USE DEF Goal
  <1>t. pc \in [Procs -> PCs]
    BY Zenon DEF IInv, TypeOK
  <1>1. ASSUME UNCHANGED <<home, dhead, dlog, cache, recovering>>, Active' = Active PROVE Goal
    BY <1>1, SameContents, DiskStutter, Zenon
  <1>2. ASSUME NEW p \in Procs, BeginSleep(p) PROVE Goal
    <2>1. Active' = Active
      BY <1>2, <1>t, Zenon DEF BeginSleep, Goto, Active
    <2> QED
      BY <1>1, <1>2, <2>1, Zenon DEF BeginSleep, diskVars, memVars
  <1>3. ASSUME NEW p \in Procs, BeginGo(p) PROVE Goal
    <2>1. p \notin Active /\ Active' = Active \cup {p}
      BY <1>3, <1>t, Zenon DEF BeginGo, Goto, Active
    <2> QED
      BY <1>3, <2>1, CallStep, Zenon DEF BeginGo, diskVars
  <1>4. ASSUME NEW p \in Procs, LogPanic(p) PROVE Goal
    <2>1. p \in Active /\ Active' = Active \ {p}
      BY <1>4, <1>t, Zenon DEF LogPanic, Goto, Active
    <2> QED
      BY <1>4, <2>1, CallStep, Zenon DEF LogPanic, diskVars, memVars
  <1>5. ASSUME NEW p \in Procs, EndMore(p) PROVE Goal
    <2>1. p \in Active /\ Active' = Active \ {p}
      BY <1>5, <1>t, Zenon DEF EndMore, Wakeup, Active
    <2> QED
      BY <1>5, <2>1, CallStep, Zenon DEF EndMore, diskVars
  <1>6. ASSUME NEW p \in Procs, EndLast(p) PROVE Goal
    <2>1. p \in Active /\ Active' = Active \ {p}
      BY <1>6, <1>t, Zenon DEF EndLast, Goto, Active
    <2> QED
      BY <1>6, <2>1, CallStep, Zenon DEF EndLast, diskVars
  <1>7. ASSUME NEW p \in Procs, NEW b \in Blocks, NEW v \in Values,
               LogAbsorb(p, b, v) \/ LogNew(p, b, v)
        PROVE  Goal
    BY <1>7, WriteStep, Zenon DEF LogAbsorb, LogNew, diskVars
  <1>8. ASSUME NEW p \in Procs, WriteLog(p) PROVE Goal
    BY <1>8, WriteLogHidden, Zenon
  <1>9. ASSUME NEW p \in Procs, WriteHead(p) PROVE Goal
    BY <1>9, CommitPoint, Zenon
  <1>10. ASSUME NEW p \in Procs, InstallTrans(p) PROVE Goal
    BY <1>10, InstallHidden, Zenon
  <1>11. ASSUME NEW p \in Procs, ClearHead(p) PROVE Goal
    BY <1>11, ClearHidden, Zenon
  <1>12. ASSUME NEW p \in Procs, EndCommit(p) PROVE Goal
    <2>1. Active' = Active
      BY <1>12, <1>t, Zenon DEF EndCommit, Wakeup, Active
    <2> QED
      BY <1>1, <1>12, <2>1, Zenon DEF EndCommit, diskVars
  <1>13. ASSUME NEW p \in Procs, ReadHead(p) PROVE Goal
    <2>1. Active' = Active
      BY <1>13, <1>t, Zenon DEF ReadHead, Goto, Active
    <2> QED
      BY <1>1, <1>13, <2>1, Zenon DEF ReadHead, diskVars
  <1>14. ASSUME NEW b \in Blocks, Load(b) \/ Evict(b) PROVE Goal
    BY <1>14, CacheStep, Zenon
  <1>15. ASSUME Crash PROVE Goal
    BY <1>15, CrashStep, Zenon
  <1>16. ASSUME UNCHANGED vars PROVE Goal
    BY <1>1, <1>16, Zenon DEF vars, diskVars, memVars, procVars, Active
  <1> HIDE DEF Goal
  <1>17. Goal
    BY NextCases, <1>2, <1>3, <1>4, <1>5, <1>6, <1>7, <1>8, <1>9, <1>10, <1>11, <1>12,
       <1>13, <1>14, <1>15, <1>16, Zenon
  <1> QED
    BY <1>17, Zenon DEF Goal

\* A new file system shows its home blocks.
LEMMA DiskInit == Init => Disk!Init
  <1> SUFFICES ASSUME Init PROVE Disk!Init
    OBVIOUS
  <1>1. recovering /\ dhead = <<>> /\ home \in [Blocks -> Values]
    BY Zenon DEF Init
  <1>2. Recovered = home
    <2>1. home = [b \in Blocks |-> home[b]]
      BY <1>1, Zenon
    <2> QED
      BY <1>1, <2>1, RecEmpty, RecoveredIs, Zenon
  <1>3. {p \in Procs : pc[p] = "op"} = {}
    BY Zenon DEF Init, Boot
  <1> QED
    BY <1>1, <1>2, <1>3, Zenon DEF Disk!Init

\* System calls on the log are atomic with respect to crashes: whenever the
\* machine stops, in commit and in recovery too, the disk recovers to the
\* contents of a moment at which no call was active.
THEOREM LogImplementsAtomicDisk == Spec => ImplementsAtomicDisk
  <1>1. Init => Disk!Init
    BY DiskInit, Zenon
  <1>2. IInv /\ [Next]_vars => [Disk!Next]_(Disk!vars)
    BY DiskStep, Zenon
  <1> QED
    BY LogInvariant, <1>1, <1>2, PTL DEF Spec, ImplementsAtomicDisk, Disk!Spec
=============================================================================
