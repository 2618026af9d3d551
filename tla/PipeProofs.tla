------------------------------ MODULE PipeProofs ------------------------------
(***************************************************************************)
(* Proofs about Pipe for every size of the buffer, every modulus of its    *)
(* counters and any number of readers and writers.                         *)
(***************************************************************************)
EXTENDS Pipe, SequenceTheorems, TLAPS

(* Facts about % with a modulus that is not a literal. *)

\* Quotient and remainder.
LEMMA DivMod ==
  ASSUME NEW a \in Int, NEW b \in Nat \ {0}
  PROVE  a \div b \in Int /\ a % b \in 0 .. b - 1 /\ a = b * (a \div b) + (a % b)
  OBVIOUS

\* The only multiple of b strictly between -b and b.
LEMMA MultSplit ==
  ASSUME NEW q \in Int, NEW b \in Nat \ {0}, b * q > 0 - b, b * q < b
  PROVE  q = 0
  <1>1. q >= 1 => b * q >= b
    OBVIOUS
  <1>2. q <= -1 => b * q <= 0 - b
    OBVIOUS
  <1> QED
    BY <1>1, <1>2

\* There is one remainder.
LEMMA ModUnique ==
  ASSUME NEW a \in Int, NEW b \in Nat \ {0}, NEW q \in Int, NEW r \in 0 .. b - 1, a = b * q + r
  PROVE  a % b = r
  <1> DEFINE d == a \div b
             m == a % b
  <1>1. d \in Int /\ m \in 0 .. b - 1 /\ a = b * d + m
    BY DivMod, Zenon
  <1> HIDE DEF d, m
  <1>2. b * (d - q) = b * d - b * q
    BY <1>1
  <1>3. b * (d - q) = r - m
    BY <1>1, <1>2
  <1>4. d - q = 0
    BY <1>1, <1>3, MultSplit
  <1>5. r = m
    BY <1>1, <1>3, <1>4
  <1> QED
    BY <1>5, Zenon DEF m

\* A multiple of the modulus may be added.
LEMMA ModPlus ==
  ASSUME NEW a \in Int, NEW b \in Nat \ {0}, NEW u \in Nat, u % b = 0
  PROVE  (a + u) % b = a % b
  <1> DEFINE d == a \div b
             m == a % b
             c == u \div b
  <1>1. d \in Int /\ m \in 0 .. b - 1 /\ a = b * d + m
    BY DivMod, Zenon
  <1>2. c \in Int /\ u = b * c
    BY DivMod
  <1> HIDE DEF d, m, c
  <1>3. b * (d + c) = b * d + b * c
    BY <1>1, <1>2
  <1>4. a + u = b * (d + c) + m /\ a + u \in Int /\ d + c \in Int
    BY <1>1, <1>2, <1>3
  <1>5. (a + u) % b = m
    BY <1>1, <1>4, ModUnique, Zenon
  <1> QED
    BY <1>5, Zenon DEF m

\* Numbers less than b apart have different remainders.
LEMMA ModDiffers ==
  ASSUME NEW a \in Int, NEW b \in Nat \ {0}, NEW d \in 1 .. b - 1
  PROVE  (a + d) % b # a % b
  <1> DEFINE x == a \div b
             y == (a + d) \div b
             m == a % b
             n == (a + d) % b
  <1>1. x \in Int /\ m \in 0 .. b - 1 /\ a = b * x + m
    BY DivMod, Zenon
  <1>0. a + d \in Int
    OBVIOUS
  <1>2. y \in Int /\ n \in 0 .. b - 1 /\ a + d = b * y + n
    BY <1>0, DivMod, Zenon
  <1> HIDE DEF x, y, m, n
  <1>3. b * (y - x) = b * y - b * x
    BY <1>1, <1>2
  <1>4. SUFFICES ASSUME n = m PROVE FALSE
    BY Zenon DEF n, m
  <1>5. b * (y - x) = d
    BY <1>1, <1>2, <1>3, <1>4
  <1>6. y - x = 0
    BY <1>1, <1>2, <1>5, MultSplit
  <1> QED
    BY <1>1, <1>2, <1>5, <1>6
\* A number that is less than one modulus out of range.
LEMMA ModOnce ==
  ASSUME NEW a \in Int, NEW b \in Nat \ {0}, 0 - b <= a, a < b + b
  PROVE  a % b = IF a < 0 THEN a + b ELSE IF a < b THEN a ELSE a - b
  <1>1. CASE a < 0
    <2>1. a = b * (-1) + (a + b) /\ a + b \in 0 .. b - 1
      BY <1>1
    <2> QED
      BY <1>1, <2>1, ModUnique
  <1>2. CASE 0 <= a /\ a < b
    <2>1. a = b * 0 + a /\ a \in 0 .. b - 1
      BY <1>2
    <2> QED
      BY <1>2, <2>1, ModUnique
  <1>3. CASE b <= a
    <2>1. a = b * 1 + (a - b) /\ a - b \in 0 .. b - 1
      BY <1>3
    <2> QED
      BY <1>3, <2>1, ModUnique
  <1> QED
    BY <1>1, <1>2, <1>3
-----------------------------------------------------------------------------

InWrite == {"write", "wsleep", "wwake"}
InRead  == {"read_wait", "rsleep", "rwake", "read"}
Holding == {"write", "read_wait", "read"}

EndOf(p) == IF p \in Readers THEN Readers ELSE Writers
IsOpen(p) == IF p \in Readers THEN readopen ELSE writeopen

\* pi->lock is held by the one process that is between acquire and release.
LockInv ==
  /\ lock # None => pc[lock] \in Holding
  /\ \A p \in Procs : pc[p] \in Holding => lock = p

\* A call is made by a process that holds a descriptor of the right end.
CallInv ==
  \A p \in Procs :
    /\ pc[p] \in InWrite => p \in Writers \cap fd
    /\ pc[p] \in InRead => p \in Readers \cap fd

\* An end is open while somebody has a descriptor for it, or is the one process
\* that is about to close it.
EndInv ==
  /\ \A p \in Procs :
       /\ p \in fd \/ pc[p] = "pipeclose" => IsOpen(p)
       /\ pc[p] = "pipeclose" => EndOf(p) \cap fd = {}
  /\ \A p, q \in Procs :
       pc[p] = "pipeclose" /\ pc[q] = "pipeclose" /\ EndOf(p) = EndOf(q) => p = q
  /\ freed => ~readopen /\ ~writeopen

\* NoLostWakeup also while the lock is held: bytes that a sleeping reader has
\* not been told of belong to a writer that is going to wake it, because
\* neither kill nor the close of the read end can come before it does.
WakeInv ==
  \A p \in Procs :
    /\ pc[p] = "rsleep" =>
         /\ writeopen
         /\ Empty \/ (lock # None /\ pc[lock] = "write" /\ readopen /\ ~killed[lock])
    /\ pc[p] = "wsleep" => readopen /\ (Full \/ (lock # None /\ pc[lock] = "read"))

\* The inductive invariant.
IInv == TypeOK /\ LockInv /\ CallInv /\ EndInv /\ WakeInv
-----------------------------------------------------------------------------
\* The counters stay in their range.
LEMMA IncType ==
  ASSUME NEW x \in 0 .. UintMod - 1
  PROVE  Inc(x) \in 0 .. UintMod - 1
  BY PipeAssumption DEF Inc

\* The initial states.
LEMMA InitIInv == Init => IInv
  <1> SUFFICES ASSUME Init PROVE IInv
    OBVIOUS
  <1>1. TypeOK
    <2>1. PICK ch \in Bytes : data = [k \in 0 .. PIPESIZE - 1 |-> ch]
      BY Zenon DEF Init
    <2>2. data \in [0 .. PIPESIZE - 1 -> Bytes]
      BY <2>1, Zenon
    <2>3. 0 \in 0 .. UintMod - 1
      BY PipeAssumption
    <2> QED
      BY <2>2, <2>3, Zenon DEF Init, TypeOK, PCs
  <1>2. LockInv /\ CallInv
    BY Zenon DEF Init, LockInv, CallInv, Holding, InWrite, InRead
  <1>3. EndInv /\ WakeInv
    BY Zenon DEF Init, EndInv, WakeInv, IsOpen
  <1> QED
    BY <1>1, <1>2, <1>3, Zenon DEF IInv

\* Every variable keeps its type.
LEMMA TypeStep == TypeOK /\ [Next]_vars => TypeOK'
  <1> SUFFICES ASSUME TypeOK, [Next]_vars PROVE TypeOK'
    OBVIOUS
  <1> USE PipeAssumption DEF TypeOK, PCs, Procs
  <1>1. ASSUME NEW p \in Procs, WriteEnd(p) PROVE TypeOK'
    BY <1>1, Zenon DEF WriteEnd, Goto, WakeReaders, Wakeup, Return, Release, pipeVars
  <1>2. ASSUME NEW p \in Procs, WriteFull(p) PROVE TypeOK'
    BY <1>2, Zenon DEF WriteFull, WakeReaders, Wakeup, Release, pipeVars
  <1>3. ASSUME NEW p \in Procs, NEW ch \in Bytes, WriteByte(p, ch) PROVE TypeOK'
    <2>1. nwrite' \in 0 .. UintMod - 1
      BY <1>3, IncType, Zenon DEF WriteByte
    <2>2. left' \in [Procs -> Nat]
      BY <1>3 DEF WriteByte
    <2> QED
      BY <1>3, <2>1, <2>2, Zenon DEF WriteByte
  <1>4. ASSUME NEW p \in Procs, ReadWait(p) PROVE TypeOK'
    BY <1>4 DEF ReadWait, Goto, Return, Release, pipeVars
  <1>5. ASSUME NEW p \in Procs, ReadByte(p) PROVE TypeOK'
    <2>1. nread' \in 0 .. UintMod - 1
      BY <1>5, IncType, Zenon DEF ReadByte
    <2>2. left' \in [Procs -> Nat]
      BY <1>5 DEF ReadByte, Return
    <2>3. pc' \in [Procs -> PCs] /\ lock' \in Procs \cup {None}
      BY <1>5 DEF ReadByte, Return, Release, WakeWriters, Wakeup
    <2> QED
      BY <1>5, <2>1, <2>2, <2>3, Zenon DEF ReadByte
  <1>6. ASSUME NEW p \in Procs, ReadEnd(p) PROVE TypeOK'
    BY <1>6, Zenon DEF ReadEnd, WakeWriters, Wakeup, Return, Release, pipeVars
  <1>7. ASSUME NEW p \in Procs, Woken(p) PROVE TypeOK'
    BY <1>7, Zenon DEF Woken, Goto, pipeVars
  <1>8. ASSUME NEW p \in Procs, PipeClose(p) PROVE TypeOK'
    BY <1>8, Zenon DEF PipeClose, WakeReaders, WakeWriters, Wakeup
  <1>9. ASSUME NEW p \in Procs, FileClose(p) PROVE TypeOK'
    BY <1>9, Zenon DEF FileClose, Goto, pipeVars
  <1>10. ASSUME NEW p \in Procs, Kill(p) PROVE TypeOK'
    BY <1>10, Zenon DEF Kill, Goto, pipeVars
  <1>11. ASSUME NEW p \in Procs, NEW k \in Counts, CallWrite(p, k) PROVE TypeOK'
    BY <1>11, Zenon DEF CallWrite, Goto, pipeVars
  <1>12. ASSUME NEW p \in Procs, NEW k \in Counts, CallRead(p, k) PROVE TypeOK'
    BY <1>12, Zenon DEF CallRead, Goto, pipeVars
  <1>13. CASE UNCHANGED vars
    BY <1>13, Zenon DEF vars, pipeVars, callVars
  <1> QED
    BY <1>1, <1>2, <1>3, <1>4, <1>5, <1>6, <1>7, <1>8, <1>9, <1>10, <1>11, <1>12, <1>13,
       Zenon DEF Next, Step
\* Only one process is between acquire and release.
LEMMA LockStep == IInv /\ [Next]_vars => LockInv'
  <1> SUFFICES ASSUME IInv, [Next]_vars PROVE LockInv'
    OBVIOUS
  <1> USE PipeAssumption DEF IInv, TypeOK, LockInv, Holding, Procs
  <1>1. ASSUME NEW p \in Procs, WriteEnd(p) PROVE LockInv'
    BY <1>1, Zenon DEF WriteEnd, Goto, WakeReaders, Wakeup, Return, Release, pipeVars
  <1>2. ASSUME NEW p \in Procs, WriteFull(p) PROVE LockInv'
    BY <1>2, Zenon DEF WriteFull, WakeReaders, Wakeup, Release, pipeVars
  <1>3. ASSUME NEW p \in Procs, NEW ch \in Bytes, WriteByte(p, ch) PROVE LockInv'
    BY <1>3, Zenon DEF WriteByte
  <1>4. ASSUME NEW p \in Procs, ReadWait(p) PROVE LockInv'
    BY <1>4 DEF ReadWait, Goto, Return, Release, pipeVars
  <1>5. ASSUME NEW p \in Procs, ReadByte(p) PROVE LockInv'
    BY <1>5, Zenon DEF ReadByte, Return, Release, WakeWriters, Wakeup
  <1>6. ASSUME NEW p \in Procs, ReadEnd(p) PROVE LockInv'
    BY <1>6, Zenon DEF ReadEnd, WakeWriters, Wakeup, Return, Release, pipeVars
  <1>7. ASSUME NEW p \in Procs, Woken(p) PROVE LockInv'
    BY <1>7, Zenon DEF Woken, Goto, pipeVars
  <1>8. ASSUME NEW p \in Procs, PipeClose(p) PROVE LockInv'
    BY <1>8 DEF PipeClose, WakeReaders, WakeWriters, Wakeup
  <1>9. ASSUME NEW p \in Procs, FileClose(p) PROVE LockInv'
    BY <1>9, Zenon DEF FileClose, Goto, pipeVars
  <1>10. ASSUME NEW p \in Procs, Kill(p) PROVE LockInv'
    BY <1>10, Zenon DEF Kill, Goto, pipeVars
  <1>11. ASSUME NEW p \in Procs, NEW k \in Counts, CallWrite(p, k) PROVE LockInv'
    BY <1>11, Zenon DEF CallWrite, Goto, pipeVars
  <1>12. ASSUME NEW p \in Procs, NEW k \in Counts, CallRead(p, k) PROVE LockInv'
    BY <1>12, Zenon DEF CallRead, Goto, pipeVars
  <1>13. CASE UNCHANGED vars
    BY <1>13, Zenon DEF vars, pipeVars, callVars
  <1> QED
    BY <1>1, <1>2, <1>3, <1>4, <1>5, <1>6, <1>7, <1>8, <1>9, <1>10, <1>11, <1>12, <1>13,
       Zenon DEF Next, Step

\* Nobody's descriptor goes away during a call of its own.
LEMMA CallStep == IInv /\ [Next]_vars => CallInv'
  <1> SUFFICES ASSUME IInv, [Next]_vars PROVE CallInv'
    OBVIOUS
  <1> USE PipeAssumption DEF IInv, TypeOK, CallInv, InWrite, InRead, Procs
  <1>1. ASSUME NEW p \in Procs, WriteEnd(p) PROVE CallInv'
    BY <1>1, Zenon DEF WriteEnd, Goto, WakeReaders, Wakeup, Return, Release, pipeVars
  <1>2. ASSUME NEW p \in Procs, WriteFull(p) PROVE CallInv'
    BY <1>2, Zenon DEF WriteFull, WakeReaders, Wakeup, Release, pipeVars
  <1>3. ASSUME NEW p \in Procs, NEW ch \in Bytes, WriteByte(p, ch) PROVE CallInv'
    BY <1>3, Zenon DEF WriteByte
  <1>4. ASSUME NEW p \in Procs, ReadWait(p) PROVE CallInv'
    BY <1>4 DEF ReadWait, Goto, Return, Release, pipeVars
  <1>5. ASSUME NEW p \in Procs, ReadByte(p) PROVE CallInv'
    BY <1>5 DEF ReadByte, Return, Release, WakeWriters, Wakeup
  <1>6. ASSUME NEW p \in Procs, ReadEnd(p) PROVE CallInv'
    BY <1>6, Zenon DEF ReadEnd, WakeWriters, Wakeup, Return, Release, pipeVars
  <1>7. ASSUME NEW p \in Procs, Woken(p) PROVE CallInv'
    BY <1>7, Zenon DEF Woken, Goto, pipeVars
  <1>8. ASSUME NEW p \in Procs, PipeClose(p) PROVE CallInv'
    BY <1>8 DEF PipeClose, WakeReaders, WakeWriters, Wakeup
  <1>9. ASSUME NEW p \in Procs, FileClose(p) PROVE CallInv'
    BY <1>9, Zenon DEF FileClose, Goto, pipeVars
  <1>10. ASSUME NEW p \in Procs, Kill(p) PROVE CallInv'
    BY <1>10, Zenon DEF Kill, Goto, pipeVars
  <1>11. ASSUME NEW p \in Procs, NEW k \in Counts, CallWrite(p, k) PROVE CallInv'
    BY <1>11, Zenon DEF CallWrite, Goto, pipeVars
  <1>12. ASSUME NEW p \in Procs, NEW k \in Counts, CallRead(p, k) PROVE CallInv'
    BY <1>12, Zenon DEF CallRead, Goto, pipeVars
  <1>13. CASE UNCHANGED vars
    BY <1>13, Zenon DEF vars, pipeVars, callVars
  <1> QED
    BY <1>1, <1>2, <1>3, <1>4, <1>5, <1>6, <1>7, <1>8, <1>9, <1>10, <1>11, <1>12, <1>13,
       Zenon DEF Next, Step

\* The end is closed by the last one, once.
LEMMA EndStep == IInv /\ [Next]_vars => EndInv'
  <1> SUFFICES ASSUME IInv, [Next]_vars PROVE EndInv'
    OBVIOUS
  <1> USE PipeAssumption DEF IInv, TypeOK, EndInv, IsOpen, EndOf, Procs
  <1>1. ASSUME NEW p \in Procs, WriteEnd(p) PROVE EndInv'
    BY <1>1, Zenon DEF WriteEnd, Goto, WakeReaders, Wakeup, Return, Release, pipeVars
  <1>2. ASSUME NEW p \in Procs, WriteFull(p) PROVE EndInv'
    BY <1>2, Zenon DEF WriteFull, WakeReaders, Wakeup, Release, pipeVars
  <1>3. ASSUME NEW p \in Procs, NEW ch \in Bytes, WriteByte(p, ch) PROVE EndInv'
    BY <1>3, Zenon DEF WriteByte
  <1>4. ASSUME NEW p \in Procs, ReadWait(p) PROVE EndInv'
    <2>1. UNCHANGED <<readopen, writeopen, freed, fd>>
      BY <1>4, Zenon DEF ReadWait, pipeVars
    <2>2. \A q \in Procs : pc'[q] = "pipeclose" <=> pc[q] = "pipeclose"
      BY <1>4, Zenon DEF ReadWait, Goto
    <2> QED
      BY <2>1, <2>2, Zenon
  <1>5. ASSUME NEW p \in Procs, ReadByte(p) PROVE EndInv'
    <2>1. UNCHANGED <<readopen, writeopen, freed, fd>>
      BY <1>5, Zenon DEF ReadByte
    <2>2. \A q \in Procs : pc'[q] = "pipeclose" <=> pc[q] = "pipeclose"
      BY <1>5, Zenon DEF ReadByte, WakeWriters, Wakeup
    <2> QED
      BY <2>1, <2>2, Zenon
  <1>6. ASSUME NEW p \in Procs, ReadEnd(p) PROVE EndInv'
    BY <1>6, Zenon DEF ReadEnd, WakeWriters, Wakeup, Return, Release, pipeVars
  <1>7. ASSUME NEW p \in Procs, Woken(p) PROVE EndInv'
    BY <1>7, Zenon DEF Woken, Goto, pipeVars
  <1>8. ASSUME NEW p \in Procs, PipeClose(p) PROVE EndInv'
    BY <1>8 DEF PipeClose, WakeReaders, WakeWriters, Wakeup
  <1>9. ASSUME NEW p \in Procs, FileClose(p) PROVE EndInv'
    BY <1>9, Zenon DEF FileClose, Goto, pipeVars
  <1>10. ASSUME NEW p \in Procs, Kill(p) PROVE EndInv'
    BY <1>10, Zenon DEF Kill, Goto, pipeVars
  <1>11. ASSUME NEW p \in Procs, NEW k \in Counts, CallWrite(p, k) PROVE EndInv'
    BY <1>11, Zenon DEF CallWrite, Goto, pipeVars
  <1>12. ASSUME NEW p \in Procs, NEW k \in Counts, CallRead(p, k) PROVE EndInv'
    BY <1>12, Zenon DEF CallRead, Goto, pipeVars
  <1>13. CASE UNCHANGED vars
    BY <1>13, Zenon DEF vars, pipeVars, callVars
  <1> QED
    BY <1>1, <1>2, <1>3, <1>4, <1>5, <1>6, <1>7, <1>8, <1>9, <1>10, <1>11, <1>12, <1>13,
       Zenon DEF Next, Step

\* No wakeup is lost, whoever holds the lock.
LEMMA WakeStep == IInv /\ [Next]_vars => WakeInv'
  <1> SUFFICES ASSUME IInv, [Next]_vars PROVE WakeInv'
    OBVIOUS
  <1> USE PipeAssumption DEF IInv, TypeOK, LockInv, CallInv, Holding, InWrite, InRead, WakeInv, Empty, Full, Procs
  <1>1. ASSUME NEW p \in Procs, WriteEnd(p) PROVE WakeInv'
    BY <1>1 DEF WriteEnd, Goto, WakeReaders, Wakeup, Return, Release, pipeVars
  <1>2. ASSUME NEW p \in Procs, WriteFull(p) PROVE WakeInv'
    BY <1>2, Zenon DEF WriteFull, WakeReaders, Wakeup, Release, pipeVars
  <1>3. ASSUME NEW p \in Procs, NEW ch \in Bytes, WriteByte(p, ch) PROVE WakeInv'
    BY <1>3, Zenon DEF WriteByte
  <1>4. ASSUME NEW p \in Procs, ReadWait(p) PROVE WakeInv'
    BY <1>4 DEF ReadWait, Goto, Return, Release, pipeVars
  <1>5. ASSUME NEW p \in Procs, ReadByte(p) PROVE WakeInv'
    BY <1>5 DEF ReadByte, Return, Release, WakeWriters, Wakeup
  <1>6. ASSUME NEW p \in Procs, ReadEnd(p) PROVE WakeInv'
    BY <1>6, Zenon DEF ReadEnd, WakeWriters, Wakeup, Return, Release, pipeVars
  <1>7. ASSUME NEW p \in Procs, Woken(p) PROVE WakeInv'
    BY <1>7, Zenon DEF Woken, Goto, pipeVars
  <1>8. ASSUME NEW p \in Procs, PipeClose(p) PROVE WakeInv'
    BY <1>8 DEF PipeClose, WakeReaders, WakeWriters, Wakeup
  <1>9. ASSUME NEW p \in Procs, FileClose(p) PROVE WakeInv'
    BY <1>9, Zenon DEF FileClose, Goto, pipeVars
  <1>10. ASSUME NEW p \in Procs, Kill(p) PROVE WakeInv'
    BY <1>10, Zenon DEF Kill, Goto, pipeVars
  <1>11. ASSUME NEW p \in Procs, NEW k \in Counts, CallWrite(p, k) PROVE WakeInv'
    BY <1>11, Zenon DEF CallWrite, Goto, pipeVars
  <1>12. ASSUME NEW p \in Procs, NEW k \in Counts, CallRead(p, k) PROVE WakeInv'
    BY <1>12, Zenon DEF CallRead, Goto, pipeVars
  <1>13. CASE UNCHANGED vars
    BY <1>13, Zenon DEF vars, pipeVars, callVars
  <1> QED
    BY <1>1, <1>2, <1>3, <1>4, <1>5, <1>6, <1>7, <1>8, <1>9, <1>10, <1>11, <1>12, <1>13,
       Zenon DEF Next, Step

-----------------------------------------------------------------------------
\* The invariant holds in every state.
THEOREM PipeInvariant == Spec => []IInv
  <1>1. IInv /\ [Next]_vars => IInv'
    BY TypeStep, LockStep, CallStep, EndStep, WakeStep, Zenon DEF IInv
  <1> QED
    BY InitIInv, <1>1, PTL DEF Spec

\* pipewrite, piperead and pipeclose never leave a process asleep for a byte,
\* for room or for a close that is there already, for any number of processes.
THEOREM PipeNoLostWakeup == Spec => []NoLostWakeup
  <1>1. IInv => NoLostWakeup
    BY Zenon DEF IInv, WakeInv, NoLostWakeup
  <1> QED
    BY PipeInvariant, <1>1, PTL

\* The last pipeclose frees the pipe when nobody uses it or can come to use it.
THEOREM PipeNotFreedInUse == Spec => []NotFreedInUse
  <1>1. ASSUME IInv, freed PROVE fd = {}
    BY <1>1, Zenon DEF IInv, TypeOK, EndInv, IsOpen
  <1>2. ASSUME IInv, freed, NEW p \in Procs PROVE pc[p] = "idle"
    BY <1>1, <1>2, Zenon DEF IInv, TypeOK, PCs, EndInv, IsOpen, CallInv, InWrite, InRead
  <1>3. IInv => NotFreedInUse
    BY <1>1, <1>2, Zenon DEF NotFreedInUse
  <1> QED
    BY PipeInvariant, <1>3, PTL
-----------------------------------------------------------------------------
(* The ring buffer implements the queue. *)

\* The number of bytes in the pipe when its counters are r and w, and the bytes.
Used(r, w) == (w - r) % UintMod
Ring(d, r, n) == [k \in 1 .. n |-> d[(r + k - 1) % PIPESIZE]]

\* The pipe never holds more than PIPESIZE bytes.
SizeInv == Used(nread, nwrite) <= PIPESIZE

\* The constants, without the divisibility of UintMod.
LEMMA Sizes == PIPESIZE \in Nat \ {0} /\ UintMod \in Nat \ {0} /\ PIPESIZE < UintMod
  BY PipeAssumption

\* x++ wraps to 0.
LEMMA IncWraps ==
  ASSUME NEW x \in 0 .. UintMod - 1
  PROVE  Inc(x) = IF x + 1 < UintMod THEN x + 1 ELSE 0
  <1> DEFINE a == x + 1
  <1>1. a \in Int /\ 0 - UintMod <= a /\ 0 <= a /\ a < UintMod + UintMod
    BY Sizes
  <1> HIDE DEF a
  <1>2. a % UintMod = IF a < 0 THEN a + UintMod ELSE IF a < UintMod THEN a ELSE a - UintMod
    BY Sizes, <1>1, ModOnce, Zenon
  <1> QED
    BY Sizes, <1>1, <1>2 DEF Inc, a

\* The difference of the counters, whichever of them has wrapped.
LEMMA UsedValue ==
  ASSUME NEW r \in 0 .. UintMod - 1, NEW w \in 0 .. UintMod - 1
  PROVE  /\ Used(r, w) = IF r <= w THEN w - r ELSE w - r + UintMod
         /\ Used(r, w) \in 0 .. UintMod - 1
  <1> DEFINE a == w - r
  <1>1. a \in Int /\ 0 - UintMod <= a /\ a < UintMod /\ a < UintMod + UintMod
    BY Sizes
  <1> HIDE DEF a
  <1>2. a % UintMod = IF a < 0 THEN a + UintMod ELSE IF a < UintMod THEN a ELSE a - UintMod
    BY Sizes, <1>1, ModOnce, Zenon
  <1> QED
    BY Sizes, <1>1, <1>2 DEF Used, a

\* The tests of the code for an empty and for a full pipe.
LEMMA EmptyFull ==
  ASSUME TypeOK
  PROVE  /\ Empty <=> Used(nread, nwrite) = 0
         /\ Full <=> Used(nread, nwrite) = PIPESIZE
  <1>1. nread \in 0 .. UintMod - 1 /\ nwrite \in 0 .. UintMod - 1
    BY Zenon DEF TypeOK
  <1>2. Used(nread, nwrite) = IF nread <= nwrite THEN nwrite - nread ELSE nwrite - nread + UintMod
    BY <1>1, UsedValue, Zenon
  <1>3. (nread + PIPESIZE) % UintMod
          = IF nread + PIPESIZE < UintMod THEN nread + PIPESIZE ELSE nread + PIPESIZE - UintMod
    <2> DEFINE a == nread + PIPESIZE
    <2>1. a \in Int /\ 0 - UintMod <= a /\ 0 <= a /\ a < UintMod + UintMod
      BY <1>1, Sizes
    <2> HIDE DEF a
    <2>2. a % UintMod = IF a < 0 THEN a + UintMod ELSE IF a < UintMod THEN a ELSE a - UintMod
      BY <2>1, Sizes, ModOnce, Zenon
    <2> QED
      BY <1>1, <2>1, <2>2, Sizes DEF a
  <1>4. Empty <=> Used(nread, nwrite) = 0
    BY <1>1, <1>2, Sizes DEF Empty
  <1>5. Full <=> Used(nread, nwrite) = PIPESIZE
    BY <1>1, <1>2, <1>3, Sizes DEF Full
  <1> QED
    BY <1>4, <1>5, Zenon

\* Writing a byte makes the pipe longer by one, reading one shorter by one.
LEMMA UsedInc ==
  ASSUME NEW r \in 0 .. UintMod - 1, NEW w \in 0 .. UintMod - 1
  PROVE  /\ Used(r, w) + 1 < UintMod => Used(r, Inc(w)) = Used(r, w) + 1
         /\ Used(r, w) # 0 => Used(Inc(r), w) = Used(r, w) - 1
  <1>1. Inc(r) \in 0 .. UintMod - 1 /\ Inc(w) \in 0 .. UintMod - 1
    BY IncType, Zenon
  <1>2. /\ Inc(r) = IF r + 1 < UintMod THEN r + 1 ELSE 0
        /\ Inc(w) = IF w + 1 < UintMod THEN w + 1 ELSE 0
    BY IncWraps, Zenon
  <1>3. Used(r, w) = IF r <= w THEN w - r ELSE w - r + UintMod
    BY UsedValue, Zenon
  <1>4. Used(r, Inc(w)) = IF r <= Inc(w) THEN Inc(w) - r ELSE Inc(w) - r + UintMod
    BY <1>1, UsedValue, Zenon
  <1>5. Used(Inc(r), w) = IF Inc(r) <= w THEN w - Inc(r) ELSE w - Inc(r) + UintMod
    BY <1>1, UsedValue, Zenon
  <1> QED
    BY <1>1, <1>2, <1>3, <1>4, <1>5, Sizes

\* A byte is written at the place behind the last one, and reading one moves
\* the first place on by one, also when the counter wraps.
LEMMA Places ==
  ASSUME NEW r \in 0 .. UintMod - 1, NEW w \in 0 .. UintMod - 1
  PROVE  /\ w % PIPESIZE = (r + Used(r, w)) % PIPESIZE
         /\ \A k \in Nat : (Inc(r) + k) % PIPESIZE = (r + 1 + k) % PIPESIZE
  <1>1. PIPESIZE \in Nat \ {0} /\ UintMod \in Nat /\ UintMod % PIPESIZE = 0
    BY PipeAssumption, Zenon
  <1>2. (w + UintMod) % PIPESIZE = w % PIPESIZE
    <2>1. w \in Int
      OBVIOUS
    <2> QED
      BY <1>1, <2>1, ModPlus, Zenon
  <1>3. r + Used(r, w) = w \/ r + Used(r, w) = w + UintMod
    <2>1. Used(r, w) = IF r <= w THEN w - r ELSE w - r + UintMod
      BY UsedValue, Zenon
    <2> QED
      BY <2>1, Sizes
  <1>4. ASSUME NEW k \in Nat PROVE (Inc(r) + k) % PIPESIZE = (r + 1 + k) % PIPESIZE
    <2>1. r + 1 + k = Inc(r) + k \/ (r + 1 + k = k + UintMod /\ Inc(r) + k = k)
      BY IncWraps, Sizes
    <2>2. (k + UintMod) % PIPESIZE = k % PIPESIZE
      <3>1. k \in Int
        OBVIOUS
      <3> QED
        BY <1>1, <3>1, ModPlus, Zenon
    <2> QED
      BY <2>1, <2>2, Zenon
  <1> QED
    BY <1>2, <1>3, <1>4, Zenon

\* The bytes in the pipe, as a sequence.
LEMMA RingSeq ==
  ASSUME NEW d \in [0 .. PIPESIZE - 1 -> Bytes], NEW r \in Nat, NEW n \in Nat
  PROVE  /\ Ring(d, r, n) \in Seq(Bytes) /\ Len(Ring(d, r, n)) = n
         /\ \A k \in 1 .. n : Ring(d, r, n)[k] = d[(r + k - 1) % PIPESIZE]
  <1>1. ASSUME NEW k \in 1 .. n PROVE (r + k - 1) % PIPESIZE \in 0 .. PIPESIZE - 1
    <2>1. r + k - 1 \in Int
      OBVIOUS
    <2> QED
      BY <2>1, Sizes, DivMod, Zenon
  <1>2. Ring(d, r, n) \in [1 .. n -> Bytes]
    BY <1>1, Zenon DEF Ring
  <1>3. Ring(d, r, n) \in Seq(Bytes) /\ Len(Ring(d, r, n)) = n
    BY <1>2, LenProperties
  <1> QED
    BY <1>3, Zenon DEF Ring

\* pipewrite stores a byte in a place that no byte of the pipe is in, so it
\* appends the byte.
LEMMA RingPut ==
  ASSUME NEW d \in [0 .. PIPESIZE - 1 -> Bytes], NEW r \in Nat, NEW n \in 0 .. PIPESIZE - 1,
         NEW ch \in Bytes
  PROVE  Ring([d EXCEPT ![(r + n) % PIPESIZE] = ch], r, n + 1) = Append(Ring(d, r, n), ch)
  <1> DEFINE e == [d EXCEPT ![(r + n) % PIPESIZE] = ch]
             s == Ring(e, r, n + 1)
             t == Append(Ring(d, r, n), ch)
  <1>1. (r + n) % PIPESIZE \in 0 .. PIPESIZE - 1
    <2>1. r + n \in Int
      BY Sizes
    <2> QED
      BY <2>1, Sizes, DivMod, Zenon
  <1>2. e \in [0 .. PIPESIZE - 1 -> Bytes] /\ e[(r + n) % PIPESIZE] = ch
    BY <1>1, Zenon
  <1>3. n \in Nat /\ n + 1 \in Nat
    BY Sizes
  <1>4. ASSUME NEW k \in 1 .. n PROVE e[(r + k - 1) % PIPESIZE] = d[(r + k - 1) % PIPESIZE]
    <2> DEFINE a == r + k - 1
               j == n - k + 1
    <2>1. a \in Int /\ j \in 1 .. PIPESIZE - 1 /\ a + j = r + n
      BY Sizes, <1>3
    <2> HIDE DEF a, j
    <2>2. (a + j) % PIPESIZE # a % PIPESIZE
      BY <2>1, Sizes, ModDiffers, Zenon
    <2>3. (r + n) % PIPESIZE # a % PIPESIZE
      BY <2>1, <2>2, Zenon
    <2>4. a % PIPESIZE \in 0 .. PIPESIZE - 1
      BY <2>1, Sizes, DivMod, Zenon
    <2> QED
      BY <2>3, <2>4, Zenon DEF a
  <1> HIDE DEF e
  <1>5. /\ s \in Seq(Bytes) /\ Len(s) = n + 1
        /\ \A k \in 1 .. n + 1 : s[k] = e[(r + k - 1) % PIPESIZE]
    BY <1>2, <1>3, RingSeq, Zenon
  <1>6. /\ Ring(d, r, n) \in Seq(Bytes) /\ Len(Ring(d, r, n)) = n
        /\ \A k \in 1 .. n : Ring(d, r, n)[k] = d[(r + k - 1) % PIPESIZE]
    BY <1>3, RingSeq, Zenon
  <1>7. /\ t \in Seq(Bytes) /\ Len(t) = n + 1 /\ t[n + 1] = ch
        /\ \A k \in 1 .. n : t[k] = Ring(d, r, n)[k]
    BY <1>6, AppendProperties
  <1>8. s[n + 1] = ch
    <2>1. n + 1 \in 1 .. n + 1 /\ r + (n + 1) - 1 = r + n
      BY <1>3
    <2> QED
      BY <1>2, <1>5, <2>1, Zenon
  <1> HIDE DEF s, t
  <1>9. ASSUME NEW k \in 1 .. n + 1 PROVE s[k] = t[k]
    <2>1. CASE k = n + 1
      BY <2>1, <1>7, <1>8, Zenon
    <2>2. CASE k \in 1 .. n
      BY <2>2, <1>4, <1>5, <1>6, <1>7, Zenon
    <2> QED
      BY <2>1, <2>2, <1>3
  <1>10. s = t
    BY <1>5, <1>7, <1>9, SeqEqual, Zenon
  <1> QED
    BY <1>10, Zenon DEF s, t, e

\* piperead takes the byte that was written first.
LEMMA RingGet ==
  ASSUME NEW d \in [0 .. PIPESIZE - 1 -> Bytes], NEW r \in Nat, NEW r1 \in Nat,
         NEW n \in Nat \ {0},
         \A k \in Nat : (r1 + k) % PIPESIZE = (r + 1 + k) % PIPESIZE
  PROVE  Ring(d, r, n) # <<>> /\ Ring(d, r1, n - 1) = Tail(Ring(d, r, n))
  <1> DEFINE s == Ring(d, r, n)
             t == Ring(d, r1, n - 1)
  <1>1. /\ s \in Seq(Bytes) /\ Len(s) = n
        /\ \A k \in 1 .. n : s[k] = d[(r + k - 1) % PIPESIZE]
    BY RingSeq, Zenon
  <1>2. n - 1 \in Nat
    OBVIOUS
  <1>3. /\ t \in Seq(Bytes) /\ Len(t) = n - 1
        /\ \A k \in 1 .. n - 1 : t[k] = d[(r1 + k - 1) % PIPESIZE]
    BY <1>2, RingSeq, Zenon
  <1> HIDE DEF s, t
  <1>4. s # <<>>
    BY <1>1, EmptySeq, Zenon
  <1>5. /\ Tail(s) \in Seq(Bytes) /\ Len(Tail(s)) = n - 1
        /\ \A k \in 1 .. n - 1 : Tail(s)[k] = s[k + 1]
    BY <1>1, <1>4, HeadTailProperties, Zenon
  <1>6. ASSUME NEW k \in 1 .. n - 1 PROVE t[k] = Tail(s)[k]
    <2>1. k - 1 \in Nat /\ k + 1 \in 1 .. n
      OBVIOUS
    <2>2. (r1 + (k - 1)) % PIPESIZE = (r + 1 + (k - 1)) % PIPESIZE
      BY <2>1, Zenon
    <2>3. r1 + (k - 1) = r1 + k - 1 /\ r + 1 + (k - 1) = r + (k + 1) - 1
      OBVIOUS
    <2>4. s[k + 1] = d[(r + (k + 1) - 1) % PIPESIZE] /\ t[k] = d[(r1 + k - 1) % PIPESIZE]
      BY <1>1, <1>3, <2>1, Zenon
    <2> QED
      BY <1>5, <2>2, <2>3, <2>4, Zenon
  <1>7. t = Tail(s)
    BY <1>3, <1>5, <1>6, SeqEqual, Zenon
  <1> QED
    BY <1>4, <1>7, Zenon DEF s, t

\* The refinement mapping in terms of Ring.
LEMMA ContentsRing == Contents = Ring(data, nread, Used(nread, nwrite))
  BY Zenon DEF Contents, Ring, Used

\* Only WriteByte, ReadByte and PipeClose change what the queue shows.
LEMMA QuietStep ==
  ASSUME UNCHANGED <<data, nread, nwrite>>
  PROVE  UNCHANGED Contents /\ Used(nread, nwrite)' = Used(nread, nwrite)
  BY Zenon DEF Contents, Used

\* WriteByte puts a byte into the queue.
LEMMA PutStep ==
  ASSUME IInv, SizeInv, NEW p \in Procs, NEW ch \in Bytes, WriteByte(p, ch)
  PROVE  Fifo!Put(ch) /\ SizeInv'
  <1> DEFINE n == Used(nread, nwrite)
  <1>1. /\ data \in [0 .. PIPESIZE - 1 -> Bytes]
        /\ nread \in 0 .. UintMod - 1 /\ nwrite \in 0 .. UintMod - 1
    BY Zenon DEF IInv, TypeOK
  <1>2. n \in 0 .. PIPESIZE - 1
    <2>1. n \in 0 .. UintMod - 1
      BY <1>1, UsedValue, Zenon
    <2>2. n # PIPESIZE
      BY EmptyFull, Zenon DEF IInv, WriteByte
    <2> QED
      BY <2>1, <2>2, Sizes DEF SizeInv
  <1>3. Used(nread, Inc(nwrite)) = n + 1
    <2>1. n + 1 < UintMod
      BY <1>2, Sizes
    <2> QED
      BY <1>1, <2>1, UsedInc, Zenon
  <1>4. nwrite % PIPESIZE = (nread + n) % PIPESIZE
    BY <1>1, Places, Zenon
  <1>5. data' = [data EXCEPT ![nwrite % PIPESIZE] = ch] /\ nread' = nread /\ nwrite' = Inc(nwrite)
    BY Zenon DEF WriteByte
  <1>6. Contents' = Ring(data', nread', Used(nread', nwrite'))
    BY Zenon DEF Contents, Ring, Used
  <1> HIDE DEF n
  <1>7. nread \in Nat
    BY <1>1
  <1>8. Ring([data EXCEPT ![(nread + n) % PIPESIZE] = ch], nread, n + 1)
          = Append(Ring(data, nread, n), ch)
    BY <1>1, <1>2, <1>7, RingPut, Zenon
  <1>9. Contents' = Append(Contents, ch)
    BY <1>3, <1>4, <1>5, <1>6, <1>8, ContentsRing, Zenon DEF n
  <1>10. Len(Contents) < PIPESIZE
    <2>1. n \in Nat
      BY <1>2, Sizes
    <2>2. Len(Ring(data, nread, n)) = n
      BY <1>1, <1>7, <2>1, RingSeq, Zenon
    <2> QED
      BY <1>2, <2>2, ContentsRing, Sizes DEF n
  <1>11. readopen /\ writeopen
    <2>1. p \in Writers \cap fd /\ readopen
      BY Zenon DEF IInv, WriteByte, CallInv, InWrite
    <2>2. p \notin Readers
      BY <2>1, PipeAssumption, Zenon
    <2> QED
      BY <2>1, <2>2, Zenon DEF IInv, EndInv, IsOpen
  <1>12. SizeInv'
    BY <1>2, <1>3, <1>5, Sizes DEF SizeInv, Used
  <1> QED
    BY <1>9, <1>10, <1>11, <1>12, Zenon DEF Fifo!Put, WriteByte

\* ReadByte takes the oldest byte out of the queue.
LEMMA GetStep ==
  ASSUME IInv, SizeInv, NEW p \in Procs, ReadByte(p)
  PROVE  Fifo!Get /\ SizeInv'
  <1> DEFINE n == Used(nread, nwrite)
  <1>1. /\ data \in [0 .. PIPESIZE - 1 -> Bytes]
        /\ nread \in 0 .. UintMod - 1 /\ nwrite \in 0 .. UintMod - 1
    BY Zenon DEF IInv, TypeOK
  <1>2. n \in Nat \ {0} /\ n <= PIPESIZE
    <2>1. n \in 0 .. UintMod - 1
      BY <1>1, UsedValue, Zenon
    <2>2. n # 0
      BY EmptyFull, Zenon DEF IInv, ReadByte
    <2> QED
      BY <2>1, <2>2, Sizes DEF SizeInv
  <1>3. Used(Inc(nread), nwrite) = n - 1
    BY <1>1, <1>2, UsedInc, Zenon
  <1>4. \A k \in Nat : (Inc(nread) + k) % PIPESIZE = (nread + 1 + k) % PIPESIZE
    BY <1>1, Places, Zenon
  <1>5. data' = data /\ nread' = Inc(nread) /\ nwrite' = nwrite
    BY Zenon DEF ReadByte
  <1>6. Contents' = Ring(data', nread', Used(nread', nwrite'))
    BY Zenon DEF Contents, Ring, Used
  <1> HIDE DEF n
  <1>7. nread \in Nat /\ Inc(nread) \in Nat
    BY <1>1, IncType
  <1>8. Ring(data, nread, n) # <<>> /\ Ring(data, Inc(nread), n - 1) = Tail(Ring(data, nread, n))
    BY <1>1, <1>2, <1>4, <1>7, RingGet, Zenon
  <1>9. Contents # <<>> /\ Contents' = Tail(Contents)
    BY <1>3, <1>5, <1>6, <1>8, ContentsRing, Zenon DEF n
  <1>10. readopen
    BY Zenon DEF IInv, ReadByte, CallInv, InRead, EndInv, IsOpen
  <1>11. SizeInv'
    BY <1>2, <1>3, <1>5, Sizes DEF SizeInv, Used
  <1> QED
    BY <1>9, <1>10, <1>11, Zenon DEF Fifo!Get, ReadByte

\* Every step of the pipe is a step of the queue or leaves it as it is.
LEMMA FifoStep ==
  ASSUME IInv, SizeInv, [Next]_vars
  PROVE  [Fifo!Next]_(Fifo!vars) /\ SizeInv'
  <1>1. ASSUME UNCHANGED pipeVars
        PROVE  UNCHANGED Fifo!vars /\ SizeInv'
    <2>1. UNCHANGED <<data, nread, nwrite, readopen, writeopen>>
      BY <1>1, Zenon DEF pipeVars
    <2>2. UNCHANGED Contents /\ Used(nread, nwrite)' = Used(nread, nwrite)
      BY <2>1, QuietStep, Zenon
    <2> QED
      BY <2>1, <2>2, Zenon DEF Fifo!vars, SizeInv
  <1>2. ASSUME NEW p \in Procs, NEW ch \in Bytes, WriteByte(p, ch)
        PROVE  Fifo!Next /\ SizeInv'
    BY <1>2, PutStep, Zenon DEF Fifo!Next
  <1>3. ASSUME NEW p \in Procs, ReadByte(p)
        PROVE  Fifo!Next /\ SizeInv'
    BY <1>3, GetStep, Zenon DEF Fifo!Next
  <1>4. ASSUME NEW p \in Procs, PipeClose(p)
        PROVE  Fifo!Next /\ SizeInv'
    <2>1. UNCHANGED <<data, nread, nwrite>>
      BY <1>4, Zenon DEF PipeClose
    <2>2. UNCHANGED Contents /\ Used(nread, nwrite)' = Used(nread, nwrite)
      BY <2>1, QuietStep, Zenon
    <2>3. SizeInv'
      BY <2>2, Zenon DEF SizeInv
    <2>4. IsOpen(p)
      BY <1>4, Zenon DEF IInv, EndInv, PipeClose
    <2>5. CASE p \in Writers
      <3>1. p \notin Readers
        BY <2>5, PipeAssumption, Zenon
      <3>2. writeopen /\ writeopen' = FALSE /\ UNCHANGED readopen
        BY <1>4, <2>4, <2>5, <3>1, Zenon DEF IsOpen, PipeClose
      <3> QED
        BY <2>2, <2>3, <3>2, Zenon DEF Fifo!Next, Fifo!CloseWrite
    <2>6. CASE p \notin Writers
      <3>1. p \in Readers
        BY <2>6, Zenon DEF Procs
      <3>2. readopen /\ readopen' = FALSE /\ UNCHANGED writeopen
        BY <1>4, <2>4, <2>6, <3>1, Zenon DEF IsOpen, PipeClose
      <3> QED
        BY <2>2, <2>3, <3>2, Zenon DEF Fifo!Next, Fifo!CloseRead
    <2> QED
      BY <2>5, <2>6, Zenon
  <1>5. CASE UNCHANGED vars
    BY <1>1, <1>5, Zenon DEF vars
  <1>6. ASSUME NEW p \in Procs,
               \/ WriteEnd(p) \/ WriteFull(p) \/ ReadWait(p) \/ ReadEnd(p) \/ Woken(p)
               \/ FileClose(p) \/ Kill(p)
        PROVE  UNCHANGED pipeVars
    BY <1>6, Zenon DEF WriteEnd, WriteFull, ReadWait, ReadEnd, Woken, FileClose, Kill
  <1>7. ASSUME NEW p \in Procs, NEW k \in Counts, CallWrite(p, k) \/ CallRead(p, k)
        PROVE  UNCHANGED pipeVars
    BY <1>7, Zenon DEF CallWrite, CallRead
  <1> QED
    BY <1>1, <1>2, <1>3, <1>4, <1>5, <1>6, <1>7, Zenon DEF Next, Step

\* An empty pipe is the empty queue.
LEMMA FifoInit == Init => Fifo!Init /\ SizeInv
  <1> SUFFICES ASSUME Init PROVE Fifo!Init /\ SizeInv
    OBVIOUS
  <1>1. TypeOK /\ Empty
    BY InitIInv, Zenon DEF IInv, Init, Empty
  <1>2. Used(nread, nwrite) = 0
    BY <1>1, EmptyFull, Zenon
  <1>3. Contents = <<>>
    <2>1. 0 \in Nat /\ data \in [0 .. PIPESIZE - 1 -> Bytes] /\ nread \in Nat
      BY <1>1 DEF TypeOK
    <2>2. Contents \in Seq(Bytes) /\ Len(Contents) = 0
      BY <1>2, <2>1, RingSeq, ContentsRing, Zenon
    <2> QED
      BY <2>2, EmptySeq, Zenon
  <1> QED
    BY <1>2, <1>3, Sizes DEF Fifo!Init, SizeInv, Init

\* The buffer of pipe.c, with its two counters that wrap at UintMod, implements
\* a first-in first-out queue of PIPESIZE bytes: no byte is lost, doubled,
\* reordered or overwritten by pipewrite, piperead and pipeclose, whatever the
\* number of readers and writers and wherever the counters stand.
THEOREM PipeImplementsFifo == Spec => ImplementsFifo
  <1>1. Init => Fifo!Init /\ SizeInv
    BY FifoInit, Zenon
  <1>2. IInv /\ SizeInv /\ [Next]_vars => [Fifo!Next]_(Fifo!vars) /\ SizeInv'
    BY FifoStep, Zenon
  <1> QED
    BY PipeInvariant, <1>1, <1>2, PTL DEF Spec, ImplementsFifo, Fifo!Spec
=============================================================================
