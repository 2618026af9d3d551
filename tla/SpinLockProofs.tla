---------------------------- MODULE SpinLockProofs ----------------------------
(***************************************************************************)
(* Proofs about SpinLock for every number of cores and locks.              *)
(***************************************************************************)
EXTENDS SpinLock, FiniteSetTheorems, TLAPS

\* The labels at which a context has one push_off more outstanding than it
\* holds locks: acquire between push_off and its end, and release between the
\* store that frees the lock and pop_off.
Pushed == {"holding", "holding_cpu", "test_and_set", "set_cpu", "pop_off"}

InRelease == {"rel_holding", "rel_holding_cpu", "clear_cpu", "unlock"}

\* The push_offs of x that no pop_off has matched.
Depth(x) == Cardinality(held[x]) + IF pc[x] \in Pushed THEN 1 ELSE 0

\* A context that does not execute is either an idle handler or a thread that
\* was interrupted outside every push_off with interrupts on.
SuspendedInv ==
  \A c \in CPUs :
    /\ ~inhandler[c] => pc[Handler(c)] = "run" /\ held[Handler(c)] = {}
    /\ inhandler[c] => /\ pc[Thread(c)] \in {"run", "intr_off"}
                       /\ held[Thread(c)] = {}
                       /\ want[c]

\* noff counts the outstanding push_offs; interrupts and intena follow.
CpuInv ==
  /\ \A c \in CPUs :
       /\ noff[c] = Depth(Thread(c)) + Depth(Handler(c))
       /\ noff[c] > 0 => (intena[c] <=> (want[c] /\ ~inhandler[c]))
  /\ \A x \in Contexts :
       pc[x] = "intr_off" /\ held[x] = {} => (old[x] <=> (x[2] = "thread" /\ want[x[1]]))

\* Where lk points while a call is in progress.
CallInv ==
  \A x \in Contexts :
    /\ pc[x] \notin {"run", "panic"} => lk[x] \in Locks
    /\ pc[x] \in {"intr_off", "holding", "holding_cpu", "test_and_set", "set_cpu"}
         => lk[x] \notin held[x]
    /\ pc[x] \in InRelease => lk[x] \in held[x]

\* The lock word is set exactly when somebody owns the lock, and lk->cpu is
\* the core of the owner, except between the stores of acquire and release.
LockInv ==
  \A l \in Locks :
    /\ locked[l] => \E x \in Contexts : Owns(x, l)
    /\ \A x \in Contexts :
         Owns(x, l) => /\ locked[l]
                       /\ cpu[l] = IF pc[x] \in {"set_cpu", "unlock"} /\ lk[x] = l
                                     THEN None ELSE x[1]
    /\ ~locked[l] => cpu[l] = None

\* The inductive invariant.
IInv ==
  /\ TypeOK
  /\ NoPanic
  /\ MutualExclusion
  /\ InterruptsRestored
  /\ SuspendedInv
  /\ CpuInv
  /\ CallInv
  /\ LockInv
-----------------------------------------------------------------------------
\* A context is the thread or the handler of its core.
LEMMA ContextFacts ==
  /\ \A x \in Contexts : /\ x[1] \in CPUs
                         /\ \/ x = Thread(x[1]) /\ x[2] = "thread"
                            \/ x = Handler(x[1]) /\ x[2] = "handler"
  /\ \A c \in CPUs : /\ Thread(c) \in Contexts /\ Thread(c)[1] = c /\ Thread(c)[2] = "thread"
                     /\ Handler(c) \in Contexts /\ Handler(c)[1] = c /\ Handler(c)[2] = "handler"
                     /\ Thread(c) # Handler(c)
  BY DEF Contexts, Thread, Handler

\* What Depth is, as far as its callers need to know.
LEMMA DepthFacts ==
  ASSUME TypeOK, NEW x \in Contexts
  PROVE  /\ IsFiniteSet(held[x])
         /\ Cardinality(held[x]) \in Nat
         /\ Cardinality(held[x]) = 0 <=> held[x] = {}
         /\ Depth(x) \in Nat
         /\ Depth(x) = 0 <=> held[x] = {} /\ pc[x] \notin Pushed
  <1>1. held[x] \subseteq Locks
    BY Zenon DEF TypeOK
  <1>2. IsFiniteSet(held[x])
    BY <1>1, LocksAssumption, FS_Subset, Zenon
  <1>3. Cardinality(held[x]) \in Nat
    BY <1>2, FS_CardinalityType, Zenon
  <1>4. Cardinality(held[x]) = 0 <=> held[x] = {}
    BY <1>2, FS_EmptySet, Zenon
  <1> QED
    BY <1>2, <1>3, <1>4 DEF Depth

\* initlock leaves every lock free and no push_off outstanding.
LEMMA InitIInv == Init => IInv
  <1> SUFFICES ASSUME Init PROVE IInv
    OBVIOUS
  <1>1. TypeOK /\ NoPanic /\ MutualExclusion /\ InterruptsRestored
    BY NoneAssumption, Zenon DEF Init, TypeOK, NoPanic, MutualExclusion,
       InterruptsRestored, PCs, Owns
  <1>2. \A x \in Contexts : Depth(x) = 0
    BY <1>1, DepthFacts, Zenon DEF Init, Pushed
  <1>3. SuspendedInv
    BY ContextFacts, Zenon DEF Init, SuspendedInv
  <1>4. CpuInv
    BY <1>2, ContextFacts DEF Init, CpuInv
  <1>5. CallInv /\ LockInv
    BY Zenon DEF Init, CallInv, LockInv, Owns, InRelease
  <1> QED
    BY <1>1, <1>3, <1>4, <1>5, Zenon DEF IInv

\* A call of acquire for a lock that comes later in the nesting order.
LEMMA CallAcquireIInv ==
  ASSUME IInv, NEW x \in Contexts, NEW l \in Locks, CallAcquire(x, l)
  PROVE  IInv'
  <1> USE ContextFacts DEF IInv, CallAcquire, At, Active, Goto, lockVars, cpuVars
  <1>1. TypeOK'
    BY Zenon DEF TypeOK, PCs
  <1>2. NoPanic'
    BY Zenon DEF NoPanic, TypeOK
  <1>3. MutualExclusion'
    BY DEF MutualExclusion, TypeOK, Owns
  <1>4. InterruptsRestored'
    BY Zenon DEF InterruptsRestored
  <1>5. SuspendedInv'
    BY DEF SuspendedInv, TypeOK
  <1>6. CpuInv'
    <2>1. \A y \in Contexts : Depth(y)' = Depth(y)
      BY DEF Depth, Pushed, TypeOK
    <2>2. held[x] = {} => (intr[x[1]] <=> (x[2] = "thread" /\ want[x[1]]))
      BY DepthFacts, SMTT(30) DEF InterruptsRestored, CpuInv, SuspendedInv, TypeOK, Pushed
    <2> QED
      BY <2>1, <2>2 DEF CpuInv, TypeOK
  <1>7. CallInv'
    BY LocksAssumption DEF CallInv, TypeOK, InRelease
  <1>8. LockInv'
    BY DEF LockInv, TypeOK, Owns
  <1> QED
    BY <1>1, <1>2, <1>3, <1>4, <1>5, <1>6, <1>7, <1>8, Zenon

\* push_off: noff grows with the depth of the caller, and intena records the
\* interrupt bit only at depth 0.
LEMMA PushOffIInv ==
  ASSUME IInv, NEW x \in Contexts, PushOff(x)
  PROVE  IInv'
  <1> USE ContextFacts DEF IInv, PushOff, At, Active, Goto, lockVars, cpuVars
  <1>1. TypeOK'
    BY DEF TypeOK, PCs
  <1>2. NoPanic'
    BY Zenon DEF NoPanic, TypeOK
  <1>3. MutualExclusion'
    BY DEF MutualExclusion, TypeOK, Owns
  <1>a. \A y \in Contexts \ {x} : Depth(y)' = Depth(y)
    BY Zenon DEF Depth, TypeOK
  <1>b. Depth(x)' = Depth(x) + 1
    BY DepthFacts DEF Depth, Pushed, TypeOK
  <1>c. \A y \in Contexts : Depth(y) \in Nat
    BY DepthFacts, Zenon
  <1>4. InterruptsRestored'
    BY <1>c DEF InterruptsRestored, TypeOK
  <1>5. SuspendedInv'
    BY DEF SuspendedInv, TypeOK
  <1>6. CpuInv'
    <2>1. ASSUME NEW c \in CPUs
          PROVE  noff'[c] = Depth(Thread(c))' + Depth(Handler(c))'
      BY <1>a, <1>b, <1>c, SMTT(30) DEF CpuInv, TypeOK
    <2>2. noff[x[1]] = 0 => held[x] = {}
      BY <1>c, DepthFacts DEF CpuInv
    <2>3. inhandler[x[1]] <=> x[2] = "handler"
      OBVIOUS
    <2>4. intena'[x[1]] <=> (want[x[1]] /\ ~inhandler[x[1]])
      BY <2>2, <2>3 DEF CpuInv, TypeOK
    <2>5. ASSUME NEW c \in CPUs, noff'[c] > 0
          PROVE  intena'[c] <=> (want[c] /\ ~inhandler[c])
      BY <2>4, <2>5 DEF CpuInv, TypeOK
    <2>6. ASSUME NEW y \in Contexts, pc'[y] = "intr_off", held[y] = {}
          PROVE  old'[y] <=> (y[2] = "thread" /\ want[y[1]])
      BY <2>6 DEF CpuInv, TypeOK
    <2> QED
      BY <2>1, <2>5, <2>6, Zenon DEF CpuInv
  <1>7. CallInv'
    BY DEF CallInv, TypeOK, InRelease
  <1>8. LockInv'
    BY DEF LockInv, TypeOK, Owns
  <1> QED
    BY <1>1, <1>2, <1>3, <1>4, <1>5, <1>6, <1>7, <1>8, Zenon

\* holding, first half: the lock word is read.
LEMMA HoldingIInv ==
  ASSUME IInv, NEW x \in Contexts, Holding(x)
  PROVE  IInv'
  <1> USE ContextFacts DEF IInv, Holding, At, Active, Goto, lockVars, cpuVars
  <1>1. TypeOK'
    BY Zenon DEF TypeOK, PCs
  <1>2. NoPanic'
    BY Zenon DEF NoPanic, TypeOK
  <1>3. MutualExclusion'
    BY DEF MutualExclusion, TypeOK, Owns
  <1>a. \A y \in Contexts : Depth(y)' = Depth(y)
    BY DEF Depth, Pushed, TypeOK
  <1>4. InterruptsRestored'
    BY Zenon DEF InterruptsRestored
  <1>5. SuspendedInv'
    BY DEF SuspendedInv, TypeOK
  <1>6. CpuInv'
    BY <1>a DEF CpuInv, TypeOK, SuspendedInv
  <1>7. CallInv'
    BY DEF CallInv, TypeOK, InRelease
  <1>8. LockInv'
    BY DEF LockInv, TypeOK, Owns
  <1> QED
    BY <1>1, <1>2, <1>3, <1>4, <1>5, <1>6, <1>7, <1>8, Zenon

\* holding, second half: lk->cpu of a lock that this core does not own is not
\* this core, so acquire does not panic.
LEMMA HoldingCpuIInv ==
  ASSUME IInv, NEW x \in Contexts, HoldingCpu(x)
  PROVE  IInv'
  <1> USE ContextFacts DEF IInv, HoldingCpu, At, Active, Goto, lockVars, cpuVars
  <1>0. cpu[lk[x]] # x[1]
    <2> SUFFICES ASSUME cpu[lk[x]] = x[1] PROVE FALSE
      OBVIOUS
    <2>1. lk[x] \in Locks /\ lk[x] \notin held[x]
      BY Zenon DEF CallInv
    <2>2. cpu[lk[x]] # None
      BY NoneAssumption
    <2>3. PICK y \in Contexts : Owns(y, lk[x])
      BY <2>1, <2>2, Zenon DEF LockInv
    <2>4. y[1] = x[1] /\ y # x
      BY <2>1, <2>2, <2>3 DEF LockInv, Owns
    <2> QED
      BY <2>3, <2>4 DEF SuspendedInv, Owns
  <1>1. TypeOK'
    BY Zenon DEF TypeOK, PCs
  <1>2. NoPanic'
    BY <1>0, Zenon DEF NoPanic, TypeOK
  <1>3. MutualExclusion'
    BY DEF MutualExclusion, TypeOK, Owns
  <1>a. \A y \in Contexts : Depth(y)' = Depth(y)
    BY <1>0 DEF Depth, Pushed, TypeOK
  <1>4. InterruptsRestored'
    BY Zenon DEF InterruptsRestored
  <1>5. SuspendedInv'
    BY DEF SuspendedInv, TypeOK
  <1>6. CpuInv'
    BY <1>a DEF CpuInv, TypeOK, SuspendedInv
  <1>7. CallInv'
    BY DEF CallInv, TypeOK, InRelease
  <1>8. LockInv'
    BY DEF LockInv, TypeOK, Owns
  <1> QED
    BY <1>1, <1>2, <1>3, <1>4, <1>5, <1>6, <1>7, <1>8, Zenon

\* The exchange of acquire makes its caller the owner of a lock nobody owns.
LEMMA TestAndSetIInv ==
  ASSUME IInv, NEW x \in Contexts, TestAndSet(x)
  PROVE  IInv'
  <1> USE ContextFacts DEF IInv, TestAndSet, At, Active, Goto, lockVars, cpuVars
  <1>1. TypeOK'
    BY Zenon DEF TypeOK, PCs
  <1>2. NoPanic'
    BY Zenon DEF NoPanic, TypeOK
  <1>3. MutualExclusion'
    BY DEF MutualExclusion, TypeOK, Owns, CallInv, LockInv
  <1>a. \A y \in Contexts : Depth(y)' = Depth(y)
    BY Zenon DEF Depth, Pushed, TypeOK
  <1>4. InterruptsRestored'
    BY Zenon DEF InterruptsRestored
  <1>5. SuspendedInv'
    BY Zenon DEF SuspendedInv, TypeOK
  <1>6. CpuInv'
    BY <1>a DEF CpuInv, TypeOK, SuspendedInv
  <1>7. CallInv'
    BY DEF CallInv, TypeOK, InRelease
  <1>8. LockInv'
    BY DEF LockInv, TypeOK, Owns, CallInv, MutualExclusion
  <1> QED
    BY <1>1, <1>2, <1>3, <1>4, <1>5, <1>6, <1>7, <1>8, Zenon

\* acquire ends with lk->cpu naming the owner's core.
LEMMA SetCpuIInv ==
  ASSUME IInv, NEW x \in Contexts, SetCpu(x)
  PROVE  IInv'
  <1> USE ContextFacts DEF IInv, SetCpu, At, Active, Goto, lockVars, cpuVars
  <1>1. TypeOK'
    BY DEF TypeOK, PCs, CallInv
  <1>2. NoPanic'
    BY Zenon DEF NoPanic, TypeOK
  <1>3. MutualExclusion'
    BY DEF MutualExclusion, TypeOK, Owns
  <1>a. \A y \in Contexts : Depth(y)' = Depth(y)
    <2>1. \A y \in Contexts \ {x} : Depth(y)' = Depth(y)
      BY DEF Depth, TypeOK
    <2>2. lk[x] \notin held[x] /\ IsFiniteSet(held[x]) /\ Cardinality(held[x]) \in Nat
      BY DepthFacts, Zenon DEF CallInv
    <2>3. Cardinality(held[x] \cup {lk[x]}) = Cardinality(held[x]) + 1
      BY <2>2, FS_AddElement, Zenon
    <2>4. held'[x] = held[x] \cup {lk[x]} /\ pc'[x] = "run" /\ pc[x] = "set_cpu"
      BY Zenon DEF TypeOK
    <2>5. Depth(x)' = Depth(x)
      <3> HIDE DEF IInv, SetCpu, Unlock
      <3> QED
        BY <2>2, <2>3, <2>4 DEF Depth, Pushed
    <2> QED
      BY <2>1, <2>5, Zenon
  <1>4. InterruptsRestored'
    BY Zenon DEF InterruptsRestored
  <1>5. SuspendedInv'
    BY DEF SuspendedInv, TypeOK
  <1>6. CpuInv'
    BY <1>a DEF CpuInv, TypeOK, SuspendedInv
  <1>7. CallInv'
    BY DEF CallInv, TypeOK, InRelease
  <1>8. LockInv'
    BY DEF LockInv, TypeOK, Owns, CallInv, MutualExclusion
  <1> QED
    BY <1>1, <1>2, <1>3, <1>4, <1>5, <1>6, <1>7, <1>8, Zenon

\* release calls holding: the lock word of a held lock is set.
LEMMA RelHoldingIInv ==
  ASSUME IInv, NEW x \in Contexts, RelHolding(x)
  PROVE  IInv'
  <1> USE ContextFacts DEF IInv, RelHolding, At, Active, Goto, lockVars, cpuVars
  <1>1. TypeOK'
    BY Zenon DEF TypeOK, PCs
  <1>2. NoPanic'
    BY DEF NoPanic, TypeOK, CallInv, LockInv, InRelease, Owns
  <1>3. MutualExclusion'
    BY DEF MutualExclusion, TypeOK, Owns
  <1>a. \A y \in Contexts : Depth(y)' = Depth(y)
    BY DEF Depth, Pushed, TypeOK
  <1>4. InterruptsRestored'
    BY Zenon DEF InterruptsRestored
  <1>5. SuspendedInv'
    BY DEF SuspendedInv, TypeOK
  <1>6. CpuInv'
    BY <1>a DEF CpuInv, TypeOK, SuspendedInv
  <1>7. CallInv'
    BY DEF CallInv, TypeOK, InRelease
  <1>8. LockInv'
    BY DEF LockInv, TypeOK, Owns
  <1> QED
    BY <1>1, <1>2, <1>3, <1>4, <1>5, <1>6, <1>7, <1>8, Zenon

\* release calls holding: lk->cpu is this core, so release does not panic.
LEMMA RelHoldingCpuIInv ==
  ASSUME IInv, NEW x \in Contexts, RelHoldingCpu(x)
  PROVE  IInv'
  <1> USE ContextFacts DEF IInv, RelHoldingCpu, At, Active, Goto, lockVars, cpuVars
  <1>1. TypeOK'
    BY Zenon DEF TypeOK, PCs
  <1>2. NoPanic'
    BY DEF NoPanic, TypeOK, CallInv, LockInv, InRelease, Owns
  <1>3. MutualExclusion'
    BY DEF MutualExclusion, TypeOK, Owns
  <1>a. \A y \in Contexts : Depth(y)' = Depth(y)
    BY DEF Depth, Pushed, TypeOK
  <1>4. InterruptsRestored'
    BY Zenon DEF InterruptsRestored
  <1>5. SuspendedInv'
    BY Zenon DEF SuspendedInv, TypeOK
  <1>6. CpuInv'
    BY <1>a DEF CpuInv, TypeOK, SuspendedInv
  <1>7. CallInv'
    BY DEF CallInv, TypeOK, InRelease
  <1>8. LockInv'
    BY DEF LockInv, TypeOK, Owns
  <1> QED
    BY <1>1, <1>2, <1>3, <1>4, <1>5, <1>6, <1>7, <1>8, Zenon

\* release clears lk->cpu while it still owns the lock.
LEMMA ClearCpuIInv ==
  ASSUME IInv, NEW x \in Contexts, ClearCpu(x)
  PROVE  IInv'
  <1> USE ContextFacts DEF IInv, ClearCpu, At, Active, Goto, lockVars, cpuVars
  <1>1. TypeOK'
    BY Zenon DEF TypeOK, PCs
  <1>2. NoPanic'
    BY Zenon DEF NoPanic, TypeOK
  <1>3. MutualExclusion'
    BY DEF MutualExclusion, TypeOK, Owns
  <1>a. \A y \in Contexts : Depth(y)' = Depth(y)
    BY DEF Depth, Pushed, TypeOK
  <1>4. InterruptsRestored'
    BY Zenon DEF InterruptsRestored
  <1>5. SuspendedInv'
    BY Zenon DEF SuspendedInv, TypeOK
  <1>6. CpuInv'
    BY <1>a DEF CpuInv, TypeOK, SuspendedInv
  <1>7. CallInv'
    BY DEF CallInv, TypeOK, InRelease
  <1>8. LockInv'
    BY DEF LockInv, TypeOK, Owns, CallInv, InRelease, MutualExclusion
  <1> QED
    BY <1>1, <1>2, <1>3, <1>4, <1>5, <1>6, <1>7, <1>8, Zenon

\* The store that frees the lock.
LEMMA UnlockIInv ==
  ASSUME IInv, NEW x \in Contexts, Unlock(x)
  PROVE  IInv'
  <1> USE ContextFacts DEF IInv, Unlock, At, Active, Goto, lockVars, cpuVars
  <1>1. TypeOK'
    BY Zenon DEF TypeOK, PCs
  <1>2. NoPanic'
    BY Zenon DEF NoPanic, TypeOK
  <1>3. MutualExclusion'
    BY DEF MutualExclusion, TypeOK, Owns
  <1>a. \A y \in Contexts : Depth(y)' = Depth(y)
    <2>1. \A y \in Contexts \ {x} : Depth(y)' = Depth(y)
      BY Zenon DEF Depth, TypeOK
    <2>2. lk[x] \in held[x] /\ IsFiniteSet(held[x]) /\ Cardinality(held[x]) \in Nat
      BY DepthFacts, Zenon DEF CallInv, InRelease
    <2>3. Cardinality(held[x] \ {lk[x]}) = Cardinality(held[x]) - 1
      BY <2>2, FS_RemoveElement, Zenon
    <2>4. held'[x] = held[x] \ {lk[x]} /\ pc'[x] = "pop_off" /\ pc[x] = "unlock"
      BY Zenon DEF TypeOK
    <2>5. Depth(x)' = Depth(x)
      <3> HIDE DEF IInv, SetCpu, Unlock
      <3> QED
        BY <2>2, <2>3, <2>4 DEF Depth, Pushed
    <2> QED
      BY <2>1, <2>5, Zenon
  <1>4. InterruptsRestored'
    BY Zenon DEF InterruptsRestored
  <1>5. SuspendedInv'
    BY DEF SuspendedInv, TypeOK
  <1>6. CpuInv'
    BY <1>a DEF CpuInv, TypeOK, SuspendedInv
  <1>7. CallInv'
    BY DEF CallInv, TypeOK, InRelease
  <1>8. LockInv'
    BY DEF LockInv, TypeOK, Owns, CallInv, InRelease, MutualExclusion
  <1> QED
    BY <1>1, <1>2, <1>3, <1>4, <1>5, <1>6, <1>7, <1>8, Zenon

\* pop_off: interrupts come back on with the last push_off undone, and only if
\* they were on before the first.
LEMMA PopOffIInv ==
  ASSUME IInv, NEW x \in Contexts, PopOff(x)
  PROVE  IInv'
  <1> USE ContextFacts DEF IInv, PopOff, At, Active, Goto, lockVars, cpuVars
  <1>0. noff[x[1]] >= 1 /\ noff[x[1]] \in Nat /\ ~intr[x[1]] /\ lk[x] \in Locks
    <2>1. \A y \in Contexts : Depth(y) \in Nat
      BY DepthFacts, Zenon
    <2>2. Depth(x) # 0
      BY DepthFacts, Zenon DEF Pushed
    <2>3. noff[x[1]] = Depth(Thread(x[1])) + Depth(Handler(x[1]))
      BY Zenon DEF CpuInv
    <2>4. noff[x[1]] >= 1 /\ noff[x[1]] \in Nat
      BY <2>1, <2>2, <2>3
    <2> QED
      BY <2>4 DEF InterruptsRestored, CallInv
  <1>e. /\ noff' = [noff EXCEPT ![x[1]] = @ - 1]
        /\ intr' = [intr EXCEPT ![x[1]] = noff[x[1]] = 1 /\ intena[x[1]]]
        /\ pc' = [pc EXCEPT ![x] = "run"]
        /\ lk' = [lk EXCEPT ![x] = None]
    BY <1>0
  <1>1. TypeOK'
    <2>1. (noff[x[1]] = 1 /\ intena[x[1]]) \in BOOLEAN
      OBVIOUS
    <2>2. intr' \in [CPUs -> BOOLEAN]
      BY <1>e, <2>1, Zenon DEF TypeOK
    <2>3. noff' \in [CPUs -> Nat]
      BY <1>0, <1>e DEF TypeOK
    <2>4. pc' \in [Contexts -> PCs] /\ lk' \in [Contexts -> Locks \cup {None}]
      BY <1>e, Zenon DEF TypeOK, PCs
    <2> QED
      BY <2>2, <2>3, <2>4, Zenon DEF TypeOK
  <1>2. NoPanic'
    BY <1>0 DEF NoPanic, TypeOK
  <1>3. MutualExclusion'
    BY <1>0 DEF MutualExclusion, TypeOK, Owns
  <1>a. \A y \in Contexts \ {x} : Depth(y)' = Depth(y)
    BY <1>0 DEF Depth, TypeOK
  <1>b. Depth(x)' = Depth(x) - 1
    BY <1>0, DepthFacts DEF Depth, Pushed, TypeOK
  <1>c. \A y \in Contexts : Depth(y) \in Nat
    BY DepthFacts, Zenon
  <1>4. InterruptsRestored'
    BY <1>0, SMTT(30) DEF InterruptsRestored, TypeOK, CpuInv
  <1>5. SuspendedInv'
    BY <1>0 DEF SuspendedInv, TypeOK
  <1>6. CpuInv'
    <2>1. ASSUME NEW c \in CPUs
          PROVE  noff'[c] = Depth(Thread(c))' + Depth(Handler(c))'
      BY <1>0, <1>a, <1>b, <1>c, <1>e, SMTT(30) DEF CpuInv, TypeOK
    <2>2. ASSUME NEW c \in CPUs, noff'[c] > 0
          PROVE  intena[c] <=> (want[c] /\ ~inhandler[c])
      BY <1>0, <1>e, <2>2, SMTT(30) DEF CpuInv, TypeOK
    <2>3. ASSUME NEW y \in Contexts, pc'[y] = "intr_off", held[y] = {}
          PROVE  old[y] <=> (y[2] = "thread" /\ want[y[1]])
      BY <1>e, <2>3, SMTT(30) DEF CpuInv, TypeOK
    <2> QED
      BY <2>1, <2>2, <2>3, Zenon DEF CpuInv
  <1>7. CallInv'
    BY <1>0 DEF CallInv, TypeOK, InRelease
  <1>8. LockInv'
    <2>1. \A y \in Contexts, l \in Locks : Owns(y, l)' <=> Owns(y, l)
      BY <1>e DEF Owns, TypeOK
    <2>2. \A y \in Contexts :
            pc'[y] \in {"set_cpu", "unlock"} <=> pc[y] \in {"set_cpu", "unlock"}
      BY <1>e, Zenon DEF TypeOK
    <2>3. \A y \in Contexts : pc[y] \in {"set_cpu", "unlock"} => lk'[y] = lk[y]
      BY <1>e, Zenon DEF TypeOK
    <2> QED
      BY <2>1, <2>2, <2>3 DEF LockInv
  <1> QED
    BY <1>1, <1>2, <1>3, <1>4, <1>5, <1>6, <1>7, <1>8, Zenon

\* A call of release for a lock that the context holds.
LEMMA CallReleaseIInv ==
  ASSUME IInv, NEW x \in Contexts, NEW l \in Locks, CallRelease(x, l)
  PROVE  IInv'
  <1> USE ContextFacts DEF IInv, CallRelease, At, Active, Goto, lockVars, cpuVars
  <1>1. TypeOK'
    BY Zenon DEF TypeOK, PCs
  <1>2. NoPanic'
    BY Zenon DEF NoPanic, TypeOK
  <1>3. MutualExclusion'
    BY DEF MutualExclusion, TypeOK, Owns
  <1>a. \A y \in Contexts : Depth(y)' = Depth(y)
    BY Zenon DEF Depth, Pushed, TypeOK
  <1>4. InterruptsRestored'
    BY Zenon DEF InterruptsRestored
  <1>5. SuspendedInv'
    BY DEF SuspendedInv, TypeOK
  <1>6. CpuInv'
    BY <1>a DEF CpuInv, TypeOK, SuspendedInv
  <1>7. CallInv'
    BY DEF CallInv, TypeOK, InRelease
  <1>8. LockInv'
    BY DEF LockInv, TypeOK, Owns
  <1> QED
    BY <1>1, <1>2, <1>3, <1>4, <1>5, <1>6, <1>7, <1>8, Zenon

\* The steps of the core itself leave the contexts and the locks alone.
LEMMA CoreFrame ==
  ASSUME IInv, UNCHANGED <<lockVars, noff, intena, ctxVars>>
  PROVE  /\ NoPanic' /\ MutualExclusion' /\ CallInv' /\ LockInv'
         /\ \A y \in Contexts : Depth(y)' = Depth(y) /\ Depth(y) \in Nat
  BY DepthFacts, SMTT(30) DEF IInv, lockVars, ctxVars, NoPanic, MutualExclusion, CallInv,
                    LockInv, Owns, Depth

\* kerneltrap is entered on a core with interrupts on, hence outside every
\* push_off.
LEMMA InterruptIInv ==
  ASSUME IInv, NEW c \in CPUs, Interrupt(c)
  PROVE  IInv'
  <1> USE ContextFacts DEF IInv, Interrupt
  <1>1. TypeOK'
    BY Zenon DEF TypeOK, lockVars, ctxVars
  <1>2. /\ NoPanic' /\ MutualExclusion' /\ CallInv' /\ LockInv'
        /\ \A y \in Contexts : Depth(y)' = Depth(y) /\ Depth(y) \in Nat
    BY CoreFrame, Zenon
  <1>3. noff[c] = 0 /\ want[c] /\ Depth(Thread(c)) = 0
    BY <1>2 DEF InterruptsRestored, CpuInv
  <1>4. held[Thread(c)] = {} /\ pc[Thread(c)] \in {"run", "intr_off"}
    BY <1>3, DepthFacts, SMTT(30) DEF Pushed, TypeOK, PCs, NoPanic, CallInv, InRelease
  <1>5. InterruptsRestored'
    BY Zenon DEF InterruptsRestored, TypeOK
  <1>6. SuspendedInv'
    BY <1>3, <1>4 DEF SuspendedInv, TypeOK, ctxVars
  <1>7. CpuInv'
    BY <1>2, <1>3 DEF CpuInv, TypeOK, ctxVars
  <1> QED
    BY <1>1, <1>2, <1>5, <1>6, <1>7, Zenon

\* kerneltrap returns to the thread with interrupts on again.
LEMMA InterruptReturnIInv ==
  ASSUME IInv, NEW c \in CPUs, InterruptReturn(c)
  PROVE  IInv'
  <1> USE ContextFacts DEF IInv, InterruptReturn, At, Active
  <1>1. TypeOK'
    BY Zenon DEF TypeOK, lockVars, ctxVars
  <1>2. /\ NoPanic' /\ MutualExclusion' /\ CallInv' /\ LockInv'
        /\ \A y \in Contexts : Depth(y)' = Depth(y) /\ Depth(y) \in Nat
    BY CoreFrame, Zenon
  <1>3. Depth(Thread(c)) = 0 /\ Depth(Handler(c)) = 0 /\ want[c]
    BY DepthFacts, Zenon DEF SuspendedInv, Pushed
  <1>4. noff[c] = 0
    BY <1>3 DEF CpuInv
  <1>5. InterruptsRestored'
    BY <1>3, <1>4 DEF InterruptsRestored, TypeOK
  <1>6. SuspendedInv'
    BY DEF SuspendedInv, TypeOK, ctxVars
  <1>7. CpuInv'
    BY <1>2, <1>4 DEF CpuInv, TypeOK, ctxVars
  <1> QED
    BY <1>1, <1>2, <1>5, <1>6, <1>7, Zenon

\* The thread sets the interrupt bit itself, outside every push_off.
LEMMA SetIntrIInv ==
  ASSUME IInv, NEW c \in CPUs, NEW on \in BOOLEAN, SetIntr(c, on)
  PROVE  IInv'
  <1> USE ContextFacts DEF IInv, SetIntr, At, Active
  <1>1. TypeOK'
    BY Zenon DEF TypeOK, lockVars, ctxVars
  <1>2. /\ NoPanic' /\ MutualExclusion' /\ CallInv' /\ LockInv'
        /\ \A y \in Contexts : Depth(y)' = Depth(y) /\ Depth(y) \in Nat
    BY CoreFrame, Zenon
  <1>3. ~inhandler[c] /\ Depth(Thread(c)) = 0 /\ Depth(Handler(c)) = 0
    <2>1. Thread(c) \in Contexts /\ Handler(c) \in Contexts /\ Thread(c)[1] = c
          /\ Thread(c)[2] = "thread"
      OBVIOUS
    <2>2. ~inhandler[c] /\ pc[Thread(c)] = "run" /\ held[Thread(c)] = {}
      BY <2>1, Zenon
    <2>3. pc[Handler(c)] = "run" /\ held[Handler(c)] = {}
      BY <2>2, Zenon DEF SuspendedInv
    <2>4. "run" \notin Pushed
      BY Zenon DEF Pushed
    <2> HIDE ContextFacts DEF SetIntr, At, Active
    <2> QED
      BY <2>1, <2>2, <2>3, <2>4, DepthFacts, Zenon
  <1>4. noff[c] = 0
    <2> HIDE ContextFacts DEF SetIntr, At, Active
    <2>1. noff[c] = Depth(Thread(c)) + Depth(Handler(c))
      BY Zenon DEF CpuInv
    <2> QED
      BY <1>3, <2>1
  <1>5. InterruptsRestored'
    BY <1>3, <1>4, Zenon DEF InterruptsRestored, TypeOK
  <1>6. SuspendedInv'
    BY <1>3 DEF SuspendedInv, TypeOK, ctxVars
  <1>7. CpuInv'
    <2>1. pc[Thread(c)] = "run" /\ pc[Handler(c)] = "run"
      BY <1>3, Zenon DEF SuspendedInv
    <2>2. /\ UNCHANGED <<noff, intena, inhandler, pc, held, old>>
          /\ \A d \in CPUs \ {c} : want'[d] = want[d]
      BY Zenon DEF TypeOK, ctxVars
    <2>3. \A d \in CPUs : /\ noff'[d] = Depth(Thread(d))' + Depth(Handler(d))'
                          /\ noff'[d] > 0 => (intena'[d] <=> (want'[d] /\ ~inhandler'[d]))
      <3>1. \A d \in CPUs : /\ noff[d] = Depth(Thread(d)) + Depth(Handler(d))
                            /\ noff[d] > 0 => (intena[d] <=> (want[d] /\ ~inhandler[d]))
        BY Zenon DEF CpuInv
      <3>2. \A d \in CPUs : /\ Depth(Thread(d))' = Depth(Thread(d))
                            /\ Depth(Handler(d))' = Depth(Handler(d))
        BY <1>2, Zenon
      <3> HIDE ContextFacts DEF SetIntr, At, Active
      <3> QED
        BY <1>4, <2>2, <3>1, <3>2
    <2>4. \A x \in Contexts :
            pc'[x] = "intr_off" /\ held'[x] = {} => (old'[x] <=> (x[2] = "thread" /\ want'[x[1]]))
      <3>1. \A x \in Contexts : pc[x] = "intr_off" => x[1] \in CPUs \ {c}
        BY <2>1
      <3>2. \A x \in Contexts :
              pc[x] = "intr_off" /\ held[x] = {} => (old[x] <=> (x[2] = "thread" /\ want[x[1]]))
        BY Zenon DEF CpuInv
      <3> HIDE ContextFacts DEF SetIntr, At, Active
      <3> QED
        BY <2>2, <3>1, <3>2, Zenon
    <2> QED
      BY <2>3, <2>4, Zenon DEF CpuInv
  <1> QED
    BY <1>1, <1>2, <1>5, <1>6, <1>7, Zenon

\* IInv reads nothing but vars.
LEMMA StutterIInv == IInv /\ UNCHANGED vars => IInv'
  <1> SUFFICES ASSUME IInv, UNCHANGED vars PROVE IInv'
    OBVIOUS
  <1> USE DEF IInv, vars, lockVars, cpuVars, ctxVars
  <1>1. TypeOK' /\ NoPanic'
    BY Zenon DEF TypeOK, NoPanic
  <1>2. MutualExclusion' /\ InterruptsRestored'
    BY Zenon DEF MutualExclusion, InterruptsRestored, Owns
  <1>3. SuspendedInv' /\ CallInv'
    BY Zenon DEF SuspendedInv, CallInv, Owns
  <1>4. CpuInv'
    BY Zenon DEF CpuInv, Depth
  <1>5. LockInv'
    BY DEF LockInv, Owns
  <1> QED
    BY <1>1, <1>2, <1>3, <1>4, <1>5, Zenon

\* IInv is inductive: every step of acquire, release or an interrupt keeps it.
LEMMA NextIInv == IInv /\ [Next]_vars => IInv'
  <1> SUFFICES ASSUME IInv, [Next]_vars PROVE IInv'
    OBVIOUS
  <1>1. ASSUME NEW x \in Contexts, NEW l \in Locks, CallAcquire(x, l) \/ CallRelease(x, l)
        PROVE  IInv'
    BY <1>1, CallAcquireIInv, CallReleaseIInv, Zenon
  <1>2. ASSUME NEW x \in Contexts, AcquireStep(x)
        PROVE  IInv'
    BY <1>2, PushOffIInv, HoldingIInv, HoldingCpuIInv, TestAndSetIInv, SetCpuIInv, Zenon
       DEF AcquireStep
  <1>3. ASSUME NEW x \in Contexts, ReleaseStep(x)
        PROVE  IInv'
    BY <1>3, RelHoldingIInv, RelHoldingCpuIInv, ClearCpuIInv, UnlockIInv, PopOffIInv,
       Zenon DEF ReleaseStep
  <1>4. ASSUME NEW c \in CPUs, Interrupt(c) \/ InterruptReturn(c)
        PROVE  IInv'
    BY <1>4, InterruptIInv, InterruptReturnIInv, Zenon
  <1>5. ASSUME NEW c \in CPUs, NEW on \in BOOLEAN, SetIntr(c, on)
        PROVE  IInv'
    BY <1>5, SetIntrIInv, Zenon
  <1>6. CASE UNCHANGED vars
    BY <1>6, StutterIInv, Zenon
  <1> QED
    BY <1>1, <1>2, <1>3, <1>4, <1>5, <1>6, Zenon DEF Next

\* IInv holds in every reachable state.
LEMMA Invariance == Spec => []IInv
  BY InitIInv, NextIInv, PTL DEF Spec

\* The variables keep their types: noff of push_off and pop_off never
\* goes below 0, and lk->cpu names a core or nobody.
THEOREM SpinLockTypeOK == Spec => []TypeOK
  <1>1. IInv => TypeOK
    BY Zenon DEF IInv
  <1> QED
    BY <1>1, Invariance, PTL

\* acquire and release exclude each other's callers on every number of cores,
\* with interrupt handlers that take the same locks.
THEOREM SpinLockMutualExclusion == Spec => []MutualExclusion
  <1>1. IInv => MutualExclusion
    BY Zenon DEF IInv
  <1> QED
    BY <1>1, Invariance, PTL

\* The panics of acquire, release and pop_off are unreachable for callers that
\* nest their locks in order.
THEOREM SpinLockNoPanic == Spec => []NoPanic
  <1>1. IInv => NoPanic
    BY Zenon DEF IInv
  <1> QED
    BY <1>1, Invariance, PTL

\* push_off and pop_off restore the interrupt enable bit they found.
THEOREM SpinLockInterruptsRestored == Spec => []InterruptsRestored
  <1>1. IInv => InterruptsRestored
    BY Zenon DEF IInv
  <1> QED
    BY <1>1, Invariance, PTL

\* Interrupts are off on a core that owns a lock.
THEOREM SpinLockInterruptsOff == Spec => []InterruptsOffWhileOwning
  <1>1. IInv => InterruptsOffWhileOwning
    <2> SUFFICES ASSUME IInv, NEW x \in Contexts, NEW l \in Locks, Owns(x, l)
                 PROVE  ~intr[x[1]]
      BY Zenon DEF InterruptsOffWhileOwning
    <2>1. \A y \in Contexts : Depth(y) \in Nat
      BY DepthFacts, Zenon DEF IInv
    <2>2. Depth(x) # 0
      BY DepthFacts, Zenon DEF IInv, Owns, Pushed
    <2>3. x[1] \in CPUs /\ (x = Thread(x[1]) \/ x = Handler(x[1]))
      BY ContextFacts, Zenon
    <2>4. noff[x[1]] # 0
      BY <2>1, <2>2, <2>3, ContextFacts DEF IInv, CpuInv
    <2> QED
      BY <2>3, <2>4, Zenon DEF IInv, InterruptsRestored
  <1> QED
    BY <1>1, Invariance, PTL
-----------------------------------------------------------------------------
\* The refinement mapping names the one context that owns l.
LEMMA OwnerFacts ==
  ASSUME MutualExclusion, NEW l \in Locks
  PROVE  /\ \A x \in Contexts : Owns(x, l) => OwnerOf(l) = x
         /\ ~(\E x \in Contexts : Owns(x, l)) => OwnerOf(l) = None
  BY Zenon DEF MutualExclusion, OwnerOf

\* The same of the next state.
LEMMA OwnerFactsNext ==
  ASSUME MutualExclusion', NEW l \in Locks
  PROVE  /\ \A x \in Contexts : Owns(x, l)' => OwnerOf(l)' = x
         /\ ~(\E x \in Contexts : Owns(x, l)') => OwnerOf(l)' = None
  BY Zenon DEF MutualExclusion, OwnerOf

\* A step that changes nobody's ownership is a stuttering step of LockTable.
LEMMA SameOwners ==
  ASSUME MutualExclusion, MutualExclusion',
         \A x \in Contexts, l \in Locks : Owns(x, l)' <=> Owns(x, l)
  PROVE  UNCHANGED [l \in Locks |-> OwnerOf(l)]
  <1>1. ASSUME NEW l \in Locks PROVE OwnerOf(l)' = OwnerOf(l)
    BY OwnerFacts, OwnerFactsNext, Zenon
  <1> QED
    BY <1>1, Zenon

\* Every step of acquire, release or an interrupt takes one free lock, frees
\* one lock of its owner, or changes no owner.
LEMMA StepRefines ==
  ASSUME IInv, IInv', [Next]_vars
  PROVE  [Table!Next]_([l \in Locks |-> OwnerOf(l)])
  <1> DEFINE o == [l \in Locks |-> OwnerOf(l)]
  <1>m. MutualExclusion /\ MutualExclusion'
    BY Zenon DEF IInv
  <1>1. ASSUME NEW x \in Contexts, TestAndSet(x) PROVE Table!Acquire(x, lk[x]) /\ lk[x] \in Locks
    <2> USE <1>1 DEF TestAndSet, At, Goto, IInv
    <2>1. lk[x] \in Locks /\ ~(\E y \in Contexts : Owns(y, lk[x]))
      BY Zenon DEF CallInv, LockInv
    <2>2. Owns(x, lk[x])'
      BY Zenon DEF Owns, TypeOK
    <2>3. \A y \in Contexts, l \in Locks \ {lk[x]} : Owns(y, l)' <=> Owns(y, l)
      BY Zenon DEF Owns, TypeOK
    <2>4. OwnerOf(lk[x]) = None /\ OwnerOf(lk[x])' = x
      BY <1>m, <2>1, <2>2, OwnerFacts, OwnerFactsNext, Zenon
    <2>5. \A l \in Locks \ {lk[x]} : OwnerOf(l)' = OwnerOf(l)
      BY <1>m, <2>3, OwnerFacts, OwnerFactsNext, Zenon
    <2>6. o' = [o EXCEPT ![lk[x]] = x]
      BY <2>1, <2>4, <2>5, Zenon
    <2> QED
      BY <2>1, <2>4, <2>6, Zenon DEF Table!Acquire
  <1>2. ASSUME NEW x \in Contexts, Unlock(x) PROVE Table!Release(x, lk[x]) /\ lk[x] \in Locks
    <2> USE <1>2 DEF Unlock, At, Goto, IInv
    <2>1. lk[x] \in Locks /\ Owns(x, lk[x])
      BY Zenon DEF CallInv, Owns, InRelease
    <2>2. ~(\E y \in Contexts : Owns(y, lk[x])')
      <3>1. ~Owns(x, lk[x])'
        BY <2>1, Zenon DEF Owns, TypeOK
      <3>2. \A y \in Contexts \ {x} : ~Owns(y, lk[x])
        BY <2>1, Zenon DEF MutualExclusion
      <3>3. \A y \in Contexts \ {x} : ~Owns(y, lk[x])'
        BY <2>1, <3>2, Zenon DEF Owns, TypeOK
      <3> QED
        BY <3>1, <3>3, Zenon
    <2>3. \A y \in Contexts, l \in Locks \ {lk[x]} : Owns(y, l)' <=> Owns(y, l)
      BY Zenon DEF Owns, TypeOK
    <2>4. OwnerOf(lk[x]) = x /\ OwnerOf(lk[x])' = None
      BY <1>m, <2>1, <2>2, OwnerFacts, OwnerFactsNext, Zenon
    <2>5. \A l \in Locks \ {lk[x]} : OwnerOf(l)' = OwnerOf(l)
      BY <1>m, <2>3, OwnerFacts, OwnerFactsNext, Zenon
    <2>6. o' = [o EXCEPT ![lk[x]] = None]
      BY <2>1, <2>4, <2>5, Zenon
    <2> QED
      BY <2>1, <2>4, <2>6, Zenon DEF Table!Release
  <1>3. ASSUME NEW x \in Contexts,
               \/ PushOff(x) \/ Holding(x) \/ HoldingCpu(x) \/ SetCpu(x)
               \/ RelHolding(x) \/ RelHoldingCpu(x) \/ ClearCpu(x) \/ PopOff(x)
               \/ \E l \in Locks : CallAcquire(x, l) \/ CallRelease(x, l)
        PROVE  UNCHANGED o
    <2> DEFINE Same == \A y \in Contexts, l \in Locks : Owns(y, l)' <=> Owns(y, l)
    <2>t. pc \in [Contexts -> PCs] /\ lk \in [Contexts -> Locks \cup {None}]
          /\ held \in [Contexts -> SUBSET Locks]
      BY Zenon DEF IInv, TypeOK
    <2>1. PushOff(x) => Same
      BY <2>t, Zenon DEF PushOff, Owns, At, Goto
    <2>2. Holding(x) => Same
      BY <2>t, Zenon DEF Holding, Owns, At, Goto
    <2>3. HoldingCpu(x) => Same
      BY <2>t, Zenon DEF HoldingCpu, Owns, At, Goto
    <2>4. SetCpu(x) => Same
      BY <2>t DEF SetCpu, Owns, At, Goto
    <2>5. RelHolding(x) => Same
      BY <2>t, Zenon DEF RelHolding, Owns, At, Goto
    <2>6. RelHoldingCpu(x) => Same
      BY <2>t, Zenon DEF RelHoldingCpu, Owns, At, Goto
    <2>7. ClearCpu(x) => Same
      BY <2>t, Zenon DEF ClearCpu, Owns, At, Goto
    <2>8. PopOff(x) => Same
      BY <2>t, Zenon DEF PopOff, Owns, At, Goto
    <2>9. ASSUME NEW l \in Locks, CallAcquire(x, l) \/ CallRelease(x, l) PROVE Same
      BY <2>t, <2>9, Zenon DEF CallAcquire, CallRelease, Owns, At, Goto
    <2>10. Same
      BY <1>3, <2>1, <2>2, <2>3, <2>4, <2>5, <2>6, <2>7, <2>8, <2>9, Zenon
    <2> QED
      BY <1>m, <2>10, SameOwners, Zenon
  <1>4. ASSUME UNCHANGED <<pc, lk, held>> PROVE UNCHANGED o
    <2>1. \A y \in Contexts, l \in Locks : Owns(y, l)' <=> Owns(y, l)
      BY <1>4, Zenon DEF Owns
    <2> QED
      BY <1>m, <2>1, SameOwners, Zenon
  <1>5. ASSUME \/ UNCHANGED vars
               \/ \E c \in CPUs : Interrupt(c) \/ InterruptReturn(c)
               \/ \E c \in CPUs, on \in BOOLEAN : SetIntr(c, on)
        PROVE  UNCHANGED o
    BY <1>4, <1>5, Zenon DEF vars, ctxVars, Interrupt, InterruptReturn, SetIntr
  <1> QED
    BY <1>1, <1>2, <1>3, <1>5, Zenon DEF Next, AcquireStep, ReleaseStep, Table!Next

\* spinlock.c implements the abstract lock that the other modules use: the
\* exchange of acquire takes a free lock, the store of release frees it, and
\* no other step of any core or handler changes an owner.
THEOREM SpinLockImplementsLockTable == Spec => ImplementsLockTable
  <1>1. Init => Table!Init
    <2> SUFFICES ASSUME Init PROVE \A l \in Locks : OwnerOf(l) = None
      BY Zenon DEF Table!Init
    <2> QED
      BY Zenon DEF Init, OwnerOf, Owns
  <1>2. IInv /\ IInv' /\ [Next]_vars => [Table!Next]_([l \in Locks |-> OwnerOf(l)])
    BY StepRefines, Zenon
  <1> QED
    BY <1>1, <1>2, Invariance, PTL DEF Spec, ImplementsLockTable, Table!Spec
=============================================================================
