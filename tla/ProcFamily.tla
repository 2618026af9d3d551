------------------------------ MODULE ProcFamily ------------------------------
(***************************************************************************)
(* The conjuncts of IInv (ProcThreads) about the slots: init's, the one    *)
(* that fork fills, the locals of a call that refer to slots, parents and  *)
(* children, and who has been woken.                                       *)
(***************************************************************************)
EXTENDS ProcThreads

\* init stays, and a free slot keeps no trace of its last process.
LEMMA InitStep ==
  ASSUME IInv, AnyWay
  PROVE  InitInv'
  <1>t. /\ state \in [Procs -> States] /\ pid \in [Procs -> Nat]
        /\ parent \in [Procs -> Procs \cup {None}] /\ nextpid \in Nat
        /\ pc \in [Procs -> PCs] /\ saved \in [Procs -> Interruptible]
        /\ InitInv /\ initproc \in Procs /\ None \notin Procs
    BY Numbers, Zenon DEF IInv, TypeOK, ProcType, ThreadType
  <1>1. ASSUME NEW c \in CPUs, NEW p \in Procs, NEW to \in PCs,
               NEW k \in Nat, CallWay(p, c, to, k)
        PROVE  InitInv'
    BY <1>t, <1>1, Zenon DEF CallWay, Hop, CallKill, CallSleep, On, Still,
       procVars, threadVars, InitInv
  <1>2. ASSUME NEW c \in CPUs, NEW p \in Procs, NEW q \in Procs, ScanWay(p, c, q)
        PROVE  InitInv'
    <2>1. CASE ScanNext(p, c)
      BY <1>t, <2>1, Zenon DEF ScanNext, On, Still, procVars, threadVars, InitInv
    <2>2. CASE ScanReturn(p, c)
      BY <1>t, <2>2, Zenon DEF ScanReturn, On, Still, procVars, threadVars, InitInv
    <2>3. CASE KillFound(p, c, q)
      BY <1>t, <2>3, Zenon DEF KillFound, On, Still, procVars, threadVars, InitInv
    <2> QED  BY <1>2, <2>1, <2>2, <2>3, Zenon DEF ScanWay
  <1>3. ASSUME NEW c \in CPUs, NEW p \in Procs, NEW q \in Procs, ForkWay(p, c, q)
        PROVE  InitInv'
    BY <1>t, <1>3, Forked, SMTT(30) DEF ForkWay, AllocTake, AllocFail, freeproc,
       ParentSet, ChildRunnable, On, Still, procVars, threadVars, InitInv
  <1>4. ASSUME NEW c \in CPUs, NEW p \in Procs, NEW q \in Procs, ExitWay(p, c, q)
        PROVE  InitInv'
    BY <1>t, <1>4, SMTT(30) DEF ExitWay, TakeWait, ReparentChild, ReparentDone,
       BecomeZombie, On, Still, procVars, threadVars, InitInv, NextChild
  <1>5. ASSUME NEW c \in CPUs, NEW p \in Procs, NEW q \in Procs, WakeWay(p, c, q)
        PROVE  InitInv'
    BY <1>t, <1>5, SMTT(30) DEF WakeWay, WakeSlot, Awaken, WakeDone, On, Still,
       procVars, threadVars, InitInv
  <1>6. ASSUME NEW c \in CPUs, NEW p \in Procs, NEW q \in Procs, WaitWay(p, c, q)
        PROVE  InitInv'
    BY <1>t, <1>6, SMTT(30) DEF WaitWay, WaitNext, WaitReap, freeproc, WaitReturn,
       WaitSleep, On, Still, procVars, threadVars, InitInv
  <1>7. ASSUME NEW c \in CPUs, NEW p \in Procs, TimedWay(p, c) PROVE InitInv'
    BY <1>t, <1>7, SMTT(30) DEF TimedWay, SleepStart, SleepOver, SleepMore, On,
       Still, procVars, threadVars, InitInv
  <1>8. ASSUME NEW c \in CPUs, NEW p \in Procs, SleepWay(p, c) PROVE InitInv'
    BY <1>t, <1>8, SMTT(30) DEF SleepWay, LockSelf, FallAsleep, Awake, RelockTicks,
       RelockWait, On, Still, procVars, threadVars, InitInv
  <1>9. ASSUME NEW c \in CPUs, NEW p \in Procs, SwitchWay(p, c) PROVE InitInv'
    BY <1>t, <1>9, SMTT(30) DEF SwitchWay, YieldLock, SwitchAway, YieldReturn,
       FirstRun, On, Still, procVars, threadVars, InitInv, Interruptible
  <1>10. ASSUME NEW c \in CPUs, NEW p \in Procs, SchedWay(c, p) PROVE InitInv'
    BY <1>t, <1>10, Zenon DEF SchedWay, SwitchTo, NextSlotOf, SwitchedBack, On,
       Still, procVars, threadVars, InitInv
  <1>11. ASSUME NEW c \in CPUs, NEW q \in Procs, ClockWay(c, q) PROVE InitInv'
    BY <1>t, <1>11, Zenon DEF ClockWay, TimerTaken, Tick, TickSlot, Awaken,
       TickDone, On, Still, procVars, threadVars, InitInv
  <1>12. ASSUME NEW c \in CPUs, NEW p \in Procs, TrapWay(c, p) PROVE InitInv'
    BY <1>t, <1>12, SMTT(30) DEF TrapWay, HandlerDone, HandlerExit, HandlerYield,
       On, Still, procVars, threadVars, InitInv
  <1>13. ASSUME UNCHANGED vars PROVE InitInv'
    BY <1>t, <1>13, Zenon DEF vars, procVars, threadVars, InitInv
  <1>14. ASSUME NEW c \in CPUs, NEW p \in Procs, NEW q \in Procs, IoWay(p, c, q)
         PROVE  InitInv'
    BY <1>t, <1>14, SMTT(30) DEF IoWay, TakeFault, StartIo, SetLocals, EndIo,
       ClearLocals, WakeIo, On, Still, procVars, threadVars, InitInv
  <1> QED
    BY <1>1, <1>2, <1>3, <1>4, <1>5, <1>6, <1>7, <1>8, <1>9, <1>10, <1>11, <1>12,
       <1>13, <1>14, Zenon DEF AnyWay

\* A slot that fork took stays with that fork until it is RUNNABLE.
LEMMA ForkStep ==
  ASSUME IInv, AnyWay
  PROVE  ForkInv'
  <1>t. /\ state \in [Procs -> States] /\ parent \in [Procs -> Procs \cup {None}]
        /\ pc \in [Procs -> PCs] /\ saved \in [Procs -> Interruptible]
        /\ loc \in [Procs -> Locals]
        /\ ForkInv
    BY Zenon DEF IInv, TypeOK, ProcType, ThreadType
  <1>1. ASSUME NEW c \in CPUs, NEW p \in Procs, NEW to \in PCs,
               NEW k \in Nat, CallWay(p, c, to, k)
        PROVE  ForkInv'
    BY <1>t, <1>1, SMTT(30) DEF CallWay, Hop, CallKill, SetLocals, CallSleep, On,
       Still, procVars, threadVars, ForkInv, Forking, Where
  <1>2. ASSUME NEW c \in CPUs, NEW p \in Procs, NEW q \in Procs, ScanWay(p, c, q)
        PROVE  ForkInv'
    BY <1>t, <1>2, SMTT(30) DEF ScanWay, ScanNext, SetLocals, ScanReturn,
       ClearLocals, KillFound, On, Still, procVars, threadVars, ForkInv, Forking,
       Where
  <1>3. ASSUME NEW c \in CPUs, NEW p \in Procs, NEW q \in Procs, ForkWay(p, c, q)
        PROVE  ForkInv'
    BY <1>t, <1>3, Parked, SMTT(30) DEF ForkWay, AllocTake, SetLocals, AllocFail,
       freeproc, ClearLocals, ParentSet, ChildRunnable, On, Still, procVars,
       threadVars, ForkInv, Forking, Where, Off
  <1>4. ASSUME NEW c \in CPUs, NEW p \in Procs, NEW q \in Procs, ExitWay(p, c, q)
        PROVE  ForkInv'
    <2>1. CASE ReparentChild(p, c, q)
      <3>1. \A r \in Procs : Forking(r)' => r # p /\ Forking(r) /\ loc'[r] = loc[r]
        BY <1>t, <2>1, Zenon DEF ReparentChild, On, SetLocals, Still, Forking,
           Where
      <3>2. \A r \in Procs : Forking(r)' => (Where(r)' = Where(r))
        BY <1>t, <2>1, <3>1, Zenon DEF ReparentChild, On, Still, Forking, Where
      <3> QED
        BY <1>t, <2>1, <3>1, <3>2 DEF ReparentChild, NextChild, ForkInv
    <2> QED
      BY <1>t, <1>4, <2>1, Executing, SMTT(30) DEF ExitWay, TakeWait, ReparentDone,
         SetLocals, BecomeZombie, ClearLocals, On, Still, procVars, threadVars,
         ForkInv, Forking, Where, StateAt
  <1>5. ASSUME NEW c \in CPUs, NEW p \in Procs, NEW q \in Procs, WakeWay(p, c, q)
        PROVE  ForkInv'
    BY <1>t, <1>5, SMTT(30) DEF WakeWay, WakeSlot, Awaken, SetLocals, WakeDone, On,
       Still, procVars, threadVars, ForkInv, Forking, Where
  <1>6. ASSUME NEW c \in CPUs, NEW p \in Procs, NEW q \in Procs, WaitWay(p, c, q)
        PROVE  ForkInv'
    BY <1>t, <1>6, SMTT(30) DEF WaitWay, WaitNext, SetLocals, WaitReap, freeproc,
       ClearLocals, WaitReturn, WaitSleep, On, Still, procVars, threadVars,
       ForkInv, Forking, Where
  <1>7. ASSUME NEW c \in CPUs, NEW p \in Procs, TimedWay(p, c) PROVE ForkInv'
    BY <1>t, <1>7, SMTT(30) DEF TimedWay, SleepStart, SetLocals, SleepOver,
       ClearLocals, SleepMore, On, Still, procVars, threadVars, ForkInv, Forking,
       Where
  <1>8. ASSUME NEW c \in CPUs, NEW p \in Procs, SleepWay(p, c) PROVE ForkInv'
    BY <1>t, <1>8, Executing, SMTT(30) DEF SleepWay, LockSelf, FallAsleep, Awake,
       RelockTicks, SetLocals, RelockWait, On, Still, procVars, threadVars,
       ForkInv, Forking, Where, StateAt
  <1>9. ASSUME NEW c \in CPUs, NEW p \in Procs, SwitchWay(p, c) PROVE ForkInv'
    <2>1. CASE YieldLock(p, c)
      BY <1>t, <2>1, Executing, SMTT(30) DEF YieldLock, On, Still, procVars,
         threadVars, ForkInv, Forking, Where, StateAt
    <2>2. CASE SwitchAway(p, c)
      BY <1>t, <2>2, SMTT(30) DEF SwitchAway, On, Still, procVars, threadVars,
         ForkInv, Forking, Where
    <2>3. CASE YieldReturn(p, c)
      BY <1>t, <2>3, SMTT(30) DEF YieldReturn, On, Still, procVars, threadVars,
         ForkInv, Forking, Where
    <2>4. CASE FirstRun(p, c)
      BY <1>t, <2>4, SMTT(30) DEF FirstRun, On, Still, procVars, threadVars,
         ForkInv, Forking, Where
    <2> QED  BY <1>9, <2>1, <2>2, <2>3, <2>4, Zenon DEF SwitchWay
  <1>10. ASSUME NEW c \in CPUs, NEW p \in Procs, SchedWay(c, p) PROVE ForkInv'
    BY <1>t, <1>10, SMTT(30) DEF SchedWay, SwitchTo, NextSlotOf, SwitchedBack, On,
       Still, procVars, threadVars, ForkInv, Forking, Where
  <1>11. ASSUME NEW c \in CPUs, NEW q \in Procs, ClockWay(c, q) PROVE ForkInv'
    <2>1. CASE TickSlot(c, q)
      <3>1. \A r \in Procs : state'[r] # state[r] => state[r] = "SLEEPING"
        BY <2>1, <1>t, Zenon DEF TickSlot, Awaken
      <3>2. UNCHANGED <<parent, pc, saved, loc>>
        BY <2>1, Zenon DEF TickSlot, threadVars
      <3> QED
        BY <1>t, <3>1, <3>2, Zenon DEF ForkInv, Forking, Where
    <2>2. CASE TimerTaken(c)
      BY <1>t, <2>2, SMTT(30) DEF TimerTaken, On, Still, procVars, threadVars,
         ForkInv, Forking, Where
    <2>3. CASE Tick(c)
      BY <1>t, <2>3, SMTT(30) DEF Tick, On, Still, procVars, threadVars, ForkInv,
         Forking, Where
    <2>4. CASE TickDone(c)
      BY <1>t, <2>4, Zenon DEF TickDone, On, Still, procVars, threadVars, ForkInv,
         Forking, Where
    <2> QED  BY <1>11, <2>1, <2>2, <2>3, <2>4, Zenon DEF ClockWay
  <1>12. ASSUME NEW c \in CPUs, NEW p \in Procs, TrapWay(c, p) PROVE ForkInv'
    <2>1. CASE HandlerDone(c)
      BY <1>t, <2>1, SMTT(30) DEF HandlerDone, On, Still, procVars, threadVars,
         ForkInv, Forking, Where
    <2>2. CASE HandlerExit(c, p)
      BY <1>t, <2>2, SMTT(30) DEF HandlerExit, On, Still, procVars, threadVars,
         ForkInv, Forking, Where
    <2>3. CASE HandlerYield(c, p)
      BY <1>t, <2>3, SMTT(30) DEF HandlerYield, On, Still, procVars, threadVars,
         ForkInv, Forking, Where, IInv, CpuInv, Interruptible
    <2> QED  BY <1>12, <2>1, <2>2, <2>3, Zenon DEF TrapWay
  <1>13. ASSUME UNCHANGED vars PROVE ForkInv'
    BY <1>t, <1>13, Zenon DEF vars, procVars, threadVars, ForkInv, Forking, Where
  <1>14. ASSUME NEW c \in CPUs, NEW p \in Procs, NEW q \in Procs, IoWay(p, c, q)
         PROVE  ForkInv'
    BY <1>t, <1>14, SMTT(30) DEF IoWay, TakeFault, StartIo, SetLocals, EndIo,
       ClearLocals, WakeIo, On, Still, procVars, threadVars, ForkInv, Forking,
       Where
  <1> QED
    BY <1>1, <1>2, <1>3, <1>4, <1>5, <1>6, <1>7, <1>8, <1>9, <1>10, <1>11, <1>12,
       <1>13, <1>14, Zenon DEF AnyWay

\* Locals start and restart as the calls expect.
LEMMA LocStep ==
  ASSUME IInv, AnyWay
  PROVE  LocInv'
  <1>t. /\ pc \in [Procs -> PCs] /\ saved \in [Procs -> Interruptible]
        /\ loc \in [Procs -> Locals]
        /\ LocInv
    BY Zenon DEF IInv, TypeOK, ThreadType
  <1>1. ASSUME NEW c \in CPUs, NEW p \in Procs, NEW to \in PCs,
               NEW k \in Nat, CallWay(p, c, to, k)
        PROVE  LocInv'
    BY <1>t, <1>1, SMTT(30) DEF CallWay, Hop, CallKill, SetLocals, CallSleep, On,
       Still, threadVars, LocInv, FirstRound, Where
  <1>2. ASSUME NEW c \in CPUs, NEW p \in Procs, NEW q \in Procs, ScanWay(p, c, q)
        PROVE  LocInv'
    BY <1>t, <1>2, SMTT(30) DEF ScanWay, ScanNext, SetLocals, ScanReturn,
       ClearLocals, KillFound, On, Still, threadVars, LocInv, FirstRound, Where
  <1>3. ASSUME NEW c \in CPUs, NEW p \in Procs, NEW q \in Procs, ForkWay(p, c, q)
        PROVE  LocInv'
    BY <1>t, <1>3, Parked, SMTT(30) DEF ForkWay, AllocTake, SetLocals, AllocFail,
       ClearLocals, ParentSet, ChildRunnable, On, Still, threadVars, LocInv,
       FirstRound, Where, Off
  <1>4. ASSUME NEW c \in CPUs, NEW p \in Procs, NEW q \in Procs, ExitWay(p, c, q)
        PROVE  LocInv'
    BY <1>t, <1>4, SMTT(30) DEF ExitWay, TakeWait, ReparentChild, SetLocals,
       ReparentDone, BecomeZombie, ClearLocals, On, Still, threadVars, LocInv,
       FirstRound, Where
  <1>5. ASSUME NEW c \in CPUs, NEW p \in Procs, NEW q \in Procs, WakeWay(p, c, q)
        PROVE  LocInv'
    BY <1>t, <1>5, SMTT(30) DEF WakeWay, WakeSlot, SetLocals, WakeDone, On, Still,
       threadVars, LocInv, FirstRound, Where
  <1>6. ASSUME NEW c \in CPUs, NEW p \in Procs, NEW q \in Procs, WaitWay(p, c, q)
        PROVE  LocInv'
    BY <1>t, <1>6, SMTT(30) DEF WaitWay, WaitNext, SetLocals, WaitReap,
       ClearLocals, WaitReturn, WaitSleep, On, Still, threadVars, LocInv,
       FirstRound, Where
  <1>7. ASSUME NEW c \in CPUs, NEW p \in Procs, TimedWay(p, c) PROVE LocInv'
    BY <1>t, <1>7, SMTT(30) DEF TimedWay, SleepStart, SetLocals, SleepOver,
       ClearLocals, SleepMore, On, Still, threadVars, LocInv, FirstRound, Where
  <1>8. ASSUME NEW c \in CPUs, NEW p \in Procs, SleepWay(p, c) PROVE LocInv'
    BY <1>t, <1>8, SMTT(30) DEF SleepWay, LockSelf, FallAsleep, Awake, RelockTicks,
       SetLocals, RelockWait, On, Still, threadVars, LocInv, FirstRound, Where
  <1>9. ASSUME NEW c \in CPUs, NEW p \in Procs, SwitchWay(p, c) PROVE LocInv'
    <2>1. CASE YieldLock(p, c)
      BY <1>t, <2>1, SMTT(30) DEF YieldLock, On, Still, threadVars, LocInv,
         FirstRound, Where
    <2>2. CASE SwitchAway(p, c)
      BY <1>t, <2>2, SMTT(30) DEF SwitchAway, On, Still, threadVars, LocInv,
         FirstRound, Where
    <2>3. CASE YieldReturn(p, c)
      BY <1>t, <2>3, SMTT(30) DEF YieldReturn, On, Still, threadVars, LocInv,
         FirstRound, Where, Interruptible
    <2>4. CASE FirstRun(p, c)
      BY <1>t, <2>4, SMTT(30) DEF FirstRun, On, Still, threadVars, LocInv,
         FirstRound, Where
    <2> QED  BY <1>9, <2>1, <2>2, <2>3, <2>4, Zenon DEF SwitchWay
  <1>10. ASSUME NEW c \in CPUs, NEW p \in Procs, SchedWay(c, p) PROVE LocInv'
    BY <1>t, <1>10, Zenon DEF SchedWay, SwitchTo, NextSlotOf, SwitchedBack, On,
       Still, threadVars, LocInv, FirstRound, Where
  <1>11. ASSUME NEW c \in CPUs, NEW q \in Procs, ClockWay(c, q) PROVE LocInv'
    BY <1>t, <1>11, Zenon DEF ClockWay, TimerTaken, Tick, TickSlot, TickDone, On,
       Still, threadVars, LocInv, FirstRound, Where
  <1>12. ASSUME NEW c \in CPUs, NEW p \in Procs, TrapWay(c, p) PROVE LocInv'
    <2>1. CASE HandlerDone(c)
      BY <1>t, <2>1, Zenon DEF HandlerDone, On, Still, threadVars, LocInv,
         FirstRound, Where
    <2>2. CASE HandlerExit(c, p)
      BY <1>t, <2>2, SMTT(30) DEF HandlerExit, On, Still, threadVars, LocInv,
         FirstRound, Where
    <2>3. CASE HandlerYield(c, p)
      BY <1>t, <2>3, SMTT(30) DEF HandlerYield, On, Still, threadVars, LocInv,
         FirstRound, Where
    <2> QED  BY <1>12, <2>1, <2>2, <2>3, Zenon DEF TrapWay
  <1>13. ASSUME UNCHANGED vars PROVE LocInv'
    BY <1>t, <1>13, Zenon DEF vars, threadVars, LocInv, FirstRound, Where
  <1>14. ASSUME NEW c \in CPUs, NEW p \in Procs, NEW q \in Procs, IoWay(p, c, q)
         PROVE  LocInv'
    BY <1>t, <1>14, Fresh, SMTT(30) DEF IoWay, TakeFault, StartIo, SetLocals,
       EndIo, ClearLocals, WakeIo, On, Still, threadVars, LocInv, FirstRound,
       Where
  <1> QED
    BY <1>1, <1>2, <1>3, <1>4, <1>5, <1>6, <1>7, <1>8, <1>9, <1>10, <1>11, <1>12,
       <1>13, <1>14, Zenon DEF AnyWay

\* Every process that ran has a parent, which has not exited.
LEMMA FamilyStep ==
  ASSUME IInv, AnyWay
  PROVE  FamilyInv'
  <1>t. /\ state \in [Procs -> States] /\ parent \in [Procs -> Procs \cup {None}]
        /\ pc \in [Procs -> PCs] /\ saved \in [Procs -> Interruptible]
        /\ loc \in [Procs -> Locals]
        /\ FamilyInv /\ InitInv /\ initproc \in Procs /\ None \notin Procs
    BY Numbers, Zenon DEF IInv, TypeOK, ProcType, ThreadType
  <1>1. ASSUME NEW c \in CPUs, NEW p \in Procs, NEW to \in PCs,
               NEW k \in Nat, CallWay(p, c, to, k)
        PROVE  FamilyInv'
    BY <1>t, <1>1, SMTT(30) DEF CallWay, Hop, CallKill, SetLocals, CallSleep, On,
       Still, procVars, threadVars, FamilyInv
  <1>2. ASSUME NEW c \in CPUs, NEW p \in Procs, NEW q \in Procs, ScanWay(p, c, q)
        PROVE  FamilyInv'
    BY <1>t, <1>2, SMTT(30) DEF ScanWay, ScanNext, SetLocals, ScanReturn,
       ClearLocals, KillFound, On, Still, procVars, threadVars, FamilyInv
  <1>3. ASSUME NEW c \in CPUs, NEW p \in Procs, NEW q \in Procs, ForkWay(p, c, q)
        PROVE  FamilyInv'
    <2>1. CASE ChildRunnable(p, c)
      <3> DEFINE np == loc[p].arg
      <3>1. np \in Procs /\ state[np] = "USED" /\ parent[np] = p
        BY <2>1, Zenon DEF ChildRunnable, On, IInv, ForkInv, Forking, Where
      <3>2. /\ UNCHANGED parent
            /\ \A r \in Procs \ {np} : state'[r] = state[r]
            /\ \A r \in Procs \ {p} : pc'[r] = pc[r] /\ loc'[r] = loc[r]
            /\ state'[np] = "RUNNABLE" /\ pc'[p] = "ret"
        BY <2>1, <1>t, <3>1, Zenon DEF ChildRunnable, ClearLocals, SetLocals
      <3> QED  BY <1>t, <3>1, <3>2 DEF FamilyInv
    <2> QED
      BY <1>t, <1>3, <2>1, Forked, Executing, SMTT(30) DEF ForkWay, AllocTake,
         SetLocals, AllocFail, freeproc, ClearLocals, ParentSet, On, Still,
         procVars, threadVars, FamilyInv, StateAt
  <1>4. ASSUME NEW c \in CPUs, NEW p \in Procs, NEW q \in Procs, ExitWay(p, c, q)
        PROVE  FamilyInv'
    <2>1. CASE TakeWait(p, c)
      <3>1. loc[p].i = 1
        BY <2>1, Fresh, Zenon DEF TakeWait, On
      <3>2. /\ UNCHANGED <<parent, state, loc>>
            /\ \A r \in Procs \ {p} : pc'[r] = pc[r]
            /\ pc'[p] \in {"reparent", "wait_scan"}
        BY <2>1, <1>t, Zenon DEF TakeWait, procVars
      <3> QED  BY <1>t, <3>1, <3>2, Numbers, Zenon DEF FamilyInv
    <2>2. CASE ReparentChild(p, c, q)
      <3>1. loc[p].w = 1 /\ ~loc[p].flag /\ loc[p].i \in Nat
        BY <1>t, <2>2, FieldTypes, Zenon DEF IInv, LocInv, ReparentChild, On
      <3>2. p # initproc /\ q # initproc /\ parent[q] = p /\ p # q
        BY <1>t, <2>2, Zenon DEF InitInv, FamilyInv, ReparentChild, On, NextChild
      <3>3. /\ UNCHANGED state
            /\ \A r \in Procs \ {q} : parent'[r] = parent[r]
            /\ parent'[q] = initproc
            /\ \A r \in Procs \ {p} : pc'[r] = pc[r] /\ loc'[r] = loc[r]
            /\ pc'[p] = "wakeup" /\ loc'[p].i = q + 1 /\ ~loc'[p].flag
        BY <2>2, <1>t, <3>1, Zenon DEF ReparentChild, SetLocals
      <3>4. \A r \in Procs : parent[r] = p => r >= loc[p].i
        BY <1>t, <2>2, Zenon DEF FamilyInv, ReparentChild, On
      <3>5. NextChild(p, q)
        BY <2>2, Zenon DEF ReparentChild
      <3>6. \A r \in Procs \ {q} : parent[r] = p => r >= q + 1
        BY <3>4, <3>5, SlotNat DEF NextChild
      <3> QED  BY <1>t, <3>2, <3>3, <3>6 DEF FamilyInv, InitInv
    <2> QED
      BY <1>t, <1>4, <2>1, <2>2, FieldTypes, SlotNat, Executing, SMTT(30) DEF
         ExitWay, ReparentDone, SetLocals, BecomeZombie, ClearLocals, On, Still,
         procVars, threadVars, FamilyInv, NoChildLeft, StateAt, InitInv
  <1>5. ASSUME NEW c \in CPUs, NEW p \in Procs, NEW q \in Procs, WakeWay(p, c, q)
        PROVE  FamilyInv'
    BY <1>t, <1>5, SMTT(30) DEF WakeWay, WakeSlot, Awaken, SetLocals, WakeDone, On,
       Still, procVars, threadVars, FamilyInv
  <1>6. ASSUME NEW c \in CPUs, NEW p \in Procs, NEW q \in Procs, WaitWay(p, c, q)
        PROVE  FamilyInv'
    BY <1>t, <1>6, SMTT(30) DEF WaitWay, WaitNext, SetLocals, WaitReap, freeproc,
       ClearLocals, WaitReturn, WaitSleep, On, Still, procVars, threadVars,
       FamilyInv, NextChild
  <1>7. ASSUME NEW c \in CPUs, NEW p \in Procs, TimedWay(p, c) PROVE FamilyInv'
    BY <1>t, <1>7, SMTT(30) DEF TimedWay, SleepStart, SetLocals, SleepOver,
       ClearLocals, SleepMore, On, Still, procVars, threadVars, FamilyInv
  <1>8. ASSUME NEW c \in CPUs, NEW p \in Procs, SleepWay(p, c) PROVE FamilyInv'
    BY <1>t, <1>8, Executing, SMTT(30) DEF SleepWay, LockSelf, FallAsleep, Awake,
       RelockTicks, SetLocals, RelockWait, On, Still, procVars, threadVars,
       FamilyInv, StateAt
  <1>9. ASSUME NEW c \in CPUs, NEW p \in Procs, SwitchWay(p, c) PROVE FamilyInv'
    BY <1>t, <1>9, Executing, SMTT(30) DEF SwitchWay, YieldLock, SwitchAway,
       YieldReturn, FirstRun, On, Still, procVars, threadVars, FamilyInv, StateAt,
       Interruptible
  <1>10. ASSUME NEW c \in CPUs, NEW p \in Procs, SchedWay(c, p) PROVE FamilyInv'
    BY <1>t, <1>10, SMTT(30) DEF SchedWay, SwitchTo, NextSlotOf, SwitchedBack, On,
       Still, procVars, threadVars, FamilyInv
  <1>11. ASSUME NEW c \in CPUs, NEW q \in Procs, ClockWay(c, q) PROVE FamilyInv'
    BY <1>t, <1>11, SMTT(30) DEF ClockWay, TimerTaken, Tick, TickSlot, Awaken,
       TickDone, On, Still, procVars, threadVars, FamilyInv
  <1>12. ASSUME NEW c \in CPUs, NEW p \in Procs, TrapWay(c, p) PROVE FamilyInv'
    BY <1>t, <1>12, SMTT(30) DEF TrapWay, HandlerDone, HandlerExit, HandlerYield,
       On, Still, procVars, threadVars, FamilyInv
  <1>13. ASSUME UNCHANGED vars PROVE FamilyInv'
    BY <1>t, <1>13, Zenon DEF vars, procVars, threadVars, FamilyInv
  <1>14. ASSUME NEW c \in CPUs, NEW p \in Procs, NEW q \in Procs, IoWay(p, c, q)
         PROVE  FamilyInv'
    BY <1>t, <1>14, Executing, SMTT(30) DEF IoWay, TakeFault, StartIo, SetLocals,
       EndIo, ClearLocals, WakeIo, On, Still, procVars, threadVars, FamilyInv,
       StateAt
  <1> QED
    BY <1>1, <1>2, <1>3, <1>4, <1>5, <1>6, <1>7, <1>8, <1>9, <1>10, <1>11, <1>12,
       <1>13, <1>14, Zenon DEF AnyWay

\* A parent that sleeps while a child is a zombie is about to be woken.
LEMMA WokenStep ==
  ASSUME IInv, AnyWay
  PROVE  WokenInv'
  <1>t. /\ state \in [Procs -> States] /\ parent \in [Procs -> Procs \cup {None}]
        /\ chan \in [Procs -> Nat \cup {None}] /\ pc \in [Procs -> PCs]
        /\ loc \in [Procs -> Locals]
        /\ WokenInv
    BY Zenon DEF IInv, TypeOK, ProcType, ThreadType
  <1>1. ASSUME NEW c \in CPUs, NEW p \in Procs, NEW to \in PCs,
               NEW k \in Nat, CallWay(p, c, to, k)
        PROVE  WokenInv'
    BY <1>t, <1>1, SMTT(30) DEF CallWay, Hop, CallKill, SetLocals, CallSleep, On,
       Still, procVars, threadVars, WokenInv, Asleep, WakeComing
  <1>2. ASSUME NEW c \in CPUs, NEW p \in Procs, NEW q \in Procs, ScanWay(p, c, q)
        PROVE  WokenInv'
    BY <1>t, <1>2, SMTT(30) DEF ScanWay, ScanNext, SetLocals, ScanReturn,
       ClearLocals, KillFound, On, Still, procVars, threadVars, WokenInv, Asleep,
       WakeComing
  <1>3. ASSUME NEW c \in CPUs, NEW p \in Procs, NEW q \in Procs, ForkWay(p, c, q)
        PROVE  WokenInv'
    BY <1>t, <1>3, Threadless, Forked, SMTT(30) DEF ForkWay, AllocTake, SetLocals,
       AllocFail, freeproc, ClearLocals, ParentSet, ChildRunnable, On, Still,
       procVars, threadVars, WokenInv, Asleep, WakeComing
  <1>4. ASSUME NEW c \in CPUs, NEW p \in Procs, NEW q \in Procs, ExitWay(p, c, q)
        PROVE  WokenInv'
    <2>1. CASE ReparentChild(p, c, q)
      <3>1. HoldsWait(p) /\ loc[p].w = 1
        BY <2>1, Zenon DEF ReparentChild, On, HoldsWait, IInv, LocInv
      <3>2. \A r \in Procs : pc[r] # "wakeup"
        BY <2>1, <3>1, WaitHolder, Zenon DEF HoldsWait, ReparentChild, On
      <3>3. \A a \in Procs : ~WakeComing(a)
        BY <3>2, Zenon DEF WakeComing
      <3>4. /\ UNCHANGED <<state, chan>>
            /\ \A r \in Procs \ {q} : parent'[r] = parent[r]
            /\ parent'[q] = initproc
            /\ pc'[p] = "wakeup" /\ loc'[p].chan = initproc /\ loc'[p].w = 1
        BY <2>1, <1>t, <3>1, Zenon DEF ReparentChild, SetLocals
      <3>5. WakeComing(initproc)'
        BY <3>4, Numbers, Zenon DEF WakeComing
      <3> QED  BY <1>t, <3>3, <3>4, <3>5, Numbers DEF WokenInv, Asleep
    <2>2. CASE BecomeZombie(p, c)
      <3>1. /\ UNCHANGED <<chan, parent>>
            /\ \A r \in Procs \ {p} : pc'[r] = pc[r] /\ loc'[r] = loc[r] /\ state'[r] = state[r]
            /\ state'[p] = "ZOMBIE"
        BY <2>2, <1>t, Zenon DEF BecomeZombie, ClearLocals, SetLocals
      <3>2. \A a \in Procs : parent[p] = a => ~Asleep(a)
        BY <2>2, Zenon DEF IInv, ParentAwake, BecomeZombie, On
      <3>3. \A a \in Procs : WakeComing(a) => WakeComing(a)'
        BY <2>2, <3>1, Zenon DEF WakeComing, BecomeZombie, On
      <3> QED  BY <1>t, <3>1, <3>2, <3>3, Zenon DEF WokenInv, Asleep
    <2> QED
      BY <1>t, <1>4, <2>1, <2>2, SMTT(30) DEF ExitWay, TakeWait, ReparentDone,
         SetLocals, On, Still, procVars, threadVars, WokenInv, Asleep, WakeComing
  <1>5. ASSUME NEW c \in CPUs, NEW p \in Procs, NEW q \in Procs, WakeWay(p, c, q)
        PROVE  WokenInv'
    <2>1. CASE WakeSlot(p, c, q)
      <3> SUFFICES ASSUME NEW a \in Procs, NEW b \in Procs,
                          Asleep(a)', parent'[b] = a, state'[b] = "ZOMBIE"
                   PROVE  WakeComing(a)'
        BY Zenon DEF WokenInv
      <3>1. /\ \A r \in Procs \ {q} : state'[r] = state[r]
            /\ state'[q] # state[q] => state[q] = "SLEEPING" /\ state'[q] = "RUNNABLE"
            /\ UNCHANGED <<chan, parent, pc>>
        BY <2>1, <1>t, Zenon DEF WakeSlot, Awaken
      <3>2. Asleep(a) /\ parent[b] = a /\ state[b] = "ZOMBIE"
        BY <3>1, Zenon DEF Asleep
      <3>3. PICK r \in Procs : pc[r] = "wakeup" /\ loc[r].chan = a /\ loc[r].w <= a
        BY <1>t, <3>2, Zenon DEF WokenInv, WakeComing
      <3>4. CASE r # p
        BY <2>1, <3>1, <3>3, <3>4, Zenon DEF WakeSlot, SetLocals, WakeComing
      <3>5. CASE r = p
        <4>1. a # p
          BY <2>1, <3>2, Executing, Zenon DEF WakeSlot, On, StateAt, Asleep
        <4>2. a # q
          <5>1. CASE q = p
            BY <5>1, <4>1, Zenon
          <5>2. CASE q # p /\ a = q
            <6>1. Awaken(q, a)
              BY <2>1, <3>3, <3>5, <5>2, Zenon DEF WakeSlot
            <6>2. state'[a] = "RUNNABLE"
              BY <1>t, <3>2, <5>2, <6>1, Zenon DEF Awaken, Asleep
            <6> QED  BY <6>2, Zenon DEF Asleep
          <5> QED  BY <5>1, <5>2, Zenon
        <4>3. q <= a
          BY <2>1, <3>3, <3>5, Zenon DEF WakeSlot
        <4>4. q + 1 <= a
          BY <4>2, <4>3, Numbers
        <4> QED  BY <2>1, <3>1, <3>3, <3>5, <4>4, Zenon DEF WakeSlot, SetLocals,
                    WakeComing
      <3> QED  BY <3>4, <3>5, Zenon
    <2>2. CASE WakeDone(p, c)
      <3>1. /\ UNCHANGED <<state, chan, parent>>
            /\ \A r \in Procs \ {p} : pc'[r] = pc[r] /\ loc'[r] = loc[r]
        BY <2>2, <1>t, Zenon DEF WakeDone, procVars, SetLocals
      <3>2. \A a \in Procs : ~(loc[p].w <= a)
        BY <2>2, <1>t, Numbers, FieldTypes, ProcAssumption DEF WakeDone
      <3>3. \A a \in Procs : WakeComing(a) => WakeComing(a)'
        BY <3>1, <3>2, Zenon DEF WakeComing
      <3> QED  BY <1>t, <3>1, <3>3, Zenon DEF WokenInv, Asleep
    <2> QED  BY <1>5, <2>1, <2>2, Zenon DEF WakeWay
  <1>6. ASSUME NEW c \in CPUs, NEW p \in Procs, NEW q \in Procs, WaitWay(p, c, q)
        PROVE  WokenInv'
    BY <1>t, <1>6, SMTT(30) DEF WaitWay, WaitNext, SetLocals, WaitReap, freeproc,
       ClearLocals, WaitReturn, WaitSleep, On, Still, procVars, threadVars,
       WokenInv, Asleep, WakeComing
  <1>7. ASSUME NEW c \in CPUs, NEW p \in Procs, TimedWay(p, c) PROVE WokenInv'
    BY <1>t, <1>7, SMTT(30) DEF TimedWay, SleepStart, SetLocals, SleepOver,
       ClearLocals, SleepMore, On, Still, procVars, threadVars, WokenInv, Asleep,
       WakeComing
  <1>8. ASSUME NEW c \in CPUs, NEW p \in Procs, SleepWay(p, c) PROVE WokenInv'
    <2>1. CASE FallAsleep(p, c)
      <3>1. /\ UNCHANGED parent
            /\ \A r \in Procs \ {p} : pc'[r] = pc[r] /\ state'[r] = state[r] /\ chan'[r] = chan[r]
            /\ UNCHANGED loc /\ state'[p] = "SLEEPING" /\ chan'[p] = loc[p].chan
        BY <2>1, <1>t, Zenon DEF FallAsleep
      <3>2. loc[p].chan = p => \A b \in Procs : parent[b] = p => state[b] # "ZOMBIE"
        BY <2>1, Zenon DEF IInv, NoneMissed, FallAsleep, On
      <3>3. \A a \in Procs : WakeComing(a) => WakeComing(a)'
        BY <2>1, <3>1, Zenon DEF WakeComing, FallAsleep, On
      <3> QED  BY <1>t, <3>1, <3>2, <3>3, Zenon DEF WokenInv, Asleep
    <2> QED
      BY <1>t, <1>8, <2>1, Numbers, SMTT(30) DEF SleepWay, LockSelf, Awake,
         RelockTicks, SetLocals, RelockWait, On, Still, procVars, threadVars,
         WokenInv, Asleep, WakeComing
  <1>9. ASSUME NEW c \in CPUs, NEW p \in Procs, SwitchWay(p, c) PROVE WokenInv'
    BY <1>t, <1>9, SMTT(30) DEF SwitchWay, YieldLock, SwitchAway, YieldReturn,
       FirstRun, On, Still, procVars, threadVars, WokenInv, Asleep, WakeComing
  <1>10. ASSUME NEW c \in CPUs, NEW p \in Procs, SchedWay(c, p) PROVE WokenInv'
    BY <1>t, <1>10, SMTT(30) DEF SchedWay, SwitchTo, NextSlotOf, SwitchedBack, On,
       Still, procVars, threadVars, WokenInv, Asleep, WakeComing
  <1>11. ASSUME NEW c \in CPUs, NEW q \in Procs, ClockWay(c, q) PROVE WokenInv'
    BY <1>t, <1>11, SMTT(30) DEF ClockWay, TimerTaken, Tick, TickSlot, Awaken,
       TickDone, On, Still, procVars, threadVars, WokenInv, Asleep, WakeComing
  <1>12. ASSUME NEW c \in CPUs, NEW p \in Procs, TrapWay(c, p) PROVE WokenInv'
    BY <1>t, <1>12, SMTT(30) DEF TrapWay, HandlerDone, HandlerExit, HandlerYield,
       On, Still, procVars, threadVars, WokenInv, Asleep, WakeComing, IInv, CpuInv,
       Interruptible
  <1>13. ASSUME UNCHANGED vars PROVE WokenInv'
    BY <1>t, <1>13, Zenon DEF vars, procVars, threadVars, WokenInv, Asleep,
       WakeComing
  <1>14. ASSUME NEW c \in CPUs, NEW p \in Procs, NEW q \in Procs, IoWay(p, c, q)
         PROVE  WokenInv'
    BY <1>t, <1>14, SMTT(30) DEF IoWay, TakeFault, StartIo, SetLocals, EndIo,
       ClearLocals, WakeIo, On, Still, procVars, threadVars, WokenInv, Asleep,
       WakeComing
  <1> QED
    BY <1>1, <1>2, <1>3, <1>4, <1>5, <1>6, <1>7, <1>8, <1>9, <1>10, <1>11, <1>12,
       <1>13, <1>14, Zenon DEF AnyWay
================================================================================
